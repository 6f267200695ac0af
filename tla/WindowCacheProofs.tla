--------------------------- MODULE WindowCacheProofs ---------------------------
(***************************************************************************)
(* For every page size, tail, text and context length that the assumptions *)
(* of DocumentSession allow, and for every document: the rows of a window  *)
(* are where the code takes them to be, its context is one contiguous      *)
(* piece of the document, and the queries of a page see that page.         *)
(*                                                                         *)
(* The argument goes through a closed form.  The i-th row of the prompt of *)
(* a window, the page counters after it and its coordinates are functions  *)
(* of i, of the window's first page, of its pages and of the rows before   *)
(* them (RowItem, StateAt); one step of the counters goes from one value   *)
(* to the next (StateNext), so prefilling, which is a recursive function,  *)
(* ends with all of them (PrefillingIs).  CacheHolds says what a cache     *)
(* holds: prefilling and restoring make it true (PrefilledHolds), each     *)
(* token that is fed keeps it (EmitHolds), and a window that retains its   *)
(* tail leaves what the next one prefills from (PrefixRetained,            *)
(* RowsRetained).  CacheInv is the inductive strengthening; with the       *)
(* invariant of the session it implies the three properties.               *)
(***************************************************************************)
EXTENDS WindowCache, DocumentProofs, WellFoundedInduction, SequenceTheorems,
        FiniteSetTheorems

-----------------------------------------------------------------------------
(* Quotients and remainders.                                               *)

(* Division by a positive number: quotient and remainder.                  *)
LEMMA DivisionIs ==
  ASSUME NEW k \in Nat, NEW n \in Nat \ {0}
  PROVE  /\ k \div n \in Nat /\ k % n \in 0..(n - 1)
         /\ k = n * (k \div n) + (k % n)
OBVIOUS

(* Quotient and remainder are unique.                                      *)
LEMMA DivisionOne ==
  ASSUME NEW q \in Nat, NEW a \in Nat, NEW p \in Nat, NEW b \in Nat, NEW n \in Nat \ {0},
         a < n, b < n, n * q + a = n * p + b
  PROVE  q = p /\ a = b
<1>1. ASSUME NEW x \in Nat, NEW y \in Nat, x < y PROVE n * x + n <= n * y
  <2>1. PICK d \in Nat : y = x + 1 + d
    <3>1. y - x - 1 \in Nat /\ y = x + 1 + (y - x - 1) BY <1>1
    <3> QED BY <3>1
  <2>2. n * y = n * x + n + n * d BY <2>1
  <2>3. n * d \in Nat BY <2>1
  <2>4. n * x \in Nat OBVIOUS
  <2> QED BY <2>2, <2>3, <2>4
<1>2. n * q \in Nat /\ n * p \in Nat OBVIOUS
<1>3. ~(q < p)
  <2>1. ASSUME q < p PROVE FALSE
    <3>1. n * q + n <= n * p BY <1>1, <2>1
    <3> QED BY <3>1, <1>2
  <2> QED BY <2>1
<1>4. ~(p < q)
  <2>1. ASSUME p < q PROVE FALSE
    <3>1. n * p + n <= n * q BY <1>1, <2>1
    <3> QED BY <3>1, <1>2
  <2> QED BY <2>1
<1>5. q = p BY <1>3, <1>4
<1>6. a = b BY <1>5, <1>2
<1> QED BY <1>5, <1>6

(* The quotient and remainder of a number written as a multiple and a      *)
(* rest.                                                                   *)
LEMMA DivisionOf ==
  ASSUME NEW q \in Nat, NEW a \in Nat, NEW n \in Nat \ {0}, a < n
  PROVE  (n * q + a) \div n = q /\ (n * q + a) % n = a
<1>1. n * q + a \in Nat OBVIOUS
<1>2. PICK k \in Nat : k = n * q + a BY <1>1
<1>3. /\ k \div n \in Nat /\ k % n \in 0..(n - 1) /\ k = n * (k \div n) + (k % n)
  BY DivisionIs
<1>4. PICK p \in Nat, b \in Nat : p = k \div n /\ b = k % n /\ b < n BY <1>3
<1>5. n * q + a = n * p + b BY <1>2, <1>3, <1>4
<1>6. q = p /\ a = b BY <1>4, <1>5, DivisionOne
<1> QED BY <1>2, <1>4, <1>6

(* The next number, and numbers below a multiple.                          *)
LEMMA DivisionNext ==
  ASSUME NEW k \in Nat, NEW n \in Nat \ {0}
  PROVE  /\ k % n = n - 1 => (k + 1) \div n = (k \div n) + 1 /\ (k + 1) % n = 0
         /\ k % n # n - 1 => (k + 1) \div n = k \div n /\ (k + 1) % n = (k % n) + 1
<1>1. /\ k \div n \in Nat /\ k % n \in 0..(n - 1) /\ k = n * (k \div n) + (k % n)
  BY DivisionIs
<1>2. PICK q \in Nat, a \in Nat : q = k \div n /\ a = k % n /\ a < n BY <1>1
<1>3. k = n * q + a BY <1>1, <1>2
<1>4. n * q \in Nat OBVIOUS
<1>5. ASSUME a = n - 1 PROVE (k + 1) \div n = q + 1 /\ (k + 1) % n = 0
  <2>1. k + 1 = n * (q + 1) + 0
    <3>1. n * (q + 1) = n * q + n OBVIOUS
    <3> QED BY <1>3, <1>4, <1>5, <3>1
  <2> QED BY <2>1, DivisionOf
<1>6. ASSUME a # n - 1 PROVE (k + 1) \div n = q /\ (k + 1) % n = a + 1
  <2>1. k + 1 = n * q + (a + 1) /\ a + 1 < n
    BY <1>2, <1>3, <1>4, <1>6
  <2> QED BY <2>1, DivisionOf
<1> QED BY <1>2, <1>5, <1>6

(* A number below a multiple has a smaller quotient.                       *)
LEMMA DivisionBelow ==
  ASSUME NEW k \in Nat, NEW n \in Nat \ {0}, NEW v \in Nat, k < v * n
  PROVE  k \div n < v
<1>1. PICK q \in Nat, a \in Nat : q = k \div n /\ a < n /\ k = n * q + a
  BY DivisionIs
<1>2. ASSUME v <= q PROVE FALSE
  <2>1. PICK d \in Nat : q = v + d
    <3>1. q - v \in Nat /\ q = v + (q - v) BY <1>2
    <3> QED BY <3>1
  <2>2. n * q = v * n + n * d BY <2>1
  <2>3. n * d \in Nat /\ v * n \in Nat BY <2>1
  <2> QED BY <1>1, <2>2, <2>3
<1> QED BY <1>1, <1>2

-----------------------------------------------------------------------------
(* The geometry of a window: where its pages lie, what each row of its     *)
(* prompt is, and the page counters after each row, in closed form.        *)

(* The page of a row of the window's pages, from 0, and its place there.   *)
Nth(lead, i) == (i - lead - 1) \div PageRows
Place(lead, i) == (i - lead - 1) % PageRows
PagesEnd(lead, views) == lead + views * PageRows

(* A window: whether it reuses a tail, its first page, its rows before the *)
(* pages, its pages.                                                       *)
Shape(reuse, next, lead, views) ==
  /\ reuse \in {0, 1} /\ next \in Nat /\ views \in Nat \ {0}
  /\ lead \in Nat \ {0} /\ lead <= PageRows
  /\ reuse = 0 => lead = 1
  /\ reuse = 1 => next # 0 /\ lead # 1

(* What its i-th row is in the prompt.                                     *)
RowItem(reuse, next, lead, views, i) ==
  IF i <= lead
  THEN IF reuse = 0 THEN Item(BOS, NoPage, 0)
       ELSE IF i = 1 THEN Item(PAGE, next - 1, 0)
       ELSE Item(IMAGE, next - 1, ImageRows - lead + i)
  ELSE IF i <= PagesEnd(lead, views) THEN PageItem(next + Nth(lead, i), Place(lead, i))
  ELSE Item(TEXT, NoPage, i - PagesEnd(lead, views))

(* The page markers and the prompt pages counted up to the i-th row.       *)
MarkersAt(reuse, lead, views, i) ==
  IF i <= lead THEN IF i = 0 THEN 0 ELSE reuse
  ELSE IF i <= PagesEnd(lead, views) THEN Nth(lead, i) + 1 + reuse
  ELSE views + reuse
PromptAt(reuse, lead, views, i) ==
  IF i <= lead THEN IF i <= 1 THEN 0 ELSE reuse
  ELSE IF i <= PagesEnd(lead, views)
  THEN IF Place(lead, i) = 0 THEN Nth(lead, i) + reuse ELSE Nth(lead, i) + 1 + reuse
  ELSE views + reuse

(* The tokens counted up to the i-th row: of no page, of the nth page of   *)
(* the window, and of a page of the counters, where a reused tail is page  *)
(* one.                                                                    *)
CountOfRest(reuse, lead, views, i) ==
  IF reuse = 1 \/ i = 0 THEN 0
  ELSE IF i <= PagesEnd(lead, views) THEN 1 ELSE 1 + i - PagesEnd(lead, views)
CountOfPage(lead, views, i, nth) ==
  IF i <= lead THEN 0
  ELSE IF i <= PagesEnd(lead, views)
  THEN IF nth < Nth(lead, i) THEN PageRows
       ELSE IF nth = Nth(lead, i) THEN Place(lead, i) + 1 ELSE 0
  ELSE PageRows
CountAt(reuse, lead, views, i, page) ==
  IF page = 0 THEN CountOfRest(reuse, lead, views, i)
  ELSE IF page <= reuse THEN IF i <= lead THEN i ELSE lead
  ELSE CountOfPage(lead, views, i, page - 1 - reuse)

(* The page counters after the i-th row.                                   *)
StateAt(reuse, next, lead, views, i) ==
  [markers |-> MarkersAt(reuse, lead, views, i), prompt |-> PromptAt(reuse, lead, views, i),
   capacity |-> views + reuse + 1, parity |-> (next - reuse) % 2, started |-> FALSE,
   counts |-> [p \in 0..(views + reuse) |-> CountAt(reuse, lead, views, i, p)]]

(* The counter that the i-th row is counted by, and its count so far.      *)
RopeAt(reuse, lead, views, i) ==
  IF i <= lead THEN reuse ELSE IF i <= PagesEnd(lead, views) THEN Nth(lead, i) + 1 + reuse ELSE 0
TokenAt(lead, views, i) ==
  IF i <= lead THEN i - 1
  ELSE IF i <= PagesEnd(lead, views) THEN Place(lead, i) ELSE i - PagesEnd(lead, views)

(* A row of the pages lies on one of them.                                 *)
LEMMA PlaceIs ==
  ASSUME NEW lead \in Nat, NEW views \in Nat, NEW i \in Nat,
         i > lead, i <= PagesEnd(lead, views)
  PROVE  Nth(lead, i) \in 0..(views - 1) /\ Place(lead, i) \in 0..ImageRows
<1>1. PageRows \in Nat \ {0} /\ PageRows = ImageRows + 1 /\ ImageRows \in Nat \ {0}
  BY Positive DEF PageRows
<1>2. PICK k \in Nat : k = i - lead - 1
  OBVIOUS
<1>3. views * PageRows \in Nat
  BY <1>1
<1>4. k < views * PageRows
  BY <1>2, <1>3 DEF PagesEnd
<1>5. k \div PageRows < views
  BY <1>1, <1>4, DivisionBelow
<1>6. k \div PageRows \in Nat /\ k % PageRows \in 0..(PageRows - 1)
  BY <1>1, DivisionIs
<1>7. Nth(lead, i) = k \div PageRows /\ Place(lead, i) = k % PageRows
  BY <1>2 DEF Nth, Place
<1> QED BY <1>1, <1>5, <1>6, <1>7

(* The next row is the next place of the page, or starts the next page.    *)
LEMMA PlaceNext ==
  ASSUME NEW lead \in Nat, NEW i \in Nat
  PROVE  /\ i = lead + 1 => Nth(lead, i) = 0 /\ Place(lead, i) = 0
         /\ i > lead /\ Place(lead, i) = ImageRows =>
              Nth(lead, i + 1) = Nth(lead, i) + 1 /\ Place(lead, i + 1) = 0
         /\ i > lead /\ Place(lead, i) # ImageRows =>
              Nth(lead, i + 1) = Nth(lead, i) /\ Place(lead, i + 1) = Place(lead, i) + 1
<1>1. PageRows \in Nat \ {0} /\ PageRows = ImageRows + 1 /\ ImageRows \in Nat \ {0}
  BY Positive DEF PageRows
<1>2. ASSUME i = lead + 1 PROVE Nth(lead, i) = 0 /\ Place(lead, i) = 0
  <2>1. i - lead - 1 = PageRows * 0 + 0
    BY <1>1, <1>2
  <2>2. (PageRows * 0 + 0) \div PageRows = 0 /\ (PageRows * 0 + 0) % PageRows = 0
    BY <1>1, DivisionOf
  <2> QED BY <2>1, <2>2 DEF Nth, Place
<1>3. ASSUME i > lead
      PROVE  /\ Place(lead, i) = ImageRows =>
                  Nth(lead, i + 1) = Nth(lead, i) + 1 /\ Place(lead, i + 1) = 0
             /\ Place(lead, i) # ImageRows =>
                  Nth(lead, i + 1) = Nth(lead, i) /\ Place(lead, i + 1) = Place(lead, i) + 1
  <2>1. PICK k \in Nat : k = i - lead - 1
    BY <1>3
  <2>2. k + 1 = (i + 1) - lead - 1
    BY <2>1
  <2>3. /\ Nth(lead, i) = k \div PageRows /\ Place(lead, i) = k % PageRows
        /\ Nth(lead, i + 1) = (k + 1) \div PageRows /\ Place(lead, i + 1) = (k + 1) % PageRows
    BY <2>1, <2>2 DEF Nth, Place
  <2>4. PageRows - 1 = ImageRows
    BY <1>1
  <2>5. /\ k % PageRows = ImageRows => (k + 1) \div PageRows = (k \div PageRows) + 1
          /\ (k + 1) % PageRows = 0
        /\ k % PageRows # ImageRows => (k + 1) \div PageRows = k \div PageRows
          /\ (k + 1) % PageRows = (k % PageRows) + 1
    <3>1. PageRows \in Nat \ {0}
      BY <1>1
    <3> QED BY <2>4, <3>1, DivisionNext, Zenon
  <2> QED BY <2>3, <2>5, Zenon
<1> QED BY <1>2, <1>3

(* The last row of the pages.                                              *)
LEMMA PlaceLast ==
  ASSUME NEW lead \in Nat, NEW views \in Nat \ {0}
  PROVE  /\ PagesEnd(lead, views) \in Nat /\ PagesEnd(lead, views) >= lead + PageRows
         /\ Nth(lead, PagesEnd(lead, views)) = views - 1
         /\ Place(lead, PagesEnd(lead, views)) = ImageRows
<1>1. PageRows \in Nat \ {0} /\ PageRows = ImageRows + 1 /\ ImageRows \in Nat \ {0}
  BY Positive DEF PageRows
<1>2. /\ views * PageRows \in Nat /\ (views - 1) * PageRows \in Nat
      /\ (views - 1) * PageRows + PageRows = views * PageRows
  BY PagesOfRows
<1>3. PagesEnd(lead, views) - lead - 1 = PageRows * (views - 1) + ImageRows
  <2>1. PageRows * (views - 1) = (views - 1) * PageRows
    BY <1>1
  <2> QED BY <1>1, <1>2, <2>1 DEF PagesEnd
<1>4. /\ (PageRows * (views - 1) + ImageRows) \div PageRows = views - 1
      /\ (PageRows * (views - 1) + ImageRows) % PageRows = ImageRows
  BY <1>1, DivisionOf
<1> QED BY <1>1, <1>2, <1>3, <1>4 DEF Nth, Place, PagesEnd

(* The row at a place of a page of the window.                             *)
LEMMA PlaceOf ==
  ASSUME NEW lead \in Nat, NEW nth \in Nat, NEW at \in 0..ImageRows
  PROVE  LET i == lead + nth * PageRows + 1 + at
         IN  i \in Nat /\ i > lead /\ Nth(lead, i) = nth /\ Place(lead, i) = at
<1>1. PageRows \in Nat \ {0} /\ PageRows = ImageRows + 1 /\ ImageRows \in Nat \ {0}
  BY Positive DEF PageRows
<1>2. nth * PageRows \in Nat /\ nth * PageRows = PageRows * nth
  BY <1>1
<1>3. (PageRows * nth + at) \div PageRows = nth /\ (PageRows * nth + at) % PageRows = at
  BY <1>1, DivisionOf
<1>4. (lead + nth * PageRows + 1 + at) - lead - 1 = PageRows * nth + at
  BY <1>1, <1>2
<1> QED BY <1>1, <1>2, <1>3, <1>4 DEF Nth, Place

-----------------------------------------------------------------------------
(* The counters step from one row of the prompt to the next as the closed  *)
(* form says.                                                              *)

(* The counters before a row, and the token of the row.                    *)
LEMMA BeforeRow ==
  ASSUME NEW reuse, NEW next, NEW lead, NEW views, Shape(reuse, next, lead, views),
         NEW i \in Nat \ {0}, reuse = 1 => i <= PagesEnd(lead, views)
  PROVE  LET m == MarkersAt(reuse, lead, views, i - 1)
             n == PromptAt(reuse, lead, views, i - 1)
             tok == RowItem(reuse, next, lead, views, i).tok
             nth == Nth(lead, i)
         IN  /\ i <= lead /\ reuse = 0 => tok = BOS /\ m = 0 /\ n = 0
             /\ i <= lead /\ reuse = 1 =>
                  /\ i = 1 => tok = PAGE /\ m = 0 /\ n = 0
                  /\ i # 1 => tok = IMAGE /\ m = 1 /\ n = IF i = 2 THEN 0 ELSE 1
             /\ i > lead /\ i <= PagesEnd(lead, views) =>
                  /\ nth \in 0..(views - 1) /\ Place(lead, i) \in 0..ImageRows
                  /\ Place(lead, i) = 0 => tok = PAGE /\ m = nth + reuse /\ n = nth + reuse
                  /\ Place(lead, i) # 0 =>
                       /\ tok = IMAGE /\ m = nth + 1 + reuse
                       /\ n = IF Place(lead, i) = 1 THEN nth + reuse ELSE nth + 1 + reuse
             /\ i > PagesEnd(lead, views) => tok = TEXT /\ m = views /\ n = views /\ reuse = 0
<1> DEFINE m == MarkersAt(reuse, lead, views, i - 1)
           n == PromptAt(reuse, lead, views, i - 1)
           tok == RowItem(reuse, next, lead, views, i).tok
           end == PagesEnd(lead, views)
<1>1. /\ reuse \in {0, 1} /\ lead \in Nat \ {0} /\ views \in Nat \ {0}
      /\ (reuse = 0 => lead = 1) /\ (reuse = 1 => lead # 1)
  BY DEF Shape
<1>2. /\ end \in Nat /\ end >= lead + PageRows /\ Nth(lead, end) = views - 1
      /\ Place(lead, end) = ImageRows /\ PageRows \in Nat /\ ImageRows \in Nat \ {0}
      /\ PageRows = ImageRows + 1
  BY <1>1, PlaceLast, Positive DEF PageRows
<1> HIDE DEF end
<1>3. CASE i <= lead
  <2>1. i - 1 <= lead /\ i - 1 \in Nat /\ ~(i > lead) /\ ~(i > end)
    BY <1>1, <1>2, <1>3
  <2>2. m = (IF i = 1 THEN 0 ELSE reuse) /\ n = (IF i - 1 <= 1 THEN 0 ELSE reuse)
    BY <2>1 DEF MarkersAt, PromptAt
  <2>3. /\ reuse = 0 => tok = BOS
        /\ reuse = 1 => tok = IF i = 1 THEN PAGE ELSE IMAGE
    BY <1>1, <1>3 DEF RowItem, Item
  <2>4. i - 1 <= 1 <=> i = 1 \/ i = 2
    OBVIOUS
  <2> QED BY <1>1, <1>3, <2>1, <2>2, <2>3, <2>4 DEF end
<1>4. CASE i > lead /\ i <= end
  <2>1. Nth(lead, i) \in 0..(views - 1) /\ Place(lead, i) \in 0..ImageRows
    BY <1>1, <1>4, PlaceIs DEF end
  <2>2. tok = IF Place(lead, i) = 0 THEN PAGE ELSE IMAGE
    BY <1>1, <1>4 DEF RowItem, Item, PageItem, end
  <2>3. CASE i = lead + 1
    <3>1. Nth(lead, i) = 0 /\ Place(lead, i) = 0
      BY <1>1, <2>3, PlaceNext
    <3>2. i - 1 = lead
      BY <1>1, <2>3
    <3>3. m = reuse /\ n = reuse
      BY <1>1, <3>2 DEF MarkersAt, PromptAt
    <3> HIDE DEF m, n, tok
    <3>4. ~(i <= lead) /\ ~(i > end)
      BY <1>1, <1>2, <1>4
    <3>5. m = Nth(lead, i) + reuse /\ n = Nth(lead, i) + reuse
      BY <1>1, <3>1, <3>3
    <3> QED BY <2>1, <2>2, <3>1, <3>4, <3>5 DEF m, n, tok, end
  <2>4. CASE i # lead + 1
    <3>1. PICK j \in Nat : j = i - 1
      OBVIOUS
    <3>2. j > lead /\ j <= end /\ j + 1 = i /\ ~(j <= lead)
      BY <1>1, <1>2, <1>4, <2>4, <3>1
    <3>3. Nth(lead, j) \in 0..(views - 1) /\ Place(lead, j) \in 0..ImageRows
      BY <1>1, <3>2, PlaceIs DEF end
    <3>4. /\ Place(lead, j) = ImageRows => Nth(lead, i) = Nth(lead, j) + 1 /\ Place(lead, i) = 0
          /\ Place(lead, j) # ImageRows =>
               Nth(lead, i) = Nth(lead, j) /\ Place(lead, i) = Place(lead, j) + 1
      BY <1>1, <3>2, PlaceNext
    <3>5. /\ m = Nth(lead, j) + 1 + reuse
          /\ n = IF Place(lead, j) = 0 THEN Nth(lead, j) + reuse ELSE Nth(lead, j) + 1 + reuse
      BY <3>1, <3>2 DEF MarkersAt, PromptAt, end
    <3> HIDE DEF m, n, tok
    <3>6. Place(lead, i) = 0 => m = Nth(lead, i) + reuse /\ n = Nth(lead, i) + reuse
      BY <1>1, <1>2, <3>3, <3>4, <3>5
    <3>7. Place(lead, i) # 0 =>
            /\ m = Nth(lead, i) + 1 + reuse
            /\ n = IF Place(lead, i) = 1 THEN Nth(lead, i) + reuse ELSE Nth(lead, i) + 1 + reuse
      BY <1>1, <1>2, <3>3, <3>4, <3>5
    <3>8. ~(i <= lead) /\ ~(i > end)
      BY <1>1, <1>2, <1>4
    <3> QED BY <2>1, <2>2, <3>6, <3>7, <3>8 DEF m, n, tok, end
  <2> QED BY <2>3, <2>4
<1>5. CASE i > end
  <2>1. reuse = 0 /\ ~(i <= lead) /\ ~(i <= end)
    BY <1>1, <1>2, <1>5 DEF end
  <2>2. tok = TEXT
    BY <2>1 DEF RowItem, Item, end
  <2>3. i - 1 \in Nat /\ ~(i - 1 <= lead) /\ (i - 1 <= end => i - 1 = end)
    BY <1>1, <1>2, <1>5
  <2>4. m = views /\ n = views
    BY <1>1, <1>2, <2>1, <2>3 DEF MarkersAt, PromptAt, end
  <2> QED BY <2>1, <2>2, <2>4 DEF end
<1> QED BY <1>1, <1>2, <1>3, <1>4, <1>5

(* A row is counted once, by the counter of its page.                      *)
LEMMA CountNext ==
  ASSUME NEW reuse, NEW next, NEW lead, NEW views, Shape(reuse, next, lead, views),
         NEW i \in Nat \ {0}, reuse = 1 => i <= PagesEnd(lead, views)
  PROVE  /\ RopeAt(reuse, lead, views, i) \in 0..(views + reuse)
         /\ CountAt(reuse, lead, views, i - 1, RopeAt(reuse, lead, views, i))
              = TokenAt(lead, views, i)
         /\ TokenAt(lead, views, i) \in 0..(i - 1)
         /\ \A p \in 0..(views + reuse) :
              CountAt(reuse, lead, views, i, p)
                = IF p = RopeAt(reuse, lead, views, i)
                  THEN CountAt(reuse, lead, views, i - 1, p) + 1
                  ELSE CountAt(reuse, lead, views, i - 1, p)
<1> DEFINE end == PagesEnd(lead, views)
           rope == RopeAt(reuse, lead, views, i)
           Now(p) == CountAt(reuse, lead, views, i, p)
           Before(p) == CountAt(reuse, lead, views, i - 1, p)
<1>1. /\ reuse \in {0, 1} /\ lead \in Nat \ {0} /\ views \in Nat \ {0}
      /\ (reuse = 0 => lead = 1) /\ (reuse = 1 => lead # 1)
  BY DEF Shape
<1>2. /\ end \in Nat /\ end >= lead + PageRows /\ Nth(lead, end) = views - 1
      /\ Place(lead, end) = ImageRows /\ PageRows \in Nat /\ ImageRows \in Nat \ {0}
      /\ PageRows = ImageRows + 1
  BY <1>1, PlaceLast, Positive DEF PageRows
<1> HIDE DEF end
<1>3. CASE i <= lead
  <2>1. i - 1 <= lead /\ i - 1 \in Nat /\ i <= end /\ i - 1 <= end /\ i # 0
    BY <1>1, <1>2, <1>3
  <2>2. rope = reuse /\ TokenAt(lead, views, i) = i - 1
    BY <1>3 DEF RopeAt, TokenAt
  <2>3. ASSUME NEW p \in 0..(views + reuse), p > reuse
        PROVE  Now(p) = 0 /\ Before(p) = 0
    BY <1>1, <1>3, <2>1, <2>3 DEF CountAt, CountOfPage
  <2>4. CASE reuse = 0
    <3>1. i = 1 /\ lead = 1
      BY <1>1, <1>3, <2>4
    <3>2. Now(0) = 1 /\ Before(0) = 0
      BY <2>1, <2>4, <3>1 DEF CountAt, CountOfRest, end
    <3> HIDE DEF Now, Before
    <3>3. \A p \in 0..(views + reuse) : Now(p) = IF p = rope THEN Before(p) + 1 ELSE Before(p)
      <4>1. TAKE p \in 0..(views + reuse)
      <4>2. CASE p = 0 BY <2>2, <2>4, <3>2, <4>2
      <4>3. CASE p # 0 BY <1>1, <2>2, <2>3, <2>4, <4>3
      <4> QED BY <4>2, <4>3
    <3>4. rope \in 0..(views + reuse) /\ Before(rope) = TokenAt(lead, views, i)
          /\ TokenAt(lead, views, i) \in 0..(i - 1)
      BY <1>1, <2>2, <2>4, <3>1, <3>2
    <3> QED BY <3>3, <3>4 DEF Now, Before
  <2>5. CASE reuse = 1
    <3>1. Now(0) = 0 /\ Before(0) = 0
      BY <2>5 DEF CountAt, CountOfRest
    <3>2. Now(1) = i /\ Before(1) = i - 1
      BY <1>3, <2>1, <2>5 DEF CountAt
    <3> HIDE DEF Now, Before
    <3>3. \A p \in 0..(views + reuse) : Now(p) = IF p = rope THEN Before(p) + 1 ELSE Before(p)
      <4>1. TAKE p \in 0..(views + reuse)
      <4>2. CASE p = 0 BY <2>2, <2>5, <3>1, <4>2
      <4>3. CASE p = 1 BY <2>2, <2>5, <3>2, <4>3
      <4>4. CASE p > 1 BY <1>1, <2>2, <2>3, <2>5, <4>4
      <4> QED BY <4>2, <4>3, <4>4
    <3>4. rope \in 0..(views + reuse) /\ Before(rope) = TokenAt(lead, views, i)
          /\ TokenAt(lead, views, i) \in 0..(i - 1)
      BY <1>1, <2>2, <2>5, <3>2
    <3> QED BY <3>3, <3>4 DEF Now, Before
  <2> QED BY <1>1, <2>4, <2>5
<1>4. CASE i > lead /\ i <= end
  <2>1. Nth(lead, i) \in 0..(views - 1) /\ Place(lead, i) \in 0..ImageRows
    BY <1>1, <1>4, PlaceIs DEF end
  <2>2. rope = Nth(lead, i) + 1 + reuse /\ TokenAt(lead, views, i) = Place(lead, i)
    BY <1>1, <1>4 DEF RopeAt, TokenAt, end
  <2>3. PICK j \in Nat : j = i - 1
    OBVIOUS
  <2>4. j >= lead /\ j <= end /\ j + 1 = i /\ j # 0 /\ ~(i <= lead) /\ i # 0
    BY <1>1, <1>2, <1>4, <2>3
  <2>5. Now(0) = Before(0)
    BY <1>4, <2>3, <2>4 DEF CountAt, CountOfRest, end
  <2>6. reuse = 1 => Now(1) = lead /\ Before(1) = lead
    <3>1. reuse = 1 => Now(1) = lead
      BY <2>4 DEF CountAt
    <3>2. reuse = 1 => Before(1) = IF j <= lead THEN j ELSE lead
      BY <2>3 DEF CountAt
    <3> QED BY <1>1, <2>4, <3>1, <3>2
  <2>7. ASSUME NEW p \in 0..(views + reuse), p > reuse
        PROVE  /\ Now(p) = IF p = rope THEN Before(p) + 1 ELSE Before(p)
               /\ p = rope => Before(p) = Place(lead, i)
    <3>1. PICK nth \in Nat : nth = p - 1 - reuse
      BY <1>1, <2>7
    <3>2. Now(p) = CountOfPage(lead, views, i, nth)
            /\ Before(p) = CountOfPage(lead, views, j, nth)
      BY <1>1, <2>3, <2>7, <3>1 DEF CountAt
    <3>3. p = rope <=> nth = Nth(lead, i)
      BY <1>1, <2>1, <2>2, <3>1
    <3>4. Now(p) = IF nth < Nth(lead, i) THEN PageRows
                   ELSE IF nth = Nth(lead, i) THEN Place(lead, i) + 1 ELSE 0
      BY <1>4, <2>4, <3>2 DEF CountOfPage, end
    <3>5. CASE i = lead + 1
      <4>1. Nth(lead, i) = 0 /\ Place(lead, i) = 0
        BY <1>1, <3>5, PlaceNext
      <4>2. Before(p) = 0
        BY <1>1, <2>4, <3>2, <3>5 DEF CountOfPage
      <4> HIDE DEF Now, Before, rope
      <4> QED BY <3>1, <3>3, <3>4, <4>1, <4>2
    <3>6. CASE i # lead + 1
      <4>1. j > lead /\ ~(j <= lead)
        BY <1>1, <2>4, <3>6
      <4>2. Nth(lead, j) \in 0..(views - 1) /\ Place(lead, j) \in 0..ImageRows
        BY <1>1, <2>4, <4>1, PlaceIs DEF end
      <4>3. /\ Place(lead, j) = ImageRows => Nth(lead, i) = Nth(lead, j) + 1 /\ Place(lead, i) = 0
            /\ Place(lead, j) # ImageRows =>
                 Nth(lead, i) = Nth(lead, j) /\ Place(lead, i) = Place(lead, j) + 1
        BY <1>1, <2>4, <4>1, PlaceNext
      <4>4. Before(p) = IF nth < Nth(lead, j) THEN PageRows
                        ELSE IF nth = Nth(lead, j) THEN Place(lead, j) + 1 ELSE 0
        BY <2>4, <3>2, <4>1 DEF CountOfPage, end
      <4> HIDE DEF Now, Before, rope
      <4>5. CASE Place(lead, j) = ImageRows
        BY <1>2, <2>1, <3>1, <3>3, <3>4, <4>2, <4>3, <4>4, <4>5
      <4>6. CASE Place(lead, j) # ImageRows
        BY <1>2, <2>1, <3>1, <3>3, <3>4, <4>2, <4>3, <4>4, <4>6
      <4> QED BY <4>5, <4>6
    <3> QED BY <3>5, <3>6
  <2>8. rope \in 0..(views + reuse) /\ rope > reuse
    BY <1>1, <2>1, <2>2
  <2>9. TokenAt(lead, views, i) \in 0..(i - 1)
    <3>1. Place(lead, i) <= i - lead - 1
      <4>1. PICK k \in Nat : k = i - lead - 1
        BY <1>1, <1>4
      <4>2. PageRows \in Nat \ {0}
        BY Positive
      <4>3. k \div PageRows \in Nat /\ k % PageRows \in Nat
              /\ k = PageRows * (k \div PageRows) + (k % PageRows)
        BY <4>2, DivisionIs
      <4>4. k % PageRows <= k
        <5>1. PageRows * (k \div PageRows) \in Nat
          BY <4>2, <4>3
        <5> QED BY <4>3, <5>1
      <4> QED BY <4>1, <4>4 DEF Place
    <3> QED BY <1>1, <2>1, <2>2, <3>1
  <2> HIDE DEF Now, Before
  <2>10. \A p \in 0..(views + reuse) : Now(p) = IF p = rope THEN Before(p) + 1 ELSE Before(p)
    <3>1. TAKE p \in 0..(views + reuse)
    <3>2. CASE p = 0 BY <1>1, <2>5, <2>8, <3>2
    <3>3. CASE p = 1 /\ reuse = 1 BY <1>1, <2>6, <2>8, <3>3
    <3>4. CASE p > reuse BY <2>7, <3>4
    <3> QED BY <1>1, <3>2, <3>3, <3>4
  <2> QED BY <2>2, <2>7, <2>8, <2>9, <2>10 DEF Now, Before
<1>5. CASE i > end
  <2>1. reuse = 0 /\ ~(i <= lead) /\ ~(i <= end) /\ i # 0
    BY <1>1, <1>2, <1>5 DEF end
  <2>2. rope = 0 /\ TokenAt(lead, views, i) = i - end
    BY <2>1 DEF RopeAt, TokenAt, end
  <2>3. PICK j \in Nat : j = i - 1
    OBVIOUS
  <2>4. j # 0 /\ ~(j <= lead) /\ (j <= end => j = end)
    BY <1>1, <1>2, <1>5, <2>3
  <2>5. Now(0) = 1 + i - end /\ Before(0) = IF j <= end THEN 1 ELSE 1 + j - end
    BY <2>1, <2>3, <2>4 DEF CountAt, CountOfRest, end
  <2>6. ASSUME NEW p \in 0..(views + reuse), p # 0
        PROVE  Now(p) = Before(p)
    <3>1. PICK nth \in Nat : nth = p - 1 - reuse /\ nth <= views - 1
      BY <1>1, <2>1, <2>6
    <3>2. Now(p) = CountOfPage(lead, views, i, nth)
            /\ Before(p) = CountOfPage(lead, views, j, nth)
      BY <1>1, <2>1, <2>3, <2>6, <3>1 DEF CountAt
    <3>3. Now(p) = PageRows
      BY <2>1, <3>2 DEF CountOfPage, end
    <3>4. Before(p) = PageRows
      <4>1. CASE j <= end
        <5>1. Before(p) = IF nth < views - 1 THEN PageRows
                          ELSE IF nth = views - 1 THEN ImageRows + 1 ELSE 0
          BY <1>2, <2>4, <3>2, <4>1 DEF CountOfPage, end
        <5> QED BY <1>1, <1>2, <3>1, <5>1
      <4>2. CASE ~(j <= end)
        BY <2>4, <3>2, <4>2 DEF CountOfPage, end
      <4> QED BY <4>1, <4>2
    <3> QED BY <3>3, <3>4
  <2>7. Now(0) = Before(0) + 1 /\ Before(0) = i - end /\ i - end \in 0..(i - 1)
    <3> HIDE DEF Now, Before
    <3> QED BY <1>1, <1>2, <1>5, <2>3, <2>4, <2>5
  <2> HIDE DEF Now, Before
  <2>8. \A p \in 0..(views + reuse) : Now(p) = IF p = rope THEN Before(p) + 1 ELSE Before(p)
    <3>1. TAKE p \in 0..(views + reuse)
    <3>2. CASE p = 0 BY <2>2, <2>7, <3>2
    <3>3. CASE p # 0 BY <2>2, <2>6, <3>3
    <3> QED BY <3>2, <3>3
  <2>9. rope \in 0..(views + reuse)
    BY <1>1, <2>2
  <2> QED BY <2>2, <2>7, <2>8, <2>9 DEF Now, Before
<1> QED BY <1>1, <1>2, <1>3, <1>4, <1>5

(* Coordinates and tokens.                                                 *)
Coords == [token : Int, page : Int, image : Int, query : Int]
Kinds == {BOS, PAGE, IMAGE, TEXT, EOS}

(* The tokens are different.                                               *)
LEMMA KindsDiffer ==
  /\ BOS # PAGE /\ BOS # IMAGE /\ BOS # TEXT /\ PAGE # IMAGE /\ PAGE # TEXT /\ IMAGE # TEXT
  /\ EOS # IMAGE /\ EOS # PAGE /\ EOS # TEXT /\ BOS # EOS
BY DEF BOS, PAGE, IMAGE, TEXT, EOS

(* The counters and the RoPE page that the i-th row of a prompt gives.      *)
MarkersAre(reuse, next, lead, views, i) ==
  LET st == StateAt(reuse, next, lead, views, i - 1)
      tok == RowItem(reuse, next, lead, views, i).tok
  IN  /\ MarkersWith(st, tok) = MarkersAt(reuse, lead, views, i)
      /\ PromptPagesWith(st, tok) = PromptAt(reuse, lead, views, i)
      /\ RopePage(st, tok, FALSE) = RopeAt(reuse, lead, views, i)
      /\ tok = IMAGE => MarkersAt(reuse, lead, views, i) = RopeAt(reuse, lead, views, i)
                        /\ RopeAt(reuse, lead, views, i) # 0
      /\ PromptAt(reuse, lead, views, i) \in 0..(views + reuse)
      /\ MarkersAt(reuse, lead, views, i) \in Nat

(* What the counters make of a row of the prompt.                          *)
LEMMA MarkersNext ==
  ASSUME NEW reuse, NEW next, NEW lead, NEW views, Shape(reuse, next, lead, views),
         NEW i \in Nat \ {0}, reuse = 1 => i <= PagesEnd(lead, views)
  PROVE  MarkersAre(reuse, next, lead, views, i)
<1> DEFINE st == StateAt(reuse, next, lead, views, i - 1)
           tok == RowItem(reuse, next, lead, views, i).tok
           m == MarkersAt(reuse, lead, views, i - 1)
           n == PromptAt(reuse, lead, views, i - 1)
           end == PagesEnd(lead, views)
           rope == RopeAt(reuse, lead, views, i)
           m1 == MarkersAt(reuse, lead, views, i)
           n1 == PromptAt(reuse, lead, views, i)
           nth == Nth(lead, i)
<1>1. /\ reuse \in {0, 1} /\ lead \in Nat \ {0} /\ views \in Nat \ {0}
      /\ (reuse = 0 => lead = 1) /\ (reuse = 1 => lead # 1)
  BY DEF Shape
<1>2. /\ end \in Nat /\ end >= lead + PageRows /\ PageRows \in Nat \ {0}
  BY <1>1, PlaceLast, Positive
<1>3. st.markers = m /\ st.prompt = n
  BY DEF StateAt
<1>4. /\ MarkersWith(st, tok) = m + (IF tok = PAGE THEN 1 ELSE 0)
      /\ PromptPagesWith(st, tok) = IF tok = IMAGE
           THEN IF m + (IF tok = PAGE THEN 1 ELSE 0) >= n THEN m + (IF tok = PAGE THEN 1 ELSE 0) ELSE n
           ELSE n
  BY <1>3 DEF MarkersWith, PromptPagesWith, MaxOf
<1>5. RopePage(st, tok, FALSE) =
        IF tok = IMAGE \/ MarkersWith(st, tok) > PromptPagesWith(st, tok) THEN MarkersWith(st, tok)
        ELSE IF MarkersWith(st, tok) > PromptPagesWith(st, tok)
        THEN MinOf(MarkersWith(st, tok) - PromptPagesWith(st, tok), PromptPagesWith(st, tok)) ELSE 0
  BY DEF RopePage
<1>6. /\ i <= lead /\ reuse = 0 => tok = BOS /\ m = 0 /\ n = 0
      /\ i <= lead /\ reuse = 1 =>
           /\ i = 1 => tok = PAGE /\ m = 0 /\ n = 0
           /\ i # 1 => tok = IMAGE /\ m = 1 /\ n = IF i = 2 THEN 0 ELSE 1
      /\ i > lead /\ i <= end =>
           /\ nth \in 0..(views - 1) /\ Place(lead, i) \in 0..ImageRows
           /\ Place(lead, i) = 0 => tok = PAGE /\ m = nth + reuse /\ n = nth + reuse
           /\ Place(lead, i) # 0 =>
                /\ tok = IMAGE /\ m = nth + 1 + reuse
                /\ n = IF Place(lead, i) = 1 THEN nth + reuse ELSE nth + 1 + reuse
      /\ i > end => tok = TEXT /\ m = views /\ n = views /\ reuse = 0
  BY BeforeRow
<1>7. /\ i <= lead => m1 = reuse /\ n1 = (IF i = 1 THEN 0 ELSE reuse) /\ rope = reuse
      /\ i > lead /\ i <= end =>
           m1 = nth + 1 + reuse /\ n1 = (IF Place(lead, i) = 0 THEN nth + reuse ELSE nth + 1 + reuse)
           /\ rope = nth + 1 + reuse
      /\ i > end => m1 = views + reuse /\ n1 = views + reuse /\ rope = 0
  BY <1>1, <1>2 DEF MarkersAt, PromptAt, RopeAt
<1> DEFINE shown == PromptPagesWith(st, tok)
           marks == MarkersWith(st, tok)
           page == RopePage(st, tok, FALSE)
           Goal == /\ marks = m1 /\ shown = n1 /\ page = rope
                   /\ (tok = IMAGE => m1 = rope /\ rope # 0)
                   /\ n1 \in 0..(views + reuse) /\ m1 \in Nat
<1> HIDE DEF shown, marks, page, st, tok, m, n, end, rope, m1, n1, nth
<1>2a. end \in Nat /\ end >= lead
  BY <1>1, <1>2 DEF end
<1>4a. /\ marks = m + (IF tok = PAGE THEN 1 ELSE 0)
       /\ shown = IF tok = IMAGE
            THEN IF m + (IF tok = PAGE THEN 1 ELSE 0) >= n THEN m + (IF tok = PAGE THEN 1 ELSE 0) ELSE n
            ELSE n
  BY <1>4 DEF marks, shown
<1>5a. page = IF tok = IMAGE \/ marks > shown THEN marks
              ELSE IF marks > shown THEN MinOf(marks - shown, shown) ELSE 0
  BY <1>5 DEF page, marks, shown
<1>8. ASSUME i <= lead PROVE Goal
  BY <1>1, <1>4a, <1>5a, <1>6, <1>7, <1>8, KindsDiffer
<1>9. ASSUME i > lead /\ i <= end PROVE Goal
  <2>1. CASE Place(lead, i) = 0
    BY <1>1, <1>4a, <1>5a, <1>6, <1>7, <1>9, <2>1, KindsDiffer
  <2>2. CASE Place(lead, i) # 0
    BY <1>1, <1>4a, <1>5a, <1>6, <1>7, <1>9, <2>2, KindsDiffer
  <2> QED BY <2>1, <2>2
<1>10. ASSUME i > end PROVE Goal
  BY <1>1, <1>2a, <1>4a, <1>5a, <1>6, <1>7, <1>10, KindsDiffer
<1>11. Goal
  BY <1>1, <1>2a, <1>8, <1>9, <1>10
<1> QED BY <1>11 DEF MarkersAre, shown, marks, page, st, tok, rope, m1, n1

(* Reading a row of the prompt steps the counters from its place to the    *)
(* next, and these are its coordinates.                                    *)
StepIs(reuse, next, lead, views, i) ==
  LET st == StateAt(reuse, next, lead, views, i - 1)
      tok == RowItem(reuse, next, lead, views, i).tok
      at == Coordinates(st, tok, FALSE)
      rope == RopeAt(reuse, lead, views, i)
  IN  /\ ~StepFails(st, tok, FALSE)
      /\ StateStep(st, tok, FALSE) = StateAt(reuse, next, lead, views, i)
      /\ at \in Coords
      /\ at.token = TokenAt(lead, views, i)
      /\ at.page = rope + (IF rope # 0 THEN (next - reuse) % 2 ELSE 0)
      /\ at.image = IF tok = IMAGE THEN rope - 1 ELSE NoPage

(* Every row of a prompt within the context is read so.                    *)
LEMMA StateNext ==
  ASSUME NEW reuse, NEW next, NEW lead, NEW views, Shape(reuse, next, lead, views),
         NEW i \in Nat \ {0}, reuse = 1 => i <= PagesEnd(lead, views), i <= MaxPositions
  PROVE  StepIs(reuse, next, lead, views, i)
<1> DEFINE st == StateAt(reuse, next, lead, views, i - 1)
           tok == RowItem(reuse, next, lead, views, i).tok
           at == Coordinates(st, tok, FALSE)
           rope == RopeAt(reuse, lead, views, i)
           m1 == MarkersAt(reuse, lead, views, i)
           n1 == PromptAt(reuse, lead, views, i)
           Before(p) == CountAt(reuse, lead, views, i - 1, p)
           Now(p) == CountAt(reuse, lead, views, i, p)
<1>1. /\ reuse \in {0, 1} /\ next \in Nat /\ views \in Nat \ {0} /\ MaxPositions \in Nat
      /\ (next - reuse) % 2 \in {0, 1}
  <2>1. reuse \in {0, 1} /\ next \in Nat /\ views \in Nat \ {0} /\ next - reuse \in Nat
    BY DEF Shape
  <2>2. (next - reuse) % 2 \in {0, 1}
    BY <2>1
  <2> QED BY <2>1, <2>2, Positive
<1>2. /\ MarkersWith(st, tok) = m1 /\ PromptPagesWith(st, tok) = n1
      /\ RopePage(st, tok, FALSE) = rope
      /\ (tok = IMAGE => m1 = rope /\ rope # 0)
      /\ n1 \in 0..(views + reuse) /\ m1 \in Nat
  <2>1. MarkersAre(reuse, next, lead, views, i)
    BY MarkersNext
  <2> QED BY <2>1, Zenon DEF MarkersAre
<1>3. /\ rope \in 0..(views + reuse) /\ Before(rope) = TokenAt(lead, views, i)
      /\ TokenAt(lead, views, i) \in 0..(i - 1)
      /\ \A p \in 0..(views + reuse) : Now(p) = IF p = rope THEN Before(p) + 1 ELSE Before(p)
  BY CountNext
<1>4. st = [markers |-> MarkersAt(reuse, lead, views, i - 1),
            prompt |-> PromptAt(reuse, lead, views, i - 1),
            capacity |-> views + reuse + 1, parity |-> (next - reuse) % 2, started |-> FALSE,
            counts |-> [p \in 0..(views + reuse) |-> Before(p)]]
  BY DEF StateAt
<1>5. StateAt(reuse, next, lead, views, i)
        = [markers |-> m1, prompt |-> n1,
           capacity |-> views + reuse + 1, parity |-> (next - reuse) % 2, started |-> FALSE,
           counts |-> [p \in 0..(views + reuse) |-> Now(p)]]
  BY DEF StateAt
<1> HIDE DEF st, tok, rope, m1, n1, Before, Now
<1>6. st.counts[rope] = TokenAt(lead, views, i)
  BY <1>3, <1>4
<1>7. ~StepFails(st, tok, FALSE)
  <2>1. st.started = FALSE /\ st.capacity = views + reuse + 1
    BY <1>4
  <2>2. n1 < views + reuse + 1 /\ rope < views + reuse + 1
    BY <1>1, <1>2, <1>3
  <2>3. ~(st.counts[rope] >= MaxPositions)
    BY <1>1, <1>3, <1>6
  <2>4. ~(n1 >= views + reuse + 1) /\ ~(rope >= views + reuse + 1)
    BY <1>1, <1>2, <1>3, <2>2
  <2>5. ~(tok = IMAGE /\ m1 = 0)
    BY <1>2
  <2> QED BY <1>2, <2>1, <2>3, <2>4, <2>5 DEF StepFails
<1>8. StateStep(st, tok, FALSE) = StateAt(reuse, next, lead, views, i)
  <2>1. StateStep(st, tok, FALSE)
          = [st EXCEPT !.markers = m1, !.prompt = n1, !.started = FALSE, !.counts[rope] = @ + 1]
    BY <1>2 DEF StateStep
  <2>2. [[p \in 0..(views + reuse) |-> Before(p)] EXCEPT ![rope] = @ + 1]
          = [p \in 0..(views + reuse) |-> Now(p)]
    BY <1>3
  <2> DEFINE f == [p \in 0..(views + reuse) |-> Before(p)]
  <2>3. st.counts = f
    BY <1>4
  <2>4. [st.counts EXCEPT ![rope] = @ + 1] = [p \in 0..(views + reuse) |-> Now(p)]
    BY <2>2, <2>3
  <2>5. StateStep(st, tok, FALSE)
          = [markers |-> m1, prompt |-> n1, capacity |-> views + reuse + 1,
             parity |-> (next - reuse) % 2, started |-> FALSE,
             counts |-> [st.counts EXCEPT ![rope] = @ + 1]]
    BY <1>4, <2>1
  <2> QED BY <1>5, <2>4, <2>5
<1>9. /\ at.token = st.counts[rope]
      /\ at.page = rope + (IF rope # 0 THEN st.parity ELSE 0)
      /\ at.image = (IF tok = IMAGE THEN m1 - 1 ELSE NoPage)
      /\ at.query = QueryPage(st, tok, FALSE)
      /\ at = [token |-> at.token, page |-> at.page, image |-> at.image, query |-> at.query]
  BY <1>2 DEF Coordinates
<1>10. QueryPage(st, tok, FALSE) \in Int
  BY <1>1, <1>2 DEF QueryPage, NoPage
<1>11. st.parity = (next - reuse) % 2
  BY <1>4
<1> HIDE DEF at
<1>12. /\ at.token \in Int /\ at.page \in Int /\ at.image \in Int
  BY <1>1, <1>2, <1>3, <1>6, <1>9, <1>11 DEF NoPage
<1>13. at \in Coords
  BY <1>9, <1>10, <1>12 DEF Coords
<1> QED BY <1>2, <1>6, <1>7, <1>8, <1>9, <1>11, <1>13 DEF st, tok, at, rope, StepIs

-----------------------------------------------------------------------------
(* The prompt that a window lays out has this shape.                       *)

(* What a row of a prompt may be.                                          *)
ItemSet == [tok : Kinds, page : Int, at : Int]

(* The rows before the pages: BOS, or a marker and the image tail of the   *)
(* page before.                                                            *)
Lead == IF doc.prefix # 0 THEN doc.prefix - PageRows ELSE 1
Items(views, i) == RowItem(Reuse, doc.next, Lead, views, i)

(* The rows of a window are such.                                          *)
LEMMA RowItemType ==
  ASSUME NEW reuse, NEW next, NEW lead, NEW views, Shape(reuse, next, lead, views),
         NEW i \in Nat \ {0}
  PROVE  RowItem(reuse, next, lead, views, i) \in ItemSet
<1>1. /\ reuse \in {0, 1} /\ lead \in Nat \ {0} /\ views \in Nat \ {0} /\ next \in Nat
      /\ ImageRows \in Nat
  BY Positive DEF Shape
<1>2. PagesEnd(lead, views) \in Nat
  BY <1>1, PlaceLast
<1>3. CASE i <= lead
  <2>1. Item(BOS, NoPage, 0) \in ItemSet /\ Item(PAGE, next - 1, 0) \in ItemSet
        /\ Item(IMAGE, next - 1, ImageRows - lead + i) \in ItemSet
    BY <1>1 DEF Item, ItemSet, Kinds, NoPage
  <2> QED BY <1>3, <2>1 DEF RowItem
<1>4. CASE ~(i <= lead) /\ i <= PagesEnd(lead, views)
  <2>1. Nth(lead, i) \in Nat /\ Place(lead, i) \in Nat
    <3>1. Nth(lead, i) \in 0..(views - 1) /\ Place(lead, i) \in 0..ImageRows
      BY <1>1, <1>4, PlaceIs
    <3> QED BY <1>1, <3>1
  <2>2. PageItem(next + Nth(lead, i), Place(lead, i)) \in ItemSet
    BY <1>1, <2>1 DEF PageItem, Item, ItemSet, Kinds
  <2> QED BY <1>4, <2>2 DEF RowItem
<1>5. CASE ~(i <= lead) /\ ~(i <= PagesEnd(lead, views))
  <2>1. Item(TEXT, NoPage, i - PagesEnd(lead, views)) \in ItemSet
    BY <1>2 DEF Item, ItemSet, Kinds, NoPage
  <2> QED BY <1>5, <2>1 DEF RowItem
<1> QED BY <1>3, <1>4, <1>5

(* So are the rows that the code writes.                                   *)
LEMMA ItemTypes ==
  /\ \A n \in Int : Item(PAGE, n, 0) \in ItemSet
  /\ \A n, k \in Int : /\ Item(IMAGE, n, k) \in ItemSet /\ Item(TEXT, n, k) \in ItemSet
                       /\ Item(BOS, n, k) \in ItemSet /\ PageItem(n, k) \in ItemSet
BY DEF Item, PageItem, ItemSet, Kinds

(* The k-th row of a prompt's pages.                                       *)
LEMMA PageItemsAre ==
  ASSUME NEW first \in Int, NEW views \in Nat \ {0}
  PROVE  /\ views * PageRows \in Nat
         /\ PageItems(first, views) \in Seq(ItemSet)
         /\ Len(PageItems(first, views)) = views * PageRows
         /\ \A lead \in Nat, i \in Nat :
              i > lead /\ i <= PagesEnd(lead, views) =>
                PageItems(first, views)[i - lead] = PageItem(first + Nth(lead, i), Place(lead, i))
<1>1. PageRows \in Nat \ {0} /\ views * PageRows \in Nat
  BY Positive
<1>2. PICK n \in Nat : n = views * PageRows
  BY <1>1
<1> DEFINE f == [k \in 1..n |-> PageItem(first + ((k - 1) \div PageRows), (k - 1) % PageRows)]
<1>3. PageItems(first, views) = f
  BY <1>2 DEF PageItems
<1>4. ASSUME NEW k \in 1..n
      PROVE  PageItem(first + ((k - 1) \div PageRows), (k - 1) % PageRows) \in ItemSet
  <2>1. PICK j \in Nat : j = k - 1
    BY <1>4
  <2>2. j \div PageRows \in Nat /\ j % PageRows \in Int
    BY <1>1, DivisionIs
  <2>3. PageItem(first + (j \div PageRows), j % PageRows) \in ItemSet
    BY <2>2, ItemTypes
  <2> QED BY <2>1, <2>3
<1>5. f \in [1..n -> ItemSet]
  BY <1>4
<1> HIDE DEF f
<1>6. f \in Seq(ItemSet) /\ Len(f) = n
  BY <1>5
<1>7. ASSUME NEW lead \in Nat, NEW i \in Nat, i > lead, i <= PagesEnd(lead, views)
      PROVE  f[i - lead] = PageItem(first + Nth(lead, i), Place(lead, i))
  <2>1. i - lead \in 1..n
    BY <1>1, <1>2, <1>7 DEF PagesEnd
  <2>2. f[i - lead] = PageItem(first + (((i - lead) - 1) \div PageRows), ((i - lead) - 1) % PageRows)
    BY <2>1 DEF f
  <2>3. (i - lead) - 1 = i - lead - 1
    OBVIOUS
  <2> QED BY <2>2, <2>3 DEF Nth, Place
<1> QED BY <1>1, <1>2, <1>3, <1>6, <1>7

(* A request's prompt is laid out as the rows of a window without a tail.  *)
LEMMA RequestItemsAre ==
  ASSUME NEW r \in RequestRecords, doc.next \in Nat
  PROVE  /\ RequestItems(r) \in Seq(ItemSet) /\ Len(RequestItems(r)) = NTokens(r)
         /\ NTokens(r) \in Nat /\ NTokens(r) >= PagesEnd(1, r.views)
         /\ \A i \in 1..NTokens(r) : RequestItems(r)[i] = RowItem(0, doc.next, 1, r.views, i)
<1> DEFINE a == <<Item(BOS, NoPage, 0)>>
           b == PageItems(doc.next, r.views)
           c == [i \in 1..r.instruction |-> Item(TEXT, NoPage, i)]
           m == r.views * PageRows
           items == RequestItems(r)
<1>1. r.views \in Nat \ {0} /\ r.instruction \in Nat /\ NoPage \in Int
  BY DEF RequestRecords, NoPage
<1>2. m \in Nat /\ b \in Seq(ItemSet) /\ Len(b) = m
  BY <1>1, PageItemsAre
<1>3. a \in Seq(ItemSet) /\ Len(a) = 1
  BY <1>1, ItemTypes
<1>4. c \in Seq(ItemSet) /\ Len(c) = r.instruction
  <2>1. \A i \in 1..r.instruction : Item(TEXT, NoPage, i) \in ItemSet
    BY <1>1, ItemTypes
  <2>2. c \in [1..r.instruction -> ItemSet]
    BY <2>1
  <2> HIDE DEF c
  <2> QED BY <1>1, <2>2
<1>5. items = (a \o b) \o c /\ NTokens(r) = 1 + m + r.instruction
  BY DEF RequestItems, NTokens
<1>6. PagesEnd(1, r.views) = 1 + m
  BY DEF PagesEnd
<1>7. \A i \in 1..r.instruction : c[i] = Item(TEXT, NoPage, i)
  OBVIOUS
<1>8. a[1] = Item(BOS, NoPage, 0)
  OBVIOUS
<1>9. \A i \in Nat : i > 1 /\ i <= 1 + m =>
        b[i - 1] = PageItem(doc.next + Nth(1, i), Place(1, i))
  <2>1. doc.next \in Int
    OBVIOUS
  <2>2. \A lead \in Nat, i \in Nat :
          i > lead /\ i <= PagesEnd(lead, r.views) =>
            b[i - lead] = PageItem(doc.next + Nth(lead, i), Place(lead, i))
    BY <1>1, <2>1, PageItemsAre
  <2> HIDE DEF b
  <2> QED BY <1>6, <2>2
<1> HIDE DEF a, b, c, m, items
<1>10. PICK ab \in Seq(ItemSet) : ab = a \o b
  BY <1>2, <1>3, ConcatProperties
<1>11. /\ Len(ab) = 1 + m /\ items = ab \o c
       /\ \A i \in 1..(1 + m) : ab[i] = IF i <= 1 THEN a[i] ELSE b[i - 1]
  <2>1. Len(a \o b) = Len(a) + Len(b)
    BY <1>2, <1>3, ConcatProperties
  <2>2. \A i \in 1..Len(a) + Len(b) : (a \o b)[i] = IF i <= Len(a) THEN a[i] ELSE b[i - Len(a)]
    BY <1>2, <1>3, ConcatProperties
  <2> QED BY <1>2, <1>3, <1>5, <1>10, <2>1, <2>2
<1>12. /\ items \in Seq(ItemSet) /\ Len(items) = 1 + m + r.instruction
       /\ \A i \in 1..(1 + m + r.instruction) :
            items[i] = IF i <= 1 + m THEN ab[i] ELSE c[i - (1 + m)]
  <2>1. ab \o c \in Seq(ItemSet) /\ Len(ab \o c) = Len(ab) + Len(c)
    BY <1>4, ConcatProperties
  <2>2. \A i \in 1..Len(ab) + Len(c) : (ab \o c)[i] = IF i <= Len(ab) THEN ab[i] ELSE c[i - Len(ab)]
    BY <1>4, ConcatProperties
  <2> QED BY <1>1, <1>2, <1>4, <1>11, <2>1, <2>2
<1>13. ASSUME NEW i \in 1..NTokens(r)
       PROVE  items[i] = RowItem(0, doc.next, 1, r.views, i)
  <2>1. CASE i = 1
    <3>1. ab[1] = a[1]
      BY <1>2, <1>11
    <3>2. items[1] = ab[1]
      BY <1>1, <1>2, <1>12
    <3> QED BY <1>8, <2>1, <3>1, <3>2 DEF RowItem
  <2>2. CASE i > 1 /\ i <= 1 + m
    <3>1. ab[i] = b[i - 1]
      BY <1>2, <1>11, <2>2
    <3>2. items[i] = ab[i]
      BY <1>1, <1>2, <1>12, <2>2
    <3> QED BY <1>6, <1>9, <2>2, <3>1, <3>2 DEF RowItem
  <2>3. CASE i > 1 + m
    <3>1. i - (1 + m) \in 1..r.instruction
      BY <1>1, <1>2, <1>5, <2>3
    <3>2. ~(i <= 1) /\ ~(i <= 1 + m)
      BY <1>2, <2>3
    <3>3. i \in 1..(1 + m + r.instruction)
      BY <1>5
    <3>4. items[i] = c[i - (1 + m)]
      BY <1>12, <3>2, <3>3
    <3> QED BY <1>6, <1>7, <3>1, <3>2, <3>4 DEF RowItem
  <2>4. i = 1 \/ (i > 1 /\ i <= 1 + m) \/ i > 1 + m
    BY <1>2
  <2> QED BY <2>1, <2>2, <2>3, <2>4, Zenon
<1>14. NTokens(r) \in Nat /\ NTokens(r) >= 1 + m
  BY <1>1, <1>2, <1>5
<1> QED BY <1>5, <1>6, <1>12, <1>13, <1>14 DEF items

(* The retained rows as they were computed.                                *)
Rows == [tok : Kinds, page : Int, at : Int, token : Int, parity : Int]
ItemOf(row) == Item(row.tok, row.page, row.at)

(* The saved prefix is the start of a window of one page, and the last row *)
(* saved is that page's last image.                                        *)
PrefixHolds(s, prefix, next, lead) ==
  /\ Shape(1, next, lead, 1) /\ prefix = PagesEnd(lead, 1)
  /\ s.prefix \in Seq(ItemSet) /\ Len(s.prefix) = prefix
  /\ \A i \in 1..prefix : s.prefix[i] = RowItem(1, next, lead, 1, i)
  /\ s.last = Item(IMAGE, next, ImageRows)

(* Its rows were computed for those items, with the parity of their pages, *)
(* the lookahead page's at their place; the rows behind them are           *)
(* consecutive text of the page before.                                    *)
RowsHold(s, prefix, text, next, lead) ==
  /\ s.rows \in Seq(Rows) /\ Len(s.rows) = prefix + text
  /\ \A i \in 1..prefix :
       /\ ItemOf(s.rows[i]) = RowItem(1, next, lead, 1, i)
       /\ s.rows[i].parity = (s.rows[i].page + 1) % 2
       /\ i > lead => s.rows[i].token = s.rows[i].at
  /\ \A i \in 1..text :
       /\ s.rows[prefix + i].tok = TEXT /\ s.rows[prefix + i].page = next - 1
       /\ s.rows[prefix + i].at = s.rows[prefix + 1].at + i - 1
       /\ s.rows[prefix + i].parity = next % 2

(* What is saved belongs to the document as it stands.                     *)
SavedHolds ==
  doc.prefix # 0 /\ ~doc.finished =>
    /\ PrefixHolds(saved, doc.prefix, doc.next, Lead)
    /\ RowsHold(saved, doc.prefix, doc.text, doc.next, Lead)

(* The window that a request starts has a shape.                           *)
LEMMA WindowShape ==
  ASSUME TypeOK, SavedHolds, ~doc.finished, NEW r \in RequestRecords
  PROVE  /\ Shape(Reuse, doc.next, Lead, r.views)
         /\ Reuse = 1 <=> doc.prefix # 0
         /\ Reuse = 1 => PromptCount(r) = PagesEnd(Lead, r.views)
         /\ PromptCount(r) \in Nat /\ PromptCount(r) >= PagesEnd(Lead, r.views)
<1>1. /\ r.views \in Nat \ {0} /\ doc.next \in Nat /\ doc.prefix \in Nat
      /\ PageRows \in Nat \ {0}
  BY Positive DEF TypeOK, RequestRecords
<1>2. CASE doc.prefix = 0
  <2>1. Reuse = 0 /\ Lead = 1 /\ PromptCount(r) = NTokens(r)
    BY <1>2 DEF Reuse, Lead, PromptCount
  <2>2. NTokens(r) \in Nat /\ NTokens(r) >= PagesEnd(1, r.views)
    BY <1>1, RequestItemsAre
  <2> QED BY <1>1, <1>2, <2>1, <2>2 DEF Shape
<1>3. CASE doc.prefix # 0
  <2>1. Reuse = 1 /\ PromptCount(r) = doc.prefix + (r.views - 1) * PageRows
        /\ Lead = doc.prefix - PageRows
    BY <1>3 DEF Reuse, PromptCount, Lead
  <2>2. Shape(1, doc.next, Lead, 1)
    BY <1>3 DEF SavedHolds, PrefixHolds
  <2>3. Shape(1, doc.next, Lead, r.views)
    BY <1>1, <2>2 DEF Shape
  <2>4. /\ r.views * PageRows \in Nat /\ (r.views - 1) * PageRows \in Nat
        /\ (r.views - 1) * PageRows + PageRows = r.views * PageRows
    BY <1>1, PagesOfRows
  <2>5. PagesEnd(Lead, r.views) = Lead + r.views * PageRows
    BY DEF PagesEnd
  <2> QED BY <1>1, <1>3, <2>1, <2>3, <2>4, <2>5
<1> QED BY <1>2, <1>3

(* The prompt of a window is the rows of its shape.                        *)
LEMMA WindowPromptIs ==
  ASSUME TypeOK, SavedHolds, ~doc.finished, NEW r \in RequestRecords
  PROVE  /\ WindowPrompt(r) \in Seq(ItemSet) /\ Len(WindowPrompt(r)) = PromptCount(r)
         /\ \A i \in 1..PromptCount(r) : WindowPrompt(r)[i] = Items(r.views, i)
<1>1. /\ r.views \in Nat \ {0} /\ doc.next \in Nat /\ doc.prefix \in Nat
      /\ PageRows \in Nat \ {0}
  BY Positive DEF TypeOK, RequestRecords
<1> DEFINE items == RequestItems(r)   n == NTokens(r)   views == r.views
<1>2. /\ items \in Seq(ItemSet) /\ Len(items) = n /\ n \in Nat /\ n >= PagesEnd(1, views)
      /\ \A i \in 1..n : items[i] = RowItem(0, doc.next, 1, views, i)
  <2>1. doc.next \in Nat
    BY <1>1
  <2>2. items \in Seq(ItemSet) /\ Len(items) = n
    BY <2>1, RequestItemsAre
  <2>3. n \in Nat /\ n >= PagesEnd(1, views)
    BY <2>1, RequestItemsAre
  <2>4. \A i \in 1..n : items[i] = RowItem(0, doc.next, 1, views, i)
    BY <2>1, RequestItemsAre
  <2> QED BY <2>2, <2>3, <2>4
<1>3. CASE doc.prefix = 0
  <2>1. Reuse = 0 /\ Lead = 1 /\ PromptCount(r) = n /\ WindowPrompt(r) = items
    BY <1>3 DEF Reuse, Lead, PromptCount, WindowPrompt
  <2>2. \A i \in 1..n : items[i] = Items(views, i)
    BY <1>2, <2>1 DEF Items
  <2> QED BY <1>2, <2>1, <2>2
<1>4. CASE doc.prefix # 0
  <2>1. Reuse = 1 /\ Lead = doc.prefix - PageRows
    BY <1>4 DEF Reuse, Lead
  <2>2. /\ saved.prefix \in Seq(ItemSet) /\ Len(saved.prefix) = doc.prefix
        /\ \A i \in 1..doc.prefix : saved.prefix[i] = RowItem(1, doc.next, Lead, 1, i)
        /\ doc.prefix = PagesEnd(Lead, 1)
    BY <1>4 DEF SavedHolds, PrefixHolds
  <2>3. Shape(1, doc.next, Lead, views) /\ Shape(1, doc.next, Lead, 1)
    <3>1. Shape(1, doc.next, Lead, 1)
      BY <1>4 DEF SavedHolds, PrefixHolds
    <3> QED BY <1>1, <3>1 DEF Shape
  <2>4. PICK k \in Nat : k = (views - 1) * PageRows
    BY <1>1, PagesOfRows
  <2>5. /\ views * PageRows \in Nat /\ views * PageRows = k + PageRows
        /\ PagesEnd(1, views) = 1 + k + PageRows /\ PagesEnd(Lead, views) = doc.prefix + k
        /\ PromptCount(r) = doc.prefix + k
    <3>1. views * PageRows \in Nat /\ views * PageRows = k + PageRows
      BY <1>1, <2>4, PagesOfRows
    <3>2. PromptCount(r) = doc.prefix + k
      BY <2>1, <2>4 DEF PromptCount
    <3>3. PagesEnd(1, views) = 1 + k + PageRows
      BY <1>1, <3>1 DEF PagesEnd
    <3>4. PagesEnd(Lead, views) = Lead + k + PageRows
      BY <1>1, <2>1, <3>1 DEF PagesEnd
    <3> QED BY <1>1, <2>1, <3>1, <3>2, <3>3, <3>4
  <2> DEFINE fresh == SubSeq(items, FreshFrom, 1 + views * PageRows)
  <2>6. WindowPrompt(r) = saved.prefix \o fresh
    BY <2>1 DEF WindowPrompt
  <2>7. /\ fresh \in Seq(ItemSet) /\ Len(fresh) = k
        /\ \A i \in 1..k : fresh[i] = items[PageRows + 1 + i]
    <3>1. PICK a \in Int, b \in Int : a = FreshFrom /\ b = 1 + views * PageRows
      BY <1>1, <2>5 DEF FreshFrom
    <3>2. a = PageRows + 2 /\ b = 1 + PageRows + k /\ b <= n
      BY <1>1, <1>2, <2>5, <3>1 DEF FreshFrom
    <3>3. \A i \in a..b : items[i] \in ItemSet
      <4>1. TAKE i \in a..b
      <4>2. i \in 1..Len(items)
        BY <1>1, <1>2, <3>2
      <4> HIDE DEF items
      <4> QED BY <1>2, <4>2
    <3>4. fresh = SubSeq(items, a, b)
      BY <3>1
    <3> HIDE DEF fresh, items
    <3>5. /\ SubSeq(items, a, b) \in Seq(ItemSet)
          /\ Len(SubSeq(items, a, b)) = IF a <= b THEN b - a + 1 ELSE 0
          /\ \A i \in 1..b - a + 1 : SubSeq(items, a, b)[i] = items[a + i - 1]
      BY <3>3, SubSeqProperties
    <3>6. (IF a <= b THEN b - a + 1 ELSE 0) = k /\ b - a + 1 = k
      BY <1>1, <3>2
    <3>7. \A i \in 1..k : a + i - 1 = PageRows + 1 + i
      BY <1>1, <3>2
    <3> QED BY <3>4, <3>5, <3>6, <3>7
  <2> HIDE DEF fresh
  <2>8. /\ WindowPrompt(r) \in Seq(ItemSet) /\ Len(WindowPrompt(r)) = doc.prefix + k
        /\ \A i \in 1..(doc.prefix + k) :
             WindowPrompt(r)[i] = IF i <= doc.prefix THEN saved.prefix[i] ELSE fresh[i - doc.prefix]
    <3>1. /\ saved.prefix \o fresh \in Seq(ItemSet)
          /\ Len(saved.prefix \o fresh) = Len(saved.prefix) + Len(fresh)
      BY <2>2, <2>7, ConcatProperties
    <3>2. \A i \in 1..Len(saved.prefix) + Len(fresh) : (saved.prefix \o fresh)[i]
            = IF i <= Len(saved.prefix) THEN saved.prefix[i] ELSE fresh[i - Len(saved.prefix)]
      BY <2>2, <2>7, ConcatProperties
    <3> QED BY <2>2, <2>6, <2>7, <3>1, <3>2
  <2>9. ASSUME NEW i \in 1..(doc.prefix + k)
        PROVE  WindowPrompt(r)[i] = Items(views, i)
    <3>1. CASE i <= doc.prefix
      <4>1. WindowPrompt(r)[i] = RowItem(1, doc.next, Lead, 1, i)
        BY <1>1, <2>2, <2>8, <3>1
      <4>2. i <= PagesEnd(Lead, 1) /\ i <= PagesEnd(Lead, views)
        BY <1>1, <2>2, <2>5, <3>1
      <4>3. RowItem(1, doc.next, Lead, 1, i) = RowItem(1, doc.next, Lead, views, i)
        BY <4>2 DEF RowItem
      <4> QED BY <2>1, <4>1, <4>3 DEF Items
    <3>2. CASE i > doc.prefix
      <4>0. PICK p \in 1..k : p = i - doc.prefix
        BY <1>1, <3>2
      <4>1. WindowPrompt(r)[i] = items[PageRows + 1 + p]
        <5> HIDE DEF items
        <5>1. ~(i <= doc.prefix)
          BY <1>1, <3>2
        <5>2. WindowPrompt(r)[i] = fresh[i - doc.prefix]
          BY <2>8, <5>1
        <5> QED BY <2>7, <4>0, <5>2
      <4>2. PICK j \in Nat : j = PageRows + 1 + p
        BY <1>1, <4>0
      <4>3. j \in 1..n /\ ~(j <= 1) /\ j <= PagesEnd(1, views)
        <5> HIDE DEF n, views
        <5>1. j <= 1 + k + PageRows /\ j > 1
          BY <1>1, <4>2
        <5>2. j <= PagesEnd(1, views)
          BY <2>5, <5>1
        <5>3. PagesEnd(1, views) \in Nat
          BY <1>1, <2>5
        <5> QED BY <1>2, <5>1, <5>2, <5>3
      <4>4. items[j] = PageItem(doc.next + Nth(1, j), Place(1, j))
        BY <1>2, <4>3 DEF RowItem
      <4>5. ~(i <= Lead) /\ i <= PagesEnd(Lead, views)
        BY <1>1, <2>1, <2>5, <3>2
      <4>6. Items(views, i) = PageItem(doc.next + Nth(Lead, i), Place(Lead, i))
        BY <4>5 DEF Items, RowItem
      <4>7. j - 1 - 1 = i - Lead - 1
        BY <1>1, <2>1, <4>0, <4>2
      <4>8. Nth(1, j) = Nth(Lead, i) /\ Place(1, j) = Place(Lead, i)
        BY <4>7 DEF Nth, Place
      <4> QED BY <4>1, <4>2, <4>4, <4>6, <4>8
    <3> QED BY <1>1, <3>1, <3>2
  <2> QED BY <2>5, <2>8, <2>9
<1> QED BY <1>3, <1>4

-----------------------------------------------------------------------------
(* Prefilling feeds the rows of the prompt one by one. The visual rows     *)
(* computed on the way are the images of the pages they stand for.         *)

(* The visual rows computed up to the i-th row of the prompt.              *)
VisualAt(r, i) ==
  IF i <= Copied(r) THEN 0
  ELSE IF r.views = Reuse THEN 1
  ELSE IF i <= Lead THEN 0
  ELSE IF i <= PagesEnd(Lead, r.views)
  THEN (Nth(Lead, i) - Reuse) * ImageRows + Place(Lead, i)
  ELSE (r.views - Reuse) * ImageRows

(* Image rows are counted page by page.                                    *)
LEMMA VisualPlace ==
  ASSUME NEW n \in Nat, NEW p \in 1..ImageRows
  PROVE  /\ (n * ImageRows + p - 1) \div ImageRows = n
         /\ ((n * ImageRows + p - 1) % ImageRows) + 1 = p
<1>1. ImageRows \in Nat \ {0} /\ p - 1 \in Nat /\ p - 1 < ImageRows
  BY Positive
<1>2. n * ImageRows \in Nat /\ n * ImageRows = ImageRows * n
  BY <1>1
<1>3. PICK a \in Nat : a = p - 1 /\ a < ImageRows
  BY <1>1
<1>4. (ImageRows * n + a) \div ImageRows = n /\ (ImageRows * n + a) % ImageRows = a
  BY <1>1, <1>3, DivisionOf
<1>5. n * ImageRows + p - 1 = ImageRows * n + a
  BY <1>1, <1>2, <1>3
<1>6. a + 1 = p
  BY <1>3
<1> QED BY <1>4, <1>5, <1>6

(* Counting the images of a fresh page, row by row.                        *)
LEMMA VisualInPage ==
  ASSUME TypeOK, SavedHolds, ~doc.finished, NEW r \in RequestRecords,
         r.views # Reuse, NEW i \in Nat, i > Lead, i > Copied(r), i <= PagesEnd(Lead, r.views)
  PROVE  /\ Nth(Lead, i) - Reuse \in Nat /\ Nth(Lead, i) \in Nat
         /\ Place(Lead, i) \in 0..ImageRows
         /\ VisualAt(r, i) = (Nth(Lead, i) - Reuse) * ImageRows + Place(Lead, i)
         /\ Items(r.views, i) = PageItem(doc.next + Nth(Lead, i), Place(Lead, i))
<1>1. /\ Shape(Reuse, doc.next, Lead, r.views) /\ (Reuse = 1 <=> doc.prefix # 0)
      /\ r.views \in Nat \ {0} /\ doc.next \in Nat /\ doc.prefix \in Nat
      /\ Reuse \in {0, 1} /\ Lead \in Nat \ {0}
  <2>1. Shape(Reuse, doc.next, Lead, r.views) /\ (Reuse = 1 <=> doc.prefix # 0)
    BY WindowShape
  <2> QED BY <2>1 DEF TypeOK, RequestRecords, Shape
<1>2. Nth(Lead, i) \in 0..(r.views - 1) /\ Place(Lead, i) \in 0..ImageRows
  BY <1>1, PlaceIs
<1>3. Reuse = 1 => Nth(Lead, i) # 0
  <2> SUFFICES ASSUME Reuse = 1, Nth(Lead, i) = 0 PROVE FALSE
    OBVIOUS
  <2>1. PageRows \in Nat \ {0} /\ r.views # 1
    BY Positive
  <2>2. Copied(r) = doc.prefix /\ Lead = doc.prefix - PageRows
    BY <1>1, <2>1 DEF Copied, Lead
  <2>3. PICK k \in Nat : k = i - Lead - 1 /\ k >= PageRows
    BY <1>1, <2>1, <2>2
  <2>4. k \div PageRows = 0
    BY <2>3 DEF Nth
  <2>5. k = PageRows * (k \div PageRows) + (k % PageRows) /\ k % PageRows \in 0..(PageRows - 1)
    BY <2>1, DivisionIs
  <2>6. PageRows * 0 = 0
    BY <2>1
  <2> QED BY <2>1, <2>3, <2>4, <2>5, <2>6
<1>4. Nth(Lead, i) - Reuse \in Nat
  BY <1>1, <1>2, <1>3
<1>5. ~(i <= Lead) /\ ~(i <= Copied(r))
  <2>1. Copied(r) \in Int
    BY <1>1 DEF Copied
  <2> QED BY <1>1, <2>1
<1>6. VisualAt(r, i) = (Nth(Lead, i) - Reuse) * ImageRows + Place(Lead, i)
  BY <1>5 DEF VisualAt
<1>7. Items(r.views, i) = PageItem(doc.next + Nth(Lead, i), Place(Lead, i))
  BY <1>5 DEF Items, RowItem
<1> QED BY <1>2, <1>4, <1>6, <1>7

(* A computed image row is the next visual row, and it is the row's own.   *)
VisualIs(r, i) ==
  IF Items(r.views, i).tok = IMAGE
  THEN VisualAt(r, i) = VisualAt(r, i - 1) + 1
    /\ VisualItem(r, VisualAt(r, i)) = Items(r.views, i)
  ELSE VisualAt(r, i) = VisualAt(r, i - 1)

(* Counting visual rows names the page and place of each.                  *)
LEMMA VisualNext ==
  ASSUME TypeOK, SavedHolds, ~doc.finished, NEW r \in RequestRecords,
         NEW i \in 1..PromptCount(r), i > Copied(r)
  PROVE  VisualIs(r, i)
<1> DEFINE end == PagesEnd(Lead, r.views)
<1>1. /\ Shape(Reuse, doc.next, Lead, r.views) /\ (Reuse = 1 <=> doc.prefix # 0)
      /\ r.views \in Nat \ {0} /\ doc.next \in Nat /\ doc.prefix \in Nat
      /\ Reuse \in {0, 1} /\ Lead \in Nat \ {0} /\ (Reuse = 0 => Lead = 1)
      /\ PromptCount(r) \in Nat /\ (Reuse = 1 => PromptCount(r) = end)
  <2>1. Shape(Reuse, doc.next, Lead, r.views) /\ (Reuse = 1 <=> doc.prefix # 0)
    BY WindowShape
  <2>2. PromptCount(r) \in Nat /\ (Reuse = 1 => PromptCount(r) = end)
    BY WindowShape
  <2> QED BY <2>1, <2>2 DEF TypeOK, RequestRecords, Shape
<1>2. /\ end \in Nat /\ end >= Lead + PageRows /\ Nth(Lead, end) = r.views - 1
      /\ Place(Lead, end) = ImageRows /\ ImageRows \in Nat \ {0} /\ PageRows = ImageRows + 1
  BY <1>1, PlaceLast, Positive DEF PageRows
<1>3. i \in Nat \ {0} /\ i - 1 \in Nat
  BY <1>1
<1>4. Copied(r) = IF Reuse = 0 THEN 0 ELSE IF r.views = 1 THEN doc.prefix - 1 ELSE doc.prefix
  BY DEF Copied
<1>5. Copied(r) \in Nat
  BY <1>1, <1>4
<1>6. KindsDiffer!1
  BY KindsDiffer
<1>a. \A p, k : /\ PageItem(p, k).tok = IF k = 0 THEN PAGE ELSE IMAGE
                /\ k # 0 => PageItem(p, k) = Item(IMAGE, p, k)
  BY DEF PageItem, Item
<1> HIDE DEF end
<1>7. CASE r.views = Reuse
  <2>1. Reuse = 1 /\ r.views = 1 /\ Copied(r) = doc.prefix - 1 /\ Lead = doc.prefix - PageRows
    BY <1>1, <1>4, <1>7 DEF Lead
  <2>2. end = doc.prefix
    <3>1. 1 * PageRows = PageRows /\ Lead + PageRows = doc.prefix
      BY <1>1, <1>2, <2>1
    <3>2. end = Lead + 1 * PageRows
      BY <2>1 DEF end, PagesEnd
    <3> QED BY <3>1, <3>2
  <2>3. i = end /\ i - 1 <= Copied(r) /\ ~(i <= Copied(r))
    BY <1>1, <1>3, <1>5, <2>1, <2>2
  <2>4. VisualAt(r, i) = 1 /\ VisualAt(r, i - 1) = 0
    BY <1>7, <2>3 DEF VisualAt
  <2>5. saved.last = Item(IMAGE, doc.next, ImageRows)
    BY <1>1, <2>1 DEF SavedHolds, PrefixHolds
  <2>6. VisualItem(r, VisualAt(r, i)) = Item(IMAGE, doc.next, ImageRows)
    BY <1>7, <2>5 DEF VisualItem
  <2>7. ~(i <= Lead) /\ i <= end /\ Nth(Lead, i) = 0 /\ Place(Lead, i) = ImageRows
    BY <1>1, <1>2, <1>3, <2>1, <2>3
  <2>8. Items(r.views, i) = PageItem(doc.next + 0, ImageRows)
    BY <2>7 DEF Items, RowItem, end
  <2>9. doc.next + 0 = doc.next
    BY <1>1
  <2>10. Items(r.views, i) = Item(IMAGE, doc.next, ImageRows)
    BY <1>2, <1>a, <2>8, <2>9
  <2>11. Items(r.views, i).tok = IMAGE
    BY <2>10 DEF Item
  <2> QED BY <2>4, <2>6, <2>10, <2>11 DEF VisualIs
<1>8. CASE r.views # Reuse /\ i <= Lead
  <2>1. Reuse = 0 /\ i = 1
    <3>1. Reuse = 1 => Copied(r) = doc.prefix /\ Lead = doc.prefix - PageRows
      BY <1>1, <1>4, <1>8 DEF Lead
    <3> QED BY <1>1, <1>2, <1>3, <1>5, <1>8, <3>1
  <2>2. Copied(r) = 0 /\ ~(1 <= Copied(r)) /\ 0 <= Copied(r)
    BY <1>4, <2>1
  <2>3. VisualAt(r, 1) = 0 /\ VisualAt(r, 0) = 0
    BY <1>8, <2>1, <2>2 DEF VisualAt
  <2>4. Items(r.views, 1).tok = BOS
    BY <1>8, <2>1 DEF Items, RowItem, Item
  <2>5. i - 1 = 0
    BY <2>1
  <2> QED BY <1>6, <2>1, <2>3, <2>4, <2>5 DEF VisualIs
<1>9. CASE r.views # Reuse /\ i > Lead /\ i <= end
  <2> DEFINE n == Nth(Lead, i) - Reuse   p == Place(Lead, i)
  <2>1. n \in Nat /\ Nth(Lead, i) \in Nat
    BY <1>3, <1>9, VisualInPage DEF end
  <2>2. p \in 0..ImageRows
    BY <1>3, <1>9, VisualInPage DEF end
  <2>3. VisualAt(r, i) = n * ImageRows + p
    BY <1>3, <1>9, VisualInPage DEF end
  <2>4. Items(r.views, i) = PageItem(doc.next + Nth(Lead, i), p)
    BY <1>3, <1>9, VisualInPage DEF end
  <2>5. n * ImageRows \in Nat
    BY <1>2, <2>1
  <2>6. VisualAt(r, i - 1) = IF p = 0 THEN n * ImageRows ELSE n * ImageRows + p - 1
    <3>1. CASE i - 1 > Lead /\ i - 1 > Copied(r)
      <4>1. PICK j \in Nat : j = i - 1
        BY <1>3
      <4>2. j > Lead /\ j > Copied(r) /\ j <= end /\ j + 1 = i
        BY <1>1, <1>2, <1>3, <1>5, <1>9, <3>1, <4>1
      <4> DEFINE m == Nth(Lead, j) - Reuse   q == Place(Lead, j)
      <4>3. m \in Nat /\ Nth(Lead, j) \in Nat
        BY <1>9, <4>2, VisualInPage DEF end
      <4>4. q \in 0..ImageRows
        BY <1>9, <4>2, VisualInPage DEF end
      <4>5. VisualAt(r, j) = m * ImageRows + q
        BY <1>9, <4>2, VisualInPage DEF end
      <4>6. /\ q = ImageRows => Nth(Lead, i) = Nth(Lead, j) + 1 /\ p = 0
            /\ q # ImageRows => Nth(Lead, i) = Nth(Lead, j) /\ p = q + 1
        BY <1>1, <4>2, PlaceNext
      <4>7. CASE q = ImageRows
        <5>1. n = m + 1 /\ p = 0
          BY <1>1, <4>3, <4>6, <4>7
        <5> HIDE DEF n, m, p, q
        <5>2. (m + 1) * ImageRows = m * ImageRows + ImageRows
          BY <1>2, <4>3
        <5> QED BY <4>1, <4>5, <4>7, <5>1, <5>2
      <4>8. CASE q # ImageRows
        <5>1. n = m /\ p = q + 1
          BY <1>1, <4>3, <4>6, <4>8
        <5> HIDE DEF n, m, p, q
        <5>2. p # 0 /\ m * ImageRows \in Nat
          BY <1>2, <4>3, <4>4, <5>1
        <5>3. m * ImageRows + q = n * ImageRows + p - 1
          BY <1>2, <4>3, <4>4, <5>1, <5>2
        <5> QED BY <4>1, <4>5, <5>2, <5>3
      <4> QED BY <4>7, <4>8
    <3>2. CASE ~(i - 1 > Lead /\ i - 1 > Copied(r))
      <4>1. Reuse = 0 => Copied(r) = 0 /\ Lead = 1
        BY <1>1, <1>4
      <4>2. Reuse = 1 => Copied(r) = doc.prefix /\ Lead = doc.prefix - PageRows
        BY <1>1, <1>4, <1>9 DEF Lead
      <4>3. CASE Reuse = 0
        <5>1. i = Lead + 1 /\ i - 1 = 1 /\ Copied(r) = 0 /\ Lead = 1 /\ ~(1 <= 0)
          BY <1>1, <1>3, <1>9, <3>2, <4>1, <4>3
        <5>2. Nth(Lead, i) = 0 /\ p = 0
          BY <1>1, <1>3, <5>1, PlaceNext
        <5>3. VisualAt(r, 1) = 0
          BY <1>9, <5>1 DEF VisualAt
        <5>4. n = 0 /\ 0 * ImageRows = 0
          BY <1>2, <4>3, <5>2
        <5> QED BY <5>1, <5>2, <5>3, <5>4
      <4>4. CASE Reuse = 1
        <5>1. i - 1 = doc.prefix /\ i - 1 <= Copied(r) /\ i = Lead + 1 * PageRows + 1 + 0
          BY <1>1, <1>2, <1>3, <1>9, <3>2, <4>2, <4>4
        <5>2. Nth(Lead, Lead + 1 * PageRows + 1 + 0) = 1
                /\ Place(Lead, Lead + 1 * PageRows + 1 + 0) = 0
          <6>1. Lead \in Nat /\ 1 \in Nat /\ 0 \in 0..ImageRows
            BY <1>1, <1>2
          <6> QED BY <6>1, PlaceOf
        <5>3. Nth(Lead, i) = 1 /\ p = 0
          BY <5>1, <5>2
        <5>4. VisualAt(r, i - 1) = 0
          BY <5>1 DEF VisualAt
        <5>5. n = 0 /\ 0 * ImageRows = 0
          BY <1>2, <4>4, <5>3
        <5> QED BY <5>3, <5>4, <5>5
      <4> QED BY <1>1, <4>3, <4>4
    <3> QED BY <3>1, <3>2
  <2>7. CASE p = 0
    <3>1. Items(r.views, i).tok = PAGE
      BY <1>a, <2>4, <2>7
    <3>2. VisualAt(r, i) = n * ImageRows
      BY <2>3, <2>5, <2>7
    <3> QED BY <1>6, <2>6, <2>7, <3>1, <3>2 DEF VisualIs
  <2>8. CASE p # 0
    <3>1. Items(r.views, i) = Item(IMAGE, doc.next + Nth(Lead, i), p)
      BY <1>a, <2>4, <2>8
    <3>2. Items(r.views, i).tok = IMAGE
      BY <3>1 DEF Item
    <3>3. VisualAt(r, i) = VisualAt(r, i - 1) + 1
      <4> HIDE DEF n, p
      <4>1. n * ImageRows + p = (n * ImageRows + p - 1) + 1
        BY <1>2, <2>2, <2>5
      <4> QED BY <2>3, <2>6, <2>8, <4>1
    <3>4. (n * ImageRows + p - 1) \div ImageRows = n
            /\ ((n * ImageRows + p - 1) % ImageRows) + 1 = p
      <4>1. p \in 1..ImageRows
        BY <1>2, <2>2, <2>8
      <4> HIDE DEF n, p
      <4> QED BY <2>1, <4>1, VisualPlace
    <3>5. VisualItem(r, VisualAt(r, i))
            = Item(IMAGE, doc.next + Reuse + ((n * ImageRows + p - 1) \div ImageRows),
                   ((n * ImageRows + p - 1) % ImageRows) + 1)
      <4>1. PICK v \in Nat : v = VisualAt(r, i) /\ v - 1 = n * ImageRows + p - 1
        <5> HIDE DEF n, p
        <5> QED BY <1>2, <2>2, <2>3, <2>5
      <4>2. VisualItem(r, v) = Item(IMAGE, doc.next + Reuse + ((v - 1) \div ImageRows),
                                    ((v - 1) % ImageRows) + 1)
        BY <1>9 DEF VisualItem
      <4> HIDE DEF n, p
      <4> QED BY <4>1, <4>2
    <3>6. doc.next + Reuse + n = doc.next + Nth(Lead, i)
      BY <1>1, <2>1
    <3>7. VisualItem(r, VisualAt(r, i)) = Items(r.views, i)
      BY <2>3, <3>1, <3>4, <3>5, <3>6
    <3> QED BY <3>2, <3>3, <3>7 DEF VisualIs
  <2> QED BY <2>7, <2>8
<1>10. CASE r.views # Reuse /\ i > end
  <2>1. Reuse = 0 /\ Lead = 1 /\ Copied(r) = 0
    BY <1>1, <1>2, <1>3, <1>4, <1>10
  <2>2. ~(i <= Lead) /\ ~(i <= end) /\ ~(i <= 0) /\ r.views # 0
    BY <1>1, <1>2, <1>3, <1>10
  <2>3. VisualAt(r, i) = r.views * ImageRows
    <3>1. r.views - 0 = r.views
      BY <1>1
    <3> QED BY <2>1, <2>2, <3>1 DEF VisualAt, end
  <2>4. Items(r.views, i).tok = TEXT
    BY <2>2 DEF Items, RowItem, Item, end
  <2>5. VisualAt(r, i - 1) = r.views * ImageRows
    <3>1. CASE i - 1 = end
      <4>1. ~(end <= Lead) /\ ~(end <= 0) /\ end <= end
        BY <1>1, <1>2
      <4>2. VisualAt(r, end) = (Nth(Lead, end) - Reuse) * ImageRows + Place(Lead, end)
        BY <2>1, <2>2, <4>1 DEF VisualAt, end
      <4>3. (r.views - 1) * ImageRows + ImageRows = r.views * ImageRows
        BY <1>1, <1>2
      <4>4. (r.views - 1) - 0 = r.views - 1
        BY <1>1
      <4> QED BY <1>2, <2>1, <3>1, <4>2, <4>3, <4>4
    <3>2. CASE i - 1 # end
      <4>1. ~(i - 1 <= Lead) /\ ~(i - 1 <= end) /\ ~(i - 1 <= 0)
        BY <1>1, <1>2, <1>3, <1>10, <3>2
      <4>2. r.views - 0 = r.views
        BY <1>1
      <4> QED BY <2>1, <2>2, <4>1, <4>2 DEF VisualAt, end
    <3> QED BY <3>1, <3>2
  <2> QED BY <1>6, <2>3, <2>4, <2>5 DEF VisualIs
<1> QED BY <1>1, <1>2, <1>3, <1>7, <1>8, <1>9, <1>10

(* The coordinates and the row that prefilling gives the i-th row, and a   *)
(* cache as the record of its fields.                                      *)
CoordAt(views, i) ==
  Coordinates(StateAt(Reuse, doc.next, Lead, views, i - 1), Items(views, i).tok, FALSE)
RowAt(r, i) ==
  IF i <= Copied(r) THEN saved.rows[i] ELSE Rotated(Items(r.views, i), CoordAt(r.views, i))

CacheRecord(rows, coords, prompt, visual, ok, state) ==
  [rows |-> rows, coords |-> coords, prompt |-> prompt, visual |-> visual, ok |-> ok,
   state |-> state]

(* Appending a row to such a record.                                       *)
LEMMA Append1Is ==
  ASSUME NEW a, NEW b, NEW p, NEW v, NEW ok, NEW s, NEW tok, NEW row, NEW generated
  PROVE  Append1(CacheRecord(a, b, p, v, ok, s), tok, row, generated)
           = CacheRecord(Append(a, row), Append(b, Coordinates(s, tok, generated)), p, v, ok,
                         StateStep(s, tok, generated))
<1> DEFINE w == CacheRecord(a, b, p, v, ok, s)
<1>1. w.rows = a /\ w.coords = b /\ w.state = s
  BY DEF CacheRecord
<1> HIDE DEF w
<1>2. Append1(w, tok, row, generated)
        = [w EXCEPT !.rows = Append(a, row), !.coords = Append(b, Coordinates(s, tok, generated)),
                    !.state = StateStep(s, tok, generated)]
  BY <1>1 DEF Append1
<1>3. PICK x, y, z : /\ x = Append(a, row) /\ y = Append(b, Coordinates(s, tok, generated))
                     /\ z = StateStep(s, tok, generated)
  OBVIOUS
<1>4. [w EXCEPT !.rows = x, !.coords = y, !.state = z]
        = [[[w EXCEPT !.rows = x] EXCEPT !.coords = y] EXCEPT !.state = z]
  OBVIOUS
<1>5. [w EXCEPT !.rows = x] = CacheRecord(x, b, p, v, ok, s)
  BY DEF CacheRecord, w
<1>6. [CacheRecord(x, b, p, v, ok, s) EXCEPT !.coords = y] = CacheRecord(x, y, p, v, ok, s)
  BY DEF CacheRecord
<1>7. [CacheRecord(x, y, p, v, ok, s) EXCEPT !.state = z] = CacheRecord(x, y, p, v, ok, z)
  BY DEF CacheRecord
<1> QED BY <1>2, <1>3, <1>4, <1>5, <1>6, <1>7 DEF w

(* The cache with the first i rows of the prompt.                          *)
FedTo(r, i) ==
  CacheRecord([k \in 1..i |-> RowAt(r, k)], [k \in 1..i |-> CoordAt(r.views, k)],
              WindowPrompt(r), VisualAt(r, i), TRUE, StateAt(Reuse, doc.next, Lead, r.views, i))

(* Appending the next value of a function.                                 *)
LEMMA AppendNext ==
  ASSUME NEW S, NEW n \in Nat, NEW g \in [1..(n + 1) -> S]
  PROVE  Append([k \in 1..n |-> g[k]], g[n + 1]) = g
<1> DEFINE f == [k \in 1..n |-> g[k]]
<1>1. f \in [1..n -> S]
  OBVIOUS
<1>2. f \in Seq(S) /\ Len(f) = n
  BY <1>1
<1>3. g \in Seq(S) /\ Len(g) = n + 1
  OBVIOUS
<1>4. g[n + 1] \in S
  OBVIOUS
<1>5. \A k \in 1..n : f[k] = g[k]
  OBVIOUS
<1> HIDE DEF f
<1>6. PICK e \in S : e = g[n + 1]
  BY <1>4
<1>7. Append(f, e) \in Seq(S) /\ Len(Append(f, e)) = n + 1
      /\ \A k \in 1..(n + 1) : Append(f, e)[k] = IF k <= n THEN f[k] ELSE e
  BY <1>2
<1>8. \A k \in 1..(n + 1) : Append(f, e)[k] = g[k]
  BY <1>5, <1>6, <1>7
<1>9. Append(f, e) = g
  BY <1>3, <1>7, <1>8, SeqEqual
<1> QED BY <1>6, <1>9 DEF f

(* The coordinates of a row of the prompt, and the counters after it.      *)
LEMMA RowCoords ==
  ASSUME TypeOK, SavedHolds, ~doc.finished, NEW r \in RequestRecords,
         PromptCount(r) <= MaxPositions, NEW i \in 1..PromptCount(r)
  PROVE  LET st == StateAt(Reuse, doc.next, Lead, r.views, i - 1)
             tok == Items(r.views, i).tok
             rope == RopeAt(Reuse, Lead, r.views, i)
         IN  /\ ~StepFails(st, tok, FALSE)
             /\ StateStep(st, tok, FALSE) = StateAt(Reuse, doc.next, Lead, r.views, i)
             /\ CoordAt(r.views, i) \in Coords
             /\ CoordAt(r.views, i).token = TokenAt(Lead, r.views, i)
             /\ CoordAt(r.views, i).page = rope + (IF rope # 0 THEN (doc.next - Reuse) % 2 ELSE 0)
             /\ CoordAt(r.views, i).image = IF tok = IMAGE THEN rope - 1 ELSE NoPage
             /\ Items(r.views, i) \in ItemSet
<1>1. Shape(Reuse, doc.next, Lead, r.views)
  BY WindowShape
<1>2. PromptCount(r) \in Nat /\ (Reuse = 1 => i <= PagesEnd(Lead, r.views))
  BY WindowShape
<1>3. i \in Nat \ {0} /\ i <= MaxPositions
  BY <1>2, Positive
<1>4. StepIs(Reuse, doc.next, Lead, r.views, i)
  BY <1>1, <1>2, <1>3, StateNext
<1>5. Items(r.views, i) \in ItemSet
  BY <1>1, <1>3, RowItemType DEF Items
<1> QED BY <1>4, <1>5 DEF StepIs, CoordAt, Items

(* Copied rows are among the saved ones.                                   *)
LEMMA CopiedRows ==
  ASSUME TypeOK, SavedHolds, ~doc.finished, NEW r \in RequestRecords,
         NEW i \in 1..Copied(r)
  PROVE  /\ Reuse = 1 /\ i \in 1..doc.prefix /\ saved.rows[i] \in Rows
         /\ Copied(r) \in Nat /\ Copied(r) <= PromptCount(r)
<1>1. doc.prefix \in Nat /\ r.views \in Nat \ {0} /\ doc.text \in Nat /\ PageRows \in Nat
  BY Positive DEF TypeOK, RequestRecords
<1>2. Reuse = 1 /\ doc.prefix # 0
  BY DEF Copied, Reuse
<1>3. i \in 1..doc.prefix /\ Copied(r) \in Nat /\ Copied(r) <= doc.prefix
  BY <1>1, <1>2 DEF Copied
<1>4. saved.rows \in Seq(Rows) /\ Len(saved.rows) = doc.prefix + doc.text
  BY <1>2 DEF SavedHolds, RowsHold
<1>5. i \in 1..Len(saved.rows)
  BY <1>1, <1>3, <1>4
<1>6. (r.views - 1) * PageRows \in Nat
  BY <1>1
<1>7. PromptCount(r) = doc.prefix + (r.views - 1) * PageRows
  BY <1>2 DEF PromptCount
<1>8. saved.rows[i] \in Rows
  BY <1>4, <1>5
<1>9. Copied(r) <= PromptCount(r)
  <2>1. PICK more \in Nat : more = (r.views - 1) * PageRows
    BY <1>6
  <2> QED BY <1>1, <1>3, <1>7, <2>1
<1> QED BY <1>2, <1>3, <1>8, <1>9, Zenon

(* Rows and coordinates keep their types.                                  *)
LEMMA RowTypes ==
  ASSUME TypeOK, SavedHolds, ~doc.finished, NEW r \in RequestRecords,
         PromptCount(r) <= MaxPositions, NEW i \in 1..PromptCount(r)
  PROVE  RowAt(r, i) \in Rows /\ CoordAt(r.views, i) \in Coords
<1>1. CoordAt(r.views, i) \in Coords /\ Items(r.views, i) \in ItemSet
  BY RowCoords
<1>2. CASE i <= Copied(r)
  <2>1. Copied(r) \in Int
    BY DEF Copied, TypeOK
  <2>2. i \in 1..Copied(r)
    BY <1>2, <2>1
  <2>3. saved.rows[i] \in Rows
    BY <2>2, CopiedRows
  <2> QED BY <1>1, <1>2, <2>3 DEF RowAt
<1>3. CASE ~(i <= Copied(r))
  <2> DEFINE item == Items(r.views, i)   at == CoordAt(r.views, i)
  <2>1. /\ item.tok \in Kinds /\ item.page \in Int /\ item.at \in Int
        /\ at.token \in Int /\ at.page \in Int /\ at.page % 2 \in Int
    <3>1. at.page \in Int
      BY <1>1 DEF Coords
    <3>2. at.page % 2 \in Int
      <4> HIDE DEF at
      <4> QED BY <3>1
    <3> QED BY <1>1, <3>1, <3>2 DEF Coords, ItemSet
  <2>2. RowAt(r, i) = Rotated(item, at)
    BY <1>3 DEF RowAt
  <2> HIDE DEF item, at
  <2>3. Rotated(item, at) \in Rows
    BY <2>1 DEF Rotated, Rows
  <2> QED BY <1>1, <2>2, <2>3
<1> QED BY <1>2, <1>3

(* Feeding a row of the prompt takes the cache to the next.                *)
LEMMA FeedNext ==
  ASSUME TypeOK, SavedHolds, ~doc.finished, NEW r \in RequestRecords,
         PromptCount(r) <= MaxPositions, NEW i \in 1..PromptCount(r)
  PROVE  Feed(FedTo(r, i - 1), r, i) = FedTo(r, i)
<1> DEFINE c == FedTo(r, i - 1)
           st == StateAt(Reuse, doc.next, Lead, r.views, i - 1)
           item == Items(r.views, i)
           rows == [k \in 1..i |-> RowAt(r, k)]
           coords == [k \in 1..i |-> CoordAt(r.views, k)]
           rows0 == [k \in 1..(i - 1) |-> RowAt(r, k)]
           coords0 == [k \in 1..(i - 1) |-> CoordAt(r.views, k)]
           at == CoordAt(r.views, i)
           next == StateAt(Reuse, doc.next, Lead, r.views, i)
<1>1. PromptCount(r) \in Nat /\ i \in Nat \ {0}
  <2>1. PromptCount(r) \in Nat
    BY WindowShape
  <2> QED BY <2>1
<1>2. c.prompt = WindowPrompt(r) /\ WindowPrompt(r)[i] = item
  <2>1. \A k \in 1..PromptCount(r) : WindowPrompt(r)[k] = Items(r.views, k)
    BY WindowPromptIs
  <2>2. c.prompt = WindowPrompt(r)
    BY DEF FedTo, CacheRecord
  <2> HIDE DEF c, item
  <2> QED BY <2>1, <2>2 DEF item
<1>3. /\ ~StepFails(st, item.tok, FALSE) /\ StateStep(st, item.tok, FALSE) = next
      /\ Coordinates(st, item.tok, FALSE) = at
  <2>1. ~StepFails(st, item.tok, FALSE)
    BY RowCoords
  <2>2. StateStep(st, item.tok, FALSE) = next
    BY RowCoords
  <2> QED BY <2>1, <2>2 DEF CoordAt
<1>4. Append(rows0, RowAt(r, i)) = rows /\ Append(coords0, at) = coords
  <2>1. \A k \in 1..i : RowAt(r, k) \in Rows /\ CoordAt(r.views, k) \in Coords
    <3>1. TAKE k \in 1..i
    <3>2. k \in 1..PromptCount(r)
      BY <1>1
    <3> QED BY <3>2, RowTypes
  <2>2. PICK n \in Nat : n = i - 1
    BY <1>1
  <2>3. n + 1 = i
    BY <1>1, <2>2
  <2>4. rows \in [1..(n + 1) -> Rows] /\ coords \in [1..(n + 1) -> Coords]
    BY <2>1, <2>3
  <2>5. Append([k \in 1..n |-> rows[k]], rows[n + 1]) = rows
        /\ Append([k \in 1..n |-> coords[k]], coords[n + 1]) = coords
    <3> HIDE DEF rows, coords
    <3> QED BY <2>4, AppendNext
  <2>6. [k \in 1..n |-> rows[k]] = rows0 /\ [k \in 1..n |-> coords[k]] = coords0
    BY <1>1, <2>2, <2>3
  <2>7. rows[n + 1] = RowAt(r, i) /\ coords[n + 1] = at
    BY <1>1, <2>3
  <2> HIDE DEF rows, coords, rows0, coords0
  <2> QED BY <2>5, <2>6, <2>7
<1>b. PICK ok, no : ok = TRUE /\ no = FALSE
  OBVIOUS
<1> DEFINE With(v) == CacheRecord(rows0, coords0, WindowPrompt(r), v, ok, st)
<1>5. c = With(VisualAt(r, i - 1))
  BY <1>b DEF FedTo
<1>6. FedTo(r, i) = CacheRecord(rows, coords, WindowPrompt(r), VisualAt(r, i), ok, next)
  BY <1>b DEF FedTo
<1>7. ASSUME NEW v
      PROVE  Append1(With(v), item.tok, RowAt(r, i), FALSE)
               = CacheRecord(rows, coords, WindowPrompt(r), v, ok, next)
  <2> HIDE DEF rows, coords, rows0, coords0, next, st, at, item
  <2>1. Append1(CacheRecord(rows0, coords0, WindowPrompt(r), v, ok, st), item.tok, RowAt(r, i), no)
          = CacheRecord(Append(rows0, RowAt(r, i)), Append(coords0, Coordinates(st, item.tok, no)),
                        WindowPrompt(r), v, ok, StateStep(st, item.tok, no))
    BY Append1Is
  <2> QED BY <1>3, <1>4, <1>b, <2>1
<1>8. ASSUME NEW v, ~(i <= Copied(r))
      PROVE  Compute(With(v), item, FALSE) = CacheRecord(rows, coords, WindowPrompt(r), v, ok, next)
  <2>1. RowAt(r, i) = Rotated(item, at)
    BY <1>8 DEF RowAt
  <2> HIDE DEF rows, coords, rows0, coords0, next, st, at, item
  <2>2. With(v).ok = ok /\ With(v).state = st
    BY DEF CacheRecord
  <2>3. Compute(With(v), item, FALSE) = Append1(With(v), item.tok, RowAt(r, i), FALSE)
    BY <1>3, <1>b, <2>1, <2>2 DEF Compute
  <2> QED BY <1>7, <2>3
<1>9. CASE i <= Copied(r)
  <2>1. i - 1 <= Copied(r)
    <3>1. Copied(r) \in Int
      BY DEF Copied, TypeOK
    <3> QED BY <1>1, <1>9, <3>1
  <2>2. VisualAt(r, i) = 0 /\ VisualAt(r, i - 1) = 0 /\ RowAt(r, i) = saved.rows[i]
    BY <1>9, <2>1 DEF VisualAt, RowAt
  <2>3. Feed(c, r, i) = Replay(c, item.tok, saved.rows[i])
    BY <1>2, <1>9 DEF Feed
  <2> HIDE DEF rows, coords, rows0, coords0, next, st, at, item, c
  <2>4. c.ok = ok /\ c.state = st
    BY <1>5 DEF CacheRecord
  <2>5. Replay(c, item.tok, saved.rows[i]) = Append1(c, item.tok, saved.rows[i], FALSE)
    BY <1>3, <1>b, <2>4 DEF Replay
  <2> HIDE DEF With
  <2> QED BY <1>5, <1>6, <1>7, <2>2, <2>3, <2>5 DEF c
<1>10. CASE ~(i <= Copied(r)) /\ item.tok = IMAGE
  <2>1. VisualIs(r, i)
    <3>1. Copied(r) \in Int
      BY DEF Copied, TypeOK
    <3>2. i > Copied(r)
      BY <1>1, <1>10, <3>1
    <3> QED BY <3>2, VisualNext
  <2>2. VisualAt(r, i) = VisualAt(r, i - 1) + 1 /\ VisualItem(r, VisualAt(r, i)) = item
    BY <1>10, <2>1 DEF VisualIs
  <2> DEFINE visual == [c EXCEPT !.visual = @ + 1]
  <2>3. Feed(c, r, i) = Compute(visual, VisualItem(r, visual.visual), FALSE)
    BY <1>2, <1>10 DEF Feed
  <2> HIDE DEF rows, coords, rows0, coords0, next, st, at, item, c
  <2>4. visual = With(VisualAt(r, i))
    <3>1. PICK v, w : v = VisualAt(r, i - 1) /\ w = VisualAt(r, i) /\ w = v + 1
      BY <2>2
    <3>2. [With(v) EXCEPT !.visual = w] = With(w)
      BY DEF CacheRecord
    <3>3. With(v).visual = v
      BY DEF CacheRecord
    <3> HIDE DEF With
    <3> QED BY <1>5, <3>1, <3>2, <3>3
  <2>5. visual.visual = VisualAt(r, i)
    BY <2>4 DEF CacheRecord
  <2> HIDE DEF With, visual
  <2> QED BY <1>6, <1>8, <1>10, <2>2, <2>3, <2>4, <2>5 DEF c
<1>11. CASE ~(i <= Copied(r)) /\ item.tok # IMAGE
  <2>1. VisualIs(r, i)
    <3>1. Copied(r) \in Int
      BY DEF Copied, TypeOK
    <3>2. i > Copied(r)
      BY <1>1, <1>11, <3>1
    <3> QED BY <3>2, VisualNext
  <2>2. VisualAt(r, i) = VisualAt(r, i - 1)
    BY <1>11, <2>1 DEF VisualIs
  <2>3. Feed(c, r, i) = Compute(c, item, FALSE)
    BY <1>2, <1>11 DEF Feed
  <2> HIDE DEF rows, coords, rows0, coords0, next, st, at, item, c, With
  <2> QED BY <1>5, <1>6, <1>8, <1>11, <2>2, <2>3 DEF c
<1> QED BY <1>9, <1>10, <1>11

(* A set of numbers has a least one.                                       *)
LEMMA LeastNat ==
  ASSUME NEW S \in SUBSET Nat, S # {}
  PROVE  \E n \in S : \A m \in S : n <= m
<1>1. PICK n \in S : \A m \in S : ~(<<m, n>> \in OpToRel(<, Nat))
  BY NatLessThanWellFounded, WFMin
<1>2. OpToRel(<, Nat) = {p \in Nat \X Nat : p[1] < p[2]}
  BY Zenon DEF OpToRel
<1>3. \A m \in S : <<m, n>> \notin {p \in Nat \X Nat : p[1] < p[2]}
  BY <1>1, <1>2, Zenon
<1>4. ASSUME NEW m \in S
      PROVE  n <= m
  <2>1. m \in Nat /\ n \in Nat
    BY <1>1
  <2>2. ~(m < n)
    BY <1>3, <2>1
  <2> QED
    BY <2>1, <2>2
<1> QED
  BY <1>1, <1>4

(* A function on no rows is the empty sequence.                            *)
LEMMA NoRows ==
  ASSUME NEW f, f = [k \in 1..0 |-> f[k]]
  PROVE  f = <<>>
<1>1. f \in [1..0 -> {}]
  <2>1. \A k \in 1..0 : f[k] \in {}
    OBVIOUS
  <2> QED BY <2>1
<1>2. f \in Seq({}) /\ Len(f) = 0
  BY <1>1
<1> QED BY <1>2

(* A cache is opened for the pages of its window.                          *)
LEMMA EmptyIs ==
  ASSUME TypeOK, SavedHolds, ~doc.finished, NEW r \in RequestRecords,
         PromptCount(r) <= MaxPositions
  PROVE  EmptyCache(WindowPrompt(r), PageCounters(r), PageBase) = FedTo(r, 0)
<1>1. /\ Shape(Reuse, doc.next, Lead, r.views) /\ r.views \in Nat \ {0} /\ doc.next \in Nat
      /\ Reuse \in {0, 1} /\ Lead \in Nat \ {0} /\ MaxPositions \in Nat /\ PageRows \in Nat \ {0}
      /\ PromptCount(r) \in Nat /\ PromptCount(r) >= PagesEnd(Lead, r.views)
  <2>1. Shape(Reuse, doc.next, Lead, r.views)
    BY WindowShape
  <2>2. PromptCount(r) \in Nat /\ PromptCount(r) >= PagesEnd(Lead, r.views)
    BY WindowShape
  <2> QED BY <2>1, <2>2, Positive DEF TypeOK, RequestRecords, Shape
<1>2. PageCounters(r) \in 2..MaxPositions + 1
  <2>1. PICK v \in Nat, p \in Nat, k \in Nat : v = r.views /\ p = PageRows /\ k = p - 1
          /\ p = k + 1
    BY <1>1
  <2>2. v * p = v * k + v /\ v * k \in Nat
    BY <2>1
  <2>3. PagesEnd(Lead, r.views) = Lead + v * p
    BY <2>1 DEF PagesEnd
  <2>4. PageCounters(r) = v + Reuse + 1
    BY <2>1 DEF PageCounters
  <2>5. PICK w \in Nat : w = v * k /\ PagesEnd(Lead, r.views) = Lead + w + v
    BY <1>1, <2>2, <2>3
  <2>6. v + Reuse <= MaxPositions
    BY <1>1, <2>5
  <2> QED BY <1>1, <2>1, <2>4, <2>6
<1>3. VisualAt(r, 0) = 0
  <2>1. Copied(r) \in Nat
    BY DEF Copied, TypeOK, Reuse
  <2> QED BY <2>1 DEF VisualAt
<1> DEFINE st == StateAt(Reuse, doc.next, Lead, r.views, 0)
           rows == [k \in 1..0 |-> RowAt(r, k)]
           coords == [k \in 1..0 |-> CoordAt(r.views, k)]
<1>4. StateInit(PageCounters(r), PageBase) = st
  <2>1. PageCounters(r) = r.views + Reuse + 1 /\ PageCounters(r) - 1 = r.views + Reuse
    <3>1. PageCounters(r) = r.views + Reuse + 1
      BY DEF PageCounters
    <3> QED BY <1>1, <3>1
  <2>2. PageBase = doc.next - Reuse
    BY <1>1 DEF PageBase
  <2>3. MarkersAt(Reuse, Lead, r.views, 0) = 0 /\ PromptAt(Reuse, Lead, r.views, 0) = 0
    BY <1>1 DEF MarkersAt, PromptAt
  <2>4. \A p \in 0..(r.views + Reuse) : CountAt(Reuse, Lead, r.views, 0, p) = 0
    BY <1>1 DEF CountAt, CountOfRest, CountOfPage
  <2>5. [p \in 0..(r.views + Reuse) |-> CountAt(Reuse, Lead, r.views, 0, p)]
          = [p \in 0..(r.views + Reuse) |-> 0]
    BY <2>4
  <2>6. StateInit(PageCounters(r), PageBase)
          = [markers |-> 0, prompt |-> 0, capacity |-> r.views + Reuse + 1,
             parity |-> (doc.next - Reuse) % 2, started |-> FALSE,
             counts |-> [p \in 0..(r.views + Reuse) |-> 0]]
    BY <2>1, <2>2 DEF StateInit
  <2> QED BY <2>3, <2>5, <2>6 DEF StateAt
<1>5. rows = <<>> /\ coords = <<>>
  <2>1. rows = [k \in 1..0 |-> rows[k]] /\ coords = [k \in 1..0 |-> coords[k]]
    OBVIOUS
  <2> HIDE DEF rows, coords
  <2> QED BY <2>1, NoRows
<1>6. EmptyCache(WindowPrompt(r), PageCounters(r), PageBase)
        = CacheRecord(<<>>, <<>>, WindowPrompt(r), 0, TRUE, st)
  <2>1. (PageCounters(r) \in 2..MaxPositions + 1) = TRUE
    BY <1>2
  <2> HIDE DEF st
  <2> QED BY <1>4, <2>1 DEF EmptyCache, CacheRecord
<1>7. FedTo(r, 0) = CacheRecord(rows, coords, WindowPrompt(r), VisualAt(r, 0), TRUE, st)
  BY DEF FedTo
<1> HIDE DEF rows, coords, st
<1> QED BY <1>3, <1>5, <1>6, <1>7

(* Prefilling ends with all the rows of the prompt: were it not so, there  *)
(* would be a first row that goes wrong.                                   *)
LEMMA PrefillingIs ==
  ASSUME TypeOK, SavedHolds, ~doc.finished, NEW r \in RequestRecords,
         PromptCount(r) <= MaxPositions
  PROVE  Prefilling(r) = FedTo(r, PromptCount(r))
<1>1. PICK n \in Nat : n = PromptCount(r)
  BY WindowShape
<1>2. Len(WindowPrompt(r)) = n
  BY <1>1, WindowPromptIs
<1> DEFINE empty == EmptyCache(WindowPrompt(r), PageCounters(r), PageBase)
           Turn(f, i) == IF i = 0 THEN empty ELSE Feed(f[i - 1], r, i)
           Runs(f) == f = [i \in 0..n |-> Turn(f, i)]
           run == CHOOSE f : Runs(f)
           goal == [i \in 0..n |-> FedTo(r, i)]
<1>3. Prefilling(r) = run[n]
  BY <1>2 DEF Prefilling
<1>4. empty = FedTo(r, 0)
  BY EmptyIs
<1>5. \A i \in 1..n : Feed(FedTo(r, i - 1), r, i) = FedTo(r, i)
  BY <1>1, FeedNext
<1> HIDE DEF empty
<1>6. Runs(goal)
  <2>1. \A i \in 0..n : goal[i] = FedTo(r, i)
    OBVIOUS
  <2>2. goal = [i \in 0..n |-> goal[i]]
    OBVIOUS
  <2> HIDE DEF goal
  <2>3. \A i \in 0..n : Turn(goal, i) = goal[i]
    <3>1. TAKE i \in 0..n
    <3>2. CASE i = 0
      BY <1>4, <2>1, <3>2
    <3>3. CASE i # 0
      <4>1. i \in 1..n /\ i - 1 \in 0..n
        BY <3>3
      <4>2. goal[i - 1] = FedTo(r, i - 1) /\ goal[i] = FedTo(r, i)
        BY <2>1, <4>1
      <4> QED BY <1>5, <3>3, <4>1, <4>2
    <3> QED BY <3>2, <3>3
  <2> HIDE DEF Turn
  <2> QED BY <2>2, <2>3
<1> HIDE DEF goal, Turn
<1>7. Runs(run)
  <2> HIDE DEF Runs
  <2> QED BY <1>6
<1> HIDE DEF run
<1>8. \A i \in 0..n : run[i] = Turn(run, i)
  BY <1>7
<1>9. ~ \E i \in 0..n : run[i] # FedTo(r, i)
  <2> SUFFICES ASSUME NEW j \in 0..n, run[j] # FedTo(r, j) PROVE FALSE
    OBVIOUS
  <2> DEFINE bad == {i \in 0..n : run[i] # FedTo(r, i)}
  <2>1. bad \in SUBSET Nat /\ bad # {}
    OBVIOUS
  <2>2. PICK i \in bad : \A m \in bad : i <= m
    <3> HIDE DEF bad
    <3> QED BY <2>1, LeastNat
  <2>3. i \in 0..n /\ run[i] # FedTo(r, i)
    OBVIOUS
  <2>4. i # 0
    BY <1>4, <1>8, <2>3 DEF Turn
  <2>5. i \in 1..n /\ i - 1 \in 0..n /\ ~(i <= i - 1)
    BY <2>3, <2>4
  <2>6. run[i - 1] = FedTo(r, i - 1)
    BY <2>2, <2>5
  <2>7. run[i] = Feed(run[i - 1], r, i)
    BY <1>8, <2>3, <2>4 DEF Turn
  <2> QED BY <1>5, <2>3, <2>5, <2>6, <2>7
<1>10. run[n] = FedTo(r, n)
  BY <1>9
<1> QED BY <1>1, <1>3, <1>10

-----------------------------------------------------------------------------
(* What the cache of a window holds, and how a generated token adds to it. *)

(* A row and the coordinates its window gives it.                          *)
Agrees(row, at, next, base) ==
  /\ row.parity = at.page % 2
  /\ row.page # NoPage => row.parity = (row.page + 1) % 2
  /\ row.page >= next => row.token = at.token
  /\ row.tok = IMAGE => row.page # NoPage
  /\ at.image = IF row.tok = IMAGE THEN row.page - base ELSE NoPage

(* The prompt of a cache has the shape of its window.                      *)
PromptHolds(c, next, lead, w) ==
  /\ Shape(w.reuse, next, lead, w.views)
  /\ w.prompt \in Nat /\ w.prompt >= PagesEnd(lead, w.views)
  /\ w.reuse = 1 => w.prompt = PagesEnd(lead, w.views)
  /\ c.prompt \in Seq(ItemSet) /\ Len(c.prompt) = w.prompt
  /\ \A i \in 1..w.prompt : c.prompt[i] = RowItem(w.reuse, next, lead, w.views, i)

(* There is a row and a coordinate for each position, and they agree.      *)
RowsAgree(c, next, w) ==
  /\ c.rows \in Seq(Rows) /\ Len(c.rows) = w.length
  /\ c.coords \in Seq(Coords) /\ Len(c.coords) = w.length
  /\ \A i \in 1..w.length : Agrees(c.rows[i], c.coords[i], next, next - w.reuse)

(* The rows of the prompt hold its items.                                  *)
PromptRows(c, next, lead, w) ==
  \A i \in 1..w.prompt :
    /\ ItemOf(c.rows[i]) = RowItem(w.reuse, next, lead, w.views, i)
    /\ c.rows[i].page >= next => c.rows[i].token = c.rows[i].at

(* A row of text, and the page that the text after a number of markers     *)
(* writes.                                                                 *)
TextRow(row, page, at) == row.tok = TEXT /\ row.page = page /\ row.at = at
PageWritten(markers, next) == IF markers = 0 THEN NoPage ELSE next + markers - 1

(* The rows behind the prompt query the page they write.                   *)
QueriesOf(c, next, w) ==
  \A i \in (w.prompt + 1)..w.length :
    c.rows[i].page # NoPage =>
      /\ c.coords[i].query \in Nat
      /\ c.coords[i].query = c.rows[i].page - (next - w.reuse)

(* The restored rows are consecutive text of the page before.              *)
SavedRows(c, next, w) ==
  \A i \in 1..w.saved :
    TextRow(c.rows[w.prompt + i], next - 1, c.rows[w.prompt + 1].at + i - 1)

(* The tokens since the last marker are consecutive text of its page.      *)
GeneratedRows(c, next, w) ==
  \A i \in (w.marker + 1)..w.count :
    TextRow(c.rows[w.prompt + w.saved + i], PageWritten(w.guard.markers, next), i - w.marker)

(* The counters, and what they are once the prompt has been read.          *)
States(shown) ==
  [markers : Nat, prompt : Nat, capacity : Nat, parity : Nat, started : BOOLEAN,
   counts : [0..shown -> Nat]]
CountersHold(st, next, w, markers) ==
  /\ st \in States(w.views + w.reuse)
  /\ st.markers = markers /\ st.prompt = w.views + w.reuse
  /\ st.capacity = w.views + w.reuse + 1 /\ st.parity = (next - w.reuse) % 2
  /\ \A p \in 0..(w.views + w.reuse) : st.counts[p] <= w.length

(* The cache c of the window w, whose first page is next and whose pages   *)
(* start behind the row lead.                                              *)
CacheHolds(c, next, lead, w, markers) ==
  /\ c.ok /\ c = CacheRecord(c.rows, c.coords, c.prompt, c.visual, c.ok, c.state)
  /\ PromptHolds(c, next, lead, w)
  /\ RowsAgree(c, next, w)
  /\ PromptRows(c, next, lead, w)
  /\ QueriesOf(c, next, w)
  /\ SavedRows(c, next, w)
  /\ GeneratedRows(c, next, w)
  /\ CountersHold(c.state, next, w, markers)

(* Parity of a sum.                                                        *)
LEMMA ParityOf ==
  ASSUME NEW a \in Nat, NEW b \in Nat
  PROVE  /\ (a + (b % 2)) % 2 = (a + b) % 2
         /\ a % 2 \in {0, 1}
<1>1. PICK x \in Nat, r \in 0..1 : b = 2 * x + r /\ r = b % 2
  <2>1. b \div 2 \in Nat /\ b % 2 \in 0..1 /\ b = 2 * (b \div 2) + (b % 2)
    OBVIOUS
  <2> QED BY <2>1
<1>2. a + b = (a + r) + 2 * x
  BY <1>1
<1>3. ((a + r) + 2 * x) % 2 = (a + r) % 2
  BY <1>1
<1> QED BY <1>1, <1>2, <1>3

(* Stepping the counters by a generated token, for the window w, then v.   *)
WriteFrom(st, next, w, v, markers, tok, after) ==
  /\ w.views \in Nat \ {0} /\ w.reuse \in {0, 1} /\ (w.reuse = 1 => next # 0)
  /\ v.views = w.views /\ v.reuse = w.reuse /\ v.length = w.length + 1
  /\ w.length \in Nat /\ w.length < MaxPositions
  /\ after = markers + (IF tok = PAGE THEN 1 ELSE 0)
  /\ after >= w.reuse /\ after <= w.views
  /\ CountersHold(st, next, w, w.views + w.reuse + w.reuse + markers)
WriteIs(st, next, w, v, tok, after) ==
  /\ ~StepFails(st, tok, TRUE)
  /\ CountersHold(StateStep(st, tok, TRUE), next, v, w.views + w.reuse + w.reuse + after)
  /\ Coordinates(st, tok, TRUE) \in Coords
  /\ Coordinates(st, tok, TRUE).page % 2 = (IF after = 0 THEN 0 ELSE (next + after) % 2)
  /\ Coordinates(st, tok, TRUE).image = NoPage
  /\ after # 0 => Coordinates(st, tok, TRUE).query = w.reuse + after - 1

(* A generated token of an owned page steps the counters.                  *)
LEMMA CountersWrite ==
  ASSUME NEW st, NEW next \in Nat, NEW w, NEW v, NEW markers \in Nat,
         NEW tok \in {PAGE, TEXT}, NEW after \in Nat,
         WriteFrom(st, next, w, v, markers, tok, after)
  PROVE  WriteIs(st, next, w, v, tok, after)
<1>a. /\ w.views \in Nat \ {0} /\ w.reuse \in {0, 1} /\ (w.reuse = 1 => next # 0)
      /\ v.views = w.views /\ v.reuse = w.reuse /\ v.length = w.length + 1
      /\ w.length \in Nat /\ w.length < MaxPositions
      /\ after = markers + (IF tok = PAGE THEN 1 ELSE 0)
      /\ after >= w.reuse /\ after <= w.views
      /\ CountersHold(st, next, w, w.views + w.reuse + w.reuse + markers)
  BY DEF WriteFrom
<1> DEFINE shown == w.views + w.reuse
           m == w.views + w.reuse + w.reuse + after
           rope == IF after = 0 THEN 0 ELSE w.reuse + after
           at == Coordinates(st, tok, TRUE)
<1>1. /\ st \in States(shown) /\ st.prompt = shown /\ st.capacity = shown + 1
      /\ st.markers = w.views + w.reuse + w.reuse + markers
      /\ st.parity = (next - w.reuse) % 2
      /\ \A p \in 0..shown : st.counts[p] <= w.length
  BY <1>a DEF CountersHold
<1>2. shown \in Nat \ {0} /\ m \in Nat /\ MaxPositions \in Nat
  BY <1>a, Positive
<1>3. tok # IMAGE
  BY KindsDiffer
<1>4. MarkersWith(st, tok) = m /\ PromptPagesWith(st, tok) = shown
  BY <1>a, <1>1, <1>3 DEF MarkersWith, PromptPagesWith
<1>5. m > shown <=> after # 0
  BY <1>a
<1>6. RopePage(st, tok, TRUE) = rope
  <2>1. after # 0 => MinOf(m - shown, shown) = w.reuse + after
    BY <1>a DEF MinOf
  <2>2. RopePage(st, tok, TRUE) = IF m > shown THEN MinOf(m - shown, shown) ELSE 0
    BY <1>a, <1>3, <1>4 DEF RopePage
  <2> HIDE DEF m, shown
  <2> QED BY <1>a, <1>5, <2>1, <2>2
<1>7. rope \in 0..shown
  BY <1>a
<1>8. st.counts \in [0..shown -> Nat]
  BY <1>a, <1>1 DEF States
<1>9. st.counts[rope] \in Nat /\ st.counts[rope] <= w.length
  BY <1>a, <1>1, <1>7, <1>8
<1>10. ~StepFails(st, tok, TRUE)
  <2>1. ~(TRUE /\ st.prompt = 0)
    BY <1>a, <1>1, <1>2
  <2>2. ~(PromptPagesWith(st, tok) >= st.capacity) /\ ~(RopePage(st, tok, TRUE) >= st.capacity)
    <3>1. ~(shown >= shown + 1) /\ ~(rope >= shown + 1)
      BY <1>a, <1>2, <1>7
    <3> HIDE DEF shown, rope
    <3> QED BY <1>a, <1>1, <1>4, <1>6, <3>1
  <2>3. ~(st.counts[rope] >= MaxPositions)
    BY <1>a, <1>2, <1>9
  <2> HIDE DEF rope
  <2> QED BY <1>a, <1>3, <1>6, <2>1, <2>2, <2>3 DEF StepFails
<1>q. PICK q : q = QueryPage(st, tok, TRUE)
  BY <1>a
<1>11. /\ at = [token |-> st.counts[rope], page |-> rope + (IF rope # 0 THEN st.parity ELSE 0),
                image |-> NoPage, query |-> q]
  <2> HIDE DEF rope
  <2> QED BY <1>a, <1>3, <1>6, <1>q DEF Coordinates
<1> HIDE DEF at
<1>12. q = IF after = 0 THEN NoPage ELSE w.reuse + after - 1
  <2>1. QueryPage(st, tok, TRUE) = IF m > shown THEN m - shown - 1 ELSE NoPage
    BY <1>a, <1>3, <1>4 DEF QueryPage
  <2>2. after # 0 => m - shown - 1 = w.reuse + after - 1
    BY <1>a
  <2> HIDE DEF m, shown
  <2> QED BY <1>a, <1>5, <1>q, <2>1, <2>2
<1>13. st.parity \in Nat
  BY <1>a, <1>1 DEF States
<1>14. at \in Coords
  <2>1. rope + (IF rope # 0 THEN st.parity ELSE 0) \in Int
    BY <1>a, <1>7, <1>13
  <2>2. q \in Int /\ NoPage \in Int
    <3>1. NoPage \in Int
      BY DEF NoPage
    <3>2. CASE after = 0
      BY <1>a, <1>12, <3>1, <3>2
    <3>3. CASE after # 0
      BY <1>a, <1>12, <3>1, <3>3
    <3> QED BY <1>a, <3>2, <3>3
  <2> HIDE DEF rope
  <2>3. st.counts[rope] \in Int
    BY <1>a, <1>9
  <2> QED BY <1>a, <1>11, <2>1, <2>2, <2>3 DEF Coords
<1>15. at.page % 2 = IF after = 0 THEN 0 ELSE (next + after) % 2
  <2>1. CASE after = 0
    <3>1. at.page = 0
      <4>1. rope = 0
        BY <1>a, <2>1
      <4> HIDE DEF rope
      <4>2. at.page = rope + (IF rope # 0 THEN st.parity ELSE 0)
        BY <1>a, <1>11
      <4> QED BY <1>a, <4>1, <4>2
    <3>2. 0 % 2 = 0
      BY <1>a
    <3> QED BY <1>a, <2>1, <3>1, <3>2
  <2>2. CASE after # 0
    <3>1. PICK a \in Nat, b \in Nat : a = w.reuse + after /\ b = next - w.reuse /\ a # 0
      BY <1>a, <2>2
    <3>2. at.page = a + (b % 2)
      <4>1. rope = a /\ rope # 0
        BY <1>a, <2>2, <3>1
      <4> HIDE DEF rope
      <4>2. at.page = rope + (IF rope # 0 THEN st.parity ELSE 0)
        BY <1>a, <1>11
      <4> QED BY <1>a, <1>1, <3>1, <4>1, <4>2
    <3>3. (a + (b % 2)) % 2 = (a + b) % 2
      BY ParityOf
    <3>4. a + b = next + after
      BY <1>a, <3>1
    <3> QED BY <1>a, <2>2, <3>2, <3>3, <3>4
  <2> QED BY <1>a, <2>1, <2>2
<1>16. CountersHold(StateStep(st, tok, TRUE), next, v, m)
  <2>1. StateStep(st, tok, TRUE)
          = [st EXCEPT !.markers = m, !.prompt = shown, !.started = TRUE, !.counts[rope] = @ + 1]
    <3> HIDE DEF m, shown, rope
    <3> QED BY <1>a, <1>4, <1>6 DEF StateStep
  <2> DEFINE counts == [st.counts EXCEPT ![rope] = @ + 1]
  <2>2. counts \in [0..shown -> Nat]
    <3> HIDE DEF shown, rope
    <3> QED BY <1>a, <1>7, <1>8, <1>9
  <2>3. \A p \in 0..shown : counts[p] <= v.length
    <3>1. TAKE p \in 0..shown
    <3>2. counts[p] = IF p = rope THEN st.counts[p] + 1 ELSE st.counts[p]
      <4> HIDE DEF shown, rope
      <4> QED BY <1>a, <1>8
    <3>3. st.counts[p] \in Nat /\ st.counts[p] <= w.length
      BY <1>a, <1>1, <1>8
    <3> QED BY <1>a, <3>2, <3>3
  <2>4. st = [markers |-> st.markers, prompt |-> st.prompt, capacity |-> st.capacity,
              parity |-> st.parity, started |-> st.started, counts |-> st.counts]
    BY <1>a, <1>1 DEF States
  <2> HIDE DEF m, shown, rope, counts
  <2>y. PICK yes \in BOOLEAN : yes = TRUE
    BY <1>a
  <2>8. PICK n : n = StateStep(st, tok, TRUE)
    BY <1>a
  <2>5. n = [markers |-> m, prompt |-> shown, capacity |-> st.capacity, parity |-> st.parity,
             started |-> yes, counts |-> counts]
    <3>1. n = [st EXCEPT !.markers = m, !.prompt = shown, !.started = yes, !.counts = counts]
      BY <1>a, <2>1, <2>8, <2>y DEF counts
    <3> HIDE DEF counts
    <3> QED BY <1>a, <2>4, <3>1
  <2>6. st.capacity \in Nat /\ st.parity \in Nat /\ m \in Nat /\ shown \in Nat
    BY <1>a, <1>1, <1>2 DEF States
  <2>7. n \in States(shown)
    BY <1>a, <2>2, <2>5, <2>6 DEF States
  <2>9. /\ n.markers = m /\ n.prompt = shown /\ n.capacity = st.capacity
        /\ n.parity = st.parity /\ n.counts = counts
    BY <1>a, <2>5
  <2>10. v.views + v.reuse = shown
    BY <1>a DEF shown
  <2> QED BY <1>a, <1>1, <2>3, <2>7, <2>8, <2>9, <2>10 DEF CountersHold, shown
<1>17. after # 0 => at.query = w.reuse + after - 1
  BY <1>a, <1>11, <1>12
<1>18. at.image = NoPage
  BY <1>a, <1>11
<1> QED BY <1>a, <1>10, <1>14, <1>15, <1>16, <1>17, <1>18 DEF at, WriteIs

(* The counts of a window being decoded.                                   *)
Counts(w) ==
  /\ w.views \in Nat \ {0} /\ w.reuse \in {0, 1} /\ w.prompt \in Nat /\ w.saved \in Nat
  /\ w.length \in Nat /\ w.count \in Nat /\ w.marker \in Nat /\ w.marker <= w.count
  /\ w.length = w.prompt + w.saved + w.count

(* Window v is w after one more token.                                     *)
OneMore(w, v, tok, after) ==
  /\ v.views = w.views /\ v.reuse = w.reuse /\ v.prompt = w.prompt /\ v.saved = w.saved
  /\ v.length = w.length + 1 /\ v.count = w.count + 1
  /\ v.marker = IF tok = PAGE THEN w.count + 1 ELSE w.marker
  /\ v.guard.markers = after
  /\ tok = TEXT => after = w.guard.markers

(* The item that the next token is.                                        *)
Written(w, next, tok, after) ==
  Item(tok, PageWritten(after, next), IF tok = PAGE THEN 0 ELSE w.count + 1 - w.marker)

(* The elements of a longer sequence.                                      *)
LEMMA AppendIs ==
  ASSUME NEW S, NEW s \in Seq(S), NEW e \in S, NEW n \in Nat, Len(s) = n
  PROVE  /\ Append(s, e) \in Seq(S) /\ Len(Append(s, e)) = n + 1
         /\ \A i \in 1..n : Append(s, e)[i] = s[i]
         /\ Append(s, e)[n + 1] = e
OBVIOUS

(* A generated token that is fed leaves a cache that holds its rows.       *)
LEMMA EmitHolds ==
  ASSUME NEW c, NEW next \in Nat, NEW lead, NEW w, NEW v, Counts(w),
         w.guard.markers \in Nat, w.length < MaxPositions,
         NEW tok \in {PAGE, TEXT}, NEW after \in Nat, OneMore(w, v, tok, after),
         after = w.guard.markers + (IF tok = PAGE THEN 1 ELSE 0),
         after >= w.reuse, after <= w.views,
         CacheHolds(c, next, lead, w, w.views + w.reuse + w.reuse + w.guard.markers)
  PROVE  CacheHolds(Compute(c, Written(w, next, tok, after), TRUE), next, lead, v,
                    w.views + w.reuse + w.reuse + after)
<1> DEFINE item == Written(w, next, tok, after)
           at == Coordinates(c.state, tok, TRUE)
           row == Rotated(item, at)
           n == w.length
           rows == Append(c.rows, row)
           coords == Append(c.coords, at)
           d == Compute(c, item, TRUE)
           stepped == StateStep(c.state, tok, TRUE)
<1>1. /\ c.ok /\ c = CacheRecord(c.rows, c.coords, c.prompt, c.visual, c.ok, c.state)
      /\ PromptHolds(c, next, lead, w) /\ RowsAgree(c, next, w) /\ PromptRows(c, next, lead, w)
      /\ QueriesOf(c, next, w) /\ SavedRows(c, next, w) /\ GeneratedRows(c, next, w)
      /\ CountersHold(c.state, next, w, w.views + w.reuse + w.reuse + w.guard.markers)
  BY DEF CacheHolds
<1>2. /\ w.views \in Nat \ {0} /\ w.reuse \in {0, 1} /\ w.prompt \in Nat /\ w.saved \in Nat
      /\ n \in Nat /\ w.count \in Nat /\ w.marker \in Nat /\ w.marker <= w.count
      /\ n = w.prompt + w.saved + w.count
      /\ (w.reuse = 1 => next # 0)
  BY <1>1 DEF Counts, PromptHolds, Shape
<1>3. /\ v.views = w.views /\ v.reuse = w.reuse /\ v.prompt = w.prompt /\ v.saved = w.saved
      /\ v.length = n + 1 /\ v.count = w.count + 1
      /\ v.marker = (IF tok = PAGE THEN w.count + 1 ELSE w.marker)
      /\ v.guard.markers = after
      /\ (tok = TEXT => after = w.guard.markers)
  BY DEF OneMore
<1>4. /\ ~StepFails(c.state, tok, TRUE)
      /\ CountersHold(stepped, next, v, w.views + w.reuse + w.reuse + after)
      /\ at \in Coords /\ at.image = NoPage
      /\ at.page % 2 = (IF after = 0 THEN 0 ELSE (next + after) % 2)
      /\ (after # 0 => at.query = w.reuse + after - 1)
  <2> HIDE DEF at, stepped
  <2>1. PICK st : st = c.state
    OBVIOUS
  <2>2. PICK markers \in Nat : markers = w.guard.markers
    OBVIOUS
  <2>3. CountersHold(st, next, w, w.views + w.reuse + w.reuse + markers)
    BY <1>1, <2>1, <2>2
  <2>4. after = markers + (IF tok = PAGE THEN 1 ELSE 0)
    BY <2>2
  <2>5. WriteFrom(st, next, w, v, markers, tok, after)
    BY <1>2, <1>3, <2>3, <2>4 DEF WriteFrom
  <2>6. WriteIs(st, next, w, v, tok, after)
    BY <2>5, CountersWrite
  <2> QED BY <2>1, <2>6 DEF at, stepped, WriteIs
<1>5. /\ item.tok = tok /\ item.page = PageWritten(after, next)
      /\ item.at = IF tok = PAGE THEN 0 ELSE w.count + 1 - w.marker
  BY DEF Written, Item
<1>6. d = CacheRecord(rows, coords, c.prompt, c.visual, c.ok, stepped)
  <2> HIDE DEF item, rows, coords, stepped, at, row
  <2>1. PICK yes : yes = TRUE
    OBVIOUS
  <2>2. d = Append1(c, tok, row, yes)
    BY <1>1, <1>4, <1>5, <2>1 DEF Compute, at, row
  <2>3. Append1(CacheRecord(c.rows, c.coords, c.prompt, c.visual, c.ok, c.state), tok, row, yes)
          = CacheRecord(Append(c.rows, row), Append(c.coords, Coordinates(c.state, tok, yes)),
                        c.prompt, c.visual, c.ok, StateStep(c.state, tok, yes))
    BY Append1Is
  <2> HIDE DEF d
  <2> QED BY <1>1, <2>1, <2>2, <2>3 DEF rows, coords, stepped, at
<1>7. /\ d.rows = rows /\ d.coords = coords /\ d.prompt = c.prompt /\ d.ok = c.ok
      /\ d.state = stepped /\ d.visual = c.visual
  <2> HIDE DEF d, rows, coords, stepped
  <2> QED BY <1>6 DEF CacheRecord
<1>8. /\ row = [tok |-> tok, page |-> PageWritten(after, next), at |-> item.at,
                token |-> at.token, parity |-> at.page % 2]
      /\ item.at \in Int /\ PageWritten(after, next) \in Int /\ row \in Rows
  <2>1. item.at \in Int
    BY <1>2, <1>5
  <2>2. PageWritten(after, next) \in Int
    BY DEF PageWritten, NoPage
  <2>3. at.token \in Int /\ at.page % 2 \in Int
    <3>1. at.token \in Int /\ at.page \in Int
      BY <1>4 DEF Coords
    <3> HIDE DEF at
    <3> QED BY <3>1
  <2>4. row = [tok |-> tok, page |-> PageWritten(after, next), at |-> item.at,
               token |-> at.token, parity |-> at.page % 2]
    <3> HIDE DEF item, at
    <3> QED BY <1>5 DEF Rotated
  <2> HIDE DEF item, at, row
  <2>5. row \in Rows
    BY <2>1, <2>2, <2>3, <2>4 DEF Rows, Kinds
  <2> QED BY <2>1, <2>2, <2>4, <2>5
<1>9. /\ row.tok = tok /\ row.page = PageWritten(after, next) /\ row.at = item.at
      /\ row.token = at.token /\ row.parity = at.page % 2
  <2> HIDE DEF item, at, row
  <2> QED BY <1>8
<1> HIDE DEF item, at, row, stepped, d
<1>10. /\ rows \in Seq(Rows) /\ Len(rows) = n + 1
       /\ (\A i \in 1..n : rows[i] = c.rows[i]) /\ rows[n + 1] = row
  <2>1. c.rows \in Seq(Rows) /\ Len(c.rows) = n
    BY <1>1 DEF RowsAgree
  <2>2. PICK s \in Seq(Rows) : s = c.rows
    BY <2>1
  <2>3. row \in Rows /\ n \in Nat /\ Len(s) = n
    BY <1>2, <1>8, <2>1, <2>2
  <2>4. /\ Append(s, row) \in Seq(Rows) /\ Len(Append(s, row)) = n + 1
        /\ \A i \in 1..n : Append(s, row)[i] = s[i]
        /\ Append(s, row)[n + 1] = row
    BY <2>3, AppendIs
  <2> QED BY <2>2, <2>4, Zenon
<1>11. /\ coords \in Seq(Coords) /\ Len(coords) = n + 1
       /\ (\A i \in 1..n : coords[i] = c.coords[i]) /\ coords[n + 1] = at
  <2>1. c.coords \in Seq(Coords) /\ Len(c.coords) = n
    BY <1>1 DEF RowsAgree
  <2>2. PICK s \in Seq(Coords) : s = c.coords
    BY <2>1
  <2>3. at \in Coords /\ n \in Nat /\ Len(s) = n
    BY <1>2, <1>4, <2>1, <2>2
  <2>4. /\ Append(s, at) \in Seq(Coords) /\ Len(Append(s, at)) = n + 1
        /\ \A i \in 1..n : Append(s, at)[i] = s[i]
        /\ Append(s, at)[n + 1] = at
    BY <2>3, AppendIs
  <2> QED BY <2>2, <2>4, Zenon
<1> HIDE DEF rows, coords
<1>12. tok # IMAGE
  BY KindsDiffer
<1>13. Agrees(row, at, next, next - w.reuse)
  <2>1. after # 0 => PageWritten(after, next) = next + after - 1
          /\ PageWritten(after, next) + 1 = next + after
    BY DEF PageWritten
  <2>2. after = 0 => PageWritten(after, next) = NoPage
    BY DEF PageWritten
  <2> QED BY <1>4, <1>9, <1>12, <2>1, <2>2 DEF Agrees
<1>14. PromptHolds(d, next, lead, v)
  BY <1>1, <1>3, <1>7 DEF PromptHolds
<1>15. RowsAgree(d, next, v)
  <2>1. \A i \in 1..(n + 1) : Agrees(rows[i], coords[i], next, next - w.reuse)
    <3>1. TAKE i \in 1..(n + 1)
    <3>2. CASE i \in 1..n
      BY <1>1, <1>10, <1>11, <3>2 DEF RowsAgree
    <3>3. CASE i = n + 1
      BY <1>10, <1>11, <1>13, <3>3
    <3> QED BY <1>2, <3>2, <3>3
  <2> QED BY <1>3, <1>7, <1>10, <1>11, <2>1 DEF RowsAgree
<1>16. PromptRows(d, next, lead, v)
  <2>1. \A i \in 1..w.prompt : i \in 1..n
    BY <1>2
  <2> QED BY <1>1, <1>3, <1>7, <1>10, <2>1 DEF PromptRows
<1>17. QueriesOf(d, next, v)
  <2> SUFFICES ASSUME NEW i \in (w.prompt + 1)..(n + 1), rows[i].page # NoPage
               PROVE  coords[i].query \in Nat /\ coords[i].query = rows[i].page - (next - w.reuse)
    BY <1>3, <1>7 DEF QueriesOf
  <2>1. CASE i \in 1..n
    <3>1. rows[i] = c.rows[i] /\ coords[i] = c.coords[i] /\ i \in (w.prompt + 1)..w.length
      <4>1. rows[i] = c.rows[i]
        BY <1>10, <2>1
      <4>2. coords[i] = c.coords[i]
        BY <1>11, <2>1
      <4>3. i \in (w.prompt + 1)..w.length
        BY <1>2, <2>1
      <4> QED BY <4>1, <4>2, <4>3
    <3>2. c.rows[i].page # NoPage
      BY <3>1
    <3>3. c.coords[i].query \in Nat /\ c.coords[i].query = c.rows[i].page - (next - w.reuse)
      BY <1>1, <3>1, <3>2 DEF QueriesOf
    <3> QED BY <3>1, <3>3
  <2>2. CASE i = n + 1
    <3>1. after # 0 /\ row.page = next + after - 1
      BY <1>9, <1>10, <2>2 DEF PageWritten
    <3>2. at.query = w.reuse + after - 1
      BY <1>4, <3>1
    <3>3. w.reuse + after - 1 = (next + after - 1) - (next - w.reuse)
            /\ w.reuse + after - 1 \in Nat
      BY <1>2, <3>1
    <3> QED BY <1>10, <1>11, <2>2, <3>1, <3>2, <3>3
  <2> QED BY <1>2, <2>1, <2>2
<1>18. SavedRows(d, next, v)
  <2>1. \A i \in 1..w.saved : w.prompt + i \in 1..n /\ w.prompt + 1 \in 1..n
    BY <1>2
  <2>2. \A i \in 1..w.saved : rows[w.prompt + i] = c.rows[w.prompt + i]
                              /\ rows[w.prompt + 1] = c.rows[w.prompt + 1]
    BY <1>10, <2>1
  <2> QED BY <1>1, <1>3, <1>7, <2>2 DEF SavedRows
<1>19. GeneratedRows(d, next, v)
  <2> SUFFICES ASSUME NEW i \in (v.marker + 1)..v.count
               PROVE  TextRow(rows[w.prompt + w.saved + i], PageWritten(after, next), i - v.marker)
    BY <1>3, <1>7 DEF GeneratedRows
  <2>1. tok = TEXT /\ v.marker = w.marker /\ after = w.guard.markers
    <3>1. tok = PAGE => FALSE
      BY <1>2, <1>3
    <3> QED BY <1>3, <3>1
  <2>2. CASE i \in (w.marker + 1)..w.count
    <3>1. w.prompt + w.saved + i \in 1..n
      BY <1>2, <2>2
    <3>2. rows[w.prompt + w.saved + i] = c.rows[w.prompt + w.saved + i]
      BY <1>10, <3>1
    <3>3. TextRow(c.rows[w.prompt + w.saved + i], PageWritten(w.guard.markers, next), i - w.marker)
      BY <1>1, <2>2 DEF GeneratedRows
    <3> QED BY <2>1, <3>2, <3>3
  <2>3. CASE i = w.count + 1
    <3>1. w.prompt + w.saved + i = n + 1
      BY <1>2, <2>3
    <3>2. rows[w.prompt + w.saved + i] = row
      BY <1>10, <3>1
    <3>3. row.at = i - v.marker /\ row.tok = TEXT /\ row.page = PageWritten(after, next)
      <4>1. TEXT # PAGE
        BY KindsDiffer
      <4> QED BY <1>2, <1>5, <1>9, <2>1, <2>3, <4>1
    <3> QED BY <3>2, <3>3 DEF TextRow
  <2>4. i \in (w.marker + 1)..w.count \/ i = w.count + 1
    BY <1>2, <1>3, <2>1
  <2> QED BY <2>2, <2>3, <2>4
<1>20. d.ok /\ d = CacheRecord(d.rows, d.coords, d.prompt, d.visual, d.ok, d.state)
  BY <1>1, <1>6, <1>7
<1>21. CountersHold(d.state, next, v, w.views + w.reuse + w.reuse + after)
  BY <1>4, <1>7
<1> QED BY <1>14, <1>15, <1>16, <1>17, <1>18, <1>19, <1>20, <1>21 DEF CacheHolds, d, item

-----------------------------------------------------------------------------
(* The prefilled cache holds its rows.                                     *)

(* The page and the place of a row of a prompt, as its coordinates have them. *)
ItemRope(reuse, next, lead, views, i) ==
  LET item == RowItem(reuse, next, lead, views, i)
      rope == RopeAt(reuse, lead, views, i)
  IN  /\ item \in ItemSet /\ rope \in Nat
      /\ item.page # NoPage => rope # 0 /\ item.page = next - reuse + (rope - 1) /\ item.page >= 0
      /\ item.page >= next => TokenAt(lead, views, i) = item.at
      /\ item.tok = IMAGE => item.page # NoPage
      /\ i > lead /\ i <= PagesEnd(lead, views) => item.page >= next

(* The counter of a row is the one of its page.                            *)
LEMMA ItemRopeIs ==
  ASSUME NEW reuse, NEW next, NEW lead, NEW views, Shape(reuse, next, lead, views),
         NEW i \in Nat \ {0}
  PROVE  ItemRope(reuse, next, lead, views, i)
<1> DEFINE item == RowItem(reuse, next, lead, views, i)
           rope == RopeAt(reuse, lead, views, i)
           end == PagesEnd(lead, views)
<1>1. /\ reuse \in {0, 1} /\ next \in Nat /\ lead \in Nat \ {0} /\ views \in Nat \ {0}
      /\ (reuse = 0 => lead = 1) /\ (reuse = 1 => next # 0)
  BY DEF Shape
<1>2. end \in Nat /\ end >= lead
  <2>1. end \in Nat /\ end >= lead + PageRows
    BY <1>1, PlaceLast
  <2> HIDE DEF end
  <2> QED BY <1>1, <2>1, Positive
<1>3. item \in ItemSet
  BY RowItemType
<1> DEFINE Goal == /\ rope \in Nat
                   /\ item.page # NoPage =>
                        rope # 0 /\ item.page = next - reuse + (rope - 1) /\ item.page >= 0
                   /\ item.page >= next => TokenAt(lead, views, i) = item.at
                   /\ item.tok = IMAGE => item.page # NoPage
                   /\ i > lead /\ i <= end => item.page >= next
<1>4. ASSUME i <= lead, reuse = 0 PROVE Goal
  <2>1. item = Item(BOS, NoPage, 0) /\ rope = 0
    BY <1>4 DEF RowItem, RopeAt
  <2>2. item.page = NoPage /\ item.tok = BOS /\ NoPage < next /\ NoPage \in Int
    BY <1>1, <2>1 DEF Item, NoPage
  <2> HIDE DEF item, rope, end
  <2> QED BY <1>1, <1>4, <2>1, <2>2, KindsDiffer
<1>5. ASSUME i <= lead, reuse = 1 PROVE Goal
  <2>1. rope = 1
    BY <1>5 DEF RopeAt
  <2>2. item = (IF i = 1 THEN Item(PAGE, next - 1, 0) ELSE Item(IMAGE, next - 1, ImageRows - lead + i))
    BY <1>5 DEF RowItem
  <2>3. item.page = next - 1
    BY <2>2 DEF Item
  <2>4. next - 1 # NoPage /\ next - 1 >= 0 /\ next - 1 = next - reuse + (1 - 1)
          /\ ~(next - 1 >= next)
    BY <1>1, <1>5 DEF NoPage
  <2> HIDE DEF item, rope, end
  <2> QED BY <1>1, <1>5, <2>1, <2>3, <2>4
<1>6. ASSUME ~(i <= lead), i <= end PROVE Goal
  <2>1. PICK n \in Nat : n = Nth(lead, i)
    <3>1. Nth(lead, i) \in 0..(views - 1)
      BY <1>1, <1>6, PlaceIs
    <3> QED BY <1>1, <3>1
  <2>2. rope = n + 1 + reuse /\ TokenAt(lead, views, i) = Place(lead, i)
    BY <1>6, <2>1 DEF RopeAt, TokenAt
  <2>3. item = PageItem(next + n, Place(lead, i))
    BY <1>6, <2>1 DEF RowItem
  <2>4. item.page = next + n /\ item.at = Place(lead, i)
    BY <2>3 DEF PageItem, Item
  <2>5. next + n # NoPage /\ next + n >= 0 /\ next + n = next - reuse + ((n + 1 + reuse) - 1)
        /\ n + 1 + reuse \in Nat \ {0} /\ next + n >= next
    BY <1>1 DEF NoPage
  <2> HIDE DEF item, rope, end
  <2> QED BY <2>2, <2>4, <2>5
<1>7. ASSUME ~(i <= lead), ~(i <= end) PROVE Goal
  <2>1. item = Item(TEXT, NoPage, i - end) /\ rope = 0
    BY <1>7 DEF RowItem, RopeAt
  <2>2. item.page = NoPage /\ item.tok = TEXT /\ ~(NoPage >= next)
    BY <1>1, <2>1 DEF Item, NoPage
  <2> HIDE DEF item, rope
  <2> QED BY <1>1, <1>2, <1>7, <2>1, <2>2, KindsDiffer
<1>8. Goal
  <2> HIDE DEF Goal
  <2> QED BY <1>1, <1>4, <1>5, <1>6, <1>7
<1> QED BY <1>3, <1>8 DEF ItemRope

(* A row that holds an item, computed there or copied, agrees with it.     *)
RowIs(row, at, next, reuse) ==
  /\ Agrees(row, at, next, next - reuse)
  /\ row.page >= next => row.token = row.at

(* Such a row agrees with the coordinates of its place.                    *)
LEMMA ItemAgrees ==
  ASSUME NEW reuse, NEW next, NEW lead, NEW views, Shape(reuse, next, lead, views),
         NEW i \in Nat \ {0}, reuse = 1 => i <= PagesEnd(lead, views), i <= MaxPositions,
         NEW row \in Rows, NEW at, NEW item,
         at = Coordinates(StateAt(reuse, next, lead, views, i - 1), item.tok, FALSE),
         item = RowItem(reuse, next, lead, views, i),
         ItemOf(row) = item,
         \/ row.token = at.token /\ row.parity = at.page % 2
         \/ /\ row.page # NoPage /\ row.parity = (row.page + 1) % 2
            /\ row.page >= next => row.token = row.at
  PROVE  RowIs(row, at, next, reuse)
<1> DEFINE rope == RopeAt(reuse, lead, views, i)
<1>1. /\ reuse \in {0, 1} /\ next \in Nat /\ (reuse = 1 => next # 0)
  BY DEF Shape
<1>2. StepIs(reuse, next, lead, views, i)
  BY StateNext
<1>3. /\ at \in Coords /\ at.token = TokenAt(lead, views, i)
      /\ at.page = rope + (IF rope # 0 THEN (next - reuse) % 2 ELSE 0)
      /\ at.image = IF item.tok = IMAGE THEN rope - 1 ELSE NoPage
  BY <1>2 DEF StepIs
<1>4. ItemRope(reuse, next, lead, views, i)
  BY ItemRopeIs
<1>5. /\ rope \in Nat
      /\ item.page # NoPage => rope # 0 /\ item.page = next - reuse + (rope - 1) /\ item.page >= 0
      /\ item.page >= next => TokenAt(lead, views, i) = item.at
      /\ item.tok = IMAGE => item.page # NoPage
      /\ item \in ItemSet
  BY <1>4 DEF ItemRope
<1>6. row.tok = item.tok /\ row.page = item.page /\ row.at = item.at
  BY DEF ItemOf, Item
<1> HIDE DEF rope
<1>7. item.page # NoPage => at.page % 2 = (item.page + 1) % 2
  <2> SUFFICES ASSUME item.page # NoPage PROVE at.page % 2 = (item.page + 1) % 2
    OBVIOUS
  <2>1. PICK b \in Nat, p \in Int : b = next - reuse /\ p = item.page
    BY <1>1, <1>5 DEF ItemSet
  <2>2. at.page = rope + (b % 2)
    BY <1>3, <1>5, <2>1
  <2>3. (rope + (b % 2)) % 2 = (rope + b) % 2
    BY <1>5, ParityOf
  <2>4. rope + b = p + 1
    BY <1>1, <1>5, <2>1
  <2> QED BY <2>1, <2>2, <2>3, <2>4
<1>8. row.parity = at.page % 2 /\ (row.page # NoPage => row.parity = (row.page + 1) % 2)
  BY <1>6, <1>7
<1>9. row.page >= next => row.token = at.token /\ row.token = row.at
  BY <1>3, <1>5, <1>6
<1>10. at.image = IF row.tok = IMAGE THEN row.page - (next - reuse) ELSE NoPage
  <2>1. CASE item.tok = IMAGE
    <3>1. PICK p \in Int : p = item.page
      BY <1>5 DEF ItemSet
    <3>2. rope - 1 = p - (next - reuse)
      BY <1>1, <1>5, <2>1, <3>1
    <3> QED BY <1>3, <1>6, <2>1, <3>1, <3>2
  <2>2. CASE item.tok # IMAGE
    BY <1>3, <1>6, <2>2
  <2> QED BY <2>1, <2>2
<1> QED BY <1>5, <1>6, <1>8, <1>9, <1>10 DEF Agrees, RowIs

(* The i-th row of the prefilled prompt holds its item and agrees.         *)
RowAgrees(r, i) ==
  /\ ItemOf(RowAt(r, i)) = Items(r.views, i)
  /\ Agrees(RowAt(r, i), CoordAt(r.views, i), doc.next, doc.next - Reuse)
  /\ RowAt(r, i).page >= doc.next => RowAt(r, i).token = RowAt(r, i).at

(* Every row of the prompt does, copied or computed.                       *)
LEMMA RowAtAgrees ==
  ASSUME TypeOK, SavedHolds, ~doc.finished, NEW r \in RequestRecords,
         PromptCount(r) <= MaxPositions, NEW i \in 1..PromptCount(r)
  PROVE  RowAgrees(r, i)
<1>1. Shape(Reuse, doc.next, Lead, r.views)
  BY WindowShape
<1>2. PromptCount(r) \in Nat /\ (Reuse = 1 => i <= PagesEnd(Lead, r.views))
  BY WindowShape
<1>3. i \in Nat \ {0} /\ i <= MaxPositions /\ Lead \in Nat /\ doc.next \in Nat
  BY <1>1, <1>2, Positive DEF Shape
<1>4. RowAt(r, i) \in Rows
  BY RowTypes
<1>5. PICK row \in Rows, at \in Coords, item \in ItemSet :
        row = RowAt(r, i) /\ at = CoordAt(r.views, i) /\ item = Items(r.views, i)
  <2>1. CoordAt(r.views, i) \in Coords /\ Items(r.views, i) \in ItemSet
    BY RowCoords
  <2> QED BY <1>4, <2>1
<1>6. item = RowItem(Reuse, doc.next, Lead, r.views, i)
  BY <1>5 DEF Items
<1>7. at = Coordinates(StateAt(Reuse, doc.next, Lead, r.views, i - 1), item.tok, FALSE)
  BY <1>5 DEF CoordAt
<1>8. CASE i <= Copied(r)
  <2>1. Copied(r) \in Int
    BY DEF Copied, TypeOK
  <2>2. i \in 1..Copied(r)
    BY <1>3, <1>8, <2>1
  <2>3. Reuse = 1 /\ i \in 1..doc.prefix
    BY <2>2, CopiedRows
  <2>4. row = saved.rows[i]
    BY <1>5, <1>8 DEF RowAt
  <2>5. /\ ItemOf(saved.rows[i]) = RowItem(1, doc.next, Lead, 1, i)
        /\ saved.rows[i].parity = (saved.rows[i].page + 1) % 2
        /\ i > Lead => saved.rows[i].token = saved.rows[i].at
        /\ doc.prefix = PagesEnd(Lead, 1) /\ Shape(1, doc.next, Lead, 1)
    <3>1. doc.prefix # 0
      BY <2>3 DEF Reuse
    <3> QED BY <2>3, <3>1 DEF SavedHolds, RowsHold, PrefixHolds
  <2>6. i <= PagesEnd(Lead, 1) /\ i <= PagesEnd(Lead, r.views)
    BY <1>2, <1>3, <2>3, <2>5
  <2>7. RowItem(1, doc.next, Lead, 1, i) = RowItem(1, doc.next, Lead, r.views, i)
    BY <2>6 DEF RowItem
  <2>8. ItemOf(row) = item
    BY <1>6, <2>3, <2>4, <2>5, <2>7
  <2>9. row.page = item.page
    BY <2>8 DEF ItemOf, Item
  <2>10. row.page # NoPage /\ (row.page >= doc.next => i > Lead)
    <3>1. CASE i <= Lead
      <4>1. item.page = doc.next - 1
        BY <1>6, <2>3, <3>1 DEF RowItem, Item
      <4>2. doc.next - 1 # NoPage /\ ~(doc.next - 1 >= doc.next)
        BY <1>3, <2>5 DEF Shape, NoPage
      <4> QED BY <2>9, <4>1, <4>2
    <3>2. CASE ~(i <= Lead)
      <4>1. ItemRope(Reuse, doc.next, Lead, r.views, i)
        BY <1>1, <1>3, ItemRopeIs
      <4>2. i > Lead
        BY <1>3, <3>2
      <4>3. item.page >= doc.next
        BY <1>6, <2>6, <4>1, <4>2 DEF ItemRope
      <4>4. item.page # NoPage
        <5>1. ~(NoPage >= doc.next)
          BY <1>3 DEF NoPage
        <5> QED BY <4>3, <5>1
      <4> QED BY <2>9, <4>2, <4>4
    <3> QED BY <3>1, <3>2
  <2>11. row.parity = (row.page + 1) % 2 /\ (row.page >= doc.next => row.token = row.at)
    BY <2>4, <2>5, <2>10
  <2>12. RowIs(row, at, doc.next, Reuse)
    BY <1>1, <1>2, <1>3, <1>6, <1>7, <2>8, <2>10, <2>11, ItemAgrees
  <2> QED BY <1>5, <2>8, <2>12 DEF RowAgrees, RowIs
<1>9. CASE ~(i <= Copied(r))
  <2>1. row = Rotated(item, at)
    BY <1>5, <1>9 DEF RowAt
  <2>2. /\ row.token = at.token /\ row.parity = at.page % 2
        /\ row.tok = item.tok /\ row.page = item.page /\ row.at = item.at
    BY <2>1 DEF Rotated
  <2>3. ItemOf(row) = item
    <3>1. item = [tok |-> item.tok, page |-> item.page, at |-> item.at]
      BY DEF ItemSet
    <3> QED BY <2>2, <3>1 DEF ItemOf, Item
  <2>4. RowIs(row, at, doc.next, Reuse)
    BY <1>1, <1>2, <1>3, <1>6, <1>7, <2>2, <2>3, ItemAgrees
  <2> QED BY <1>5, <2>3, <2>4 DEF RowAgrees, RowIs
<1> QED BY <1>8, <1>9

(* The counters at the end of a prompt.                                    *)
LEMMA FedCounters ==
  ASSUME NEW reuse, NEW next, NEW lead, NEW views, Shape(reuse, next, lead, views),
         NEW n \in Nat, n >= PagesEnd(lead, views), reuse = 1 => n = PagesEnd(lead, views),
         NEW w, w.views = views, w.reuse = reuse, w.length = n
  PROVE  CountersHold(StateAt(reuse, next, lead, views, n), next, w, views + reuse)
<1> DEFINE end == PagesEnd(lead, views)
           st == StateAt(reuse, next, lead, views, n)
           shown == views + reuse
           counts == [p \in 0..shown |-> CountAt(reuse, lead, views, n, p)]
<1>1. /\ reuse \in {0, 1} /\ next \in Nat /\ lead \in Nat \ {0} /\ views \in Nat \ {0}
      /\ (reuse = 1 => next # 0)
  BY DEF Shape
<1>2. /\ end \in Nat /\ end >= lead + PageRows /\ Nth(lead, end) = views - 1
      /\ Place(lead, end) = ImageRows /\ ImageRows \in Nat \ {0} /\ PageRows = ImageRows + 1
  BY <1>1, PlaceLast, Positive DEF PageRows
<1>3. n >= end /\ (reuse = 1 => n = end)
  OBVIOUS
<1> HIDE DEF end
<1>4. ~(n <= lead) /\ n # 0 /\ (n <= end => n = end)
  BY <1>1, <1>2, <1>3
<1>5. MarkersAt(reuse, lead, views, n) = shown /\ PromptAt(reuse, lead, views, n) = shown
  <2>1. CASE n = end
    <3>1. ~(end <= lead) /\ end <= end
      BY <1>2, <1>4, <2>1
    <3>2. Nth(lead, end) + 1 + reuse = shown /\ ImageRows # 0
      BY <1>1, <1>2
    <3> QED BY <1>2, <2>1, <3>1, <3>2 DEF MarkersAt, PromptAt, end
  <2>2. CASE n # end
    BY <1>4, <2>2 DEF MarkersAt, PromptAt, end
  <2> QED BY <2>1, <2>2
<1>6. ASSUME NEW p \in 0..shown
      PROVE  CountAt(reuse, lead, views, n, p) \in Nat /\ CountAt(reuse, lead, views, n, p) <= n
  <2>1. CASE p = 0
    <3>1. CountAt(reuse, lead, views, n, p) = CountOfRest(reuse, lead, views, n)
      BY <2>1 DEF CountAt
    <3>2. CountOfRest(reuse, lead, views, n) = IF reuse = 1 \/ n = 0 THEN 0
            ELSE IF n <= end THEN 1 ELSE 1 + n - end
      BY DEF CountOfRest, end
    <3> QED BY <1>1, <1>2, <1>3, <1>4, <3>1, <3>2
  <2>2. CASE p # 0 /\ p <= reuse
    <3>1. CountAt(reuse, lead, views, n, p) = lead
      BY <1>4, <2>2 DEF CountAt
    <3> QED BY <1>1, <1>2, <1>3, <3>1
  <2>3. CASE p # 0 /\ ~(p <= reuse)
    <3>1. PICK q : q = p - 1 - reuse
      OBVIOUS
    <3>2. CountAt(reuse, lead, views, n, p) = CountOfPage(lead, views, n, q)
      BY <2>3, <3>1 DEF CountAt
    <3>3. CountOfPage(lead, views, n, q) \in {0, PageRows, Place(lead, end) + 1}
      BY <1>2, <1>4 DEF CountOfPage, end
    <3>4. n >= PageRows /\ PageRows \in Nat
      BY <1>1, <1>2, <1>3
    <3> QED BY <1>2, <3>2, <3>3, <3>4
  <2> QED BY <2>1, <2>2, <2>3
<1>7. counts \in [0..shown -> Nat] /\ (\A p \in 0..shown : counts[p] <= n)
  BY <1>6
<1>8. PICK no \in BOOLEAN : no = FALSE
  OBVIOUS
<1>9. (next - reuse) % 2 \in Nat /\ shown \in Nat
  <2>1. next - reuse \in Nat
    BY <1>1
  <2>2. (next - reuse) % 2 \in {0, 1}
    BY <2>1
  <2> QED BY <1>1, <2>2
<1> HIDE DEF counts
<1>10. st = [markers |-> shown, prompt |-> shown, capacity |-> shown + 1,
             parity |-> (next - reuse) % 2, started |-> no, counts |-> counts]
  BY <1>5, <1>8 DEF StateAt, counts
<1> HIDE DEF st, shown
<1>11. st \in States(shown)
  BY <1>7, <1>9, <1>10 DEF States
<1>12. /\ st.markers = shown /\ st.prompt = shown /\ st.capacity = shown + 1
       /\ st.parity = (next - reuse) % 2 /\ st.counts = counts
  BY <1>10
<1>13. w.views + w.reuse = shown
  BY DEF shown
<1> QED BY <1>7, <1>11, <1>12, <1>13 DEF CountersHold, st, shown

(* A window just prefilled.                                                *)
FedWindow(r, w) ==
  /\ w.views = r.views /\ w.reuse = Reuse /\ w.prompt = PromptCount(r) /\ w.saved = 0
  /\ w.length = PromptCount(r) /\ w.count = 0 /\ w.marker = 0 /\ w.guard.markers = 0

(* The prefilled cache holds the rows of such a window.                    *)
LEMMA FedCacheHolds ==
  ASSUME TypeOK, SavedHolds, ~doc.finished, NEW r \in RequestRecords,
         PromptCount(r) <= MaxPositions, NEW w, FedWindow(r, w)
  PROVE  CacheHolds(FedTo(r, PromptCount(r)), doc.next, Lead, w, r.views + Reuse)
<1>1. Shape(Reuse, doc.next, Lead, r.views)
  BY WindowShape
<1>2. /\ PromptCount(r) \in Nat /\ PromptCount(r) >= PagesEnd(Lead, r.views)
      /\ (Reuse = 1 => PromptCount(r) = PagesEnd(Lead, r.views))
  BY WindowShape
<1>3. PICK n \in Nat : n = PromptCount(r)
  BY <1>2
<1> DEFINE c == FedTo(r, n)
           rows == [k \in 1..n |-> RowAt(r, k)]
           coords == [k \in 1..n |-> CoordAt(r.views, k)]
           st == StateAt(Reuse, doc.next, Lead, r.views, n)
<1>4. PICK yes : yes = TRUE
  OBVIOUS
<1>5. c = CacheRecord(rows, coords, WindowPrompt(r), VisualAt(r, n), yes, st)
  BY <1>4 DEF FedTo
<1> HIDE DEF c, rows, coords, st
<1>6. /\ c.rows = rows /\ c.coords = coords /\ c.prompt = WindowPrompt(r) /\ c.ok = yes
      /\ c.state = st /\ c.visual = VisualAt(r, n)
  BY <1>5 DEF CacheRecord
<1>7. c.ok /\ c = CacheRecord(c.rows, c.coords, c.prompt, c.visual, c.ok, c.state)
  BY <1>4, <1>5, <1>6
<1>8. /\ w.views = r.views /\ w.reuse = Reuse /\ w.prompt = n /\ w.saved = 0
      /\ w.length = n /\ w.count = 0 /\ w.marker = 0 /\ w.guard.markers = 0
  BY <1>3 DEF FedWindow
<1>9. \A i \in 1..n : rows[i] = RowAt(r, i) /\ coords[i] = CoordAt(r.views, i)
  BY DEF rows, coords
<1>10. \A i \in 1..n : RowAt(r, i) \in Rows /\ CoordAt(r.views, i) \in Coords /\ RowAgrees(r, i)
  BY <1>3, RowTypes, RowAtAgrees
<1>11. rows \in Seq(Rows) /\ Len(rows) = n /\ coords \in Seq(Coords) /\ Len(coords) = n
  <2>1. rows \in [1..n -> Rows] /\ coords \in [1..n -> Coords]
    BY <1>10 DEF rows, coords
  <2> QED BY <2>1
<1>12. PromptHolds(c, doc.next, Lead, w)
  <2>1. WindowPrompt(r) \in Seq(ItemSet) /\ Len(WindowPrompt(r)) = n
    BY <1>3, WindowPromptIs
  <2>2. \A i \in 1..n : WindowPrompt(r)[i] = RowItem(Reuse, doc.next, Lead, r.views, i)
    BY <1>3, WindowPromptIs DEF Items
  <2> QED BY <1>1, <1>2, <1>3, <1>6, <1>8, <2>1, <2>2 DEF PromptHolds
<1>13. RowsAgree(c, doc.next, w)
  <2>1. \A i \in 1..n : Agrees(rows[i], coords[i], doc.next, doc.next - Reuse)
    BY <1>9, <1>10 DEF RowAgrees
  <2> QED BY <1>6, <1>8, <1>11, <2>1 DEF RowsAgree
<1>14. PromptRows(c, doc.next, Lead, w)
  <2>1. \A i \in 1..n : /\ ItemOf(rows[i]) = RowItem(Reuse, doc.next, Lead, r.views, i)
                        /\ rows[i].page >= doc.next => rows[i].token = rows[i].at
    BY <1>9, <1>10 DEF RowAgrees, Items
  <2> QED BY <1>6, <1>8, <2>1 DEF PromptRows
<1>15. QueriesOf(c, doc.next, w) /\ SavedRows(c, doc.next, w) /\ GeneratedRows(c, doc.next, w)
  <2>1. (w.prompt + 1)..w.length = {} /\ 1..w.saved = {} /\ (w.marker + 1)..w.count = {}
    BY <1>8
  <2> QED BY <2>1 DEF QueriesOf, SavedRows, GeneratedRows
<1>16. CountersHold(c.state, doc.next, w, r.views + Reuse)
  BY <1>1, <1>2, <1>3, <1>6, <1>8, FedCounters DEF st
<1> QED BY <1>3, <1>7, <1>12, <1>13, <1>14, <1>15, <1>16 DEF CacheHolds, c

-----------------------------------------------------------------------------
(* Restoring the text of the page before, and feeding the marker of the    *)
(* first owned page.                                                       *)

(* Window v is w with the retained text restored behind its prompt.        *)
Restored(w, v, text) ==
  /\ w.views \in Nat \ {0} /\ w.reuse = 1 /\ w.prompt \in Nat
  /\ w.length = w.prompt /\ w.count = 0 /\ w.saved = 0
  /\ v.views = w.views /\ v.reuse = 1 /\ v.prompt = w.prompt /\ v.saved = text
  /\ v.length = w.prompt + text /\ v.count = 0 /\ v.marker = 0 /\ v.guard.markers = 0

(* Restoring text rows.                                                    *)
LEMMA StateRestored ==
  ASSUME NEW st, NEW next \in Nat, NEW w, NEW v, NEW text \in Nat, Restored(w, v, text),
         NEW m \in Nat, CountersHold(st, next, w, m)
  PROVE  CountersHold([[st EXCEPT !.markers = @ + 1] EXCEPT !.started = TRUE], next, v, m + 1)
<1> DEFINE shown == w.views + w.reuse
           n == [[st EXCEPT !.markers = @ + 1] EXCEPT !.started = TRUE]
<1>1. /\ st \in States(shown) /\ st.prompt = shown /\ st.capacity = shown + 1
      /\ st.markers = m /\ st.parity = (next - w.reuse) % 2
      /\ \A p \in 0..shown : st.counts[p] <= w.length
  BY DEF CountersHold
<1>2. shown \in Nat /\ v.views + v.reuse = shown /\ v.reuse = w.reuse /\ w.length \in Nat
      /\ v.length = w.length + text
  BY DEF Restored
<1>3. PICK yes \in BOOLEAN : yes = TRUE
  OBVIOUS
<1> HIDE DEF shown
<1>4. st.counts \in [0..shown -> Nat]
  BY <1>1 DEF States
<1>5. \A p \in 0..shown : st.counts[p] <= v.length
  <2>1. TAKE p \in 0..shown
  <2>2. st.counts[p] \in Nat /\ st.counts[p] <= w.length
    BY <1>1, <1>4
  <2> QED BY <1>2, <2>2
<1>6. n = [markers |-> m + 1, prompt |-> st.prompt, capacity |-> st.capacity,
           parity |-> st.parity, started |-> yes, counts |-> st.counts]
  <2>1. st = [markers |-> st.markers, prompt |-> st.prompt, capacity |-> st.capacity,
              parity |-> st.parity, started |-> st.started, counts |-> st.counts]
    BY <1>1 DEF States
  <2>2. PICK k \in Nat : k = m + 1
    OBVIOUS
  <2>3. n = [[st EXCEPT !.markers = k] EXCEPT !.started = yes]
    BY <1>1, <1>3, <2>2
  <2> HIDE DEF n
  <2>4. PICK s : s = [st EXCEPT !.markers = k]
    OBVIOUS
  <2>5. s = [markers |-> k, prompt |-> st.prompt, capacity |-> st.capacity,
             parity |-> st.parity, started |-> st.started, counts |-> st.counts]
    BY <2>1, <2>4
  <2>6. n = [s EXCEPT !.started = yes]
    BY <2>3, <2>4
  <2>7. n = [markers |-> k, prompt |-> st.prompt, capacity |-> st.capacity,
             parity |-> st.parity, started |-> yes, counts |-> st.counts]
    BY <2>5, <2>6
  <2> QED BY <2>2, <2>7
<1> HIDE DEF n
<1>7. n \in States(shown)
  <2>1. /\ st.prompt \in Nat /\ st.capacity \in Nat /\ st.parity \in Nat /\ m + 1 \in Nat
    BY <1>1 DEF States
  <2> QED BY <1>3, <1>4, <1>6, <2>1 DEF States
<1>8. /\ n.markers = m + 1 /\ n.prompt = st.prompt /\ n.capacity = st.capacity
      /\ n.parity = st.parity /\ n.counts = st.counts
  BY <1>6
<1>9. CountersHold(n, next, v, m + 1)
  BY <1>1, <1>2, <1>5, <1>7, <1>8 DEF CountersHold
<1> QED BY <1>9 DEF n

(* The elements of a concatenation.                                        *)
Joined(S, s, t, m, n) ==
  /\ s \o t \in Seq(S) /\ Len(s \o t) = m + n
  /\ \A i \in 1..m : (s \o t)[i] = s[i]
  /\ \A i \in 1..n : (s \o t)[m + i] = t[i]

(* Concatenation joins.                                                    *)
LEMMA ConcatIs ==
  ASSUME NEW S, NEW s \in Seq(S), NEW t \in Seq(S), NEW m \in Nat, NEW n \in Nat,
         Len(s) = m, Len(t) = n
  PROVE  Joined(S, s, t, m, n)
<1>1. s \o t \in Seq(S) /\ Len(s \o t) = Len(s) + Len(t)
  BY ConcatProperties
<1>2. \A i \in 1..Len(s) + Len(t) : (s \o t)[i] = IF i <= Len(s) THEN s[i] ELSE t[i - Len(s)]
  BY ConcatProperties
<1>3. PICK u : u = s \o t
  OBVIOUS
<1>4. \A i \in 1..(m + n) : u[i] = IF i <= m THEN s[i] ELSE t[i - m]
  BY <1>2, <1>3
<1>5. \A i \in 1..m : u[i] = s[i]
  BY <1>4
<1>6. \A i \in 1..n : u[m + i] = t[i]
  <2>1. TAKE i \in 1..n
  <2>2. m + i \in 1..(m + n) /\ ~(m + i <= m) /\ (m + i) - m = i
    OBVIOUS
  <2> QED BY <1>4, <2>2
<1> QED BY <1>1, <1>3, <1>5, <1>6 DEF Joined

(* The elements of a piece of a sequence.                                  *)
LEMMA PieceIs ==
  ASSUME NEW S, NEW s \in Seq(S), NEW m \in Nat, NEW n \in Nat, m + n <= Len(s)
  PROVE  /\ SubSeq(s, m + 1, m + n) \in Seq(S) /\ Len(SubSeq(s, m + 1, m + n)) = n
         /\ \A i \in 1..n : SubSeq(s, m + 1, m + n)[i] = s[m + i]
<1>1. PICK a \in Int, b \in Int : a = m + 1 /\ b = m + n
  OBVIOUS
<1>2. Len(s) \in Nat
  OBVIOUS
<1>3. \A i \in a..b : s[i] \in S
  <2>1. TAKE i \in a..b
  <2>2. i \in 1..Len(s)
    BY <1>1, <1>2
  <2> QED BY <2>2
<1>4. /\ SubSeq(s, a, b) \in Seq(S)
      /\ Len(SubSeq(s, a, b)) = IF a <= b THEN b - a + 1 ELSE 0
      /\ \A i \in 1..b - a + 1 : SubSeq(s, a, b)[i] = s[a + i - 1]
  BY <1>3, SubSeqProperties
<1>5. (IF a <= b THEN b - a + 1 ELSE 0) = n /\ b - a + 1 = n
  BY <1>1
<1>6. \A i \in 1..n : a + i - 1 = m + i
  BY <1>1
<1> QED BY <1>1, <1>4, <1>5, <1>6

(* The cache of a window whose text is restored.                           *)
RestoredTo(c, prefix, text) ==
  CacheRecord(c.rows \o SubSeq(saved.rows, prefix + 1, prefix + text),
              c.coords \o [i \in 1..text |->
                 [token |-> 0, page |-> 1 + c.state.parity, image |-> NoPage, query |-> 0]],
              c.prompt, c.visual, c.ok,
              [[c.state EXCEPT !.markers = @ + 1] EXCEPT !.started = TRUE])

(* Restoring writes this record.                                           *)
LEMMA RestoreTextIs ==
  ASSUME NEW c, c = CacheRecord(c.rows, c.coords, c.prompt, c.visual, c.ok, c.state)
  PROVE  RestoreText(c) = RestoredTo(c, doc.prefix, doc.text)
<1>1. PICK x, y, p, v, ok, s : /\ x = c.rows \o SubSeq(saved.rows, doc.prefix + 1, doc.prefix + doc.text)
        /\ y = c.coords \o [i \in 1..doc.text |->
                 [token |-> 0, page |-> 1 + c.state.parity, image |-> NoPage, query |-> 0]]
        /\ p = c.prompt /\ v = c.visual /\ ok = c.ok /\ s = c.state
  OBVIOUS
<1>2. RestoreText(c) = [c EXCEPT !.rows = x, !.coords = y, !.state.markers = @ + 1,
                                 !.state.started = TRUE]
  BY <1>1 DEF RestoreText, ContextMarkers
<1>3. PICK yes : yes = TRUE
  OBVIOUS
<1>4. PICK m : m = s.markers + 1
  OBVIOUS
<1>5. RestoreText(c) = [[[[c EXCEPT !.rows = x] EXCEPT !.coords = y]
                            EXCEPT !.state.markers = m] EXCEPT !.state.started = yes]
  <2>1. [c EXCEPT !.rows = x, !.coords = y, !.state.markers = @ + 1, !.state.started = TRUE]
          = [[[[c EXCEPT !.rows = x] EXCEPT !.coords = y] EXCEPT !.state.markers = @ + 1]
                EXCEPT !.state.started = yes]
    BY <1>3
  <2>2. [[c EXCEPT !.rows = x] EXCEPT !.coords = y].state = s
    BY <1>1
  <2>3. PICK d : d = [[c EXCEPT !.rows = x] EXCEPT !.coords = y]
    OBVIOUS
  <2>4. [d EXCEPT !.state.markers = @ + 1] = [d EXCEPT !.state.markers = m]
    BY <1>4, <2>2, <2>3
  <2> QED BY <1>2, <2>1, <2>3, <2>4
<1>6. PICK a, b : a = c.rows /\ b = c.coords
  OBVIOUS
<1>7. c = CacheRecord(a, b, p, v, ok, s)
  BY <1>1, <1>6
<1>8. [c EXCEPT !.rows = x] = CacheRecord(x, b, p, v, ok, s)
  BY <1>7 DEF CacheRecord
<1>9. [CacheRecord(x, b, p, v, ok, s) EXCEPT !.coords = y] = CacheRecord(x, y, p, v, ok, s)
  BY DEF CacheRecord
<1>10. PICK t, u : t = [s EXCEPT !.markers = m] /\ u = [t EXCEPT !.started = yes]
  OBVIOUS
<1>11. [CacheRecord(x, y, p, v, ok, s) EXCEPT !.state.markers = m]
         = CacheRecord(x, y, p, v, ok, t)
  BY <1>10 DEF CacheRecord
<1>12. [CacheRecord(x, y, p, v, ok, t) EXCEPT !.state.started = yes]
         = CacheRecord(x, y, p, v, ok, u)
  BY <1>10 DEF CacheRecord
<1>13. RestoreText(c) = CacheRecord(x, y, p, v, ok, u)
  BY <1>5, <1>8, <1>9, <1>11, <1>12
<1>14. u = [[c.state EXCEPT !.markers = @ + 1] EXCEPT !.started = TRUE]
  BY <1>1, <1>3, <1>4, <1>10
<1> QED BY <1>1, <1>13, <1>14 DEF RestoredTo

(* The cache whose text is restored holds its rows.                        *)
LEMMA RestoreHolds ==
  ASSUME TypeOK, SavedHolds, ~doc.finished, doc.prefix # 0, NEW c, NEW w, NEW v,
         Restored(w, v, doc.text),
         CacheHolds(c, doc.next, Lead, w, w.views + w.reuse)
  PROVE  CacheHolds(RestoreText(c), doc.next, Lead, v, w.views + w.reuse + w.reuse)
<1>1. PICK next \in Nat, text \in Nat, prefix \in Nat :
        next = doc.next /\ text = doc.text /\ prefix = doc.prefix
  BY DEF TypeOK
<1>2. PICK lead : lead = Lead
  OBVIOUS
<1>3. /\ w.views \in Nat \ {0} /\ w.reuse = 1 /\ w.prompt \in Nat
      /\ w.length = w.prompt /\ w.count = 0 /\ w.saved = 0
      /\ v.views = w.views /\ v.reuse = 1 /\ v.prompt = w.prompt /\ v.saved = text
      /\ v.length = w.prompt + text /\ v.count = 0 /\ v.marker = 0 /\ v.guard.markers = 0
      /\ Restored(w, v, text)
  BY <1>1 DEF Restored
<1>4. PICK n \in Nat : n = w.prompt
  BY <1>3
<1>5. /\ RowsHold(saved, prefix, text, next, lead)
  BY <1>1, <1>2 DEF SavedHolds
<1>6. /\ saved.rows \in Seq(Rows) /\ Len(saved.rows) = prefix + text
      /\ \A i \in 1..text :
           /\ saved.rows[prefix + i].tok = TEXT /\ saved.rows[prefix + i].page = next - 1
           /\ saved.rows[prefix + i].at = saved.rows[prefix + 1].at + i - 1
           /\ saved.rows[prefix + i].parity = next % 2
  BY <1>5 DEF RowsHold
<1>7. /\ c.ok /\ c = CacheRecord(c.rows, c.coords, c.prompt, c.visual, c.ok, c.state)
      /\ PromptHolds(c, next, lead, w) /\ RowsAgree(c, next, w) /\ PromptRows(c, next, lead, w)
      /\ CountersHold(c.state, next, w, w.views + w.reuse)
  BY <1>1, <1>2 DEF CacheHolds
<1>8. next # 0
  BY <1>3, <1>7 DEF PromptHolds, Shape
<1> DEFINE back == SubSeq(saved.rows, prefix + 1, prefix + text)
           coord == [token |-> 0, page |-> 1 + c.state.parity, image |-> NoPage, query |-> 0]
           backs == [i \in 1..text |-> coord]
           rows == c.rows \o back
           coords == c.coords \o backs
           state == [[c.state EXCEPT !.markers = @ + 1] EXCEPT !.started = TRUE]
           d == RestoreText(c)
<1>9. d = CacheRecord(rows, coords, c.prompt, c.visual, c.ok, state)
  BY <1>1, <1>7, RestoreTextIs DEF RestoredTo
<1> HIDE DEF d, rows, coords, state
<1>10. /\ d.rows = rows /\ d.coords = coords /\ d.prompt = c.prompt /\ d.ok = c.ok
       /\ d.state = state /\ d.visual = c.visual
  BY <1>9 DEF CacheRecord
<1>11. CountersHold(state, next, v, w.views + w.reuse + w.reuse)
  <2>1. PICK m \in Nat : m = w.views + w.reuse /\ m + 1 = w.views + w.reuse + w.reuse
    BY <1>3
  <2>2. CountersHold(c.state, next, w, m)
    BY <1>7, <2>1
  <2>3. PICK st : st = c.state
    OBVIOUS
  <2>4. CountersHold([[st EXCEPT !.markers = @ + 1] EXCEPT !.started = TRUE], next, v, m + 1)
    BY <1>3, <2>2, <2>3, StateRestored
  <2> QED BY <2>1, <2>3, <2>4 DEF state
<1>12. /\ back \in Seq(Rows) /\ Len(back) = text
       /\ \A i \in 1..text : back[i] = saved.rows[prefix + i]
  <2>1. prefix + text <= Len(saved.rows)
    BY <1>6
  <2> QED BY <1>6, <2>1, PieceIs
<1>13. coord.page \in Nat /\ coord.page % 2 = next % 2 /\ coord \in Coords
  <2>1. c.state.parity = (next - 1) % 2
    BY <1>3, <1>7 DEF CountersHold
  <2>2. PICK b \in Nat : b = next - 1 /\ 1 + b = next
    BY <1>8
  <2>3. (1 + (b % 2)) % 2 = (1 + b) % 2 /\ b % 2 \in {0, 1}
    BY ParityOf
  <2>4. 1 + c.state.parity \in Nat /\ (1 + c.state.parity) % 2 = next % 2
    BY <2>1, <2>2, <2>3
  <2>5. NoPage \in Int
    BY DEF NoPage
  <2> QED BY <2>4, <2>5 DEF Coords
<1>14. /\ backs \in Seq(Coords) /\ Len(backs) = text /\ \A i \in 1..text : backs[i] = coord
  <2>1. backs \in [1..text -> Coords] /\ \A i \in 1..text : backs[i] = coord
    <3> HIDE DEF coord
    <3> QED BY <1>13
  <2> HIDE DEF backs
  <2> QED BY <2>1
<1>15. /\ coord.image = NoPage /\ coord.query = 0
  OBVIOUS
<1> HIDE DEF back, backs, coord
<1>16. /\ rows \in Seq(Rows) /\ Len(rows) = n + text
       /\ (\A i \in 1..n : rows[i] = c.rows[i]) /\ (\A i \in 1..text : rows[n + i] = back[i])
  <2>1. c.rows \in Seq(Rows) /\ Len(c.rows) = n
    BY <1>3, <1>4, <1>7 DEF RowsAgree
  <2>2. PICK a \in Seq(Rows), b \in Seq(Rows) : a = c.rows /\ b = back
    BY <1>12, <1>14, <2>1
  <2>3. Len(a) = n /\ Len(b) = text
    BY <1>12, <1>14, <2>1, <2>2
  <2>4. Joined(Rows, a, b, n, text)
    BY <2>3, ConcatIs
  <2>7. rows = a \o b
    BY <2>2 DEF rows
  <2> QED BY <2>2, <2>4, <2>7 DEF Joined
<1>17. /\ coords \in Seq(Coords) /\ Len(coords) = n + text
       /\ (\A i \in 1..n : coords[i] = c.coords[i])
         /\ (\A i \in 1..text : coords[n + i] = backs[i])
  <2>1. c.coords \in Seq(Coords) /\ Len(c.coords) = n
    BY <1>3, <1>4, <1>7 DEF RowsAgree
  <2>2. PICK a \in Seq(Coords), b \in Seq(Coords) : a = c.coords /\ b = backs
    BY <1>12, <1>14, <2>1
  <2>3. Len(a) = n /\ Len(b) = text
    BY <1>12, <1>14, <2>1, <2>2
  <2>4. Joined(Coords, a, b, n, text)
    BY <2>3, ConcatIs
  <2>7. coords = a \o b
    BY <2>2 DEF coords
  <2> QED BY <2>2, <2>4, <2>7 DEF Joined
<1>18. \A i \in 1..text : /\ rows[n + i].tok = TEXT /\ rows[n + i].page = next - 1
                          /\ rows[n + i].at = rows[n + 1].at + i - 1
                          /\ rows[n + i].parity = next % 2 /\ coords[n + i] = coord
  <2>1. TAKE i \in 1..text
  <2>2. 1 \in 1..text
    OBVIOUS
  <2>3. rows[n + i] = saved.rows[prefix + i] /\ rows[n + 1] = saved.rows[prefix + 1]
    BY <1>12, <1>16, <2>2
  <2>4. coords[n + i] = coord
    BY <1>14, <1>17
  <2> QED BY <1>6, <2>3, <2>4
<1>19. ASSUME NEW i \in 1..(n + text), ~(i <= n)
       PROVE  \E k \in 1..text : i = n + k
  <2>1. i - n \in 1..text /\ i = n + (i - n)
    BY <1>19
  <2> QED BY <2>1
<1>20. PromptHolds(d, next, lead, v)
  BY <1>3, <1>7, <1>10 DEF PromptHolds
<1>21. RowsAgree(d, next, v)
  <2>1. ASSUME NEW i \in 1..(n + text)
        PROVE  Agrees(rows[i], coords[i], next, next - 1)
    <3>1. CASE i <= n
      <4>1. i \in 1..n /\ i \in 1..w.length
        BY <1>3, <1>4, <3>1
      <4> QED BY <1>3, <1>7, <1>16, <1>17, <4>1 DEF RowsAgree
    <3>2. CASE ~(i <= n)
      <4>1. PICK k \in 1..text : i = n + k
        BY <1>19, <3>2
      <4>2. /\ rows[i].tok = TEXT /\ rows[i].page = next - 1
            /\ rows[i].parity = next % 2 /\ coords[i] = coord
        BY <1>18, <4>1
      <4>3. next - 1 # NoPage /\ (next - 1) + 1 = next /\ ~(next - 1 >= next) /\ TEXT # IMAGE
        BY <1>8, KindsDiffer DEF NoPage
      <4> QED BY <1>13, <1>15, <4>2, <4>3 DEF Agrees
    <3> QED BY <3>1, <3>2
  <2>2. v.length = n + text /\ v.reuse = 1
    BY <1>3, <1>4
  <2> QED BY <1>10, <1>16, <1>17, <2>1, <2>2 DEF RowsAgree
<1>22. PromptRows(d, next, lead, v)
  <2>1. \A i \in 1..n : rows[i] = c.rows[i]
    BY <1>16
  <2> QED BY <1>3, <1>4, <1>7, <1>10, <2>1 DEF PromptRows
<1>23. QueriesOf(d, next, v)
  <2> SUFFICES ASSUME NEW i \in (n + 1)..(n + text), rows[i].page # NoPage
               PROVE  coords[i].query \in Nat /\ coords[i].query = rows[i].page - (next - 1)
    BY <1>3, <1>4, <1>10 DEF QueriesOf
  <2>1. i \in 1..(n + text) /\ ~(i <= n)
    OBVIOUS
  <2>2. PICK k \in 1..text : i = n + k
    BY <1>19, <2>1
  <2>3. rows[i].page = next - 1 /\ coords[i] = coord
    BY <1>18, <2>2
  <2>4. (next - 1) - (next - 1) = 0
    OBVIOUS
  <2> QED BY <1>15, <2>3, <2>4
<1>24. SavedRows(d, next, v)
  <2>1. \A i \in 1..text : TextRow(rows[n + i], next - 1, rows[n + 1].at + i - 1)
    BY <1>18 DEF TextRow
  <2> QED BY <1>3, <1>4, <1>10, <2>1 DEF SavedRows
<1>25. GeneratedRows(d, next, v)
  <2>1. (v.marker + 1)..v.count = {}
    BY <1>3
  <2> QED BY <2>1 DEF GeneratedRows
<1>26. d.ok /\ d = CacheRecord(d.rows, d.coords, d.prompt, d.visual, d.ok, d.state)
  BY <1>7, <1>9, <1>10
<1>27. CountersHold(d.state, next, v, w.views + w.reuse + w.reuse)
  BY <1>10, <1>11
<1>28. CacheHolds(d, next, lead, v, w.views + w.reuse + w.reuse)
  BY <1>20, <1>21, <1>22, <1>23, <1>24, <1>25, <1>26, <1>27 DEF CacheHolds
<1> QED BY <1>1, <1>2, <1>28 DEF d

(* The generated page markers a cache stands for.                          *)
Markers(w) == w.views + w.reuse + w.reuse + w.guard.markers

(* The counts of a window before it generates anything.                    *)
CountsOf(views, reuse, prompt, text) ==
  [views |-> views, reuse |-> reuse, prompt |-> prompt, saved |-> text,
   length |-> prompt + text, count |-> 0, marker |-> 0, guard |-> [markers |-> 0]]

(* The cache of a window that has just been prefilled.                     *)
LEMMA PrefilledHolds ==
  ASSUME TypeOK, SavedHolds, ~doc.finished, NEW r \in RequestRecords, NEW owned,
         ContextIsValid(r), r.maxNew # 0
  PROVE  CacheHolds(PrefilledCache(r), doc.next, Lead, Prefilled(owned, r),
                    Markers(Prefilled(owned, r)))
<1>1. PICK next \in Nat, text \in Nat : next = doc.next /\ text = doc.text
  BY DEF TypeOK
<1>2. r.views \in Nat \ {0} /\ r.maxNew \in Nat \ {0}
  BY DEF RequestRecords
<1>3. PICK n \in Nat : n = PromptCount(r)
  BY WindowShape
<1>4. n + SavedText + r.maxNew <= MaxPositions /\ MaxPositions \in Nat /\ SavedText \in Nat
  BY <1>1, <1>3, Positive DEF ContextIsValid, SavedText
<1>5. n <= MaxPositions
  BY <1>2, <1>4
<1>6. Prefilling(r) = FedTo(r, n)
  BY <1>3, <1>5, PrefillingIs
<1> DEFINE v == Prefilled(owned, r)
<1>7. /\ v.views = r.views /\ v.reuse = Reuse /\ v.prompt = n /\ v.saved = SavedText
      /\ v.length = n + SavedText + Reuse /\ v.count = Reuse /\ v.marker = Reuse
      /\ v.guard.markers = Reuse
  BY <1>3 DEF Prefilled
<1> HIDE DEF v
<1>8. ASSUME NEW w, FedWindow(r, w)
      PROVE  CacheHolds(FedTo(r, n), doc.next, Lead, w, r.views + Reuse)
  BY <1>3, <1>5, <1>8, FedCacheHolds
<1>9. CASE doc.prefix = 0
  <2>1. Reuse = 0 /\ SavedText = 0
    BY <1>9 DEF Reuse, SavedText
  <2>2. FedWindow(r, v)
    <3>1. v.length = n
      BY <1>7, <2>1
    <3> QED BY <1>3, <1>7, <2>1, <3>1 DEF FedWindow
  <2>3. PrefilledCache(r) = FedTo(r, n)
    BY <1>6, <2>1 DEF PrefilledCache
  <2>4. Markers(v) = r.views + Reuse
    BY <1>2, <1>7, <2>1 DEF Markers
  <2> QED BY <1>8, <2>2, <2>3, <2>4 DEF v
<1>10. CASE doc.prefix # 0
  <2>1. Reuse = 1 /\ SavedText = text
    BY <1>1, <1>10 DEF Reuse, SavedText
  <2> DEFINE w == CountsOf(r.views, 1, n, 0)
             x == CountsOf(r.views, 1, n, text)
             c == FedTo(r, n)
             d == RestoreText(c)
  <2>2. /\ w.views = r.views /\ w.reuse = 1 /\ w.prompt = n /\ w.saved = 0 /\ w.length = n
        /\ w.count = 0 /\ w.marker = 0 /\ w.guard.markers = 0
    BY DEF CountsOf
  <2>3. /\ x.views = r.views /\ x.reuse = 1 /\ x.prompt = n /\ x.saved = text
        /\ x.length = n + text /\ x.count = 0 /\ x.marker = 0 /\ x.guard.markers = 0
    BY DEF CountsOf
  <2> HIDE DEF w, x, c, d
  <2>4. FedWindow(r, w)
    BY <1>3, <2>1, <2>2 DEF FedWindow
  <2>5. CacheHolds(c, doc.next, Lead, w, w.views + w.reuse)
    BY <1>8, <2>1, <2>2, <2>4 DEF c
  <2>6. Restored(w, x, doc.text)
    BY <1>1, <1>2, <2>2, <2>3 DEF Restored
  <2>7. CacheHolds(d, doc.next, Lead, x, w.views + w.reuse + w.reuse)
    BY <1>10, <2>5, <2>6, RestoreHolds DEF d
  <2>8. c.ok
    BY <2>5 DEF CacheHolds
  <2>9. PrefilledCache(r) = Compute(d, Item(PAGE, doc.next, 0), TRUE)
    BY <1>6, <2>1, <2>8 DEF PrefilledCache, c, d
  <2>10. Counts(x) /\ x.guard.markers \in Nat /\ x.length < MaxPositions
    BY <1>2, <1>4, <2>1, <2>3 DEF Counts
  <2>11. PICK one \in Nat : one = 1
    OBVIOUS
  <2>12. OneMore(x, v, PAGE, one)
    <3>1. PAGE # TEXT
      BY KindsDiffer
    <3>2. v.length = x.length + 1 /\ v.count = x.count + 1 /\ v.marker = x.count + 1
      BY <1>7, <2>1, <2>3
    <3> QED BY <1>7, <2>1, <2>3, <2>11, <3>1, <3>2 DEF OneMore
  <2>13. /\ one = x.guard.markers + (IF PAGE = PAGE THEN 1 ELSE 0)
         /\ one >= x.reuse /\ one <= x.views
    BY <1>2, <2>3, <2>11
  <2>14. Written(x, next, PAGE, one) = Item(PAGE, doc.next, 0)
    <3>1. PageWritten(one, next) = next
      BY <2>11 DEF PageWritten
    <3> QED BY <1>1, <3>1 DEF Written
  <2>15. CacheHolds(d, next, Lead, x, x.views + x.reuse + x.reuse + x.guard.markers)
    <3>1. x.views + x.reuse + x.reuse + x.guard.markers = w.views + w.reuse + w.reuse
      BY <1>2, <2>2, <2>3
    <3> QED BY <1>1, <2>7, <3>1
  <2>16. PICK tok \in {PAGE, TEXT} : tok = PAGE
    OBVIOUS
  <2>a. PICK lead : lead = Lead
    OBVIOUS
  <2>17. CacheHolds(Compute(d, Written(x, next, tok, one), TRUE), next, lead, v,
                    x.views + x.reuse + x.reuse + one)
    BY <2>10, <2>12, <2>13, <2>15, <2>16, <2>a, EmitHolds
  <2>18. Markers(v) = x.views + x.reuse + x.reuse + one
    BY <1>2, <1>7, <2>1, <2>3, <2>11 DEF Markers
  <2> QED BY <1>1, <2>9, <2>14, <2>16, <2>17, <2>18, <2>a DEF v
<1> QED BY <1>9, <1>10

-----------------------------------------------------------------------------
(* Retention: the scan of the prompt finds the last owned page.            *)

(* The markers of a prompt up to a row.                                    *)
MarkersUpTo(prompt, i) == {j \in 1..i : prompt[j].tok = PAGE}

(* The page markers up to a row of the prompt are counted as the counters  *)
(* count them.                                                             *)
Counted(prompt, reuse, lead, views, i) ==
  /\ IsFiniteSet(MarkersUpTo(prompt, i))
  /\ Cardinality(MarkersUpTo(prompt, i)) = MarkersAt(reuse, lead, views, i)

(* The next row adds itself if it is a marker.                             *)
LEMMA CountedNext ==
  ASSUME NEW c, NEW next, NEW lead, NEW w, PromptHolds(c, next, lead, w),
         NEW i \in 1..w.prompt, Counted(c.prompt, w.reuse, lead, w.views, i - 1)
  PROVE  Counted(c.prompt, w.reuse, lead, w.views, i)
<1> DEFINE p == c.prompt
           before == MarkersUpTo(p, i - 1)
           now == MarkersUpTo(p, i)
<1>1. /\ Shape(w.reuse, next, lead, w.views) /\ w.prompt \in Nat
      /\ w.reuse = 1 => w.prompt = PagesEnd(lead, w.views)
      /\ \A k \in 1..w.prompt : p[k] = RowItem(w.reuse, next, lead, w.views, k)
  BY DEF PromptHolds
<1>2. i \in Nat \ {0} /\ (w.reuse = 1 => i <= PagesEnd(lead, w.views))
  BY <1>1
<1>3. PICK tok : tok = RowItem(w.reuse, next, lead, w.views, i).tok /\ p[i].tok = tok
  BY <1>1
<1>4. /\ MarkersWith(StateAt(w.reuse, next, lead, w.views, i - 1), tok)
           = MarkersAt(w.reuse, lead, w.views, i)
      /\ MarkersAt(w.reuse, lead, w.views, i) \in Nat
  <2>1. PICK reuse, views : reuse = w.reuse /\ views = w.views
    OBVIOUS
  <2>2. Shape(reuse, next, lead, views) /\ (reuse = 1 => i <= PagesEnd(lead, views))
    BY <1>1, <1>2, <2>1
  <2>3. MarkersAre(reuse, next, lead, views, i)
    BY <1>2, <2>2, MarkersNext
  <2>4. /\ MarkersWith(StateAt(reuse, next, lead, views, i - 1), RowItem(reuse, next, lead, views, i).tok)
             = MarkersAt(reuse, lead, views, i)
        /\ MarkersAt(reuse, lead, views, i) \in Nat
    BY <2>3, Zenon DEF MarkersAre
  <2> QED BY <1>3, <2>1, <2>4
<1>5. MarkersAt(w.reuse, lead, w.views, i)
        = MarkersAt(w.reuse, lead, w.views, i - 1) + (IF tok = PAGE THEN 1 ELSE 0)
  BY <1>4 DEF MarkersWith, StateAt
<1>6. IsFiniteSet(before) /\ Cardinality(before) = MarkersAt(w.reuse, lead, w.views, i - 1)
  BY DEF Counted
<1>7. i \notin before
  BY <1>2 DEF MarkersUpTo
<1>8. CASE tok = PAGE
  <2>1. now = before \cup {i}
    BY <1>2, <1>3, <1>8 DEF MarkersUpTo
  <2> HIDE DEF now, before
  <2>2. IsFiniteSet(before \cup {i}) /\ Cardinality(before \cup {i}) = Cardinality(before) + 1
    BY <1>6, <1>7, FS_AddElement
  <2> QED BY <1>5, <1>6, <1>8, <2>1, <2>2 DEF Counted, now
<1>9. CASE tok # PAGE
  <2>1. now = before
    BY <1>2, <1>3, <1>9 DEF MarkersUpTo
  <2>2. MarkersAt(w.reuse, lead, w.views, i - 1) \in Nat
    BY <1>6, FS_CardinalityType
  <2> HIDE DEF now, before
  <2> QED BY <1>5, <1>6, <1>9, <2>1, <2>2 DEF Counted, now
<1> QED BY <1>8, <1>9

(* So they are counted for the whole prompt.                               *)
LEMMA CountedAll ==
  ASSUME NEW c, NEW next, NEW lead, NEW w, PromptHolds(c, next, lead, w), NEW i \in 0..w.prompt
  PROVE  Counted(c.prompt, w.reuse, lead, w.views, i)
<1> DEFINE Holds(k) == Counted(c.prompt, w.reuse, lead, w.views, k)
<1>1. w.prompt \in Nat /\ lead \in Nat
  BY DEF PromptHolds, Shape
<1>2. Holds(0)
  <2>1. MarkersUpTo(c.prompt, 0) = {}
    BY DEF MarkersUpTo
  <2>2. MarkersAt(w.reuse, lead, w.views, 0) = 0
    BY <1>1 DEF MarkersAt
  <2> QED BY <2>1, <2>2, FS_EmptySet DEF Counted
<1>3. \A k \in 1..w.prompt : Holds(k - 1) => Holds(k)
  BY CountedNext
<1> HIDE DEF Holds
<1>4. ~ \E k \in 0..w.prompt : ~Holds(k)
  <2> SUFFICES ASSUME NEW k \in 0..w.prompt, ~Holds(k) PROVE FALSE
    OBVIOUS
  <2> DEFINE bad == {j \in 0..w.prompt : ~Holds(j)}
  <2>1. bad \in SUBSET Nat /\ bad # {}
    OBVIOUS
  <2>2. PICK j \in bad : \A m \in bad : j <= m
    <3> HIDE DEF bad
    <3> QED BY <2>1, LeastNat
  <2>3. j \in 0..w.prompt /\ ~Holds(j) /\ j # 0
    BY <1>2
  <2>4. j \in 1..w.prompt /\ j - 1 \in 0..w.prompt /\ ~(j <= j - 1)
    BY <1>1, <2>3
  <2>5. Holds(j - 1)
    BY <2>2, <2>4
  <2> QED BY <1>3, <2>3, <2>4, <2>5
<1> QED BY <1>4 DEF Holds

(* The row at a place of a page.                                           *)
RowOf(lead, nth, at) == lead + nth * PageRows + 1 + at

(* The row at a place of a page.                                           *)
PageRowIs(reuse, next, lead, views, nth, at) ==
  LET i == RowOf(lead, nth, at)
  IN  /\ i \in Nat /\ i > lead /\ i <= PagesEnd(lead, views)
      /\ RowItem(reuse, next, lead, views, i) = PageItem(next + nth, at)
      /\ MarkersAt(reuse, lead, views, i) = nth + 1 + reuse

(* Every place of every page of the window has its row.                    *)
LEMMA PageRow ==
  ASSUME NEW reuse, NEW next, NEW lead, NEW views, Shape(reuse, next, lead, views),
         NEW nth \in Nat, nth < views, NEW at \in 0..ImageRows
  PROVE  PageRowIs(reuse, next, lead, views, nth, at)
<1>1. /\ lead \in Nat \ {0} /\ views \in Nat \ {0}
      /\ PageRows \in Nat \ {0} /\ PageRows = ImageRows + 1 /\ ImageRows \in Nat
  BY Positive DEF PageRows, Shape
<1>2. PICK i : i = lead + nth * PageRows + 1 + at
  OBVIOUS
<1>3. i \in Nat /\ i > lead /\ Nth(lead, i) = nth /\ Place(lead, i) = at
  <2>1. lead \in Nat
    BY <1>1
  <2>2. LET j == lead + nth * PageRows + 1 + at
        IN  j \in Nat /\ j > lead /\ Nth(lead, j) = nth /\ Place(lead, j) = at
    BY <2>1, PlaceOf, Zenon
  <2> QED BY <1>2, <2>2, Zenon
<1>4. i <= PagesEnd(lead, views)
  <2>1. PICK d \in Nat : views = (nth + 1) + d
    <3>1. views - (nth + 1) \in Nat /\ views = (nth + 1) + (views - (nth + 1))
      BY <1>1
    <3> QED BY <3>1
  <2>2. views * PageRows = nth * PageRows + PageRows + d * PageRows
    BY <1>1, <2>1
  <2>3. nth * PageRows \in Nat /\ d * PageRows \in Nat
    BY <1>1
  <2> QED BY <1>1, <1>2, <2>2, <2>3 DEF PagesEnd
<1>5. ~(i <= lead)
  BY <1>1, <1>3
<1>6. RowItem(reuse, next, lead, views, i) = PageItem(next + nth, at)
  BY <1>3, <1>4, <1>5 DEF RowItem
<1>7. MarkersAt(reuse, lead, views, i) = nth + 1 + reuse
  BY <1>3, <1>4, <1>5 DEF MarkersAt
<1>8. RowOf(lead, nth, at) = i
  BY <1>2 DEF RowOf
<1> QED BY <1>3, <1>4, <1>6, <1>7, <1>8 DEF PageRowIs

(* A page's marker is the only one with its count.                         *)
LEMMA MarkerIs ==
  ASSUME NEW reuse, NEW next, NEW lead, NEW views, Shape(reuse, next, lead, views),
         NEW nth \in Nat, NEW i \in Nat \ {0},
         RowItem(reuse, next, lead, views, i).tok = PAGE,
         MarkersAt(reuse, lead, views, i) = reuse + nth + 1
  PROVE  i = RowOf(lead, nth, 0)
<1>1. /\ reuse \in {0, 1} /\ lead \in Nat \ {0} /\ views \in Nat \ {0} /\ (reuse = 0 => lead = 1)
      /\ PageRows \in Nat \ {0} /\ PageRows = ImageRows + 1 /\ ImageRows \in Nat
  BY Positive DEF PageRows, Shape
<1>2. i > lead
  <2>1. ASSUME i <= lead PROVE FALSE
    <3>1. MarkersAt(reuse, lead, views, i) = reuse
      BY <2>1 DEF MarkersAt
    <3> QED BY <1>1, <3>1
  <2> QED BY <1>1, <2>1
<1>3. ~(i <= lead)
  BY <1>1, <1>2
<1>4. i <= PagesEnd(lead, views)
  <2>1. ASSUME ~(i <= PagesEnd(lead, views)) PROVE FALSE
    <3>1. RowItem(reuse, next, lead, views, i).tok = TEXT
      BY <1>3, <2>1 DEF RowItem, Item
    <3> QED BY <3>1, KindsDiffer
  <2> QED BY <2>1
<1>5. Nth(lead, i) \in 0..(views - 1) /\ Place(lead, i) \in 0..ImageRows
  BY <1>1, <1>2, <1>4, PlaceIs
<1>6. Nth(lead, i) = nth
  <2>1. MarkersAt(reuse, lead, views, i) = Nth(lead, i) + 1 + reuse
    BY <1>3, <1>4 DEF MarkersAt
  <2> QED BY <1>1, <1>5, <2>1
<1>7. Place(lead, i) = 0
  <2>1. RowItem(reuse, next, lead, views, i) = PageItem(next + Nth(lead, i), Place(lead, i))
    BY <1>3, <1>4 DEF RowItem
  <2> QED BY <2>1, KindsDiffer DEF PageItem, Item
<1>8. PICK k \in Nat : k = i - lead - 1
  BY <1>1, <1>2
<1>9. k = PageRows * nth + 0
  <2>1. k \div PageRows = nth /\ k % PageRows = 0
    BY <1>6, <1>7, <1>8 DEF Nth, Place
  <2>2. k = PageRows * (k \div PageRows) + (k % PageRows)
    BY <1>1, DivisionIs
  <2> QED BY <2>1, <2>2
<1>10. PageRows * nth = nth * PageRows /\ nth * PageRows \in Nat
  BY <1>1
<1> QED BY <1>1, <1>8, <1>9, <1>10 DEF RowOf

(* The scan of a window's prompt finds the marker of the last owned page   *)
(* and the end of its images.                                              *)
ScanIs ==
  /\ ScannedMarker = RowOf(Lead, doc.owned - 1, 0)
  /\ TailEnd = Lead + doc.owned * PageRows
  /\ doc.look = 1 => ScannedEnd = TailEnd

(* The scan finds them in every prompt that has the shape of its window.   *)
LEMMA ScanFinds ==
  ASSUME TypeOK, LayoutInv, ProgressInv, PromptHolds(cache, doc.next, Lead, win)
  PROVE  ScanIs
<1>1. PICK lead, next, p, n, owned, reuse, views :
        /\ lead = Lead /\ next = doc.next /\ p = cache.prompt /\ n = win.prompt
        /\ owned = doc.owned /\ reuse = win.reuse /\ views = win.views
  OBVIOUS
<1>2. /\ Shape(reuse, next, lead, views) /\ n \in Nat /\ n >= PagesEnd(lead, views)
      /\ p \in Seq(ItemSet) /\ Len(p) = n
      /\ (reuse = 1 => n = PagesEnd(lead, views))
      /\ \A i \in 1..n : p[i] = RowItem(reuse, next, lead, views, i)
  BY <1>1 DEF PromptHolds
<1>3. /\ owned \in Nat \ {0} /\ doc.look \in {0, 1} /\ views = owned + doc.look
      /\ reuse = Reuse /\ reuse \in {0, 1} /\ lead \in Nat \ {0} /\ views \in Nat \ {0}
      /\ doc.prefix \in Nat
  BY <1>1, <1>2 DEF TypeOK, LayoutInv, ProgressInv, Shape
<1>4. PageRows \in Nat \ {0} /\ PageRows = ImageRows + 1 /\ ImageRows \in Nat \ {0}
  BY Positive DEF PageRows
<1>5. PICK nth \in Nat : nth = owned - 1 /\ owned = nth + 1 /\ nth < views
  <2>1. owned - 1 \in Nat /\ owned = (owned - 1) + 1 /\ owned - 1 < views
    BY <1>3
  <2> QED BY <2>1
<1>6. PICK m : m = RowOf(lead, nth, 0)
  OBVIOUS
<1>7. PageRowIs(reuse, next, lead, views, nth, 0)
  BY <1>2, <1>4, <1>5, PageRow
<1>8. /\ m \in Nat /\ m > lead /\ m <= PagesEnd(lead, views)
      /\ RowItem(reuse, next, lead, views, m) = PageItem(next + nth, 0)
      /\ MarkersAt(reuse, lead, views, m) = nth + 1 + reuse
  BY <1>6, <1>7 DEF PageRowIs
<1>9. PagesEnd(lead, views) \in Nat
  BY <1>3, PlaceLast
<1>10. m \in 1..n
  BY <1>2, <1>3, <1>8, <1>9
<1>11. \A i \in 1..n : Cardinality(MarkersUpTo(p, i)) = MarkersAt(reuse, lead, views, i)
  <2>1. TAKE i \in 1..n
  <2>2. i \in 0..win.prompt
    BY <1>1, <1>2
  <2>3. Counted(cache.prompt, win.reuse, Lead, win.views, i)
    BY <2>2, CountedAll
  <2> QED BY <1>1, <2>3 DEF Counted
<1> DEFINE Found(i) == p[i].tok = PAGE /\ Cardinality(MarkersUpTo(p, i)) = reuse + owned
<1>12. ScannedMarker = CHOOSE i \in 1..n : Found(i)
  BY <1>1, <1>2 DEF ScannedMarker, MarkersUpTo
<1>13. Found(m)
  <2>1. p[m] = PageItem(next + nth, 0)
    BY <1>2, <1>8, <1>10
  <2>2. p[m].tok = PAGE
    BY <2>1 DEF PageItem, Item
  <2>3. nth + 1 + reuse = reuse + owned
    BY <1>3, <1>5
  <2> QED BY <1>8, <1>10, <1>11, <2>2, <2>3
<1>14. \A i \in 1..n : Found(i) => i = m
  <2>1. TAKE i \in 1..n
  <2>2. HAVE Found(i)
  <2>3. i \in Nat \ {0} /\ RowItem(reuse, next, lead, views, i).tok = PAGE
    BY <1>2, <2>2
  <2>4. reuse + owned = reuse + nth + 1
    BY <1>3, <1>5
  <2>5. MarkersAt(reuse, lead, views, i) = reuse + nth + 1
    BY <1>11, <2>2, <2>4
  <2> QED BY <1>2, <1>6, <2>3, <2>5, MarkerIs
<1> HIDE DEF Found
<1>15. ScannedMarker = m
  BY <1>10, <1>12, <1>13, <1>14
<1>16. TailEnd = lead + owned * PageRows
  <2>1. /\ owned * PageRows \in Nat /\ (owned - 1) * PageRows \in Nat
        /\ (owned - 1) * PageRows + PageRows = owned * PageRows
    BY <1>3, PagesOfRows
  <2>2. CASE doc.prefix = 0
    BY <1>1, <1>3, <2>2 DEF TailEnd, Lead, Reuse
  <2>3. CASE doc.prefix # 0
    <3>1. TailEnd = doc.prefix + (owned - 1) * PageRows /\ lead = doc.prefix - PageRows
      BY <1>1, <1>3, <2>3 DEF TailEnd, Lead, Reuse
    <3> QED BY <1>3, <1>4, <2>1, <3>1
  <2> QED BY <2>2, <2>3
<1>17. ASSUME doc.look = 1 PROVE ScannedEnd = TailEnd
  <2>1. PICK e \in Nat : e = TailEnd /\ e = lead + owned * PageRows
    <3>1. owned * PageRows \in Nat
      BY <1>3, PagesOfRows
    <3> QED BY <1>3, <1>16, <3>1
  <2>2. e = RowOf(lead, nth, ImageRows) /\ e = m + ImageRows /\ e + 1 = RowOf(lead, owned, 0)
    <3>1. /\ owned * PageRows \in Nat /\ (owned - 1) * PageRows \in Nat
          /\ (owned - 1) * PageRows + PageRows = owned * PageRows
      BY <1>3, PagesOfRows
    <3>2. nth * PageRows \in Nat /\ nth * PageRows + PageRows = owned * PageRows
      BY <1>5, <3>1
    <3> QED BY <1>3, <1>4, <1>6, <2>1, <3>1, <3>2 DEF RowOf
  <2>3. ASSUME NEW j \in (m + 1)..e PROVE j \in 1..n /\ p[j].tok = IMAGE
    <3>1. PICK at \in 0..ImageRows : at = j - m /\ at # 0 /\ j = m + at
      <4>1. j - m \in 0..ImageRows /\ j - m # 0 /\ j = m + (j - m)
        BY <1>4, <1>8, <2>2, <2>3
      <4> QED BY <4>1
    <3>2. j = RowOf(lead, nth, at)
      <4>1. nth * PageRows \in Nat
        BY <1>4
      <4> QED BY <1>3, <1>4, <1>6, <3>1, <4>1 DEF RowOf
    <3>3. PageRowIs(reuse, next, lead, views, nth, at)
      BY <1>2, <1>5, PageRow
    <3>4. /\ j \in Nat /\ j > lead /\ j <= PagesEnd(lead, views)
          /\ RowItem(reuse, next, lead, views, j) = PageItem(next + nth, at)
      BY <3>2, <3>3 DEF PageRowIs
    <3>5. j \in 1..n
      BY <1>2, <1>3, <1>9, <3>4
    <3>6. PageItem(next + nth, at).tok = IMAGE
      BY <3>1 DEF PageItem, Item
    <3> QED BY <1>2, <3>4, <3>5, <3>6
  <2>4. owned < views
    BY <1>3, <1>17
  <2>5. PageRowIs(reuse, next, lead, views, owned, 0)
    BY <1>2, <1>3, <1>4, <2>4, PageRow
  <2>6. /\ e + 1 \in Nat /\ e + 1 > lead /\ e + 1 <= PagesEnd(lead, views)
        /\ RowItem(reuse, next, lead, views, e + 1) = PageItem(next + owned, 0)
    BY <2>2, <2>5 DEF PageRowIs
  <2>7. e + 1 \in 1..n /\ p[e + 1].tok = PAGE
    <3>1. e + 1 \in 1..n
      BY <1>2, <1>9, <2>6
    <3>2. PageItem(next + owned, 0).tok = PAGE
      BY DEF PageItem, Item
    <3> QED BY <1>2, <2>6, <3>1, <3>2
  <2> DEFINE Ends(k) == /\ \A j \in (m + 1)..k : p[j].tok = IMAGE
                        /\ k = n \/ p[k + 1].tok # IMAGE
  <2>8. ScannedEnd = CHOOSE k \in m..n : Ends(k)
    BY <1>1, <1>2, <1>15 DEF ScannedEnd
  <2>9. Ends(e) /\ e \in m..n
    <3>1. e \in m..n
      BY <1>2, <1>4, <1>8, <2>2, <2>7
    <3> QED BY <2>3, <2>7, <3>1, KindsDiffer
  <2>10. \A k \in m..n : Ends(k) => k = e
    <3>1. TAKE k \in m..n
    <3>2. HAVE Ends(k)
    <3>3. k \in Nat /\ m \in Nat
      BY <1>2, <1>8
    <3>4. ~(k < e)
      <4>1. ASSUME k < e PROVE FALSE
        <5>1. k + 1 \in (m + 1)..e
          BY <3>3, <4>1
        <5>2. p[k + 1].tok = IMAGE
          BY <2>3, <5>1
        <5>3. k # n
          BY <1>2, <2>7, <3>3, <4>1
        <5> QED BY <3>2, <5>2, <5>3
      <4> QED BY <4>1
    <3>5. ~(e < k)
      <4>1. ASSUME e < k PROVE FALSE
        <5>1. e + 1 \in (m + 1)..k
          BY <1>4, <2>2, <3>3, <4>1
        <5>2. p[e + 1].tok = IMAGE
          BY <3>2, <5>1
        <5> QED BY <2>7, <5>2, KindsDiffer
      <4> QED BY <4>1
    <3> QED BY <3>3, <3>4, <3>5
  <2> HIDE DEF Ends
  <2> QED BY <2>1, <2>8, <2>9, <2>10
<1> QED BY <1>1, <1>5, <1>6, <1>15, <1>16, <1>17 DEF ScanIs

(* The rows of a tail, in the window that leaves it and in the next.       *)
TailRowIs(reuse, next, lead, views, owned, k, j) ==
  LET i == lead + owned * PageRows - k + j
  IN  /\ i \in Nat \ {0} /\ i <= PagesEnd(lead, views)
      /\ RowItem(reuse, next, lead, views, i) = RowItem(1, next + owned, k + 1, 1, j + 1)
      /\ RowItem(reuse, next, lead, views, i).page >= next
      /\ RowItem(reuse, next, lead, views, i).page \in Nat

(* The rows of the tail are those of the next window's start.              *)
LEMMA TailRow ==
  ASSUME NEW reuse, NEW next, NEW lead, NEW views, Shape(reuse, next, lead, views),
         NEW owned \in Nat \ {0}, owned < views, NEW k \in Nat \ {0}, k < PageRows,
         NEW j \in 1..(k + PageRows)
  PROVE  TailRowIs(reuse, next, lead, views, owned, k, j)
<1>1. /\ next \in Nat /\ lead \in Nat \ {0} /\ views \in Nat \ {0}
      /\ PageRows \in Nat \ {0} /\ PageRows = ImageRows + 1 /\ ImageRows \in Nat \ {0}
  BY Positive DEF PageRows, Shape
<1>2. /\ owned * PageRows \in Nat /\ (owned - 1) * PageRows \in Nat
      /\ (owned - 1) * PageRows + PageRows = owned * PageRows
  BY PagesOfRows
<1>3. PICK i : i = lead + owned * PageRows - k + j
  OBVIOUS
<1>4. CASE j <= k
  <2>1. PICK nth \in Nat, at \in 0..ImageRows :
          nth = owned - 1 /\ at = ImageRows - k + j /\ at # 0 /\ nth < views
    <3>1. owned - 1 \in Nat /\ owned - 1 < views
      BY <1>1
    <3>2. ImageRows - k + j \in 0..ImageRows /\ ImageRows - k + j # 0
      BY <1>1, <1>4
    <3> QED BY <3>1, <3>2
  <2>2. i = RowOf(lead, nth, at)
    <3>1. nth * PageRows \in Nat /\ nth * PageRows + PageRows = owned * PageRows
      BY <1>2, <2>1
    <3> QED BY <1>1, <1>2, <1>3, <1>4, <2>1, <3>1 DEF RowOf
  <2>3. PageRowIs(reuse, next, lead, views, nth, at)
    BY <2>1, PageRow
  <2>4. /\ i \in Nat /\ i > lead /\ i <= PagesEnd(lead, views)
        /\ RowItem(reuse, next, lead, views, i) = PageItem(next + nth, at)
    BY <2>2, <2>3 DEF PageRowIs
  <2>5. RowItem(1, next + owned, k + 1, 1, j + 1)
          = Item(IMAGE, next + owned - 1, ImageRows - (k + 1) + (j + 1))
    BY <1>1, <1>4 DEF RowItem
  <2>6. next + owned - 1 = next + nth /\ ImageRows - (k + 1) + (j + 1) = at
        /\ next + nth >= next /\ next + nth \in Nat
    BY <1>1, <1>4, <2>1
  <2>7. PageItem(next + nth, at) = Item(IMAGE, next + nth, at)
        /\ PageItem(next + nth, at).page = next + nth
    BY <2>1 DEF PageItem, Item
  <2>8. i \in Nat \ {0}
    BY <1>1, <2>4
  <2> QED BY <1>3, <2>4, <2>5, <2>6, <2>7, <2>8 DEF TailRowIs
<1>5. CASE ~(j <= k)
  <2>1. PICK at \in 0..ImageRows : at = j - k - 1 /\ j = k + 1 + at
    <3>1. j - k - 1 \in 0..ImageRows /\ j = k + 1 + (j - k - 1)
      BY <1>1, <1>5
    <3> QED BY <3>1
  <2>2. i = RowOf(lead, owned, at)
    BY <1>1, <1>2, <1>3, <2>1 DEF RowOf
  <2>3. PageRowIs(reuse, next, lead, views, owned, at)
    BY <2>1, PageRow
  <2>4. /\ i \in Nat /\ i > lead /\ i <= PagesEnd(lead, views)
        /\ RowItem(reuse, next, lead, views, i) = PageItem(next + owned, at)
    BY <2>2, <2>3 DEF PageRowIs
  <2>5. PICK l, m, z \in Nat : l = k + 1 /\ m = next + owned /\ z = 0
    BY <1>1
  <2>6. Shape(1, m, l, 1)
    BY <1>1, <2>5 DEF Shape
  <2>7. PageRowIs(1, m, l, 1, z, at)
    <3>1. z < 1
      BY <2>5
    <3> QED BY <2>6, <3>1, PageRow
  <2>8. RowOf(l, z, at) = j + 1
    <3>1. z * PageRows = 0
      BY <1>1, <2>5
    <3> QED BY <1>1, <2>1, <2>5, <3>1 DEF RowOf
  <2>9. RowItem(1, m, l, 1, j + 1) = PageItem(m + z, at)
    BY <2>7, <2>8 DEF PageRowIs
  <2>10. m + z = next + owned /\ next + owned >= next /\ next + owned \in Nat /\ i \in Nat \ {0}
    BY <1>1, <2>4, <2>5
  <2>11. PageItem(next + owned, at).page = next + owned
    BY DEF PageItem, Item
  <2> QED BY <1>3, <2>4, <2>5, <2>9, <2>10, <2>11 DEF TailRowIs
<1> QED BY <1>4, <1>5

-----------------------------------------------------------------------------
(* The pieces of the cache that are saved hold what the next window takes  *)
(* them for.                                                               *)

(* The rows of a piece of a sequence.                                      *)
Piece(S, s, m, n) ==
  /\ SubSeq(s, m + 1, m + n) \in Seq(S) /\ Len(SubSeq(s, m + 1, m + n)) = n
  /\ \A i \in 1..n : SubSeq(s, m + 1, m + n)[i] = s[m + i]

(* A piece of a sequence within its length.                                *)
LEMMA PieceOf ==
  ASSUME NEW S, NEW s \in Seq(S), NEW m \in Nat, NEW n \in Nat, m + n <= Len(s)
  PROVE  Piece(S, s, m, n)
BY PieceIs DEF Piece

(* A head and a piece.                                                     *)
HeadPiece(s, x, m, n) == <<x>> \o SubSeq(s, m + 1, m + n)

(* Its elements.                                                           *)
HeadIs(S, s, x, m, n) ==
  /\ HeadPiece(s, x, m, n) \in Seq(S) /\ Len(HeadPiece(s, x, m, n)) = n + 1
  /\ HeadPiece(s, x, m, n)[1] = x
  /\ \A i \in 1..n : HeadPiece(s, x, m, n)[i + 1] = s[m + i]

(* A head joins a piece.                                                   *)
LEMMA HeadPieceIs ==
  ASSUME NEW S, NEW s \in Seq(S), NEW x \in S, NEW m \in Nat, NEW n \in Nat, m + n <= Len(s)
  PROVE  HeadIs(S, s, x, m, n)
<1> DEFINE t == SubSeq(s, m + 1, m + n)
<1>1. t \in Seq(S) /\ Len(t) = n /\ \A i \in 1..n : t[i] = s[m + i]
  BY PieceOf DEF Piece
<1> HIDE DEF t
<1>2. PICK h : h = <<x>>
  OBVIOUS
<1>3. h \in Seq(S) /\ Len(h) = 1 /\ h[1] = x
  BY <1>2
<1>4. Joined(S, h, t, 1, n)
  BY <1>1, <1>3, ConcatIs
<1>5. HeadPiece(s, x, m, n) = h \o t
  BY <1>2 DEF HeadPiece, t
<1>6. h \o t \in Seq(S) /\ Len(h \o t) = n + 1 /\ (h \o t)[1] = x
  BY <1>3, <1>4 DEF Joined
<1>7. \A i \in 1..n : (h \o t)[i + 1] = s[m + i]
  <2>1. TAKE i \in 1..n
  <2>2. (h \o t)[1 + i] = t[i]
    BY <1>4 DEF Joined
  <2>3. 1 + i = i + 1
    OBVIOUS
  <2> QED BY <1>1, <2>2, <2>3
<1> QED BY <1>5, <1>6, <1>7 DEF HeadIs

(* A window that retains its tail.                                         *)
Retains ==
  /\ TypeOK /\ DocInv /\ LayoutInv /\ ProgressInv
  /\ doc.look = 1 /\ win.guard.markers = doc.owned
  /\ CacheHolds(cache, doc.next, Lead, win, Markers(win))

(* The numbers of the retention, named.                                    *)
TailIs(lead, next, owned, k, t, n, text, from) ==
  /\ lead = Lead /\ next = doc.next /\ owned = doc.owned /\ n = win.prompt
  /\ k = TailEnd - TailStart /\ t = TailStart /\ text = RetainedText
  /\ from = GeneratedFrom + TextStart
  /\ k < PageRows /\ k # 0 /\ RetainedPrefix - 1 = k + PageRows
  /\ lead + owned * PageRows - k = t
  /\ t + (k + PageRows) <= n /\ from + text <= win.length
  /\ from = win.prompt + win.saved + TextStart
  /\ win.marker <= TextStart /\ TextStart + text = win.count
  /\ owned < win.views /\ owned # 0 /\ n <= win.length

(* They lie within the window.                                             *)
LEMMA TailNumbers ==
  ASSUME Retains
  PROVE  \E lead, next, owned, k, t, n, text, from \in Nat :
           TailIs(lead, next, owned, k, t, n, text, from)
<1>1. /\ TypeOK /\ DocInv /\ LayoutInv /\ ProgressInv /\ doc.look = 1
  BY DEF Retains
<1>2. /\ TailEnd \in Nat /\ RetainIsValid /\ RetainedPrefix \in Nat
      /\ RetainedPrefix >= 1 + TailRows + PageRows /\ RetainedText \in Nat
  BY <1>1, RetainedTail
<1>3. /\ TailRows \in Nat \ {0} /\ BlockRows \in Nat \ {0} /\ PageRows \in Nat \ {0}
      /\ TailRows + BlockRows <= PageRows /\ TextRows \in Nat \ {0}
  BY Positive
<1>4. PICK e \in Nat, b \in Nat : e = TailEnd /\ b = e % BlockRows /\ b < BlockRows
  <2>1. TailEnd % BlockRows \in 0..(BlockRows - 1)
    BY <1>2, <1>3, RemainderBound
  <2> QED BY <1>2, <1>3, <2>1
<1>5. PICK k \in Nat : k = TailRows + b
  BY <1>3
<1>6. TailStart = e - k /\ RetainedPrefix = 1 + (e - TailStart) + PageRows
  BY <1>4, <1>5 DEF TailStart, RetainedPrefix
<1>7. /\ e >= k /\ win.length >= win.prompt + win.saved + win.count
      /\ e + PageRows <= win.prompt
  BY <1>2, <1>4, <1>5 DEF RetainIsValid
<1>8. PICK t \in Nat : t = TailStart /\ t = e - k /\ e - t = k
  BY <1>4, <1>6, <1>7
<1>9. /\ win.prompt \in Nat /\ win.saved \in Nat /\ win.count \in Nat /\ win.marker \in Nat
      /\ win.marker <= win.count /\ win.length = win.prompt + win.saved + win.count
      /\ doc.owned \in Nat /\ doc.owned # 0 /\ win.views = doc.owned + 1 /\ doc.next \in Nat
  BY <1>1 DEF TypeOK, LayoutInv, ProgressInv
<1>10. /\ TextStart \in Nat /\ win.marker <= TextStart /\ TextStart <= win.count
       /\ RetainedText = win.count - TextStart
  BY <1>3, <1>9 DEF TextStart, RetainedText
<1>11. PICK text \in Nat, from \in Nat :
         /\ text = RetainedText /\ from = GeneratedFrom + TextStart
         /\ from = win.prompt + win.saved + TextStart /\ TextStart + text = win.count
  BY <1>9, <1>10 DEF GeneratedFrom
<1>12. Lead \in Nat /\ e = Lead + doc.owned * PageRows
  <2>1. PromptHolds(cache, doc.next, Lead, win)
    BY DEF Retains, CacheHolds
  <2>2. ScanIs
    BY <1>1, <2>1, ScanFinds
  <2>3. Lead \in Nat
    BY <2>1 DEF PromptHolds, Shape
  <2> QED BY <1>4, <2>2, <2>3 DEF ScanIs
<1>13. PICK lead \in Nat, next \in Nat, owned \in Nat, n \in Nat :
         lead = Lead /\ next = doc.next /\ owned = doc.owned /\ n = win.prompt
  BY <1>9, <1>12
<1>14. /\ k < PageRows /\ k # 0 /\ RetainedPrefix - 1 = k + PageRows
       /\ lead + owned * PageRows - k = t
       /\ t + (k + PageRows) <= n /\ from + text <= win.length
       /\ owned < win.views /\ n <= win.length
  <2>1. k < PageRows /\ k # 0
    BY <1>3, <1>4, <1>5
  <2>2. RetainedPrefix - 1 = k + PageRows
    BY <1>3, <1>6, <1>8
  <2>3. lead + owned * PageRows - k = t
    <3>1. PICK m \in Nat : m = owned * PageRows
      BY <1>3
    <3>2. e = lead + m
      BY <1>12, <1>13, <3>1
    <3>3. lead + m - k = e - k
      BY <3>2
    <3> QED BY <1>8, <3>1, <3>3
  <2>4. t + (k + PageRows) <= n
    BY <1>3, <1>7, <1>8, <1>13
  <2>5. from + text <= win.length
    BY <1>9, <1>10, <1>11
  <2> QED BY <1>9, <1>13, <2>1, <2>2, <2>3, <2>4, <2>5
<1>15. TailIs(lead, next, owned, k, t, n, text, from)
  BY <1>4, <1>8, <1>9, <1>10, <1>11, <1>13, <1>14 DEF TailIs
<1> QED BY <1>15

(* What a completed window saves.                                          *)
LEMMA PrefixRetained ==
  ASSUME Retains, NEW lead \in Nat, NEW next \in Nat, NEW owned \in Nat, NEW k \in Nat,
         NEW t \in Nat, NEW n \in Nat, NEW text \in Nat, NEW from \in Nat,
         TailIs(lead, next, owned, k, t, n, text, from)
  PROVE  PrefixHolds(Retained, k + 1 + PageRows, next + owned, k + 1)
<1> DEFINE m == k + PageRows
           head == Item(PAGE, next + owned - 1, 0)
           prefix == HeadPiece(cache.prompt, head, t, m)
<1>1. /\ PromptHolds(cache, next, lead, win) /\ doc.look \in {0, 1}
      /\ win.views = doc.owned + doc.look /\ doc.look = 1
  BY DEF Retains, TailIs, CacheHolds, LayoutInv
<1>2. /\ PageRows \in Nat \ {0} /\ PageRows = ImageRows + 1 /\ ImageRows \in Nat \ {0}
  BY Positive DEF PageRows
<1>3. PICK reuse, views : reuse = win.reuse /\ views = win.views
  OBVIOUS
<1>4. /\ Shape(reuse, next, lead, views)
      /\ cache.prompt \in Seq(ItemSet) /\ Len(cache.prompt) = n
      /\ n >= PagesEnd(lead, views)
      /\ \A i \in 1..n : cache.prompt[i] = RowItem(reuse, next, lead, views, i)
  BY <1>1, <1>3 DEF PromptHolds, TailIs
<1>5. /\ k < PageRows /\ k # 0 /\ lead + owned * PageRows - k = t /\ t + m <= n
      /\ owned # 0 /\ owned < views /\ RetainedPrefix - 1 = m /\ t = TailStart
      /\ next = doc.next /\ owned = doc.owned
  BY <1>3 DEF TailIs
<1>6. Shape(1, next + owned, k + 1, 1)
  BY <1>2, <1>5 DEF Shape
<1>7. PagesEnd(k + 1, 1) = k + 1 + PageRows
  BY <1>2 DEF PagesEnd
<1>8. m \in Nat /\ head \in ItemSet
  BY <1>2, ItemTypes
<1>9. Retained.prefix = prefix /\ Retained.last = Item(IMAGE, doc.next + win.views - 1, ImageRows)
  BY <1>5 DEF Retained, HeadPiece
<1> HIDE DEF m, head
<1>10. /\ prefix \in Seq(ItemSet) /\ Len(prefix) = m + 1 /\ prefix[1] = head
       /\ \A i \in 1..m : prefix[i + 1] = cache.prompt[t + i]
  <2>1. t + m <= Len(cache.prompt)
    BY <1>4, <1>5
  <2>2. PICK s \in Seq(ItemSet), x \in ItemSet : s = cache.prompt /\ x = head /\ t + m <= Len(s)
    BY <1>4, <1>8, <2>1
  <2>3. HeadIs(ItemSet, s, x, t, m)
    BY <1>8, <2>2, HeadPieceIs
  <2> QED BY <2>2, <2>3 DEF HeadIs
<1> HIDE DEF prefix
<1>11. ASSUME NEW i \in 1..(m + 1) PROVE prefix[i] = RowItem(1, next + owned, k + 1, 1, i)
  <2>1. CASE i = 1
    <3>1. 1 <= k + 1
      OBVIOUS
    <3>2. RowItem(1, next + owned, k + 1, 1, 1) = Item(PAGE, next + owned - 1, 0)
      BY <3>1 DEF RowItem
    <3> QED BY <1>10, <2>1, <3>2 DEF head
  <2>2. CASE i # 1
    <3>1. PICK j \in 1..m : i = j + 1
      <4>1. i - 1 \in 1..m /\ i = (i - 1) + 1
        BY <1>8, <2>2
      <4> QED BY <4>1
    <3>2. TailRowIs(reuse, next, lead, views, owned, k, j)
      BY <1>4, <1>5, TailRow DEF m
    <3>3. RowItem(reuse, next, lead, views, t + j) = RowItem(1, next + owned, k + 1, 1, j + 1)
      BY <1>5, <3>2 DEF TailRowIs
    <3>4. t + j \in 1..n
      BY <1>5, <1>8
    <3> QED BY <1>4, <1>10, <3>1, <3>3, <3>4
  <2> QED BY <2>1, <2>2
<1>12. m + 1 = k + 1 + PageRows
  BY <1>2 DEF m
<1>13. Retained.last = Item(IMAGE, next + owned, ImageRows)
  <2>1. doc.next + win.views - 1 = next + owned
    BY <1>1, <1>5
  <2> QED BY <1>9, <2>1
<1> QED BY <1>6, <1>7, <1>9, <1>10, <1>11, <1>12, <1>13 DEF PrefixHolds

(* A row of the prompt that is saved.                                      *)
SavedRowIs(row, item, next) ==
  /\ row \in Rows /\ ItemOf(row) = item
  /\ row.parity = (row.page + 1) % 2
  /\ row.page >= next => row.token = row.at

(* A row of the prompt on a page can be saved.                             *)
LEMMA PromptRowIs ==
  ASSUME NEW c, NEW next \in Nat, NEW lead, NEW w,
         PromptRows(c, next, lead, w), RowsAgree(c, next, w),
         NEW i \in 1..w.prompt, w.prompt \in Nat, w.length \in Nat, w.prompt <= w.length,
         NEW item, item = RowItem(w.reuse, next, lead, w.views, i), item.page \in Nat
  PROVE  SavedRowIs(c.rows[i], item, next)
<1>1. i \in 1..w.length
  OBVIOUS
<1>2. c.rows[i] \in Rows
  BY <1>1 DEF RowsAgree
<1>3. ItemOf(c.rows[i]) = item /\ (c.rows[i].page >= next => c.rows[i].token = c.rows[i].at)
  BY DEF PromptRows
<1>4. Agrees(c.rows[i], c.coords[i], next, next - w.reuse)
  BY <1>1 DEF RowsAgree
<1>5. c.rows[i].page = item.page
  BY <1>3 DEF ItemOf, Item
<1>6. item.page # NoPage
  BY DEF NoPage
<1>7. c.rows[i].parity = (c.rows[i].page + 1) % 2
  BY <1>4, <1>5, <1>6 DEF Agrees
<1> QED BY <1>2, <1>3, <1>7 DEF SavedRowIs

(* The rows saved are those of the next window's start and the newest      *)
(* text.                                                                   *)
LEMMA RowsRetained ==
  ASSUME Retains, NEW lead \in Nat, NEW next \in Nat, NEW owned \in Nat, NEW k \in Nat,
         NEW t \in Nat, NEW n \in Nat, NEW text \in Nat, NEW from \in Nat,
         TailIs(lead, next, owned, k, t, n, text, from)
  PROVE  RowsHold(Retained, k + 1 + PageRows, text, next + owned, k + 1)
<1> DEFINE m == k + PageRows
           rows == cache.rows
           head == HeadPiece(rows, rows[ScannedMarker], t, m)
           tail == SubSeq(rows, from + 1, from + text)
<1>1. /\ PromptHolds(cache, next, lead, win) /\ RowsAgree(cache, next, win)
      /\ PromptRows(cache, next, lead, win) /\ GeneratedRows(cache, next, win)
      /\ TypeOK /\ LayoutInv /\ ProgressInv
  BY DEF Retains, TailIs, CacheHolds
<1>2. /\ PageRows \in Nat \ {0} /\ PageRows = ImageRows + 1 /\ ImageRows \in Nat \ {0}
  BY Positive DEF PageRows
<1>3. PICK reuse, views : reuse = win.reuse /\ views = win.views
  OBVIOUS
<1>4. /\ Shape(reuse, next, lead, views) /\ n >= PagesEnd(lead, views)
      /\ rows \in Seq(Rows) /\ Len(rows) = win.length
  BY <1>1, <1>3 DEF PromptHolds, RowsAgree, TailIs
<1>5. /\ k < PageRows /\ k # 0 /\ lead + owned * PageRows - k = t /\ t + m <= n
      /\ owned # 0 /\ owned < views /\ RetainedPrefix - 1 = m /\ t = TailStart
      /\ next = doc.next /\ owned = doc.owned /\ n = win.prompt /\ lead = Lead
      /\ from + text <= win.length /\ n <= win.length /\ text = RetainedText
      /\ from = GeneratedFrom + TextStart /\ from = win.prompt + win.saved + TextStart
      /\ win.marker <= TextStart /\ TextStart + text = win.count
  BY <1>3 DEF TailIs
<1>6. /\ win.length \in Nat /\ win.saved \in Nat /\ win.count \in Nat /\ win.marker \in Nat
      /\ m \in Nat
  BY <1>1, <1>2 DEF TypeOK
<1>7. Retained.rows = head \o tail
  BY <1>5 DEF Retained, HeadPiece
<1> HIDE DEF m, rows
<1>8. PICK marker : marker = ScannedMarker /\ marker = RowOf(lead, owned - 1, 0)
  <2>1. ScanIs
    BY <1>1, <1>5, ScanFinds
  <2> QED BY <1>5, <2>1 DEF ScanIs
<1>9. /\ marker \in 1..n
        /\ RowItem(reuse, next, lead, views, marker) = Item(PAGE, next + owned - 1, 0)
  <2>1. PICK nth \in Nat, z \in 0..ImageRows : nth = owned - 1 /\ nth < views /\ z = 0
    <3>1. owned # 0 /\ owned < views /\ views \in Nat
      BY <1>4, <1>5 DEF Shape
    <3>2. owned - 1 \in Nat /\ owned - 1 < views /\ 0 \in 0..ImageRows
      BY <1>2, <3>1
    <3> QED BY <3>2
  <2>2. PageRowIs(reuse, next, lead, views, nth, z)
    BY <1>4, <2>1, PageRow
  <2>3. /\ marker \in Nat /\ marker > lead /\ marker <= PagesEnd(lead, views)
        /\ RowItem(reuse, next, lead, views, marker) = PageItem(next + nth, z)
    BY <1>8, <2>1, <2>2 DEF PageRowIs
  <2>4. PageItem(next + nth, z) = Item(PAGE, next + nth, 0) /\ next + nth = next + owned - 1
    BY <2>1 DEF PageItem
  <2>5. PagesEnd(lead, views) \in Nat
    BY <1>4, PlaceLast DEF Shape
  <2>6. marker \in 1..n
    BY <1>4, <2>3, <2>5
  <2> QED BY <2>3, <2>4, <2>6
<1>10. SavedRowIs(rows[marker], Item(PAGE, next + owned - 1, 0), next)
  <2>1. PICK item : item = Item(PAGE, next + owned - 1, 0)
    OBVIOUS
  <2>2. item.page \in Nat
    BY <1>5, <2>1 DEF Item
  <2>3. marker \in 1..win.prompt /\ win.prompt \in Nat /\ win.prompt <= win.length
    BY <1>5, <1>9
  <2>4. item = RowItem(win.reuse, next, lead, win.views, marker)
    BY <1>3, <1>9, <2>1
  <2>5. SavedRowIs(cache.rows[marker], item, next)
    BY <1>1, <1>6, <2>2, <2>3, <2>4, PromptRowIs
  <2> QED BY <2>1, <2>5 DEF rows
<1>11. /\ head \in Seq(Rows) /\ Len(head) = m + 1 /\ head[1] = rows[marker]
       /\ \A i \in 1..m : head[i + 1] = rows[t + i]
  <2>1. rows[marker] \in Rows
    BY <1>10 DEF SavedRowIs
  <2>2. PICK s \in Seq(Rows), x \in Rows : s = rows /\ x = rows[marker] /\ t + m <= Len(s)
    <3>1. t + m <= n /\ n <= win.length
      BY <1>5
    <3>2. t + m <= Len(rows)
      BY <1>4, <1>6, <3>1
    <3> QED BY <1>4, <2>1, <3>2
  <2>3. HeadIs(Rows, s, x, t, m)
    BY <1>6, <2>2, HeadPieceIs
  <2> QED BY <1>8, <2>2, <2>3 DEF HeadIs
<1>12. /\ tail \in Seq(Rows) /\ Len(tail) = text /\ \A i \in 1..text : tail[i] = rows[from + i]
  <2>1. from + text <= Len(rows)
    BY <1>4, <1>5
  <2>2. Piece(Rows, rows, from, text)
    BY <1>4, <2>1, PieceOf
  <2> QED BY <2>2 DEF Piece
<1> HIDE DEF head, tail
<1>13. PICK p \in Nat : p = m + 1 /\ p = k + 1 + PageRows
  BY <1>2, <1>6 DEF m
<1>14. Joined(Rows, head, tail, p, text)
  BY <1>11, <1>12, <1>13, ConcatIs
<1>15. PICK s : s = head \o tail
  OBVIOUS
<1>16. /\ s \in Seq(Rows) /\ Len(s) = p + text
       /\ (\A i \in 1..p : s[i] = head[i]) /\ (\A i \in 1..text : s[p + i] = rows[from + i])
  BY <1>12, <1>14, <1>15 DEF Joined
<1>17. ASSUME NEW i \in 1..p
       PROVE  /\ ItemOf(s[i]) = RowItem(1, next + owned, k + 1, 1, i)
              /\ s[i].parity = (s[i].page + 1) % 2
              /\ i > k + 1 => s[i].token = s[i].at
  <2>1. CASE i = 1
    <3>1. 1 <= k + 1 /\ ~(1 > k + 1)
      BY <1>5
    <3>2. RowItem(1, next + owned, k + 1, 1, 1) = Item(PAGE, next + owned - 1, 0)
      BY <3>1 DEF RowItem
    <3>3. s[i] = rows[marker]
      BY <1>11, <1>16, <2>1
    <3> QED BY <1>10, <2>1, <3>1, <3>2, <3>3 DEF SavedRowIs
  <2>2. CASE i # 1
    <3>1. PICK j \in 1..m : i = j + 1
      <4>1. i - 1 \in 1..m /\ i = (i - 1) + 1
        BY <1>6, <1>13, <2>2
      <4> QED BY <4>1
    <3>2. TailRowIs(reuse, next, lead, views, owned, k, j)
      BY <1>4, <1>5, TailRow DEF m
    <3>3. PICK item : item = RowItem(reuse, next, lead, views, t + j)
      OBVIOUS
    <3>4. item = RowItem(1, next + owned, k + 1, 1, i) /\ item.page >= next /\ item.page \in Nat
      BY <1>5, <3>1, <3>2, <3>3 DEF TailRowIs
    <3>5. t + j \in 1..win.prompt /\ win.prompt \in Nat /\ win.prompt <= win.length
      BY <1>5, <1>6
    <3>6. item = RowItem(win.reuse, next, lead, win.views, t + j)
      BY <1>3, <3>3
    <3>7. SavedRowIs(cache.rows[t + j], item, next)
      BY <1>1, <1>6, <3>4, <3>5, <3>6, PromptRowIs
    <3>8. s[i] = rows[t + j]
      <4>1. s[i] = head[i]
        BY <1>16
      <4> QED BY <1>11, <3>1, <4>1
    <3>9. ItemOf(s[i]) = item /\ s[i].parity = (s[i].page + 1) % 2
            /\ (s[i].page >= next => s[i].token = s[i].at)
      BY <3>7, <3>8 DEF SavedRowIs, rows
    <3>10. s[i].page = item.page
      BY <3>9 DEF ItemOf, Item
    <3> QED BY <3>4, <3>9, <3>10
  <2> QED BY <2>1, <2>2
<1>18. ASSUME NEW i \in 1..text
       PROVE  /\ s[p + i].tok = TEXT /\ s[p + i].page = (next + owned) - 1
              /\ s[p + i].at = TextStart + i - win.marker
              /\ s[p + i].parity = (next + owned) % 2
  <2>1. PICK j \in Nat : j = TextStart + i /\ j \in (win.marker + 1)..win.count
    <3>1. TextStart \in Nat
      BY <1>3, <1>6, Positive DEF TextStart
    <3>2. TextStart + i \in Nat /\ TextStart + i \in (win.marker + 1)..win.count
      BY <1>5, <1>6, <3>1
    <3> QED BY <3>2
  <2>2. s[p + i] = cache.rows[win.prompt + win.saved + j]
    <3>0. from = win.prompt + win.saved + TextStart /\ j = TextStart + i /\ n = win.prompt
      BY <1>5, <2>1
    <3>a. TextStart \in Nat
      BY <1>6, Positive DEF TextStart
    <3>1. from + i = win.prompt + win.saved + j
      BY <1>6, <3>0, <3>a
    <3> QED BY <1>16, <3>1 DEF rows
  <2>3. PageWritten(win.guard.markers, next) = next + owned - 1
    <3>1. win.guard.markers = owned
      BY <1>5 DEF Retains
    <3> QED BY <1>5, <3>1 DEF PageWritten
  <2>4. TextRow(s[p + i], next + owned - 1, j - win.marker)
    BY <1>1, <2>1, <2>2, <2>3 DEF GeneratedRows
  <2>5. from + i \in 1..win.length
    BY <1>5, <1>6
  <2>6. Agrees(s[p + i], cache.coords[from + i], next, next - win.reuse)
    <3>1. Agrees(cache.rows[from + i], cache.coords[from + i], next, next - win.reuse)
      BY <1>1, <2>5 DEF RowsAgree
    <3> QED BY <1>16, <3>1 DEF rows
  <2>7. next + owned - 1 # NoPage /\ (next + owned - 1) + 1 = next + owned
    BY <1>5 DEF NoPage
  <2>8. s[p + i].parity = (next + owned) % 2
    BY <2>4, <2>6, <2>7 DEF Agrees, TextRow
  <2>9. s[p + i].at = TextStart + i - win.marker
    <3>1. s[p + i].at = j - win.marker
      BY <2>4 DEF TextRow
    <3>2. TextStart \in Nat /\ win.marker \in Nat /\ j = TextStart + i
      BY <1>6, <2>1, Positive DEF TextStart
    <3>3. j - win.marker = TextStart + i - win.marker
      BY <3>2
    <3> QED BY <3>1, <3>3
  <2>10. s[p + i].tok = TEXT /\ s[p + i].page = (next + owned) - 1
    BY <2>4 DEF TextRow
  <2> QED BY <2>8, <2>9, <2>10
<1>19. ASSUME NEW i \in 1..text
       PROVE  s[p + i].at = s[p + 1].at + i - 1
  <2>1. 1 \in 1..text
    OBVIOUS
  <2>2. s[p + 1].at = TextStart + 1 - win.marker /\ s[p + i].at = TextStart + i - win.marker
    BY <1>18, <2>1
  <2>3. TextStart \in Nat /\ win.marker \in Nat
    BY <1>6, Positive DEF TextStart
  <2> QED BY <2>2, <2>3
<1> QED BY <1>7, <1>13, <1>15, <1>16, <1>17, <1>18, <1>19 DEF RowsHold

-----------------------------------------------------------------------------
(* The inductive invariant and the steps that keep it.                     *)

(* The window being decoded: its cache holds its rows, and it has room.    *)
WindowHolds ==
  /\ ~doc.finished
  /\ Capacity <= MaxPositions
  /\ CacheHolds(cache, doc.next, Lead, win, Markers(win))
  /\ win.guard.length = win.count - win.marker
  /\ win.guard.markers >= win.reuse

(* The invariant: what is saved belongs to the document, and the cache     *)
(* being decoded holds the rows of its window.                             *)
CacheInv ==
  /\ SavedHolds
  /\ ~doc.open => doc.prefix = 0
  /\ win.decoding => WindowHolds

(* A token that is emitted and fed is the next row of the window.          *)
LEMMA EmitKeepsRows ==
  ASSUME SessionInv, CacheInv, win.decoding, NEW token \in WindowFilter,
         TurnOutcome(token) = "running", EmitToken(token),
         cache' = Compute(cache, GeneratedItem(token), TRUE), saved' = saved
  PROVE  CacheInv'
<1>1. /\ TypeOK /\ DocInv /\ FailureEndsSession /\ LayoutInv /\ ProgressInv /\ active
      /\ WindowHolds /\ SavedHolds
  BY DEF SessionInv, CacheInv
<1>2. doc.cap # 0
  BY <1>1 DEF FailureEndsSession, DocInv
<1>3. /\ token \in {PAGE, EOS, TEXT}
      /\ token = PAGE /\ ~StopsOnMarker(token) => win.guard.markers < doc.owned
  BY <1>1, <1>2, SelectableTokens
<1>4. ~Completes(token) /\ token # EOS /\ win.count # win.maxNew /\ win.length # Capacity
  <2>1. CASE Completes(token)
    BY <2>1, TurnOutcome(token) = "running" DEF TurnOutcome
  <2>2. CASE ~Completes(token) /\ token = EOS
    BY <2>2, TurnOutcome(token) = "running" DEF TurnOutcome
  <2>3. CASE ~Completes(token) /\ token # EOS
    BY <2>3, TurnOutcome(token) = "running" DEF TurnOutcome
  <2> QED BY <2>1, <2>2, <2>3
<1>5. PICK tok \in {PAGE, TEXT} : tok = token
  BY <1>3, <1>4
<1>6. PICK g, h : g = win.guard /\ h = GuardAccept(g, token)
  OBVIOUS
<1>7. /\ win.views \in Nat /\ win.reuse \in {0, 1} /\ win.prompt \in Nat /\ win.saved \in Nat
      /\ win.length \in Nat /\ win.count \in Nat /\ win.marker \in Nat /\ win.maxNew \in Nat
      /\ g \in [expected : Nat, cap : Nat, markers : Nat, length : Nat]
      /\ doc.owned \in Nat /\ doc.look \in {0, 1} /\ doc.next \in Nat
  BY <1>1, <1>6 DEF TypeOK, Guards
<1>8. /\ tok = PAGE => h.markers = g.markers + 1 /\ h.length = 0
      /\ tok = TEXT => h.markers = g.markers /\ h.length = g.length + 1
  <2>1. CASE tok = PAGE
    <3>1. h = [g EXCEPT !.markers = g.markers + 1, !.length = 0]
      BY <1>5, <1>6, <2>1 DEF GuardAccept
    <3> QED BY <1>7, <2>1, <3>1, KindsDiffer
  <2>2. CASE tok = TEXT
    <3>1. h = [g EXCEPT !.length = g.length + 1]
      BY <1>5, <1>6, <2>2, KindsDiffer DEF GuardAccept
    <3> QED BY <1>7, <2>2, <3>1, KindsDiffer
  <2> QED BY <2>1, <2>2
<1>9. /\ doc' = doc
      /\ win' = [win EXCEPT !.count = @ + 1, !.length = @ + 1,
                            !.marker = IF token = PAGE THEN win.count + 1 ELSE @,
                            !.guard = GuardAccept(@, token)]
  BY DEF EmitToken
<1>10. /\ win'.decoding = win.decoding /\ win'.views = win.views /\ win'.maxNew = win.maxNew
       /\ win'.reuse = win.reuse /\ win'.prompt = win.prompt /\ win'.saved = win.saved
       /\ win'.length = win.length + 1 /\ win'.count = win.count + 1
       /\ win'.marker = (IF tok = PAGE THEN win.count + 1 ELSE win.marker)
       /\ win'.guard = h
  BY <1>1, <1>5, <1>6, <1>9 DEF TypeOK
<1>11. PICK after \in Nat : after = h.markers
  <2>1. g.markers \in Nat
    BY <1>7
  <2> QED BY <1>8, <2>1
<1>12. /\ after = g.markers + (IF tok = PAGE THEN 1 ELSE 0)
       /\ after >= win.reuse /\ after <= win.views /\ g.markers \in Nat
  <2>1. g.markers \in Nat /\ g.markers <= doc.owned /\ g.markers >= win.reuse
        /\ win.views = doc.owned + doc.look
    BY <1>1, <1>6, <1>7 DEF ProgressInv, LayoutInv, WindowHolds
  <2>2. tok = PAGE => g.markers < doc.owned
    <3>1. ASSUME token = PAGE, StopsOnMarker(token) PROVE FALSE
      BY <1>4, <3>1 DEF Completes, StopsOnMarker
    <3> QED BY <1>3, <1>5, <1>6, <3>1
  <2>3. CASE tok = PAGE
    BY <1>7, <1>8, <1>11, <2>1, <2>2, <2>3
  <2>4. CASE tok # PAGE
    BY <1>7, <1>8, <1>11, <2>1, <2>4
  <2> QED BY <2>3, <2>4
<1>13. PICK after0 \in Nat : after0 = g.markers
  BY <1>12
<1>14. win.length < MaxPositions
  <2>1. Capacity = win.prompt + win.saved + win.maxNew
    BY DEF Capacity
  <2>2. win.length = win.prompt + win.saved + win.count /\ win.count <= win.maxNew
    BY <1>1 DEF LayoutInv, ProgressInv
  <2>3. win.length < Capacity
    BY <1>4, <1>7, <2>1, <2>2
  <2>4. Capacity <= MaxPositions /\ MaxPositions \in Nat /\ Capacity \in Nat
    BY <1>1, <1>7, <2>1, Positive DEF WindowHolds
  <2> QED BY <1>7, <2>3, <2>4
<1>15. Counts(win)
  <2>1. win.views # 0
    BY <1>1, <1>7 DEF LayoutInv, ProgressInv
  <2> QED BY <1>1, <1>7, <2>1 DEF Counts, LayoutInv, ProgressInv
<1>a. PICK next \in Nat : next = doc.next
  BY <1>7
<1>16. PICK lead, w, v : next = doc.next /\ lead = Lead /\ w = win /\ v = win'
  BY <1>a
<1>17. OneMore(w, v, tok, after)
  <2>1. tok = TEXT => after = w.guard.markers
    BY <1>6, <1>8, <1>11, <1>16
  <2>2. v.guard.markers = after
    BY <1>10, <1>11, <1>16
  <2> QED BY <1>10, <1>16, <2>1, <2>2 DEF OneMore
<1>18. GeneratedItem(token) = Written(w, next, tok, after)
  <2>1. GeneratedItem(token) = Item(tok, PageWritten(after, next), h.length)
    BY <1>5, <1>6, <1>11, <1>16 DEF GeneratedItem, PageWritten
  <2>2. h.length = (IF tok = PAGE THEN 0 ELSE win.count + 1 - win.marker)
    <3>1. g.length = win.count - win.marker /\ g.length \in Nat
      BY <1>1, <1>6, <1>7 DEF WindowHolds
    <3>2. win.count - win.marker + 1 = win.count + 1 - win.marker
      BY <1>7
    <3> QED BY <1>8, <3>1, <3>2, KindsDiffer
  <2> QED BY <1>16, <2>1, <2>2 DEF Written
<1>19. w.guard.markers \in Nat /\ w.length < MaxPositions /\ Counts(w)
       /\ after = w.guard.markers + (IF tok = PAGE THEN 1 ELSE 0)
       /\ after >= w.reuse /\ after <= w.views
  BY <1>6, <1>12, <1>14, <1>15, <1>16
<1>20. CacheHolds(cache, next, lead, w, w.views + w.reuse + w.reuse + w.guard.markers)
  BY <1>1, <1>16 DEF WindowHolds, Markers
<1>21. CacheHolds(Compute(cache, Written(w, next, tok, after), TRUE), next, lead, v,
                  w.views + w.reuse + w.reuse + after)
  BY <1>17, <1>19, <1>20, EmitHolds
<1>22. Markers(v) = w.views + w.reuse + w.reuse + after
  BY <1>10, <1>11, <1>16 DEF Markers
<1>23. CacheHolds(cache', next, lead, v, Markers(v))
  BY <1>18, <1>21, <1>22
<1>24. Lead' = Lead /\ Capacity' = Capacity
  BY <1>9, <1>10 DEF Lead, Capacity
<1>25. /\ v.guard.length = v.count - v.marker /\ v.guard.markers >= v.reuse
  <2>1. v.guard.length = v.count - v.marker
    <3>1. g.length = win.count - win.marker /\ g.length \in Nat
      BY <1>1, <1>6, <1>7 DEF WindowHolds
    <3>2. v.guard.length = h.length /\ v.count = win.count + 1
          /\ v.marker = (IF tok = PAGE THEN win.count + 1 ELSE win.marker)
      BY <1>10, <1>16
    <3>3. CASE tok = PAGE
      BY <1>7, <1>8, <3>2, <3>3
    <3>4. CASE tok = TEXT
      BY <1>7, <1>8, <3>1, <3>2, <3>4, KindsDiffer
    <3> QED BY <3>3, <3>4
  <2> QED BY <1>10, <1>11, <1>12, <1>16, <2>1
<1>26. WindowHolds'
  <2>1. CacheHolds(cache, doc.next, Lead, win, Markers(win))'
    BY <1>9, <1>16, <1>23, <1>24
  <2> QED BY <1>1, <1>9, <1>16, <1>24, <1>25, <2>1 DEF WindowHolds
<1>27. SavedHolds'
  BY <1>1, <1>9, <1>24 DEF SavedHolds
<1> QED BY <1>9, <1>26, <1>27 DEF CacheInv

(* A completed window that is followed by a page saves its tail.           *)
LEMMA CompleteKeepsRows ==
  ASSUME SessionInv, CacheInv, win.decoding, NEW token \in WindowFilter,
         TurnOutcome(token) = "ok", CompleteWindow,
         saved' = (IF doc.look = 1 THEN Retained ELSE saved)
  PROVE  CacheInv'
<1>1. /\ TypeOK /\ DocInv /\ FailureEndsSession /\ LayoutInv /\ ProgressInv /\ active
      /\ WindowHolds
  BY DEF SessionInv, CacheInv
<1>2. Completes(token)
  <2>1. CASE ~Completes(token) /\ token = EOS
    BY <2>1, TurnOutcome(token) = "ok" DEF TurnOutcome
  <2>2. CASE ~Completes(token) /\ token # EOS
    BY <2>2, TurnOutcome(token) = "ok" DEF TurnOutcome
  <2> QED BY <2>1, <2>2
<1>3. /\ doc' = [doc EXCEPT !.next = @ + doc.owned, !.pending = FALSE,
                            !.finished = doc.look = 0,
                            !.prefix = IF doc.look = 1 THEN RetainedPrefix ELSE @,
                            !.text = IF doc.look = 1 THEN RetainedText ELSE @]
      /\ win' = NoWindow
  BY DEF CompleteWindow
<1>4. /\ doc'.open = doc.open /\ doc'.next = doc.next + doc.owned
      /\ doc'.finished = (doc.look = 0)
      /\ doc.look = 1 => doc'.prefix = RetainedPrefix /\ doc'.text = RetainedText
  BY <1>1, <1>3 DEF TypeOK
<1>5. win'.decoding = FALSE /\ doc.open /\ doc.look \in {0, 1}
  BY <1>1, <1>3 DEF NoWindow, FailureEndsSession, TypeOK
<1>6. CASE doc.look = 0
  <2>1. doc'.finished
    BY <1>4, <1>6
  <2>2. SavedHolds'
    BY <2>1 DEF SavedHolds
  <2> QED BY <1>4, <1>5, <2>2 DEF CacheInv
<1>7. CASE doc.look = 1
  <2>1. Retains
    BY <1>1, <1>2, <1>7 DEF Retains, WindowHolds, Completes
  <2>2. PICK lead \in Nat, next \in Nat, owned \in Nat, k \in Nat, t \in Nat, n \in Nat,
             text \in Nat, from \in Nat : TailIs(lead, next, owned, k, t, n, text, from)
    BY <2>1, TailNumbers
  <2>3. PrefixHolds(Retained, k + 1 + PageRows, next + owned, k + 1)
    BY <2>1, <2>2, PrefixRetained
  <2>4. RowsHold(Retained, k + 1 + PageRows, text, next + owned, k + 1)
    BY <2>1, <2>2, RowsRetained
  <2>5. /\ RetainedPrefix - 1 = k + PageRows /\ RetainedPrefix \in Nat /\ text = RetainedText
        /\ next = doc.next /\ owned = doc.owned /\ PageRows \in Nat \ {0}
    BY <1>1, <1>7, <2>2, RetainedTail, Positive DEF TailIs
  <2>6. RetainedPrefix = k + 1 + PageRows
    BY <2>5
  <2>7. doc'.prefix = k + 1 + PageRows /\ doc'.text = text /\ doc'.next = next + owned
    BY <1>4, <1>7, <2>5, <2>6
  <2>8. Lead' = k + 1
    <3>1. doc'.prefix # 0 /\ doc'.prefix - PageRows = k + 1
      BY <2>5, <2>7
    <3> QED BY <3>1 DEF Lead
  <2>9. saved' = Retained
    BY <1>7
  <2>10. PrefixHolds(saved', doc'.prefix, doc'.next, Lead')
         /\ RowsHold(saved', doc'.prefix, doc'.text, doc'.next, Lead')
    BY <2>3, <2>4, <2>7, <2>8, <2>9
  <2>11. SavedHolds'
    BY <2>10 DEF SavedHolds
  <2> QED BY <1>4, <1>5, <2>11 DEF CacheInv
<1> QED BY <1>5, <1>6, <1>7

(* Whatever drops the document drops its rows.                             *)
LEMMA DroppedRows ==
  ASSUME doc' = NoDocument, ~win'.decoding PROVE CacheInv'
<1>1. doc'.prefix = 0
  BY DEF NoDocument
<1> QED BY <1>1 DEF CacheInv, SavedHolds

(* A window starts from the rows saved by the last one.                    *)
LEMMA WindowKeepsRows ==
  ASSUME SessionInv, CacheInv, NEW first, NEW owned \in Nat, NEW look \in {0, 1},
         NEW r \in RequestRecords, CacheWindow(first, owned, look, r)
  PROVE  CacheInv'
<1>1. TypeOK /\ DocInv /\ FailureEndsSession /\ SavedHolds /\ (~doc.open => doc.prefix = 0)
  BY DEF SessionInv, CacheInv
<1>2. /\ ~win.decoding
      /\ cache' = IF win'.decoding THEN PrefilledCache(r) ELSE NoCache
      /\ saved' = IF doc'.open THEN saved ELSE NoSaved
      /\ GenerateWindow(first, owned, look, r)
  BY DEF CacheWindow, GenerateWindow
<1>3. CASE StartWindow(first, owned, look, r)
  <2>1. /\ active /\ WindowAdmitted(first, owned, look, r)
        /\ doc' = [doc EXCEPT !.owned = owned, !.look = look, !.pending = TRUE]
        /\ win' = Prefilled(owned, r)
    BY <1>3 DEF StartWindow
  <2>2. /\ doc'.open = doc.open /\ doc'.next = doc.next /\ doc'.finished = doc.finished
        /\ doc'.prefix = doc.prefix /\ doc'.text = doc.text /\ doc.open
    BY <1>1, <2>1 DEF TypeOK, FailureEndsSession
  <2>3. ~doc.finished /\ ContextIsValid(r)
    BY <2>1 DEF WindowAdmitted, SetWindowIsValid
  <2>4. r.maxNew # 0
    BY <2>1 DEF WindowAdmitted, WindowIsValid
  <2>5. CacheHolds(PrefilledCache(r), doc.next, Lead, Prefilled(owned, r),
                   Markers(Prefilled(owned, r)))
    BY <1>1, <2>3, <2>4, PrefilledHolds
  <2>6. PICK v : v = Prefilled(owned, r)
    OBVIOUS
  <2>7. /\ v.decoding /\ v.reuse = Reuse /\ v.prompt = PromptCount(r) /\ v.saved = SavedText
        /\ v.maxNew = r.maxNew /\ v.count = Reuse /\ v.marker = Reuse
        /\ v.guard.length = 0 /\ v.guard.markers = Reuse
    BY <2>6 DEF Prefilled
  <2>8. Reuse \in {0, 1}
    BY DEF Reuse
  <2>9. v.guard.length = v.count - v.marker /\ v.guard.markers >= v.reuse
    BY <2>7, <2>8
  <2>10. Lead' = Lead /\ Capacity' = PromptCount(r) + SavedText + r.maxNew
    BY <2>1, <2>2, <2>6, <2>7 DEF Lead, Capacity
  <2>11. cache' = PrefilledCache(r) /\ saved' = saved
    BY <1>2, <2>1, <2>2, <2>6, <2>7
  <2>12. Capacity' <= MaxPositions
    BY <2>3, <2>10 DEF ContextIsValid
  <2>13. WindowHolds'
    <3>1. CacheHolds(cache, doc.next, Lead, win, Markers(win))'
      BY <2>1, <2>2, <2>5, <2>10, <2>11
    <3>2. win'.guard.length = win'.count - win'.marker /\ win'.guard.markers >= win'.reuse
      BY <2>1, <2>6, <2>9
    <3> QED BY <2>2, <2>3, <2>12, <3>1, <3>2 DEF WindowHolds
  <2>14. SavedHolds'
    BY <1>1, <2>2, <2>10, <2>11 DEF SavedHolds
  <2> QED BY <1>1, <2>2, <2>13, <2>14 DEF CacheInv
<1>4. CASE RejectWindow(first, owned, look, r)
  <2>1. doc' = NoDocument /\ win' = NoWindow
    BY <1>4 DEF RejectWindow, WindowFails
  <2> QED BY <2>1, DroppedRows DEF NoWindow
<1>5. CASE RefuseWindow
  <2>1. ~active /\ doc' = doc /\ win' = win
    BY <1>5 DEF RefuseWindow
  <2>2. doc'.prefix = 0 /\ ~win'.decoding
    BY <1>1, <1>2, <2>1 DEF FailureEndsSession
  <2> QED BY <2>2 DEF CacheInv, SavedHolds
<1> QED BY <1>2, <1>3, <1>4, <1>5 DEF GenerateWindow

(* A decode step, on each of its outcomes.                                 *)
LEMMA DecodeKeepsRows ==
  ASSUME SessionInv, CacheInv, CacheDecode \/ CacheFault
  PROVE  CacheInv'
<1>1. CASE CacheFault
  <2>1. doc' = NoDocument /\ win' = NoWindow
    BY <1>1 DEF CacheFault, DecodeFault, WindowFails
  <2> QED BY <2>1, DroppedRows DEF NoWindow
<1>2. CASE CacheDecode
  <2>1. win.decoding
    BY <1>2 DEF CacheDecode
  <2>2. PICK token \in WindowFilter :
       \/ /\ TurnOutcome(token) = "ok" /\ CompleteWindow
          /\ saved' = IF doc.look = 1 THEN Retained ELSE saved
       \/ /\ TurnOutcome(token) = "running" /\ EmitToken(token)
          /\ cache' = Compute(cache, GeneratedItem(token), TRUE)
          /\ saved' = saved
       \/ WindowFails(TurnOutcome(token))
    BY <1>2 DEF CacheDecode
  <2>3. CASE /\ TurnOutcome(token) = "ok" /\ CompleteWindow
             /\ saved' = IF doc.look = 1 THEN Retained ELSE saved
    BY <2>1, <2>3, CompleteKeepsRows
  <2>4. CASE /\ TurnOutcome(token) = "running" /\ EmitToken(token)
             /\ cache' = Compute(cache, GeneratedItem(token), TRUE)
             /\ saved' = saved
    BY <2>1, <2>4, EmitKeepsRows
  <2>5. CASE WindowFails(TurnOutcome(token))
    <3>1. doc' = NoDocument /\ win' = NoWindow
      BY <2>5 DEF WindowFails
    <3> QED BY <3>1, DroppedRows DEF NoWindow
  <2> QED BY <2>2, <2>3, <2>4, <2>5
<1> QED BY <1>1, <1>2

(* The calls that start no window.                                         *)
LEMMA CallsKeepRows ==
  ASSUME SessionInv, CacheInv,
         (\E cap \in PageCaps : CacheBegin(cap)) \/ CacheEnd \/ CacheGenerate
  PROVE  CacheInv'
<1>1. SavedHolds /\ (~doc.open => doc.prefix = 0)
  BY DEF CacheInv
<1>2. CASE \E cap \in PageCaps : CacheBegin(cap)
  <2>1. PICK cap \in PageCaps : CacheBegin(cap)
    BY <1>2
  <2>2. ~win'.decoding /\ saved' = saved
    BY <2>1 DEF CacheBegin, DocumentBegin
  <2>3. CASE doc' = doc
    <3>1. Lead' = Lead
      BY <2>3 DEF Lead
    <3> QED BY <1>1, <2>2, <2>3, <3>1 DEF CacheInv, SavedHolds
  <2>4. CASE doc' = [NoDocument EXCEPT !.open = TRUE, !.cap = cap]
    <3>1. doc'.prefix = 0
      BY <2>4 DEF NoDocument
    <3> QED BY <2>2, <3>1 DEF CacheInv, SavedHolds
  <2> QED BY <2>1, <2>3, <2>4 DEF CacheBegin, DocumentBegin
<1>3. CASE CacheEnd
  <2>1. doc' = NoDocument /\ ~win'.decoding
    BY <1>3 DEF CacheEnd, DocumentEnd
  <2> QED BY <2>1, DroppedRows
<1>4. CASE CacheGenerate
  <2>1. doc' = doc /\ ~win'.decoding /\ saved' = saved
    BY <1>4 DEF CacheGenerate, GeneratePrepared
  <2>2. Lead' = Lead
    BY <2>1 DEF Lead
  <2> QED BY <1>1, <2>1, <2>2 DEF CacheInv, SavedHolds
<1> QED BY <1>2, <1>3, <1>4

(* The rows change under the control of the session: every step of the     *)
(* cache is a step of the session, or leaves it as it is.                  *)
THEOREM CacheFollowsSession == CacheSpec => SessionSpec
<1>1. CacheInit => SessionInit
  BY DEF CacheInit
<1>2. [CacheNext]_cacheVars => [SessionNext]_sessionVars
  <2> SUFFICES ASSUME [CacheNext]_cacheVars PROVE [SessionNext]_sessionVars
    OBVIOUS
  <2>1. CASE \E cap \in PageCaps : CacheBegin(cap)
    BY <2>1 DEF CacheBegin, SessionNext
  <2>2. CASE \E first \in FirstPages, owned \in OwnedPages, look \in {0, 1}, r \in Requests :
               CacheWindow(first, owned, look, r)
    BY <2>2 DEF CacheWindow, SessionNext
  <2>3. CASE CacheDecode
    <3>1. DecodeStep
      BY <2>3 DEF CacheDecode, DecodeStep
    <3> QED BY <3>1 DEF SessionNext
  <2>4. CASE CacheFault
    BY <2>4 DEF CacheFault, SessionNext
  <2>5. CASE CacheEnd
    BY <2>5 DEF CacheEnd, SessionNext
  <2>6. CASE CacheGenerate
    BY <2>6 DEF CacheGenerate, SessionNext
  <2>7. CASE UNCHANGED cacheVars
    BY <2>7 DEF cacheVars, sessionVars
  <2> QED BY <2>1, <2>2, <2>3, <2>4, <2>5, <2>6, <2>7 DEF CacheNext
<1> QED BY <1>1, <1>2, PTL DEF CacheSpec, SessionSpec

(* The invariant holds throughout.                                         *)
THEOREM CacheInvariantHolds == CacheSpec => [](SessionInv /\ CacheInv)
<1>1. CacheInit => CacheInv
  <2> SUFFICES ASSUME CacheInit PROVE CacheInv
    OBVIOUS
  <2>1. doc.prefix = 0 /\ win.decoding = FALSE
    BY DEF CacheInit, SessionInit, NoDocument, NoWindow
  <2> QED BY <2>1 DEF CacheInv, SavedHolds
<1>2. SessionInv /\ CacheInv /\ [CacheNext]_cacheVars => CacheInv'
  <2> SUFFICES ASSUME SessionInv, CacheInv, [CacheNext]_cacheVars PROVE CacheInv'
    OBVIOUS
  <2>1. CASE (\E cap \in PageCaps : CacheBegin(cap)) \/ CacheEnd \/ CacheGenerate
    BY <2>1, CallsKeepRows
  <2>2. CASE \E first \in FirstPages, owned \in OwnedPages, look \in {0, 1}, r \in Requests :
               CacheWindow(first, owned, look, r)
    BY <2>2, WindowKeepsRows, SessionInputs
  <2>3. CASE CacheDecode \/ CacheFault
    BY <2>3, DecodeKeepsRows
  <2>4. CASE UNCHANGED cacheVars
    <3>1. UNCHANGED <<doc, win, cache, saved>>
      BY <2>4 DEF cacheVars, sessionVars
    <3>2. Lead' = Lead /\ Capacity' = Capacity
      BY <3>1 DEF Lead, Capacity
    <3>3. SavedHolds'
      BY <3>1, <3>2 DEF CacheInv, SavedHolds
    <3>4. win.decoding => WindowHolds'
      BY <3>1, <3>2 DEF CacheInv, WindowHolds
    <3> QED BY <3>1, <3>3, <3>4 DEF CacheInv
  <2> QED BY <2>1, <2>2, <2>3, <2>4 DEF CacheNext
<1> QED BY <1>1, <1>2, CacheFollowsSession, InvariantHolds, PTL DEF CacheSpec

-----------------------------------------------------------------------------
(* The properties follow from the invariant.                               *)

(* Rows in place.                                                          *)
LEMMA InPlace == ASSUME SessionInv, CacheInv PROVE RowsInPlace
<1> SUFFICES ASSUME win.decoding PROVE RowsInPlace
  BY DEF RowsInPlace, LayoutAgrees, ReplaySucceeds, RopeConsistent
<1>1. /\ TypeOK /\ LayoutInv /\ ProgressInv
      /\ CacheHolds(cache, doc.next, Lead, win, Markers(win))
  BY DEF SessionInv, CacheInv, WindowHolds
<1>2. PromptHolds(cache, doc.next, Lead, win) /\ RowsAgree(cache, doc.next, win) /\ cache.ok
  BY <1>1 DEF CacheHolds
<1>3. LayoutAgrees
  <2>1. ScanIs
    BY <1>1, <1>2, ScanFinds
  <2>2. doc.look = 1 => ScannedEnd = TailEnd
    BY <2>1 DEF ScanIs
  <2>3. Len(cache.prompt) = win.prompt
    BY <1>2 DEF PromptHolds
  <2>4. Len(cache.rows) = win.length /\ Len(cache.coords) = win.length
    BY <1>2 DEF RowsAgree
  <2> QED BY <2>2, <2>3, <2>4 DEF LayoutAgrees
<1>4. RopeConsistent
  <2>1. DOMAIN cache.rows = 1..win.length
    BY <1>2 DEF RowsAgree
  <2>2. ASSUME NEW i \in DOMAIN cache.rows
        PROVE  /\ cache.rows[i].parity = cache.coords[i].page % 2
               /\ cache.rows[i].tok = IMAGE => cache.rows[i].parity = (cache.rows[i].page + 1) % 2
               /\ cache.rows[i].page >= doc.next => cache.rows[i].token = cache.coords[i].token
    <3>1. Agrees(cache.rows[i], cache.coords[i], doc.next, doc.next - win.reuse)
      BY <1>2, <2>1, <2>2 DEF RowsAgree
    <3> QED BY <3>1 DEF Agrees
  <2> QED BY <2>2 DEF RopeConsistent
<1> QED BY <1>2, <1>3, <1>4 DEF RowsInPlace, ReplaySucceeds

(* Queries routed to their page.                                           *)
LEMMA QueriesRouted == ASSUME SessionInv, CacheInv PROVE QueriesSeeTheirPage
<1> SUFFICES ASSUME win.decoding PROVE QueriesSeeTheirPage
  BY DEF QueriesSeeTheirPage
<1>1. /\ TypeOK /\ CacheHolds(cache, doc.next, Lead, win, Markers(win))
  BY DEF SessionInv, CacheInv, WindowHolds
<1>2. RowsAgree(cache, doc.next, win) /\ QueriesOf(cache, doc.next, win)
  BY <1>1 DEF CacheHolds
<1>3. DOMAIN cache.rows = 1..win.length /\ Len(cache.rows) = win.length
  BY <1>2 DEF RowsAgree
<1>4. PICK rows, coords, base : rows = cache.rows /\ coords = cache.coords
        /\ base = doc.next - win.reuse
  OBVIOUS
<1>5. base \in Int
  BY <1>1, <1>4 DEF TypeOK
<1>6. ASSUME NEW i \in (win.prompt + 1)..Len(rows), rows[i].page # NoPage,
             NEW j \in DOMAIN rows
      PROVE  coords[j].image = coords[i].query <=> rows[j].tok = IMAGE /\ rows[j].page = rows[i].page
  <2>1. i \in (win.prompt + 1)..win.length /\ j \in 1..win.length
    BY <1>3, <1>4
  <2>2. i \in 1..win.length
    <3>1. win.prompt \in Nat /\ win.length \in Nat
      BY <1>1 DEF TypeOK
    <3> QED BY <2>1, <3>1
  <2>3. rows[i] \in Rows /\ rows[j] \in Rows
    BY <1>2, <1>4, <2>1, <2>2 DEF RowsAgree
  <2>4. PICK p \in Int, q \in Int : p = rows[i].page /\ q = rows[j].page
    BY <2>3 DEF Rows
  <2>5. PICK query \in Nat : query = coords[i].query /\ query = p - base
    BY <1>2, <1>4, <1>6, <2>1, <2>4 DEF QueriesOf
  <2>6. Agrees(rows[j], coords[j], doc.next, base)
    BY <1>2, <1>4, <2>1 DEF RowsAgree
  <2>7. CASE rows[j].tok = IMAGE
    <3>1. coords[j].image = q - base
      BY <2>4, <2>6, <2>7 DEF Agrees
    <3>2. q - base = query <=> q = p
      BY <1>5, <2>5
    <3> QED BY <2>4, <2>5, <2>7, <3>1, <3>2
  <2>8. CASE rows[j].tok # IMAGE
    <3>1. coords[j].image = NoPage
      BY <2>6, <2>8 DEF Agrees
    <3>2. NoPage # query
      BY <2>5 DEF NoPage
    <3> QED BY <2>5, <2>8, <3>1, <3>2
  <2> QED BY <2>7, <2>8
<1>7. \A i \in (win.prompt + 1)..Len(rows) : rows[i].page # NoPage =>
        {j \in DOMAIN rows : coords[j].image = coords[i].query}
          = {j \in DOMAIN rows : rows[j].tok = IMAGE /\ rows[j].page = rows[i].page}
  BY <1>6
<1> QED BY <1>4, <1>7 DEF QueriesSeeTheirPage

(* Sequences with the same elements are the same.                          *)
LEMMA SameRows ==
  ASSUME NEW S, NEW s \in Seq(S), NEW t \in Seq(S), Len(s) = Len(t),
         \A i \in 1..Len(s) : s[i] = t[i]
  PROVE  s = t
OBVIOUS

(* The rows of one page.                                                   *)
LEMMA PageRowsAre ==
  ASSUME NEW page \in Int
  PROVE  /\ PageItems(page, 1) \in Seq(ItemSet) /\ Len(PageItems(page, 1)) = PageRows
         /\ \A i \in 1..PageRows : PageItems(page, 1)[i] = PageItem(page, i - 1)
<1>1. PageRows \in Nat \ {0} /\ 1 * PageRows = PageRows
  BY Positive
<1>2. PageItems(page, 1) \in Seq(ItemSet) /\ Len(PageItems(page, 1)) = PageRows
  BY <1>1, PageItemsAre
<1>3. ASSUME NEW i \in 1..PageRows PROVE PageItems(page, 1)[i] = PageItem(page, i - 1)
  <2>1. 1 \in Nat \ {0} /\ 0 \in Nat /\ i \in Nat /\ i > 0 /\ i <= PagesEnd(0, 1)
    BY <1>1 DEF PagesEnd
  <2>2. PageItems(page, 1)[i - 0] = PageItem(page + Nth(0, i), Place(0, i))
    BY <2>1, PageItemsAre
  <2>3. Nth(0, i) = 0 /\ Place(0, i) = i - 1
    <3>1. i - 1 \in Nat /\ i - 1 < PageRows /\ i - 0 - 1 = i - 1
      BY <1>1
    <3>2. (i - 1) \div PageRows = 0 /\ (i - 1) % PageRows = i - 1
      BY <1>1, <3>1
    <3> QED BY <3>1, <3>2 DEF Nth, Place
  <2> QED BY <2>2, <2>3
<1> QED BY <1>2, <1>3

(* The rows of a window as items of the document.                          *)
ItemsOf(rows) == [i \in 1..Len(rows) |-> ItemOf(rows[i])]

(* They are a sequence of items.                                           *)
LEMMA ItemsAre ==
  ASSUME NEW rows \in Seq(Rows)
  PROVE  /\ ItemsOf(rows) \in Seq(ItemSet) /\ Len(ItemsOf(rows)) = Len(rows)
         /\ \A i \in 1..Len(rows) : ItemsOf(rows)[i] = ItemOf(rows[i])
<1>1. ASSUME NEW i \in 1..Len(rows) PROVE ItemOf(rows[i]) \in ItemSet
  <2>1. rows[i] \in Rows
    OBVIOUS
  <2> QED BY <2>1 DEF ItemOf, Item, ItemSet, Rows
<1>2. Len(rows) \in Nat
  OBVIOUS
<1> QED BY <1>1, <1>2 DEF ItemsOf

(* The context is contiguous.                                              *)
LEMMA Contiguous == ASSUME SessionInv, CacheInv PROVE ContextIsContiguous
<1> SUFFICES ASSUME win.decoding PROVE ContextIsContiguous
  BY DEF ContextIsContiguous
<1>1. /\ TypeOK /\ DocInv /\ LayoutInv /\ CacheHolds(cache, doc.next, Lead, win, Markers(win))
  BY DEF SessionInv, CacheInv, WindowHolds
<1>2. /\ PromptHolds(cache, doc.next, Lead, win) /\ RowsAgree(cache, doc.next, win)
      /\ PromptRows(cache, doc.next, Lead, win) /\ SavedRows(cache, doc.next, win)
  BY <1>1 DEF CacheHolds
<1>3. PICK rows, next, lead, views, reuse, n, saved0, all :
        /\ rows = cache.rows /\ next = doc.next /\ lead = Lead /\ views = win.views
        /\ reuse = win.reuse /\ n = win.prompt /\ saved0 = win.saved /\ all = win.length
  OBVIOUS
<1>4. /\ Shape(reuse, next, lead, views) /\ n \in Nat /\ n >= PagesEnd(lead, views)
      /\ (reuse = 1 => n = PagesEnd(lead, views))
  BY <1>2, <1>3 DEF PromptHolds
<1>5. /\ reuse \in {0, 1} /\ next \in Nat /\ views \in Nat \ {0} /\ lead \in Nat \ {0}
      /\ lead <= PageRows /\ (reuse = 0 => lead = 1) /\ (reuse = 1 => lead # 1)
      /\ PageRows \in Nat \ {0} /\ PageRows = ImageRows + 1 /\ ImageRows \in Nat \ {0}
  BY <1>4, Positive DEF Shape, PageRows
<1>6. rows \in Seq(Rows) /\ Len(rows) = all /\ all \in Nat /\ saved0 \in Nat /\ n + saved0 <= all
  <2>1. win.length = win.prompt + win.saved + win.count /\ win.count \in Nat /\ win.saved \in Nat
        /\ win.length \in Nat
    BY <1>1 DEF LayoutInv, TypeOK
  <2>2. n + saved0 <= all
    BY <1>3, <1>4, <2>1
  <2> QED BY <1>2, <1>3, <2>1, <2>2 DEF RowsAgree
<1>7. PICK items : items = ItemsOf(rows)
  OBVIOUS
<1>8. /\ items \in Seq(ItemSet) /\ Len(items) = all
      /\ \A i \in 1..all : items[i] = ItemOf(rows[i])
  BY <1>6, <1>7, ItemsAre
<1>a. PICK m \in Nat : m = views * PageRows
  BY <1>5
<1>9. PICK shown : m = views * PageRows /\ shown = PageItems(next, views)
  BY <1>a
<1>10. /\ shown \in Seq(ItemSet) /\ Len(shown) = m
  BY <1>5, <1>9, PageItemsAre
<1>11. PagesEnd(lead, views) = lead + m
  BY <1>9 DEF PagesEnd
<1>12. ASSUME NEW i \in 1..n PROVE items[i] = RowItem(reuse, next, lead, views, i)
  <2>1. i \in 1..all
    BY <1>4, <1>6
  <2> QED BY <1>2, <1>3, <1>8, <2>1 DEF PromptRows
<1>13. ASSUME NEW k \in 1..m
       PROVE  items[lead + k] = shown[k] /\ lead + k \in 1..n
  <2>1. PICK i \in Nat : i = lead + k /\ i > lead /\ i <= PagesEnd(lead, views) /\ i - lead = k
    BY <1>5, <1>11
  <2>2. i \in 1..n
    <3>1. n \in Nat /\ n >= PagesEnd(lead, views) /\ i <= PagesEnd(lead, views)
          /\ i > lead /\ lead \in Nat
      BY <1>4, <1>5, <2>1
    <3>2. PagesEnd(lead, views) \in Nat
      BY <1>5, <1>11
    <3> QED BY <2>1, <3>1, <3>2
  <2>3. items[i] = PageItem(next + Nth(lead, i), Place(lead, i))
    <3>1. items[i] = RowItem(reuse, next, lead, views, i)
      BY <1>12, <2>2
    <3>2. ~(i <= lead)
      BY <1>5, <2>1
    <3> QED BY <2>1, <3>1, <3>2 DEF RowItem
  <2>4. shown[i - lead] = PageItem(next + Nth(lead, i), Place(lead, i))
    <3>1. next \in Int /\ lead \in Nat /\ views \in Nat \ {0}
      BY <1>5
    <3>2. \A a \in Nat, e \in Nat :
            e > a /\ e <= PagesEnd(a, views) =>
              PageItems(next, views)[e - a] = PageItem(next + Nth(a, e), Place(a, e))
      BY <3>1, PageItemsAre
    <3> QED BY <1>9, <2>1, <3>1, <3>2
  <2> QED BY <2>1, <2>2, <2>3, <2>4
<1>14. items = [i \in 1..Len(cache.rows) |->
                  Item(cache.rows[i].tok, cache.rows[i].page, cache.rows[i].at)]
  BY <1>3, <1>7 DEF ItemsOf, ItemOf
<1>15. CASE reuse = 0
  <2>1. lead + m <= Len(items) /\ lead = 1
    BY <1>4, <1>5, <1>6, <1>8, <1>11, <1>15
  <2>2. Piece(ItemSet, items, 1, m)
    BY <1>8, <2>1, PieceOf
  <2>3. PICK s : s = SubSeq(items, 1 + 1, 1 + m)
    OBVIOUS
  <2>4. s \in Seq(ItemSet) /\ Len(s) = m /\ \A k \in 1..m : s[k] = items[1 + k]
    BY <2>2, <2>3 DEF Piece
  <2>5. \A k \in 1..m : s[k] = shown[k]
    BY <1>13, <2>1, <2>4
  <2>6. s = shown
    BY <1>10, <2>4, <2>5, SameRows
  <2>7. SubSeq(items, 2, 1 + Len(shown)) = shown
    BY <1>10, <2>3, <2>6
  <2> QED BY <1>3, <1>9, <1>14, <1>15, <2>7 DEF ContextIsContiguous
<1>16. CASE reuse = 1
  <2>1. PICK tail \in Nat : tail = lead - 1 /\ lead = tail + 1 /\ tail < PageRows /\ tail # 0
    <3>1. lead - 1 \in Nat /\ lead = (lead - 1) + 1 /\ lead - 1 < PageRows /\ lead - 1 # 0
      BY <1>5, <1>16
    <3> QED BY <3>1
  <2>2. n - m - 1 = tail /\ n = tail + 1 + m
    BY <1>4, <1>5, <1>11, <1>16, <2>1
  <2>3. tail >= TailRows
    <3>1. doc.prefix # 0
      BY <1>1, <1>3, <1>16 DEF LayoutInv, Reuse
    <3>2. doc.prefix >= 1 + TailRows + PageRows /\ lead = doc.prefix - PageRows
            /\ doc.prefix \in Nat
      BY <1>1, <1>3, <3>1 DEF DocInv, Lead, TypeOK
    <3> QED BY <1>5, <2>1, <3>2, Positive
  <2>4. items[1] = Item(PAGE, next - 1, 0)
    <3>1. 1 \in 1..n /\ 1 <= lead
      BY <1>4, <1>5, <2>2
    <3>2. items[1] = RowItem(reuse, next, lead, views, 1)
      BY <1>12, <3>1
    <3> QED BY <1>16, <3>1, <3>2 DEF RowItem
  <2>a. PICK q : q = PageItems(next - 1, 1)
    OBVIOUS
  <2>5. PICK pr \in Nat : pr = PageRows - tail /\ pr + tail = PageRows
    <3>1. PageRows - tail \in Nat /\ (PageRows - tail) + tail = PageRows
      BY <1>5, <2>1
    <3> QED BY <3>1
  <2>6. /\ q \in Seq(ItemSet) /\ Len(q) = PageRows
        /\ \A i \in 1..PageRows : q[i] = PageItem(next - 1, i - 1)
    <3>1. next - 1 \in Int
      BY <1>5
    <3> QED BY <2>a, <3>1, PageRowsAre
  <2>7. PICK u : u = SubSeq(q, pr + 1, pr + tail)
    OBVIOUS
  <2>8. u \in Seq(ItemSet) /\ Len(u) = tail /\ \A j \in 1..tail : u[j] = q[pr + j]
    <3>1. pr + tail <= Len(q)
      BY <2>5, <2>6
    <3>2. Piece(ItemSet, q, pr, tail)
      BY <2>6, <3>1, PieceOf
    <3> QED BY <2>7, <3>2 DEF Piece
  <2>9. ASSUME NEW j \in 1..tail PROVE items[1 + j] = u[j]
    <3>1. pr + j \in 1..PageRows /\ pr + j - 1 # 0 /\ pr + j - 1 = ImageRows - lead + (1 + j)
      BY <1>5, <2>1, <2>5
    <3>2. u[j] = Item(IMAGE, next - 1, ImageRows - lead + (1 + j))
      <4>1. q[pr + j] = PageItem(next - 1, pr + j - 1)
        BY <2>6, <3>1
      <4>2. u[j] = q[pr + j]
        BY <2>8
      <4> QED BY <3>1, <4>1, <4>2 DEF PageItem
    <3>3. 1 + j \in 1..n /\ 1 + j <= lead /\ 1 + j # 1
      BY <1>5, <2>1, <2>2
    <3>4. items[1 + j] = RowItem(reuse, next, lead, views, 1 + j)
      BY <1>12, <3>3
    <3> QED BY <1>16, <3>2, <3>3, <3>4 DEF RowItem
  <2>10. Joined(ItemSet, u, shown, tail, m)
    BY <1>10, <2>8, ConcatIs
  <2>11. PICK j : j = u \o shown
    OBVIOUS
  <2>12. /\ j \in Seq(ItemSet) /\ Len(j) = tail + m
         /\ (\A k \in 1..tail : j[k] = u[k]) /\ (\A k \in 1..m : j[tail + k] = shown[k])
    BY <2>10, <2>11 DEF Joined
  <2>b. PICK len \in Nat : len = tail + m /\ 1 + len = n
    BY <2>2
  <2>13. PICK s : s = SubSeq(items, 1 + 1, 1 + len) /\ len = tail + m /\ 1 + len = n
    BY <2>b
  <2>14. s \in Seq(ItemSet) /\ Len(s) = len /\ \A k \in 1..len : s[k] = items[1 + k]
    <3>1. 1 + len <= Len(items)
      BY <1>4, <1>6, <1>8, <2>13
    <3>2. Piece(ItemSet, items, 1, len)
      BY <1>8, <3>1, PieceOf
    <3> QED BY <2>13, <3>2 DEF Piece
  <2>15. ASSUME NEW k \in 1..len PROVE s[k] = j[k]
    <3>1. CASE k <= tail
      <4>1. k \in 1..tail
        BY <3>1
      <4> QED BY <2>9, <2>12, <2>14, <4>1
    <3>2. CASE k > tail
      <4>1. PICK i \in 1..m : k = tail + i /\ 1 + k = lead + i
        <5>1. k - tail \in 1..m /\ k = tail + (k - tail) /\ 1 + k = lead + (k - tail)
          BY <1>5, <2>1, <2>13, <3>2
        <5> QED BY <5>1
      <4>2. items[1 + k] = shown[i]
        BY <1>13, <4>1
      <4>3. j[k] = shown[i]
        BY <2>12, <4>1
      <4> QED BY <2>14, <4>2, <4>3
    <3> QED BY <3>1, <3>2
  <2>16. s = j
    <3>1. Len(s) = Len(j)
      BY <2>12, <2>13, <2>14
    <3> QED BY <2>12, <2>14, <2>15, <3>1, SameRows
  <2>17. SubSeq(items, 2, n) = SubSeq(q, PageRows - tail + 1, PageRows) \o shown
    <3>1. SubSeq(items, 2, n) = s
      BY <2>13
    <3>2. PageRows - tail + 1 = pr + 1 /\ PageRows = pr + tail
      BY <1>5, <2>5
    <3> QED BY <2>a, <2>7, <2>11, <2>16, <3>1, <3>2
  <2>18. PICK text : text = SubSeq(items, n + 1, n + saved0)
    OBVIOUS
  <2>19. /\ DOMAIN text = 1..saved0
         /\ \A i \in 1..saved0 : text[i] = items[n + i]
    <3>1. n + saved0 <= Len(items)
      BY <1>6, <1>8
    <3>2. Piece(ItemSet, items, n, saved0)
      BY <1>4, <1>6, <1>8, <3>1, PieceOf
    <3> QED BY <2>18, <3>2 DEF Piece
  <2>20. ASSUME NEW i \in 1..saved0
         PROVE  text[i].tok = TEXT /\ text[i].page = next - 1 /\ text[i].at = rows[n + 1].at + i - 1
    <3>1. n + i \in 1..all
      BY <1>4, <1>6
    <3>2. text[i] = ItemOf(rows[n + i])
      BY <1>8, <2>19, <3>1
    <3>3. TextRow(rows[n + i], next - 1, rows[n + 1].at + i - 1)
      BY <1>2, <1>3 DEF SavedRows
    <3> QED BY <3>2, <3>3 DEF TextRow, ItemOf, Item
  <2>21. ASSUME NEW i \in 1..saved0 PROVE text[i].at = text[1].at + i - 1
    <3>1. 1 \in 1..saved0 /\ n + 1 \in 1..all
      BY <1>4, <1>6
    <3>2. rows[n + 1].at \in Int
      <4>1. rows[n + 1] \in Rows
        BY <1>6, <3>1
      <4> QED BY <4>1 DEF Rows
    <3>3. text[1].at = rows[n + 1].at + 1 - 1
      BY <2>20, <3>1
    <3>4. text[1].at = rows[n + 1].at
      BY <3>2, <3>3
    <3> QED BY <2>20, <3>4
  <2>22. n - Len(shown) - 1 = tail /\ reuse # 0
    BY <1>10, <1>16, <2>2
  <2>23. \A i \in DOMAIN text : text[i].tok = TEXT /\ text[i].page = next - 1
           /\ text[i].at = text[1].at + i - 1
    BY <2>19, <2>20, <2>21
  <2> DEFINE context == [i \in 1..Len(cache.rows) |->
                   Item(cache.rows[i].tok, cache.rows[i].page, cache.rows[i].at)]
             own == PageItems(doc.next, win.views)
             before == win.prompt - Len(own) - 1
             newest == SubSeq(context, win.prompt + 1, win.prompt + win.saved)
  <2>24. context = items /\ own = shown
    BY <1>3, <1>9, <1>14
  <2> HIDE DEF context, own
  <2>25. before = tail /\ newest = text
    BY <1>3, <2>18, <2>22, <2>24
  <2> HIDE DEF before, newest
  <2>26. /\ win.reuse # 0 /\ before >= TailRows
         /\ context[1] = Item(PAGE, doc.next - 1, 0)
         /\ \A i \in DOMAIN newest :
              newest[i].tok = TEXT /\ newest[i].page = doc.next - 1
              /\ newest[i].at = newest[1].at + i - 1
    BY <1>3, <2>3, <2>4, <2>22, <2>23, <2>24, <2>25
  <2>27. SubSeq(context, 2, win.prompt)
           = SubSeq(PageItems(doc.next - 1, 1), PageRows - before + 1, PageRows) \o own
    BY <1>3, <2>a, <2>17, <2>24, <2>25
  <2> QED BY <2>26, <2>27 DEF ContextIsContiguous, context, own, before, newest
<1> QED BY <1>5, <1>15, <1>16

(* The rows are where the counters, the retention arithmetic and the       *)
(* rotation of the keys take them to be, for every page size, tail and     *)
(* document.                                                               *)
THEOREM RowsAreInPlace == CacheSpec => []RowsInPlace
BY CacheInvariantHolds, InPlace, PTL

(* Whatever a window attends to is one contiguous piece of the document.   *)
THEOREM ContextsAreContiguous == CacheSpec => []ContextIsContiguous
BY CacheInvariantHolds, Contiguous, PTL

(* Every row that writes text of a page queries that page's image rows     *)
(* only.                                                                   *)
THEOREM QueriesSeeTheirPages == CacheSpec => []QueriesSeeTheirPage
BY CacheInvariantHolds, QueriesRouted, PTL
=============================================================================
