-------------------------- MODULE GoldenFixturesProofs --------------------------
(***************************************************************************)
(* For every set of requests, number of layers and number of dumps: what a *)
(* finished dump wrote is loaded as its own, and expectations never come   *)
(* with the inputs of another dump.                                        *)
(*                                                                         *)
(* The argument has two parts.  The first looks at the steps of a dump     *)
(* without running them: a step may count on the steps before it           *)
(* (StepHolds), and the steps of every dump do (StepsLead), each dump      *)
(* being the steps of the one it calls and a few more.  So a load in the   *)
(* middle of a dump finds what it needs, and an expectation is committed   *)
(* after everything it comes with.  The second part runs them: DirectoryOk *)
(* is the inductive strengthening.  It says that the directory and the     *)
(* manifest hold what the steps done have put there, and that an           *)
(* expectation a manifest names, of whatever dump, comes with files of     *)
(* that dump only; a write keeps that because a dump saves a manifest that *)
(* names nothing before it writes any file that a load reads.              *)
(***************************************************************************)
EXTENDS GoldenFixtures, TLAPS

-----------------------------------------------------------------------------
(* What a dump has done: the steps before the one it is at.                *)
Rng(s) == {s[i] : i \in 1..Len(s)}
Before(s, k) == {s[i] : i \in 1..k - 1}
IsList(s) == s \in Seq(Rng(s))

ExpectedOutput == <<"expected_output", 0>>
UnitOf(f) == IF f = Visual THEN "span"
             ELSE IF f \in Logits THEN "topk"
             ELSE IF f \in {Generated, GeneratedText, ExpectedOutput} THEN "one" ELSE "tokens"

Wrote(b, f) == Write(f, UnitOf(f)) \in b
Commits(b) == {x \in b : x.op = "commit"}
Committed(b, f) == \E x \in Commits(b) : f \in x.files
Counted(b, of) == \E x \in Commits(b) : of \in DOMAIN x.layers
Accepted(b) == \A x \in b : x.op = "check" => x.holds

(* What a load needs of the steps done.                                    *)
LayerKinds(of) == IF of = "text" THEN {"text_layers", "text_logits", "text_generated"}
                  ELSE {"image_layers", "image_logits", "image_generated"}
ImageKinds == LayerKinds("image") \cup {"image_prompt"}
LogitKinds == {"text_logits", "image_logits", "text_generated", "image_generated"}
GeneratedKinds == {"text_generated", "image_generated"}

NeedsOf(kind, n) ==
  PromptParts \cup (IF kind \in ImageKinds THEN {Visual} ELSE {})
  \cup (IF kind = "text_layer0" THEN HiddenOf(1) ELSE {})
  \cup (IF kind = "text_layer1" THEN HiddenOf(2) ELSE {})
  \cup (IF kind \in LayerKinds("text") \cup LayerKinds("image") THEN HiddenOf(n) ELSE {})
  \cup (IF kind \in LogitKinds THEN Logits ELSE {})
  \cup (IF kind \in GeneratedKinds THEN {Generated} ELSE {})
  \cup (IF kind = "image_generated" THEN {GeneratedText} ELSE {})

Supplies(kind, b, r, n) ==
  /\ kind \in Kinds /\ Save \in b /\ \A f \in NeedsOf(kind, n) : Wrote(b, f)
  /\ kind \in ImageKinds => Span(r) > 0
  /\ \A of \in {"text", "image"} : kind \in LayerKinds(of) =>
       n \in 1..LayerCount /\ (Counted(b, of) \/ n = LayerCount)
  /\ kind \in LogitKinds => \A f \in Logits : Committed(b, f)
  /\ kind \in GeneratedKinds => Committed(b, Generated)

(* An expectation is committed when everything before it is written.       *)
Expectations == Logits \cup {Generated}
Complete(b, r, n) ==
  (\E f \in Expectations : Committed(b, f)) =>
    /\ n = LayerCount
    /\ \A f \in PromptParts \cup HiddenOf(LayerCount) \cup Logits : Wrote(b, f)
    /\ Span(r) > 0 => Wrote(b, Visual) /\ (Committed(b, Generated) => Wrote(b, GeneratedText))

(* What a step of a dump may count on, and what it must leave alone.       *)
StepHolds(x, b, r, n) ==
  Accepted(b) =>
    /\ x.op = "write" => /\ x.unit = UnitOf(x.file)
                         /\ x.file = ExpectedOutput \/ Save \in b
                         /\ x.file = Mask => Commits(b) = {}
    /\ x.op = "save" => Commits(b) = {}
    /\ x.op = "commit" => /\ Save \in b
                          /\ \A f \in x.files : Wrote(b, f)
                          /\ \A of \in DOMAIN x.layers : x.layers[of] = n
                          /\ Complete(b \cup {x}, r, n)
    /\ x.op = "reload" => Supplies(x.kind, b, r, n)

(* A sequence of steps, after those of b.                                  *)
Leads(s, b, r, n) == IsList(s) /\ \A k \in 1..Len(s) : StepHolds(s[k], b \cup Before(s, k), r, n)

-----------------------------------------------------------------------------
(* Sequences of steps.                                                     *)

LEMMA ListOfNone == IsList(<<>>) /\ Rng(<<>>) = {}
BY DEF IsList, Rng

LEMMA ListOf ==
  ASSUME NEW S, NEW s \in Seq(S)
  PROVE  IsList(s) /\ Rng(s) \subseteq S
<1>1. Len(s) \in Nat /\ \A i \in 1..Len(s) : s[i] \in S /\ s[i] \in Rng(s)
  BY DEF Rng
<1>2. s = [i \in 1..Len(s) |-> s[i]]
  OBVIOUS
<1>3. s \in [1..Len(s) -> Rng(s)]
  BY <1>1, <1>2
<1>4. Rng(s) \subseteq S
  BY <1>1 DEF Rng
<1> QED BY <1>1, <1>3, <1>4 DEF IsList

LEMMA JoinIs ==
  ASSUME NEW s, NEW u, IsList(s), IsList(u)
  PROVE  /\ IsList(s \o u) /\ Rng(s \o u) = Rng(s) \cup Rng(u)
         /\ Len(s) \in Nat /\ Len(u) \in Nat /\ Len(s \o u) = Len(s) + Len(u)
         /\ \A k \in 1..Len(s) : (s \o u)[k] = s[k] /\ Before(s \o u, k) = Before(s, k)
         /\ \A k \in 1..Len(u) : /\ (s \o u)[Len(s) + k] = u[k]
                                 /\ Before(s \o u, Len(s) + k) = Rng(s) \cup Before(u, k)
<1> DEFINE S == Rng(s) \cup Rng(u)
<1>1. s \in Seq(S) /\ u \in Seq(S)
  BY DEF IsList
<1> HIDE DEF S
<1>2. PICK m, l \in Nat : m = Len(s) /\ l = Len(u)
  BY <1>1
<1>3. PICK w : w = s \o u
  OBVIOUS
<1>4. /\ w \in Seq(S) /\ Len(w) = m + l
      /\ \A i \in 1..m : w[i] = s[i]
      /\ \A i \in 1..l : w[m + i] = u[i]
  BY <1>1, <1>2, <1>3
<1>5. \A i \in 1..m + l : i \in 1..m \/ (i - m \in 1..l /\ i = m + (i - m))
  BY <1>2
<1>6. Rng(w) = Rng(s) \cup Rng(u)
  <2>1. ASSUME NEW x \in Rng(w) PROVE x \in Rng(s) \cup Rng(u)
    <3>1. PICK i \in 1..m + l : x = w[i]
      BY <1>4 DEF Rng
    <3>2. CASE i \in 1..m
      BY <1>2, <1>4, <3>1, <3>2 DEF Rng
    <3>3. CASE i - m \in 1..l /\ i = m + (i - m)
      <4>1. PICK j \in 1..l : i = m + j
        BY <3>3
      <4>2. x = u[j]
        BY <1>4, <3>1, <4>1
      <4> QED BY <1>2, <4>2 DEF Rng
    <3> QED BY <1>5, <3>2, <3>3
  <2>2. ASSUME NEW x \in Rng(s) PROVE x \in Rng(w)
    <3>1. PICK i \in 1..m : x = s[i]
      BY <1>2 DEF Rng
    <3>2. i \in 1..m + l /\ x = w[i]
      BY <1>2, <1>4, <3>1
    <3> QED BY <1>4, <3>2 DEF Rng
  <2>3. ASSUME NEW x \in Rng(u) PROVE x \in Rng(w)
    <3>1. PICK i \in 1..l : x = u[i]
      BY <1>2 DEF Rng
    <3>2. m + i \in 1..m + l /\ x = w[m + i]
      BY <1>2, <1>4, <3>1
    <3> QED BY <1>4, <3>2 DEF Rng
  <2> QED BY <2>1, <2>2, <2>3
<1>7. IsList(w)
  BY <1>4, ListOf
<1>8. ASSUME NEW k \in 1..m PROVE Before(w, k) = Before(s, k)
  <2>1. \A i \in 1..k - 1 : w[i] = s[i]
    BY <1>2, <1>4
  <2> QED BY <2>1 DEF Before
<1>9. ASSUME NEW k \in 1..l PROVE Before(w, m + k) = Rng(s) \cup Before(u, k)
  <2>1. ASSUME NEW x \in Before(w, m + k) PROVE x \in Rng(s) \cup Before(u, k)
    <3>1. PICK i \in 1..m + k - 1 : x = w[i]
      BY DEF Before
    <3>2. i \in 1..m \/ (i - m \in 1..k - 1 /\ i = m + (i - m))
      BY <1>2
    <3>3. CASE i \in 1..m
      BY <1>2, <1>4, <3>1, <3>3 DEF Rng
    <3>4. CASE i - m \in 1..k - 1 /\ i = m + (i - m)
      <4>1. PICK j \in 1..k - 1 : i = m + j
        BY <3>4
      <4>2. j \in 1..l
        BY <1>2
      <4>3. x = u[j]
        BY <1>4, <3>1, <4>1, <4>2
      <4> QED BY <4>3 DEF Before
    <3> QED BY <3>2, <3>3, <3>4
  <2>2. ASSUME NEW x \in Rng(s) PROVE x \in Before(w, m + k)
    <3>1. PICK i \in 1..m : x = s[i]
      BY <1>2 DEF Rng
    <3>2. i \in 1..m + k - 1 /\ x = w[i]
      BY <1>2, <1>4, <3>1
    <3> QED BY <3>2 DEF Before
  <2>3. ASSUME NEW x \in Before(u, k) PROVE x \in Before(w, m + k)
    <3>1. PICK i \in 1..k - 1 : x = u[i]
      BY DEF Before
    <3>2. i \in 1..l /\ m + i \in 1..m + k - 1
      BY <1>2
    <3>3. x = w[m + i]
      BY <1>4, <3>1, <3>2
    <3> QED BY <3>2, <3>3 DEF Before
  <2> QED BY <2>1, <2>2, <2>3
<1> QED BY <1>2, <1>3, <1>4, <1>6, <1>7, <1>8, <1>9

(* One sequence of steps after another.                                    *)
LEMMA LeadsJoin ==
  ASSUME NEW s, NEW u, NEW b, NEW r, NEW n, Leads(s, b, r, n), Leads(u, b \cup Rng(s), r, n)
  PROVE  Leads(s \o u, b, r, n) /\ Rng(s \o u) = Rng(s) \cup Rng(u)
<1>1. IsList(s) /\ IsList(u)
  BY DEF Leads
<1>2. PICK m, l \in Nat : m = Len(s) /\ l = Len(u)
  BY <1>1, JoinIs
<1>3. PICK w : w = s \o u
  OBVIOUS
<1>4. /\ IsList(w) /\ Rng(w) = Rng(s) \cup Rng(u) /\ Len(w) = m + l
      /\ \A k \in 1..m : w[k] = s[k] /\ Before(w, k) = Before(s, k)
      /\ \A k \in 1..l : w[m + k] = u[k] /\ Before(w, m + k) = Rng(s) \cup Before(u, k)
  BY <1>1, <1>2, <1>3, JoinIs
<1>5. ASSUME NEW k \in 1..m + l PROVE StepHolds(w[k], b \cup Before(w, k), r, n)
  <2>1. CASE k \in 1..m
    <3>1. StepHolds(s[k], b \cup Before(s, k), r, n)
      BY <1>2, <2>1 DEF Leads
    <3> QED BY <1>4, <2>1, <3>1
  <2>2. CASE k \notin 1..m
    <3>1. PICK j \in 1..l : k = m + j
      <4>1. k - m \in 1..l /\ k = m + (k - m)
        BY <1>2, <2>2
      <4> QED BY <4>1
    <3>2. StepHolds(u[j], (b \cup Rng(s)) \cup Before(u, j), r, n)
      BY <1>2, <3>1 DEF Leads
    <3>3. b \cup Before(w, k) = (b \cup Rng(s)) \cup Before(u, j)
      BY <1>4, <3>1
    <3>4. w[k] = u[j]
      BY <1>4, <3>1
    <3> QED BY <3>2, <3>3, <3>4
  <2> QED BY <2>1, <2>2
<1> QED BY <1>3, <1>4, <1>5 DEF Leads

(* One step more.                                                          *)
LEMMA LeadsAppend ==
  ASSUME NEW s, NEW x, NEW b, NEW r, NEW n, Leads(s, b, r, n), StepHolds(x, b \cup Rng(s), r, n)
  PROVE  Leads(Append(s, x), b, r, n) /\ Rng(Append(s, x)) = Rng(s) \cup {x}
<1> DEFINE S == Rng(s) \cup {x}
<1>1. s \in Seq(S) /\ x \in S
  BY DEF Leads, IsList
<1> HIDE DEF S
<1>2. PICK m \in Nat : m = Len(s)
  BY <1>1
<1>3. PICK w : w = Append(s, x)
  OBVIOUS
<1>4. w \in Seq(S) /\ Len(w) = m + 1 /\ w[m + 1] = x /\ \A i \in 1..m : w[i] = s[i]
  BY <1>1, <1>2, <1>3
<1>5. IsList(w)
  BY <1>4, ListOf
<1>6. Before(w, m + 1) = Rng(s)
  <2>1. 1..(m + 1) - 1 = 1..m
    BY <1>2
  <2> QED BY <1>2, <1>4, <2>1 DEF Before, Rng
<1>7. Rng(w) = Rng(s) \cup {x}
  <2>1. \A i : i \in 1..m + 1 <=> i \in 1..m \/ i = m + 1
    BY <1>2
  <2> QED BY <1>2, <1>4, <2>1 DEF Rng
<1>8. ASSUME NEW k \in 1..m + 1 PROVE StepHolds(w[k], b \cup Before(w, k), r, n)
  <2>1. CASE k \in 1..m
    <3>1. StepHolds(s[k], b \cup Before(s, k), r, n)
      BY <1>2, <2>1 DEF Leads
    <3>2. \A i \in 1..k - 1 : w[i] = s[i]
      BY <1>2, <1>4, <2>1
    <3>3. Before(w, k) = Before(s, k)
      BY <3>2 DEF Before
    <3> QED BY <1>4, <2>1, <3>1, <3>3
  <2>2. CASE k = m + 1
    BY <1>4, <1>6, <2>2
  <2> QED BY <1>2, <2>1, <2>2
<1> QED BY <1>3, <1>4, <1>5, <1>7, <1>8 DEF Leads

LEMMA LeadsNone == ASSUME NEW b, NEW r, NEW n PROVE Leads(<<>>, b, r, n)
BY ListOfNone DEF Leads

LEMMA LeadsOne ==
  ASSUME NEW x, NEW b, NEW r, NEW n, StepHolds(x, b, r, n)
  PROVE  Leads(<<x>>, b, r, n) /\ Rng(<<x>>) = {x}
<1>1. Leads(<<>>, b, r, n) /\ Rng(<<>>) = {} /\ b \cup Rng(<<>>) = b
  BY LeadsNone, ListOfNone
<1>2. <<x>> = Append(<<>>, x)
  OBVIOUS
<1>3. StepHolds(x, b \cup Rng(<<>>), r, n)
  BY <1>1
<1>4. Leads(Append(<<>>, x), b, r, n) /\ Rng(Append(<<>>, x)) = Rng(<<>>) \cup {x}
  BY <1>1, <1>3, LeadsAppend
<1> QED BY <1>1, <1>2, <1>4

LEMMA LeadsTwo ==
  ASSUME NEW x, NEW y, NEW b, NEW r, NEW n, StepHolds(x, b, r, n), StepHolds(y, b \cup {x}, r, n)
  PROVE  Leads(<<x, y>>, b, r, n) /\ Rng(<<x, y>>) = {x, y}
<1>1. PICK s : s = <<x>>
  OBVIOUS
<1>2. Leads(s, b, r, n) /\ Rng(s) = {x}
  BY <1>1, LeadsOne
<1>3. <<x, y>> = Append(s, y)
  BY <1>1
<1>4. Leads(Append(s, y), b, r, n) /\ Rng(Append(s, y)) = Rng(s) \cup {y}
  BY <1>2, LeadsAppend
<1> QED BY <1>2, <1>3, <1>4

LEMMA LeadsThree ==
  ASSUME NEW x, NEW y, NEW z, NEW b, NEW r, NEW n, StepHolds(x, b, r, n),
         StepHolds(y, b \cup {x}, r, n), StepHolds(z, b \cup {x, y}, r, n)
  PROVE  Leads(<<x, y, z>>, b, r, n) /\ Rng(<<x, y, z>>) = {x, y, z}
<1>1. PICK s : s = <<x, y>>
  OBVIOUS
<1>2. Leads(s, b, r, n) /\ Rng(s) = {x, y}
  BY <1>1, LeadsTwo
<1>3. <<x, y, z>> = Append(s, z)
  BY <1>1
<1>4. Leads(Append(s, z), b, r, n) /\ Rng(Append(s, z)) = Rng(s) \cup {z}
  BY <1>2, LeadsAppend
<1> QED BY <1>2, <1>3, <1>4

LEMMA LeadsFour ==
  ASSUME NEW x, NEW y, NEW z, NEW w, NEW b, NEW r, NEW n, StepHolds(x, b, r, n),
         StepHolds(y, b \cup {x}, r, n), StepHolds(z, b \cup {x, y}, r, n),
         StepHolds(w, b \cup {x, y, z}, r, n)
  PROVE  Leads(<<x, y, z, w>>, b, r, n) /\ Rng(<<x, y, z, w>>) = {x, y, z, w}
<1>1. PICK s : s = <<x, y, z>>
  OBVIOUS
<1>2. Leads(s, b, r, n) /\ Rng(s) = {x, y, z}
  BY <1>1, LeadsThree
<1>3. <<x, y, z, w>> = Append(s, w)
  BY <1>1
<1>4. Leads(Append(s, w), b, r, n) /\ Rng(Append(s, w)) = Rng(s) \cup {w}
  BY <1>2, LeadsAppend
<1> QED BY <1>2, <1>3, <1>4

(* A sequence of writes.                                                   *)
LEMMA WritesLead ==
  ASSUME NEW m \in Nat, NEW s, s = [k \in 1..m |-> s[k]],
         \A k \in 1..m : \E f : s[k] = Write(f, UnitOf(f)) /\ f # Mask,
         NEW b, NEW r, NEW n, Accepted(b) => Save \in b
  PROVE  Leads(s, b, r, n) /\ Rng(s) = {s[k] : k \in 1..m}
<1>1. PICK S : S = {s[k] : k \in 1..m}
  OBVIOUS
<1>2. s \in [1..m -> S]
  BY <1>1
<1>3. s \in Seq(S) /\ Len(s) = m
  BY <1>2
<1>4. IsList(s) /\ Rng(s) = {s[k] : k \in 1..m}
  BY <1>3, ListOf DEF Rng
<1>5. ASSUME NEW k \in 1..m PROVE StepHolds(s[k], b \cup Before(s, k), r, n)
  <2>1. PICK f : s[k] = Write(f, UnitOf(f)) /\ f # Mask
    OBVIOUS
  <2>2. /\ s[k].op = "write" /\ s[k].unit = UnitOf(f) /\ s[k].file = f
    BY <2>1 DEF Write
  <2>3. Accepted(b \cup Before(s, k)) => Save \in b
    BY DEF Accepted
  <2> QED BY <2>1, <2>2, <2>3 DEF StepHolds
<1> QED BY <1>3, <1>4, <1>5 DEF Leads

-----------------------------------------------------------------------------
(* Single steps.                                                           *)

LEMMA CheckStep == ASSUME NEW p, NEW b, NEW r, NEW n PROVE StepHolds(Check(p), b, r, n)
BY DEF Check, StepHolds

LEMMA WriteStep ==
  ASSUME NEW f, NEW b, NEW r, NEW n, Accepted(b) => f = ExpectedOutput \/ Save \in b,
         f = Mask => Commits(b) = {}
  PROVE  StepHolds(Write(f, UnitOf(f)), b, r, n)
BY DEF Write, StepHolds

LEMMA SaveStep == ASSUME NEW b, NEW r, NEW n, Commits(b) = {} PROVE StepHolds(Save, b, r, n)
BY DEF Save, StepHolds

LEMMA CommitStep ==
  ASSUME NEW F, NEW L, NEW b, NEW r, NEW n,
         Accepted(b) => /\ Save \in b /\ \A f \in F : Wrote(b, f)
                        /\ \A of \in DOMAIN L : L[of] = n
                        /\ Complete(b \cup {Commit(F, L)}, r, n)
  PROVE  StepHolds(Commit(F, L), b, r, n)
BY DEF Commit, StepHolds

LEMMA ReloadStep ==
  ASSUME NEW kind, NEW b, NEW r, NEW n, Accepted(b) => Supplies(kind, b, r, n)
  PROVE  StepHolds(Reload(kind), b, r, n)
BY DEF Reload, StepHolds

(* The steps are told apart by what they do.                               *)
LEMMA CommitsOf ==
  ASSUME NEW b
  PROVE  /\ \A f, u : Commits(b \cup {Write(f, u)}) = Commits(b)
         /\ \A p : Commits(b \cup {Check(p)}) = Commits(b)
         /\ \A kind : Commits(b \cup {Reload(kind)}) = Commits(b)
         /\ Commits(b \cup {Save}) = Commits(b)
         /\ \A F, L : Commits(b \cup {Commit(F, L)}) = Commits(b) \cup {Commit(F, L)}
         /\ \A c : Commits(b \cup c) = Commits(b) \cup Commits(c)
         /\ Commits({}) = {}
<1>1. \A f, u : Write(f, u).op # "commit"
  BY DEF Write
<1>2. \A p : Check(p).op # "commit"
  BY DEF Check
<1>3. \A kind : Reload(kind).op # "commit"
  BY DEF Reload
<1>4. Save.op # "commit"
  BY DEF Save
<1>5. \A F, L : Commit(F, L).op = "commit"
  BY DEF Commit
<1> QED BY <1>1, <1>2, <1>3, <1>4, <1>5 DEF Commits

LEMMA CommittedOf ==
  ASSUME NEW b, NEW F, NEW L
  PROVE  /\ \A f : Committed(b \cup {Commit(F, L)}, f) <=> Committed(b, f) \/ f \in F
         /\ \A of : Counted(b \cup {Commit(F, L)}, of) <=> Counted(b, of) \/ of \in DOMAIN L
<1>1. Commits(b \cup {Commit(F, L)}) = Commits(b) \cup {Commit(F, L)}
  <2>1. Commit(F, L).op = "commit"
    BY DEF Commit
  <2> QED BY <2>1 DEF Commits
<1>2. Commit(F, L).files = F /\ Commit(F, L).layers = L
  BY DEF Commit
<1> QED BY <1>1, <1>2 DEF Committed, Counted

(* More steps are done, and no fewer.                                      *)
LEMMA StepsGrow ==
  ASSUME NEW b, NEW c, b \subseteq c
  PROVE  /\ Accepted(c) => Accepted(b)
         /\ \A f : Wrote(b, f) => Wrote(c, f)
         /\ \A f : Committed(b, f) => Committed(c, f)
         /\ \A of : Counted(b, of) => Counted(c, of)
<1>1. Commits(b) \subseteq Commits(c)
  BY DEF Commits
<1> QED BY <1>1 DEF Accepted, Wrote, Committed, Counted

LEMMA UnitsAre ==
  /\ UnitOf(ExpectedOutput) = "one" /\ UnitOf(<<"prepared_request", 0>>) = "tokens"
  /\ UnitOf(Ids) = "tokens" /\ UnitOf(Mask) = "tokens" /\ UnitOf(Embeddings) = "tokens"
  /\ UnitOf(Visual) = "span"
  /\ \A layer : UnitOf(Hidden(layer)) = "tokens" /\ \A f \in Router(layer) : UnitOf(f) = "tokens"
  /\ \A f \in Logits : UnitOf(f) = "topk"
  /\ UnitOf(Generated) = "one" /\ UnitOf(GeneratedText) = "one"
<1>1. UnitOf(ExpectedOutput) = "one" /\ UnitOf(Generated) = "one" /\ UnitOf(GeneratedText) = "one"
  BY DEF UnitOf, ExpectedOutput, Visual, Logits, Generated, GeneratedText
<1>2. UnitOf(<<"prepared_request", 0>>) = "tokens"
  BY DEF UnitOf, ExpectedOutput, Visual, Logits, Generated, GeneratedText
<1>3. UnitOf(Ids) = "tokens" /\ UnitOf(Mask) = "tokens" /\ UnitOf(Embeddings) = "tokens"
  BY DEF UnitOf, ExpectedOutput, Visual, Logits, Generated, GeneratedText, Ids, Mask, Embeddings
<1>4. UnitOf(Visual) = "span"
  BY DEF UnitOf
<1>5. ASSUME NEW layer PROVE UnitOf(Hidden(layer)) = "tokens"
  BY DEF UnitOf, ExpectedOutput, Visual, Logits, Generated, GeneratedText, Hidden
<1>6. ASSUME NEW layer, NEW f \in Router(layer) PROVE UnitOf(f) = "tokens"
  BY DEF UnitOf, ExpectedOutput, Visual, Logits, Generated, GeneratedText, Router
<1>7. ASSUME NEW f \in Logits PROVE UnitOf(f) = "topk"
  BY DEF UnitOf, Visual, Logits
<1> QED BY <1>1, <1>2, <1>3, <1>4, <1>5, <1>6, <1>7

(* Mask is none of the other files.                                        *)
LEMMA MaskApart ==
  /\ Mask # ExpectedOutput /\ Mask # <<"prepared_request", 0>> /\ Mask # Ids /\ Mask # Embeddings
  /\ Mask # Visual /\ Mask \notin Logits /\ Mask # Generated /\ Mask # GeneratedText
  /\ \A layer : Mask # Hidden(layer) /\ Mask \notin Router(layer)
BY DEF Mask, ExpectedOutput, Ids, Embeddings, Visual, Logits, Generated, GeneratedText, Hidden, Router

LEMMA LeadsSeven ==
  ASSUME NEW x, NEW y, NEW z, NEW w, NEW p, NEW q, NEW v, NEW b, NEW r, NEW n,
         StepHolds(x, b, r, n), StepHolds(y, b \cup {x}, r, n), StepHolds(z, b \cup {x, y}, r, n),
         StepHolds(w, b \cup {x, y, z}, r, n), StepHolds(p, b \cup {x, y, z, w}, r, n),
         StepHolds(q, b \cup {x, y, z, w, p}, r, n), StepHolds(v, b \cup {x, y, z, w, p, q}, r, n)
  PROVE  /\ Leads(<<x, y, z, w, p, q, v>>, b, r, n)
         /\ Rng(<<x, y, z, w, p, q, v>>) = {x, y, z, w, p, q, v}
<1>1. PICK s : s = <<x, y, z, w>>
  OBVIOUS
<1>2. Leads(s, b, r, n) /\ Rng(s) = {x, y, z, w}
  BY <1>1, LeadsFour
<1>3. PICK s1 : s1 = Append(s, p)
  OBVIOUS
<1>4. Leads(s1, b, r, n) /\ Rng(s1) = {x, y, z, w, p}
  <2>1. Leads(Append(s, p), b, r, n) /\ Rng(Append(s, p)) = Rng(s) \cup {p}
    BY <1>2, LeadsAppend
  <2> QED BY <1>2, <1>3, <2>1
<1>5. PICK s2 : s2 = Append(s1, q)
  OBVIOUS
<1>6. Leads(s2, b, r, n) /\ Rng(s2) = {x, y, z, w, p, q}
  <2>1. Leads(Append(s1, q), b, r, n) /\ Rng(Append(s1, q)) = Rng(s1) \cup {q}
    BY <1>4, LeadsAppend
  <2> QED BY <1>4, <1>5, <2>1
<1>7. Leads(Append(s2, v), b, r, n) /\ Rng(Append(s2, v)) = Rng(s2) \cup {v}
  BY <1>6, LeadsAppend
<1>8. <<x, y, z, w, p, q, v>> = Append(s2, v)
  BY <1>1, <1>3, <1>5
<1> QED BY <1>6, <1>7, <1>8

(* What no prompt and no layer is.                                         *)
LEMMA ExpectationsApart ==
  ASSUME NEW f \in Expectations
  PROVE  /\ f \notin ImageParts /\ f # GeneratedText
         /\ \A m : f \notin HiddenOf(m) /\ f \notin RoutersOf(m)
<1>1. f \in {<<"logits_ids", 0>>, <<"logits_scores", 0>>, <<"generated_ids", 0>>}
  BY DEF Expectations, Logits, Generated
<1>2. f \notin ImageParts /\ f # GeneratedText
  BY <1>1 DEF ImageParts, PromptParts, Ids, Mask, Embeddings, Visual, GeneratedText
<1>3. \A m : f \notin HiddenOf(m)
  BY <1>1 DEF HiddenOf, Hidden
<1>4. \A m : f \notin RoutersOf(m)
  BY <1>1 DEF RoutersOf, Router
<1> QED BY <1>2, <1>3, <1>4

-----------------------------------------------------------------------------
(* The prompt.                                                             *)

(* The prompt of a dump is there: its files, and what was checked of it.   *)
PromptGiven(b, r, of) ==
  /\ Save \in b /\ \A f \in PromptParts : Wrote(b, f)
  /\ IF of = "image" THEN Wrote(b, Visual) /\ Committed(b, Visual) /\ Span(r) > 0
                     ELSE r.images = 0
HasPrompt(b, r, of) == Accepted(b) => PromptGiven(b, r, of)
Unexpecting(b) == \A f \in Expectations : ~Committed(b, f)

LEMMA HasPromptGrows ==
  ASSUME NEW b, NEW c, NEW r, NEW of, b \subseteq c, HasPrompt(b, r, of)
  PROVE  HasPrompt(c, r, of)
<1>1. /\ Accepted(c) => Accepted(b)
      /\ \A f : Wrote(b, f) => Wrote(c, f)
      /\ \A f : Committed(b, f) => Committed(c, f)
  BY StepsGrow
<1>2. Save \in b => Save \in c
  OBVIOUS
<1> QED BY <1>1, <1>2 DEF HasPrompt, PromptGiven

LEMMA CompleteOfNone ==
  ASSUME NEW b, NEW r, NEW n, Unexpecting(b) PROVE Complete(b, r, n)
BY DEF Complete, Unexpecting

(* A commit of no expectation.                                             *)
LEMMA UnexpectingGrows ==
  ASSUME NEW b, NEW F, NEW L, Unexpecting(b), \A f \in Expectations : f \notin F
  PROVE  Unexpecting(b \cup {Commit(F, L)})
BY CommittedOf DEF Unexpecting

LEMMA UnexpectingOf ==
  ASSUME NEW b, NEW c, Commits(c) = {}, Unexpecting(b)
  PROVE  Unexpecting(b \cup c)
<1>1. Commits(b \cup c) = Commits(b)
  BY DEF Commits
<1> QED BY <1>1 DEF Unexpecting, Committed

(* save_prepared_request                                                   *)
LEMMA SavedLeads ==
  ASSUME NEW r, NEW n, NEW b, Commits(b) = {}
  PROVE  /\ Leads(Saved(r), b, r, n) /\ Save \in Rng(Saved(r))
         /\ Commits(b \cup Rng(Saved(r))) = {}
<1> DEFINE W == Write(<<"prepared_request", 0>>, "tokens")
           E == Write(<<"expected_output", 0>>, "one")
<1>1. ASSUME NEW c, Commits(c) = {}
      PROVE  Leads(<<Save, W>>, c, r, n) /\ Rng(<<Save, W>>) = {Save, W} /\ Commits(c \cup {Save, W}) = {}
  <2>1. StepHolds(Save, c, r, n)
    BY <1>1, SaveStep
  <2>2. StepHolds(W, c \cup {Save}, r, n)
    BY WriteStep, UnitsAre, MaskApart
  <2>3. Leads(<<Save, W>>, c, r, n) /\ Rng(<<Save, W>>) = {Save, W}
    <3> HIDE DEF W
    <3> QED BY <2>1, <2>2, LeadsTwo
  <2>4. Commits(c \cup {Save}) = {} /\ Commits((c \cup {Save}) \cup {W}) = {}
    BY <1>1, CommitsOf
  <2>5. c \cup {Save, W} = (c \cup {Save}) \cup {W}
    OBVIOUS
  <2> QED BY <2>3, <2>4, <2>5
<1>2. CASE r.expected
  <2>1. StepHolds(E, b, r, n)
    BY WriteStep, UnitsAre, MaskApart DEF ExpectedOutput
  <2>2. Commits(b \cup {E}) = {}
    <3>1. E.op # "commit"
      BY DEF Write
    <3> QED BY <3>1 DEF Commits
  <2>3. Saved(r) = <<E>> \o <<Save, W>>
    BY <1>2 DEF Saved
  <2> HIDE DEF E, W
  <2>4. Leads(<<E>>, b, r, n) /\ Rng(<<E>>) = {E}
    BY <2>1, LeadsOne
  <2>5. Leads(<<Save, W>>, b \cup {E}, r, n) /\ Rng(<<Save, W>>) = {Save, W}
        /\ Commits((b \cup {E}) \cup {Save, W}) = {}
    BY <1>1, <2>2
  <2>6. Leads(<<E>> \o <<Save, W>>, b, r, n) /\ Rng(<<E>> \o <<Save, W>>) = {E} \cup {Save, W}
    BY <2>4, <2>5, LeadsJoin
  <2>7. b \cup ({E} \cup {Save, W}) = (b \cup {E}) \cup {Save, W}
    OBVIOUS
  <2> QED BY <2>3, <2>5, <2>6, <2>7
<1>3. CASE ~r.expected
  <2>1. Saved(r) = <<>> \o <<Save, W>>
    BY <1>3 DEF Saved
  <2> HIDE DEF W
  <2>2. <<>> \o <<Save, W>> = <<Save, W>>
    <3>1. <<Save, W>> \in Seq({Save, W})
      OBVIOUS
    <3> QED BY <3>1
  <2> QED BY <1>1, <2>1, <2>2
<1> QED BY <1>2, <1>3

(* What a step adds.                                                       *)
LEMMA WriteAdds ==
  ASSUME NEW b, NEW f, NEW u, u = UnitOf(f)
  PROVE  Wrote(b \cup {Write(f, u)}, f) /\ Commits(b \cup {Write(f, u)}) = Commits(b)
<1>1. Write(f, u).op # "commit"
  BY DEF Write
<1> QED BY <1>1 DEF Wrote, Commits

LEMMA OtherAdds ==
  ASSUME NEW b, NEW x, x.op # "commit" PROVE Commits(b \cup {x}) = Commits(b)
BY DEF Commits

LEMMA WriteAfterSave ==
  ASSUME NEW f, NEW u, u = UnitOf(f), f # Mask, NEW b, NEW r, NEW n, Accepted(b) => Save \in b
  PROVE  StepHolds(Write(f, u), b, r, n)
BY WriteStep

LEMMA CheckPasses ==
  ASSUME NEW p, NEW b, Check(p) \in b, Accepted(b) PROVE p
<1>1. Check(p).op = "check" /\ Check(p).holds = p
  BY DEF Check
<1> QED BY <1>1 DEF Accepted

LEMMA LeadsOn ==
  ASSUME NEW s, NEW u, NEW r, NEW n, Leads(s, {}, r, n), Leads(u, Rng(s), r, n)
  PROVE  Leads(s \o u, {}, r, n) /\ Rng(s \o u) = Rng(s) \cup Rng(u)
<1>1. {} \cup Rng(s) = Rng(s)
  OBVIOUS
<1> QED BY <1>1, LeadsJoin

(* A commit of files that are no expectations.                             *)
LEMMA PlainCommit ==
  ASSUME NEW F, NEW L, NEW b, NEW r, NEW n, Unexpecting(b),
         \A f \in Expectations : f \notin F,
         Accepted(b) => Save \in b /\ \A f \in F : Wrote(b, f),
         \A of \in DOMAIN L : L[of] = n
  PROVE  StepHolds(Commit(F, L), b, r, n) /\ Unexpecting(b \cup {Commit(F, L)})
<1>1. Unexpecting(b \cup {Commit(F, L)})
  BY UnexpectingGrows
<1>2. Complete(b \cup {Commit(F, L)}, r, n)
  BY <1>1, CompleteOfNone
<1> QED BY <1>1, <1>2, CommitStep

(* dump_text_prompt_fixture                                                *)
LEMMA TextPromptLeads ==
  ASSUME NEW r, NEW n
  PROVE  LET s == TextPrompt(r)
         IN  Leads(s, {}, r, n) /\ HasPrompt(Rng(s), r, "text") /\ Unexpecting(Rng(s))
<1> DEFINE C == Check(r.images = 0)
           x == Write(Ids, "tokens")
           y == Write(Mask, "tokens")
           z == Write(Embeddings, "tokens")
           w == Commit(PromptParts, NoLayers)
<1>1. Leads(<<C>>, {}, r, n) /\ Rng(<<C>>) = {C}
  <2>1. StepHolds(C, {}, r, n)
    BY CheckStep
  <2> HIDE DEF C
  <2> QED BY <2>1, LeadsOne
<1>2. Commits({C}) = {}
  <2>1. C.op # "commit"
    BY DEF Check
  <2> QED BY <2>1 DEF Commits
<1>3. /\ Leads(Saved(r), {C}, r, n) /\ Save \in Rng(Saved(r))
      /\ Commits({C} \cup Rng(Saved(r))) = {}
  <2> HIDE DEF C
  <2> QED BY <1>2, SavedLeads
<1>4. PICK s : s = <<C>> \o Saved(r)
  OBVIOUS
<1>5. Leads(s, {}, r, n) /\ Rng(s) = {C} \cup Rng(Saved(r))
  <2> HIDE DEF C
  <2> QED BY <1>1, <1>3, <1>4, LeadsOn
<1>6. PICK b : b = Rng(s)
  OBVIOUS
<1>7. Save \in b /\ C \in b /\ Commits(b) = {}
  BY <1>3, <1>5, <1>6
<1>8. StepHolds(x, b, r, n) /\ Wrote(b \cup {x}, Ids) /\ Commits(b \cup {x}) = {}
  BY <1>7, WriteAfterSave, WriteAdds, UnitsAre, MaskApart
<1>9. /\ StepHolds(y, b \cup {x}, r, n) /\ Wrote((b \cup {x}) \cup {y}, Mask)
      /\ Commits((b \cup {x}) \cup {y}) = {}
  <2>1. Save \in b \cup {x}
    BY <1>7
  <2> HIDE DEF x
  <2> QED BY <1>8, <2>1, WriteStep, WriteAdds, UnitsAre
<1>10. (b \cup {x}) \cup {y} = b \cup {x, y}
  OBVIOUS
<1>11. /\ StepHolds(z, b \cup {x, y}, r, n) /\ Wrote((b \cup {x, y}) \cup {z}, Embeddings)
       /\ Commits((b \cup {x, y}) \cup {z}) = {}
  <2>1. Save \in b \cup {x, y}
    BY <1>7
  <2> HIDE DEF x, y
  <2> QED BY <1>9, <1>10, <2>1, WriteAfterSave, WriteAdds, UnitsAre, MaskApart
<1>12. PICK c : c = b \cup {x, y, z}
  OBVIOUS
<1>13. /\ Save \in c /\ C \in c /\ Commits(c) = {} /\ \A f \in PromptParts : Wrote(c, f)
       /\ b \cup {x} \subseteq c /\ b \cup {x, y} \subseteq c
  <2>1. (b \cup {x, y}) \cup {z} = c /\ b \cup {x} \subseteq c /\ (b \cup {x}) \cup {y} \subseteq c
    BY <1>12
  <2>2. Wrote(c, Ids) /\ Wrote(c, Mask) /\ Wrote(c, Embeddings)
    <3> HIDE DEF x, y, z
    <3> QED BY <1>8, <1>9, <1>11, <2>1, StepsGrow
  <2>3. Commits(c) = {}
    BY <1>11, <2>1
  <2>4. Save \in c /\ C \in c
    BY <1>7, <1>12
  <2> QED BY <2>1, <2>2, <2>3, <2>4, <1>10 DEF PromptParts
<1>14. Unexpecting(c)
  BY <1>13 DEF Unexpecting, Committed
<1>15. StepHolds(w, c, r, n) /\ Unexpecting(c \cup {w})
  <2>1. \A f \in Expectations : f \notin PromptParts
    BY ExpectationsApart DEF ImageParts
  <2>2. \A of \in DOMAIN NoLayers : NoLayers[of] = n
    BY DEF NoLayers
  <2> QED BY <1>13, <1>14, <2>1, <2>2, PlainCommit
<1>16. PICK u : u = <<x, y, z, w>>
  OBVIOUS
<1>17. Leads(u, b, r, n) /\ Rng(u) = {x, y, z, w}
  <2> HIDE DEF x, y, z, w
  <2> QED BY <1>8, <1>9, <1>11, <1>12, <1>15, <1>16, LeadsFour
<1>18. TextPrompt(r) = s \o u
  BY <1>4, <1>16 DEF TextPrompt
<1>19. Leads(s \o u, {}, r, n) /\ Rng(s \o u) = b \cup {x, y, z, w}
  <2> HIDE DEF x, y, z, w
  <2> QED BY <1>5, <1>6, <1>17, LeadsOn
<1>20. b \cup {x, y, z, w} = c \cup {w}
  BY <1>12
<1>21. HasPrompt(c \cup {w}, r, "text")
  <2>1. Save \in c \cup {w} /\ C \in c \cup {w} /\ \A f \in PromptParts : Wrote(c \cup {w}, f)
    BY <1>13 DEF Wrote
  <2>2. ASSUME Accepted(c \cup {w}) PROVE r.images = 0
    BY <2>1, <2>2, CheckPasses
  <2> QED BY <2>1, <2>2 DEF HasPrompt, PromptGiven
<1> QED BY <1>15, <1>18, <1>19, <1>20, <1>21

(* dump_image_prompt_fixture                                               *)
LEMMA ImagePromptLeads ==
  ASSUME NEW r, NEW n
  PROVE  LET s == ImagePrompt(r)
         IN  Leads(s, {}, r, n) /\ HasPrompt(Rng(s), r, "image") /\ Unexpecting(Rng(s))
<1> DEFINE C == Check(Span(r) > 0)
           D == Check(r.visual = Span(r))
           x == Write(Ids, "tokens")
           y == Write(Mask, "tokens")
           v == Write(Visual, "span")
           z == Write(Embeddings, "tokens")
           w == Commit(ImageParts, NoLayers)
<1>1. PICK s : s = Saved(r)
  OBVIOUS
<1>2. PICK b : b = Rng(s)
  OBVIOUS
<1>3. Leads(s, {}, r, n) /\ Save \in b /\ Commits(b) = {}
  <2>1. Commits({}) = {} /\ {} \cup Rng(Saved(r)) = Rng(Saved(r))
    BY DEF Commits
  <2> QED BY <1>1, <1>2, <2>1, SavedLeads
<1>4. StepHolds(C, b, r, n) /\ Commits(b \cup {C}) = {}
  <2>1. C.op # "commit"
    BY DEF Check
  <2> QED BY <1>3, <2>1, CheckStep, OtherAdds
<1>5. StepHolds(D, b \cup {C}, r, n) /\ Commits((b \cup {C}) \cup {D}) = {}
  <2>1. D.op # "commit"
    BY DEF Check
  <2>2. StepHolds(D, b \cup {C}, r, n)
    BY CheckStep
  <2> HIDE DEF C, D
  <2> QED BY <1>4, <2>1, <2>2, OtherAdds
<1>6. PICK b2 : b2 = b \cup {C, D}
  OBVIOUS
<1>7. Save \in b2 /\ C \in b2 /\ Commits(b2) = {}
  <2>1. (b \cup {C}) \cup {D} = b2
    BY <1>6
  <2> QED BY <1>3, <1>5, <1>6, <2>1
<1>8. StepHolds(x, b2, r, n) /\ Wrote(b2 \cup {x}, Ids) /\ Commits(b2 \cup {x}) = {}
  BY <1>7, WriteAfterSave, WriteAdds, UnitsAre, MaskApart
<1>9. PICK b3 : b3 = b2 \cup {x}
  OBVIOUS
<1>10. Save \in b3 /\ Commits(b3) = {} /\ Wrote(b3, Ids)
  BY <1>7, <1>8, <1>9
<1>11. StepHolds(y, b3, r, n) /\ Wrote(b3 \cup {y}, Mask) /\ Commits(b3 \cup {y}) = {}
  BY <1>10, WriteStep, WriteAdds, UnitsAre
<1>12. PICK b4 : b4 = b3 \cup {y}
  OBVIOUS
<1>13. Save \in b4 /\ Commits(b4) = {} /\ Wrote(b4, Mask)
  BY <1>10, <1>11, <1>12
<1>14. StepHolds(v, b4, r, n) /\ Wrote(b4 \cup {v}, Visual) /\ Commits(b4 \cup {v}) = {}
  BY <1>13, WriteAfterSave, WriteAdds, UnitsAre, MaskApart
<1>15. PICK b5 : b5 = b4 \cup {v}
  OBVIOUS
<1>16. Save \in b5 /\ Commits(b5) = {} /\ Wrote(b5, Visual)
  BY <1>13, <1>14, <1>15
<1>17. StepHolds(z, b5, r, n) /\ Wrote(b5 \cup {z}, Embeddings) /\ Commits(b5 \cup {z}) = {}
  BY <1>16, WriteAfterSave, WriteAdds, UnitsAre, MaskApart
<1>18. PICK c : c = b5 \cup {z}
  OBVIOUS
<1>19. b3 \subseteq c /\ b4 \subseteq c /\ b5 \subseteq c /\ b2 \subseteq c
  BY <1>9, <1>12, <1>15, <1>18
<1>20. /\ Save \in c /\ C \in c /\ Commits(c) = {}
       /\ \A f \in ImageParts : Wrote(c, f)
  <2>1. Wrote(c, Ids) /\ Wrote(c, Mask) /\ Wrote(c, Visual) /\ Wrote(c, Embeddings)
    BY <1>10, <1>13, <1>16, <1>17, <1>18, <1>19, StepsGrow
  <2> QED BY <2>1, <1>7, <1>17, <1>18, <1>19 DEF ImageParts, PromptParts
<1>21. Unexpecting(c)
  BY <1>20 DEF Unexpecting, Committed
<1>22. StepHolds(w, c, r, n) /\ Unexpecting(c \cup {w})
  <2>1. \A f \in Expectations : f \notin ImageParts
    BY ExpectationsApart
  <2>2. \A of \in DOMAIN NoLayers : NoLayers[of] = n
    BY DEF NoLayers
  <2> QED BY <1>20, <1>21, <2>1, <2>2, PlainCommit
<1>23. PICK u : u = <<C, D, x, y, v, z, w>>
  OBVIOUS
<1>24. Leads(u, b, r, n) /\ Rng(u) = {C, D, x, y, v, z, w}
  <2>1. /\ b \cup {C, D} = b2 /\ b \cup {C, D, x} = b3 /\ b \cup {C, D, x, y} = b4
        /\ b \cup {C, D, x, y, v} = b5 /\ b \cup {C, D, x, y, v, z} = c
    BY <1>6, <1>9, <1>12, <1>15, <1>18
  <2> HIDE DEF C, D, x, y, v, z, w
  <2>2. /\ StepHolds(x, b \cup {C, D}, r, n) /\ StepHolds(y, b \cup {C, D, x}, r, n)
        /\ StepHolds(v, b \cup {C, D, x, y}, r, n) /\ StepHolds(z, b \cup {C, D, x, y, v}, r, n)
        /\ StepHolds(w, b \cup {C, D, x, y, v, z}, r, n)
    BY <2>1, <1>8, <1>11, <1>14, <1>17, <1>22, Zenon
  <2>3. StepHolds(C, b, r, n) /\ StepHolds(D, b \cup {C}, r, n)
    BY <1>4, <1>5
  <2>4. Leads(<<C, D, x, y, v, z, w>>, b, r, n) /\ Rng(<<C, D, x, y, v, z, w>>) = {C, D, x, y, v, z, w}
    BY <2>2, <2>3, LeadsSeven
  <2> QED BY <2>4, <1>23, Zenon
<1>25. ImagePrompt(r) = s \o u
  BY <1>1, <1>23 DEF ImagePrompt
<1>26. Leads(s \o u, {}, r, n) /\ Rng(s \o u) = c \cup {w}
  <2>1. b \cup {C, D, x, y, v, z, w} = c \cup {w}
    BY <1>6, <1>9, <1>12, <1>15, <1>18
  <2> HIDE DEF C, D, x, y, v, z, w
  <2> QED BY <1>2, <1>3, <1>24, <2>1, LeadsOn
<1>27. HasPrompt(c \cup {w}, r, "image")
  <2>1. Save \in c \cup {w} /\ C \in c \cup {w} /\ \A f \in ImageParts : Wrote(c \cup {w}, f)
    BY <1>20 DEF Wrote
  <2>2. ASSUME Accepted(c \cup {w}) PROVE Span(r) > 0
    <3>1. C.op = "check"
      BY DEF Check
    <3>2. C.holds
      BY <2>1, <2>2, <3>1, Zenon DEF Accepted
    <3> QED BY <3>2, Zenon DEF Check
  <2>3. Committed(c \cup {w}, Visual)
    <3>1. Visual \in ImageParts
      BY DEF ImageParts
    <3> QED BY <3>1, CommittedOf
  <2> QED BY <2>1, <2>2, <2>3 DEF HasPrompt, PromptGiven, ImageParts
<1> QED BY <1>22, <1>25, <1>26, <1>27

-----------------------------------------------------------------------------
(* What the loads of a dump need.                                          *)

LayersGiven(b, r, n, of) ==
  /\ PromptGiven(b, r, of) /\ n \in 1..LayerCount /\ (Counted(b, of) \/ n = LayerCount)
  /\ \A f \in HiddenOf(n) : Wrote(b, f)
LogitsGiven(b, r, n, of) ==
  LayersGiven(b, r, n, of) /\ \A f \in Logits : Wrote(b, f) /\ Committed(b, f)
GeneratedGiven(b, r, n, of) ==
  /\ LogitsGiven(b, r, n, of) /\ Wrote(b, Generated) /\ Committed(b, Generated)
  /\ of = "image" => Wrote(b, GeneratedText)

LEMMA PromptGrows ==
  ASSUME NEW b, NEW c, NEW r, NEW of, b \subseteq c, PromptGiven(b, r, of)
  PROVE  PromptGiven(c, r, of)
<1>1. (\A f : Wrote(b, f) => Wrote(c, f)) /\ (\A f : Committed(b, f) => Committed(c, f))
  BY StepsGrow
<1> QED BY <1>1 DEF PromptGiven

LEMMA LayersGrow ==
  ASSUME NEW b, NEW c, NEW r, NEW n, NEW of, b \subseteq c, LayersGiven(b, r, n, of)
  PROVE  LayersGiven(c, r, n, of)
<1>1. (\A f : Wrote(b, f) => Wrote(c, f)) /\ (Counted(b, of) => Counted(c, of))
  BY StepsGrow
<1>2. PromptGiven(c, r, of)
  BY PromptGrows DEF LayersGiven
<1> QED BY <1>1, <1>2 DEF LayersGiven

LEMMA LogitsGrow ==
  ASSUME NEW b, NEW c, NEW r, NEW n, NEW of, b \subseteq c, LogitsGiven(b, r, n, of)
  PROVE  LogitsGiven(c, r, n, of)
<1>1. (\A f : Wrote(b, f) => Wrote(c, f)) /\ (\A f : Committed(b, f) => Committed(c, f))
  BY StepsGrow
<1>2. LayersGiven(c, r, n, of)
  BY LayersGrow DEF LogitsGiven
<1> QED BY <1>1, <1>2 DEF LogitsGiven

LEMMA PromptSupplies ==
  ASSUME NEW b, NEW r, NEW n, NEW of, PromptGiven(b, r, of)
  PROVE  Supplies("text_prompt", b, r, n) /\ (of = "image" => Supplies("image_prompt", b, r, n))
<1>1. NeedsOf("text_prompt", n) = PromptParts /\ NeedsOf("image_prompt", n) = PromptParts \cup {Visual}
  BY DEF NeedsOf, ImageKinds, LayerKinds, LogitKinds, GeneratedKinds
<1>2. /\ \A t \in {"text", "image"} : "text_prompt" \notin LayerKinds(t) /\ "image_prompt" \notin LayerKinds(t)
      /\ "text_prompt" \notin ImageKinds /\ "text_prompt" \notin LogitKinds
      /\ "text_prompt" \notin GeneratedKinds /\ "image_prompt" \notin LogitKinds
      /\ "image_prompt" \notin GeneratedKinds
  BY DEF ImageKinds, LayerKinds, LogitKinds, GeneratedKinds
<1> QED BY <1>1, <1>2 DEF Supplies, PromptGiven, Kinds

LEMMA LayerSupplies ==
  ASSUME NEW b, NEW r, NEW n, NEW of, PromptGiven(b, r, of)
  PROVE  /\ (\A f \in HiddenOf(1) : Wrote(b, f)) => Supplies("text_layer0", b, r, n)
         /\ (\A f \in HiddenOf(2) : Wrote(b, f)) => Supplies("text_layer1", b, r, n)
<1>1. /\ NeedsOf("text_layer0", n) = PromptParts \cup HiddenOf(1)
      /\ NeedsOf("text_layer1", n) = PromptParts \cup HiddenOf(2)
  BY DEF NeedsOf, ImageKinds, LayerKinds, LogitKinds, GeneratedKinds
<1>2. ASSUME NEW k \in {"text_layer0", "text_layer1"}
      PROVE  /\ \A t \in {"text", "image"} : k \notin LayerKinds(t)
             /\ k \notin ImageKinds /\ k \notin LogitKinds /\ k \notin GeneratedKinds
  BY DEF ImageKinds, LayerKinds, LogitKinds, GeneratedKinds
<1> QED BY <1>1, <1>2 DEF Supplies, PromptGiven, Kinds

LayersKind(of) == IF of = "text" THEN "text_layers" ELSE "image_layers"
LogitsKind(of) == IF of = "text" THEN "text_logits" ELSE "image_logits"
GeneratedKind(of) == IF of = "text" THEN "text_generated" ELSE "image_generated"

LEMMA LayersSupply ==
  ASSUME NEW b, NEW r, NEW n, NEW of \in {"text", "image"}, LayersGiven(b, r, n, of)
  PROVE  Supplies(LayersKind(of), b, r, n)
<1>1. NeedsOf(LayersKind(of), n)
        = PromptParts \cup HiddenOf(n) \cup (IF of = "image" THEN {Visual} ELSE {})
  BY DEF NeedsOf, LayersKind, ImageKinds, LayerKinds, LogitKinds, GeneratedKinds
<1>2. /\ \A t \in {"text", "image"} : LayersKind(of) \in LayerKinds(t) <=> t = of
      /\ LayersKind(of) \in ImageKinds => of = "image"
      /\ LayersKind(of) \notin LogitKinds /\ LayersKind(of) \notin GeneratedKinds
  BY DEF LayersKind, ImageKinds, LayerKinds, LogitKinds, GeneratedKinds
<1> QED BY <1>1, <1>2 DEF Supplies, LayersGiven, PromptGiven, Kinds, LayersKind

LEMMA LogitsSupply ==
  ASSUME NEW b, NEW r, NEW n, NEW of \in {"text", "image"}, LogitsGiven(b, r, n, of)
  PROVE  Supplies(LogitsKind(of), b, r, n)
<1>1. NeedsOf(LogitsKind(of), n)
        = PromptParts \cup HiddenOf(n) \cup (IF of = "image" THEN {Visual} ELSE {}) \cup Logits
  BY DEF NeedsOf, LogitsKind, ImageKinds, LayerKinds, LogitKinds, GeneratedKinds
<1>2. /\ \A t \in {"text", "image"} : LogitsKind(of) \in LayerKinds(t) <=> t = of
      /\ LogitsKind(of) \in ImageKinds => of = "image"
      /\ LogitsKind(of) \notin GeneratedKinds
  BY DEF LogitsKind, ImageKinds, LayerKinds, LogitKinds, GeneratedKinds
<1> QED BY <1>1, <1>2 DEF Supplies, LogitsGiven, LayersGiven, PromptGiven, Kinds, LogitsKind

LEMMA GeneratedSupplies ==
  ASSUME NEW b, NEW r, NEW n, NEW of \in {"text", "image"}, GeneratedGiven(b, r, n, of)
  PROVE  Supplies(GeneratedKind(of), b, r, n)
<1>1. NeedsOf(GeneratedKind(of), n)
        = PromptParts \cup HiddenOf(n) \cup (IF of = "image" THEN {Visual, GeneratedText} ELSE {})
          \cup Logits \cup {Generated}
  BY DEF NeedsOf, GeneratedKind, ImageKinds, LayerKinds, LogitKinds, GeneratedKinds
<1>2. /\ \A t \in {"text", "image"} : GeneratedKind(of) \in LayerKinds(t) <=> t = of
      /\ GeneratedKind(of) \in ImageKinds => of = "image"
  BY DEF GeneratedKind, ImageKinds, LayerKinds, LogitKinds, GeneratedKinds
<1> QED BY <1>1, <1>2 DEF Supplies, GeneratedGiven, LogitsGiven, LayersGiven, PromptGiven, Kinds, GeneratedKind

-----------------------------------------------------------------------------
(* The layers.                                                             *)

HiddenGiven(b, m) == Accepted(b) => \A f \in HiddenOf(m) : Wrote(b, f)

LEMMA HiddenIs ==
  ASSUME NEW m \in Nat, NEW f \in HiddenOf(m)
  PROVE  \E layer \in 0..m - 1 : f = Hidden(layer) /\ UnitOf(f) = "tokens" /\ f # Mask
<1>1. PICK layer \in 0..m - 1 : f = Hidden(layer)
  BY DEF HiddenOf
<1> QED BY <1>1, UnitsAre, MaskApart

LEMMA OneLayer == HiddenOf(1) = {Hidden(0)} /\ HiddenOf(2) = HiddenOf(1) \cup {Hidden(1)}
<1>1. 0..1 - 1 = {0} /\ 0..2 - 1 = {0, 1}
  OBVIOUS
<1> QED BY <1>1 DEF HiddenOf

(* dump_text_layer0_fixture, dump_text_layer1_fixture: one layer more.     *)
LEMMA OneMoreLayer ==
  ASSUME NEW s, NEW r, NEW n, NEW layer, NEW F, F = {Hidden(layer)}, NEW kind,
         Leads(s, {}, r, n), HasPrompt(Rng(s), r, "text"), Unexpecting(Rng(s)),
         Accepted(Rng(s)) => Supplies(kind, Rng(s), r, n), \A f \in Expectations : f \notin F
  PROVE  LET u == s \o <<Reload(kind), Write(Hidden(layer), "tokens"), Commit(F, NoLayers)>>
         IN  /\ Leads(u, {}, r, n) /\ HasPrompt(Rng(u), r, "text") /\ Unexpecting(Rng(u))
             /\ Rng(s) \subseteq Rng(u) /\ Wrote(Rng(u), Hidden(layer))
<1> DEFINE x == Reload(kind)
           y == Write(Hidden(layer), "tokens")
           z == Commit(F, NoLayers)
<1>1. PICK b : b = Rng(s)
  OBVIOUS
<1>2. Accepted(b) => Save \in b
  BY <1>1 DEF HasPrompt, PromptGiven
<1>3. StepHolds(x, b, r, n) /\ Unexpecting(b \cup {x})
  <2>1. StepHolds(x, b, r, n)
    BY <1>1, ReloadStep
  <2>2. x.op # "commit"
    BY DEF Reload
  <2>3. Commits({x}) = {}
    BY <2>2 DEF Commits
  <2> HIDE DEF x
  <2> QED BY <1>1, <2>1, <2>3, UnexpectingOf
<1>4. PICK b2 : b2 = b \cup {x}
  OBVIOUS
<1>5. Accepted(b2) => Save \in b2
  <2> HIDE DEF x
  <2> QED BY <1>2, <1>4, StepsGrow
<1>6. /\ StepHolds(y, b2, r, n) /\ Wrote(b2 \cup {y}, Hidden(layer))
      /\ Commits(b2 \cup {y}) = Commits(b2)
  BY <1>5, WriteAfterSave, WriteAdds, UnitsAre, MaskApart
<1>7. PICK b3 : b3 = b2 \cup {y}
  OBVIOUS
<1>8. Unexpecting(b3) /\ Wrote(b3, Hidden(layer))
  BY <1>3, <1>4, <1>6, <1>7 DEF Unexpecting, Committed
<1>9. Accepted(b3) => Save \in b3
  <2> HIDE DEF y
  <2> QED BY <1>5, <1>7, StepsGrow
<1>10. StepHolds(z, b3, r, n) /\ Unexpecting(b3 \cup {z})
  <2>1. \A of \in DOMAIN NoLayers : NoLayers[of] = n
    BY DEF NoLayers
  <2>2. \A f \in F : Wrote(b3, f)
    BY <1>8
  <2> QED BY <1>8, <1>9, <2>1, <2>2, PlainCommit
<1>11. PICK v : v = <<x, y, z>>
  OBVIOUS
<1>12. Leads(v, b, r, n) /\ Rng(v) = {x, y, z}
  <2>1. b \cup {x} = b2 /\ b \cup {x, y} = b3
    BY <1>4, <1>7
  <2> HIDE DEF x, y, z
  <2>2. StepHolds(y, b \cup {x}, r, n) /\ StepHolds(z, b \cup {x, y}, r, n)
    BY <2>1, <1>6, <1>10, Zenon
  <2> QED BY <1>3, <1>11, <2>2, LeadsThree
<1>13. PICK u : u = s \o v
  OBVIOUS
<1>14. Leads(u, {}, r, n) /\ Rng(u) = b3 \cup {z}
  <2>1. Leads(u, {}, r, n) /\ Rng(u) = b \cup {x, y, z}
    <3> HIDE DEF x, y, z
    <3> QED BY <1>1, <1>12, <1>13, LeadsOn
  <2>2. b \cup {x, y, z} = b3 \cup {z}
    BY <1>4, <1>7
  <2> QED BY <2>1, <2>2, Zenon
<1>15. PICK c : c = Rng(u)
  OBVIOUS
<1>16. b \subseteq c /\ b3 \subseteq c /\ Unexpecting(c)
  BY <1>4, <1>7, <1>10, <1>14, <1>15
<1>17. HasPrompt(c, r, "text") /\ Wrote(c, Hidden(layer))
  BY <1>1, <1>8, <1>16, HasPromptGrows, StepsGrow
<1> QED BY <1>1, <1>11, <1>13, <1>14, <1>15, <1>16, <1>17

LEMMA TextLayersLead ==
  ASSUME NEW r, NEW n
  PROVE  /\ LET s == TextLayer0(r)
            IN  Leads(s, {}, r, n) /\ HasPrompt(Rng(s), r, "text") /\ HiddenGiven(Rng(s), 1)
         /\ LET s == TextLayer1(r)
            IN  Leads(s, {}, r, n) /\ HasPrompt(Rng(s), r, "text") /\ HiddenGiven(Rng(s), 2)
<1>1. PICK s : s = TextPrompt(r)
  OBVIOUS
<1>2. Leads(s, {}, r, n) /\ HasPrompt(Rng(s), r, "text") /\ Unexpecting(Rng(s))
  BY <1>1, TextPromptLeads
<1>3. Accepted(Rng(s)) => Supplies("text_prompt", Rng(s), r, n)
  BY <1>2, PromptSupplies DEF HasPrompt
<1>4. \A f \in Expectations : f \notin HiddenOf(1) /\ f \notin {Hidden(1)}
  <2>1. Hidden(1) \in HiddenOf(2)
    BY OneLayer
  <2> QED BY <2>1, ExpectationsApart
<1>5. PICK u : u = s \o <<Reload("text_prompt"), Write(Hidden(0), "tokens"), Commit(HiddenOf(1), NoLayers)>>
  OBVIOUS
<1>6. /\ Leads(u, {}, r, n) /\ HasPrompt(Rng(u), r, "text") /\ Unexpecting(Rng(u))
      /\ Wrote(Rng(u), Hidden(0))
  BY <1>2, <1>3, <1>4, <1>5, OneLayer, OneMoreLayer
<1>7. u = TextLayer0(r) /\ HiddenGiven(Rng(u), 1)
  BY <1>1, <1>5, <1>6, OneLayer DEF TextLayer0, HiddenGiven
<1>8. Accepted(Rng(u)) => Supplies("text_layer0", Rng(u), r, n)
  BY <1>6, <1>7, LayerSupplies DEF HasPrompt, HiddenGiven
<1>9. PICK v : v = u \o <<Reload("text_layer0"), Write(Hidden(1), "tokens"), Commit({Hidden(1)}, NoLayers)>>
  OBVIOUS
<1>10. /\ Leads(v, {}, r, n) /\ HasPrompt(Rng(v), r, "text") /\ Unexpecting(Rng(v))
       /\ Rng(u) \subseteq Rng(v) /\ Wrote(Rng(v), Hidden(1))
  BY <1>6, <1>8, <1>4, <1>9, OneMoreLayer
<1>11. Wrote(Rng(v), Hidden(0))
  BY <1>6, <1>10, StepsGrow
<1>12. v = TextLayer1(r) /\ HiddenGiven(Rng(v), 2)
  BY <1>7, <1>9, <1>10, <1>11, OneLayer DEF TextLayer1, HiddenGiven
<1> QED BY <1>6, <1>7, <1>10, <1>12

LEMMA HiddenWritten ==
  ASSUME NEW n \in Nat, NEW b, NEW r, Accepted(b) => Save \in b
  PROVE  /\ Leads(HiddenWrites(n), b, r, n) /\ Commits(Rng(HiddenWrites(n))) = {}
         /\ \A f \in HiddenOf(n) : Wrote(Rng(HiddenWrites(n)), f)
<1>1. PICK s : s = HiddenWrites(n)
  OBVIOUS
<1>2. s = [k \in 1..n |-> s[k]] /\ \A k \in 1..n : s[k] = Write(Hidden(k - 1), "tokens")
  BY <1>1 DEF HiddenWrites
<1>3. \A k \in 1..n : s[k] = Write(Hidden(k - 1), UnitOf(Hidden(k - 1))) /\ Hidden(k - 1) # Mask
  BY <1>2, UnitsAre, MaskApart
<1>4. Leads(s, b, r, n) /\ Rng(s) = {s[k] : k \in 1..n}
  <2>1. \A k \in 1..n : \E f : s[k] = Write(f, UnitOf(f)) /\ f # Mask
    BY <1>3
  <2> QED BY <1>2, <2>1, WritesLead
<1>5. Commits(Rng(s)) = {}
  BY <1>2, <1>4 DEF Commits, Write
<1>6. ASSUME NEW f \in HiddenOf(n) PROVE Wrote(Rng(s), f)
  <2>1. PICK layer \in 0..n - 1 : f = Hidden(layer)
    BY DEF HiddenOf
  <2>2. layer + 1 \in 1..n /\ (layer + 1) - 1 = layer
    OBVIOUS
  <2>3. s[layer + 1] = Write(f, UnitOf(f))
    BY <1>3, <2>1, <2>2
  <2> QED BY <1>4, <2>2, <2>3 DEF Wrote
<1> QED BY <1>1, <1>4, <1>5, <1>6

LEMMA RouterWritten ==
  ASSUME NEW n \in Nat \ {0}, NEW b, NEW r, Accepted(b) => Save \in b
  PROVE  /\ Leads(RouterWrites(n), b, r, n) /\ Commits(Rng(RouterWrites(n))) = {}
         /\ \A f \in RoutersOf(n) : Wrote(Rng(RouterWrites(n)), f)
<1> DEFINE file(k) == <<IF k % 2 = 1 THEN "router_ids" ELSE "router_weights", (k + 1) \div 2>>
<1>1. PICK s : s = RouterWrites(n)
  OBVIOUS
<1>2. PICK m \in Nat : m = 2 * (n - 1)
  OBVIOUS
<1>3. s = [k \in 1..m |-> s[k]] /\ \A k \in 1..m : s[k] = Write(file(k), "tokens")
  BY <1>1, <1>2 DEF RouterWrites
<1>4. \A k \in 1..m : UnitOf(file(k)) = "tokens" /\ file(k) # Mask
  <2>1. \A k \in 1..m : file(k) \in Router((k + 1) \div 2)
    BY DEF Router
  <2> QED BY <2>1, UnitsAre, MaskApart
<1> HIDE DEF file
<1>5. \A k \in 1..m : s[k] = Write(file(k), UnitOf(file(k))) /\ file(k) # Mask
  BY <1>3, <1>4
<1>6. Leads(s, b, r, n) /\ Rng(s) = {s[k] : k \in 1..m}
  <2>1. \A k \in 1..m : \E f : s[k] = Write(f, UnitOf(f)) /\ f # Mask
    BY <1>5
  <2> QED BY <1>3, <2>1, WritesLead
<1>7. Commits(Rng(s)) = {}
  BY <1>3, <1>6 DEF Commits, Write
<1>8. ASSUME NEW f \in RoutersOf(n) PROVE Wrote(Rng(s), f)
  <2>1. PICK layer \in 1..n - 1 : f \in Router(layer)
    BY DEF RoutersOf
  <2>2. PICK k \in 1..m : file(k) = f
    <3>1. CASE f = <<"router_ids", layer>>
      <4>1. /\ 2 * layer - 1 \in 1..m /\ (2 * layer - 1) % 2 = 1
            /\ ((2 * layer - 1) + 1) \div 2 = layer
        BY <1>2
      <4> QED BY <3>1, <4>1 DEF file
    <3>2. CASE f = <<"router_weights", layer>>
      <4>1. 2 * layer \in 1..m /\ (2 * layer) % 2 = 0 /\ (2 * layer + 1) \div 2 = layer
        BY <1>2
      <4> QED BY <3>2, <4>1 DEF file
    <3> QED BY <2>1, <3>1, <3>2 DEF Router
  <2> QED BY <1>5, <1>6, <2>2 DEF Wrote
<1> QED BY <1>1, <1>6, <1>7, <1>8

(* The layers are computed, their hidden states written and committed.     *)
LEMMA LayersCommitted ==
  ASSUME NEW s, NEW r, NEW n \in Nat, NEW of, NEW F, HiddenOf(n) \subseteq F,
         Leads(s, {}, r, n), HasPrompt(Rng(s), r, of), Unexpecting(Rng(s)),
         Accepted(Rng(s)) => n \in 1..LayerCount,
         \A f \in Expectations : f \notin F,
         \A f \in F : f \in HiddenOf(n) \/ Wrote(Rng(s), f)
  PROVE  LET u == s \o HiddenWrites(n) \o <<Commit(F, LayersOf(of, n))>>
         IN  /\ Leads(u, {}, r, n) /\ Unexpecting(Rng(u))
             /\ Accepted(Rng(u)) => LayersGiven(Rng(u), r, n, of)
<1> DEFINE z == Commit(F, LayersOf(of, n))
<1>1. PICK b : b = Rng(s)
  OBVIOUS
<1>2. Accepted(b) => Save \in b
  BY <1>1 DEF HasPrompt, PromptGiven
<1>3. PICK h : h = HiddenWrites(n)
  OBVIOUS
<1>4. Leads(h, b, r, n) /\ Commits(Rng(h)) = {} /\ \A f \in HiddenOf(n) : Wrote(Rng(h), f)
  BY <1>2, <1>3, HiddenWritten
<1>5. PICK t : t = s \o h
  OBVIOUS
<1>6. PICK c : c = Rng(t)
  OBVIOUS
<1>7. Leads(t, {}, r, n) /\ c = b \cup Rng(h)
  BY <1>1, <1>4, <1>5, <1>6, LeadsOn
<1>8. Unexpecting(c)
  BY <1>1, <1>4, <1>7, UnexpectingOf
<1>9. b \subseteq c /\ Rng(h) \subseteq c
  BY <1>7
<1>10. \A f \in F : Wrote(c, f)
  <2>1. \A f : Wrote(b, f) \/ Wrote(Rng(h), f) => Wrote(c, f)
    BY <1>9 DEF Wrote
  <2> QED BY <1>1, <1>4, <2>1
<1>11. Accepted(c) => Save \in c /\ n \in 1..LayerCount
  BY <1>1, <1>2, <1>9, StepsGrow
<1>12. StepHolds(z, c, r, n) /\ Unexpecting(c \cup {z})
  <2>1. PICK L : L = LayersOf(of, n)
    OBVIOUS
  <2>2. \A k \in DOMAIN L : L[k] = n
    BY <2>1 DEF LayersOf
  <2>3. StepHolds(Commit(F, L), c, r, n) /\ Unexpecting(c \cup {Commit(F, L)})
    BY <1>8, <1>10, <1>11, <2>1, <2>2, PlainCommit
  <2> QED BY <2>1, <2>3
<1>13. Leads(<<z>>, c, r, n) /\ Rng(<<z>>) = {z}
  <2> HIDE DEF z
  <2> QED BY <1>12, LeadsOne
<1>14. PICK u : u = t \o <<z>>
  OBVIOUS
<1>15. Leads(u, {}, r, n) /\ Rng(u) = c \cup {z}
  <2> HIDE DEF z
  <2>1. Leads(<<z>>, Rng(t), r, n)
    BY <1>6, <1>13
  <2>2. PICK v : v = <<z>>
    OBVIOUS
  <2>3. Leads(t \o v, {}, r, n) /\ Rng(t \o v) = Rng(t) \cup Rng(v)
    BY <1>7, <2>1, <2>2, LeadsOn
  <2> QED BY <1>6, <1>13, <1>14, <2>2, <2>3
<1>16. PICK e : e = Rng(u)
  OBVIOUS
<1>17. b \subseteq e /\ c \subseteq e /\ Unexpecting(e) /\ z \in e
  BY <1>9, <1>12, <1>15, <1>16
<1>18. ASSUME Accepted(e) PROVE LayersGiven(e, r, n, of)
  <2>1. Accepted(c) /\ Accepted(b)
    BY <1>17, <1>18, StepsGrow
  <2>2. PromptGiven(e, r, of)
    BY <1>1, <1>17, <2>1, PromptGrows DEF HasPrompt
  <2>3. n \in 1..LayerCount
    BY <1>11, <2>1
  <2>4. Counted(e, of)
    <3>1. z.op = "commit" /\ z.layers = LayersOf(of, n)
      BY DEF Commit
    <3>2. of \in DOMAIN z.layers
      BY <3>1 DEF LayersOf
    <3> HIDE DEF z
    <3> QED BY <1>17, <3>1, <3>2 DEF Counted, Commits
  <2>5. \A f \in HiddenOf(n) : Wrote(e, f)
    BY <1>10, <1>17, StepsGrow
  <2> QED BY <2>2, <2>3, <2>4, <2>5 DEF LayersGiven
<1> QED BY <1>3, <1>5, <1>14, <1>15, <1>16, <1>17, <1>18

LEMMA CheckedCount ==
  ASSUME NEW n, NEW b, Check(n \in 1..LayerCount) \in b, Accepted(b)
  PROVE  n \in 1..LayerCount
<1>1. Check(n \in 1..LayerCount).op = "check"
  BY DEF Check
<1>2. Check(n \in 1..LayerCount).holds
  BY <1>1, Zenon DEF Accepted
<1> QED BY <1>2, Zenon DEF Check

(* A check of the count and a load, in either order.                       *)
LEMMA CountAndLoad ==
  ASSUME NEW s, NEW r, NEW n, NEW of, NEW kind, NEW x, NEW y,
         Leads(s, {}, r, n), HasPrompt(Rng(s), r, of), Unexpecting(Rng(s)),
         \A b : Rng(s) \subseteq b => (Accepted(b) => Supplies(kind, b, r, n)),
         {x, y} = {Check(n \in 1..LayerCount), Reload(kind)}
  PROVE  LET u == s \o <<x, y>>
         IN  /\ Leads(u, {}, r, n) /\ HasPrompt(Rng(u), r, of) /\ Unexpecting(Rng(u))
             /\ Accepted(Rng(u)) => n \in 1..LayerCount
<1>1. PICK b : b = Rng(s)
  OBVIOUS
<1>2. ASSUME NEW c, b \subseteq c
      PROVE  StepHolds(x, c, r, n) /\ StepHolds(y, c, r, n)
  <2>1. StepHolds(Check(n \in 1..LayerCount), c, r, n)
    BY CheckStep
  <2>2. StepHolds(Reload(kind), c, r, n)
    BY <1>1, <1>2, ReloadStep
  <2> QED BY <2>1, <2>2
<1>3. PICK v : v = <<x, y>>
  OBVIOUS
<1>4. Leads(v, b, r, n) /\ Rng(v) = {x, y}
  BY <1>2, <1>3, LeadsTwo
<1>5. PICK u : u = s \o v
  OBVIOUS
<1>6. PICK e : e = Rng(u)
  OBVIOUS
<1>7. Leads(u, {}, r, n) /\ e = b \cup {x, y}
  BY <1>1, <1>4, <1>5, <1>6, LeadsOn
<1>8. Commits({x, y}) = {}
  <2>1. Check(n \in 1..LayerCount).op # "commit" /\ Reload(kind).op # "commit"
    BY DEF Check, Reload
  <2> QED BY <2>1 DEF Commits
<1>9. Unexpecting(e)
  BY <1>1, <1>7, <1>8, UnexpectingOf
<1>10. HasPrompt(e, r, of)
  BY <1>1, <1>7, HasPromptGrows
<1>11. Accepted(e) => n \in 1..LayerCount
  <2>1. Check(n \in 1..LayerCount) \in e
    BY <1>7
  <2> QED BY <2>1, CheckedCount
<1> QED BY <1>3, <1>5, <1>6, <1>7, <1>9, <1>10, <1>11

(* dump_text_decoder_layers_fixture                                        *)
LEMMA TextDecoderLead ==
  ASSUME NEW r, NEW n \in Nat
  PROVE  LET s == TextLayers(r, n)
         IN  /\ Leads(s, {}, r, n) /\ Unexpecting(Rng(s))
             /\ Accepted(Rng(s)) => LayersGiven(Rng(s), r, n, "text")
<1>1. PICK s : s = TextPrompt(r)
  OBVIOUS
<1>2. Leads(s, {}, r, n) /\ HasPrompt(Rng(s), r, "text") /\ Unexpecting(Rng(s))
  BY <1>1, TextPromptLeads
<1>3. \A b : Rng(s) \subseteq b => (Accepted(b) => Supplies("text_prompt", b, r, n))
  BY <1>2, HasPromptGrows, PromptSupplies DEF HasPrompt
<1>4. PICK u : u = s \o <<Reload("text_prompt"), Check(n \in 1..LayerCount)>>
  OBVIOUS
<1>5. /\ Leads(u, {}, r, n) /\ HasPrompt(Rng(u), r, "text") /\ Unexpecting(Rng(u))
      /\ Accepted(Rng(u)) => n \in 1..LayerCount
  <2>1. PICK x, y : x = Reload("text_prompt") /\ y = Check(n \in 1..LayerCount)
    OBVIOUS
  <2>2. {x, y} = {Check(n \in 1..LayerCount), Reload("text_prompt")} /\ u = s \o <<x, y>>
    BY <1>4, <2>1
  <2> QED BY <1>2, <1>3, <2>2, CountAndLoad
<1>6. \A f \in Expectations : f \notin HiddenOf(n)
  BY ExpectationsApart
<1>7. TextLayers(r, n) = u \o HiddenWrites(n) \o <<Commit(HiddenOf(n), LayersOf("text", n))>>
  BY <1>1, <1>4 DEF TextLayers
<1> QED BY <1>5, <1>6, <1>7, LayersCommitted

(* dump_image_decoder_layers_fixture                                       *)
LEMMA ImageDecoderLead ==
  ASSUME NEW r, NEW n \in Nat \ {0}
  PROVE  LET s == ImageLayers(r, n)
         IN  /\ Leads(s, {}, r, n) /\ Unexpecting(Rng(s))
             /\ Accepted(Rng(s)) => LayersGiven(Rng(s), r, n, "image")
<1>1. PICK s : s = ImagePrompt(r)
  OBVIOUS
<1>2. Leads(s, {}, r, n) /\ HasPrompt(Rng(s), r, "image") /\ Unexpecting(Rng(s))
  BY <1>1, ImagePromptLeads
<1>3. \A b : Rng(s) \subseteq b => (Accepted(b) => Supplies("image_prompt", b, r, n))
  BY <1>2, HasPromptGrows, PromptSupplies DEF HasPrompt
<1>4. PICK u : u = s \o <<Check(n \in 1..LayerCount), Reload("image_prompt")>>
  OBVIOUS
<1>5. /\ Leads(u, {}, r, n) /\ HasPrompt(Rng(u), r, "image") /\ Unexpecting(Rng(u))
      /\ Accepted(Rng(u)) => n \in 1..LayerCount
  <2>1. PICK x, y : x = Check(n \in 1..LayerCount) /\ y = Reload("image_prompt")
    OBVIOUS
  <2>2. {x, y} = {Check(n \in 1..LayerCount), Reload("image_prompt")} /\ u = s \o <<x, y>>
    BY <1>4, <2>1
  <2> QED BY <1>2, <1>3, <2>2, CountAndLoad
<1>6. PICK h : h = RouterWrites(n)
  OBVIOUS
<1>7. /\ Leads(h, Rng(u), r, n) /\ Commits(Rng(h)) = {}
      /\ \A f \in RoutersOf(n) : Wrote(Rng(h), f)
  <2>1. Accepted(Rng(u)) => Save \in Rng(u)
    BY <1>5 DEF HasPrompt, PromptGiven
  <2>2. PICK b : b = Rng(u)
    OBVIOUS
  <2> QED BY <1>6, <2>1, <2>2, RouterWritten
<1>8. PICK t : t = u \o h
  OBVIOUS
<1>9. Leads(t, {}, r, n) /\ Rng(t) = Rng(u) \cup Rng(h)
  BY <1>5, <1>7, <1>8, LeadsOn
<1>10. PICK b, c, d : b = Rng(u) /\ c = Rng(t) /\ d = Rng(h)
  OBVIOUS
<1>11. b \subseteq c /\ d \subseteq c /\ c = b \cup d
  BY <1>9, <1>10
<1>12. Unexpecting(c) /\ HasPrompt(c, r, "image") /\ (Accepted(c) => n \in 1..LayerCount)
  <2>1. Unexpecting(c)
    BY <1>5, <1>7, <1>10, <1>11, UnexpectingOf
  <2>2. HasPrompt(c, r, "image")
    BY <1>5, <1>10, <1>11, HasPromptGrows
  <2>3. Accepted(c) => Accepted(b)
    BY <1>11, StepsGrow
  <2> QED BY <1>5, <1>10, <2>1, <2>2, <2>3
<1>13. PICK F : F = HiddenOf(n) \cup RoutersOf(n)
  OBVIOUS
<1>14. HiddenOf(n) \subseteq F /\ \A f \in F : f \in HiddenOf(n) \/ Wrote(c, f)
  <2>1. \A f : Wrote(d, f) => Wrote(c, f)
    BY <1>11, StepsGrow
  <2> QED BY <1>7, <1>10, <1>13, <2>1
<1>15. \A f \in Expectations : f \notin F
  BY <1>13, ExpectationsApart
<1>16. ImageLayers(r, n) = t \o HiddenWrites(n) \o <<Commit(F, LayersOf("image", n))>>
  BY <1>1, <1>4, <1>6, <1>8, <1>13 DEF ImageLayers
<1> QED BY <1>9, <1>10, <1>12, <1>14, <1>15, <1>16, LayersCommitted

-----------------------------------------------------------------------------
(* The expectations.                                                       *)

(* What a commit of an expectation asks for.                               *)
LEMMA CompleteOfLogits ==
  ASSUME NEW b, NEW r, NEW of, LogitsGiven(b, r, LayerCount, of),
         of = "image" => (Committed(b, Generated) => Wrote(b, GeneratedText))
  PROVE  Complete(b, r, LayerCount)
<1>1. /\ \A f \in PromptParts \cup HiddenOf(LayerCount) \cup Logits : Wrote(b, f)
      /\ IF of = "image" THEN Wrote(b, Visual) ELSE r.images = 0
  BY DEF LogitsGiven, LayersGiven, PromptGiven
<1>2. CASE of = "image"
  BY <1>1, <1>2 DEF Complete
<1>3. CASE of # "image"
  <2>1. Span(r) = 0
    BY <1>1, <1>3 DEF Span
  <2> QED BY <1>1, <2>1 DEF Complete
<1> QED BY <1>2, <1>3

(* dump_text_logits_topk_fixture, dump_image_logits_topk_fixture           *)
LEMMA LogitsCommitted ==
  ASSUME NEW s, NEW r, NEW of \in {"text", "image"}, NEW kind, kind = LayersKind(of),
         Leads(s, {}, r, LayerCount), Unexpecting(Rng(s)),
         Accepted(Rng(s)) => LayersGiven(Rng(s), r, LayerCount, of)
  PROVE  LET u == s \o <<Reload(kind)>> \o LogitsWrites
         IN  /\ Leads(u, {}, r, LayerCount) /\ ~Committed(Rng(u), Generated)
             /\ Accepted(Rng(u)) => LogitsGiven(Rng(u), r, LayerCount, of)
<1> DEFINE ids == <<"logits_ids", 0>>
           scores == <<"logits_scores", 0>>
           x == Write(ids, "topk")
           y == Write(scores, "topk")
           z == Commit(Logits, NoLayers)
<1>1. PICK b : b = Rng(s)
  OBVIOUS
<1>2. PICK q : q = Reload(kind)
  OBVIOUS
<1>3. StepHolds(q, b, r, LayerCount) /\ Commits({q}) = {}
  <2>1. StepHolds(q, b, r, LayerCount)
    BY <1>1, <1>2, LayersSupply, ReloadStep
  <2>2. q.op # "commit"
    BY <1>2 DEF Reload
  <2> QED BY <2>1, <2>2 DEF Commits
<1>4. PICK t : t = s \o <<q>>
  OBVIOUS
<1>5. PICK c : c = Rng(t)
  OBVIOUS
<1>6. Leads(t, {}, r, LayerCount) /\ c = b \cup {q}
  <2>1. PICK v : v = <<q>>
    OBVIOUS
  <2>2. Leads(v, b, r, LayerCount) /\ Rng(v) = {q}
    BY <1>3, <2>1, LeadsOne
  <2> QED BY <1>1, <1>4, <1>5, <2>1, <2>2, LeadsOn
<1>7. Unexpecting(c) /\ (Accepted(c) => LayersGiven(c, r, LayerCount, of))
  <2>1. b \subseteq c
    BY <1>6
  <2>2. Accepted(c) => Accepted(b)
    BY <2>1, StepsGrow
  <2> QED BY <1>1, <1>3, <1>6, <2>1, <2>2, UnexpectingOf, LayersGrow
<1>8. Accepted(c) => Save \in c
  BY <1>7 DEF LayersGiven, PromptGiven
<1>9. Logits = {ids, scores} /\ UnitOf(ids) = "topk" /\ UnitOf(scores) = "topk"
      /\ ids # Mask /\ scores # Mask
  <2>1. Logits = {ids, scores}
    BY DEF Logits
  <2> QED BY <2>1, UnitsAre, MaskApart
<1> HIDE DEF ids, scores
<1>10. /\ StepHolds(x, c, r, LayerCount) /\ Wrote(c \cup {x}, ids)
       /\ Commits(c \cup {x}) = Commits(c)
  BY <1>8, <1>9, WriteAfterSave, WriteAdds
<1>11. PICK c2 : c2 = c \cup {x}
  OBVIOUS
<1>12. Accepted(c2) => Save \in c2
  <2> HIDE DEF x
  <2> QED BY <1>8, <1>11, StepsGrow
<1>13. /\ StepHolds(y, c2, r, LayerCount) /\ Wrote(c2 \cup {y}, scores)
       /\ Commits(c2 \cup {y}) = Commits(c2)
  BY <1>9, <1>12, WriteAfterSave, WriteAdds
<1>14. PICK c3 : c3 = c2 \cup {y}
  OBVIOUS
<1>15. Commits(c3) = Commits(c) /\ \A f \in Logits : Wrote(c3, f)
  <2>1. Wrote(c3, ids) /\ Wrote(c3, scores)
    <3>1. c2 \subseteq c3
      BY <1>14
    <3> QED BY <1>10, <1>11, <1>13, <1>14, <3>1, StepsGrow
  <2> QED BY <1>9, <1>10, <1>11, <1>13, <1>14, <2>1
<1>16. PICK e : e = c3 \cup {z}
  OBVIOUS
<1>17. c \subseteq c3 /\ c3 \subseteq e /\ c \subseteq e
  BY <1>11, <1>14, <1>16
<1>18. \A f : Committed(e, f) <=> Committed(c, f) \/ f \in Logits
  <2>1. \A f : Committed(c3, f) <=> Committed(c, f)
    BY <1>15 DEF Committed
  <2>2. \A f : Committed(e, f) <=> Committed(c3, f) \/ f \in Logits
    BY <1>16, CommittedOf
  <2> QED BY <2>1, <2>2
<1>19. ~Committed(e, Generated)
  <2>1. Generated \notin Logits /\ Generated \in Expectations
    BY DEF Generated, Logits, Expectations
  <2> QED BY <1>7, <1>18, <2>1 DEF Unexpecting
<1>20. Accepted(c3) => LogitsGiven(e, r, LayerCount, of)
  <2>1. Accepted(c3) => LayersGiven(e, r, LayerCount, of)
    BY <1>7, <1>17, StepsGrow, LayersGrow
  <2>2. \A f \in Logits : Wrote(e, f) /\ Committed(e, f)
    BY <1>15, <1>17, <1>18, StepsGrow
  <2> QED BY <2>1, <2>2 DEF LogitsGiven
<1>21. StepHolds(z, c3, r, LayerCount)
  <2>1. Accepted(c3) => Save \in c3
    BY <1>8, <1>17, StepsGrow
  <2>2. Accepted(c3) => Complete(e, r, LayerCount)
    BY <1>19, <1>20, CompleteOfLogits
  <2>3. \A of2 \in DOMAIN NoLayers : NoLayers[of2] = LayerCount
    BY DEF NoLayers
  <2> QED BY <1>15, <1>16, <2>1, <2>2, <2>3, CommitStep
<1>22. PICK v : v = <<x, y, z>>
  OBVIOUS
<1>23. Leads(v, c, r, LayerCount) /\ Rng(v) = {x, y, z}
  <2>1. c \cup {x} = c2 /\ c \cup {x, y} = c3
    BY <1>11, <1>14
  <2> HIDE DEF x, y, z
  <2>2. StepHolds(y, c \cup {x}, r, LayerCount) /\ StepHolds(z, c \cup {x, y}, r, LayerCount)
    BY <2>1, <1>13, <1>21, Zenon
  <2> QED BY <1>10, <1>22, <2>2, LeadsThree
<1>24. PICK u : u = t \o v
  OBVIOUS
<1>25. Leads(u, {}, r, LayerCount) /\ Rng(u) = e
  <2>1. Leads(u, {}, r, LayerCount) /\ Rng(u) = c \cup {x, y, z}
    <3> HIDE DEF x, y, z
    <3>1. Leads(v, Rng(t), r, LayerCount)
      BY <1>5, <1>23
    <3>2. Leads(t \o v, {}, r, LayerCount) /\ Rng(t \o v) = Rng(t) \cup Rng(v)
      BY <1>6, <3>1, LeadsOn
    <3> QED BY <1>5, <1>23, <1>24, <3>2
  <2>2. c \cup {x, y, z} = e
    BY <1>11, <1>14, <1>16
  <2> QED BY <2>1, <2>2, Zenon
<1>26. LogitsWrites = v
  BY <1>22 DEF LogitsWrites, ids, scores
<1>27. Accepted(e) => Accepted(c3)
  BY <1>17, StepsGrow
<1> QED BY <1>2, <1>4, <1>19, <1>20, <1>24, <1>25, <1>26, <1>27

LEMMA LogitsLead ==
  ASSUME NEW r
  PROVE  /\ LET s == TextLogits(r)
            IN  /\ Leads(s, {}, r, LayerCount) /\ ~Committed(Rng(s), Generated)
                /\ Accepted(Rng(s)) => LogitsGiven(Rng(s), r, LayerCount, "text")
         /\ LET s == ImageLogits(r)
            IN  /\ Leads(s, {}, r, LayerCount) /\ ~Committed(Rng(s), Generated)
                /\ Accepted(Rng(s)) => LogitsGiven(Rng(s), r, LayerCount, "image")
<1>1. PICK s, t : s = TextLayers(r, LayerCount) /\ t = ImageLayers(r, LayerCount)
  OBVIOUS
<1>2. LayerCount \in Nat \ {0}
  BY GoldenAssumption
<1>3. /\ Leads(s, {}, r, LayerCount) /\ Unexpecting(Rng(s))
      /\ Accepted(Rng(s)) => LayersGiven(Rng(s), r, LayerCount, "text")
  BY <1>1, <1>2, TextDecoderLead
<1>4. /\ Leads(t, {}, r, LayerCount) /\ Unexpecting(Rng(t))
      /\ Accepted(Rng(t)) => LayersGiven(Rng(t), r, LayerCount, "image")
  BY <1>1, <1>2, ImageDecoderLead
<1>5. LayersKind("text") = "text_layers" /\ LayersKind("image") = "image_layers"
  BY DEF LayersKind
<1>6. /\ TextLogits(r) = s \o <<Reload("text_layers")>> \o LogitsWrites
      /\ ImageLogits(r) = t \o <<Reload("image_layers")>> \o LogitsWrites
  BY <1>1 DEF TextLogits, ImageLogits
<1>7. LET u == s \o <<Reload("text_layers")>> \o LogitsWrites
      IN  /\ Leads(u, {}, r, LayerCount) /\ ~Committed(Rng(u), Generated)
          /\ Accepted(Rng(u)) => LogitsGiven(Rng(u), r, LayerCount, "text")
  BY <1>3, <1>5, LogitsCommitted
<1>8. LET u == t \o <<Reload("image_layers")>> \o LogitsWrites
      IN  /\ Leads(u, {}, r, LayerCount) /\ ~Committed(Rng(u), Generated)
          /\ Accepted(Rng(u)) => LogitsGiven(Rng(u), r, LayerCount, "image")
  BY <1>4, <1>5, LogitsCommitted
<1> QED BY <1>6, <1>7, <1>8

(* dump_text_generated_ids_fixture, dump_image_generated_ids_fixture       *)
LEMMA GeneratedCommitted ==
  ASSUME NEW b, NEW r, NEW of, NEW F, Generated \in F, \A f \in F : Wrote(b, f),
         of = "image" => Wrote(b, GeneratedText),
         Accepted(b) => LogitsGiven(b, r, LayerCount, of)
  PROVE  /\ StepHolds(Commit(F, NoLayers), b, r, LayerCount)
         /\ LET e == b \cup {Commit(F, NoLayers)}
            IN  Accepted(e) => GeneratedGiven(e, r, LayerCount, of)
<1>1. PICK e : e = b \cup {Commit(F, NoLayers)}
  OBVIOUS
<1>2. b \subseteq e
  BY <1>1
<1>3. Accepted(b) => GeneratedGiven(e, r, LayerCount, of)
  <2>1. Committed(e, Generated)
    BY <1>1, CommittedOf
  <2>2. Wrote(e, Generated) /\ (of = "image" => Wrote(e, GeneratedText))
    BY <1>2, StepsGrow
  <2>3. Accepted(b) => LogitsGiven(e, r, LayerCount, of)
    BY <1>2, LogitsGrow
  <2> QED BY <2>1, <2>2, <2>3 DEF GeneratedGiven
<1>4. Accepted(e) => Accepted(b)
  BY <1>2, StepsGrow
<1>5. Accepted(b) => Complete(e, r, LayerCount)
  BY <1>3, CompleteOfLogits DEF GeneratedGiven
<1>6. Accepted(b) => Save \in b
  BY DEF LogitsGiven, LayersGiven, PromptGiven
<1>7. \A k \in DOMAIN NoLayers : NoLayers[k] = LayerCount
  BY DEF NoLayers
<1>8. StepHolds(Commit(F, NoLayers), b, r, LayerCount)
  BY <1>1, <1>5, <1>6, <1>7, CommitStep
<1> QED BY <1>1, <1>3, <1>4, <1>8

(* The load that comes first, and a write.                                 *)
LEMMA GeneratedWritten ==
  ASSUME NEW b, NEW r, NEW of \in {"text", "image"}, NEW kind, kind = LogitsKind(of),
         Accepted(b) => LogitsGiven(b, r, LayerCount, of)
  PROVE  /\ StepHolds(Reload(kind), b, r, LayerCount)
         /\ LET c == b \cup {Reload(kind)}
            IN  /\ StepHolds(Write(Generated, "one"), c, r, LayerCount)
                /\ Accepted(c) => LogitsGiven(c, r, LayerCount, of)
         /\ LET c == b \cup {Reload(kind), Write(Generated, "one")}
            IN  /\ StepHolds(Write(GeneratedText, "one"), c, r, LayerCount)
                /\ Wrote(c, Generated)
                /\ Accepted(c) => LogitsGiven(c, r, LayerCount, of)
         /\ LET c == b \cup {Reload(kind), Write(Generated, "one"), Write(GeneratedText, "one")}
            IN  /\ Wrote(c, Generated) /\ Wrote(c, GeneratedText)
                /\ Accepted(c) => LogitsGiven(c, r, LayerCount, of)
<1>1. StepHolds(Reload(kind), b, r, LayerCount)
  BY LogitsSupply, ReloadStep
<1>2. ASSUME NEW c, b \subseteq c PROVE Accepted(c) => LogitsGiven(c, r, LayerCount, of) /\ Save \in c
  <2>1. Accepted(c) => LogitsGiven(c, r, LayerCount, of)
    BY <1>2, StepsGrow, LogitsGrow
  <2> QED BY <2>1 DEF LogitsGiven, LayersGiven, PromptGiven
<1>3. ASSUME NEW c, b \subseteq c
      PROVE  /\ StepHolds(Write(Generated, "one"), c, r, LayerCount)
             /\ StepHolds(Write(GeneratedText, "one"), c, r, LayerCount)
  BY <1>2, <1>3, WriteAfterSave, UnitsAre, MaskApart
<1>4. ASSUME NEW c, Write(Generated, "one") \in c PROVE Wrote(c, Generated)
  BY <1>4, UnitsAre DEF Wrote
<1>5. ASSUME NEW c, Write(GeneratedText, "one") \in c PROVE Wrote(c, GeneratedText)
  BY <1>5, UnitsAre DEF Wrote
<1> QED BY <1>1, <1>2, <1>3, <1>4, <1>5

LEMMA GeneratedLead ==
  ASSUME NEW r
  PROVE  /\ LET s == TextGenerated(r)
            IN  /\ Leads(s, {}, r, LayerCount)
                /\ Accepted(Rng(s)) => GeneratedGiven(Rng(s), r, LayerCount, "text")
         /\ LET s == ImageGenerated(r)
            IN  /\ Leads(s, {}, r, LayerCount)
                /\ Accepted(Rng(s)) => GeneratedGiven(Rng(s), r, LayerCount, "image")
<1> DEFINE y == Write(Generated, "one")
           w == Write(GeneratedText, "one")
<1>1. LogitsKind("text") = "text_logits" /\ LogitsKind("image") = "image_logits"
  BY DEF LogitsKind
<1>2. LET s == TextGenerated(r)
      IN  /\ Leads(s, {}, r, LayerCount)
          /\ Accepted(Rng(s)) => GeneratedGiven(Rng(s), r, LayerCount, "text")
  <2> DEFINE x == Reload("text_logits")
             z == Commit({Generated}, NoLayers)
  <2>1. PICK s : s = TextLogits(r)
    OBVIOUS
  <2>2. PICK b : b = Rng(s)
    OBVIOUS
  <2>3. Leads(s, {}, r, LayerCount) /\ (Accepted(b) => LogitsGiven(b, r, LayerCount, "text"))
    BY <2>1, <2>2, LogitsLead
  <2>4. PICK c : c = b \cup {x, y}
    OBVIOUS
  <2>5. /\ StepHolds(x, b, r, LayerCount) /\ StepHolds(y, b \cup {x}, r, LayerCount)
        /\ Wrote(c, Generated) /\ (Accepted(c) => LogitsGiven(c, r, LayerCount, "text"))
    BY <1>1, <2>3, <2>4, GeneratedWritten
  <2>6. PICK e : e = c \cup {z}
    OBVIOUS
  <2>7. StepHolds(z, c, r, LayerCount) /\ (Accepted(e) => GeneratedGiven(e, r, LayerCount, "text"))
    <3>1. PICK F : F = {Generated}
      OBVIOUS
    <3>2. "text" # "image" /\ Generated \in F /\ \A f \in F : Wrote(c, f)
      BY <2>5, <3>1
    <3>3. /\ StepHolds(Commit(F, NoLayers), c, r, LayerCount)
          /\ LET d == c \cup {Commit(F, NoLayers)}
             IN  Accepted(d) => GeneratedGiven(d, r, LayerCount, "text")
      BY <2>5, <3>2, GeneratedCommitted
    <3> QED BY <2>6, <3>1, <3>3
  <2>8. PICK v : v = <<x, y, z>>
    OBVIOUS
  <2>9. Leads(v, b, r, LayerCount) /\ Rng(v) = {x, y, z}
    <3> HIDE DEF x, y, z
    <3> QED BY <2>4, <2>5, <2>7, <2>8, LeadsThree
  <2>10. Leads(s \o v, {}, r, LayerCount) /\ Rng(s \o v) = b \cup {x, y, z}
    <3>1. Leads(s \o v, {}, r, LayerCount) /\ Rng(s \o v) = Rng(s) \cup Rng(v)
      BY <2>2, <2>3, <2>9, LeadsOn
    <3> HIDE DEF x, y, z
    <3> QED BY <2>2, <2>9, <3>1
  <2>11. b \cup {x, y, z} = e
    BY <2>4, <2>6
  <2>12. TextGenerated(r) = s \o v
    BY <2>1, <2>8 DEF TextGenerated
  <2> QED BY <2>7, <2>10, <2>11, <2>12
<1>3. LET s == ImageGenerated(r)
      IN  /\ Leads(s, {}, r, LayerCount)
          /\ Accepted(Rng(s)) => GeneratedGiven(Rng(s), r, LayerCount, "image")
  <2> DEFINE x == Reload("image_logits")
             z == Commit({Generated, GeneratedText}, NoLayers)
  <2>1. PICK s : s = ImageLogits(r)
    OBVIOUS
  <2>2. PICK b : b = Rng(s)
    OBVIOUS
  <2>3. Leads(s, {}, r, LayerCount) /\ (Accepted(b) => LogitsGiven(b, r, LayerCount, "image"))
    BY <2>1, <2>2, LogitsLead
  <2>4. PICK c : c = b \cup {x, y, w}
    OBVIOUS
  <2>5. /\ StepHolds(x, b, r, LayerCount) /\ StepHolds(y, b \cup {x}, r, LayerCount)
        /\ StepHolds(w, b \cup {x, y}, r, LayerCount)
        /\ Wrote(c, Generated) /\ Wrote(c, GeneratedText)
        /\ (Accepted(c) => LogitsGiven(c, r, LayerCount, "image"))
    BY <1>1, <2>3, <2>4, GeneratedWritten
  <2>6. PICK e : e = c \cup {z}
    OBVIOUS
  <2>7. StepHolds(z, c, r, LayerCount) /\ (Accepted(e) => GeneratedGiven(e, r, LayerCount, "image"))
    <3>1. PICK F : F = {Generated, GeneratedText}
      OBVIOUS
    <3>2. Generated \in F /\ \A f \in F : Wrote(c, f)
      BY <2>5, <3>1
    <3>3. /\ StepHolds(Commit(F, NoLayers), c, r, LayerCount)
          /\ LET d == c \cup {Commit(F, NoLayers)}
             IN  Accepted(d) => GeneratedGiven(d, r, LayerCount, "image")
      BY <2>5, <3>2, GeneratedCommitted
    <3> QED BY <2>6, <3>1, <3>3
  <2>8. PICK v : v = <<x, y, w, z>>
    OBVIOUS
  <2>9. Leads(v, b, r, LayerCount) /\ Rng(v) = {x, y, w, z}
    <3> HIDE DEF x, y, w, z
    <3> QED BY <2>4, <2>5, <2>7, <2>8, LeadsFour
  <2>10. Leads(s \o v, {}, r, LayerCount) /\ Rng(s \o v) = b \cup {x, y, w, z}
    <3>1. Leads(s \o v, {}, r, LayerCount) /\ Rng(s \o v) = Rng(s) \cup Rng(v)
      BY <2>2, <2>3, <2>9, LeadsOn
    <3> HIDE DEF x, y, w, z
    <3> QED BY <2>2, <2>9, <3>1
  <2>11. b \cup {x, y, w, z} = e
    BY <2>4, <2>6
  <2>12. ImageGenerated(r) = s \o v
    BY <2>1, <2>8 DEF ImageGenerated
  <2> QED BY <2>7, <2>10, <2>11, <2>12
<1> QED BY <1>2, <1>3

(* Every dump.  What it needs is there when it does not fail, and what it  *)
(* is meant to be loaded for, once it is done.                             *)
LEMMA StepsLead ==
  ASSUME NEW kind \in Kinds, NEW r, NEW n \in Nat \ {0},
         kind \notin {"text_layers", "image_layers"} => n = LayerCount
  PROVE  LET s == Steps(kind, r, n)
         IN  /\ Leads(s, {}, r, n)
             /\ Accepted(Rng(s)) =>
                  /\ \A k \in ReadBack(kind, n) : Supplies(k, Rng(s), r, n)
                  /\ r.images > 0 => Committed(Rng(s), Visual) /\ Wrote(Rng(s), Visual)
                                     /\ Span(r) > 0
<1> DEFINE Back(b) == \A k \in ReadBack(kind, n) : Supplies(k, b, r, n)
           Image(b) == r.images > 0 => Committed(b, Visual) /\ Wrote(b, Visual) /\ Span(r) > 0
<1>1. PICK s : s = Steps(kind, r, n)
  OBVIOUS
<1>2. PICK b : b = Rng(s)
  OBVIOUS
<1>3. \A of : PromptGiven(b, r, of) => Image(b)
  BY DEF PromptGiven
<1>4. ASSUME NEW of, PromptGiven(b, r, of)
      PROVE  Supplies("text_prompt", b, r, n) /\ (of = "image" => Supplies("image_prompt", b, r, n))
  BY <1>4, PromptSupplies
<1>5. CASE kind = "text_prompt"
  <2>1. Leads(s, {}, r, n) /\ HasPrompt(b, r, "text")
    BY <1>1, <1>2, <1>5, TextPromptLeads DEF Steps
  <2>2. ReadBack(kind, n) = {"text_prompt"}
    BY <1>5 DEF ReadBack
  <2> QED BY <1>1, <1>2, <1>3, <1>4, <2>1, <2>2 DEF HasPrompt
<1>6. CASE kind = "image_prompt"
  <2>1. Leads(s, {}, r, n) /\ HasPrompt(b, r, "image")
    BY <1>1, <1>2, <1>6, ImagePromptLeads DEF Steps
  <2>2. ReadBack(kind, n) = {"text_prompt", "image_prompt"}
    BY <1>6 DEF ReadBack
  <2> QED BY <1>1, <1>2, <1>3, <1>4, <2>1, <2>2 DEF HasPrompt
<1>7. CASE kind = "text_layer0"
  <2>1. Leads(s, {}, r, n) /\ HasPrompt(b, r, "text") /\ HiddenGiven(b, 1)
    BY <1>1, <1>2, <1>7, TextLayersLead DEF Steps
  <2>2. ReadBack(kind, n) = {"text_prompt", "text_layer0"}
    BY <1>7 DEF ReadBack
  <2> QED BY <1>1, <1>2, <1>3, <1>4, <2>1, <2>2, LayerSupplies DEF HasPrompt, HiddenGiven
<1>8. CASE kind = "text_layer1"
  <2>1. Leads(s, {}, r, n) /\ HasPrompt(b, r, "text") /\ HiddenGiven(b, 2)
    BY <1>1, <1>2, <1>8, TextLayersLead DEF Steps
  <2>2. ReadBack(kind, n) = {"text_prompt", "text_layer0", "text_layer1"}
    BY <1>8 DEF ReadBack
  <2>3. HiddenOf(1) \subseteq HiddenOf(2)
    BY OneLayer
  <2> QED BY <1>1, <1>2, <1>3, <1>4, <2>1, <2>2, <2>3, LayerSupplies DEF HasPrompt, HiddenGiven
<1>9. CASE kind = "text_layers"
  <2>1. Leads(s, {}, r, n) /\ (Accepted(b) => LayersGiven(b, r, n, "text"))
    BY <1>1, <1>2, <1>9, TextDecoderLead DEF Steps
  <2>2. ReadBack(kind, n) = {"text_prompt", "text_layer0", "text_layers"}
                              \cup (IF n > 1 THEN {"text_layer1"} ELSE {})
    BY <1>9 DEF ReadBack
  <2>3. ASSUME LayersGiven(b, r, n, "text") PROVE Back(b) /\ Image(b)
    <3>1. PromptGiven(b, r, "text") /\ \A f \in HiddenOf(n) : Wrote(b, f)
      BY <2>3 DEF LayersGiven
    <3>2. Supplies("text_layers", b, r, n)
      BY <2>3, LayersSupply DEF LayersKind
    <3>3. HiddenOf(1) \subseteq HiddenOf(n) /\ (n > 1 => HiddenOf(2) \subseteq HiddenOf(n))
      BY DEF HiddenOf
    <3>4. Supplies("text_layer0", b, r, n) /\ (n > 1 => Supplies("text_layer1", b, r, n))
      BY <3>1, <3>3, LayerSupplies
    <3> QED BY <1>3, <1>4, <2>2, <3>1, <3>2, <3>4
  <2> QED BY <1>1, <1>2, <2>1, <2>3
<1>10. CASE kind = "image_layers"
  <2>1. Leads(s, {}, r, n) /\ (Accepted(b) => LayersGiven(b, r, n, "image"))
    BY <1>1, <1>2, <1>10, ImageDecoderLead DEF Steps
  <2>2. ReadBack(kind, n) = {"image_prompt", "image_layers"}
    BY <1>10 DEF ReadBack
  <2>3. ASSUME LayersGiven(b, r, n, "image") PROVE Back(b) /\ Image(b)
    <3>1. PromptGiven(b, r, "image")
      BY <2>3 DEF LayersGiven
    <3>2. Supplies("image_layers", b, r, n)
      BY <2>3, LayersSupply DEF LayersKind
    <3> QED BY <1>3, <1>4, <2>2, <3>1, <3>2
  <2> QED BY <1>1, <1>2, <2>1, <2>3
<1>11. CASE kind = "text_logits"
  <2>1. n = LayerCount
    BY <1>11
  <2>2. Leads(s, {}, r, n) /\ (Accepted(b) => LogitsGiven(b, r, n, "text"))
    BY <1>1, <1>2, <1>11, <2>1, LogitsLead DEF Steps
  <2>3. ReadBack(kind, n) = {"text_prompt", "text_layers", "text_logits"}
    BY <1>11 DEF ReadBack
  <2>4. ASSUME LogitsGiven(b, r, n, "text") PROVE Back(b) /\ Image(b)
    <3>1. LayersGiven(b, r, n, "text") /\ PromptGiven(b, r, "text")
      BY <2>4 DEF LayersGiven, LogitsGiven
    <3>2. Supplies("text_layers", b, r, n) /\ Supplies("text_logits", b, r, n)
      BY <2>4, <3>1, LayersSupply, LogitsSupply DEF LayersKind, LogitsKind
    <3> QED BY <1>3, <1>4, <2>3, <3>1, <3>2
  <2> QED BY <1>1, <1>2, <2>2, <2>4
<1>12. CASE kind = "image_logits"
  <2>1. n = LayerCount
    BY <1>12
  <2>2. Leads(s, {}, r, n) /\ (Accepted(b) => LogitsGiven(b, r, n, "image"))
    BY <1>1, <1>2, <1>12, <2>1, LogitsLead DEF Steps
  <2>3. ReadBack(kind, n) = {"image_prompt", "image_layers", "image_logits"}
    BY <1>12 DEF ReadBack
  <2>4. ASSUME LogitsGiven(b, r, n, "image") PROVE Back(b) /\ Image(b)
    <3>1. LayersGiven(b, r, n, "image") /\ PromptGiven(b, r, "image")
      BY <2>4 DEF LayersGiven, LogitsGiven
    <3>2. Supplies("image_layers", b, r, n) /\ Supplies("image_logits", b, r, n)
      BY <2>4, <3>1, LayersSupply, LogitsSupply DEF LayersKind, LogitsKind
    <3> QED BY <1>3, <1>4, <2>3, <3>1, <3>2
  <2> QED BY <1>1, <1>2, <2>2, <2>4
<1>13. CASE kind = "text_generated"
  <2>1. n = LayerCount
    BY <1>13
  <2>2. Leads(s, {}, r, n) /\ (Accepted(b) => GeneratedGiven(b, r, n, "text"))
    BY <1>1, <1>2, <1>13, <2>1, GeneratedLead DEF Steps
  <2>3. ReadBack(kind, n) = {"text_prompt", "text_layers", "text_logits", "text_generated"}
    BY <1>13 DEF ReadBack
  <2>4. ASSUME GeneratedGiven(b, r, n, "text") PROVE Back(b) /\ Image(b)
    <3>1. LogitsGiven(b, r, n, "text") /\ LayersGiven(b, r, n, "text") /\ PromptGiven(b, r, "text")
      BY <2>4 DEF LayersGiven, LogitsGiven, GeneratedGiven
    <3>2. Supplies("text_layers", b, r, n) /\ Supplies("text_logits", b, r, n)
      BY <3>1, LayersSupply, LogitsSupply DEF LayersKind, LogitsKind
    <3>3. Supplies("text_generated", b, r, n)
      BY <2>4, GeneratedSupplies DEF GeneratedKind
    <3> QED BY <1>3, <1>4, <2>3, <3>1, <3>2, <3>3
  <2> QED BY <1>1, <1>2, <2>2, <2>4
<1>14. CASE kind = "image_generated"
  <2>1. n = LayerCount
    BY <1>14
  <2>2. Leads(s, {}, r, n) /\ (Accepted(b) => GeneratedGiven(b, r, n, "image"))
    BY <1>1, <1>2, <1>14, <2>1, GeneratedLead DEF Steps
  <2>3. ReadBack(kind, n) = {"image_prompt", "image_layers", "image_logits", "image_generated"}
    BY <1>14 DEF ReadBack
  <2>4. ASSUME GeneratedGiven(b, r, n, "image") PROVE Back(b) /\ Image(b)
    <3>1. LogitsGiven(b, r, n, "image") /\ LayersGiven(b, r, n, "image") /\ PromptGiven(b, r, "image")
      BY <2>4 DEF LayersGiven, LogitsGiven, GeneratedGiven
    <3>2. Supplies("image_layers", b, r, n) /\ Supplies("image_logits", b, r, n)
      BY <3>1, LayersSupply, LogitsSupply DEF LayersKind, LogitsKind
    <3>3. Supplies("image_generated", b, r, n)
      BY <2>4, GeneratedSupplies DEF GeneratedKind
    <3> QED BY <1>3, <1>4, <2>3, <3>1, <3>2, <3>3
  <2> QED BY <1>1, <1>2, <2>2, <2>4
<1> QED BY <1>5, <1>6, <1>7, <1>8, <1>9, <1>10, <1>11, <1>12, <1>13, <1>14 DEF Kinds

-----------------------------------------------------------------------------
(* The inductive invariant.                                                *)

StepsDone == Before(Todo, job.at)

JobOk ==
  /\ job = [phase |-> job.phase, kind |-> job.kind, req |-> job.req, n |-> job.n,
            at |-> job.at, of |-> {dumps}, tokens |-> job.req.tokens]
  /\ job.kind \in Kinds /\ job.req \in Requests /\ job.n \in Nat \ {0}
  /\ job.kind \notin {"text_layers", "image_layers"} => job.n = LayerCount
  /\ job.at \in 1..Len(Todo) + 1
  /\ job.phase = "done" => job.at = Len(Todo) + 1
  /\ Accepted(StepsDone)

(* What the dump has written is there, with its data.                      *)
FilesOk ==
  \A x \in StepsDone : x.op = "write" =>
    x.file \in DOMAIN disk /\ disk[x.file] = Content(x.file, RowsOf(UnitOf(x.file)))

(* The manifest tells what the dump has committed, and nothing else.       *)
ManifestOk ==
  Save \in StepsDone =>
    /\ manifest = [is |-> "whole", by |-> dumps, images |-> job.req.images,
                   named |-> manifest.named, layers |-> manifest.layers]
    /\ DOMAIN manifest.named = UNION {x.files : x \in Commits(StepsDone)}
    /\ \A f \in DOMAIN manifest.named : Wrote(StepsDone, f) /\ manifest.named[f] = RowsOf(UnitOf(f))
    /\ DOMAIN manifest.layers = UNION {DOMAIN x.layers : x \in Commits(StepsDone)}
    /\ \A of \in DOMAIN manifest.layers : manifest.layers[of] = job.n

DumpOk == job.phase \in {"running", "done"} => JobOk /\ FilesOk /\ ManifestOk

(* Whatever became of the dump that named an expectation: everything that  *)
(* comes with it is of that dump.                                          *)
OfItsDump(f) == f \in DOMAIN disk /\ disk[f].of = {manifest.by}
ExpectationsOk ==
  Readable /\ (\E f \in Expectations : Named(f)) =>
    /\ \A f \in PromptParts \cup HiddenOf(LayerCount) \cup Logits : OfItsDump(f)
    /\ \A f \in RoutersOf(LayerCount) \cup {Generated} : Named(f) => OfItsDump(f)
    /\ \A of \in DOMAIN manifest.layers : manifest.layers[of] = LayerCount
    /\ disk[Mask].span > 0 =>
         OfItsDump(Visual) /\ (Named(Generated) => OfItsDump(GeneratedText))

DirectoryOk ==
  /\ job.phase \in {"none", "running", "done"} /\ dumps \in Nat
  /\ DumpOk /\ ExpectationsOk

-----------------------------------------------------------------------------
(* What a dump has written loads as its own.                               *)

LEMMA SourcesOfOne ==
  ASSUME NEW F, NEW g \in F, NEW d, \A f \in F : disk[f].of = {d}
  PROVE  Sources(F) = {d}
<1>1. \A f \in F : d \in disk[f].of /\ \A x \in disk[f].of : x = d
  OBVIOUS
<1> QED BY <1>1 DEF Sources

(* The files of the dump, as the loads see them.                           *)
Mine(f) ==
  /\ f \in DOMAIN disk /\ disk[f].of = {dumps} /\ disk[f].rows = RowsOf(UnitOf(f))
  /\ disk[f].span = IF f = Mask THEN Span(job.req) ELSE 0
  /\ Has(f, RowsOf(UnitOf(f)))

LEMMA MineIs ==
  ASSUME JobOk, FilesOk, ManifestOk, Save \in StepsDone
  PROVE  /\ \A f : Wrote(StepsDone, f) => Mine(f)
         /\ \A f : Named(f) <=> Committed(StepsDone, f)
         /\ \A f : Named(f) => Wrote(StepsDone, f) /\ manifest.named[f] = RowsOf(UnitOf(f))
         /\ \A of : of \in DOMAIN manifest.layers <=> Counted(StepsDone, of)
         /\ \A of : Counted(StepsDone, of) => manifest.layers[of] = job.n
         /\ Readable /\ manifest.by = dumps
<1>1. PICK b : b = StepsDone
  OBVIOUS
<1>2. /\ manifest.is = "whole" /\ manifest.by = dumps
      /\ DOMAIN manifest.named = UNION {x.files : x \in Commits(b)}
      /\ \A f \in DOMAIN manifest.named : Wrote(b, f) /\ manifest.named[f] = RowsOf(UnitOf(f))
      /\ DOMAIN manifest.layers = UNION {DOMAIN x.layers : x \in Commits(b)}
      /\ \A of \in DOMAIN manifest.layers : manifest.layers[of] = job.n
  <2>1. /\ manifest = [is |-> "whole", by |-> dumps, images |-> job.req.images,
                       named |-> manifest.named, layers |-> manifest.layers]
        /\ DOMAIN manifest.named = UNION {x.files : x \in Commits(b)}
        /\ \A f \in DOMAIN manifest.named : Wrote(b, f) /\ manifest.named[f] = RowsOf(UnitOf(f))
        /\ DOMAIN manifest.layers = UNION {DOMAIN x.layers : x \in Commits(b)}
        /\ \A of \in DOMAIN manifest.layers : manifest.layers[of] = job.n
    BY <1>1, Zenon DEF ManifestOk
  <2>2. manifest.is = "whole" /\ manifest.by = dumps
    BY <2>1
  <2> QED BY <2>1, <2>2
<1>3. \A f : Named(f) <=> Committed(b, f)
  BY <1>2 DEF Named, Committed
<1>4. \A of : of \in DOMAIN manifest.layers <=> Counted(b, of)
  BY <1>2 DEF Counted
<1>5. \A f : Named(f) => Wrote(b, f) /\ manifest.named[f] = RowsOf(UnitOf(f))
  BY <1>2 DEF Named
<1>6. \A of : Counted(b, of) => manifest.layers[of] = job.n
  BY <1>2, <1>4
<1>7. ASSUME NEW f, Wrote(b, f) PROVE Mine(f)
  <2>1. PICK u : u = UnitOf(f)
    OBVIOUS
  <2>2. Write(f, u) \in b /\ Write(f, u).op = "write" /\ Write(f, u).file = f
    BY <1>7, <2>1 DEF Wrote, Write
  <2>3. f \in DOMAIN disk /\ disk[f] = Content(f, RowsOf(u))
    <3>1. PICK x : x = Write(f, u)
      OBVIOUS
    <3>2. x \in StepsDone /\ x.op = "write" /\ x.file = f
      BY <1>1, <2>2, <3>1
    <3> QED BY <2>1, <3>2 DEF FilesOk
  <2>4. job.of = {dumps}
    BY DEF JobOk
  <2>5. /\ disk[f].of = {dumps} /\ disk[f].rows = RowsOf(u)
        /\ disk[f].span = IF f = Mask THEN Span(job.req) ELSE 0
    BY <2>3, <2>4 DEF Content
  <2>6. Has(f, RowsOf(u))
    BY <1>5, <2>1, <2>3, <2>5 DEF Has
  <2> QED BY <2>1, <2>3, <2>5, <2>6 DEF Mine
<1> QED BY <1>1, <1>2, <1>3, <1>4, <1>5, <1>6, <1>7 DEF Readable

LEMMA RowsAre ==
  ASSUME JobOk
  PROVE  /\ RowsOf("tokens") = job.req.tokens /\ job.req.tokens \in Nat /\ job.req.tokens > 0
         /\ RowsOf("span") = Span(job.req) /\ Span(job.req) \in Nat
         /\ RowsOf("topk") = TopK /\ TopK \in Nat /\ TopK > 0 /\ RowsOf("one") = 1
<1>1. job.tokens = job.req.tokens /\ job.req \in Requests
  BY DEF JobOk
<1>2. /\ job.req.tokens \in Nat \ {0} /\ job.req.images \in 0..job.req.tokens
      /\ TopK \in Nat \ {0}
  BY <1>1, GoldenAssumption
<1>3. Span(job.req) \in Nat
  BY <1>2 DEF Span
<1> QED BY <1>1, <1>2, <1>3 DEF RowsOf

(* A load of what the dump has written.                                    *)
LEMMA SuppliedLoads ==
  ASSUME JobOk, FilesOk, ManifestOk, NEW kind,
         Supplies(kind, StepsDone, job.req, job.n)
  PROVE  Loads(kind) /\ Sources(Parts(kind)) = {dumps} /\ Tokens = job.req.tokens
<1>1. PICK b : b = StepsDone
  OBVIOUS
<1>2. PICK n : n = job.n
  OBVIOUS
<1>3. PICK r : r = job.req
  OBVIOUS
<1>4. Supplies(kind, b, r, n)
  BY <1>1, <1>2, <1>3
<1>5. kind \in Kinds /\ Save \in b /\ \A f \in NeedsOf(kind, n) : Wrote(b, f)
  BY <1>4 DEF Supplies
<1>6. /\ \A f : Wrote(b, f) => Mine(f)
      /\ \A f : Named(f) <=> Committed(b, f)
      /\ \A f : Named(f) => Wrote(b, f) /\ manifest.named[f] = RowsOf(UnitOf(f))
      /\ \A of : of \in DOMAIN manifest.layers <=> Counted(b, of)
      /\ \A of : Counted(b, of) => manifest.layers[of] = n
      /\ Readable
  BY <1>1, <1>2, <1>5, MineIs
<1>7. /\ RowsOf("tokens") = r.tokens /\ r.tokens \in Nat /\ r.tokens > 0
      /\ RowsOf("span") = Span(r) /\ Span(r) \in Nat
      /\ RowsOf("topk") = TopK /\ TopK \in Nat /\ TopK > 0 /\ RowsOf("one") = 1
  BY <1>3, RowsAre
<1>8. \A f \in NeedsOf(kind, n) : Mine(f)
  BY <1>5, <1>6
<1>9. PromptParts \subseteq NeedsOf(kind, n)
  BY DEF NeedsOf
<1>10. Mine(Ids) /\ Mine(Mask) /\ Mine(Embeddings)
  BY <1>8, <1>9 DEF PromptParts
<1>11. Tokens = r.tokens /\ LoadsPrompt
  <2>1. disk[Ids].rows = r.tokens /\ disk[Mask].rows = r.tokens /\ Has(Embeddings, r.tokens)
    BY <1>7, <1>10, UnitsAre DEF Mine
  <2>2. {Ids, Mask, Embeddings} \subseteq DOMAIN disk
    BY <1>10 DEF Mine
  <2> QED BY <1>6, <1>7, <2>1, <2>2 DEF Tokens, LoadsPrompt
<1>12. ASSUME NEW f, Mine(f), UnitOf(f) = "tokens" PROVE Has(f, Tokens)
  BY <1>7, <1>11, <1>12 DEF Mine
<1>13. \A m \in Nat : HiddenOf(m) \subseteq NeedsOf(kind, n) => LoadsHidden(m)
  BY <1>8, <1>12, HiddenIs DEF LoadsHidden
<1>14. kind \in ImageKinds => LoadsImagePrompt /\ Mine(Visual)
  <2> SUFFICES ASSUME kind \in ImageKinds PROVE LoadsImagePrompt /\ Mine(Visual)
    OBVIOUS
  <2>1. Visual \in NeedsOf(kind, n)
    BY DEF NeedsOf
  <2>2. Mine(Visual) /\ Span(r) > 0
    BY <1>4, <1>8, <2>1 DEF Supplies
  <2>3. disk[Mask].span = Span(r)
    BY <1>3, <1>10 DEF Mine
  <2>4. Has(Visual, Span(r))
    BY <1>7, <2>2, UnitsAre DEF Mine
  <2> QED BY <1>11, <2>2, <2>3, <2>4 DEF LoadsImagePrompt
<1>15. ASSUME NEW of \in {"text", "image"}, kind \in LayerKinds(of)
       PROVE  Count(of) = n /\ n \in 1..LayerCount /\ LoadsHidden(n) /\ HiddenOf(n) \subseteq NeedsOf(kind, n)
  <2>1. n \in 1..LayerCount /\ (Counted(b, of) \/ n = LayerCount)
    BY <1>4, <1>15 DEF Supplies
  <2>2. Count(of) = n
    BY <1>6, <2>1 DEF Count
  <2>3. HiddenOf(n) \subseteq NeedsOf(kind, n)
    BY <1>15 DEF NeedsOf
  <2>4. n \in Nat
    BY <2>1, GoldenAssumption
  <2> QED BY <1>13, <2>1, <2>2, <2>3, <2>4
<1>16. \A f \in Routed(n) : Mine(f) /\ Has(f, Tokens)
  <2> SUFFICES ASSUME NEW f \in Routed(n) PROVE Mine(f) /\ Has(f, Tokens)
    OBVIOUS
  <2>1. Named(f) /\ f \in RoutersOf(n)
    BY DEF Routed
  <2>2. UnitOf(f) = "tokens"
    BY <2>1, UnitsAre DEF RoutersOf
  <2> QED BY <1>6, <1>12, <2>1, <2>2
<1>17. kind \in LogitKinds => LoadsLogits /\ Logits \subseteq NeedsOf(kind, n)
  <2> SUFFICES ASSUME kind \in LogitKinds PROVE LoadsLogits /\ Logits \subseteq NeedsOf(kind, n)
    OBVIOUS
  <2>1. Logits \subseteq NeedsOf(kind, n)
    BY DEF NeedsOf
  <2>2. ASSUME NEW f \in Logits PROVE HasNamed(f)
    <3>1. Committed(b, f) /\ Mine(f) /\ UnitOf(f) = "topk"
      BY <1>4, <1>8, <2>1, UnitsAre DEF Supplies
    <3>2. Named(f) /\ manifest.named[f] = TopK /\ Has(f, TopK)
      BY <1>6, <1>7, <3>1 DEF Mine
    <3> QED BY <1>7, <3>2 DEF HasNamed
  <2> QED BY <2>1, <2>2 DEF LoadsLogits
<1>18. kind \in GeneratedKinds => LoadsGeneratedIds /\ Generated \in NeedsOf(kind, n)
  <2> SUFFICES ASSUME kind \in GeneratedKinds PROVE LoadsGeneratedIds /\ Generated \in NeedsOf(kind, n)
    OBVIOUS
  <2>1. Generated \in NeedsOf(kind, n)
    BY DEF NeedsOf
  <2>2. Committed(b, Generated) /\ Mine(Generated) /\ UnitOf(Generated) = "one"
    BY <1>4, <1>8, <2>1, UnitsAre DEF Supplies
  <2>3. Named(Generated) /\ manifest.named[Generated] = 1 /\ Has(Generated, 1)
    BY <1>6, <1>7, <2>2 DEF Mine
  <2> QED BY <2>1, <2>3 DEF HasNamed, LoadsGeneratedIds
<1>19. kind = "image_generated" => LoadsGeneratedText /\ GeneratedText \in NeedsOf(kind, n)
  <2> SUFFICES ASSUME kind = "image_generated" PROVE LoadsGeneratedText /\ GeneratedText \in NeedsOf(kind, n)
    OBVIOUS
  <2>1. GeneratedText \in NeedsOf(kind, n)
    BY DEF NeedsOf
  <2> QED BY <1>8, <2>1 DEF Mine, LoadsGeneratedText
<1>20. kind = "text_layer0" => LoadsHidden(1) /\ HiddenOf(1) \subseteq NeedsOf(kind, n)
  BY <1>13 DEF NeedsOf
<1>21. kind = "text_layer1" => /\ LoadsHidden(1) /\ Has(Hidden(1), Tokens)
                               /\ HiddenOf(2) \subseteq NeedsOf(kind, n)
  <2> SUFFICES ASSUME kind = "text_layer1"
               PROVE  /\ LoadsHidden(1) /\ Has(Hidden(1), Tokens)
                      /\ HiddenOf(2) \subseteq NeedsOf(kind, n)
    OBVIOUS
  <2>1. HiddenOf(2) \subseteq NeedsOf(kind, n)
    BY DEF NeedsOf
  <2>2. HiddenOf(1) \subseteq NeedsOf(kind, n) /\ Hidden(1) \in HiddenOf(2)
    BY <2>1, OneLayer
  <2>3. LoadsHidden(2)
    BY <1>13, <2>1
  <2> QED BY <1>13, <2>1, <2>2, <2>3 DEF LoadsHidden
<1>22. kind \in LayerKinds("text") => LoadsTextLayers
  BY <1>11, <1>15 DEF LoadsTextLayers
<1>23. kind \in LayerKinds("image") => LoadsImageLayers
  <2> SUFFICES ASSUME kind \in LayerKinds("image") PROVE LoadsImageLayers
    OBVIOUS
  <2>1. LoadsImagePrompt
    BY <1>14 DEF ImageKinds
  <2> QED BY <1>15, <1>16, <2>1 DEF LoadsImageLayers
<1>24. Loads(kind)
  <2>1. CASE kind \in {"text_prompt", "text_layer0", "text_layer1"}
    BY <2>1, <1>11, <1>20, <1>21 DEF Loads, LoadsTextLayer0, LoadsTextLayer1
  <2>2. CASE kind \in LayerKinds("text")
    BY <2>2, <1>17, <1>18, <1>22 DEF Loads, LayerKinds, LogitKinds, GeneratedKinds
  <2>3. CASE kind = "image_prompt"
    BY <2>3, <1>14 DEF Loads, ImageKinds
  <2>4. CASE kind \in LayerKinds("image")
    BY <2>4, <1>17, <1>18, <1>19, <1>23 DEF Loads, LayerKinds, LogitKinds, GeneratedKinds
  <2> QED BY <1>5, <2>1, <2>2, <2>3, <2>4 DEF Kinds, LayerKinds
<1>25. \A f \in Parts(kind) : Mine(f)
  <2>1. \A f \in PromptParts : Mine(f)
    BY <1>8, <1>9
  <2>2. CASE kind \in {"text_prompt", "text_layer0", "text_layer1"}
    BY <2>1, <2>2, <1>8, <1>20, <1>21 DEF Parts
  <2>3. CASE kind \in LayerKinds("text")
    <3>1. \A f \in TextLayerParts : Mine(f)
      BY <1>8, <1>15, <2>1, <2>3 DEF TextLayerParts
    <3> QED BY <1>8, <2>3, <3>1, <1>17, <1>18 DEF Parts, LayerKinds, LogitKinds, GeneratedKinds
  <2>4. CASE kind = "image_prompt"
    BY <1>14, <2>1, <2>4 DEF Parts, ImageKinds, ImageParts
  <2>5. CASE kind \in LayerKinds("image")
    <3>1. \A f \in ImageLayerParts : Mine(f)
      BY <1>8, <1>14, <1>15, <1>16, <2>1, <2>5 DEF ImageLayerParts, ImageParts, ImageKinds
    <3> QED BY <1>8, <2>5, <3>1, <1>17, <1>18, <1>19 DEF Parts, LayerKinds, LogitKinds, GeneratedKinds
  <2> QED BY <1>5, <2>2, <2>3, <2>4, <2>5 DEF Kinds, LayerKinds
<1>26. Ids \in Parts(kind)
  BY <1>5 DEF Kinds, Parts, PromptParts, TextLayerParts, ImageLayerParts, ImageParts
<1>27. Sources(Parts(kind)) = {dumps}
  <2>1. PICK F : F = Parts(kind)
    OBVIOUS
  <2>2. \A f \in F : disk[f].of = {dumps}
    BY <1>25, <2>1 DEF Mine
  <2> QED BY <1>26, <2>1, <2>2, SourcesOfOne
<1> QED BY <1>3, <1>11, <1>24, <1>27

-----------------------------------------------------------------------------
(* Steps keep the invariant.                                               *)

LEMMA AtStep ==
  ASSUME JobOk, job.at <= Len(Todo)
  PROVE  /\ StepHolds(Step, StepsDone, job.req, job.n)
         /\ Before(Todo, job.at + 1) = StepsDone \cup {Step}
         /\ job.at + 1 \in 1..Len(Todo) + 1
<1>1. PICK s : s = Todo
  OBVIOUS
<1>2. Leads(s, {}, job.req, job.n)
  BY <1>1, StepsLead DEF JobOk, Todo
<1>3. Len(s) \in Nat
  BY <1>2 DEF Leads, IsList
<1>4. PICK l \in Nat : l = Len(s)
  BY <1>3
<1>5. PICK k : k = job.at
  OBVIOUS
<1>6. k \in 1..l
  BY <1>1, <1>4, <1>5 DEF JobOk
<1>7. StepHolds(s[k], {} \cup Before(s, k), job.req, job.n)
  BY <1>2, <1>4, <1>6 DEF Leads
<1>8. {} \cup Before(s, k) = StepsDone
  BY <1>1, <1>5 DEF StepsDone
<1>9. Before(s, k + 1) = Before(s, k) \cup {s[k]}
  <2>1. \A i : i \in 1..(k + 1) - 1 <=> i \in 1..k - 1 \/ i = k
    BY <1>6
  <2> QED BY <2>1 DEF Before
<1>10. k + 1 \in 1..l + 1
  BY <1>6
<1> QED BY <1>1, <1>4, <1>5, <1>7, <1>8, <1>9, <1>10 DEF Step, StepsDone

(* The dump goes on, with the step done.                                   *)
GoesOn ==
  /\ job' = [phase |-> job.phase, kind |-> job.kind, req |-> job.req, n |-> job.n,
             at |-> job.at + 1, of |-> {dumps}, tokens |-> job.req.tokens]
  /\ dumps' = dumps

LEMMA DoneGoesOn ==
  ASSUME JobOk, job' = Done(job), dumps' = dumps PROVE GoesOn
<1>1. /\ job = [phase |-> job.phase, kind |-> job.kind, req |-> job.req, n |-> job.n,
                at |-> job.at, of |-> {dumps}, tokens |-> job.req.tokens]
  BY DEF JobOk
<1>2. job' = [phase |-> job.phase, kind |-> job.kind, req |-> job.req, n |-> job.n,
              at |-> job.at + 1, of |-> {dumps}, tokens |-> job.req.tokens]
  BY <1>1 DEF Done
<1> QED BY <1>2 DEF GoesOn

LEMMA StepTaken ==
  ASSUME JobOk, GoesOn, job.phase = "running", job.at <= Len(Todo),
         Step.op = "check" => Step.holds
  PROVE  /\ JobOk' /\ StepsDone' = StepsDone \cup {Step} /\ job'.phase = "running"
         /\ job'.req = job.req /\ job'.n = job.n
         /\ \A u : RowsOf(u)' = RowsOf(u)
         /\ \A f, rows : Content(f, rows)' = Content(f, rows)
<1>1. /\ job'.phase = job.phase /\ job'.kind = job.kind /\ job'.req = job.req /\ job'.n = job.n
      /\ job'.at = job.at + 1 /\ job'.of = {dumps} /\ job'.tokens = job.req.tokens
      /\ dumps' = dumps
  BY DEF GoesOn
<1>2. Todo' = Todo
  BY <1>1 DEF Todo
<1>3. job.of = {dumps} /\ job.tokens = job.req.tokens
  BY DEF JobOk
<1>4. StepsDone' = StepsDone \cup {Step}
  BY <1>1, <1>2, AtStep DEF StepsDone
<1>5. Accepted(StepsDone \cup {Step})
  BY DEF JobOk, Accepted
<1>6. job'.at \in 1..Len(Todo) + 1
  BY <1>1, AtStep
<1>7. job' = [phase |-> job'.phase, kind |-> job'.kind, req |-> job'.req, n |-> job'.n,
              at |-> job'.at, of |-> {dumps'}, tokens |-> job'.req.tokens]
  BY <1>1 DEF GoesOn
<1>8. JobOk'
  <2>1. /\ job.kind \in Kinds /\ job.req \in Requests /\ job.n \in Nat \ {0}
        /\ job.kind \notin {"text_layers", "image_layers"} => job.n = LayerCount
    BY DEF JobOk
  <2>2. job'.phase # "done"
    BY <1>1
  <2> QED BY <1>1, <1>2, <1>4, <1>5, <1>6, <1>7, <2>1, <2>2 DEF JobOk
<1>9. \A u : RowsOf(u)' = RowsOf(u)
  BY <1>1, <1>3 DEF RowsOf
<1>10. \A f, rows : Content(f, rows)' = Content(f, rows)
  BY <1>1, <1>3 DEF Content
<1> QED BY <1>1, <1>4, <1>8, <1>9, <1>10

LEMMA FilesStay ==
  ASSUME FilesOk, StepsDone' = StepsDone \cup {Step}, Step.op # "write", disk' = disk,
         \A u : RowsOf(u)' = RowsOf(u), \A f, rows : Content(f, rows)' = Content(f, rows)
  PROVE  FilesOk'
<1>1. ASSUME NEW x \in StepsDone', x.op = "write"
      PROVE  /\ x.file \in DOMAIN disk'
             /\ disk'[x.file] = Content(x.file, RowsOf(UnitOf(x.file)))'
  <2>1. x \in StepsDone
    BY <1>1
  <2>2. x.file \in DOMAIN disk /\ disk[x.file] = Content(x.file, RowsOf(UnitOf(x.file)))
    BY <1>1, <2>1 DEF FilesOk
  <2>3. PICK u : u = UnitOf(x.file)
    OBVIOUS
  <2>4. RowsOf(UnitOf(x.file))' = RowsOf(UnitOf(x.file))
    BY <2>3
  <2> QED BY <2>2, <2>4
<1> QED BY <1>1 DEF FilesOk

LEMMA ManifestStays ==
  ASSUME ManifestOk, StepsDone' = StepsDone \cup {Step}, Step.op # "commit", Step.op # "save",
         manifest' = manifest, GoesOn, \A u : RowsOf(u)' = RowsOf(u)
  PROVE  ManifestOk'
<1>1. PICK b, c : b = StepsDone /\ c = StepsDone'
  OBVIOUS
<1>2. Save \in c <=> Save \in b
  BY <1>1 DEF Save
<1>3. Commits(c) = Commits(b) /\ b \subseteq c
  BY <1>1 DEF Commits
<1>4. \A f : Wrote(b, f) => Wrote(c, f)
  BY <1>3, StepsGrow
<1>5. dumps' = dumps /\ job'.req = job.req /\ job'.n = job.n
  BY DEF GoesOn
<1> QED BY <1>1, <1>2, <1>3, <1>4, <1>5 DEF ManifestOk

(* A write, whole or cut short, changes no file that an expectation comes  *)
(* with, unless the dump that named the expectation writes it.             *)
LEMMA WriteSpares ==
  ASSUME JobOk, ManifestOk, ExpectationsOk, job.at <= Len(Todo), Step.op = "write",
         NEW rows, disk' = Put(Step.file, rows), manifest' = manifest
  PROVE  ExpectationsOk'
<1>1. PICK g : g = Step.file
  OBVIOUS
<1>2. PICK b : b = StepsDone
  OBVIOUS
<1>3. /\ g = ExpectedOutput \/ Save \in b
      /\ g = Mask => Commits(b) = {}
  BY <1>1, <1>2, AtStep DEF StepHolds, JobOk
<1>4. /\ DOMAIN disk' = DOMAIN disk \cup {g}
      /\ \A f \in DOMAIN disk : f # g => disk'[f] = disk[f]
      /\ disk'[g] = Content(g, rows)
  BY <1>1 DEF Put, Updated
<1>5. disk'[g].of = {dumps}
  BY <1>4 DEF Content, JobOk
<1>6. Readable' = Readable /\ \A f : Named(f)' <=> Named(f)
  BY DEF Readable, Named
<1>7. CASE Save \in b
  <2>1. /\ manifest.by = dumps
        /\ DOMAIN manifest.named = UNION {x.files : x \in Commits(b)}
    <3>1. /\ manifest = [is |-> "whole", by |-> dumps, images |-> job.req.images,
                         named |-> manifest.named, layers |-> manifest.layers]
          /\ DOMAIN manifest.named = UNION {x.files : x \in Commits(b)}
      BY <1>2, <1>7, Zenon DEF ManifestOk
    <3> QED BY <3>1
  <2>2. ASSUME NEW f, OfItsDump(f) PROVE OfItsDump(f)'
    <3>1. f \in DOMAIN disk /\ disk[f].of = {dumps}
      BY <2>1, <2>2 DEF OfItsDump
    <3>2. f \in DOMAIN disk' /\ disk'[f].of = {dumps}
      BY <1>4, <1>5, <3>1
    <3> QED BY <2>1, <3>2 DEF OfItsDump
  <2>3. CASE g = Mask
    <3>1. \A f : ~Named(f)
      BY <1>3, <2>1, <2>3 DEF Named
    <3> QED BY <1>6, <3>1 DEF ExpectationsOk
  <2>4. CASE g # Mask
    <3> SUFFICES ASSUME Readable', (\E f \in Expectations : Named(f)')
                 PROVE  (/\ \A f \in PromptParts \cup HiddenOf(LayerCount) \cup Logits : OfItsDump(f)
                         /\ \A f \in RoutersOf(LayerCount) \cup {Generated} : Named(f) => OfItsDump(f)
                         /\ \A of \in DOMAIN manifest.layers : manifest.layers[of] = LayerCount
                         /\ disk[Mask].span > 0 =>
                              OfItsDump(Visual) /\ (Named(Generated) => OfItsDump(GeneratedText)))'
      BY DEF ExpectationsOk
    <3>1. /\ \A f \in PromptParts \cup HiddenOf(LayerCount) \cup Logits : OfItsDump(f)
          /\ \A f \in RoutersOf(LayerCount) \cup {Generated} : Named(f) => OfItsDump(f)
          /\ \A of \in DOMAIN manifest.layers : manifest.layers[of] = LayerCount
          /\ disk[Mask].span > 0 =>
               OfItsDump(Visual) /\ (Named(Generated) => OfItsDump(GeneratedText))
      BY <1>6 DEF ExpectationsOk
    <3>2. Mask \in DOMAIN disk
      BY <3>1 DEF PromptParts, OfItsDump
    <3>3. disk'[Mask] = disk[Mask]
      BY <1>4, <2>4, <3>2
    <3> QED BY <1>6, <2>2, <3>1, <3>3
  <2> QED BY <2>3, <2>4
<1>8. CASE g = ExpectedOutput
  <2>1. ASSUME NEW f, f # ExpectedOutput, OfItsDump(f) PROVE OfItsDump(f)'
    BY <1>4, <1>8, <2>1 DEF OfItsDump
  <2>2. /\ \A f \in PromptParts \cup Logits : f # ExpectedOutput
        /\ Generated # ExpectedOutput /\ Visual # ExpectedOutput /\ GeneratedText # ExpectedOutput
    BY DEF PromptParts, Logits, Generated, Visual, GeneratedText, ExpectedOutput, Ids, Mask, Embeddings
  <2>3. \A f \in HiddenOf(LayerCount) : f # ExpectedOutput
    BY DEF HiddenOf, Hidden, ExpectedOutput
  <2>4. \A f \in RoutersOf(LayerCount) : f # ExpectedOutput
    BY DEF RoutersOf, Router, ExpectedOutput
  <2> SUFFICES ASSUME Readable', (\E f \in Expectations : Named(f)')
               PROVE  (/\ \A f \in PromptParts \cup HiddenOf(LayerCount) \cup Logits : OfItsDump(f)
                       /\ \A f \in RoutersOf(LayerCount) \cup {Generated} : Named(f) => OfItsDump(f)
                       /\ \A of \in DOMAIN manifest.layers : manifest.layers[of] = LayerCount
                       /\ disk[Mask].span > 0 =>
                            OfItsDump(Visual) /\ (Named(Generated) => OfItsDump(GeneratedText)))'
    BY DEF ExpectationsOk
  <2>5. /\ \A f \in PromptParts \cup HiddenOf(LayerCount) \cup Logits : OfItsDump(f)
        /\ \A f \in RoutersOf(LayerCount) \cup {Generated} : Named(f) => OfItsDump(f)
        /\ \A of \in DOMAIN manifest.layers : manifest.layers[of] = LayerCount
        /\ disk[Mask].span > 0 =>
             OfItsDump(Visual) /\ (Named(Generated) => OfItsDump(GeneratedText))
    BY <1>6 DEF ExpectationsOk
  <2>6. Mask \in DOMAIN disk /\ Mask # ExpectedOutput
    BY <2>2, <2>5 DEF PromptParts, OfItsDump
  <2>7. disk'[Mask] = disk[Mask]
    BY <1>4, <1>8, <2>6
  <2> QED BY <1>6, <2>1, <2>2, <2>3, <2>4, <2>5, <2>7
<1> QED BY <1>3, <1>7, <1>8

LEMMA WriteFileKeeps == ASSUME DirectoryOk, WriteFile PROVE DirectoryOk'
<1>1. /\ job.phase = "running" /\ job.at <= Len(Todo) /\ Step.op = "write"
      /\ disk' = Put(Step.file, RowsOf(Step.unit)) /\ job' = Done(job)
      /\ manifest' = manifest /\ dumps' = dumps
  BY DEF WriteFile, At, Running, Step
<1>2. JobOk /\ FilesOk /\ ManifestOk /\ ExpectationsOk /\ dumps \in Nat
  BY <1>1 DEF DirectoryOk, DumpOk
<1>3. GoesOn
  BY <1>1, <1>2, DoneGoesOn
<1>4. /\ JobOk' /\ StepsDone' = StepsDone \cup {Step} /\ job'.phase = "running"
      /\ \A u : RowsOf(u)' = RowsOf(u)
      /\ \A f, rows : Content(f, rows)' = Content(f, rows)
  BY <1>1, <1>2, <1>3, StepTaken
<1>5. ManifestOk'
  BY <1>1, <1>2, <1>3, <1>4, ManifestStays
<1>6. ExpectationsOk'
  <2>1. PICK rows : rows = RowsOf(Step.unit)
    OBVIOUS
  <2> QED BY <1>1, <1>2, <2>1, WriteSpares
<1>7. Step.unit = UnitOf(Step.file)
  BY <1>1, <1>2, AtStep DEF StepHolds, JobOk
<1>8. FilesOk'
  <2>1. PICK g : g = Step.file
    OBVIOUS
  <2>2. PICK c : c = Content(g, RowsOf(UnitOf(g)))
    OBVIOUS
  <2>3. DOMAIN disk' = DOMAIN disk \cup {g} /\ disk'[g] = c /\ \A f \in DOMAIN disk : f # g => disk'[f] = disk[f]
    BY <1>1, <1>7, <2>1, <2>2 DEF Put, Updated
  <2>4. ASSUME NEW x \in StepsDone', x.op = "write"
        PROVE  /\ x.file \in DOMAIN disk'
               /\ disk'[x.file] = Content(x.file, RowsOf(UnitOf(x.file)))'
    <3>1. PICK f, u : f = x.file /\ u = UnitOf(f)
      OBVIOUS
    <3>2. Content(f, RowsOf(u))' = Content(f, RowsOf(u))
      BY <1>4
    <3>3. CASE f = g
      BY <2>2, <2>3, <3>1, <3>2, <3>3
    <3>4. CASE f # g
      <4>1. x \in StepsDone
        BY <1>4, <2>1, <3>1, <3>4
      <4>2. f \in DOMAIN disk /\ disk[f] = Content(f, RowsOf(u))
        BY <1>2, <2>4, <3>1, <4>1 DEF FilesOk
      <4> QED BY <2>3, <3>1, <3>2, <3>4, <4>2
    <3> QED BY <3>3, <3>4
  <2> QED BY <2>4 DEF FilesOk
<1> QED BY <1>1, <1>2, <1>4, <1>5, <1>6, <1>8 DEF DirectoryOk, DumpOk

LEMMA SaveKeeps == ASSUME DirectoryOk, SaveManifest PROVE DirectoryOk'
<1>1. /\ job.phase = "running" /\ job.at <= Len(Todo) /\ Step.op = "save"
      /\ manifest' = Fresh /\ job' = Done(job) /\ disk' = disk /\ dumps' = dumps
  BY DEF SaveManifest, At, Running, Step
<1>2. JobOk /\ FilesOk /\ dumps \in Nat
  BY <1>1 DEF DirectoryOk, DumpOk
<1>3. GoesOn
  BY <1>1, <1>2, DoneGoesOn
<1>4. /\ JobOk' /\ StepsDone' = StepsDone \cup {Step} /\ job'.phase = "running"
      /\ job'.req = job.req /\ job'.n = job.n
      /\ \A u : RowsOf(u)' = RowsOf(u)
      /\ \A f, rows : Content(f, rows)' = Content(f, rows)
  BY <1>1, <1>2, <1>3, StepTaken
<1>5. FilesOk'
  BY <1>1, <1>2, <1>4, FilesStay
<1>6. DOMAIN NoFile = {} /\ DOMAIN NoLayers = {}
  BY DEF NoFile, NoLayers
<1>7. /\ manifest' = [is |-> "whole", by |-> dumps, images |-> job.req.images,
                      named |-> NoFile, layers |-> NoLayers]
      /\ manifest'.named = NoFile /\ manifest'.layers = NoLayers
  BY <1>1 DEF Fresh
<1>8. Commits(StepsDone') = {}
  <2>1. Commits(StepsDone) = {}
    BY <1>1, <1>2, AtStep DEF StepHolds, JobOk
  <2> QED BY <1>1, <1>4, <2>1 DEF Commits
<1>9. ManifestOk'
  BY <1>1, <1>4, <1>6, <1>7, <1>8 DEF ManifestOk
<1>10. ExpectationsOk'
  BY <1>6, <1>7 DEF ExpectationsOk, Named
<1> QED BY <1>1, <1>2, <1>4, <1>5, <1>9, <1>10 DEF DirectoryOk, DumpOk

LEMMA PassesKeeps == ASSUME DirectoryOk, Passes PROVE DirectoryOk'
<1>1. /\ job.phase = "running" /\ job.at <= Len(Todo) /\ Step.op = "check" /\ Step.holds
      /\ job' = Done(job) /\ disk' = disk /\ manifest' = manifest /\ dumps' = dumps
  BY DEF Passes, At, Running, Step
<1>2. JobOk /\ FilesOk /\ ManifestOk /\ ExpectationsOk /\ dumps \in Nat
  BY <1>1 DEF DirectoryOk, DumpOk
<1>3. GoesOn
  BY <1>1, <1>2, DoneGoesOn
<1>4. /\ JobOk' /\ StepsDone' = StepsDone \cup {Step} /\ job'.phase = "running"
      /\ \A u : RowsOf(u)' = RowsOf(u)
      /\ \A f, rows : Content(f, rows)' = Content(f, rows)
  BY <1>1, <1>2, <1>3, StepTaken
<1>5. FilesOk' /\ ManifestOk'
  BY <1>1, <1>2, <1>3, <1>4, FilesStay, ManifestStays
<1>6. ExpectationsOk'
  BY <1>1, <1>2 DEF ExpectationsOk, Readable, Named, OfItsDump
<1> QED BY <1>1, <1>2, <1>4, <1>5, <1>6 DEF DirectoryOk, DumpOk

LEMMA ReloadKeeps == ASSUME DirectoryOk, ReloadParts PROVE DirectoryOk'
<1>1. /\ job.phase = "running" /\ job.at <= Len(Todo) /\ Step.op = "reload"
      /\ job' = [Done(job) EXCEPT !.of = Sources(Parts(Step.kind)), !.tokens = Tokens]
      /\ disk' = disk /\ manifest' = manifest /\ dumps' = dumps
  BY DEF ReloadParts, At, Running, Step
<1>2. JobOk /\ FilesOk /\ ManifestOk /\ ExpectationsOk /\ dumps \in Nat
  BY <1>1 DEF DirectoryOk, DumpOk
<1>3. Sources(Parts(Step.kind)) = {dumps} /\ Tokens = job.req.tokens
  <2>1. PICK kind : kind = Step.kind
    OBVIOUS
  <2>2. Supplies(kind, StepsDone, job.req, job.n)
    BY <1>1, <1>2, <2>1, AtStep DEF StepHolds, JobOk
  <2> QED BY <1>2, <2>1, <2>2, SuppliedLoads
<1>4. GoesOn
  <2>1. /\ job = [phase |-> job.phase, kind |-> job.kind, req |-> job.req, n |-> job.n,
                  at |-> job.at, of |-> {dumps}, tokens |-> job.req.tokens]
    BY <1>2 DEF JobOk
  <2>2. Done(job) = [phase |-> job.phase, kind |-> job.kind, req |-> job.req, n |-> job.n,
                     at |-> job.at + 1, of |-> {dumps}, tokens |-> job.req.tokens]
    BY <2>1 DEF Done
  <2>3. job' = [phase |-> job.phase, kind |-> job.kind, req |-> job.req, n |-> job.n,
                at |-> job.at + 1, of |-> {dumps}, tokens |-> job.req.tokens]
    <3>1. PICK d, S, t : d = Done(job) /\ S = {dumps} /\ t = job.req.tokens
      OBVIOUS
    <3>2. job' = [d EXCEPT !.of = S, !.tokens = t]
      BY <1>1, <1>3, <3>1, Zenon
    <3>3. d = [phase |-> job.phase, kind |-> job.kind, req |-> job.req, n |-> job.n,
               at |-> job.at + 1, of |-> S, tokens |-> t]
      BY <2>2, <3>1, Zenon
    <3>4. job' = [phase |-> job.phase, kind |-> job.kind, req |-> job.req, n |-> job.n,
                  at |-> job.at + 1, of |-> S, tokens |-> t]
      BY <3>2, <3>3
    <3> QED BY <3>1, <3>4, Zenon
  <2> QED BY <1>1, <2>3 DEF GoesOn
<1>5. /\ JobOk' /\ StepsDone' = StepsDone \cup {Step} /\ job'.phase = "running"
      /\ \A u : RowsOf(u)' = RowsOf(u)
      /\ \A f, rows : Content(f, rows)' = Content(f, rows)
  BY <1>1, <1>2, <1>4, StepTaken
<1>6. FilesOk' /\ ManifestOk'
  BY <1>1, <1>2, <1>4, <1>5, FilesStay, ManifestStays
<1>7. ExpectationsOk'
  BY <1>1, <1>2 DEF ExpectationsOk, Readable, Named, OfItsDump
<1> QED BY <1>1, <1>2, <1>5, <1>6, <1>7 DEF DirectoryOk, DumpOk

LEMMA CommitKeeps == ASSUME DirectoryOk, CommitManifest PROVE DirectoryOk'
<1>1. /\ job.phase = "running" /\ job.at <= Len(Todo) /\ Step.op = "commit"
      /\ job' = Done(job) /\ disk' = disk /\ dumps' = dumps
      /\ manifest' = [manifest EXCEPT !.named = Updated(@, [f \in Step.files |-> disk[f].rows]),
                                      !.layers = Updated(@, Step.layers)]
  BY DEF CommitManifest, At, Running, Step
<1>2. JobOk /\ FilesOk /\ ManifestOk /\ dumps \in Nat
  BY <1>1 DEF DirectoryOk, DumpOk
<1>3. GoesOn
  BY <1>1, <1>2, DoneGoesOn
<1>4. /\ JobOk' /\ StepsDone' = StepsDone \cup {Step} /\ job'.phase = "running"
      /\ job'.req = job.req /\ job'.n = job.n
      /\ \A u : RowsOf(u)' = RowsOf(u)
      /\ \A f, rows : Content(f, rows)' = Content(f, rows)
  BY <1>1, <1>2, <1>3, StepTaken
<1>5. FilesOk'
  BY <1>1, <1>2, <1>4, FilesStay
<1>6. PICK b, x, n, r : b = StepsDone /\ x = Step /\ n = job.n /\ r = job.req
  OBVIOUS
<1>7. /\ Save \in b /\ x.op = "commit"
      /\ \A f \in x.files : Wrote(b, f)
      /\ \A of \in DOMAIN x.layers : x.layers[of] = n
      /\ Complete(b \cup {x}, r, n)
  BY <1>1, <1>2, <1>6, AtStep DEF StepHolds, JobOk
<1>8. /\ \A f : Wrote(b, f) => Mine(f)
      /\ \A f : Named(f) => Wrote(b, f) /\ manifest.named[f] = RowsOf(UnitOf(f))
  BY <1>2, <1>6, <1>7, MineIs
<1>9. PICK N, L : N = manifest.named /\ L = manifest.layers
  OBVIOUS
<1>10. /\ manifest = [is |-> "whole", by |-> dumps, images |-> r.images, named |-> N, layers |-> L]
       /\ DOMAIN N = UNION {y.files : y \in Commits(b)}
       /\ \A f \in DOMAIN N : Wrote(b, f) /\ N[f] = RowsOf(UnitOf(f))
       /\ DOMAIN L = UNION {DOMAIN y.layers : y \in Commits(b)}
       /\ \A of \in DOMAIN L : L[of] = n
  BY <1>2, <1>6, <1>7, <1>9, Zenon DEF ManifestOk
<1>11. PICK N2, L2 : N2 = Updated(N, [f \in x.files |-> disk[f].rows]) /\ L2 = Updated(L, x.layers)
  OBVIOUS
<1>12. /\ manifest' = [is |-> "whole", by |-> dumps, images |-> r.images, named |-> N2, layers |-> L2]
       /\ manifest'.named = N2 /\ manifest'.layers = L2 /\ manifest'.is = "whole" /\ manifest'.by = dumps
  <2>1. manifest' = [manifest EXCEPT !.named = N2, !.layers = L2]
    BY <1>1, <1>6, <1>9, <1>11
  <2>2. manifest' = [is |-> "whole", by |-> dumps, images |-> r.images, named |-> N2, layers |-> L2]
    BY <1>10, <2>1
  <2> QED BY <2>2
<1>13. /\ DOMAIN N2 = DOMAIN N \cup x.files
       /\ \A f \in DOMAIN N2 : N2[f] = IF f \in x.files THEN disk[f].rows ELSE N[f]
  BY <1>11 DEF Updated
<1>14. /\ DOMAIN L2 = DOMAIN L \cup DOMAIN x.layers
       /\ \A of \in DOMAIN L2 : L2[of] = n
  BY <1>7, <1>10, <1>11 DEF Updated
<1>15. PICK c : c = b \cup {x}
  OBVIOUS
<1>16. /\ Commits(c) = Commits(b) \cup {x} /\ b \subseteq c /\ Save \in c
       /\ \A f : Wrote(c, f) <=> Wrote(b, f)
  <2>1. \A f, u : Write(f, u) # x
    BY <1>7 DEF Write
  <2>2. \A f : Wrote(c, f) <=> Wrote(b, f)
    BY <1>15, <2>1 DEF Wrote
  <2>3. Commits(c) = Commits(b) \cup {x}
    BY <1>7, <1>15 DEF Commits
  <2> QED BY <1>7, <1>15, <2>2, <2>3
<1>17. \A f \in DOMAIN N2 : Wrote(c, f) /\ N2[f] = RowsOf(UnitOf(f))
  BY <1>7, <1>8, <1>10, <1>13, <1>16 DEF Mine
<1>18. /\ DOMAIN N2 = UNION {y.files : y \in Commits(c)}
       /\ DOMAIN L2 = UNION {DOMAIN y.layers : y \in Commits(c)}
  BY <1>10, <1>13, <1>14, <1>16
<1>19. ManifestOk'
  <2>1. StepsDone' = c /\ dumps' = dumps /\ job'.req = r /\ job'.n = n
    BY <1>1, <1>4, <1>6, <1>15
  <2>2. \A f \in DOMAIN N2 : N2[f] = RowsOf(UnitOf(f))'
    BY <1>4, <1>17
  <2> QED BY <1>12, <1>14, <1>17, <1>18, <2>1, <2>2 DEF ManifestOk
<1>20. ExpectationsOk'
  <2>1. \A f : Named(f)' <=> Committed(c, f)
    BY <1>12, <1>18 DEF Named, Committed
  <2>2. ASSUME NEW f, Wrote(c, f) PROVE OfItsDump(f)'
    <3>1. f \in DOMAIN disk /\ disk[f].of = {dumps}
      BY <1>8, <1>16, <2>2 DEF Mine
    <3> QED BY <1>1, <1>12, <3>1 DEF OfItsDump
  <2>3. \A f : Named(f)' => OfItsDump(f)'
    BY <1>12, <1>17, <2>2 DEF Named
  <2> SUFFICES ASSUME (\E f \in Expectations : Named(f)')
               PROVE  (/\ \A f \in PromptParts \cup HiddenOf(LayerCount) \cup Logits : OfItsDump(f)
                       /\ \A f \in RoutersOf(LayerCount) \cup {Generated} : Named(f) => OfItsDump(f)
                       /\ \A of \in DOMAIN manifest.layers : manifest.layers[of] = LayerCount
                       /\ disk[Mask].span > 0 =>
                            OfItsDump(Visual) /\ (Named(Generated) => OfItsDump(GeneratedText)))'
    BY DEF ExpectationsOk
  <2>4. \E f \in Expectations : Committed(c, f)
    BY <2>1
  <2>5. /\ n = LayerCount
        /\ \A f \in PromptParts \cup HiddenOf(LayerCount) \cup Logits : Wrote(c, f)
        /\ Span(r) > 0 => Wrote(c, Visual) /\ (Committed(c, Generated) => Wrote(c, GeneratedText))
    BY <1>7, <1>15, <2>4 DEF Complete
  <2>6. disk'[Mask].span = Span(r)
    <3>1. Wrote(b, Mask)
      BY <1>16, <2>5 DEF PromptParts
    <3>2. disk[Mask].span = Span(r)
      BY <1>6, <1>8, <3>1 DEF Mine
    <3> QED BY <1>1, <3>2
  <2>7. \A f \in PromptParts \cup HiddenOf(LayerCount) \cup Logits : OfItsDump(f)'
    BY <2>2, <2>5
  <2>8. \A of \in DOMAIN manifest'.layers : manifest'.layers[of] = LayerCount
    BY <1>12, <1>14, <2>5
  <2>9. disk'[Mask].span > 0 => OfItsDump(Visual)' /\ (Named(Generated)' => OfItsDump(GeneratedText)')
    BY <2>1, <2>2, <2>5, <2>6
  <2> QED BY <2>3, <2>7, <2>8, <2>9
<1> QED BY <1>1, <1>2, <1>4, <1>5, <1>19, <1>20 DEF DirectoryOk, DumpOk

LEMMA StartKeeps == ASSUME DirectoryOk, Start PROVE DirectoryOk'
<1>1. PICK kind \in Kinds, r \in Requests, n \in 1..LayerCount + 1 :
        /\ kind \notin {"text_layers", "image_layers"} => n = LayerCount
        /\ job' = [phase |-> "running", kind |-> kind, req |-> r, n |-> n,
                   at |-> 1, of |-> {dumps + 1}, tokens |-> r.tokens]
  BY DEF Start
<1>2. dumps' = dumps + 1 /\ disk' = disk /\ manifest' = manifest /\ dumps \in Nat
  BY DEF Start, DirectoryOk
<1>3. /\ job'.phase = "running" /\ job'.kind = kind /\ job'.req = r /\ job'.n = n /\ job'.at = 1
      /\ job'.of = {dumps'} /\ job'.tokens = r.tokens
  BY <1>1, <1>2
<1>4. n \in Nat \ {0}
  BY GoldenAssumption
<1>5. PICK s : s = Steps(kind, r, n)
  OBVIOUS
<1>6. Len(s) \in Nat
  <2>1. Leads(s, {}, r, n)
    BY <1>1, <1>4, <1>5, StepsLead
  <2> QED BY <2>1 DEF Leads, IsList
<1>7. Todo' = s
  BY <1>3, <1>5 DEF Todo
<1>8. StepsDone' = {}
  BY <1>3, <1>7 DEF StepsDone, Before
<1>9. JobOk'
  <2>1. job'.at \in 1..Len(s) + 1
    BY <1>3, <1>6
  <2>2. job' = [phase |-> job'.phase, kind |-> job'.kind, req |-> job'.req, n |-> job'.n,
                at |-> job'.at, of |-> {dumps'}, tokens |-> job'.req.tokens]
    BY <1>1, <1>2
  <2> QED BY <1>1, <1>3, <1>4, <1>7, <1>8, <2>1, <2>2 DEF JobOk, Accepted
<1>10. FilesOk' /\ ManifestOk'
  BY <1>8 DEF FilesOk, ManifestOk
<1>11. ExpectationsOk'
  BY <1>2 DEF DirectoryOk, ExpectationsOk, Readable, Named, OfItsDump
<1> QED BY <1>2, <1>3, <1>9, <1>10, <1>11 DEF DirectoryOk, DumpOk

LEMMA FinishKeeps == ASSUME DirectoryOk, Finish PROVE DirectoryOk'
<1>1. /\ job.phase = "running" /\ job.at > Len(Todo) /\ job' = [job EXCEPT !.phase = "done"]
      /\ disk' = disk /\ manifest' = manifest /\ dumps' = dumps
  BY DEF Finish, Running
<1>2. JobOk /\ FilesOk /\ ManifestOk /\ ExpectationsOk /\ dumps \in Nat
  BY <1>1 DEF DirectoryOk, DumpOk
<1>3. job = [phase |-> job.phase, kind |-> job.kind, req |-> job.req, n |-> job.n,
             at |-> job.at, of |-> {dumps}, tokens |-> job.req.tokens]
  BY <1>2 DEF JobOk
<1>4. /\ job' = [phase |-> "done", kind |-> job.kind, req |-> job.req, n |-> job.n,
                 at |-> job.at, of |-> {dumps}, tokens |-> job.req.tokens]
      /\ job.of = {dumps} /\ job.tokens = job.req.tokens
  <2>1. PICK S, t : S = {dumps} /\ t = job.req.tokens
    OBVIOUS
  <2>2. job = [phase |-> job.phase, kind |-> job.kind, req |-> job.req, n |-> job.n,
               at |-> job.at, of |-> S, tokens |-> t]
    BY <1>3, <2>1, Zenon
  <2>3. job.of = S /\ job.tokens = t
    BY <2>2
  <2>4. job' = [phase |-> "done", kind |-> job.kind, req |-> job.req, n |-> job.n,
                at |-> job.at, of |-> S, tokens |-> t]
    BY <1>1, <2>2
  <2> QED BY <2>1, <2>3, <2>4, Zenon
<1>5. /\ job'.phase = "done" /\ job'.kind = job.kind /\ job'.req = job.req /\ job'.n = job.n
      /\ job'.at = job.at /\ job'.of = job.of /\ job'.tokens = job.tokens
  BY <1>4
<1>6. Todo' = Todo
  BY <1>5 DEF Todo
<1>7. StepsDone' = StepsDone
  BY <1>5, <1>6 DEF StepsDone
<1>8. /\ \A u : RowsOf(u)' = RowsOf(u)
      /\ \A f, rows : Content(f, rows)' = Content(f, rows)
  BY <1>5 DEF RowsOf, Content
<1>9. JobOk'
  <2>1. /\ job.kind \in Kinds /\ job.req \in Requests /\ job.n \in Nat \ {0}
        /\ job.kind \notin {"text_layers", "image_layers"} => job.n = LayerCount
        /\ job.at \in 1..Len(Todo) + 1 /\ Accepted(StepsDone)
    BY <1>2 DEF JobOk
  <2>2. job.at = Len(Todo) + 1
    <3>1. Len(Todo) \in Nat
      <4>1. PICK s : s = Todo
        OBVIOUS
      <4>2. Leads(s, {}, job.req, job.n)
        BY <2>1, <4>1, StepsLead DEF Todo
      <4>3. Len(s) \in Nat
        BY <4>2 DEF Leads, IsList
      <4> QED BY <4>1, <4>3
    <3>2. PICK l \in Nat : l = Len(Todo)
      BY <3>1
    <3> QED BY <1>1, <2>1, <3>2
  <2>3. job' = [phase |-> job'.phase, kind |-> job'.kind, req |-> job'.req, n |-> job'.n,
                at |-> job'.at, of |-> {dumps'}, tokens |-> job'.req.tokens]
    BY <1>1, <1>4
  <2> QED BY <1>1, <1>5, <1>6, <1>7, <2>1, <2>2, <2>3 DEF JobOk
<1>10. FilesOk'
  <2>1. ASSUME NEW x \in StepsDone, x.op = "write"
        PROVE  /\ x.file \in DOMAIN disk
               /\ disk[x.file] = Content(x.file, RowsOf(UnitOf(x.file)))'
    <3>1. PICK f, u : f = x.file /\ u = UnitOf(f)
      OBVIOUS
    <3>2. Content(f, RowsOf(u))' = Content(f, RowsOf(u))
      BY <1>8
    <3>3. f \in DOMAIN disk /\ disk[f] = Content(f, RowsOf(u))
      BY <1>2, <2>1, <3>1 DEF FilesOk
    <3> QED BY <3>1, <3>2, <3>3
  <2> QED BY <1>1, <1>7, <2>1 DEF FilesOk
<1>11. ManifestOk'
  BY <1>1, <1>2, <1>5, <1>7, <1>8 DEF ManifestOk
<1>12. ExpectationsOk'
  BY <1>1, <1>2 DEF ExpectationsOk, Readable, Named, OfItsDump
<1> QED BY <1>1, <1>2, <1>5, <1>9, <1>10, <1>11, <1>12 DEF DirectoryOk, DumpOk

LEMMA FailKeeps == ASSUME DirectoryOk, Fail PROVE DirectoryOk'
<1>1. /\ job'.phase = "none" /\ disk' = disk /\ manifest' = manifest /\ dumps' = dumps
  BY DEF Fail
<1>2. ExpectationsOk'
  BY <1>1 DEF DirectoryOk, ExpectationsOk, Readable, Named, OfItsDump
<1> QED BY <1>1, <1>2 DEF DirectoryOk, DumpOk

LEMMA CrashKeeps == ASSUME DirectoryOk, Crash PROVE DirectoryOk'
<1>1. job'.phase = "none" /\ dumps' = dumps
  BY DEF Crash
<1>2. CASE At("write") /\ manifest' = manifest
             /\ \E rows \in {0, RowsOf(Step.unit) - 1} : disk' = Put(Step.file, rows)
  <2>1. PICK rows : disk' = Put(Step.file, rows)
    BY <1>2
  <2>2. job.phase = "running" /\ job.at <= Len(Todo) /\ Step.op = "write"
    BY <1>2 DEF At, Running, Step
  <2>3. JobOk /\ ManifestOk /\ ExpectationsOk
    BY <2>2 DEF DirectoryOk, DumpOk
  <2>4. ExpectationsOk'
    BY <1>2, <2>1, <2>2, <2>3, WriteSpares
  <2> QED BY <1>1, <2>4 DEF DirectoryOk, DumpOk
<1>3. CASE manifest' = [is |-> "torn"]
  <2>1. ExpectationsOk'
    BY <1>3 DEF ExpectationsOk, Readable
  <2> QED BY <1>1, <2>1 DEF DirectoryOk, DumpOk
<1> QED BY <1>2, <1>3 DEF Crash

LEMMA DirectoryInit == Init => DirectoryOk
<1> SUFFICES ASSUME Init PROVE DirectoryOk
  OBVIOUS
<1>1. job.phase = "none" /\ manifest.is = "absent" /\ dumps = 0
  BY DEF Init
<1> QED BY <1>1 DEF DirectoryOk, DumpOk, ExpectationsOk, Readable

(* Every reachable state of the directory: what a running or finished dump *)
(* has written is on disk with its own data, the manifest tells what it    *)
(* has committed, and an expectation is named only with all it came from   *)
(* (golden.py: dump_*_fixture, _add_hidden_tensor_manifest).               *)
THEOREM DirectoryInvariant == Spec => []DirectoryOk
<1>1. DirectoryOk /\ [Next]_vars => DirectoryOk'
  <2> SUFFICES ASSUME DirectoryOk, [Next]_vars PROVE DirectoryOk'
    OBVIOUS
  <2>1. CASE UNCHANGED vars
    <3>1. disk' = disk /\ manifest' = manifest /\ job' = job /\ dumps' = dumps
      BY <2>1 DEF vars
    <3> QED BY <3>1 DEF DirectoryOk, DumpOk, JobOk, FilesOk, ManifestOk, ExpectationsOk, StepsDone,
                        Todo, Content, RowsOf, Readable, Named, OfItsDump
  <2> QED BY <2>1, StartKeeps, WriteFileKeeps, SaveKeeps, CommitKeeps, PassesKeeps, ReloadKeeps,
             FinishKeeps, FailKeeps, CrashKeeps DEF Next
<1> QED BY <1>1, DirectoryInit, PTL DEF Spec

-----------------------------------------------------------------------------
(* What a parity test reads.                                               *)

LEMMA OneDumpOk == DirectoryOk => ExpectationsOfOneDump
<1> SUFFICES ASSUME ExpectationsOk PROVE ExpectationsOfOneDump
  BY DEF DirectoryOk
<1> DEFINE d == manifest.by
<1>1. ASSUME Readable, NEW e \in Expectations, Named(e)
      PROVE  /\ \A f \in PromptParts \cup HiddenOf(LayerCount) \cup Logits : disk[f].of = {d}
             /\ \A f \in RoutersOf(LayerCount) \cup {Generated} : Named(f) => disk[f].of = {d}
             /\ \A of : Count(of) = LayerCount
             /\ disk[Mask].span > 0 =>
                  disk[Visual].of = {d} /\ (Named(Generated) => disk[GeneratedText].of = {d})
  BY <1>1 DEF ExpectationsOk, OfItsDump, Count
<1>2. <<"logits_ids", 0>> \in Logits /\ Logits \subseteq Expectations /\ Generated \in Expectations
  BY DEF Logits, Expectations
<1>3. ASSUME NEW kind \in {"text_logits", "text_generated", "image_logits", "image_generated"},
             Loads(kind)
      PROVE  Sources(Parts(kind)) = {d}
  <2>1. Readable /\ LoadsLogits
    BY <1>3 DEF Loads, LoadsTextLayers, LoadsImageLayers, LoadsImagePrompt, LoadsPrompt
  <2>2. Named(<<"logits_ids", 0>>)
    BY <1>2, <2>1 DEF LoadsLogits, HasNamed
  <2>3. /\ \A f \in PromptParts \cup HiddenOf(LayerCount) \cup Logits : disk[f].of = {d}
        /\ \A f \in RoutersOf(LayerCount) \cup {Generated} : Named(f) => disk[f].of = {d}
        /\ \A of : Count(of) = LayerCount
        /\ disk[Mask].span > 0 =>
             disk[Visual].of = {d} /\ (Named(Generated) => disk[GeneratedText].of = {d})
    BY <1>1, <1>2, <2>1, <2>2
  <2>4. kind \in {"text_generated", "image_generated"} => Named(Generated)
    BY <1>3 DEF Loads, LoadsGeneratedIds, HasNamed
  <2>5. kind \in {"image_logits", "image_generated"} => disk[Mask].span > 0
    BY <1>3 DEF Loads, LoadsImageLayers, LoadsImagePrompt
  <2>6. \A f \in TextLayerParts : disk[f].of = {d}
    BY <2>3 DEF TextLayerParts
  <2>7. disk[Mask].span > 0 => \A f \in ImageLayerParts : disk[f].of = {d}
    BY <2>3 DEF ImageLayerParts, ImageParts, Routed
  <2>8. \A f \in Parts(kind) : disk[f].of = {d}
    BY <2>3, <2>4, <2>5, <2>6, <2>7 DEF Parts
  <2>9. Ids \in Parts(kind)
    BY DEF Parts, PromptParts, TextLayerParts, ImageLayerParts, ImageParts
  <2>10. PICK F, c : F = Parts(kind) /\ c = d
    OBVIOUS
  <2> QED BY <2>8, <2>9, <2>10, SourcesOfOne
<1>4. ASSUME LoadsImagePrompt, LoadsExpectedIds
      PROVE  Sources(ImageParts \cup {Generated}) = {d}
  <2>1. Readable /\ Named(Generated) /\ disk[Mask].span > 0
    BY <1>4 DEF LoadsExpectedIds, LoadsGeneratedIds, HasNamed, LoadsImagePrompt
  <2>2. \A f \in ImageParts \cup {Generated} : disk[f].of = {d}
    BY <1>1, <1>2, <2>1 DEF ImageParts
  <2>3. PICK F, c : F = ImageParts \cup {Generated} /\ c = d
    OBVIOUS
  <2>4. Generated \in F
    BY <2>3
  <2> QED BY <2>2, <2>3, <2>4, SourcesOfOne
<1> QED BY <1>3, <1>4 DEF ExpectationsOfOneDump

(* Logits and generated ids are never loaded with the prompt or the layers *)
(* of another dump, whatever failed, crashed or was dumped before into the *)
(* directory (golden.py: load_*_logits_topk_dump, load_*_generated_ids_    *)
(* dump; parity.py: load_dumped_image_embedding_expected_ids).             *)
THEOREM ExpectationsComeTogether == Spec => []ExpectationsOfOneDump
BY DirectoryInvariant, OneDumpOk, PTL

LEMMA ReloadsOk == DirectoryOk => FinishedDumpReloads
<1> SUFFICES ASSUME DirectoryOk, job.phase = "done"
             PROVE  /\ \A kind \in ReadBack(job.kind, job.n) :
                         Loads(kind) /\ Sources(Parts(kind)) = {dumps}
                    /\ job.req.images > 0 => LoadsVisual /\ Sources({Visual}) = {dumps}
  BY DEF FinishedDumpReloads
<1>1. JobOk /\ FilesOk /\ ManifestOk
  BY DEF DirectoryOk, DumpOk
<1>2. PICK r, n, b, s : r = job.req /\ n = job.n /\ b = StepsDone /\ s = Todo
  OBVIOUS
<1>3. /\ Leads(s, {}, r, n)
      /\ Accepted(Rng(s)) =>
           /\ \A k \in ReadBack(job.kind, n) : Supplies(k, Rng(s), r, n)
           /\ r.images > 0 => Committed(Rng(s), Visual) /\ Wrote(Rng(s), Visual) /\ Span(r) > 0
  BY <1>1, <1>2, StepsLead DEF JobOk, Todo
<1>4. b = Rng(s)
  <2>1. Len(s) \in Nat /\ job.at = Len(s) + 1
    BY <1>1, <1>2, <1>3 DEF JobOk, Leads, IsList
  <2>2. PICK l \in Nat : l = Len(s)
    BY <2>1
  <2>3. 1..(l + 1) - 1 = 1..l
    BY <2>2
  <2> QED BY <1>2, <2>1, <2>2, <2>3 DEF StepsDone, Before, Rng
<1>5. Accepted(b)
  BY <1>1, <1>2 DEF JobOk
<1>6. ASSUME NEW kind \in ReadBack(job.kind, job.n)
      PROVE  Loads(kind) /\ Sources(Parts(kind)) = {dumps}
  <2>1. Supplies(kind, StepsDone, job.req, job.n)
    BY <1>2, <1>3, <1>4, <1>5, <1>6
  <2> QED BY <1>1, <2>1, SuppliedLoads
<1>7. ASSUME job.req.images > 0 PROVE LoadsVisual /\ Sources({Visual}) = {dumps}
  <2>1. Committed(b, Visual) /\ Wrote(b, Visual) /\ Span(r) > 0
    BY <1>2, <1>3, <1>4, <1>5, <1>7
  <2>2. Save \in StepsDone
    <3>1. "image_prompt" \in ReadBack(job.kind, job.n) \/ "text_prompt" \in ReadBack(job.kind, job.n)
      BY <1>1 DEF ReadBack, JobOk, Kinds
    <3>2. PICK k \in ReadBack(job.kind, job.n) : TRUE
      BY <3>1
    <3>3. Supplies(k, b, r, n)
      BY <1>2, <1>3, <1>4, <1>5
    <3> QED BY <1>2, <3>3 DEF Supplies
  <2>3. /\ Mine(Visual) /\ Named(Visual) /\ manifest.named[Visual] = RowsOf(UnitOf(Visual)) /\ Readable
    BY <1>1, <1>2, <2>1, <2>2, MineIs
  <2>4. RowsOf(UnitOf(Visual)) = Span(r)
    BY <1>1, <1>2, UnitsAre, RowsAre
  <2>5. LoadsVisual
    BY <2>1, <2>3, <2>4 DEF LoadsVisual, Mine
  <2>6. Sources({Visual}) = {dumps}
    <3>1. disk[Visual].of = {dumps}
      BY <2>3 DEF Mine
    <3>2. PICK F : F = {Visual}
      OBVIOUS
    <3> QED BY <3>1, <3>2, SourcesOfOne
  <2> QED BY <2>5, <2>6
<1> QED BY <1>6, <1>7

(* A dump that returned loads, with each of its prefixes, and what is      *)
(* loaded is its own: no file of an earlier dump into the directory is     *)
(* taken for one of this dump (golden.py: dump_*_fixture against           *)
(* load_*_dump).                                                           *)
THEOREM FinishedDumpsReload == Spec => []FinishedDumpReloads
BY DirectoryInvariant, ReloadsOk, PTL
=================================================================================
