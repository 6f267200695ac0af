-------------------------- MODULE ConversionProofs --------------------------
(***************************************************************************)
(* Proofs about the conversion of a checkpoint and the comparison of a     *)
(* tensor with the file, for every checkpoint, quantization profile, plan, *)
(* size of a chunk and set of damaged bytes (Conversion, TensorCompare).   *)
(*                                                                         *)
(* Three inductive invariants, each over the one before it:                *)
(*   ConversionInv  the plan is what the checks accepted, in the order of  *)
(*                  the ids; the slabs laid out so far are disjoint; the   *)
(*                  file holds what the writer's position has passed;      *)
(*   PlacedInv      and a slab follows the one before it wherever both     *)
(*                  belong to one group, which is what the Metal check of  *)
(*                  the experts and their addressing rest on;              *)
(*   CompareInv     (with ConversionInv) what has been compared is clean,  *)
(*                  or the first mismatch is the one remembered.           *)
(***************************************************************************)
EXTENDS TensorCompare, FiniteSetTheorems, TLAPS

-----------------------------------------------------------------------------
(* Ids (tensor_registry.py).                                               *)


LayerNames ==
  {n \in [kind : LayerKinds, layer : 0..89, number : -1..299,
          part : UNION {PartsOf(k) : k \in LayerKinds}] :
     /\ n.part \in PartsOf(n.kind)
     /\ n.kind = "expert" <=> n.number # -1}

LEMMA NamesTyped ==
  ASSUME NEW n \in LayerNames
  PROVE  /\ n.kind \in LayerKinds /\ n.layer \in 0..89 /\ n.part \in PartsOf(n.kind)
         /\ n.kind = "expert" => n.number \in 0..299
         /\ n.kind # "expert" => n.number = -1
<1>1. n.kind \in LayerKinds /\ n.layer \in 0..89 /\ n.number \in -1..299 /\ n.part \in PartsOf(n.kind)
  BY DEF LayerNames
<1>2. n.kind = "expert" <=> n.number # -1
  BY DEF LayerNames
<1>3. CASE n.kind = "expert"
  BY <1>1, <1>2, <1>3
<1>4. CASE n.kind # "expert"
  BY <1>1, <1>2, <1>4
<1> QED
  BY <1>1, <1>3, <1>4

(* What is added to the base of the kind stays below the next kind's base. *)
LEMMA PartsInRange ==
  ASSUME NEW n \in LayerNames
  PROVE  /\ PartOffset(n.kind, n.part) \in 0..4
         /\ n.kind \in {"norm"} => PartOffset(n.kind, n.part) \in 0..1
         /\ n.kind = "expert" => PartOffset(n.kind, n.part) \in 0..2
         /\ KindBase(n.kind) \in Nat
<1>1. n.kind \in LayerKinds
  BY DEF LayerNames
<1> QED
  BY <1>1 DEF PartOffset, KindBase, LayerKinds, SparseKinds

(* In a kind, the place of a tensor tells its part. *)
LEMMA OffsetTellsPart ==
  ASSUME NEW n \in LayerNames, NEW m \in LayerNames, n.kind = m.kind,
         PartOffset(n.kind, n.part) = PartOffset(m.kind, m.part)
  PROVE  n.part = m.part
<1>1. n.kind \in LayerKinds /\ n.part \in PartsOf(n.kind) /\ m.part \in PartsOf(n.kind)
  BY DEF LayerNames
<1>2. CASE n.kind = "norm"
  BY <1>1, <1>2 DEF PartOffset, PartsOf
<1>3. CASE n.kind = "attn"
  BY <1>1, <1>3 DEF PartOffset, PartsOf
<1>4. CASE n.kind \in {"dense", "shared", "expert"}
  BY <1>1, <1>4 DEF PartOffset, PartsOf
<1>5. CASE n.kind \in {"dash", "indexer"}
  BY <1>1, <1>5 DEF PartOffset, PartsOf, SparseKinds
<1>6. CASE n.kind = "router"
  BY <1>1, <1>6 DEF PartsOf, SparseKinds
<1> QED
  BY <1>1, <1>2, <1>3, <1>4, <1>5, <1>6 DEF LayerKinds

LEMMA LocalInRange ==
  ASSUME NEW n \in LayerNames
  PROVE  /\ LocalId(n) \in 1..999
         /\ n.kind = "expert" => LocalId(n) = 100 + PartOffset(n.kind, n.part) + 3 * n.number
         /\ n.kind # "expert" => LocalId(n) = KindBase(n.kind) + PartOffset(n.kind, n.part)
         /\ n.kind # "expert" => LocalId(n) < 100
<1>1. n.kind \in LayerKinds /\ n.number \in -1..299 /\ (n.kind = "expert" => n.number # -1)
  BY DEF LayerNames
<1>2. PartOffset(n.kind, n.part) \in 0..4 /\ (n.kind = "expert" => PartOffset(n.kind, n.part) \in 0..2)
  BY PartsInRange
<1>3. CASE n.kind = "expert"
  BY <1>1, <1>2, <1>3 DEF LocalId, KindBase, ExpertStride
<1>4. CASE n.kind # "expert"
  <2>1. KindBase(n.kind) \in 1..70
    BY <1>1, <1>4 DEF KindBase, LayerKinds
  <2> QED
    BY <1>2, <1>4, <2>1 DEF LocalId
<1> QED
  BY <1>3, <1>4

(* Outside the experts, the kinds' ranges do not meet. *)
LEMMA LocalTellsKind ==
  ASSUME NEW n \in LayerNames, NEW m \in LayerNames, LocalId(n) = LocalId(m)
  PROVE  n.kind = m.kind
<1>1. n.kind \in LayerKinds /\ m.kind \in LayerKinds
  BY DEF LayerNames
<1>2. (n.kind = "expert" => n.number \in 0..299) /\ (m.kind = "expert" => m.number \in 0..299)
  BY NamesTyped
<1>3. PartOffset(n.kind, n.part) \in 0..4 /\ PartOffset(m.kind, m.part) \in 0..4
  BY PartsInRange
<1>4. (n.kind = "norm" => PartOffset(n.kind, n.part) \in 0..1)
      /\ (m.kind = "norm" => PartOffset(m.kind, m.part) \in 0..1)
  BY PartsInRange
<1>5. (n.kind = "expert" => LocalId(n) >= 100) /\ (n.kind # "expert" => LocalId(n) < 100)
  BY <1>2, <1>3, LocalInRange
<1>6. (m.kind = "expert" => LocalId(m) >= 100) /\ (m.kind # "expert" => LocalId(m) < 100)
  BY <1>2, <1>3, LocalInRange
<1>7. n.kind = "expert" <=> m.kind = "expert"
  BY <1>5, <1>6, LocalInRange
<1>8. CASE n.kind # "expert" /\ m.kind # "expert"
  <2>1. KindBase(n.kind) + PartOffset(n.kind, n.part) = KindBase(m.kind) + PartOffset(m.kind, m.part)
    BY <1>8, LocalInRange
  <2>2. KindBase(n.kind) \in {1, 10, 30, 40, 50, 60, 70} /\ KindBase(m.kind) \in {1, 10, 30, 40, 50, 60, 70}
    BY <1>1, <1>8 DEF KindBase, LayerKinds
  <2>3. KindBase(n.kind) = KindBase(m.kind)
    BY <2>1, <2>2, <1>3
  <2> QED
    BY <1>1, <1>8, <2>3 DEF KindBase, LayerKinds
<1> QED
  BY <1>7, <1>8

(* Two tensors of the decoder's layers never share a number: neither two   *)
(* experts, nor an expert and the next layer.                              *)
THEOREM LayerIdsDistinct ==
  ASSUME NEW n \in LayerNames, NEW m \in LayerNames, LayerId(n) = LayerId(m)
  PROVE  n = m
<1>1. n.layer \in 0..89 /\ m.layer \in 0..89
  BY NamesTyped
<1>2. LocalId(n) \in 1..999 /\ LocalId(m) \in 1..999
  BY LocalInRange
<1>3. n.layer = m.layer /\ LocalId(n) = LocalId(m)
  <2>1. 10000 + 1000 * n.layer + LocalId(n) = 10000 + 1000 * m.layer + LocalId(m)
    BY DEF LayerId, LayerBase, LayerStride
  <2> DEFINE a == n.layer  b == m.layer  x == LocalId(n)  y == LocalId(m)
  <2>2. a \in 0..89 /\ b \in 0..89 /\ x \in 1..999 /\ y \in 1..999
    BY <1>1, <1>2
  <2>3. 10000 + 1000 * a + x = 10000 + 1000 * b + y
    BY <2>1
  <2> HIDE DEF a, b, x, y
  <2>4. a = b /\ x = y
    BY <2>2, <2>3
  <2> QED
    BY <2>4 DEF a, b, x, y
<1>4. n.kind = m.kind
  BY <1>3, LocalTellsKind
<1>5. n.part = m.part /\ n.number = m.number
  <2>1. CASE n.kind = "expert"
    <3>1. PartOffset(n.kind, n.part) \in 0..2 /\ PartOffset(m.kind, m.part) \in 0..2
      BY <1>4, <2>1, PartsInRange
    <3>0. m.kind = "expert"
      BY <1>4, <2>1
    <3>2. n.number \in 0..299 /\ m.number \in 0..299
      <4>1. n.number \in 0..299
        BY <2>1, NamesTyped
      <4>2. m.number \in 0..299
        BY <3>0, NamesTyped
      <4> QED
        BY <4>1, <4>2
    <3>3. 100 + PartOffset(n.kind, n.part) + 3 * n.number = 100 + PartOffset(m.kind, m.part) + 3 * m.number
      BY <1>3, <1>4, <2>1, LocalInRange
    <3> DEFINE a == n.number  b == m.number
               x == PartOffset(n.kind, n.part)  y == PartOffset(m.kind, m.part)
    <3>5. a \in 0..299 /\ b \in 0..299 /\ x \in 0..2 /\ y \in 0..2 /\ 100 + x + 3 * a = 100 + y + 3 * b
      BY <3>1, <3>2, <3>3
    <3> HIDE DEF a, b, x, y
    <3>6. a = b /\ x = y
      BY <3>5
    <3>4. PartOffset(n.kind, n.part) = PartOffset(m.kind, m.part) /\ n.number = m.number
      BY <3>6 DEF a, b, x, y
    <3> QED
      BY <1>4, <3>4, OffsetTellsPart
  <2>2. CASE n.kind # "expert"
    <3>1. PartOffset(n.kind, n.part) = PartOffset(m.kind, m.part)
      <4>1. KindBase(n.kind) + PartOffset(n.kind, n.part) = KindBase(n.kind) + PartOffset(m.kind, m.part)
        BY <1>3, <1>4, <2>2, LocalInRange
      <4>2. KindBase(n.kind) \in Nat /\ PartOffset(n.kind, n.part) \in 0..4 /\ PartOffset(m.kind, m.part) \in 0..4
        BY PartsInRange
      <4> QED
        BY <4>1, <4>2
    <3>2. n.number = -1 /\ m.number = -1
      BY <1>4, <2>2, NamesTyped
    <3> QED
      BY <1>4, <3>1, <3>2, OffsetTellsPart
  <2> QED
    BY <2>1, <2>2
<1>6. n \in [kind : LayerKinds, layer : 0..89, number : -1..299, part : UNION {PartsOf(k) : k \in LayerKinds}]
      /\ m \in [kind : LayerKinds, layer : 0..89, number : -1..299, part : UNION {PartsOf(k) : k \in LayerKinds}]
  BY DEF LayerNames
<1> QED
  BY <1>3, <1>4, <1>5, <1>6

(* The projections of a layer's experts have consecutive numbers in the    *)
(* order Metal addresses them, gate, up and down of one expert after those *)
(* of the other: with the theorem above, no other tensor of a layer comes  *)
(* between them in the directory.                                          *)
THEOREM ExpertIdsConsecutive ==
  ASSUME NEW layer \in Nat, NEW k \in Nat
  PROVE  LayerId(ExpertName(layer, k)) = LayerBase + LayerStride * layer + 100 + k
<1> DEFINE e == ExpertName(layer, k)
<1>1. k % 3 \in 0..2 /\ k = 3 * (k \div 3) + (k % 3) /\ k \div 3 \in Int
  OBVIOUS
<1>0. e.kind = "expert" /\ e.layer = layer /\ e.number = k \div 3 /\ e.part = Projections[(k % 3) + 1]
  BY DEF ExpertName
<1> HIDE DEF e
<1>2. PartOffset("expert", e.part) = k % 3
  <2>1. CASE k % 3 = 0
    BY <1>0, <2>1 DEF PartOffset, Projections, SparseKinds
  <2>2. CASE k % 3 = 1
    BY <1>0, <2>2 DEF PartOffset, Projections, SparseKinds
  <2>3. CASE k % 3 = 2
    BY <1>0, <2>3 DEF PartOffset, Projections, SparseKinds
  <2> QED
    BY <1>1, <2>1, <2>2, <2>3
<1>3. LocalId(e) = 100 + (k % 3) + 3 * (k \div 3)
  BY <1>0, <1>1, <1>2 DEF LocalId, KindBase, ExpertStride
<1>4. LayerId(e) = LayerBase + LayerStride * layer + 100 + k
  BY <1>0, <1>1, <1>3 DEF LayerId, LayerBase, LayerStride
<1> QED
  BY <1>4 DEF e

(* A set of natural numbers that is not empty has a least element. *)
LEMMA LeastNat ==
  ASSUME NEW S \in SUBSET Nat, S # {}
  PROVE  \E n \in S : \A m \in S : n <= m
<1>1. PICK n \in S : \A m \in S : ~(<<m, n>> \in OpToRel(<, Nat))
  BY NatLessThanWellFounded, WFMin
<1>2. OpToRel(<, Nat) = {p \in Nat \X Nat : p[1] < p[2]}
  BY Zenon DEF OpToRel
<1>3. \A m \in S : <<m, n>> \notin {p \in Nat \X Nat : p[1] < p[2]}
  BY <1>1, <1>2, Zenon
<1>4. ASSUME NEW m \in S
      PROVE  n <= m
  <2>1. m \in Nat /\ n \in Nat
    BY <1>1
  <2>2. ~(m < n)
    BY <1>3, <2>1
  <2> QED
    BY <2>1, <2>2
<1> QED
  BY <1>1, <1>4

LEMMA FunctionIsSeq ==
  ASSUME NEW S, NEW n \in Nat, NEW f \in [1..n -> S]
  PROVE  f \in Seq(S) /\ Len(f) = n
<1> QED OBVIOUS

-----------------------------------------------------------------------------
(* The plan.                                                               *)

Ordered(names) ==
  /\ IsFiniteSet(names)
  /\ \A n \in names : IdOf(n, names) \in Int
  /\ \A m, n \in names : IdOf(m, names) = IdOf(n, names) => m = n

Below(n, names) == {m \in names : IdOf(m, names) < IdOf(n, names)}
At(n, names) == 1 + Cardinality(Below(n, names))

(* The place of a tensor is one more than the number of those before it.   *)
LEMMA PlacesOrdered ==
  ASSUME NEW names, Ordered(names)
  PROVE  /\ Cardinality(names) \in Nat
         /\ \A n \in names : At(n, names) \in 1..Cardinality(names)
         /\ \A m, n \in names : IdOf(m, names) < IdOf(n, names) => At(m, names) < At(n, names)
         /\ \A i \in 1..Cardinality(names) : \E n \in names : At(n, names) = i
<1> DEFINE C == Cardinality(names)
<1>0. /\ IsFiniteSet(names)
      /\ \A n \in names : IdOf(n, names) \in Int
      /\ \A m, n \in names : IdOf(m, names) = IdOf(n, names) => m = n
  BY DEF Ordered
<1>1. C \in Nat
  BY <1>0, FS_CardinalityType
<1>2. ASSUME NEW n \in names
      PROVE  /\ IsFiniteSet(Below(n, names)) /\ Cardinality(Below(n, names)) \in Nat
             /\ Cardinality(Below(n, names)) < C
  <2>1. Below(n, names) \in SUBSET names /\ n \notin Below(n, names)
    BY <1>0 DEF Below
  <2>2. IsFiniteSet(Below(n, names)) /\ Cardinality(Below(n, names)) <= C
        /\ (Cardinality(Below(n, names)) = C => Below(n, names) = names)
    BY <1>0, <2>1, FS_Subset
  <2>3. Cardinality(Below(n, names)) \in Nat
    BY <2>2, FS_CardinalityType
  <2>4. Cardinality(Below(n, names)) # C
    BY <2>1, <2>2
  <2> QED
    BY <1>1, <2>2, <2>3, <2>4
<1>3. ASSUME NEW m \in names, NEW n \in names, IdOf(m, names) < IdOf(n, names)
      PROVE  Cardinality(Below(m, names)) < Cardinality(Below(n, names))
  <2>1. Below(m, names) \in SUBSET Below(n, names)
    BY <1>0, <1>3 DEF Below
  <2>2. m \in Below(n, names) /\ m \notin Below(m, names)
    BY <1>0, <1>3 DEF Below
  <2>3. Cardinality(Below(m, names)) <= Cardinality(Below(n, names))
        /\ (Cardinality(Below(m, names)) = Cardinality(Below(n, names)) => Below(m, names) = Below(n, names))
    BY <1>2, <2>1, FS_Subset
  <2>4. Cardinality(Below(m, names)) # Cardinality(Below(n, names))
    BY <2>2, <2>3
  <2> QED
    BY <1>2, <2>3, <2>4
<1>4. \A n \in names : At(n, names) = 1 + Cardinality(Below(n, names))
  BY DEF At
<1>5. \A n \in names : At(n, names) \in 1..C
  BY <1>1, <1>2, <1>4
<1>6. ASSUME NEW m \in names, NEW n \in names, IdOf(m, names) < IdOf(n, names)
      PROVE  At(m, names) < At(n, names)
  BY <1>2, <1>3, <1>4, <1>6
<1> DEFINE f == [n \in names |-> At(n, names)]
<1>7. f \in Injection(names, 1..C)
  <2>1. f \in [names -> 1..C]
    BY <1>5
  <2>2. ASSUME NEW m \in names, NEW n \in names, f[m] = f[n]
        PROVE  m = n
    <3>1. At(m, names) = At(n, names)
      BY <2>2
    <3>2. At(m, names) \in Int /\ At(n, names) \in Int
      BY <1>1, <1>5
    <3>3. ~(IdOf(m, names) < IdOf(n, names)) /\ ~(IdOf(n, names) < IdOf(m, names))
      BY <1>6, <3>1, <3>2
    <3>4. IdOf(m, names) = IdOf(n, names)
      BY <1>0, <3>3
    <3> QED
      BY <1>0, <3>4
  <2> HIDE DEF f
  <2>3. \A m, n \in DOMAIN f : f[m] = f[n] => m = n
    BY <2>1, <2>2
  <2> QED
    BY <2>1, <2>3 DEF Injection, IsInjective
<1>8. IsFiniteSet(1..C) /\ Cardinality(1..C) = C
  <2>1. IsFiniteSet(1..C) /\ Cardinality(1..C) = IF 1 > C THEN 0 ELSE C - 1 + 1
    BY <1>1, FS_Interval
  <2> QED
    BY <1>1, <2>1
<1>9. f \in Surjection(names, 1..C)
  <2> HIDE DEF f
  <2> QED
    BY <1>7, <1>8, FS_Injection
<1>10. \A i \in 1..C : \E n \in names : At(n, names) = i
  BY <1>9 DEF Surjection
<1> QED
  BY <1>1, <1>5, <1>6, <1>10

(* A plan lists the tensors in the order of their numbers.                 *)
LEMMA PlanIsOrdered ==
  ASSUME Ordered(Names)
  PROVE  /\ PlanOf(Names) \in Seq({Planned(n) : n \in Names})
         /\ \A i, j \in 1..Len(PlanOf(Names)) : i < j => PlanOf(Names)[i].id < PlanOf(Names)[j].id
<1> DEFINE C == Cardinality(Names)
           id == [n \in Names |-> IdOf(n, Names)]
           at == [n \in Names |-> 1 + Cardinality({m \in Names : id[m] < id[n]})]
           pick(i) == CHOOSE n \in Names : at[n] = i
<1>1. /\ C \in Nat
      /\ \A m, n \in Names : IdOf(m, Names) < IdOf(n, Names) => At(m, Names) < At(n, Names)
      /\ \A n \in Names : At(n, Names) \in 1..C
      /\ \A i \in 1..C : \E n \in Names : At(n, Names) = i
  BY PlacesOrdered
<1>2. ASSUME NEW n \in Names
      PROVE  at[n] = At(n, Names)
  <2>1. {m \in Names : id[m] < id[n]} = Below(n, Names)
    BY DEF Below
  <2> QED
    BY <2>1 DEF At
<1>3. PlanOf(Names) = [i \in 1..C |-> Planned(pick(i))]
  BY Zenon DEF PlanOf
<1>4. ASSUME NEW i \in 1..C
      PROVE  pick(i) \in Names /\ At(pick(i), Names) = i
  <2>1. \E n \in Names : at[n] = i
    BY <1>1, <1>2
  <2>2. pick(i) \in Names /\ at[pick(i)] = i
    BY <2>1
  <2> QED
    BY <1>2, <2>2
<1> HIDE DEF pick, at, id
<1>5. PlanOf(Names) \in [1..C -> {Planned(n) : n \in Names}]
  BY <1>3, <1>4
<1>6. PlanOf(Names) \in Seq({Planned(n) : n \in Names}) /\ Len(PlanOf(Names)) = C
  BY <1>1, <1>5, FunctionIsSeq
<1>7. ASSUME NEW i \in 1..C, NEW j \in 1..C, i < j
      PROVE  PlanOf(Names)[i].id < PlanOf(Names)[j].id
  <2>1. IdOf(pick(i), Names) \in Int /\ IdOf(pick(j), Names) \in Int
    BY <1>4 DEF Ordered
  <2>2. pick(i) # pick(j)
    BY <1>4, <1>7
  <2>3. IdOf(pick(i), Names) # IdOf(pick(j), Names)
    BY <1>4, <2>2 DEF Ordered
  <2>4. ~(IdOf(pick(j), Names) < IdOf(pick(i), Names))
    <3>1. SUFFICES ASSUME IdOf(pick(j), Names) < IdOf(pick(i), Names)
                   PROVE  FALSE
      OBVIOUS
    <3>2. At(pick(j), Names) < At(pick(i), Names)
      BY <1>1, <1>4, <3>1
    <3>3. j < i
      BY <1>4, <3>2
    <3> QED
      BY <1>7, <3>3
  <2>5. IdOf(pick(i), Names) < IdOf(pick(j), Names)
    BY <2>1, <2>3, <2>4
  <2>6. PlanOf(Names)[i] = Planned(pick(i)) /\ PlanOf(Names)[j] = Planned(pick(j))
    BY <1>3
  <2>7. \A n : Planned(n).id = IdOf(n, Names)
    BY DEF Planned
  <2> QED
    BY <2>5, <2>6, <2>7
<1> QED
  BY <1>6, <1>7

-----------------------------------------------------------------------------
(* Sizes.                                                                  *)

TensorOK(t) ==
  /\ t.rows \in Nat /\ t.cols \in Nat
  /\ t.qtype \in {"f16", "q8", "q4"}
  /\ Quantized(t) => /\ t.usage # "omitted" /\ t.rows > 0 /\ t.cols > 0
                     /\ t.cols % GroupSize = 0 /\ (t.qtype = "q4" => t.cols % 2 = 0)

LEMMA AlignUpIsMultiple ==
  ASSUME NEW n \in Nat, NEW a \in Nat \ {0}
  PROVE  AlignUp(n, a) \in Nat /\ AlignUp(n, a) >= n /\ AlignUp(n, a) % a = 0
<1>1. n % a \in 0..(a - 1) /\ n = a * (n \div a) + (n % a) /\ n \div a \in Nat
  OBVIOUS
<1>2. CASE n % a = 0
  BY <1>2 DEF AlignUp
<1>3. CASE n % a # 0
  <2>1. AlignUp(n, a) = n + (a - (n % a))
    BY <1>3 DEF AlignUp
  <2>2. AlignUp(n, a) = a * (n \div a) + a
    BY <1>1, <2>1
  <2>3. a * (n \div a) + a = a * ((n \div a) + 1)
    BY <1>1
  <2>4. (a * ((n \div a) + 1)) % a = 0
    BY <1>1
  <2> QED
    BY <1>1, <2>1, <2>2, <2>3, <2>4
<1> QED
  BY <1>2, <1>3

LEMMA ProductIsNat ==
  ASSUME NEW m \in Nat, NEW n \in Nat
  PROVE  m * n \in Nat /\ (m > 0 /\ n > 0 => m * n > 0) /\ (m * n > 0 => m > 0 /\ n > 0)
<1> QED OBVIOUS

LEMMA GroupsOfMultiple ==
  ASSUME NEW n \in Nat, NEW g \in Nat \ {0}, n > 0, n % g = 0
  PROVE  n \div g \in Nat /\ n \div g > 0
<1>1. n = g * (n \div g) + (n % g) /\ n \div g \in Nat
  OBVIOUS
<1> QED
  BY <1>1

LEMMA Monotone ==
  ASSUME NEW m \in Nat, NEW n \in Nat, NEW k \in Nat, m <= n
  PROVE  m * k <= n * k
<1> QED OBVIOUS

LEMMA RowSizes ==
  ASSUME NEW t, TensorOK(t)
  PROVE  /\ RowBytes(t) \in Nat /\ RowScales(t) \in Nat
         /\ Quantized(t) => RowBytes(t) > 0 /\ RowScales(t) > 0
         /\ ~Quantized(t) => RowScales(t) = 0
<1>0. /\ t.rows \in Nat /\ t.cols \in Nat /\ t.qtype \in {"f16", "q8", "q4"}
      /\ Quantized(t) => /\ t.cols > 0 /\ t.cols % GroupSize = 0 /\ (t.qtype = "q4" => t.cols % 2 = 0)
  BY DEF TensorOK
<1>1. GroupSize \in Nat \ {0}
  BY GroupAssumption
<1>2. CASE t.qtype = "f16"
  BY <1>0, <1>2 DEF RowBytes, RowScales, Quantized
<1>3. CASE t.qtype \in {"q8", "q4"}
  <2>1. Quantized(t)
    BY <1>3 DEF Quantized
  <2>2. t.cols \div GroupSize \in Nat /\ t.cols \div GroupSize > 0
    BY <1>0, <1>1, <2>1, GroupsOfMultiple
  <2>4. RowScales(t) = 2 * (t.cols \div GroupSize)
    BY <2>1 DEF RowScales
  <2>5. RowBytes(t) \in Nat /\ RowBytes(t) > 0
    <3>1. CASE t.qtype = "q8"
      BY <1>0, <2>1, <3>1 DEF RowBytes
    <3>2. CASE t.qtype = "q4"
      BY <1>0, <2>1, <3>2 DEF RowBytes
    <3> QED
      BY <1>3, <3>1, <3>2
  <2> QED
    BY <2>1, <2>2, <2>4, <2>5
<1> QED
  BY <1>0, <1>2, <1>3

LEMMA Sizes ==
  ASSUME NEW t, TensorOK(t)
  PROVE  /\ OutBytes(t) \in Nat /\ ScaleBytes(t) \in Nat
         /\ Quantized(t) => OutBytes(t) > 0 /\ ScaleBytes(t) > 0 /\ ~Omitted(t)
         /\ ~Quantized(t) => ScaleBytes(t) = 0
         /\ ~Omitted(t) => OutBytes(t) = t.rows * RowBytes(t) /\ ScaleBytes(t) = t.rows * RowScales(t)
<1>1. t.rows \in Nat /\ (Quantized(t) => t.usage # "omitted" /\ t.rows > 0)
  BY DEF TensorOK
<1>2. /\ RowBytes(t) \in Nat /\ RowScales(t) \in Nat
      /\ Quantized(t) => RowBytes(t) > 0 /\ RowScales(t) > 0
      /\ ~Quantized(t) => RowScales(t) = 0
  BY RowSizes
<1>3. /\ t.rows * RowBytes(t) \in Nat /\ t.rows * RowScales(t) \in Nat
      /\ Quantized(t) => t.rows * RowBytes(t) > 0 /\ t.rows * RowScales(t) > 0
  BY <1>1, <1>2, ProductIsNat
<1>4. /\ OutBytes(t) = IF Omitted(t) THEN 0 ELSE t.rows * RowBytes(t)
      /\ ScaleBytes(t) = IF Omitted(t) THEN 0 ELSE t.rows * RowScales(t)
      /\ Omitted(t) <=> t.usage = "omitted"
  BY DEF OutBytes, ScaleBytes, Omitted
<1>5. ~Quantized(t) => t.rows * RowScales(t) = 0
  BY <1>1, <1>2
<1> QED
  BY <1>1, <1>3, <1>4, <1>5

(* The records of the file follow one another and end before the data.     *)
LEMMA SectionsInOrder ==
  ASSUME NEW n \in Nat
  PROVE  /\ Sections(n).data[1] \in Nat \ {0}
         /\ \A r \in Records : /\ Sections(n)[r][1] \in Nat /\ Sections(n)[r][2] \in Nat
                               /\ Sections(n)[r][1] + Sections(n)[r][2] <= Sections(n).data[1]
<1>1. /\ Meta.header \in Nat \ {0} /\ Meta.entry \in Nat \ {0} /\ Meta.config \in Nat \ {0}
      /\ Meta.tokenizer \in Nat \ {0} /\ Meta.provenance \in Nat \ {0}
      /\ Meta.dirHeader \in Nat \ {0} /\ Meta.dirEntry \in Nat \ {0}
      /\ DataAlign \in Nat \ {0} /\ SectionAlign \in Nat \ {0}
  BY FileConstants
<1> DEFINE c == AlignUp(Meta.header + 5 * Meta.entry, SectionAlign)
           t == AlignUp(c + Meta.config, SectionAlign)
           p == AlignUp(t + Meta.tokenizer, SectionAlign)
           d == AlignUp(p + Meta.provenance, SectionAlign)
           ds == Meta.dirHeader + n * Meta.dirEntry
           e == AlignUp(d + ds, DataAlign)
<1>2. n * Meta.dirEntry \in Nat
  BY <1>1, ProductIsNat
<1>3. c \in Nat /\ c >= Meta.header + 5 * Meta.entry
  <2>1. Meta.header + 5 * Meta.entry \in Nat
    BY <1>1
  <2> QED
    BY <1>1, <2>1, AlignUpIsMultiple
<1>4. t \in Nat /\ t >= c + Meta.config
  <2> HIDE DEF c
  <2>1. c + Meta.config \in Nat
    BY <1>1, <1>3
  <2> QED
    BY <1>1, <2>1, AlignUpIsMultiple
<1>5. p \in Nat /\ p >= t + Meta.tokenizer
  <2> HIDE DEF t
  <2>1. t + Meta.tokenizer \in Nat
    BY <1>1, <1>4
  <2> QED
    BY <1>1, <2>1, AlignUpIsMultiple
<1>6. d \in Nat /\ d >= p + Meta.provenance
  <2> HIDE DEF p
  <2>1. p + Meta.provenance \in Nat
    BY <1>1, <1>5
  <2> QED
    BY <1>1, <2>1, AlignUpIsMultiple
<1>7. ds \in Nat
  BY <1>1, <1>2
<1>8. e \in Nat /\ e >= d + ds
  <2> HIDE DEF d, ds
  <2>1. d + ds \in Nat
    BY <1>1, <1>6, <1>7
  <2> QED
    BY <1>1, <2>1, AlignUpIsMultiple
<1>9. Sections(n) =
        [header |-> <<0, Meta.header>>, sections |-> <<Meta.header, 5 * Meta.entry>>,
         config |-> <<c, Meta.config>>, tokenizer |-> <<t, Meta.tokenizer>>,
         provenance |-> <<p, Meta.provenance>>, directory |-> <<d, ds>>, data |-> <<e, 0>>]
  BY Zenon DEF Sections
<1> HIDE DEF c, t, p, d, ds, e
<1>10. Sections(n).data[1] = e
  BY <1>9
<1>11. e \in Nat \ {0} /\ c + Meta.config <= e /\ t + Meta.tokenizer <= e /\ p + Meta.provenance <= e
       /\ d + ds <= e /\ Meta.header <= e /\ Meta.header + 5 * Meta.entry <= e
  BY <1>1, <1>3, <1>4, <1>5, <1>6, <1>7, <1>8
<1>12. ASSUME NEW r \in Records
       PROVE  /\ Sections(n)[r][1] \in Nat /\ Sections(n)[r][2] \in Nat
              /\ Sections(n)[r][1] + Sections(n)[r][2] <= e
  <2>1. CASE r = "header"
    <3>1. Sections(n)[r] = <<0, Meta.header>>
      BY <1>9, <2>1
    <3> QED BY <1>1, <1>11, <3>1
  <2>2. CASE r = "sections"
    <3>1. Sections(n)[r] = <<Meta.header, 5 * Meta.entry>>
      BY <1>9, <2>2
    <3> QED BY <1>1, <1>11, <3>1
  <2>3. CASE r = "config"
    <3>1. Sections(n)[r] = <<c, Meta.config>>
      BY <1>9, <2>3
    <3> QED BY <1>1, <1>3, <1>11, <3>1
  <2>4. CASE r = "tokenizer"
    <3>1. Sections(n)[r] = <<t, Meta.tokenizer>>
      BY <1>9, <2>4
    <3> QED BY <1>1, <1>4, <1>11, <3>1
  <2>5. CASE r = "provenance"
    <3>1. Sections(n)[r] = <<p, Meta.provenance>>
      BY <1>9, <2>5
    <3> QED BY <1>1, <1>5, <1>11, <3>1
  <2>6. CASE r = "directory"
    <3>1. Sections(n)[r] = <<d, ds>>
      BY <1>9, <2>6
    <3> QED BY <1>6, <1>7, <1>11, <3>1
  <2> QED
    BY <2>1, <2>2, <2>3, <2>4, <2>5, <2>6 DEF Records
<1> QED
  BY <1>10, <1>11, <1>12

-----------------------------------------------------------------------------
(* The layout.  A slab is the payload or the scales of a tensor.           *)

Parts == {"weight", "scale"}
Place(i, p)  == IF p = "weight" THEN payload[i] ELSE scale[i]
Length(i, p) == IF p = "weight" THEN OutBytes(T(i)) ELSE ScaleBytes(T(i))

PlanTyped == /\ N \in Nat /\ DOMAIN tensors = 1..N
             /\ \A i \in 1..N : TensorOK(T(i))

Bounds ==
  /\ index \in 1..(N + 1) /\ last \in 0..N /\ item \in 0..N
  /\ payload \in [1..N -> Nat] /\ scale \in [1..N -> Nat]
  /\ cursor \in Nat
  /\ stage \in {"payloads", "scales"} => index <= item /\ item <= last

Clear(i, p, j, q) ==
  \/ Place(i, p) = 0
  \/ Place(j, q) = 0
  \/ Place(i, p) + Length(i, p) <= Place(j, q)
  \/ Place(j, q) + Length(j, q) <= Place(i, p)

Slabs == stage # "source" =>
  /\ cursor >= DataStart
  /\ \A i \in 1..N, p \in Parts :
       /\ Place(i, p) % PayloadAlign = 0
       /\ Place(i, p) = 0 \/ (Place(i, p) >= DataStart /\ Place(i, p) + Length(i, p) <= cursor)
  /\ \A i, j \in 1..N, p, q \in Parts : (i = j /\ p = q) \/ Clear(i, p, j, q)

Placed(i) == /\ payload[i] # 0 <=> OutBytes(T(i)) > 0
             /\ scale[i] # 0 <=> ScaleBytes(T(i)) > 0
Half(i)     == payload[i] # 0 /\ OutBytes(T(i)) > 0 /\ scale[i] = 0
Unplaced(i) == payload[i] = 0 /\ scale[i] = 0

LaidStages == {"laid", "metadata", "write", "done", "failed", "damaged"}
Placing ==
  /\ stage = "layout" => \A i \in 1..N : /\ i < index => Placed(i)
                                         /\ i >= index => Unplaced(i)
  /\ stage = "payloads" => \A i \in 1..N :
       /\ i < index => Placed(i)
       /\ index <= i /\ i < item => Half(i)
       /\ i >= item => Unplaced(i)
       /\ index <= i /\ i <= last => OutBytes(T(i)) > 0
  /\ stage = "scales" => \A i \in 1..N :
       /\ i < item => Placed(i)
       /\ item <= i /\ i <= last => Half(i)
       /\ i > last => Unplaced(i)
  /\ stage \in LaidStages => \A i \in 1..N : Placed(i)

LayoutInv == PlanTyped /\ Bounds /\ Slabs /\ Placing

LEMMA PlaceIsNat ==
  ASSUME PlanTyped, Bounds
  PROVE  \A i \in 1..N, p \in Parts : Place(i, p) \in Nat /\ Length(i, p) \in Nat
<1>1. ASSUME NEW i \in 1..N, NEW p \in Parts
      PROVE  Place(i, p) \in Nat /\ Length(i, p) \in Nat
  <2>1. payload[i] \in Nat /\ scale[i] \in Nat
    BY DEF Bounds
  <2>2. OutBytes(T(i)) \in Nat /\ ScaleBytes(T(i)) \in Nat
    <3>1. TensorOK(T(i))
      BY DEF PlanTyped
    <3> QED
      BY <3>1, Sizes
  <2> QED
    BY <2>1, <2>2 DEF Place, Length
<1> QED
  BY <1>1

(* One slab is placed at the next aligned offset: it is behind all others. *)
LEMMA PlaceOne ==
  ASSUME LayoutInv, stage # "source", stage' # "source", tensors' = tensors,
         NEW i0 \in 1..N, NEW p0 \in Parts,
         Place(i0, p0)' = AlignUp(cursor, PayloadAlign),
         cursor' = AlignUp(cursor, PayloadAlign) + Length(i0, p0),
         \A i \in 1..N, p \in Parts : (i = i0 /\ p = p0) \/ Place(i, p)' = Place(i, p)
  PROVE  Slabs'
<1> DEFINE a == AlignUp(cursor, PayloadAlign)
<1>0. PlanTyped /\ Bounds /\ Slabs
  BY DEF LayoutInv
<1>1. /\ PayloadAlign \in Nat \ {0} /\ DataStart \in Nat \ {0}
      /\ N \in Nat /\ cursor \in Nat
  <2>1. N \in Nat /\ cursor \in Nat
    BY <1>0 DEF PlanTyped, Bounds
  <2>2. DataStart \in Nat \ {0}
    BY <2>1, SectionsInOrder DEF DataStart
  <2> QED
    BY <2>1, <2>2, FileConstants
<1>2. a \in Nat /\ a >= cursor /\ a % PayloadAlign = 0
  BY <1>1, AlignUpIsMultiple
<1>3. \A i \in 1..N, p \in Parts : Place(i, p) \in Nat /\ Length(i, p) \in Nat
  BY <1>0, PlaceIsNat
<1>4. N' = N /\ DataStart' = DataStart
  BY DEF N, DataStart
<1>5. ASSUME NEW i \in 1..N, NEW p \in Parts
      PROVE  Length(i, p)' = Length(i, p)
  BY DEF Length, T
<1>6. /\ cursor >= DataStart
      /\ \A i \in 1..N, p \in Parts :
           /\ Place(i, p) % PayloadAlign = 0
           /\ Place(i, p) = 0 \/ (Place(i, p) >= DataStart /\ Place(i, p) + Length(i, p) <= cursor)
      /\ \A i, j \in 1..N, p, q \in Parts : (i = j /\ p = q) \/ Clear(i, p, j, q)
  BY <1>0 DEF Slabs
<1>7. /\ Place(i0, p0)' = a /\ cursor' = a + Length(i0, p0) /\ cursor' \in Nat
      /\ cursor' >= cursor /\ cursor' >= DataStart
  BY <1>1, <1>2, <1>3, <1>6
<1> HIDE DEF a
<1>8. ASSUME NEW i \in 1..N, NEW p \in Parts
      PROVE  /\ Place(i, p)' % PayloadAlign = 0
             /\ Place(i, p)' = 0 \/ (Place(i, p)' >= DataStart /\ Place(i, p)' + Length(i, p) <= cursor')
  <2>1. CASE i = i0 /\ p = p0
    BY <1>1, <1>2, <1>3, <1>6, <1>7, <2>1
  <2>2. CASE ~(i = i0 /\ p = p0)
    <3>1. Place(i, p)' = Place(i, p)
      BY <2>2
    <3>2. Place(i, p) \in Nat /\ Length(i, p) \in Nat
      BY <1>3
    <3> QED
      BY <1>1, <1>6, <1>7, <3>1, <3>2
  <2> QED
    BY <2>1, <2>2
<1>9. ASSUME NEW i \in 1..N, NEW j \in 1..N, NEW p \in Parts, NEW q \in Parts, ~(i = j /\ p = q)
      PROVE  \/ Place(i, p)' = 0 \/ Place(j, q)' = 0
             \/ Place(i, p)' + Length(i, p) <= Place(j, q)'
             \/ Place(j, q)' + Length(j, q) <= Place(i, p)'
  <2>0. /\ Place(i, p) \in Nat /\ Length(i, p) \in Nat /\ Place(j, q) \in Nat /\ Length(j, q) \in Nat
        /\ Place(i, p) = 0 \/ Place(i, p) + Length(i, p) <= cursor
        /\ Place(j, q) = 0 \/ Place(j, q) + Length(j, q) <= cursor
    BY <1>3, <1>6
  <2>1. CASE i = i0 /\ p = p0
    <3>1. Place(j, q)' = Place(j, q) /\ Place(i, p)' = a
      BY <1>7, <1>9, <2>1
    <3> QED
      BY <1>1, <1>2, <2>0, <3>1
  <2>2. CASE j = i0 /\ q = p0
    <3>1. Place(i, p)' = Place(i, p) /\ Place(j, q)' = a
      BY <1>7, <1>9, <2>2
    <3> QED
      BY <1>1, <1>2, <2>0, <3>1
  <2>3. CASE ~(i = i0 /\ p = p0) /\ ~(j = i0 /\ q = p0)
    <3>1. Place(i, p)' = Place(i, p) /\ Place(j, q)' = Place(j, q)
      BY <2>3
    <3>2. Clear(i, p, j, q)
      BY <1>6, <1>9
    <3> QED
      BY <3>1, <3>2 DEF Clear
  <2> QED
    BY <2>1, <2>2, <2>3
<1>10. ASSUME NEW i \in 1..N, NEW j \in 1..N, NEW p \in Parts, NEW q \in Parts
       PROVE  (i = j /\ p = q) \/ Clear(i, p, j, q)'
  <2>1. Length(i, p)' = Length(i, p) /\ Length(j, q)' = Length(j, q)
    BY <1>5
  <2> QED
    BY <1>9, <2>1 DEF Clear
<1>11. ASSUME NEW i \in 1..N, NEW p \in Parts
       PROVE  /\ Place(i, p)' % PayloadAlign = 0
              /\ Place(i, p)' = 0 \/ (Place(i, p)' >= DataStart' /\ Place(i, p)' + Length(i, p)' <= cursor')
  BY <1>4, <1>5, <1>8
<1> QED
  BY <1>4, <1>7, <1>10, <1>11 DEF Slabs

(* A step that places nothing.                                             *)
LEMMA PlaceNone ==
  ASSUME Slabs, stage # "source", UNCHANGED <<tensors, payload, scale, cursor>>
  PROVE  Slabs'
<1> QED BY DEF Slabs, DataStart, N, T, Place, Length, Clear

Typed(p) == /\ Len(p) \in Nat /\ DOMAIN p = 1..Len(p)
            /\ \A i \in 1..Len(p) : TensorOK(p[i])

LEMMA LayOutStep ==
  ASSUME NEW p, NEW m, LayOut(p, m), Typed(p)
  PROVE  LayoutInv'
<1>1. /\ tensors' = p /\ stage' = "layout" /\ index' = 1 /\ last' = 0 /\ item' = 0
      /\ cursor' = Sections(Len(p)).data[1]
      /\ payload' = [i \in DOMAIN p |-> 0] /\ scale' = [i \in DOMAIN p |-> 0]
  BY DEF LayOut
<1>2. Len(p) \in Nat /\ DOMAIN p = 1..Len(p) /\ \A i \in 1..Len(p) : TensorOK(p[i])
  BY DEF Typed
<1>3. N' = Len(p) /\ \A i : T(i)' = p[i]
  BY <1>1 DEF N, T
<1>4. PlanTyped'
  BY <1>1, <1>2, <1>3 DEF PlanTyped
<1>5. /\ payload' \in [1..Len(p) -> Nat] /\ scale' \in [1..Len(p) -> Nat]
      /\ \A i \in 1..Len(p) : payload'[i] = 0 /\ scale'[i] = 0
  BY <1>1, <1>2
<1>6. cursor' = DataStart' /\ cursor' \in Nat
  BY <1>1, <1>2, <1>3, SectionsInOrder DEF DataStart
<1>7. Bounds'
  BY <1>1, <1>2, <1>3, <1>5, <1>6 DEF Bounds
<1>8. PayloadAlign \in Nat \ {0}
  BY FileConstants
<1>9. \A i \in 1..Len(p), q \in Parts : Place(i, q)' = 0
  BY <1>5 DEF Place
<1>10. Slabs'
  <2>1. \A i, j \in 1..Len(p), q, r \in Parts : Clear(i, q, j, r)'
    BY <1>9 DEF Clear
  <2>2. 0 % PayloadAlign = 0
    BY <1>8
  <2> QED
    BY <1>3, <1>6, <1>9, <2>1, <2>2 DEF Slabs
<1>11. Placing'
  BY <1>1, <1>3, <1>5 DEF Placing, Unplaced, LaidStages
<1> QED
  BY <1>4, <1>7, <1>10, <1>11 DEF LayoutInv

(* What a step that keeps the plan keeps of it.                            *)
LEMMA PlanKept ==
  ASSUME PlanTyped, tensors' = tensors
  PROVE  PlanTyped' /\ N' = N /\ DataStart' = DataStart /\ \A i : T(i)' = T(i)
<1> QED BY DEF PlanTyped, N, T, DataStart

LEMMA PlacedKept ==
  ASSUME tensors' = tensors, NEW i, payload'[i] = payload[i], scale'[i] = scale[i]
  PROVE  /\ Placed(i) <=> Placed(i)'
         /\ Half(i) <=> Half(i)'
         /\ Unplaced(i) <=> Unplaced(i)'
<1> QED BY DEF Placed, Half, Unplaced, T

LEMMA SkipEmptyStep ==
  ASSUME LayoutInv, SkipEmpty
  PROVE  LayoutInv'
<1>0. PlanTyped /\ Bounds /\ Slabs /\ Placing
  BY DEF LayoutInv
<1>1. /\ stage = "layout" /\ index <= N /\ OutBytes(T(index)) = 0
      /\ index' = index + 1
      /\ UNCHANGED <<tensors, stage, last, item, cursor, payload, scale>>
  BY DEF SkipEmpty, plan
<1>2. PlanTyped' /\ N' = N /\ \A i : T(i)' = T(i)
  BY <1>0, <1>1, PlanKept
<1>3. Slabs'
  BY <1>0, <1>1, PlaceNone
<1>4. Bounds'
  BY <1>0, <1>1, <1>2 DEF Bounds, PlanTyped
<1>5. index \in 1..N /\ N \in Nat
  BY <1>0, <1>1 DEF Bounds, PlanTyped
<1>6. Placed(index)
  <2>1. TensorOK(T(index)) /\ Unplaced(index)
    BY <1>0, <1>1, <1>5 DEF PlanTyped, Placing
  <2>2. ScaleBytes(T(index)) = 0
    BY <1>1, <2>1, Sizes
  <2> QED
    BY <1>1, <2>1, <2>2 DEF Placed, Unplaced
<1>7. \A i \in 1..N : (i < index => Placed(i)) /\ (i >= index => Unplaced(i))
  BY <1>0, <1>1 DEF Placing
<1>8. \A i \in 1..N : (i < index' => Placed(i)') /\ (i >= index' => Unplaced(i)')
  <2>1. SUFFICES ASSUME NEW i \in 1..N
                 PROVE  (i < index' => Placed(i)') /\ (i >= index' => Unplaced(i)')
    OBVIOUS
  <2>2. (Placed(i) <=> Placed(i)') /\ (Unplaced(i) <=> Unplaced(i)')
    BY <1>1, PlacedKept
  <2> QED
    BY <1>1, <1>5, <1>6, <1>7, <2>2
<1>9. Placing'
  BY <1>1, <1>2, <1>8 DEF Placing, LaidStages
<1> QED
  BY <1>2, <1>3, <1>4, <1>9 DEF LayoutInv

LEMMA StartGroupStep ==
  ASSUME LayoutInv, StartGroup
  PROVE  LayoutInv'
<1>0. PlanTyped /\ Bounds /\ Slabs /\ Placing
  BY DEF LayoutInv
<1>1. /\ stage = "layout" /\ index <= N /\ OutBytes(T(index)) # 0
      /\ last' \in GroupEnds(index)
      /\ item' = index /\ stage' = "payloads"
      /\ UNCHANGED <<tensors, index, cursor, payload, scale>>
  BY DEF StartGroup, plan
<1>2. PlanTyped' /\ N' = N /\ \A i : T(i)' = T(i)
  BY <1>0, <1>1, PlanKept
<1>3. Slabs'
  BY <1>0, <1>1, PlaceNone
<1>4. index \in 1..N /\ N \in Nat
  BY <1>0, <1>1 DEF Bounds, PlanTyped
<1>5. /\ last' \in index..N
      /\ \A i \in 1..N : index <= i /\ i <= last' => OutBytes(T(i)) > 0
  <2>1. CASE QuantizedExpert(T(index))
    <3>1. last' \in index..N /\ \A k \in index..last' : SameSlab(T(index), T(k))
      BY <1>1, <2>1 DEF GroupEnds
    <3>2. ASSUME NEW i \in 1..N, index <= i, i <= last'
          PROVE  OutBytes(T(i)) > 0
      <4>1. SameSlab(T(index), T(i))
        BY <1>4, <3>1, <3>2
      <4>2. Quantized(T(i))
        BY <2>1, <4>1 DEF QuantizedExpert, SameSlab, Quantized
      <4>3. TensorOK(T(i))
        BY <1>0 DEF PlanTyped
      <4> QED
        BY <4>2, <4>3, Sizes
    <3> QED
      BY <3>1, <3>2
  <2>2. CASE ~QuantizedExpert(T(index))
    <3>1. last' = index
      BY <1>1, <2>2 DEF GroupEnds
    <3>2. TensorOK(T(index))
      BY <1>0, <1>4 DEF PlanTyped
    <3>3. OutBytes(T(index)) > 0
      BY <1>1, <3>2, Sizes
    <3>4. \A i \in 1..N : index <= i /\ i <= last' => i = index
      BY <1>4, <3>1
    <3> QED
      BY <1>4, <3>1, <3>3, <3>4
  <2> QED
    BY <2>1, <2>2
<1>6. Bounds'
  BY <1>0, <1>1, <1>2, <1>4, <1>5 DEF Bounds
<1>7. \A i \in 1..N : (i < index => Placed(i)) /\ (i >= index => Unplaced(i))
  BY <1>0, <1>1 DEF Placing
<1>8. \A i \in 1..N :
        /\ i < index' => Placed(i)'
        /\ index' <= i /\ i < item' => Half(i)'
        /\ i >= item' => Unplaced(i)'
        /\ index' <= i /\ i <= last' => OutBytes(T(i)') > 0
  <2>1. SUFFICES ASSUME NEW i \in 1..N
                 PROVE  /\ i < index' => Placed(i)'
                        /\ index' <= i /\ i < item' => Half(i)'
                        /\ i >= item' => Unplaced(i)'
                        /\ index' <= i /\ i <= last' => OutBytes(T(i)') > 0
    OBVIOUS
  <2>2. (Placed(i) <=> Placed(i)') /\ (Unplaced(i) <=> Unplaced(i)')
    BY <1>1, PlacedKept
  <2>3. ~(index' <= i /\ i < item')
    BY <1>1, <1>4
  <2> QED
    BY <1>1, <1>2, <1>5, <1>7, <2>2, <2>3
<1>9. Placing'
  <2>1. \A i \in 1..N : OutBytes(T(i))' = OutBytes(T(i)')
    BY DEF OutBytes, RowBytes, Omitted
  <2> QED
    BY <1>1, <1>2, <1>8, <2>1 DEF Placing, LaidStages
<1> QED
  BY <1>2, <1>3, <1>6, <1>9 DEF LayoutInv

LEMMA PlacePayloadStep ==
  ASSUME LayoutInv, PlacePayload
  PROVE  LayoutInv'
<1>0. PlanTyped /\ Bounds /\ Slabs /\ Placing
  BY DEF LayoutInv
<1> DEFINE a == AlignUp(cursor, PayloadAlign)
<1>1. /\ stage = "payloads"
      /\ payload' = [payload EXCEPT ![item] = a]
      /\ cursor' = a + OutBytes(T(item))
      /\ \/ item = last /\ item' = index /\ stage' = "scales"
         \/ item # last /\ item' = item + 1 /\ stage' = "payloads"
      /\ UNCHANGED <<tensors, index, last, scale>>
  BY DEF PlacePayload, plan
<1>2. PlanTyped' /\ N' = N /\ DataStart' = DataStart /\ \A i : T(i)' = T(i)
  BY <1>0, <1>1, PlanKept
<1>3. /\ index \in 1..N /\ item \in 1..N /\ last \in 1..N /\ N \in Nat
      /\ index <= item /\ item <= last
      /\ payload \in [1..N -> Nat] /\ scale \in [1..N -> Nat] /\ cursor \in Nat
  BY <1>0, <1>1 DEF Bounds, PlanTyped
<1>4. /\ PayloadAlign \in Nat \ {0} /\ DataStart \in Nat \ {0} /\ cursor >= DataStart
      /\ OutBytes(T(item)) \in Nat
  <2>1. DataStart \in Nat \ {0}
    BY <1>3, SectionsInOrder DEF DataStart
  <2>2. TensorOK(T(item))
    BY <1>0, <1>3 DEF PlanTyped
  <2>3. OutBytes(T(item)) \in Nat
    BY <2>2, Sizes
  <2>4. cursor >= DataStart
    BY <1>0, <1>1 DEF Slabs
  <2> QED
    BY <2>1, <2>3, <2>4, FileConstants
<1>5. a \in Nat /\ a >= cursor
  BY <1>3, <1>4, AlignUpIsMultiple
<1>6. a # 0
  <2> HIDE DEF a
  <2> QED
    BY <1>3, <1>4, <1>5
<1> HIDE DEF a
<1>7. /\ payload' \in [1..N -> Nat] /\ payload'[item] = a /\ cursor' \in Nat
      /\ \A i \in 1..N : i # item => payload'[i] = payload[i]
  BY <1>1, <1>3, <1>4, <1>5
<1>8. Slabs'
  <2>0. PICK k \in 1..N : k = item
    BY <1>3
  <2>1. Place(k, "weight")' = a /\ cursor' = a + Length(k, "weight")
    BY <1>1, <1>7, <2>0 DEF Place, Length
  <2>2. ASSUME NEW i \in 1..N, NEW p \in Parts
        PROVE  (i = k /\ p = "weight") \/ Place(i, p)' = Place(i, p)
    BY <1>1, <1>7, <2>0 DEF Place, Parts
  <2>3. stage # "source" /\ stage' # "source" /\ "weight" \in Parts
    BY <1>1 DEF Parts
  <2> QED
    BY <1>1, <1>3, <2>1, <2>2, <2>3, PlaceOne DEF a
<1>9. Bounds'
  <2>1. /\ index' = index /\ last' = last /\ index \in 1..(N + 1) /\ last \in 0..N
        /\ item' \in index..last /\ item' \in 0..N
    BY <1>1, <1>3
  <2>2. index' <= item' /\ item' <= last'
    BY <1>3, <2>1
  <2> QED
    BY <1>1, <1>2, <1>3, <1>7, <2>1, <2>2 DEF Bounds
<1>10. \A i \in 1..N :
         /\ i < index => Placed(i)
         /\ index <= i /\ i < item => Half(i)
         /\ i >= item => Unplaced(i)
         /\ index <= i /\ i <= last => OutBytes(T(i)) > 0
  BY <1>0, <1>1 DEF Placing
<1>11. \A i \in 1..N :
         /\ i < index => Placed(i)'
         /\ index <= i /\ i <= item => Half(i)'
         /\ i > item => Unplaced(i)'
         /\ index <= i /\ i <= last => OutBytes(T(i))' > 0
  <2>1. SUFFICES ASSUME NEW i \in 1..N
                 PROVE  /\ i < index => Placed(i)'
                        /\ index <= i /\ i <= item => Half(i)'
                        /\ i > item => Unplaced(i)'
                        /\ index <= i /\ i <= last => OutBytes(T(i))' > 0
    OBVIOUS
  <2>2. OutBytes(T(i))' = OutBytes(T(i))
    BY <1>1 DEF OutBytes, RowBytes, Omitted, T
  <2>3. CASE i = item
    <3>1. scale'[i] = 0
      BY <1>1, <1>3, <1>10, <2>3 DEF Unplaced
    <3>2. Half(i)'
      BY <1>3, <1>6, <1>7, <1>10, <2>2, <2>3, <3>1 DEF Half
    <3> QED
      BY <1>3, <1>10, <2>2, <2>3, <3>2
  <2>4. CASE i # item
    <3>1. (Placed(i) <=> Placed(i)') /\ (Half(i) <=> Half(i)') /\ (Unplaced(i) <=> Unplaced(i)')
      BY <1>1, <1>7, <2>4, PlacedKept
    <3> QED
      BY <1>3, <1>10, <2>2, <2>4, <3>1
  <2> QED
    BY <2>3, <2>4
<1>12. Placing'
  <2>1. CASE item = last
    <3>1. item' = index /\ stage' = "scales" /\ index' = index /\ last' = last
      BY <1>1, <2>1
    <3>2. \A i \in 1..N : /\ i < item' => Placed(i)'
                          /\ item' <= i /\ i <= last' => Half(i)'
                          /\ i > last' => Unplaced(i)'
      BY <1>11, <2>1, <3>1
    <3> QED
      BY <1>2, <3>1, <3>2 DEF Placing, LaidStages
  <2>2. CASE item # last
    <3>1. item' = item + 1 /\ stage' = "payloads" /\ index' = index /\ last' = last
      BY <1>1, <2>2
    <3>2. \A i \in 1..N : /\ i < index' => Placed(i)'
                          /\ index' <= i /\ i < item' => Half(i)'
                          /\ i >= item' => Unplaced(i)'
                          /\ index' <= i /\ i <= last' => OutBytes(T(i))' > 0
      BY <1>3, <1>11, <2>2, <3>1
    <3> QED
      BY <1>2, <3>1, <3>2 DEF Placing, LaidStages
  <2> QED
    BY <2>1, <2>2
<1> QED
  BY <1>2, <1>8, <1>9, <1>12 DEF LayoutInv

LEMMA PlaceScaleStep ==
  ASSUME LayoutInv, PlaceScale
  PROVE  LayoutInv'
<1>0. PlanTyped /\ Bounds /\ Slabs /\ Placing
  BY DEF LayoutInv
<1> DEFINE a == AlignUp(cursor, PayloadAlign)
<1>1. /\ stage = "scales"
      /\ \/ ScaleBytes(T(item)) = 0 /\ scale' = scale /\ cursor' = cursor
         \/ /\ ScaleBytes(T(item)) # 0
            /\ scale' = [scale EXCEPT ![item] = a]
            /\ cursor' = a + ScaleBytes(T(item))
      /\ \/ item = last /\ index' = last + 1 /\ item' = 0 /\ stage' = "layout"
         \/ item # last /\ item' = item + 1 /\ index' = index /\ stage' = "scales"
      /\ UNCHANGED <<tensors, last, payload>>
  BY DEF PlaceScale, plan, AfterGroup
<1>2. PlanTyped' /\ N' = N /\ DataStart' = DataStart /\ \A i : T(i)' = T(i)
  BY <1>0, <1>1, PlanKept
<1>3. /\ index \in 1..N /\ item \in 1..N /\ last \in 1..N /\ N \in Nat
      /\ index <= item /\ item <= last
      /\ payload \in [1..N -> Nat] /\ scale \in [1..N -> Nat] /\ cursor \in Nat
  BY <1>0, <1>1 DEF Bounds, PlanTyped
<1>4. /\ PayloadAlign \in Nat \ {0} /\ DataStart \in Nat \ {0} /\ cursor >= DataStart
      /\ ScaleBytes(T(item)) \in Nat
  <2>1. DataStart \in Nat \ {0}
    BY <1>3, SectionsInOrder DEF DataStart
  <2>2. TensorOK(T(item))
    BY <1>0, <1>3 DEF PlanTyped
  <2>3. ScaleBytes(T(item)) \in Nat
    BY <2>2, Sizes
  <2>4. cursor >= DataStart
    BY <1>0, <1>1 DEF Slabs
  <2> QED
    BY <2>1, <2>3, <2>4, FileConstants
<1>5. a \in Nat /\ a >= cursor
  BY <1>3, <1>4, AlignUpIsMultiple
<1>6. a # 0
  <2> HIDE DEF a
  <2> QED
    BY <1>3, <1>4, <1>5
<1> HIDE DEF a
<1>7. /\ scale' \in [1..N -> Nat] /\ cursor' \in Nat
      /\ scale'[item] = IF ScaleBytes(T(item)) = 0 THEN scale[item] ELSE a
      /\ \A i \in 1..N : i # item => scale'[i] = scale[i]
  <2>1. CASE ScaleBytes(T(item)) = 0
    BY <1>1, <1>3, <2>1
  <2>2. CASE ScaleBytes(T(item)) # 0
    BY <1>1, <1>3, <1>4, <1>5, <2>2
  <2> QED
    BY <2>1, <2>2
<1>8. Slabs'
  <2>1. CASE ScaleBytes(T(item)) = 0
    <3>1. UNCHANGED <<tensors, payload, scale, cursor>>
      BY <1>1, <2>1
    <3> QED
      BY <1>0, <1>1, <3>1, PlaceNone
  <2>2. CASE ScaleBytes(T(item)) # 0
    <3>0. PICK k \in 1..N : k = item
      BY <1>3
    <3>1. Place(k, "scale")' = a /\ cursor' = a + Length(k, "scale")
      BY <1>1, <1>7, <2>2, <3>0 DEF Place, Length
    <3>2. ASSUME NEW i \in 1..N, NEW p \in Parts
          PROVE  (i = k /\ p = "scale") \/ Place(i, p)' = Place(i, p)
      BY <1>1, <1>7, <3>0 DEF Place, Parts
    <3>3. stage # "source" /\ stage' # "source" /\ "scale" \in Parts
      BY <1>1 DEF Parts
    <3> QED
      BY <1>1, <1>3, <3>1, <3>2, <3>3, PlaceOne DEF a
  <2> QED
    BY <2>1, <2>2
<1>9. Bounds'
  <2>1. CASE item = last
    BY <1>1, <1>2, <1>3, <1>7, <2>1 DEF Bounds
  <2>2. CASE item # last
    <3>1. item' = item + 1 /\ index' = index /\ stage' = "scales" /\ last' = last
      BY <1>1, <2>2
    <3>2. item + 1 \in 0..N /\ index <= item + 1 /\ item + 1 <= last
      BY <1>3, <2>2
    <3> QED
      BY <1>1, <1>2, <1>3, <1>7, <3>1, <3>2 DEF Bounds
  <2> QED
    BY <2>1, <2>2
<1>10. \A i \in 1..N : /\ i < item => Placed(i)
                       /\ item <= i /\ i <= last => Half(i)
                       /\ i > last => Unplaced(i)
  BY <1>0, <1>1 DEF Placing
<1>11. \A i \in 1..N : /\ i <= item => Placed(i)'
                       /\ item < i /\ i <= last => Half(i)'
                       /\ i > last => Unplaced(i)'
  <2>1. SUFFICES ASSUME NEW i \in 1..N
                 PROVE  /\ i <= item => Placed(i)'
                        /\ item < i /\ i <= last => Half(i)'
                        /\ i > last => Unplaced(i)'
    OBVIOUS
  <2>2. OutBytes(T(i))' = OutBytes(T(i)) /\ ScaleBytes(T(i))' = ScaleBytes(T(i))
    BY <1>1 DEF OutBytes, RowBytes, ScaleBytes, RowScales, Quantized, Omitted, T
  <2>3. CASE i = item
    <3>1. payload'[i] # 0 /\ OutBytes(T(i)) > 0 /\ scale[i] = 0
      BY <1>1, <1>3, <1>10, <2>3 DEF Half
    <3>2. scale'[i] # 0 <=> ScaleBytes(T(i)) > 0
      BY <1>4, <1>6, <1>7, <2>3, <3>1
    <3>3. Placed(i)'
      BY <2>2, <3>1, <3>2 DEF Placed
    <3> QED
      BY <1>3, <2>3, <3>3
  <2>4. CASE i # item
    <3>1. (Placed(i) <=> Placed(i)') /\ (Half(i) <=> Half(i)') /\ (Unplaced(i) <=> Unplaced(i)')
      BY <1>1, <1>7, <2>4, PlacedKept
    <3> QED
      BY <1>3, <1>10, <2>4, <3>1
  <2> QED
    BY <2>3, <2>4
<1>12. Placing'
  <2>1. CASE item = last
    <3>1. index' = last + 1 /\ stage' = "layout"
      BY <1>1, <2>1
    <3>2. \A i \in 1..N : (i < index' => Placed(i)') /\ (i >= index' => Unplaced(i)')
      BY <1>3, <1>11, <2>1, <3>1
    <3> QED
      BY <1>2, <3>1, <3>2 DEF Placing, LaidStages
  <2>2. CASE item # last
    <3>1. item' = item + 1 /\ stage' = "scales" /\ last' = last
      BY <1>1, <2>2
    <3>2. \A i \in 1..N : /\ i < item' => Placed(i)'
                          /\ item' <= i /\ i <= last' => Half(i)'
                          /\ i > last' => Unplaced(i)'
      BY <1>3, <1>11, <2>2, <3>1
    <3> QED
      BY <1>2, <3>1, <3>2 DEF Placing, LaidStages
  <2> QED
    BY <2>1, <2>2
<1> QED
  BY <1>2, <1>8, <1>9, <1>12 DEF LayoutInv

(* Steps that leave the layout alone.                                      *)
LEMMA LayoutKept ==
  ASSUME LayoutInv, stage # "source", stage' # "source", UNCHANGED <<tensors, layoutVars>>,
         stage' \in LaidStages => stage \in LaidStages \/ (stage = "layout" /\ index > N),
         stage' \notin {"layout", "payloads", "scales"} \/ stage' = stage
  PROVE  LayoutInv'
<1>0. PlanTyped /\ Bounds /\ Slabs /\ Placing
  BY DEF LayoutInv
<1>1. UNCHANGED <<tensors, index, last, item, cursor, payload, scale>>
  BY DEF layoutVars
<1>2. PlanTyped' /\ N' = N /\ \A i : T(i)' = T(i)
  BY <1>0, <1>1, PlanKept
<1>3. Slabs'
  BY <1>0, <1>1, PlaceNone
<1>4. Bounds'
  BY <1>0, <1>1, <1>2 DEF Bounds
<1>5. \A i : (Placed(i) <=> Placed(i)') /\ (Half(i) <=> Half(i)') /\ (Unplaced(i) <=> Unplaced(i)')
  BY <1>1, PlacedKept
<1>6. \A i : OutBytes(T(i))' = OutBytes(T(i))
  BY <1>1 DEF OutBytes, RowBytes, Omitted, T
<1>7. Placing'
  <2>1. CASE stage' \in LaidStages
    <3>1. \A i \in 1..N : Placed(i)
      <4>1. CASE stage \in LaidStages
        BY <1>0, <4>1 DEF Placing
      <4>2. CASE stage = "layout" /\ index > N
        <5>1. \A i \in 1..N : i < index
          BY <1>0, <4>2 DEF PlanTyped, Bounds
        <5> QED
          BY <1>0, <4>2, <5>1 DEF Placing
      <4> QED
        BY <2>1, <4>1, <4>2
    <3> QED
      BY <1>2, <1>5, <2>1, <3>1 DEF Placing, LaidStages
  <2>2. CASE stage' \notin LaidStages /\ stage' \notin {"layout", "payloads", "scales"}
    BY <2>2 DEF Placing
  <2>3. CASE stage' = stage
    BY <1>0, <1>1, <1>2, <1>5, <1>6, <2>3 DEF Placing
  <2> QED
    BY <2>1, <2>2, <2>3
<1> QED
  BY <1>2, <1>3, <1>4, <1>7 DEF LayoutInv

-----------------------------------------------------------------------------
(* The file.  Of each slab the first Reach bytes are written.              *)

Row(i, p) == IF p = "weight" THEN RowBytes(T(i)) ELSE RowScales(T(i))
Reach(i, p) == IF i < current THEN Length(i, p)
               ELSE IF i = current THEN rows * Row(i, p) ELSE 0
MetaBytes == UNION {RecordSpan(r) : r \in Records}

StreamBounds ==
  /\ current \in 1..(N + 1) /\ rows \in Nat /\ size \in Nat /\ chunk \in Nat \ {0}
  /\ stage \in {"source", "layout", "payloads", "scales", "laid", "metadata", "refused"} =>
       current = 1 /\ rows = 0
  /\ current <= N => rows <= T(current).rows /\ (Omitted(T(current)) => rows = 0)
  /\ current > N => rows = 0

Content == \A i \in 1..N, p \in Parts : \A k \in 0..(Reach(i, p) - 1) :
  Place(i, p) + k \in DOMAIN file /\ file[Place(i, p) + k] = Byte(i, p, k)
NothingElse ==
  /\ MetaBytes \subseteq DOMAIN file
  /\ \A o \in DOMAIN file : o \in MetaBytes \/ \E i \in 1..N, p \in Parts : o \in Span(Place(i, p), Reach(i, p))
Positions == stage = "write" /\ current <= N /\ ~Omitted(T(current)) =>
  /\ weightPos = Place(current, "weight") + Reach(current, "weight")
  /\ scalePos = Place(current, "scale") + Reach(current, "scale")

Filling ==
  /\ stage # "miscounted"
  /\ stage \in {"write", "done"} => Content /\ NothingElse
  /\ Positions
  /\ stage = "done" => current = N + 1 /\ size = cursor

FileInv == LayoutInv /\ StreamBounds /\ Filling

LEMMA RowIsNat ==
  ASSUME PlanTyped
  PROVE  \A i \in 1..N, p \in Parts : /\ Row(i, p) \in Nat
                                      /\ ~Omitted(T(i)) => Length(i, p) = T(i).rows * Row(i, p)
                                      /\ T(i).rows \in Nat
<1>1. ASSUME NEW i \in 1..N, NEW p \in Parts
      PROVE  /\ Row(i, p) \in Nat
             /\ ~Omitted(T(i)) => Length(i, p) = T(i).rows * Row(i, p)
             /\ T(i).rows \in Nat
  <2>1. TensorOK(T(i))
    BY DEF PlanTyped
  <2>2. RowBytes(T(i)) \in Nat /\ RowScales(T(i)) \in Nat
    BY <2>1, RowSizes
  <2>3. ~Omitted(T(i)) => OutBytes(T(i)) = T(i).rows * RowBytes(T(i)) /\ ScaleBytes(T(i)) = T(i).rows * RowScales(T(i))
    BY <2>1, Sizes
  <2>4. T(i).rows \in Nat
    BY <2>1 DEF TensorOK
  <2> QED
    BY <2>2, <2>3, <2>4 DEF Row, Length
<1> QED
  BY <1>1

LEMMA ReachWithin ==
  ASSUME LayoutInv, StreamBounds
  PROVE  \A i \in 1..N, p \in Parts : Reach(i, p) \in Nat /\ Reach(i, p) <= Length(i, p)
<1>0. PlanTyped /\ Bounds
  BY DEF LayoutInv
<1>1. ASSUME NEW i \in 1..N, NEW p \in Parts
      PROVE  Reach(i, p) \in Nat /\ Reach(i, p) <= Length(i, p)
  <2>1. Length(i, p) \in Nat /\ Row(i, p) \in Nat /\ T(i).rows \in Nat /\ rows \in Nat /\ current \in Nat
    BY <1>0, PlaceIsNat, RowIsNat DEF StreamBounds, PlanTyped
  <2>2. CASE i = current /\ ~Omitted(T(i))
    <3>1. rows <= T(i).rows /\ Length(i, p) = T(i).rows * Row(i, p)
      BY <1>0, <2>2, RowIsNat DEF StreamBounds, PlanTyped
    <3>2. rows * Row(i, p) <= T(i).rows * Row(i, p)
      BY <2>1, <3>1, Monotone
    <3>3. rows * Row(i, p) \in Nat
      BY <2>1, ProductIsNat
    <3>4. Reach(i, p) = rows * Row(i, p)
      BY <2>1, <2>2 DEF Reach
    <3> QED
      BY <3>1, <3>2, <3>3, <3>4
  <2>3. CASE i = current /\ Omitted(T(i))
    <3>1. rows = 0
      BY <1>0, <2>3 DEF StreamBounds, PlanTyped
    <3>2. Reach(i, p) = 0
      BY <2>1, <2>3, <3>1 DEF Reach
    <3> QED
      BY <2>1, <3>2
  <2>4. CASE i # current
    BY <2>1, <2>4 DEF Reach
  <2> QED
    BY <2>2, <2>3, <2>4
<1> QED
  BY <1>1

(* Bytes of two slabs have different offsets, and neither is metadata.     *)
LEMMA SlabsApart ==
  ASSUME LayoutInv, stage \in LaidStages,
         NEW i \in 1..N, NEW p \in Parts, NEW k \in 0..(Length(i, p) - 1)
  PROVE  /\ Place(i, p) # 0 /\ Place(i, p) + k >= DataStart /\ Place(i, p) + k < cursor
         /\ \A j \in 1..N, q \in Parts : ~(i = j /\ p = q) =>
              \A l \in 0..(Length(j, q) - 1) : Place(i, p) + k # Place(j, q) + l
<1>0. PlanTyped /\ Bounds /\ Slabs /\ Placing /\ stage # "source"
  BY DEF LayoutInv, LaidStages
<1>1. \A j \in 1..N, q \in Parts : Place(j, q) \in Nat /\ Length(j, q) \in Nat
  BY <1>0, PlaceIsNat
<1>2. \A j \in 1..N : Placed(j)
  BY <1>0 DEF Placing
<1>3. \A j \in 1..N, q \in Parts : Length(j, q) > 0 => Place(j, q) # 0
  BY <1>2 DEF Placed, Place, Length
<1>4. Place(i, p) # 0 /\ Length(i, p) > 0
  BY <1>1, <1>3
<1>5. Place(i, p) >= DataStart /\ Place(i, p) + Length(i, p) <= cursor
  BY <1>0, <1>4 DEF Slabs
<1>6. DataStart \in Nat /\ cursor \in Nat
  BY <1>0, SectionsInOrder DEF DataStart, PlanTyped, Bounds
<1>7. ASSUME NEW j \in 1..N, NEW q \in Parts, ~(i = j /\ p = q), NEW l \in 0..(Length(j, q) - 1)
      PROVE  Place(i, p) + k # Place(j, q) + l
  <2>1. Place(j, q) # 0
    BY <1>1, <1>3
  <2>2. Clear(i, p, j, q)
    BY <1>0, <1>7 DEF Slabs
  <2>3. Place(i, p) + Length(i, p) <= Place(j, q) \/ Place(j, q) + Length(j, q) <= Place(i, p)
    BY <1>4, <2>1, <2>2 DEF Clear
  <2> QED
    BY <1>1, <2>3
<1> QED
  BY <1>1, <1>4, <1>5, <1>6, <1>7

LEMMA MetadataFirst ==
  ASSUME N \in Nat
  PROVE  /\ MetaBytes \subseteq Nat
         /\ \A o \in MetaBytes : o < DataStart
<1>1. ASSUME NEW o \in MetaBytes
      PROVE  o \in Nat /\ o < DataStart
  <2>1. PICK r \in Records : o \in RecordSpan(r)
    BY DEF MetaBytes
  <2> DEFINE b == Sections(N)[r][1]
             l == Sections(N)[r][2]
             e == Sections(N).data[1]
  <2>2. b \in Nat /\ l \in Nat /\ b + l <= e /\ e \in Nat
    BY SectionsInOrder
  <2>3. o \in b .. (b + l - 1)
    BY <2>1 DEF RecordSpan, Span
  <2> HIDE DEF b, l, e
  <2>4. o \in Nat /\ o < e
    BY <2>2, <2>3
  <2> QED
    BY <2>4 DEF DataStart, e
<1> QED
  BY <1>1

LEMMA Distributes ==
  ASSUME NEW m \in Nat, NEW n \in Nat, NEW k \in Nat
  PROVE  (m + n) * k = m * k + n * k
<1> QED OBVIOUS

(* What does not depend on how far the writing has come.                   *)
LEMMA LengthKept ==
  ASSUME UNCHANGED <<tensors, payload, scale>>, NEW i, NEW p
  PROVE  Place(i, p)' = Place(i, p) /\ Length(i, p)' = Length(i, p) /\ Row(i, p)' = Row(i, p)
<1> QED
  BY DEF Place, Length, Row, OutBytes, ScaleBytes, RowBytes, RowScales, Quantized, Omitted, T

(* A step of the writer goes on in the two slabs of the current tensor,    *)
(* where nothing was written yet.                                          *)
LEMMA WriteRowsStep ==
  ASSUME FileInv, WriteRows
  PROVE  StreamBounds' /\ Filling'
<1>0. /\ LayoutInv /\ StreamBounds /\ Filling /\ PlanTyped /\ Bounds
  BY DEF FileInv, LayoutInv
<1>1. /\ stage = "write" /\ current <= N /\ ~Omitted(T(current)) /\ rows < T(current).rows
      /\ weightPos' = weightPos + Batch * RowBytes(T(current))
      /\ scalePos' = scalePos + Batch * RowScales(T(current))
      /\ rows' = rows + Batch
      /\ UNCHANGED <<tensors, chunk, stage, index, last, item, cursor, payload, scale, current, size>>
  BY DEF WriteRows, Streaming, plan, layoutVars
<1>2. PICK c \in 1..N : c = current
  BY <1>0, <1>1 DEF StreamBounds, PlanTyped
<1>3. Batch \in Nat /\ rows + Batch <= T(c).rows /\ rows \in Nat
  <2>1. T(c).rows \in Nat /\ rows \in Nat /\ chunk \in Nat
    BY <1>0, RowIsNat DEF StreamBounds, Parts
  <2> QED
    BY <1>1, <1>2, <2>1 DEF Batch
<1>4. PICK b \in Nat : b = Batch
  BY <1>3
<1>5. PlanTyped' /\ N' = N /\ DataStart' = DataStart /\ \A i : T(i)' = T(i)
  BY <1>0, <1>1, PlanKept
<1>6. ASSUME NEW i \in 1..N, NEW p \in Parts
      PROVE  /\ Place(i, p) \in Nat /\ Length(i, p) \in Nat /\ Row(i, p) \in Nat
             /\ Reach(i, p) \in Nat /\ Reach(i, p) <= Length(i, p)
  BY <1>0, PlaceIsNat, RowIsNat, ReachWithin
<1>7. ASSUME NEW i, NEW p
      PROVE  Place(i, p)' = Place(i, p) /\ Length(i, p)' = Length(i, p) /\ Row(i, p)' = Row(i, p)
  BY <1>1, LengthKept
<1>8. StreamBounds'
  <2>1. T(current)' = T(c) /\ T(current) = T(c)
    BY <1>1, <1>2 DEF T
  <2>2. ~Omitted(T(current))'
    BY <1>1, <2>1 DEF Omitted
  <2>3. rows' \in Nat /\ rows' <= T(c).rows
    BY <1>1, <1>3
  <2>4. current \in 1..(N + 1) /\ size \in Nat /\ chunk \in Nat \ {0}
    BY <1>0 DEF StreamBounds
  <2>5. current' = c /\ c <= N /\ N' = N /\ N \in Nat /\ stage' = "write" /\ size' = size /\ chunk' = chunk
    BY <1>0, <1>1, <1>2, <1>5 DEF PlanTyped
  <2>6. current' \in 1..(N' + 1) /\ rows' \in Nat /\ size' \in Nat /\ chunk' \in Nat \ {0}
    BY <2>3, <2>4, <2>5
  <2>7. current' <= N' => rows' <= T(current)'.rows /\ (Omitted(T(current))' => rows' = 0)
    BY <2>1, <2>2, <2>3
  <2>8. current' > N' => rows' = 0
    BY <2>5
  <2>9. T(current)'.rows = (T(current).rows)'
    OBVIOUS
  <2> HIDE DEF T
  <2> QED
    BY <2>5, <2>6, <2>7, <2>8, <2>9 DEF StreamBounds
<1> DEFINE Gain(p) == b * Row(c, p)
           New(p)  == (Place(c, p) + Reach(c, p)) .. (Place(c, p) + Reach(c, p) + Gain(p) - 1)
<1>9. ASSUME NEW i \in 1..N, NEW p \in Parts
      PROVE  Reach(i, p)' = IF i = c THEN Reach(c, p) + Gain(p) ELSE Reach(i, p)
  <2>1. CASE i = c
    <3>1. Reach(i, p)' = (rows + b) * Row(i, p) /\ Reach(i, p) = rows * Row(i, p)
      BY <1>1, <1>2, <1>4, <1>7, <2>1 DEF Reach
    <3>2. (rows + b) * Row(i, p) = rows * Row(i, p) + b * Row(i, p)
      BY <1>3, <1>6, Distributes
    <3> QED
      BY <2>1, <3>1, <3>2
  <2>2. CASE i # c
    BY <1>1, <1>2, <1>7, <2>2 DEF Reach
  <2> QED
    BY <2>1, <2>2
<1>10. ASSUME NEW p \in Parts
       PROVE  /\ Gain(p) \in Nat /\ Reach(c, p) \in Nat /\ Place(c, p) \in Nat
              /\ Reach(c, p) = rows * Row(c, p)
              /\ Reach(c, p) + Gain(p) <= Length(c, p)
  <2>1. Gain(p) \in Nat /\ Reach(c, p) \in Nat /\ Place(c, p) \in Nat
    BY <1>6, ProductIsNat
  <2>2. Reach(c, p) = rows * Row(c, p)
    BY <1>2 DEF Reach
  <2>3. Reach(c, p) + Gain(p) = (rows + b) * Row(c, p)
    BY <1>3, <1>6, <2>2, Distributes
  <2>4. (rows + b) * Row(c, p) <= T(c).rows * Row(c, p)
    BY <1>0, <1>3, <1>4, <1>6, RowIsNat, Monotone
  <2>5. Length(c, p) = T(c).rows * Row(c, p)
    BY <1>0, <1>1, <1>2, RowIsNat
  <2> QED
    BY <2>1, <2>2, <2>3, <2>4, <2>5
<1>11. /\ Span(weightPos, Batch * RowBytes(T(current))) = New("weight")
       /\ Span(scalePos, Batch * RowScales(T(current))) = New("scale")
       /\ weightPos = Place(c, "weight") + Reach(c, "weight") /\ scalePos = Place(c, "scale") + Reach(c, "scale")
       /\ Gain("weight") = Batch * RowBytes(T(current)) /\ Gain("scale") = Batch * RowScales(T(current))
  <2>1. weightPos = Place(c, "weight") + Reach(c, "weight") /\ scalePos = Place(c, "scale") + Reach(c, "scale")
    BY <1>0, <1>1, <1>2 DEF Filling, Positions
  <2>2. Gain("weight") = Batch * RowBytes(T(current)) /\ Gain("scale") = Batch * RowScales(T(current))
    BY <1>2, <1>4 DEF Row
  <2> QED
    BY <2>1, <2>2 DEF Span
<1> DEFINE D == DOMAIN file \cup New("weight") \cup New("scale")
<1>12. file' = [o \in D |->
          IF o \in New("scale") THEN Byte(c, "scale", rows * Row(c, "scale") + (o - scalePos))
          ELSE IF o \in New("weight") THEN Byte(c, "weight", rows * Row(c, "weight") + (o - weightPos))
          ELSE file[o]]
  <2>1. RowScales(T(current)) = Row(c, "scale") /\ RowBytes(T(current)) = Row(c, "weight")
    BY <1>2 DEF Row
  <2>2. file' = [o \in DOMAIN file \cup Span(weightPos, Batch * RowBytes(T(current)))
                         \cup Span(scalePos, Batch * RowScales(T(current))) |->
             IF o \in Span(scalePos, Batch * RowScales(T(current)))
             THEN Byte(current, "scale", rows * RowScales(T(current)) + (o - scalePos))
             ELSE IF o \in Span(weightPos, Batch * RowBytes(T(current)))
             THEN Byte(current, "weight", rows * RowBytes(T(current)) + (o - weightPos))
             ELSE file[o]]
    BY Zenon DEF WriteRows
  <2> HIDE DEF New
  <2> QED
    BY <1>2, <1>11, <2>1, <2>2
<1>13. DOMAIN file' = D
  BY <1>12
<1>21. \A o \in D : file'[o] =
          IF o \in New("scale") THEN Byte(c, "scale", rows * Row(c, "scale") + (o - scalePos))
          ELSE IF o \in New("weight") THEN Byte(c, "weight", rows * Row(c, "weight") + (o - weightPos))
          ELSE file[o]
  <2> HIDE DEF D, New
  <2> QED
    BY <1>12
<1>14. \A o \in DOMAIN file : o \notin New("weight") /\ o \notin New("scale") => file'[o] = file[o]
  BY <1>12
(* The bytes of another slab, or those already written, are not new.       *)
<1>15. ASSUME NEW i \in 1..N, NEW p \in Parts, NEW q \in Parts, NEW k \in 0..(Length(i, p) - 1),
              ~(i = c /\ p = q) \/ k < Reach(c, p)
       PROVE  Place(i, p) + k \notin New(q)
  <2>1. SUFFICES ASSUME Place(i, p) + k \in New(q)
                 PROVE  FALSE
    OBVIOUS
  <2>2. /\ Gain(q) \in Nat /\ Reach(c, q) \in Nat /\ Place(c, q) \in Nat
        /\ Reach(c, q) + Gain(q) <= Length(c, q) /\ Length(c, q) \in Nat /\ Place(i, p) \in Nat
        /\ Length(i, p) \in Nat
    BY <1>6, <1>10
  <2> HIDE DEF Gain
  <2>3. PICK l \in 0..(Length(c, q) - 1) : Place(i, p) + k = Place(c, q) + l /\ l >= Reach(c, q)
    <3>1. Place(i, p) + k - Place(c, q) \in 0..(Length(c, q) - 1) /\ Place(i, p) + k - Place(c, q) >= Reach(c, q)
      BY <2>1, <2>2
    <3>2. Place(i, p) + k = Place(c, q) + (Place(i, p) + k - Place(c, q))
      BY <2>2
    <3> QED
      BY <3>1, <3>2
  <2>4. CASE i = c /\ p = q
    <3>1. k < Reach(c, q)
      BY <1>15, <2>4
    <3>2. k = l
      BY <2>2, <2>3, <2>4
    <3> QED
      BY <2>2, <2>3, <3>1, <3>2
  <2>5. CASE ~(i = c /\ p = q)
    <3>1. stage \in LaidStages
      BY <1>1 DEF LaidStages
    <3> QED
      BY <1>0, <2>3, <2>5, <3>1, SlabsApart
  <2> QED
    BY <2>4, <2>5
<1>16. ASSUME NEW p \in Parts, NEW k \in Nat, k >= Reach(c, p), k < Reach(c, p) + Gain(p)
       PROVE  Place(c, p) + k \in DOMAIN file' /\ file'[Place(c, p) + k] = Byte(c, p, k)
  <2>1. /\ Gain(p) \in Nat /\ Reach(c, p) \in Nat /\ Place(c, p) \in Nat /\ Reach(c, p) = rows * Row(c, p)
        /\ Reach(c, p) + Gain(p) <= Length(c, p) /\ Length(c, p) \in Nat
    BY <1>6, <1>10
  <2>2. Place(c, p) + k \in New(p) /\ k \in 0..(Length(c, p) - 1)
    <3> HIDE DEF Gain
    <3> QED
      BY <1>16, <2>1
  <2>3. Reach(c, p) + ((Place(c, p) + k) - (Place(c, p) + Reach(c, p))) = k
    BY <2>1
  <2>4. CASE p = "scale"
    <3>1. file'[Place(c, p) + k] = Byte(c, "scale", rows * Row(c, "scale") + ((Place(c, p) + k) - scalePos))
      <4>1. Place(c, p) + k \in D
        BY <2>2, <2>4 DEF D
      <4>2. Place(c, p) + k \in New("scale")
        BY <2>2, <2>4
      <4> HIDE DEF New, D, Gain
      <4>3. PICK o : o = Place(c, p) + k
        OBVIOUS
      <4>4. o \in D /\ o \in New("scale")
        BY <4>1, <4>2, <4>3
      <4>5. file'[o] = Byte(c, "scale", rows * Row(c, "scale") + (o - scalePos))
        BY <1>21, <4>4, Zenon
      <4>6. file'[Place(c, p) + k] = file'[o]
        BY <4>3
      <4>7. Byte(c, "scale", rows * Row(c, "scale") + ((Place(c, p) + k) - scalePos)) = Byte(c, "scale", rows * Row(c, "scale") + (o - scalePos))
        BY <4>3
      <4> QED
        BY <4>5, <4>6, <4>7
    <3> QED
      BY <1>11, <1>13, <2>1, <2>2, <2>3, <2>4, <3>1
  <2>5. CASE p = "weight"
    <3>0. "scale" \in Parts
      BY DEF Parts
    <3>1. Place(c, p) + k \notin New("scale")
      BY <1>15, <2>2, <2>5, <3>0
    <3>2. file'[Place(c, p) + k] = Byte(c, "weight", rows * Row(c, "weight") + ((Place(c, p) + k) - weightPos))
      <4>1. Place(c, p) + k \in D
        BY <2>2, <2>5 DEF D
      <4>2. Place(c, p) + k \in New("weight")
        BY <2>2, <2>5
      <4> HIDE DEF New, D, Gain
      <4>3. PICK o : o = Place(c, p) + k
        OBVIOUS
      <4>4. o \in D /\ o \in New("weight") /\ o \notin New("scale")
        BY <3>1, <4>1, <4>2, <4>3
      <4>5. file'[o] = Byte(c, "weight", rows * Row(c, "weight") + (o - weightPos))
        BY <1>21, <4>4, Zenon
      <4>6. file'[Place(c, p) + k] = file'[o]
        BY <4>3
      <4>7. Byte(c, "weight", rows * Row(c, "weight") + ((Place(c, p) + k) - weightPos)) = Byte(c, "weight", rows * Row(c, "weight") + (o - weightPos))
        BY <4>3
      <4> QED
        BY <4>5, <4>6, <4>7
    <3> QED
      BY <1>11, <1>13, <2>1, <2>2, <2>3, <2>5, <3>2
  <2> QED
    BY <2>4, <2>5 DEF Parts
<1> HIDE DEF New, Gain, D
<1>17. Content /\ NothingElse
  BY <1>0, <1>1 DEF Filling
<1>18. Content'
  <2>1. SUFFICES ASSUME NEW i \in 1..N, NEW p \in Parts, NEW k \in 0..(Reach(i, p)' - 1)
                 PROVE  Place(i, p) + k \in DOMAIN file' /\ file'[Place(i, p) + k] = Byte(i, p, k)
    BY <1>5, <1>7 DEF Content, Byte
  <2>2. Reach(i, p) \in Nat /\ Reach(i, p) <= Length(i, p) /\ Length(i, p) \in Nat
    BY <1>6
  <2>3. CASE k < Reach(i, p)
    <3>1. k \in 0..(Reach(i, p) - 1) /\ k \in 0..(Length(i, p) - 1)
      BY <2>2, <2>3
    <3>2. Place(i, p) + k \in DOMAIN file /\ file[Place(i, p) + k] = Byte(i, p, k)
      BY <1>17, <3>1 DEF Content
    <3>3. "weight" \in Parts /\ "scale" \in Parts
      BY DEF Parts
    <3>4. Place(i, p) + k \notin New("weight") /\ Place(i, p) + k \notin New("scale")
      <4>1. ASSUME NEW q \in Parts
            PROVE  ~(i = c /\ p = q) \/ k < Reach(c, p)
        BY <2>3
      <4> QED
        BY <1>15, <3>1, <3>3, <4>1
    <3> QED
      BY <1>13, <1>14, <3>2, <3>4 DEF D
  <2>4. CASE ~(k < Reach(i, p))
    <3>1. i = c
      BY <1>9, <2>2, <2>4
    <3>2. k \in Nat /\ k >= Reach(c, p) /\ k < Reach(c, p) + Gain(p)
      BY <1>9, <1>10, <2>2, <2>4, <3>1
    <3> QED
      BY <1>16, <3>1, <3>2
  <2> QED
    BY <2>3, <2>4
<1>19. NothingElse'
  <2>1. MetaBytes' = MetaBytes
    BY <1>5 DEF MetaBytes, RecordSpan
  <2>2. MetaBytes \subseteq DOMAIN file'
    BY <1>13, <1>17 DEF NothingElse, D
  <2>3. ASSUME NEW o \in DOMAIN file'
        PROVE  o \in MetaBytes \/ \E i \in 1..N, p \in Parts : o \in Span(Place(i, p), Reach(i, p)')
    <3>1. CASE o \in DOMAIN file
      <4>1. CASE o \notin MetaBytes
        <5>1. PICK i \in 1..N, p \in Parts : o \in Span(Place(i, p), Reach(i, p))
          BY <1>17, <3>1, <4>1 DEF NothingElse
        <5>2. Reach(i, p)' >= Reach(i, p) /\ Reach(i, p)' \in Nat /\ Reach(i, p) \in Nat /\ Place(i, p) \in Nat
          BY <1>6, <1>9, <1>10
        <5>3. o \in Span(Place(i, p), Reach(i, p)')
          BY <5>1, <5>2 DEF Span
        <5> QED
          BY <5>3
      <4> QED
        BY <4>1
    <3>2. ASSUME NEW p \in Parts, o \in New(p)
          PROVE  o \in Span(Place(c, p), Reach(c, p)')
      <4>1. Gain(p) \in Nat /\ Reach(c, p) \in Nat /\ Place(c, p) \in Nat /\ Reach(c, p)' = Reach(c, p) + Gain(p)
        BY <1>9, <1>10
      <4> QED
        BY <3>2, <4>1 DEF New, Span
    <3> QED
      BY <1>13, <3>1, <3>2 DEF D, Parts
  <2> QED
    BY <1>5, <1>7, <2>1, <2>2, <2>3 DEF NothingElse
<1>20. Positions'
  <2>0. "weight" \in Parts /\ "scale" \in Parts
    BY DEF Parts
  <2>1. Reach(c, "weight")' = Reach(c, "weight") + Gain("weight") /\ Reach(c, "scale")' = Reach(c, "scale") + Gain("scale")
    BY <1>9, <2>0
  <2>2. weightPos' = weightPos + Gain("weight") /\ scalePos' = scalePos + Gain("scale")
    BY <1>1, <1>11
  <2>3. /\ Gain("weight") \in Nat /\ Reach(c, "weight") \in Nat /\ Place(c, "weight") \in Nat
        /\ Gain("scale") \in Nat /\ Reach(c, "scale") \in Nat /\ Place(c, "scale") \in Nat
    BY <1>10, <2>0
  <2>4. /\ weightPos' = Place(c, "weight")' + Reach(c, "weight")'
        /\ scalePos' = Place(c, "scale")' + Reach(c, "scale")'
    BY <1>7, <1>11, <2>1, <2>2, <2>3
  <2>5. current' = c
    BY <1>1, <1>2
  <2> QED
    BY <2>4, <2>5 DEF Positions
<1> QED
  BY <1>1, <1>8, <1>18, <1>19, <1>20 DEF Filling

(* A step that writes nothing.                                             *)
Early == {"source", "layout", "payloads", "scales", "laid", "metadata", "refused"}
LEMMA QuietStep ==
  ASSUME StreamBounds, LayoutInv, LayoutInv', UNCHANGED <<tensors, chunk, current, rows, size>>,
         stage' \notin {"write", "done", "miscounted"}, stage' \in Early => stage \in Early
  PROVE  FileInv'
<1>1. PlanTyped /\ N' = N /\ N \in Nat
  BY DEF LayoutInv, PlanTyped, N
<1>2. PICK c \in Nat : c = current
  BY <1>1 DEF StreamBounds
<1>3. T(c)' = T(c) /\ T(current) = T(c) /\ T(current)' = T(c)
  BY <1>2 DEF T
<1>4. Omitted(T(current))' <=> Omitted(T(current))
  BY <1>3 DEF Omitted
<1>5. StreamBounds'
  <2>1. current' \in 1..(N' + 1) /\ rows' \in Nat /\ size' \in Nat /\ chunk' \in Nat \ {0}
    BY <1>1 DEF StreamBounds
  <2>2. stage' \in Early => current' = 1 /\ rows' = 0
    BY DEF StreamBounds, Early
  <2>3. current' <= N' => rows' <= T(current)'.rows /\ (Omitted(T(current))' => rows' = 0)
    BY <1>1, <1>3, <1>4 DEF StreamBounds
  <2>4. current' > N' => rows' = 0
    BY <1>1 DEF StreamBounds
  <2> QED
    BY <2>1, <2>2, <2>3, <2>4 DEF StreamBounds, Early
<1>6. Filling'
  BY DEF Filling, Positions
<1> QED
  BY <1>5, <1>6 DEF FileInv

LEMMA WriteMetadataStep ==
  ASSUME FileInv, WriteMetadata
  PROVE  FileInv'
<1>0. LayoutInv /\ StreamBounds /\ PlanTyped /\ Bounds
  BY DEF FileInv, LayoutInv
<1>1. /\ stage = "metadata" /\ stage' = "write"
      /\ weightPos' = StartOf(payload, 1) /\ scalePos' = StartOf(scale, 1)
      /\ DOMAIN file' = MetaBytes
      /\ UNCHANGED <<tensors, chunk, index, last, item, cursor, payload, scale, current, rows, size>>
  BY DEF WriteMetadata, plan, layoutVars, MetaBytes
<1>2. current = 1 /\ rows = 0 /\ N \in Nat
  BY <1>0, <1>1 DEF StreamBounds, PlanTyped
<1>3. LayoutInv'
  BY <1>0, <1>1, LayoutKept DEF LaidStages, layoutVars
<1>4. N' = N /\ DataStart' = DataStart /\ T(1)' = T(1)
  BY <1>0, <1>1, PlanKept
<1>5. StreamBounds'
  <2>1. T(current) = T(1) /\ T(current)' = T(1)
    BY <1>1, <1>2 DEF T
  <2>2. 1 <= N => T(1).rows \in Nat
    BY <1>0, <1>2 DEF PlanTyped, TensorOK
  <2>3. current' \in 1..(N' + 1) /\ rows' \in Nat /\ size' \in Nat /\ chunk' \in Nat \ {0}
    BY <1>0, <1>1, <1>4 DEF StreamBounds
  <2>4. current' <= N' => rows' <= T(current)'.rows /\ (Omitted(T(current))' => rows' = 0)
    BY <1>1, <1>2, <1>4, <2>1, <2>2
  <2> QED
    BY <1>1, <1>2, <1>4, <2>3, <2>4 DEF StreamBounds
<1>6. ASSUME NEW i \in 1..N, NEW p \in Parts
      PROVE  Reach(i, p)' = 0
  <2>1. Row(i, p) \in Nat /\ Row(i, p)' = Row(i, p)
    BY <1>0, <1>1, RowIsNat, LengthKept
  <2> QED
    BY <1>1, <1>2, <2>1 DEF Reach
<1>7. Content'
  BY <1>4, <1>6 DEF Content
<1>8. NothingElse'
  <2>1. MetaBytes' = MetaBytes
    BY <1>4 DEF MetaBytes, RecordSpan
  <2> QED
    BY <1>1, <2>1 DEF NothingElse
<1>9. Positions'
  <2>1. SUFFICES ASSUME 1 <= N
                 PROVE  weightPos' = payload[1] + 0 /\ scalePos' = scale[1] + 0
    <3>1. "weight" \in Parts /\ "scale" \in Parts
      BY DEF Parts
    <3>2. 1 <= N => Reach(1, "weight")' = 0 /\ Reach(1, "scale")' = 0
      BY <1>2, <1>6, <3>1
    <3>3. Place(1, "weight")' = payload[1] /\ Place(1, "scale")' = scale[1] /\ current' = 1
      BY <1>1, <1>2 DEF Place
    <3> QED
      BY <1>2, <1>4, <2>1, <3>2, <3>3 DEF Positions
  <2>2. payload[1] \in Nat /\ scale[1] \in Nat
    BY <1>0, <1>2, <2>1 DEF Bounds
  <2> QED
    BY <1>1, <1>2, <2>1, <2>2 DEF StartOf
<1> QED
  BY <1>1, <1>3, <1>5, <1>7, <1>8, <1>9 DEF FileInv, Filling

(* A tensor whose rows are all written is written.                         *)
LEMMA ReachOfWhole ==
  ASSUME PlanTyped, StreamBounds, NEW c \in 1..N, c = current, Omitted(T(c)) \/ rows = T(c).rows
  PROVE  \A p \in Parts : Reach(c, p) = Length(c, p)
<1>1. ASSUME NEW p \in Parts
      PROVE  Reach(c, p) = Length(c, p)
  <2>1. Reach(c, p) = rows * Row(c, p) /\ Row(c, p) \in Nat
    BY RowIsNat DEF Reach, PlanTyped
  <2>2. CASE Omitted(T(c))
    <3>1. rows = 0
      BY <2>2 DEF StreamBounds, PlanTyped
    <3>2. Length(c, p) = 0
      BY <2>2 DEF Length, OutBytes, ScaleBytes
    <3> QED
      BY <2>1, <3>1, <3>2
  <2>3. CASE ~Omitted(T(c))
    BY <2>1, <2>3, RowIsNat
  <2> QED
    BY <2>2, <2>3
<1> QED
  BY <1>1

LEMMA NextTensorStep ==
  ASSUME FileInv, NextTensor
  PROVE  FileInv'
<1>0. LayoutInv /\ StreamBounds /\ Filling /\ PlanTyped /\ Bounds
  BY DEF FileInv, LayoutInv
<1>1. /\ stage = "write" /\ current <= N
      /\ Omitted(T(current)) \/ rows = T(current).rows
      /\ UNCHANGED <<tensors, chunk, index, last, item, cursor, payload, scale, file, size>>
  BY DEF NextTensor, Streaming, plan, layoutVars
<1>2. PICK c \in 1..N : c = current
  BY <1>0, <1>1 DEF StreamBounds, PlanTyped
<1>3. ASSUME NEW i \in 1..N, NEW p \in Parts
      PROVE  /\ Place(i, p) \in Nat /\ Length(i, p) \in Nat /\ Row(i, p) \in Nat
             /\ Reach(c, p) = Length(c, p)
  BY <1>0, <1>1, <1>2, PlaceIsNat, RowIsNat, ReachOfWhole
<1>4. Omitted(T(c)) \/ Written
  <2>1. SUFFICES ASSUME ~Omitted(T(c))
                 PROVE  Written
    OBVIOUS
  <2>2. weightPos = Place(c, "weight") + Reach(c, "weight") /\ scalePos = Place(c, "scale") + Reach(c, "scale")
    BY <1>0, <1>1, <1>2, <2>1 DEF Filling, Positions
  <2> QED
    BY <1>2, <1>3, <2>2 DEF Written, Parts, Place, Length
<1>5. /\ current' = c + 1 /\ rows' = 0 /\ stage' = "write"
      /\ weightPos' = StartOf(payload, c + 1) /\ scalePos' = StartOf(scale, c + 1)
  BY <1>1, <1>2, <1>4 DEF NextTensor
<1>6. PlanTyped' /\ N' = N /\ DataStart' = DataStart /\ \A i : T(i)' = T(i)
  BY <1>0, <1>1, PlanKept
<1>7. LayoutInv'
  BY <1>0, <1>1, <1>5, LayoutKept DEF LaidStages, layoutVars
<1>8. ASSUME NEW i \in 1..N, NEW p \in Parts
      PROVE  /\ Reach(i, p)' = Reach(i, p)
             /\ Place(i, p)' = Place(i, p)
             /\ i = c + 1 => Reach(i, p)' = 0
  <2>1. Length(i, p)' = Length(i, p) /\ Row(i, p)' = Row(i, p) /\ Place(i, p)' = Place(i, p)
    BY <1>1, LengthKept
  <2>2. Row(i, p) \in Nat
    BY <1>3
  <2>3. CASE i < c
    BY <1>2, <1>5, <2>1, <2>3 DEF Reach
  <2>4. CASE i = c
    <3>1. Reach(i, p)' = Length(i, p)
      BY <1>2, <1>5, <2>1, <2>4 DEF Reach
    <3> QED
      BY <1>3, <2>1, <2>4, <3>1
  <2>5. CASE i = c + 1
    BY <1>2, <1>5, <2>1, <2>2, <2>5 DEF Reach
  <2>6. CASE i > c + 1
    BY <1>2, <1>5, <2>1, <2>6 DEF Reach
  <2> QED
    BY <2>1, <2>3, <2>4, <2>5, <2>6
<1>9. StreamBounds'
  <2>1. N \in Nat /\ size \in Nat /\ chunk \in Nat \ {0}
    BY <1>0 DEF StreamBounds, PlanTyped
  <2>2. T(current)' = T(c + 1)
    BY <1>1, <1>5 DEF T
  <2>3. c + 1 <= N => T(c + 1).rows \in Nat
    BY <1>0, <2>1 DEF PlanTyped, TensorOK
  <2>4. current' <= N' => rows' <= T(current)'.rows /\ (Omitted(T(current))' => rows' = 0)
    BY <1>5, <1>6, <2>2, <2>3
  <2>5. current' \in 1..(N' + 1) /\ rows' \in Nat /\ size' \in Nat /\ chunk' \in Nat \ {0}
    BY <1>1, <1>5, <1>6, <2>1
  <2> QED
    BY <1>5, <2>4, <2>5 DEF StreamBounds
<1>10. Content /\ NothingElse
  BY <1>0, <1>1 DEF Filling
<1>11. Content'
  BY <1>1, <1>6, <1>8, <1>10 DEF Content, Byte
<1>12. NothingElse'
  <2>1. MetaBytes' = MetaBytes
    BY <1>6 DEF MetaBytes, RecordSpan
  <2>2. ASSUME NEW o \in DOMAIN file'
        PROVE  o \in MetaBytes \/ \E i \in 1..N, p \in Parts : o \in Span(Place(i, p)', Reach(i, p)')
    <3>1. CASE o \notin MetaBytes
      <4>1. PICK i \in 1..N, p \in Parts : o \in Span(Place(i, p), Reach(i, p))
        BY <1>1, <1>10, <3>1 DEF NothingElse
      <4>2. Place(i, p)' = Place(i, p) /\ Reach(i, p)' = Reach(i, p)
        BY <1>8
      <4> QED
        BY <4>1, <4>2
    <3> QED
      BY <3>1
  <2>3. MetaBytes' \subseteq DOMAIN file'
    BY <1>1, <1>10, <2>1 DEF NothingElse
  <2> QED
    BY <1>6, <2>1, <2>2, <2>3 DEF NothingElse
<1>13. Positions'
  <2>1. SUFFICES ASSUME c + 1 <= N
                 PROVE  /\ weightPos' = Place(c + 1, "weight")' + Reach(c + 1, "weight")'
                        /\ scalePos' = Place(c + 1, "scale")' + Reach(c + 1, "scale")'
    BY <1>5, <1>6 DEF Positions
  <2>2. c + 1 \in 1..N
    BY <1>0, <2>1 DEF PlanTyped
  <2>3. Place(c + 1, "weight")' = payload[c + 1] /\ Place(c + 1, "scale")' = scale[c + 1]
    BY <1>1 DEF Place
  <2>4. Reach(c + 1, "weight")' = 0 /\ Reach(c + 1, "scale")' = 0
    BY <1>8, <2>2 DEF Parts
  <2>5. payload[c + 1] \in Nat /\ scale[c + 1] \in Nat
    BY <1>0, <2>2 DEF Bounds
  <2>6. weightPos' = payload[c + 1] /\ scalePos' = scale[c + 1]
    <3>1. N \in Nat
      BY <1>0 DEF PlanTyped
    <3> QED
      BY <1>5, <2>1, <3>1 DEF StartOf
  <2> QED
    BY <2>3, <2>4, <2>5, <2>6
<1> QED
  BY <1>5, <1>7, <1>9, <1>11, <1>12, <1>13 DEF FileInv, Filling

(* Cutting the file off at the cursor cuts nothing off.                    *)
LEMMA TruncateStep ==
  ASSUME FileInv, Truncate
  PROVE  FileInv'
<1>0. LayoutInv /\ StreamBounds /\ Filling /\ PlanTyped /\ Bounds /\ Slabs
  BY DEF FileInv, LayoutInv
<1>1. /\ stage = "write" /\ stage' = "done" /\ current > N /\ size' = cursor
      /\ UNCHANGED <<tensors, chunk, index, last, item, cursor, payload, scale, current, rows>>
  BY DEF Truncate, plan, layoutVars
<1>2. file' = [o \in DOMAIN file \cap 0..(cursor - 1) |-> file[o]]
  BY DEF Truncate
<1>3. N \in Nat /\ current = N + 1 /\ cursor \in Nat /\ cursor >= DataStart /\ DataStart \in Nat
  <2>1. N \in Nat /\ cursor \in Nat /\ current \in 1..(N + 1)
    BY <1>0 DEF PlanTyped, Bounds, StreamBounds
  <2>2. DataStart \in Nat
    BY <2>1, SectionsInOrder DEF DataStart
  <2>3. cursor >= DataStart
    BY <1>0, <1>1 DEF Slabs
  <2> QED
    BY <1>1, <2>1, <2>2, <2>3
<1>4. PlanTyped' /\ N' = N /\ DataStart' = DataStart /\ \A i : T(i)' = T(i)
  BY <1>0, <1>1, PlanKept
<1>5. LayoutInv'
  BY <1>0, <1>1, LayoutKept DEF LaidStages, layoutVars
<1>6. StreamBounds'
  BY <1>0, <1>1, <1>3, <1>4 DEF StreamBounds
<1>7. ASSUME NEW i \in 1..N, NEW p \in Parts
      PROVE  /\ Place(i, p) \in Nat /\ Length(i, p) \in Nat
             /\ Place(i, p)' = Place(i, p) /\ Reach(i, p)' = Length(i, p) /\ Reach(i, p) = Length(i, p)
  <2>1. Length(i, p)' = Length(i, p) /\ Place(i, p)' = Place(i, p)
    BY <1>1, LengthKept
  <2>2. Place(i, p) \in Nat /\ Length(i, p) \in Nat
    BY <1>0, PlaceIsNat
  <2>3. i < current /\ i < current'
    BY <1>1, <1>3
  <2> QED
    BY <2>1, <2>2, <2>3 DEF Reach
<1>8. Content /\ NothingElse
  BY <1>0, <1>1 DEF Filling
<1>9. Content'
  <2>1. SUFFICES ASSUME NEW i \in 1..N, NEW p \in Parts, NEW k \in 0..(Length(i, p) - 1)
                 PROVE  Place(i, p) + k \in DOMAIN file' /\ file'[Place(i, p) + k] = Byte(i, p, k)
    BY <1>4, <1>7 DEF Content, Byte
  <2>2. Place(i, p) + k \in DOMAIN file /\ file[Place(i, p) + k] = Byte(i, p, k)
    BY <1>7, <1>8 DEF Content
  <2>3. Place(i, p) + k \in 0..(cursor - 1)
    <3>1. stage \in LaidStages
      BY <1>1 DEF LaidStages
    <3>2. Place(i, p) + k < cursor
      BY <1>0, <3>1, SlabsApart
    <3> QED
      BY <1>3, <1>7, <3>2
  <2> QED
    BY <1>2, <2>2, <2>3
<1>10. NothingElse'
  <2>1. MetaBytes' = MetaBytes
    BY <1>4 DEF MetaBytes, RecordSpan
  <2>2. MetaBytes \subseteq DOMAIN file'
    <3>1. MetaBytes \subseteq 0..(cursor - 1)
      BY <1>3, MetadataFirst
    <3> QED
      BY <1>2, <1>8, <3>1 DEF NothingElse
  <2>3. ASSUME NEW o \in DOMAIN file'
        PROVE  o \in MetaBytes \/ \E i \in 1..N, p \in Parts : o \in Span(Place(i, p)', Reach(i, p)')
    <3>1. o \in DOMAIN file
      BY <1>2
    <3>2. CASE o \notin MetaBytes
      <4>1. PICK i \in 1..N, p \in Parts : o \in Span(Place(i, p), Reach(i, p))
        BY <1>8, <3>1, <3>2 DEF NothingElse
      <4>2. Place(i, p)' = Place(i, p) /\ Reach(i, p)' = Reach(i, p)
        BY <1>7
      <4> QED
        BY <4>1, <4>2
    <3> QED
      BY <3>2
  <2> QED
    BY <1>4, <2>1, <2>2, <2>3 DEF NothingElse
<1>11. Positions'
  BY <1>1 DEF Positions
<1>12. current' = N' + 1 /\ size' = cursor'
  BY <1>1, <1>3, <1>4
<1> QED
  BY <1>1, <1>5, <1>6, <1>9, <1>10, <1>11, <1>12 DEF FileInv, Filling

(* The layout and the writing together.                                    *)
(* Any step of the writer.                                                 *)
WriteNext == WriteRows \/ WriteQuietly

LEMMA FileStep ==
  ASSUME FileInv, LayoutNext \/ WriteNext
  PROVE  FileInv'
<1>0. LayoutInv /\ StreamBounds
  BY DEF FileInv
<1>1. CASE SkipEmpty
  <2>1. LayoutInv'
    BY <1>0, <1>1, SkipEmptyStep
  <2> QED
    <3>1. stage = "layout" /\ stage' = "layout" /\ UNCHANGED <<tensors, chunk, current, rows, size>>
      BY <1>1 DEF SkipEmpty, plan, streamVars
    <3>2. stage' \notin {"write", "done", "miscounted"} /\ stage \in Early
      BY <3>1 DEF Early
    <3> QED
      BY <1>0, <2>1, <3>1, <3>2, QuietStep
<1>2. CASE StartGroup
  <2>1. LayoutInv'
    BY <1>0, <1>2, StartGroupStep
  <2> QED
    BY <1>0, <1>2, <2>1, QuietStep DEF StartGroup, plan, streamVars, Early
<1>3. CASE PlacePayload
  <2>1. LayoutInv'
    BY <1>0, <1>3, PlacePayloadStep
  <2>2. stage = "payloads" /\ stage' \in {"payloads", "scales"}
        /\ UNCHANGED <<tensors, chunk, current, rows, size>>
    BY <1>3 DEF PlacePayload, plan, streamVars
  <2> QED
    BY <1>0, <2>1, <2>2, QuietStep DEF Early
<1>4. CASE PlaceScale
  <2>1. LayoutInv'
    BY <1>0, <1>4, PlaceScaleStep
  <2>2. stage = "scales" /\ stage' \in {"layout", "scales"}
        /\ UNCHANGED <<tensors, chunk, current, rows, size>>
    BY <1>4 DEF PlaceScale, plan, streamVars
  <2> QED
    BY <1>0, <2>1, <2>2, QuietStep DEF Early
<1>5. CASE Validate
  <2>1. stage = "layout" /\ index > N /\ stage' \in {"laid", "refused"}
        /\ UNCHANGED <<tensors, chunk, layoutVars, current, rows, size>>
    BY <1>5 DEF Validate, plan, streamVars
  <2>2. LayoutInv'
    BY <1>0, <2>1, LayoutKept
  <2> QED
    BY <1>0, <2>1, <2>2, QuietStep DEF Early
<1>6. CASE WriteMetadata
  BY <1>6, WriteMetadataStep
<1>7. CASE WriteRows
  <2>1. StreamBounds' /\ Filling'
    BY <1>7, WriteRowsStep
  <2>2. LayoutInv'
    BY <1>0, <1>7, LayoutKept DEF WriteRows, Streaming, plan, layoutVars
  <2> QED
    BY <2>1, <2>2 DEF FileInv
<1>8. CASE NextTensor
  BY <1>8, NextTensorStep
<1>9. CASE Truncate
  BY <1>9, TruncateStep
<1>10. CASE FailWriting
  <2>1. stage \in {"metadata", "write"} /\ stage' = "failed"
        /\ UNCHANGED <<tensors, chunk, layoutVars, current, rows, size>>
    BY <1>10 DEF FailWriting, plan, streamVars
  <2>2. LayoutInv'
    BY <1>0, <2>1, LayoutKept DEF LaidStages
  <2> QED
    BY <1>0, <2>1, <2>2, QuietStep DEF Early
<1> QED
  BY <1>1, <1>2, <1>3, <1>4, <1>5, <1>6, <1>7, <1>8, <1>9, <1>10 DEF LayoutNext, WriteNext, WriteQuietly

(* What the invariant says of the regions and of the finished file.        *)
LEMMA RegionsOfSlabs ==
  ASSUME LayoutInv, stage # "source"
  PROVE  RegionsDisjoint
<1>0. PlanTyped /\ Bounds /\ Slabs /\ N \in Nat
  BY DEF LayoutInv, PlanTyped
<1>1. \A r \in Records : Sections(N)[r][1] + Sections(N)[r][2] <= DataStart
  BY <1>0, SectionsInOrder DEF DataStart
<1>2. ASSUME NEW i \in 1..N
      PROVE  /\ Payload(i) = [offset |-> Place(i, "weight"), length |-> Length(i, "weight")]
             /\ Scale(i) = [offset |-> Place(i, "scale"), length |-> Length(i, "scale")]
  BY DEF Payload, Scale, Place, Length
<1>3. ASSUME NEW i \in 1..N, NEW j \in 1..N, NEW p \in Parts, NEW q \in Parts, ~(i = j /\ p = q)
      PROVE  Apart([offset |-> Place(i, p), length |-> Length(i, p)],
                   [offset |-> Place(j, q), length |-> Length(j, q)])
  <2>1. Clear(i, p, j, q)
    BY <1>0, <1>3 DEF Slabs
  <2> QED
    BY <2>1 DEF Apart, Clear
<1>4. ASSUME NEW i \in 1..N, NEW p \in Parts
      PROVE  /\ InData([offset |-> Place(i, p), length |-> Length(i, p)])
             /\ Place(i, p) % PayloadAlign = 0
  BY <1>0 DEF Slabs, InData
<1>5. "weight" \in Parts /\ "scale" \in Parts
  BY DEF Parts
<1>6. ASSUME NEW i \in 1..N
      PROVE  /\ Apart(Payload(i), Scale(i)) /\ InData(Payload(i)) /\ InData(Scale(i))
             /\ payload[i] % PayloadAlign = 0 /\ scale[i] % PayloadAlign = 0
             /\ \A j \in 1..(i - 1) : \A r \in {Payload(i), Scale(i)}, s \in {Payload(j), Scale(j)} : Apart(r, s)
  <2>1. Apart(Payload(i), Scale(i))
    BY <1>2, <1>3, <1>5
  <2>2. InData(Payload(i)) /\ InData(Scale(i))
    BY <1>2, <1>4, <1>5
  <2>3. payload[i] = Place(i, "weight") /\ scale[i] = Place(i, "scale")
    BY DEF Place
  <2>4. payload[i] % PayloadAlign = 0 /\ scale[i] % PayloadAlign = 0
    BY <1>4, <1>5, <2>3
  <2>5. ASSUME NEW j \in 1..(i - 1), NEW r \in {Payload(i), Scale(i)}, NEW s \in {Payload(j), Scale(j)}
        PROVE  Apart(r, s)
    <3>1. j \in 1..N /\ j # i
      BY <1>0
    <3>2. PICK p \in Parts : r = [offset |-> Place(i, p), length |-> Length(i, p)]
      BY <1>2, <1>5
    <3>3. PICK q \in Parts : s = [offset |-> Place(j, q), length |-> Length(j, q)]
      BY <1>2, <1>5, <3>1
    <3> QED
      BY <1>3, <3>1, <3>2, <3>3
  <2> QED
    BY <2>1, <2>2, <2>4, <2>5
<1> QED
  BY <1>1, <1>6 DEF RegionsDisjoint

LEMMA ExactOfFilling ==
  ASSUME FileInv
  PROVE  FileExact
<1>0. LayoutInv /\ StreamBounds /\ Filling /\ PlanTyped /\ Bounds /\ Slabs /\ Placing
  BY DEF FileInv, LayoutInv
<1>1. stage # "miscounted"
  BY <1>0 DEF Filling
<1>2. SUFFICES ASSUME stage = "done"
               PROVE  /\ size = cursor
                      /\ \A i \in 1..N :
                           /\ \A k \in 1..OutBytes(T(i)) : file[payload[i] + k - 1] = Byte(i, "weight", k - 1)
                           /\ \A k \in 1..ScaleBytes(T(i)) : file[scale[i] + k - 1] = Byte(i, "scale", k - 1)
                      /\ DOMAIN file = (UNION {RecordSpan(r) : r \in Records})
                           \cup (UNION {Region(payload, OutBytes, i) \cup Region(scale, ScaleBytes, i) : i \in 1..N})
  BY <1>1 DEF FileExact
<1>3. current = N + 1 /\ size = cursor /\ Content /\ NothingElse /\ N \in Nat
  BY <1>0, <1>2 DEF Filling, PlanTyped
<1>4. ASSUME NEW i \in 1..N, NEW p \in Parts
      PROVE  /\ Reach(i, p) = Length(i, p) /\ Length(i, p) \in Nat /\ Place(i, p) \in Nat
             /\ Length(i, p) > 0 <=> Place(i, p) # 0
  <2>1. i < current
    BY <1>3
  <2>2. Placed(i)
    BY <1>0, <1>2 DEF Placing, LaidStages
  <2>3. Length(i, p) \in Nat /\ Place(i, p) \in Nat
    BY <1>0, PlaceIsNat
  <2> QED
    BY <2>1, <2>2, <2>3 DEF Reach, Placed, Place, Length
<1>5. "weight" \in Parts /\ "scale" \in Parts
  BY DEF Parts
<1>6. ASSUME NEW i \in 1..N, NEW p \in Parts, NEW k \in 1..Length(i, p)
      PROVE  file[Place(i, p) + k - 1] = Byte(i, p, k - 1)
  <2>1. k - 1 \in 0..(Reach(i, p) - 1) /\ Place(i, p) + k - 1 = Place(i, p) + (k - 1)
    BY <1>4
  <2> QED
    BY <1>3, <2>1 DEF Content
<1>7. ASSUME NEW i \in 1..N
      PROVE  /\ \A k \in 1..OutBytes(T(i)) : file[payload[i] + k - 1] = Byte(i, "weight", k - 1)
             /\ \A k \in 1..ScaleBytes(T(i)) : file[scale[i] + k - 1] = Byte(i, "scale", k - 1)
  <2>1. /\ Place(i, "weight") = payload[i] /\ Length(i, "weight") = OutBytes(T(i))
        /\ Place(i, "scale") = scale[i] /\ Length(i, "scale") = ScaleBytes(T(i))
    BY DEF Place, Length
  <2> QED
    BY <1>5, <1>6, <2>1
<1>8. ASSUME NEW i \in 1..N
      PROVE  /\ Region(payload, OutBytes, i) = Span(Place(i, "weight"), Reach(i, "weight"))
             /\ Region(scale, ScaleBytes, i) = Span(Place(i, "scale"), Reach(i, "scale"))
  <2>1. ASSUME NEW p \in Parts, Place(i, p) = 0
        PROVE  Span(Place(i, p), Reach(i, p)) = {}
    BY <1>4, <2>1 DEF Span
  <2>2. /\ Place(i, "weight") = payload[i] /\ Length(i, "weight") = OutBytes(T(i))
        /\ Place(i, "scale") = scale[i] /\ Length(i, "scale") = ScaleBytes(T(i))
    BY DEF Place, Length
  <2>3. Reach(i, "weight") = OutBytes(T(i)) /\ Reach(i, "scale") = ScaleBytes(T(i))
    BY <1>4, <1>5, <2>2
  <2>6. Region(payload, OutBytes, i) = Span(Place(i, "weight"), Reach(i, "weight"))
    BY <1>5, <2>1, <2>2, <2>3 DEF Region
  <2>7. Region(scale, ScaleBytes, i) = Span(Place(i, "scale"), Reach(i, "scale"))
    BY <1>5, <2>1, <2>2, <2>3 DEF Region
  <2> QED
    BY <2>6, <2>7
<1>9. DOMAIN file = (UNION {RecordSpan(r) : r \in Records})
         \cup (UNION {Region(payload, OutBytes, i) \cup Region(scale, ScaleBytes, i) : i \in 1..N})
  <2> DEFINE R == UNION {Region(payload, OutBytes, i) \cup Region(scale, ScaleBytes, i) : i \in 1..N}
  <2>1. ASSUME NEW o \in DOMAIN file, o \notin MetaBytes
        PROVE  o \in R
    <3>1. PICK i \in 1..N, p \in Parts : o \in Span(Place(i, p), Reach(i, p))
      BY <1>3, <2>1 DEF NothingElse
    <3>2. o \in Region(payload, OutBytes, i) \cup Region(scale, ScaleBytes, i)
      BY <1>8, <3>1 DEF Parts
    <3> QED
      BY <3>2
  <2>2. ASSUME NEW o \in R
        PROVE  o \in DOMAIN file
    <3>1. PICK i \in 1..N : o \in Region(payload, OutBytes, i) \cup Region(scale, ScaleBytes, i)
      BY <2>2
    <3>2. PICK p \in Parts : o \in Span(Place(i, p), Reach(i, p))
      BY <1>5, <1>8, <3>1
    <3>3. Place(i, p) \in Nat /\ Reach(i, p) \in Nat
      BY <1>4
    <3>4. o - Place(i, p) \in 0..(Reach(i, p) - 1) /\ o = Place(i, p) + (o - Place(i, p))
      BY <3>2, <3>3 DEF Span
    <3> QED
      BY <1>3, <3>4 DEF Content
  <2>3. MetaBytes \subseteq DOMAIN file
    BY <1>3 DEF NothingElse
  <2> HIDE DEF R
  <2>4. DOMAIN file = MetaBytes \cup R
    BY <2>1, <2>2, <2>3
  <2> QED
    BY <2>4, Zenon DEF MetaBytes, R
<1> QED
  BY <1>3, <1>7, <1>9, Zenon

LEMMA TypeOfFile ==
  ASSUME FileInv, stage \in Stages
  PROVE  FileTypeOK
<1> QED
  BY DEF FileInv, LayoutInv, Bounds, StreamBounds, FileTypeOK

-----------------------------------------------------------------------------
(* The source.                                                             *)

OptionNames == {"strict", "profile", "cfg", "header", "payload", "select", "compare"}
SourceTyped ==
  /\ phase \in {"contract", "headers", "check", "metadata", "planned", "resolving", "resolved", "refused"}
  /\ variant \in {None, "v1", "v2"}
  /\ DOMAIN dir = Files
  /\ \A f \in Files : /\ DOMAIN dir[f] = {"real", "cached"}
                      /\ Finite(dir[f].real) /\ Finite(dir[f].cached)
  /\ docs.index # None => /\ IsFiniteSet(DOMAIN docs.index.map)
                          /\ \A n \in DOMAIN docs.index.map : docs.index.map[n] \in Files
  /\ OptionNames \subseteq DOMAIN opts
  /\ opts.header \in Files \cup {None}
  /\ IsFiniteSet(Names)

(* What the checks left: a plan can be made of the tensors.                *)
Plannable == Ordered(Names) /\ \A n \in Names : TensorOK(Planned(n))
Checked ==
  /\ phase \notin {"contract", "refused"} => ConfigAccepted(opts.cfg)
  /\ phase \in {"metadata", "planned", "resolving", "resolved"} => Plannable
  /\ phase \in {"contract", "headers", "check", "metadata"} => stage = "source"

(* The plan is one of tensors of the checkpoint, in the order of their ids. *)
FromPlan ==
  /\ stage \in Stages
  /\ stage = "source" => tensors = <<>>
  /\ stage # "source" =>
       /\ Plannable
       /\ \A i \in 1..N : \E n \in Names : T(i) = Planned(n)
       /\ \A i, j \in 1..N : i < j => T(i).id < T(j).id

SourceInv == SourceTyped /\ Checked /\ FromPlan

LEMMA NamesOrdered ==
  ASSUME IsFiniteSet(Names), Registered(Names)
  PROVE  Ordered(Names)
<1>1. \A n \in Names : IdOf(n, Names) \in Int
  BY DEF Registered
<1>2. ASSUME NEW m \in Names, NEW n \in Names, IdOf(m, Names) = IdOf(n, Names)
      PROVE  m = n
  BY <1>2 DEF Registered, Collides
<1> QED
  BY <1>1, <1>2 DEF Ordered

LEMMA PlannedTensorOK ==
  ASSUME ConfigAccepted(opts.cfg), NEW n \in Names, EntryValid(n), Packable(entries[n].shape, Qtype(n))
  PROVE  TensorOK(Planned(n))
<1> DEFINE s == entries[n].shape
           q == Qtype(n)
           t == Planned(n)
<1>1. s \in Seq(Nat) /\ Len(s) \in {1, 2}
  BY DEF EntryValid, Shapes
<1>2. s[1] \in Nat /\ (Len(s) = 2 => s[2] \in Nat)
  <2> HIDE DEF s
  <2>1. 1 \in 1..Len(s) /\ (Len(s) = 2 => 2 \in 1..Len(s))
    <3>1. PICK k \in {1, 2} : k = Len(s)
      BY <1>1
    <3>2. 1 \in 1..k /\ (k = 2 => 2 \in 1..k)
      BY <3>1
    <3> QED
      BY <3>1, <3>2
  <2>2. \A i \in 1..Len(s) : s[i] \in Nat
    BY <1>1
  <2> QED
    BY <2>1, <2>2
<1>3. t.rows = s[1] /\ t.cols = Columns(s) /\ t.qtype = q /\ t.usage = Usage(n)
  BY DEF Planned
<1>4. q # "f16" => Candidate(n, s, opts.cfg)
  BY DEF Qtype, PlannedQtype
<1>5. q \in {"f16", "q8", "q4"}
  <2>1. CASE Candidate(n, s, opts.cfg) /\ opts.profile = "mixed-q4" /\ opts.profile # "fp16"
    <3> DEFINE cfg == opts.cfg
               pair == <<Family(n), Projection(n)>>
               i == CHOOSE i \in DOMAIN cfg.modules : pair \in Pairs(cfg.modules[i])
    <3>1. Supports(cfg, pair)
      BY <2>1 DEF Candidate
    <3>2. \E j \in DOMAIN cfg.modules : pair \in Pairs(cfg.modules[j])
      BY <3>1 DEF Supports
    <3>3. i \in DOMAIN cfg.modules
      <4> HIDE DEF cfg, pair
      <4> QED
        BY <3>2
    <3>4. ModuleQtype(cfg.modules[i]) \in {"q8", "q4"}
      <4> HIDE DEF i
      <4> QED
        BY <3>3 DEF ConfigAccepted
    <3>5. q = ModuleQtype(cfg.modules[i])
      BY <2>1 DEF Qtype, PlannedQtype, SupportedQtype
    <3> QED
      BY <3>4, <3>5
  <2>2. CASE ~(Candidate(n, s, opts.cfg) /\ opts.profile = "mixed-q4" /\ opts.profile # "fp16")
    BY <2>2 DEF Qtype, PlannedQtype
  <2> QED
    BY <2>1, <2>2
<1>6. q # "f16" => /\ Usage(n) = "runtime" /\ Len(s) = 2
                   /\ s[1] > 0 /\ s[2] > 0 /\ s[2] % GroupSize = 0 /\ (q = "q4" => s[2] % 2 = 0)
  BY <1>4 DEF Candidate, Packable
<1>7. Columns(s) \in Nat /\ (Len(s) = 2 => Columns(s) = s[2])
  BY <1>1, <1>2 DEF Columns
<1> HIDE DEF s, q, t
<1>8. Quantized(t) => q # "f16"
  BY <1>3, <1>5 DEF Quantized
<1> QED
  BY <1>2, <1>3, <1>5, <1>6, <1>7, <1>8 DEF TensorOK, t

(* Whatever is read as a header has finitely many entries.                 *)
LEMMA HeaderFinite ==
  ASSUME SourceTyped, NEW f \in Files
  PROVE  Finite(HeaderOf(f)) /\ Finite(dir[f].real) /\ Finite(dir[f].cached)
<1> QED
  BY DEF SourceTyped, HeaderOf

LEMMA OneHeaderFinite ==
  ASSUME SourceTyped
  PROVE  Finite(OneHeader)
<1>0. Finite(None)
  BY DEF Finite
<1>1. Finite(DefaultHeader)
  <2>1. "model" \in Files /\ "one" \in Files /\ FileOrder \in Seq(Files)
    BY SourceAssumption
  <2>2. DefaultPayload # None => DefaultPayload \in Files
    <3> DEFINE order == <<"one", "model">> \o FileOrder
               found == {i \in DOMAIN order : dir[order[i]].real # None}
    <3>1. order \in Seq(Files)
      BY <2>1
    <3>2. SUFFICES ASSUME found # {}
                   PROVE  order[Min(found)] \in Files
      BY DEF DefaultPayload
    <3>3. found \in SUBSET Nat
      <4>1. DOMAIN order = 1..Len(order)
        BY <3>1
      <4> HIDE DEF order
      <4> QED
        BY <4>1
    <3> HIDE DEF found
    <3>4. PICK x \in found : \A y \in found : x <= y
      BY <3>2, <3>3, LeastNat
    <3>5. Min(found) \in found
      BY <3>4 DEF Min
    <3>6. \A i \in found : i \in DOMAIN order
      BY DEF found
    <3> HIDE DEF order
    <3> QED
      BY <3>1, <3>5, <3>6
  <2> QED
    BY <1>0, <2>1, <2>2, HeaderFinite DEF DefaultHeader
<1>2. SourceFiles \subseteq Files
  BY DEF SourceTyped, SourceFiles, WeightMap
<1>3. SourceFiles # {} => (CHOOSE f \in SourceFiles : TRUE) \in Files
  BY <1>2
<1>4. opts.header # None => Finite(dir[opts.header].cached)
  BY HeaderFinite DEF SourceTyped
<1> QED
  BY <1>1, <1>3, <1>4, HeaderFinite DEF OneHeader

LEMMA PlannableKept ==
  ASSUME UNCHANGED <<entries, docs>>, opts'.profile = opts.profile, opts'.cfg = opts.cfg
  PROVE  /\ Names' = Names /\ (Plannable' <=> Plannable)
         /\ \A n : Planned(n)' = Planned(n)
<1>1. Names' = Names
  BY DEF Names
<1>2. ASSUME NEW n
      PROVE  Planned(n)' = Planned(n)
  <2>1. Qtype(n)' = Qtype(n) /\ Owner(n)' = Owner(n)
    BY DEF Qtype, Owner, WeightMap
  <2> QED
    BY <1>1, <2>1 DEF Planned
<1>3. Ordered(Names)' <=> Ordered(Names)
  BY <1>1 DEF Ordered
<1>4. ASSUME NEW n
      PROVE  TensorOK(Planned(n))' <=> TensorOK(Planned(n))
  BY <1>2 DEF TensorOK, Quantized
<1>5. Plannable' <=> Plannable
  BY <1>1, <1>3, <1>4 DEF Plannable
<1> QED
  BY <1>1, <1>2, <1>5

(* The plan stays while the checkpoint's tensors do.                       *)
LEMMA FromPlanKept ==
  ASSUME FromPlan, UNCHANGED <<tensors, entries, docs>>, opts'.profile = opts.profile, opts'.cfg = opts.cfg,
         stage' \in Stages, stage' = "source" <=> stage = "source"
  PROVE  FromPlan'
<1>1. /\ Names' = Names /\ (Plannable' <=> Plannable)
      /\ \A n : Planned(n)' = Planned(n)
  BY PlannableKept
<1>2. N' = N /\ \A i : T(i)' = T(i)
  BY DEF N, T
<1>3. CASE stage = "source"
  BY <1>3 DEF FromPlan
<1>4. CASE stage # "source"
  BY <1>1, <1>2, <1>4 DEF FromPlan
<1> QED
  BY <1>3, <1>4

(* A step that leaves the source and the plan alone.                       *)
LEMMA SourceKept ==
  ASSUME SourceInv, UNCHANGED <<sourceVars, tensors>>, stage # "source", stage' \in Stages \ {"source"}
  PROVE  SourceInv'
<1>0. SourceTyped /\ Checked /\ FromPlan
  BY DEF SourceInv
<1>1. UNCHANGED <<dir, docs, opts, phase, variant, entries, reads>>
  BY DEF sourceVars
<1>2. FromPlan'
  BY <1>0, <1>1, FromPlanKept
<1>3. SourceTyped'
  BY <1>0, <1>1 DEF SourceTyped, Names, Finite
<1>4. Plannable' <=> Plannable
  BY <1>1, PlannableKept
<1>5. Checked'
  BY <1>0, <1>1, <1>4 DEF Checked, ConfigAccepted, Pairs, ModuleQtype
<1> QED
  BY <1>2, <1>3, <1>5 DEF SourceInv

LEMMA ReadContractStep ==
  ASSUME SourceInv, ReadContract, UNCHANGED vars
  PROVE  SourceInv'
<1>0. SourceTyped /\ Checked /\ FromPlan
  BY DEF SourceInv
<1>1. /\ phase = "contract" /\ UNCHANGED <<dir, docs, opts, entries, reads, tensors, stage>>
      /\ phase' \in {"headers", "refused"} /\ variant' \in {"v1", "v2"}
      /\ phase' = "headers" => ConfigAccepted(opts.cfg)
  BY DEF ReadContract, Go, ConfigVariant, vars, plan
<1>2. stage = "source" /\ stage \in Stages
  BY <1>0, <1>1 DEF Checked, FromPlan
<1>3. SourceTyped'
  BY <1>0, <1>1 DEF SourceTyped, Names, Finite
<1>4. ConfigAccepted(opts.cfg)' <=> ConfigAccepted(opts.cfg)
  BY <1>1 DEF ConfigAccepted, Pairs, ModuleQtype
<1>5. Checked'
  BY <1>1, <1>2, <1>4 DEF Checked
<1>6. FromPlan'
  BY <1>0, <1>1, <1>2 DEF FromPlan
<1> QED
  BY <1>3, <1>5, <1>6 DEF SourceInv

LEMMA ReadHeadersStep ==
  ASSUME SourceInv, ReadHeaders, UNCHANGED vars
  PROVE  SourceInv'
<1>0. SourceTyped /\ Checked /\ FromPlan
  BY DEF SourceInv
<1>1. /\ phase = "headers" /\ UNCHANGED <<dir, docs, opts, variant, reads, tensors, stage>>
      /\ phase' \in {"check", "refused"}
  BY DEF ReadHeaders, Go, vars, plan
<1>2. stage = "source" /\ stage \in Stages
  BY <1>0, <1>1 DEF Checked, FromPlan
<1>3. IsFiniteSet(Names')
  <2>1. CASE entries' = entries
    BY <1>0, <2>1 DEF SourceTyped, Names
  <2>2. CASE Several /\ ShardsAgree /\ entries' = MergedEntries
    <3>1. Names' = UNION {NamesOf(f) : f \in SourceFiles}
      BY <2>2 DEF Names, MergedEntries
    <3>2. Names' \subseteq DOMAIN WeightMap
      BY <2>2, <3>1 DEF ShardsAgree
    <3>3. docs.index # None
      <4>1. SUFFICES ASSUME docs.index = None
                     PROVE  FALSE
        OBVIOUS
      <4>2. DOMAIN WeightMap = {}
        BY <4>1 DEF WeightMap
      <4>3. SourceFiles = {}
        BY <4>2 DEF SourceFiles
      <4>4. Cardinality(SourceFiles) = 0
        BY <4>3, FS_EmptySet
      <4> QED
        BY <2>2, <4>4 DEF Several
    <3>4. IsFiniteSet(DOMAIN WeightMap)
      BY <1>0, <3>3 DEF SourceTyped, WeightMap
    <3> QED
      BY <3>2, <3>4, FS_Subset
  <2>3. CASE ~Several /\ OneHeader # None /\ entries' = OneHeader.entries
    BY <1>0, <2>3, OneHeaderFinite DEF Finite, Names
  <2> QED
    BY <2>1, <2>2, <2>3 DEF ReadHeaders
<1>4. SourceTyped'
  BY <1>0, <1>1, <1>3 DEF SourceTyped, Finite
<1>5. ConfigAccepted(opts.cfg)' <=> ConfigAccepted(opts.cfg)
  BY <1>1 DEF ConfigAccepted, Pairs, ModuleQtype
<1>6. Checked'
  BY <1>0, <1>1, <1>2, <1>5 DEF Checked
<1>7. FromPlan'
  BY <1>0, <1>1, <1>2 DEF FromPlan
<1> QED
  BY <1>4, <1>6, <1>7 DEF SourceInv

LEMMA CheckTensorsStep ==
  ASSUME SourceInv, CheckTensors, UNCHANGED vars
  PROVE  SourceInv'
<1>0. SourceTyped /\ Checked /\ FromPlan
  BY DEF SourceInv
<1>1. /\ phase = "check" /\ UNCHANGED <<dir, docs, opts, entries, variant, reads, tensors, stage>>
      /\ phase' \in {"metadata", "refused"} /\ (phase' = "metadata" => TensorsAcceptable)
  BY DEF CheckTensors, Go, vars, plan
<1>2. stage = "source" /\ stage \in Stages /\ ConfigAccepted(opts.cfg) /\ IsFiniteSet(Names)
  BY <1>0, <1>1 DEF Checked, FromPlan, SourceTyped
<1>3. TensorsAcceptable => Plannable
  <2>1. SUFFICES ASSUME TensorsAcceptable
                 PROVE  Plannable
    OBVIOUS
  <2>2. Registered(Names) /\ \A n \in Names : EntryValid(n) /\ Packable(entries[n].shape, Qtype(n))
    BY <2>1 DEF TensorsAcceptable
  <2> QED
    BY <1>2, <2>2, NamesOrdered, PlannedTensorOK DEF Plannable
<1>4. Plannable' <=> Plannable
  BY <1>1, PlannableKept
<1>5. SourceTyped'
  BY <1>0, <1>1 DEF SourceTyped, Names, Finite
<1>6. ConfigAccepted(opts.cfg)' <=> ConfigAccepted(opts.cfg)
  BY <1>1 DEF ConfigAccepted, Pairs, ModuleQtype
<1>7. Checked'
  BY <1>1, <1>2, <1>3, <1>4, <1>6 DEF Checked
<1>8. FromPlan'
  BY <1>0, <1>1, <1>2 DEF FromPlan
<1> QED
  BY <1>5, <1>7, <1>8 DEF SourceInv

LEMMA ReplaceShardStep ==
  ASSUME SourceInv, ReplaceShard
  PROVE  SourceInv'
<1>0. SourceTyped /\ Checked /\ FromPlan
  BY DEF SourceInv
<1>1. /\ UNCHANGED <<docs, phase, variant, entries, reads, tensors, stage>>
      /\ opts' = [opts EXCEPT !.mayReplace = FALSE]
  BY DEF ReplaceShard, vars, plan
<1>2. PICK f \in Files, c \in Replacements : dir' = [dir EXCEPT ![f].real = c]
  BY DEF ReplaceShard
<1>3. DOMAIN dir' = Files /\ \A g \in Files : /\ DOMAIN dir'[g] = {"real", "cached"}
                                             /\ Finite(dir'[g].real) /\ Finite(dir'[g].cached)
  <2>1. Finite(c)
    BY SourceAssumption
  <2> QED
    BY <1>0, <1>2, <2>1 DEF SourceTyped
<1>4. OptionNames \subseteq DOMAIN opts' /\ \A k \in OptionNames : opts'[k] = opts[k]
  BY <1>0, <1>1 DEF SourceTyped, OptionNames
<1>5. opts'.cfg = opts.cfg /\ opts'.profile = opts.profile /\ opts'.header = opts.header
  BY <1>4 DEF OptionNames
<1>6. SourceTyped'
  BY <1>0, <1>1, <1>3, <1>4, <1>5 DEF SourceTyped, Names, Finite
<1>7. Plannable' <=> Plannable
  BY <1>1, <1>5, PlannableKept
<1>8. ConfigAccepted(opts.cfg)' <=> ConfigAccepted(opts.cfg)
  BY <1>5 DEF ConfigAccepted, Pairs, ModuleQtype
<1>9. Checked'
  BY <1>0, <1>1, <1>7, <1>8 DEF Checked
<1>10. FromPlan'
  BY <1>0, <1>1, <1>5, FromPlanKept DEF FromPlan
<1> QED
  BY <1>6, <1>9, <1>10 DEF SourceInv

-----------------------------------------------------------------------------
(* The conversion.  Nothing is read before the shards are checked; what a  *)
(* check saw is what the name still has until the shard is opened, or the  *)
(* shard was replaced in between; and rows come from what was opened.      *)
BeforeReading == {"contract", "headers", "check", "metadata", "planned"}
NothingRead == checked = <<>> /\ readers = <<>> /\ late = {} /\ taken = <<>>
OneVersion ==
  /\ DOMAIN checked \subseteq Files /\ DOMAIN taken = 1..N
  /\ \A i \in 1..N : /\ reads[i] \in DOMAIN checked => Has(checked[reads[i]], T(i))
                     /\ \A c \in taken[i] : c = readers[reads[i]]
  /\ \A f \in DOMAIN checked \ DOMAIN readers : f \in late \/ dir[f].real = checked[f]
  /\ \A f \in DOMAIN readers : f \in DOMAIN checked /\ (f \in late \/ readers[f] = checked[f])
Reading ==
  /\ phase \in BeforeReading => NothingRead
  /\ phase # "resolved" => \A i \in DOMAIN taken : taken[i] = {}
  /\ phase \in {"resolving", "resolved"} => OneVersion
  /\ phase = "resolving" => stage = "laid"
  /\ phase = "resolved" => \A i \in 1..N : reads[i] \in DOMAIN readers
  /\ stage \in {"metadata", "write"} => phase = "resolved"
ConversionInv == SourceInv /\ FileInv /\ Reading

LEMMA UnchangedFile ==
  ASSUME FileInv, UNCHANGED vars
  PROVE  FileInv'
<1>1. UNCHANGED <<tensors, chunk, stage, index, last, item, cursor, payload, scale, current, rows, weightPos,
                  scalePos, file, size>>
  BY DEF vars, plan, layoutVars, streamVars
<1>2. N' = N /\ DataStart' = DataStart /\ \A i : T(i)' = T(i)
  BY <1>1 DEF N, T, DataStart
<1>3. LayoutInv'
  <2>1. CASE stage = "source"
    <3>1. PlanTyped' /\ Bounds'
      BY <1>1, <1>2, PlanKept DEF FileInv, LayoutInv, Bounds
    <3>2. Slabs' /\ Placing'
      BY <1>1, <2>1 DEF Slabs, Placing, LaidStages
    <3> QED
      BY <3>1, <3>2 DEF LayoutInv
  <2>2. CASE stage # "source"
    BY <1>1, <2>2, LayoutKept DEF FileInv, layoutVars
  <2> QED
    BY <2>1, <2>2
<1>4. StreamBounds'
  BY <1>1, <1>2 DEF FileInv, StreamBounds, Omitted, T
<1>5. \A i, p : Place(i, p)' = Place(i, p) /\ Length(i, p)' = Length(i, p) /\ Row(i, p)' = Row(i, p)
  BY <1>1, LengthKept
<1>6. \A i, p : Reach(i, p)' = Reach(i, p)
  BY <1>1, <1>5 DEF Reach
<1>7. MetaBytes' = MetaBytes
  BY <1>2 DEF MetaBytes, RecordSpan
<1>8. PICK c : c = current
  OBVIOUS
<1>9. Positions' <=> Positions
  BY <1>1, <1>2, <1>5, <1>6, <1>8 DEF Positions, Omitted
<1>10. (Content' <=> Content) /\ (NothingElse' <=> NothingElse)
  BY <1>1, <1>2, <1>5, <1>6, <1>7 DEF Content, NothingElse, Byte
<1>11. Filling'
  BY <1>1, <1>2, <1>9, <1>10 DEF FileInv, Filling
<1> QED
  BY <1>3, <1>4, <1>11 DEF FileInv

LEMMA LayOutKeeps ==
  ASSUME StreamBounds, NEW p, NEW m, LayOut(p, m), Typed(p), stage \in Early
  PROVE  FileInv'
<1>1. LayoutInv'
  BY LayOutStep
<1>2. /\ tensors' = p /\ stage' = "layout"
      /\ UNCHANGED <<chunk, current, rows, size>>
  BY DEF LayOut, streamVars
<1>3. N' = Len(p) /\ T(1)' = p[1] /\ Len(p) \in Nat /\ (1 <= Len(p) => p[1].rows \in Nat)
  BY <1>2 DEF N, T, Typed, TensorOK
<1>4. current = 1 /\ rows = 0 /\ size \in Nat /\ chunk \in Nat \ {0}
  BY DEF StreamBounds, Early
<1>5. StreamBounds'
  <2>1. T(current)' = p[1]
    BY <1>2, <1>4 DEF T
  <2>2. current' \in 1..(N' + 1) /\ rows' \in Nat /\ size' \in Nat /\ chunk' \in Nat \ {0}
    BY <1>2, <1>3, <1>4
  <2>3. current' <= N' => rows' <= T(current)'.rows /\ (Omitted(T(current))' => rows' = 0)
    BY <1>2, <1>3, <1>4, <2>1
  <2> QED
    BY <1>2, <1>4, <2>2, <2>3 DEF StreamBounds
<1>6. Filling'
  BY <1>2 DEF Filling, Positions
<1> QED
  BY <1>1, <1>5, <1>6 DEF FileInv

LEMMA ReadingBefore ==
  ASSUME Reading, phase \in BeforeReading, phase' \in BeforeReading \cup {"refused"},
         UNCHANGED readVars, stage' \notin {"metadata", "write"}
  PROVE  Reading'
<1>1. NothingRead
  BY DEF Reading
<1>2. NothingRead' /\ DOMAIN taken' = {}
  BY <1>1 DEF NothingRead, readVars
<1> QED
  BY <1>2 DEF Reading, BeforeReading

LEMMA ReadMetadataStep ==
  ASSUME ConversionInv, ReadMetadata
  PROVE  ConversionInv'
<1>0. SourceTyped /\ Checked /\ FromPlan /\ StreamBounds
  BY DEF ConversionInv, SourceInv, FileInv
<1>1. /\ phase = "metadata" /\ UNCHANGED <<dir, docs, opts, variant, entries, reads, readVars>>
      /\ phase' \in {"planned", "refused"} /\ (phase' = "planned" => MetadataAcceptable)
  BY DEF ReadMetadata, Go
<1>2. stage = "source" /\ stage \in Stages /\ Plannable /\ ConfigAccepted(opts.cfg)
  BY <1>0, <1>1 DEF Checked, FromPlan
<1>3. SourceTyped'
  BY <1>0, <1>1 DEF SourceTyped, Names, Finite
<1>4. /\ Names' = Names /\ (Plannable' <=> Plannable)
      /\ \A n : Planned(n)' = Planned(n)
  BY <1>1, PlannableKept
<1>5. ConfigAccepted(opts.cfg)' <=> ConfigAccepted(opts.cfg)
  BY <1>1 DEF ConfigAccepted, Pairs, ModuleQtype
<1>6. Reading'
  <2>1. stage' \notin {"metadata", "write"}
    BY <1>2 DEF ReadMetadata, LayOut, vars
  <2> QED
    BY <1>1, <2>1, ReadingBefore DEF BeforeReading, ConversionInv
<1>7. CASE MetadataAcceptable
  <2> DEFINE p == PlanOf(Names)
             S == {Planned(n) : n \in Names}
  <2>1. PICK m : LayOut(p, m)
    BY <1>7, Zenon DEF ReadMetadata
  <2>2. p \in Seq(S) /\ \A i, j \in 1..Len(p) : i < j => p[i].id < p[j].id
    BY <1>2, PlanIsOrdered DEF Plannable
  <2>3. tensors' = p /\ stage' = "layout"
    BY <2>1 DEF LayOut
  <2> HIDE DEF p
  <2>4. Len(p) \in Nat /\ DOMAIN p = 1..Len(p) /\ \A i \in 1..Len(p) : p[i] \in S
    <3> HIDE DEF S
    <3> QED
      BY <2>2
  <2>5. \A i \in 1..Len(p) : \E n \in Names : p[i] = Planned(n)
    BY <2>4
  <2>6. Typed(p)
    BY <1>2, <2>4, <2>5 DEF Typed, Plannable
  <2>7. FileInv'
    BY <1>0, <1>2, <2>1, <2>6, LayOutKeeps DEF Early
  <2>8. N' = Len(p) /\ \A i : T(i)' = p[i]
    BY <2>3 DEF N, T
  <2>9. \A i \in 1..N' : \E n \in Names' : T(i)' = Planned(n)'
    BY <1>4, <2>5, <2>8
  <2>10. FromPlan'
    BY <1>2, <1>4, <2>2, <2>3, <2>8, <2>9 DEF FromPlan, Stages
  <2>11. Checked'
    BY <1>1, <1>2, <1>4, <1>5 DEF Checked
  <2> QED
    BY <1>3, <1>6, <2>7, <2>10, <2>11 DEF ConversionInv, SourceInv
<1>8. CASE ~MetadataAcceptable
  <2>1. phase' = "refused" /\ UNCHANGED vars
    BY <1>1, <1>8 DEF ReadMetadata
  <2>2. UNCHANGED <<tensors, chunk, stage, layoutVars, current, rows, size>>
    BY <2>1 DEF vars, plan, streamVars
  <2>3. FileInv'
    BY <2>1, UnchangedFile DEF ConversionInv
  <2>4. FromPlan'
    BY <1>0, <1>2, <2>2 DEF FromPlan
  <2>5. Checked'
    BY <2>1 DEF Checked
  <2> QED
    BY <1>3, <1>6, <2>3, <2>4, <2>5 DEF ConversionInv, SourceInv
<1> QED
  BY <1>7, <1>8

LEMMA SelectTensorStep ==
  ASSUME ConversionInv, SelectTensor
  PROVE  ConversionInv'
<1>0. SourceTyped /\ Checked /\ FromPlan /\ StreamBounds /\ PlanTyped
  BY DEF ConversionInv, SourceInv, FileInv, LayoutInv
<1>1. /\ stage = "laid" /\ phase = "planned" /\ UNCHANGED <<dir, docs, opts, variant, entries, reads, readVars>>
      /\ phase' \in {"planned", "refused"}
  BY DEF SelectTensor
<1>2. /\ Names' = Names /\ (Plannable' <=> Plannable)
      /\ \A n : Planned(n)' = Planned(n)
  BY <1>1, PlannableKept
<1>3. SourceTyped'
  BY <1>0, <1>1 DEF SourceTyped, Names, Finite
<1>4. Checked'
  <2>1. ConfigAccepted(opts.cfg)' <=> ConfigAccepted(opts.cfg)
    BY <1>1 DEF ConfigAccepted, Pairs, ModuleQtype
  <2>2. Plannable /\ ConfigAccepted(opts.cfg)
    BY <1>0, <1>1 DEF Checked
  <2> QED
    BY <1>1, <1>2, <2>1, <2>2 DEF Checked
<1>5. Reading'
  <2>1. stage' \notin {"metadata", "write"}
    BY <1>1 DEF SelectTensor, LayOut, vars
  <2> QED
    BY <1>1, <2>1, ReadingBefore DEF BeforeReading, ConversionInv
<1>6. Plannable /\ \A i \in 1..N : \E n \in Names : T(i) = Planned(n)
  BY <1>0, <1>1 DEF FromPlan
<1>7. CASE phase' = "refused" /\ UNCHANGED vars
  <2>1. UNCHANGED <<tensors, stage>>
    BY <1>7 DEF vars, plan
  <2>2. FileInv'
    BY <1>7, UnchangedFile DEF ConversionInv
  <2>3. FromPlan'
    BY <1>0, <1>1, <2>1, FromPlanKept DEF FromPlan
  <2> QED
    BY <1>3, <1>4, <1>5, <2>2, <2>3 DEF ConversionInv, SourceInv
<1>8. ASSUME NEW i \in Selected, LayOut(<<T(i)>>, "single")
      PROVE  ConversionInv'
  <2> DEFINE p == <<T(i)>>
  <2>1. i \in 1..N
    BY DEF Selected
  <2>2. Len(p) = 1 /\ DOMAIN p = 1..1 /\ p[1] = T(i)
    OBVIOUS
  <2>3. Typed(p)
    BY <1>0, <2>1, <2>2 DEF Typed, PlanTyped
  <2> HIDE DEF p
  <2>4. FileInv'
    BY <1>0, <1>1, <1>8, <2>3, LayOutKeeps DEF Early, p
  <2>5. tensors' = p /\ stage' = "layout"
    BY <1>8 DEF LayOut, p
  <2>6. N' = 1 /\ T(1)' = T(i)
    BY <2>2, <2>5 DEF N, T
  <2>7. PICK n \in Names : T(i) = Planned(n)
    BY <1>6, <2>1
  <2>8. \A j \in 1..N' : \E m \in Names' : T(j)' = Planned(m)'
    BY <1>2, <2>6, <2>7
  <2>9. FromPlan'
    BY <1>2, <1>6, <2>5, <2>6, <2>8 DEF FromPlan, Stages
  <2> QED
    BY <1>3, <1>4, <1>5, <2>4, <2>9 DEF ConversionInv, SourceInv
<1> QED
  BY <1>7, <1>8 DEF SelectTensor

LEMMA PhaseMoves ==
  ASSUME SourceInv, UNCHANGED <<dir, docs, opts, variant, entries, tensors>>,
         phase \in {"planned", "resolving"}, phase' \in {"resolving", "resolved", "refused"},
         stage # "source", stage' \in Stages \ {"source"}
  PROVE  SourceInv'
<1>0. SourceTyped /\ Checked /\ FromPlan
  BY DEF SourceInv
<1>1. SourceTyped'
  BY <1>0 DEF SourceTyped, Names, Finite
<1>2. Plannable' <=> Plannable
  BY PlannableKept
<1>3. Checked'
  <2>1. ConfigAccepted(opts.cfg)' <=> ConfigAccepted(opts.cfg)
    BY DEF ConfigAccepted, Pairs, ModuleQtype
  <2>2. Plannable /\ ConfigAccepted(opts.cfg)
    BY <1>0 DEF Checked
  <2> QED
    BY <1>2, <2>1, <2>2 DEF Checked
<1>4. FromPlan'
  BY <1>0, FromPlanKept
<1> QED
  BY <1>1, <1>3, <1>4 DEF SourceInv

LEMMA ResolvePayloadsStep ==
  ASSUME ConversionInv, ResolvePayloads
  PROVE  ConversionInv'
<1>1. /\ stage = "laid" /\ phase = "planned"
      /\ UNCHANGED <<dir, docs, opts, variant, entries, checked, readers, late, vars>>
      /\ \/ phase' = "resolving" /\ taken' = [i \in 1..N |-> {}]
         \/ phase' = "refused" /\ taken' = taken
  BY DEF ResolvePayloads
<1>2. UNCHANGED <<tensors, stage>>
  BY <1>1 DEF vars, plan
<1>3. FileInv'
  BY <1>1, UnchangedFile DEF ConversionInv
<1>4. SourceInv'
  BY <1>1, <1>2, PhaseMoves DEF ConversionInv, Stages
<1>5. Reading'
  <2>1. NothingRead
    BY <1>1 DEF ConversionInv, Reading, BeforeReading
  <2>2. DOMAIN checked' = {} /\ DOMAIN readers' = {}
    BY <1>1, <2>1 DEF NothingRead
  <2>3. N' = N
    BY <1>2 DEF N
  <2>4. \A i \in DOMAIN taken' : taken'[i] = {}
    <3>1. CASE taken' = [i \in 1..N |-> {}]
      BY <3>1
    <3>2. CASE taken' = taken
      <4>1. DOMAIN taken' = {}
        BY <2>1, <3>2 DEF NothingRead
      <4> QED
        BY <4>1
    <3> QED
      BY <1>1, <3>1, <3>2
  <2>5. phase' = "resolving" => OneVersion'
    BY <1>1, <2>2, <2>3 DEF OneVersion
  <2> QED
    BY <1>1, <1>2, <2>4, <2>5 DEF Reading, BeforeReading
<1> QED
  BY <1>3, <1>4, <1>5 DEF ConversionInv

LEMMA CheckShardStep ==
  ASSUME ConversionInv, CheckShard
  PROVE  ConversionInv'
<1>1. /\ phase = "resolving"
      /\ UNCHANGED <<dir, docs, opts, variant, entries, reads, readers, late, taken, vars>>
      /\ phase' \in {"resolving", "refused"}
  BY DEF CheckShard
<1>2. UNCHANGED <<tensors, stage>> /\ N' = N /\ \A i : T(i)' = T(i)
  BY <1>1 DEF vars, plan, N, T
<1>3. stage = "laid" /\ OneVersion /\ \A i \in DOMAIN taken : taken[i] = {}
  BY <1>1 DEF ConversionInv, Reading
<1>4. FileInv'
  BY <1>1, UnchangedFile DEF ConversionInv
<1>5. SourceInv'
  BY <1>1, <1>2, <1>3, PhaseMoves DEF ConversionInv, Stages
<1>6. CASE phase' = "refused"
  BY <1>1, <1>2, <1>3, <1>4, <1>5, <1>6 DEF ConversionInv, Reading, BeforeReading
<1>7. CASE phase' = "resolving"
  <2>1. PICK k \in 1..N :
          /\ reads[k] \notin DOMAIN checked /\ reads[k] \in Files
          /\ \A j \in 1..N : reads[j] = reads[k] => Has(dir[reads[k]].real, T(j))
          /\ checked' = With(checked, reads[k], dir[reads[k]].real)
    BY <1>1, <1>7 DEF CheckShard
  <2> DEFINE f == reads[k]
  <2>2. /\ DOMAIN checked' = DOMAIN checked \cup {f}
        /\ checked'[f] = dir[f].real
        /\ \A g \in DOMAIN checked : g # f /\ checked'[g] = checked[g]
    BY <2>1 DEF With
  <2>3. \A i \in 1..N : reads[i] \in DOMAIN checked' => Has(checked'[reads[i]], T(i))
    BY <1>3, <2>1, <2>2 DEF OneVersion
  <2>4. \A i \in 1..N : Has(checked[reads[i]], T(i))' <=> Has(checked'[reads[i]], T(i))
    BY <1>1, <1>2 DEF Has, SameEntry
  <2>5. DOMAIN checked' \subseteq Files
    BY <1>3, <2>1, <2>2 DEF OneVersion
  <2>6. \A g \in DOMAIN checked' \ DOMAIN readers : g \in late \/ dir[g].real = checked'[g]
    BY <1>3, <2>2 DEF OneVersion
  <2>7. \A g \in DOMAIN readers : g \in DOMAIN checked' /\ (g \in late \/ readers[g] = checked'[g])
    BY <1>3, <2>2 DEF OneVersion
  <2> HIDE DEF f
  <2>8. OneVersion'
    BY <1>1, <1>2, <1>3, <2>3, <2>4, <2>5, <2>6, <2>7 DEF OneVersion
  <2>9. Reading'
    BY <1>1, <1>2, <1>3, <1>7, <2>8 DEF Reading, BeforeReading
  <2> QED
    BY <1>4, <1>5, <2>9 DEF ConversionInv
<1> QED
  BY <1>1, <1>6, <1>7

LEMMA OpenShardStep ==
  ASSUME ConversionInv, OpenShard
  PROVE  ConversionInv'
<1>1. /\ phase = "resolving" /\ Wanted \subseteq DOMAIN checked
      /\ UNCHANGED <<dir, docs, opts, variant, entries, reads, checked, late, taken, tensors, chunk,
                     layoutVars, current, rows, size>>
  BY DEF OpenShard, plan, streamVars
<1>2. PICK f \in Wanted \ DOMAIN readers :
        \/ phase' = "refused" /\ UNCHANGED <<readers, stage>>
        \/ /\ readers' = With(readers, f, dir[f].real)
           /\ \/ Wanted \subseteq DOMAIN readers' /\ phase' = "resolved" /\ stage' = "metadata"
              \/ UNCHANGED <<phase, stage>>
  BY DEF OpenShard
<1>3. stage = "laid" /\ OneVersion /\ \A i \in DOMAIN taken : taken[i] = {}
  BY <1>1 DEF ConversionInv, Reading
<1>4. N' = N /\ (\A i : T(i)' = T(i)) /\ stage' \in {"laid", "metadata"}
  BY <1>1, <1>2, <1>3 DEF N, T
<1>5. FileInv'
  <2>1. LayoutInv'
    BY <1>1, <1>3, <1>4, LayoutKept DEF ConversionInv, FileInv, LaidStages
  <2> QED
    BY <1>1, <1>3, <1>4, <2>1, QuietStep DEF ConversionInv, FileInv, Early
<1>6. SourceInv'
  <2>1. phase' \in {"resolving", "resolved", "refused"} /\ stage # "source" /\ stage' \in Stages \ {"source"}
    BY <1>1, <1>2, <1>3, <1>4 DEF Stages
  <2> QED
    BY <1>1, <2>1, PhaseMoves DEF ConversionInv
<1>7. CASE phase' = "refused" /\ UNCHANGED <<readers, stage>>
  <2>1. Reading'
    BY <1>1, <1>3, <1>7 DEF Reading, BeforeReading
  <2> QED
    BY <1>5, <1>6, <2>1 DEF ConversionInv
<1>8. CASE /\ readers' = With(readers, f, dir[f].real)
           /\ \/ Wanted \subseteq DOMAIN readers' /\ phase' = "resolved" /\ stage' = "metadata"
              \/ UNCHANGED <<phase, stage>>
  <2>1. /\ DOMAIN readers' = DOMAIN readers \cup {f}
        /\ readers'[f] = dir[f].real
        /\ \A g \in DOMAIN readers : g # f /\ readers'[g] = readers[g]
    BY <1>2, <1>8 DEF With
  <2>2. f \in DOMAIN checked /\ (f \in late \/ dir[f].real = checked[f])
    BY <1>1, <1>2, <1>3 DEF OneVersion
  <2>3. \A i \in 1..N : Has(checked[reads[i]], T(i))' <=> Has(checked[reads[i]], T(i))
    BY <1>1, <1>4 DEF Has, SameEntry
  <2>4. \A g \in DOMAIN readers' : g \in DOMAIN checked /\ (g \in late \/ readers'[g] = checked[g])
    BY <1>3, <2>1, <2>2 DEF OneVersion
  <2>5. OneVersion'
    BY <1>1, <1>3, <1>4, <2>1, <2>3, <2>4 DEF OneVersion
  <2>6. Wanted \subseteq DOMAIN readers' => \A i \in 1..N : reads[i] \in DOMAIN readers'
    BY DEF Wanted
  <2>7. Reading'
    BY <1>1, <1>3, <1>4, <1>8, <2>5, <2>6 DEF Reading, BeforeReading
  <2> QED
    BY <1>5, <1>6, <2>7 DEF ConversionInv
<1> QED
  BY <1>2, <1>7, <1>8

LEMMA ReadingKept ==
  ASSUME Reading, UNCHANGED <<readVars, tensors, reads, dir, phase>>,
         stage' \in {"metadata", "write"} => stage \in {"metadata", "write"},
         phase = "resolving" => stage' = stage
  PROVE  Reading'
<1>1. N' = N /\ \A i : T(i)' = T(i)
  BY DEF N, T
<1>2. UNCHANGED <<checked, readers, late, taken>>
  BY DEF readVars
<1>3. \A i : Has(checked[reads[i]], T(i))' <=> Has(checked[reads[i]], T(i))
  BY <1>1, <1>2 DEF Has, SameEntry
<1>4. OneVersion => OneVersion'
  BY <1>1, <1>2, <1>3 DEF OneVersion
<1>5. NothingRead => NothingRead'
  BY <1>2 DEF NothingRead
<1> QED
  BY <1>1, <1>2, <1>4, <1>5 DEF Reading

(* A replaced shard that was checked and is not open is replaced late.     *)
LEMMA ReplaceReading ==
  ASSUME SourceTyped, Reading, ReplaceShard
  PROVE  Reading'
<1>1. /\ UNCHANGED <<phase, reads, checked, readers, taken, tensors, stage>>
      /\ N' = N /\ \A i : T(i)' = T(i)
  BY DEF ReplaceShard, vars, plan, N, T
<1>2. PICK f \in Files, c \in Replacements :
        /\ dir' = [dir EXCEPT ![f].real = c]
        /\ late' = IF f \in DOMAIN checked \ DOMAIN readers THEN late \cup {f} ELSE late
  BY DEF ReplaceShard
<1>3. DOMAIN dir = Files
  BY DEF SourceTyped
<1>4. NothingRead => NothingRead'
  BY <1>1, <1>2 DEF NothingRead
<1>5. ASSUME OneVersion
      PROVE  OneVersion'
  <2>1. \A i : Has(checked[reads[i]], T(i))' <=> Has(checked[reads[i]], T(i))
    BY <1>1 DEF Has, SameEntry
  <2>2. ASSUME NEW g \in DOMAIN checked \ DOMAIN readers
        PROVE  g \in late' \/ dir'[g].real = checked[g]
    <3>1. g \in Files /\ (g \in late \/ dir[g].real = checked[g])
      BY <1>5, <2>2 DEF OneVersion
    <3>2. CASE g = f
      BY <1>2, <2>2, <3>2
    <3>3. CASE g # f
      <4>1. dir'[g] = dir[g]
        BY <1>2, <1>3, <3>1, <3>3
      <4> QED
        BY <1>2, <3>1, <4>1
    <3> QED
      BY <3>2, <3>3
  <2>3. late \subseteq late'
    BY <1>2
  <2> QED
    BY <1>1, <1>5, <2>1, <2>2, <2>3 DEF OneVersion
<1> QED
  BY <1>1, <1>4, <1>5 DEF Reading

(* Rows come from the open shard.                                          *)
LEMMA ReadRowsReading ==
  ASSUME Reading, WriteRows, ReadRows, UNCHANGED sourceVars
  PROVE  Reading'
<1>1. /\ stage = "write" /\ stage' = stage /\ tensors' = tensors
      /\ UNCHANGED <<phase, reads, dir, checked, readers, late>>
      /\ taken' = [taken EXCEPT ![current] = @ \cup {readers[reads[current]]}]
  BY DEF WriteRows, ReadRows, DataOf, Streaming, plan, sourceVars
<1>2. phase = "resolved" /\ OneVersion /\ \A i \in 1..N : reads[i] \in DOMAIN readers
  BY <1>1 DEF Reading
<1>3. N' = N /\ \A i : T(i)' = T(i)
  BY <1>1 DEF N, T
<1>4. \A i : Has(checked[reads[i]], T(i))' <=> Has(checked[reads[i]], T(i))
  BY <1>1, <1>3 DEF Has, SameEntry
<1>5. DOMAIN taken' = 1..N /\ \A i \in 1..N : \A c \in taken'[i] : c = readers[reads[i]]
  <2>1. DOMAIN taken = 1..N /\ \A i \in 1..N : \A c \in taken[i] : c = readers[reads[i]]
    BY <1>2 DEF OneVersion
  <2> QED
    BY <1>1, <2>1
<1>6. OneVersion'
  BY <1>1, <1>2, <1>3, <1>4, <1>5 DEF OneVersion
<1> QED
  BY <1>1, <1>2, <1>3, <1>6 DEF Reading, BeforeReading

LEMMA NextStep ==
  ASSUME ConversionInv, Next
  PROVE  ConversionInv'
<1>0. SourceInv /\ FileInv /\ Reading
  BY DEF ConversionInv
<1>1. CASE Source
  <2>1. UNCHANGED <<readVars, vars>>
    BY <1>1 DEF Source
  <2>2. FileInv'
    BY <1>0, <2>1, UnchangedFile
  <2>3. SourceInv'
    BY <1>0, <1>1, <2>1, ReadContractStep, ReadHeadersStep, CheckTensorsStep DEF Source
  <2>4. /\ stage' = stage /\ phase \in BeforeReading
        /\ phase' \in BeforeReading \cup {"refused"}
    BY <1>1, <2>1 DEF Source, ReadContract, ReadHeaders, CheckTensors, Go, vars, BeforeReading
  <2>5. stage' \notin {"metadata", "write"}
    BY <1>0, <2>4 DEF Reading, BeforeReading
  <2>6. Reading'
    BY <1>0, <2>1, <2>4, <2>5, ReadingBefore
  <2> QED
    BY <2>2, <2>3, <2>6 DEF ConversionInv
<1>2. CASE ReadMetadata
  BY <1>2, ReadMetadataStep
<1>3. CASE SelectTensor
  BY <1>3, SelectTensorStep
<1>4. CASE ResolvePayloads
  BY <1>4, ResolvePayloadsStep
<1>5. CASE Layout \/ Write
  <2>1. UNCHANGED sourceVars /\ (LayoutNext \/ WriteNext)
    BY <1>5 DEF Layout, Write, WriteNext
  <2>2. FileInv'
    BY <1>0, <2>1, FileStep
  <2>3. /\ tensors' = tensors /\ stage # "source" /\ stage' \in Stages \ {"source"}
        /\ stage \in Stages \ {"laid"}
        /\ stage' \in {"metadata", "write"} => stage \in {"metadata", "write"}
    BY <2>1 DEF LayoutNext, WriteNext, WriteQuietly, SkipEmpty, StartGroup, PlacePayload, PlaceScale, Validate,
         WriteMetadata, WriteRows, NextTensor, Truncate, FailWriting, Streaming, plan, Stages
  <2>4. SourceInv'
    BY <1>0, <2>1, <2>3, SourceKept
  <2>5. UNCHANGED <<reads, dir, phase>> /\ phase # "resolving"
    BY <1>0, <2>1, <2>3 DEF sourceVars, Reading
  <2>6. CASE UNCHANGED readVars
    BY <1>0, <2>2, <2>3, <2>4, <2>5, <2>6, ReadingKept DEF ConversionInv
  <2>7. CASE WriteRows /\ ReadRows
    BY <1>0, <2>1, <2>2, <2>4, <2>7, ReadRowsReading DEF ConversionInv
  <2> QED
    BY <1>5, <2>6, <2>7 DEF Layout, Write
<1>6. CASE CheckShard
  BY <1>6, CheckShardStep
<1>7. CASE OpenShard
  BY <1>7, OpenShardStep
<1>8. CASE ReplaceShard
  <2>1. FileInv'
    BY <1>0, <1>8, UnchangedFile DEF ReplaceShard
  <2> QED
    BY <1>0, <1>8, <2>1, ReplaceShardStep, ReplaceReading DEF ConversionInv, SourceInv
<1> QED
  BY <1>1, <1>2, <1>3, <1>4, <1>5, <1>6, <1>7, <1>8 DEF Next

LEMMA InitInv ==
  ASSUME Init
  PROVE  ConversionInv
<1>1. /\ stage = "source" /\ tensors = <<>> /\ chunk \in ChunkRows
      /\ index = 1 /\ last = 0 /\ item = 0 /\ cursor = 0 /\ payload = <<>> /\ scale = <<>>
      /\ current = 1 /\ rows = 0 /\ size = 0
  BY DEF Init, FileInit
<1>2. PICK s \in Sources : dir = s.dir /\ docs = s.docs /\ opts = s.opts
  BY DEF Init, SourceInit
<1>3. phase = "contract" /\ variant = None /\ entries = <<>> /\ NothingRead
  BY DEF Init, SourceInit, ReadInit, NothingRead
<1>4. N = 0 /\ chunk \in Nat \ {0}
  BY <1>1, FileConstants DEF N
<1>5. SourceTyped
  <2>1. IsFiniteSet(Names)
    BY <1>3, FS_EmptySet DEF Names
  <2> QED
    BY <1>2, <1>3, <2>1, SourceAssumption DEF SourceTyped, OptionNames
<1>6. Checked /\ FromPlan
  BY <1>1, <1>3 DEF Checked, FromPlan, Stages
<1>7. LayoutInv
  <2>1. PlanTyped
    BY <1>1, <1>4 DEF PlanTyped
  <2>2. Bounds
    BY <1>1, <1>4 DEF Bounds
  <2>3. Slabs /\ Placing
    BY <1>1 DEF Slabs, Placing, LaidStages
  <2> QED
    BY <2>1, <2>2, <2>3 DEF LayoutInv
<1>8. StreamBounds
  BY <1>1, <1>4 DEF StreamBounds
<1>9. Filling /\ Reading
  BY <1>1, <1>3 DEF Filling, Positions, Reading, NothingRead
<1> QED
  BY <1>5, <1>6, <1>7, <1>8, <1>9 DEF ConversionInv, SourceInv, FileInv

LEMMA UnchangedInv ==
  ASSUME ConversionInv, UNCHANGED conversionVars
  PROVE  ConversionInv'
<1>1. UNCHANGED <<sourceVars, readVars, vars, dir, docs, opts, phase, variant, entries, reads, tensors, stage>>
  BY DEF conversionVars, sourceVars, vars, plan
<1>2. FileInv'
  BY <1>1, UnchangedFile DEF ConversionInv
<1>3. Reading'
  BY <1>1, ReadingKept DEF ConversionInv
<1>4. SourceInv'
  <2>1. CASE stage # "source"
    BY <1>1, <2>1, SourceKept DEF ConversionInv, SourceInv, FromPlan
  <2>2. CASE stage = "source"
    <3>1. SourceTyped /\ Checked /\ FromPlan
      BY DEF ConversionInv, SourceInv
    <3>2. Plannable' <=> Plannable
      BY <1>1, PlannableKept
    <3>3. ConfigAccepted(opts.cfg)' <=> ConfigAccepted(opts.cfg)
      BY <1>1 DEF ConfigAccepted, Pairs, ModuleQtype
    <3>4. SourceTyped'
      BY <1>1, <3>1 DEF SourceTyped, Names, Finite
    <3>5. Checked' /\ FromPlan'
      BY <1>1, <2>2, <3>1, <3>2, <3>3 DEF Checked, FromPlan
    <3> QED
      BY <3>4, <3>5 DEF SourceInv
  <2> QED
    BY <2>1, <2>2
<1> QED
  BY <1>2, <1>3, <1>4 DEF ConversionInv

LEMMA DamageStep ==
  ASSUME ConversionInv, Damage
  PROVE  ConversionInv'
<1>1. /\ stage = "done" /\ stage' = "damaged"
      /\ UNCHANGED <<tensors, chunk, layoutVars, current, rows, size, sourceVars, readVars>>
  BY DEF Damage, plan
<1>2. FileInv'
  <2>1. LayoutInv'
    BY <1>1, LayoutKept DEF ConversionInv, FileInv, LaidStages
  <2> QED
    BY <1>1, <2>1, QuietStep DEF ConversionInv, FileInv, Early
<1>3. SourceInv'
  BY <1>1, SourceKept DEF ConversionInv, Stages
<1>4. Reading'
  <2>1. phase # "resolving"
    BY <1>1 DEF ConversionInv, Reading
  <2> QED
    BY <1>1, <2>1, ReadingKept DEF ConversionInv, sourceVars
<1> QED
  BY <1>2, <1>3, <1>4 DEF ConversionInv

LEMMA Inductive ==
  ASSUME ConversionInv, [CompareNext]_allVars
  PROVE  ConversionInv'
<1>1. CASE Convert
  BY <1>1, NextStep DEF Convert
<1>2. CASE Damage
  BY <1>2, DamageStep
<1>3. CASE UNCHANGED conversionVars
  BY <1>3, UnchangedInv
<1> QED
  BY <1>1, <1>2, <1>3 DEF CompareNext, StartCompare, CompareRows, FailCompare, EndCompare, allVars

(* The inductive invariant of the conversion: nothing that was read, laid  *)
(* out or written contradicts what the checks of convert.py accepted.      *)
THEOREM ConversionInvariant == CompareSpec => []ConversionInv
<1>1. CompareInit => ConversionInv
  BY InitInv DEF CompareInit
<1>2. ConversionInv /\ [CompareNext]_allVars => ConversionInv'
  BY Inductive
<1> QED
  BY <1>1, <1>2, PTL DEF CompareSpec

(* Every variable of the conversion keeps its type: no offset, position or *)
(* index of the layout and of the writer ever leaves the plan or the file. *)
THEOREM ConversionTyped == CompareSpec => []ConversionTypeOK
<1>1. ConversionInv => ConversionTypeOK
  <2>1. SUFFICES ASSUME ConversionInv
                 PROVE  ConversionTypeOK
    OBVIOUS
  <2>2. FileTypeOK
    BY <2>1, TypeOfFile DEF ConversionInv, SourceInv, FromPlan
  <2> QED
    BY <2>1, <2>2 DEF ConversionInv, SourceInv, SourceTyped, ConversionTypeOK
<1> QED
  BY <1>1, ConversionInvariant, PTL

(* The file that write_uocr_model leaves has the planned length, holds     *)
(* every byte of every tensor at its planned offset and nothing else, and  *)
(* no two regions of _layout_dry_run_file overlap: for every plan, every   *)
(* size of a chunk.                                                        *)
THEOREM FilesAreFaithful == CompareSpec => []FileFaithful
<1>1. ConversionInv => FileFaithful
  <2>1. SUFFICES ASSUME ConversionInv
                 PROVE  FileFaithful
    OBVIOUS
  <2>2. LayoutInv /\ FileInv /\ FromPlan
    BY <2>1 DEF ConversionInv, FileInv, SourceInv
  <2>3. RegionsDisjoint
    <3>1. CASE stage # "source"
      BY <2>2, <3>1, RegionsOfSlabs
    <3>2. CASE stage = "source"
      <4>1. N = 0
        BY <2>2, <3>2 DEF FromPlan, N
      <4> QED
        BY <4>1, SectionsInOrder DEF RegionsDisjoint, DataStart
    <3> QED
      BY <3>1, <3>2
  <2>4. FileExact
    BY <2>2, ExactOfFilling
  <2> QED
    BY <2>3, <2>4 DEF FileFaithful
<1> QED
  BY <1>1, ConversionInvariant, PTL

(* write_uocr_model: the rows of a shard's tensors all come from one       *)
(* version of it, the one that _resolve_safetensors_payloads checked       *)
(* against the plan, unless the shard was replaced after that check and    *)
(* before it was opened.                                                   *)
THEOREM TensorsAreRead == CompareSpec => []ReadsItsTensors
<1>1. ConversionInv => ReadsItsTensors
  <2>1. SUFFICES ASSUME ConversionInv, NEW i \in DOMAIN taken, NEW c \in taken[i]
                 PROVE  /\ reads[i] \notin late =>
                             /\ c = checked[reads[i]]
                             /\ T(i).name \in DOMAIN c.entries /\ c.entries[T(i).name] = T(i).entry
                             /\ T(i).entry.end <= c.size
                        /\ \A j \in DOMAIN taken : reads[j] = reads[i] => taken[j] \subseteq {c}
    BY DEF ReadsItsTensors
  <2>2. phase = "resolved"
    BY <2>1 DEF ConversionInv, Reading
  <2>3. OneVersion /\ \A j \in 1..N : reads[j] \in DOMAIN readers
    BY <2>1, <2>2 DEF ConversionInv, Reading
  <2>4. i \in 1..N /\ c = readers[reads[i]] /\ reads[i] \in DOMAIN readers
    BY <2>3 DEF OneVersion
  <2>5. reads[i] \in DOMAIN checked /\ (reads[i] \in late \/ c = checked[reads[i]])
    BY <2>3, <2>4 DEF OneVersion
  <2>6. Has(checked[reads[i]], T(i))
    BY <2>3, <2>4, <2>5 DEF OneVersion
  <2>7. \A j \in DOMAIN taken : reads[j] = reads[i] => taken[j] \subseteq {c}
    <3>1. SUFFICES ASSUME NEW j \in DOMAIN taken, reads[j] = reads[i], NEW d \in taken[j]
                   PROVE  d = c
      OBVIOUS
    <3>2. d = readers[reads[j]]
      BY <2>3, <3>1 DEF OneVersion
    <3> QED
      BY <2>4, <3>1, <3>2
  <2> QED
    BY <2>5, <2>6, <2>7 DEF Has, SameEntry
<1> QED
  BY <1>1, ConversionInvariant, PTL

LEMMA SameRank ==
  ASSUME NEW n \in Names, n.kind # "position_ids"
  PROVE  IdOf(n, Names) = IdOf(n, {m \in Names : m.kind \notin {"position_ids", "dash", "indexer"}} \cup {n})
<1> DEFINE S == {m \in Names : m.kind \notin {"position_ids", "dash", "indexer"}} \cup {n}
<1>1. CASE n.kind \in {"sam", "clip"}
  <2>1. {m \in Names : m.kind = n.kind /\ m.number < n.number} = {m \in S : m.kind = n.kind /\ m.number < n.number}
    BY <1>1
  <2> HIDE DEF S
  <2>2. Rank(n, Names) = Rank(n, S)
    BY <2>1 DEF Rank
  <2> QED
    BY <2>2 DEF IdOf, S
<1>2. CASE n.kind \notin {"sam", "clip"}
  BY <1>2 DEF IdOf
<1> QED
  BY <1>1, <1>2

(* No two tensors of a file share an id, the directory is in the order of  *)
(* the ids, and a tensor both checkpoints have keeps its id from one to    *)
(* the other.                                                              *)
THEOREM IdsAreStable == CompareSpec => []IdsStable
<1>1. ConversionInv => IdsStable
  <2>1. SUFFICES ASSUME ConversionInv
                 PROVE  IdsStable
    OBVIOUS
  <2>2. FromPlan
    BY <2>1 DEF ConversionInv, SourceInv
  <2>3. CASE stage = "source"
    <3>1. N = 0
      BY <2>2, <2>3 DEF FromPlan, N
    <3> QED
      BY <3>1 DEF IdsStable
  <2>4. CASE stage # "source"
    <3>1. ASSUME NEW i \in 1..N, T(i).name.kind # "position_ids"
          PROVE  T(i).id = IdOf(T(i).name, {n \in Names : n.kind \notin {"position_ids", "dash", "indexer"}}
                                           \cup {T(i).name})
      <4>1. PICK n \in Names : T(i) = Planned(n)
        BY <2>2, <2>4 DEF FromPlan
      <4>2. T(i).name = n /\ T(i).id = IdOf(n, Names)
        BY <4>1 DEF Planned
      <4> QED
        BY <3>1, <4>2, SameRank
    <3>2. \A i, j \in 1..N : i < j => T(i).id < T(j).id
      BY <2>2, <2>4 DEF FromPlan
    <3> QED
      BY <3>1, <3>2 DEF IdsStable
  <2> QED
    BY <2>3, <2>4
<1> QED
  BY <1>1, ConversionInvariant, PTL

-----------------------------------------------------------------------------
(* Tensors that follow one another: what is behind a slab without scales,  *)
(* and the slabs of a group.                                               *)

NextPayload(i) == payload[i + 1] = AlignUp(payload[i] + OutBytes(T(i)), PayloadAlign)
NextScale(i)   == scale[i + 1] = AlignUp(scale[i] + ScaleBytes(T(i)), PayloadAlign)
Loose(i)   == ~Quantized(T(i)) /\ OutBytes(T(i)) > 0 /\ OutBytes(T(i + 1)) > 0
Slabbed(i) == QuantizedExpert(T(i)) /\ SameSlab(T(i), T(i + 1))
Joined(i)  == /\ Loose(i) => NextPayload(i)
              /\ Slabbed(i) => NextPayload(i) /\ NextScale(i)

(* The tensors before x are laid out; those from x to l are a group, of    *)
(* which those before m have the slab that is placed.                      *)
BehindTensors(x) ==
  /\ \A i \in 1..(N - 1) : i + 1 < x => Joined(i)
  /\ x > 1 /\ ~Quantized(T(x - 1)) /\ OutBytes(T(x - 1)) > 0 =>
       cursor = payload[x - 1] + OutBytes(T(x - 1))
  /\ x > 1 /\ x <= N => ~Slabbed(x - 1)
Group(x, l) ==
  /\ \A k \in (x + 1)..l : QuantizedExpert(T(x)) /\ SameSlab(T(x), T(k))
  /\ l < N => ~Slabbed(l)
  /\ x > 1 => ~Slabbed(x - 1)
BehindPayloads(x, l, m) ==
  /\ \A i \in x..(l - 1) : i + 1 < m => NextPayload(i)
  /\ \A i \in 1..(N - 1) : i + 1 < x \/ (i + 1 = x /\ x < m) => Joined(i)
  /\ x > 1 /\ m = x /\ Loose(x - 1) => cursor = payload[x - 1] + OutBytes(T(x - 1))
  /\ m > x => cursor = payload[m - 1] + OutBytes(T(m - 1))
BehindScales(x, l, m) ==
  /\ \A i \in x..(l - 1) : NextPayload(i)
  /\ \A i \in 1..(N - 1) : i < x => Joined(i)
  /\ \A i \in x..(l - 1) : i + 1 < m => NextScale(i)
  /\ m = x => cursor = payload[l] + OutBytes(T(l))
  /\ m > x => cursor = scale[m - 1] + ScaleBytes(T(m - 1))
Joints ==
  /\ stage = "layout" => BehindTensors(index)
  /\ stage = "payloads" => Group(index, last) /\ BehindPayloads(index, last, item)
  /\ stage = "scales" => Group(index, last) /\ BehindScales(index, last, item)
  /\ stage \in LaidStages \cup {"refused"} => \A i \in 1..(N - 1) : Joined(i)

LEMMA SameTensors ==
  ASSUME tensors' = tensors
  PROVE  /\ N' = N
         /\ \A i : /\ T(i)' = T(i)
                   /\ OutBytes(T(i))' = OutBytes(T(i)) /\ ScaleBytes(T(i))' = ScaleBytes(T(i))
                   /\ Quantized(T(i))' <=> Quantized(T(i))
                   /\ Loose(i)' <=> Loose(i)
                   /\ Slabbed(i)' <=> Slabbed(i)
         /\ \A x, l : Group(x, l)' <=> Group(x, l)
<1>1. N' = N /\ \A i : T(i)' = T(i)
  BY DEF N, T
<1>2. ASSUME NEW i
      PROVE  /\ OutBytes(T(i))' = OutBytes(T(i)) /\ ScaleBytes(T(i))' = ScaleBytes(T(i))
             /\ Quantized(T(i))' <=> Quantized(T(i))
             /\ QuantizedExpert(T(i))' <=> QuantizedExpert(T(i))
  <2>1. OutBytes(T(i))' = OutBytes(T(i)) /\ ScaleBytes(T(i))' = ScaleBytes(T(i))
    BY DEF OutBytes, ScaleBytes, RowBytes, RowScales, Quantized, Omitted, T
  <2>2. Quantized(T(i))' <=> Quantized(T(i))
    BY <1>1 DEF Quantized
  <2>3. QuantizedExpert(T(i))' <=> QuantizedExpert(T(i))
    BY <1>1, <2>2 DEF QuantizedExpert
  <2> QED
    BY <2>1, <2>2, <2>3
<1>3. ASSUME NEW i, NEW j
      PROVE  SameSlab(T(i), T(j))' <=> SameSlab(T(i), T(j))
  BY <1>1 DEF SameSlab
<1>4. ASSUME NEW i
      PROVE  (Loose(i)' <=> Loose(i)) /\ (Slabbed(i)' <=> Slabbed(i))
  BY <1>2, <1>3 DEF Loose, Slabbed
<1>5. ASSUME NEW x, NEW l
      PROVE  Group(x, l)' <=> Group(x, l)
  BY <1>1, <1>2, <1>3, <1>4 DEF Group
<1> QED
  BY <1>1, <1>2, <1>4, <1>5

LEMMA JoinedKept ==
  ASSUME tensors' = tensors, NEW i,
         payload'[i] = payload[i], payload'[i + 1] = payload[i + 1]
  PROVE  /\ NextPayload(i)' <=> NextPayload(i)
         /\ (scale'[i] = scale[i] /\ scale'[i + 1] = scale[i + 1]) \/ ~Slabbed(i) => (Joined(i)' <=> Joined(i))
<1>1. /\ OutBytes(T(i))' = OutBytes(T(i)) /\ ScaleBytes(T(i))' = ScaleBytes(T(i))
      /\ Loose(i)' <=> Loose(i)
      /\ Slabbed(i)' <=> Slabbed(i)
  BY SameTensors
<1>2. NextPayload(i)' <=> NextPayload(i)
  BY <1>1 DEF NextPayload
<1>3. scale'[i] = scale[i] /\ scale'[i + 1] = scale[i + 1] => (NextScale(i)' <=> NextScale(i))
  BY <1>1 DEF NextScale
<1> QED
  BY <1>1, <1>2, <1>3 DEF Joined

LEMMA SkipEmptyJoints ==
  ASSUME LayoutInv, Joints, SkipEmpty
  PROVE  Joints'
<1>0. PlanTyped /\ Bounds /\ N \in Nat
  BY DEF LayoutInv, PlanTyped
<1>1. /\ stage = "layout" /\ stage' = "layout" /\ index <= N /\ OutBytes(T(index)) = 0
      /\ index' = index + 1
      /\ UNCHANGED <<tensors, cursor, payload, scale>>
  BY DEF SkipEmpty, plan
<1>2. PICK x \in 1..N : x = index
  BY <1>0, <1>1 DEF Bounds
<1>3. /\ N' = N
      /\ \A i : /\ OutBytes(T(i))' = OutBytes(T(i)) /\ ScaleBytes(T(i))' = ScaleBytes(T(i))
                /\ Quantized(T(i))' <=> Quantized(T(i))
                /\ Slabbed(i)' <=> Slabbed(i)
  BY <1>1, SameTensors
<1>4. BehindTensors(x)
  BY <1>1, <1>2 DEF Joints
<1>5. ~Quantized(T(x))
  BY <1>0, <1>1, <1>2, Sizes DEF PlanTyped
<1>6. \A i : Joined(i)' <=> Joined(i)
  BY <1>1, JoinedKept
<1>7. ASSUME NEW i \in 1..(N - 1), i + 1 < x + 1
      PROVE  Joined(i)
  <2>1. CASE i + 1 < x
    BY <1>4, <2>1 DEF BehindTensors
  <2>2. CASE i + 1 = x
    <3>1. ~Loose(i)
      BY <1>1, <1>2, <2>2 DEF Loose
    <3>2. ~Slabbed(i)
      <4>1. x > 1 /\ x <= N /\ x - 1 = i
        BY <2>2
      <4> QED
        BY <1>4, <4>1 DEF BehindTensors
    <3> QED
      BY <3>1, <3>2 DEF Joined
  <2> QED
    BY <1>7, <2>1, <2>2
<1>8. BehindTensors(x + 1)'
  <2>1. x + 1 - 1 = x
    OBVIOUS
  <2>2. ~(OutBytes(T(x)) > 0)
    BY <1>1, <1>2
  <2>3. ~Slabbed(x)
    BY <1>5 DEF Slabbed, QuantizedExpert
  <2> QED
    BY <1>3, <1>6, <1>7, <2>1, <2>2, <2>3 DEF BehindTensors
<1> QED
  BY <1>1, <1>2, <1>8 DEF Joints, LaidStages

LEMMA StartGroupJoints ==
  ASSUME LayoutInv, Joints, StartGroup
  PROVE  Joints'
<1>0. PlanTyped /\ Bounds /\ N \in Nat
  BY DEF LayoutInv, PlanTyped
<1>1. /\ stage = "layout" /\ stage' = "payloads" /\ index <= N /\ OutBytes(T(index)) # 0
      /\ last' \in GroupEnds(index)
      /\ \A j \in GroupEnds(index) : j <= last'
      /\ item' = index /\ index' = index
      /\ UNCHANGED <<tensors, cursor, payload, scale>>
  BY DEF StartGroup, plan
<1>2. PICK x \in 1..N : x = index
  BY <1>0, <1>1 DEF Bounds
<1>3. PICK l : l = last'
  OBVIOUS
<1>4. BehindTensors(x)
  BY <1>1, <1>2 DEF Joints
<1>5. l \in x..N /\ l \in GroupEnds(x) /\ \A j \in GroupEnds(x) : j <= l
  <2>1. l \in GroupEnds(x) /\ \A j \in GroupEnds(x) : j <= l
    BY <1>1, <1>2, <1>3
  <2>2. GroupEnds(x) \subseteq x..N
    BY DEF GroupEnds
  <2> QED
    BY <2>1, <2>2
<1>6. Group(x, l)
  <2>1. \A k \in (x + 1)..l : QuantizedExpert(T(x)) /\ SameSlab(T(x), T(k))
    <3>1. CASE QuantizedExpert(T(x))
      <4>1. \A k \in x..l : SameSlab(T(x), T(k))
        BY <1>5, <3>1 DEF GroupEnds
      <4> QED
        BY <3>1, <4>1
    <3>2. CASE ~QuantizedExpert(T(x))
      <4>1. l = x
        BY <1>5, <3>2 DEF GroupEnds
      <4> QED
        BY <4>1
    <3> QED
      BY <3>1, <3>2
  <2>2. ASSUME l < N, Slabbed(l)
        PROVE  FALSE
    <3>1. QuantizedExpert(T(x)) /\ SameSlab(T(x), T(l)) /\ SameSlab(T(l), T(l + 1))
      <4>1. CASE l = x
        BY <2>2, <4>1 DEF Slabbed, QuantizedExpert, SameSlab
      <4>2. CASE l # x
        BY <1>5, <2>1, <2>2, <4>2 DEF Slabbed
      <4> QED
        BY <4>1, <4>2
    <3>2. SameSlab(T(x), T(l + 1))
      BY <3>1 DEF SameSlab
    <3>3. SameSlab(T(x), T(x))
      BY <3>1 DEF QuantizedExpert, SameSlab
    <3>4. \A k \in x..(l + 1) : SameSlab(T(x), T(k))
      <4>1. ASSUME NEW k \in x..(l + 1)
            PROVE  k = x \/ k = l + 1 \/ k \in (x + 1)..l
        BY <1>5
      <4> QED
        BY <2>1, <3>2, <3>3, <4>1
    <3>5. l + 1 \in x..N
      <4>1. l \in x..N /\ l < N
        BY <1>5, <2>2
      <4> QED
        BY <1>0, <4>1
    <3>6. l + 1 \in GroupEnds(x)
      BY <3>1, <3>4, <3>5 DEF GroupEnds
    <3> QED
      BY <1>5, <3>6
  <2>3. x > 1 => ~Slabbed(x - 1)
    BY <1>4 DEF BehindTensors
  <2> QED
    BY <2>1, <2>2, <2>3 DEF Group
<1>7. BehindPayloads(x, l, x)'
  <2>1. /\ N' = N
        /\ \A i : /\ OutBytes(T(i))' = OutBytes(T(i))
                  /\ Loose(i)' <=> Loose(i)
    BY <1>1, SameTensors
  <2>2. \A i : Joined(i)' <=> Joined(i)
    BY <1>1, JoinedKept
  <2>3. x > 1 /\ Loose(x - 1) => cursor = payload[x - 1] + OutBytes(T(x - 1))
    BY <1>4 DEF BehindTensors, Loose
  <2>4. \A i \in 1..(N - 1) : i + 1 < x => Joined(i)
    BY <1>4 DEF BehindTensors
  <2>5. \A i \in x..(l - 1) : ~(i + 1 < x)
    BY <1>5
  <2> QED
    BY <1>1, <2>1, <2>2, <2>3, <2>4, <2>5 DEF BehindPayloads
<1>8. Group(x, l)'
  BY <1>1, <1>6, SameTensors
<1> QED
  BY <1>1, <1>2, <1>3, <1>7, <1>8 DEF Joints, LaidStages

LEMMA PlacePayloadJoints ==
  ASSUME LayoutInv, Joints, PlacePayload
  PROVE  Joints'
<1>0. PlanTyped /\ Bounds /\ N \in Nat
  BY DEF LayoutInv, PlanTyped
<1>1. /\ stage = "payloads"
      /\ payload' = [payload EXCEPT ![item] = AlignUp(cursor, PayloadAlign)]
      /\ cursor' = AlignUp(cursor, PayloadAlign) + OutBytes(T(item))
      /\ \/ item = last /\ item' = index /\ stage' = "scales"
         \/ item # last /\ item' = item + 1 /\ stage' = "payloads"
      /\ UNCHANGED <<tensors, index, last, scale>>
  BY DEF PlacePayload, plan
<1>2. PICK x \in 1..N, l \in 1..N, m \in 1..N : x = index /\ l = last /\ m = item /\ x <= m /\ m <= l
  BY <1>0, <1>1 DEF Bounds
<1>3. /\ N' = N
      /\ \A i : /\ OutBytes(T(i))' = OutBytes(T(i))
                /\ Loose(i)' <=> Loose(i)
                /\ Slabbed(i)' <=> Slabbed(i)
      /\ Group(x, l)' <=> Group(x, l)
  BY <1>1, SameTensors
<1>4. Group(x, l) /\ BehindPayloads(x, l, m)
  BY <1>1, <1>2 DEF Joints
<1>5. /\ payload'[m] = AlignUp(cursor, PayloadAlign)
      /\ \A i \in 1..N : i # m => payload'[i] = payload[i]
  BY <1>0, <1>1, <1>2 DEF Bounds
<1>6. cursor' = payload'[m] + OutBytes(T(m))
  BY <1>1, <1>2, <1>5
<1>7. ASSUME NEW i \in 1..(N - 1), i + 1 # m, i # m
      PROVE  (NextPayload(i)' <=> NextPayload(i)) /\ (Joined(i)' <=> Joined(i))
  <2>1. i \in 1..N /\ i + 1 \in 1..N
    BY <1>0
  <2>2. payload'[i] = payload[i] /\ payload'[i + 1] = payload[i + 1]
    BY <1>5, <1>7, <2>1
  <2> QED
    BY <1>1, <2>2, JoinedKept
<1>8. ASSUME NEW i \in 1..(N - 1), i + 1 = m, cursor = payload[i] + OutBytes(T(i))
      PROVE  NextPayload(i)'
  <2>1. payload'[i] = payload[i] /\ payload'[i + 1] = AlignUp(payload[i] + OutBytes(T(i)), PayloadAlign)
    BY <1>0, <1>5, <1>8
  <2> QED
    BY <1>3, <2>1 DEF NextPayload, AlignUp
<1>9. ASSUME NEW i \in x..(l - 1), i + 1 <= m
      PROVE  NextPayload(i)'
  <2>1. i \in 1..(N - 1)
    BY <1>0
  <2>2. CASE i + 1 < m
    <3>1. NextPayload(i)
      BY <1>4, <2>2 DEF BehindPayloads
    <3> QED
      BY <1>7, <2>1, <2>2, <3>1
  <2>3. CASE i + 1 = m
    <3>1. m > x /\ m - 1 = i
      BY <2>3
    <3>2. cursor = payload[i] + OutBytes(T(i))
      BY <1>4, <3>1 DEF BehindPayloads
    <3> QED
      BY <1>8, <2>1, <2>3, <3>2
  <2> QED
    BY <1>9, <2>2, <2>3
<1>10. ASSUME NEW i \in 1..(N - 1), i + 1 <= x
       PROVE  Joined(i)'
  <2>1. CASE i + 1 < x
    <3>1. Joined(i)
      BY <1>4, <2>1 DEF BehindPayloads
    <3> QED
      BY <1>2, <1>7, <2>1, <3>1
  <2>2. CASE i + 1 = x /\ x < m
    <3>1. Joined(i)
      BY <1>4, <2>2 DEF BehindPayloads
    <3> QED
      BY <1>7, <2>2, <3>1
  <2>3. CASE i + 1 = x /\ x = m
    <3>0. i = x - 1 /\ x > 1
      BY <2>3
    <3>1. ~Slabbed(i)
      BY <1>4, <3>0 DEF Group
    <3>2. Loose(i) => cursor = payload[i] + OutBytes(T(i))
      BY <1>4, <2>3, <3>0 DEF BehindPayloads
    <3>3. Loose(i) => NextPayload(i)'
      BY <1>8, <2>3, <3>2
    <3> QED
      BY <1>3, <3>1, <3>3 DEF Joined
  <2> QED
    BY <1>2, <1>10, <2>1, <2>2, <2>3
<1>11. CASE item # last /\ item' = item + 1 /\ stage' = "payloads"
  <2>1. BehindPayloads(x, l, m + 1)'
    <3>1. \A i \in x..(l - 1) : i + 1 < m + 1 => NextPayload(i)'
      BY <1>9
    <3>2. \A i \in 1..(N' - 1) : i + 1 < x \/ (i + 1 = x /\ x < m + 1) => Joined(i)'
      BY <1>3, <1>10
    <3>3. m + 1 # x /\ m + 1 - 1 = m
      BY <1>2
    <3>4. cursor' = payload'[m] + OutBytes(T(m))'
      BY <1>3, <1>6
    <3> QED
      BY <3>1, <3>2, <3>3, <3>4 DEF BehindPayloads
  <2>2. index' = x /\ last' = l /\ item' = m + 1
    BY <1>1, <1>2, <1>11
  <2> QED
    BY <1>3, <1>4, <1>11, <2>1, <2>2 DEF Joints, LaidStages
<1>12. CASE item = last /\ item' = index /\ stage' = "scales"
  <2>1. m = l
    BY <1>2, <1>12
  <2>2. BehindScales(x, l, x)'
    <3>1. \A i \in x..(l - 1) : NextPayload(i)'
      BY <1>9, <2>1
    <3>2. \A i \in 1..(N' - 1) : i < x => Joined(i)'
      BY <1>3, <1>10
    <3>3. \A i \in x..(l - 1) : ~(i + 1 < x)
      OBVIOUS
    <3>4. cursor' = payload'[l] + OutBytes(T(l))'
      BY <1>3, <1>6, <2>1
    <3> QED
      BY <3>1, <3>2, <3>3, <3>4 DEF BehindScales
  <2>3. index' = x /\ last' = l /\ item' = x
    BY <1>1, <1>2, <1>12
  <2> QED
    BY <1>3, <1>4, <1>12, <2>2, <2>3 DEF Joints, LaidStages
<1> QED
  BY <1>1, <1>11, <1>12

LEMMA PlaceScaleJoints ==
  ASSUME LayoutInv, Joints, PlaceScale
  PROVE  Joints'
<1>0. PlanTyped /\ Bounds /\ N \in Nat
  BY DEF LayoutInv, PlanTyped
<1>1. /\ stage = "scales"
      /\ \/ ScaleBytes(T(item)) = 0 /\ UNCHANGED <<scale, cursor>>
         \/ /\ ScaleBytes(T(item)) # 0
            /\ scale' = [scale EXCEPT ![item] = AlignUp(cursor, PayloadAlign)]
            /\ cursor' = AlignUp(cursor, PayloadAlign) + ScaleBytes(T(item))
      /\ \/ item = last /\ index' = last + 1 /\ item' = 0 /\ stage' = "layout"
         \/ item # last /\ item' = item + 1 /\ index' = index /\ stage' = "scales"
      /\ UNCHANGED <<tensors, last, payload>>
  BY DEF PlaceScale, AfterGroup, plan
<1>2. PICK x \in 1..N, l \in 1..N, m \in 1..N : x = index /\ l = last /\ m = item /\ x <= m /\ m <= l
  BY <1>0, <1>1 DEF Bounds
<1>3. /\ N' = N
      /\ \A i : /\ OutBytes(T(i))' = OutBytes(T(i)) /\ ScaleBytes(T(i))' = ScaleBytes(T(i))
                /\ Quantized(T(i))' <=> Quantized(T(i))
                /\ Loose(i)' <=> Loose(i)
                /\ Slabbed(i)' <=> Slabbed(i)
      /\ Group(x, l)' <=> Group(x, l)
  BY <1>1, SameTensors
<1>4. Group(x, l) /\ BehindScales(x, l, m)
  BY <1>1, <1>2 DEF Joints
<1>5. \A i \in 1..N : i # m => scale'[i] = scale[i]
  BY <1>0, <1>1, <1>2 DEF Bounds
<1>6. ASSUME NEW i \in 1..(N - 1)
      PROVE  /\ NextPayload(i)' <=> NextPayload(i)
             /\ (i # m /\ i + 1 # m) \/ ~Slabbed(i) => (Joined(i)' <=> Joined(i))
  <2>1. i \in 1..N /\ i + 1 \in 1..N
    BY <1>0
  <2>2. i # m /\ i + 1 # m => scale'[i] = scale[i] /\ scale'[i + 1] = scale[i + 1]
    BY <1>5, <2>1
  <2> QED
    BY <1>1, <2>2, JoinedKept
<1>7. ASSUME NEW i \in 1..(N - 1), i < x
      PROVE  Joined(i)'
  <2>1. Joined(i)
    BY <1>4, <1>7 DEF BehindScales
  <2>2. CASE i + 1 = x
    <3>1. i = x - 1 /\ x > 1
      BY <2>2
    <3>2. ~Slabbed(i)
      BY <1>4, <3>1 DEF Group
    <3> QED
      BY <1>6, <2>1, <3>2
  <2>3. CASE i + 1 # x
    <3>1. i # m /\ i + 1 # m
      BY <1>2, <1>7, <2>3
    <3> QED
      BY <1>6, <2>1, <3>1
  <2> QED
    BY <2>2, <2>3
(* A group of several tensors is quantized.                                *)
<1>8. ScaleBytes(T(m)) = 0 => x = l /\ m = l /\ ~Quantized(T(m))
  <2>1. SUFFICES ASSUME ScaleBytes(T(m)) = 0
                 PROVE  x = l /\ m = l /\ ~Quantized(T(m))
    OBVIOUS
  <2>2. ~Quantized(T(m))
    BY <1>0, <2>1, Sizes DEF PlanTyped
  <2>3. CASE x < l
    <3>1. QuantizedExpert(T(x))
      <4>1. l \in (x + 1)..l
        BY <2>3
      <4> QED
        BY <1>4, <4>1 DEF Group
    <3>2. m = x \/ SameSlab(T(x), T(m))
      BY <1>2, <1>4 DEF Group
    <3> QED
      BY <2>2, <3>1, <3>2 DEF QuantizedExpert, SameSlab, Quantized
  <2> QED
    BY <1>2, <2>2, <2>3
<1>9. ASSUME ScaleBytes(T(m)) # 0
      PROVE  /\ scale'[m] = AlignUp(cursor, PayloadAlign)
             /\ cursor' = scale'[m] + ScaleBytes(T(m))
             /\ Quantized(T(m))
  <2>1. scale' = [scale EXCEPT ![m] = AlignUp(cursor, PayloadAlign)]
        /\ cursor' = AlignUp(cursor, PayloadAlign) + ScaleBytes(T(m))
    BY <1>1, <1>2, <1>9
  <2>2. scale'[m] = AlignUp(cursor, PayloadAlign)
    BY <1>0, <2>1 DEF Bounds
  <2>3. Quantized(T(m))
    BY <1>0, <1>9, Sizes DEF PlanTyped
  <2> QED
    BY <2>1, <2>2, <2>3
<1>10. ASSUME NEW i \in x..(l - 1), i + 1 <= m
       PROVE  NextScale(i)'
  <2>0. i \in 1..N /\ i + 1 \in 1..N /\ i # m
    BY <1>0, <1>10
  <2>1. ScaleBytes(T(m)) # 0
    BY <1>8, <1>10
  <2>2. scale'[i] = scale[i]
    BY <1>5, <2>0
  <2>3. CASE i + 1 < m
    <3>1. NextScale(i)
      BY <1>4, <2>3 DEF BehindScales
    <3>2. scale'[i + 1] = scale[i + 1]
      BY <1>5, <2>0, <2>3
    <3> QED
      BY <1>3, <2>2, <3>1, <3>2 DEF NextScale, AlignUp
  <2>4. CASE i + 1 = m
    <3>1. m > x /\ m - 1 = i
      BY <2>4
    <3>2. cursor = scale[i] + ScaleBytes(T(i))
      BY <1>4, <3>1 DEF BehindScales
    <3>3. scale'[m] = AlignUp(cursor, PayloadAlign)
      BY <1>9, <2>1
    <3>4. scale'[i + 1] = AlignUp(scale'[i] + ScaleBytes(T(i)), PayloadAlign)
      BY <2>2, <2>4, <3>2, <3>3
    <3> QED
      BY <1>3, <3>4 DEF NextScale, AlignUp
  <2> QED
    BY <1>10, <2>3, <2>4
<1>11. CASE item # last /\ item' = item + 1 /\ index' = index /\ stage' = "scales"
  <2>0. m # l
    BY <1>2, <1>11
  <2>1. ScaleBytes(T(m)) # 0
    BY <1>8, <2>0
  <2>2. BehindScales(x, l, m + 1)'
    <3>1. \A i \in x..(l - 1) : NextPayload(i)'
      <4>1. \A i \in x..(l - 1) : NextPayload(i) /\ i \in 1..(N - 1)
        BY <1>0, <1>4 DEF BehindScales
      <4> QED
        BY <1>6, <4>1
    <3>2. \A i \in 1..(N' - 1) : i < x => Joined(i)'
      BY <1>3, <1>7
    <3>3. \A i \in x..(l - 1) : i + 1 < m + 1 => NextScale(i)'
      BY <1>10
    <3>4. m + 1 # x /\ m + 1 - 1 = m
      BY <1>2
    <3>5. cursor' = scale'[m] + ScaleBytes(T(m))'
      BY <1>3, <1>9, <2>1
    <3> QED
      BY <3>1, <3>2, <3>3, <3>4, <3>5 DEF BehindScales
  <2>3. index' = x /\ last' = l /\ item' = m + 1
    BY <1>1, <1>2, <1>11
  <2> QED
    BY <1>3, <1>4, <1>11, <2>2, <2>3 DEF Joints, LaidStages
<1>12. CASE item = last /\ index' = last + 1 /\ item' = 0 /\ stage' = "layout"
  <2>0. m = l
    BY <1>2, <1>12
  <2>1. ASSUME NEW i \in 1..(N - 1), i + 1 < l + 1
        PROVE  Joined(i)'
    <3>1. CASE i < x
      BY <1>7, <3>1
    <3>2. CASE ~(i < x)
      <4>1. i \in x..(l - 1) /\ i + 1 <= m
        BY <2>0, <2>1, <3>2
      <4>2. NextPayload(i)'
        <5>1. NextPayload(i)
          BY <1>4, <4>1 DEF BehindScales
        <5> QED
          BY <1>6, <5>1
      <4>3. NextScale(i)'
        BY <1>10, <4>1
      <4> QED
        BY <4>2, <4>3 DEF Joined
    <3> QED
      BY <3>1, <3>2
  <2>2. ~Quantized(T(l)) => cursor' = payload[l] + OutBytes(T(l))
    <3>1. SUFFICES ASSUME ~Quantized(T(l))
                   PROVE  cursor' = payload[l] + OutBytes(T(l))
      OBVIOUS
    <3>2. ScaleBytes(T(m)) = 0
      BY <1>9, <2>0, <3>1
    <3>3. cursor' = cursor /\ m = x
      BY <1>1, <1>2, <1>8, <3>2
    <3> QED
      BY <1>4, <3>3 DEF BehindScales
  <2>3. l + 1 <= N => ~Slabbed(l)
    BY <1>0, <1>4 DEF Group
  <2>4. BehindTensors(l + 1)'
    <3>1. l + 1 - 1 = l /\ payload' = payload
      BY <1>1
    <3> QED
      BY <1>3, <2>1, <2>2, <2>3, <3>1 DEF BehindTensors
  <2>5. index' = l + 1
    BY <1>2, <1>12
  <2> QED
    BY <1>12, <2>4, <2>5 DEF Joints, LaidStages
<1> QED
  BY <1>1, <1>11, <1>12

(* Once the layout is done nothing moves.                                  *)
LEMMA JointsKept ==
  ASSUME LayoutInv, Joints, UNCHANGED <<tensors, index, last, item, cursor, payload, scale>>,
         stage' \in LaidStages \cup {"refused"} =>
           stage \in LaidStages \cup {"refused"} \/ (stage = "layout" /\ index > N),
         stage' \notin {"layout", "payloads", "scales"}
  PROVE  Joints'
<1>1. \A i : Joined(i)' <=> Joined(i)
  BY JoinedKept
<1>2. N' = N /\ index \in 1..(N + 1) /\ N \in Nat
  BY DEF N, LayoutInv, Bounds, PlanTyped
<1>3. stage' \in LaidStages \cup {"refused"} => \A i \in 1..(N - 1) : Joined(i)
  <2>1. CASE stage \in LaidStages \cup {"refused"}
    BY <2>1 DEF Joints
  <2>2. CASE stage = "layout" /\ index > N
    <3>1. \A i \in 1..(N - 1) : i + 1 < index
      BY <1>2, <2>2
    <3> QED
      BY <2>2, <3>1 DEF Joints, BehindTensors
  <2> QED
    BY <2>1, <2>2
<1> QED
  BY <1>1, <1>2, <1>3 DEF Joints

(* A layout goes on exactly if it was accepted.                            *)
Judged == /\ mode # "single" /\ stage \in LaidStages => LayoutAccepted
          /\ stage = "refused" => ~LayoutAccepted
PlacedInv == ConversionInv /\ Joints /\ Judged

LEMMA AcceptedKept ==
  ASSUME UNCHANGED <<tensors, mode, payload, scale>>
  PROVE  LayoutAccepted' <=> LayoutAccepted
<1>1. /\ N' = N
      /\ \A i : /\ T(i)' = T(i)
                /\ OutBytes(T(i))' = OutBytes(T(i)) /\ ScaleBytes(T(i))' = ScaleBytes(T(i))
                /\ Quantized(T(i))' <=> Quantized(T(i))
  BY SameTensors DEF T
<1>2. ASSUME NEW layer, NEW n
      PROVE  /\ ExpertTensor(layer, n)' = ExpertTensor(layer, n)
             /\ Slot(layer, n)' = Slot(layer, n)
  <2>1. ExpertTensor(layer, n)' = ExpertTensor(layer, n)
    BY <1>1 DEF ExpertTensor
  <2> QED
    BY <1>1, <2>1 DEF Slot
<1>3. ASSUME NEW layer
      PROVE  Complete(layer)' <=> Complete(layer)
  BY <1>2 DEF Complete
<1>4. ASSUME NEW layer
      PROVE  Contiguous(layer)' <=> Contiguous(layer)
  <2>1. ASSUME NEW n
        PROVE  /\ T(Slot(layer, n))' = T(Slot(layer, n))
               /\ Omitted(T(Slot(layer, n)))' <=> Omitted(T(Slot(layer, n)))
               /\ OutBytes(T(Slot(layer, n)))' = OutBytes(T(Slot(layer, n)))
               /\ ScaleBytes(T(Slot(layer, n)))' = ScaleBytes(T(Slot(layer, n)))
               /\ Quantized(T(Slot(layer, n)))' <=> Quantized(T(Slot(layer, n)))
    <3>1. PICK i : i = Slot(layer, n)
      OBVIOUS
    <3>2. Slot(layer, n)' = i
      BY <1>2, <3>1
    <3> QED
      BY <1>1, <3>1, <3>2 DEF Omitted
  <2> QED
    BY <1>2, <2>1 DEF Contiguous, Follows
<1> QED
  BY <1>3, <1>4 DEF LayoutAccepted

LEMMA LayOutJoints ==
  ASSUME NEW p, NEW m, LayOut(p, m)
  PROVE  Joints' /\ Judged'
<1>1. stage' = "layout" /\ index' = 1
  BY DEF LayOut
<1>2. BehindTensors(1)'
  BY DEF BehindTensors
<1> QED
  BY <1>1, <1>2 DEF Joints, Judged, LaidStages

(* A step that leaves the layout alone.                                    *)
LEMMA StillPlaced ==
  ASSUME LayoutInv, Joints, Judged, UNCHANGED <<tensors, mode, layoutVars>>,
         \/ stage' = stage
         \/ stage \in LaidStages /\ stage' \in LaidStages
         \/ stage \notin {"layout", "payloads", "scales"}
            /\ stage' \notin LaidStages \cup {"refused", "layout", "payloads", "scales"}
  PROVE  Joints' /\ Judged'
<1>0. UNCHANGED <<tensors, mode, index, last, item, cursor, payload, scale>>
  BY DEF layoutVars
<1>1. LayoutAccepted' <=> LayoutAccepted
  BY <1>0, AcceptedKept
<1>2. Judged'
  BY <1>0, <1>1 DEF Judged, LaidStages
<1>3. CASE stage' \notin {"layout", "payloads", "scales"}
  <2>1. stage' \in LaidStages \cup {"refused"} => stage \in LaidStages \cup {"refused"}
    BY <1>3 DEF LaidStages
  <2> QED
    BY <1>0, <1>2, <1>3, <2>1, JointsKept
<1>4. CASE stage' = stage /\ stage \in {"layout", "payloads", "scales"}
  <2>1. stage \notin LaidStages \cup {"refused"}
    BY <1>4 DEF LaidStages
  <2>2. PICK x, l, m : x = index /\ l = last /\ m = item
    OBVIOUS
  <2>3. /\ N' = N
        /\ \A i : /\ OutBytes(T(i))' = OutBytes(T(i)) /\ ScaleBytes(T(i))' = ScaleBytes(T(i))
                  /\ Quantized(T(i))' <=> Quantized(T(i))
                  /\ Loose(i)' <=> Loose(i)
                  /\ Slabbed(i)' <=> Slabbed(i)
        /\ Group(x, l)' <=> Group(x, l)
    BY <1>0, SameTensors
  <2>4. \A i : (NextPayload(i)' <=> NextPayload(i)) /\ (Joined(i)' <=> Joined(i))
    BY <1>0, JoinedKept
  <2>5. \A i : NextScale(i)' <=> NextScale(i)
    BY <1>0, <2>3 DEF NextScale, AlignUp
  <2>6. BehindTensors(x)' <=> BehindTensors(x)
    BY <1>0, <2>3, <2>4 DEF BehindTensors
  <2>7. BehindPayloads(x, l, m)' <=> BehindPayloads(x, l, m)
    BY <1>0, <2>3, <2>4 DEF BehindPayloads
  <2>8. BehindScales(x, l, m)' <=> BehindScales(x, l, m)
    BY <1>0, <2>3, <2>4, <2>5 DEF BehindScales
  <2>9. index' = x /\ last' = l /\ item' = m
    BY <1>0, <2>2
  <2> QED
    BY <1>2, <1>4, <2>1, <2>2, <2>3, <2>6, <2>7, <2>8, <2>9 DEF Joints
<1> QED
  BY <1>3, <1>4 DEF LaidStages

LEMMA ValidateJoints ==
  ASSUME LayoutInv, Joints, Validate
  PROVE  Joints' /\ Judged'
<1>1. /\ stage = "layout" /\ index > N
      /\ stage' = IF LayoutAccepted THEN "laid" ELSE "refused"
      /\ UNCHANGED <<tensors, mode, index, last, item, cursor, payload, scale>>
  BY DEF Validate, plan, layoutVars
<1>2. Joints'
  BY <1>1, JointsKept
<1>3. LayoutAccepted' <=> LayoutAccepted
  BY <1>1, AcceptedKept
<1> QED
  BY <1>1, <1>2, <1>3 DEF Judged, LaidStages

LEMMA LayoutJoints ==
  ASSUME LayoutInv, Joints, LayoutNext
  PROVE  Joints' /\ Judged'
<1>1. CASE Validate
  BY <1>1, ValidateJoints
<1>2. CASE SkipEmpty \/ StartGroup \/ PlacePayload \/ PlaceScale
  <2>1. Joints'
    BY <1>2, SkipEmptyJoints, StartGroupJoints, PlacePayloadJoints, PlaceScaleJoints
  <2>2. stage' \in {"layout", "payloads", "scales"}
    BY <1>2 DEF SkipEmpty, StartGroup, PlacePayload, PlaceScale
  <2> QED
    BY <2>1, <2>2 DEF Judged, LaidStages
<1> QED
  BY <1>1, <1>2 DEF LayoutNext

LEMMA PlacedStep ==
  ASSUME PlacedInv, [CompareNext]_allVars
  PROVE  PlacedInv'
<1>0. /\ ConversionInv' /\ LayoutInv /\ Joints /\ Judged /\ FromPlan
      /\ phase \in {"contract", "headers", "check", "metadata"} => stage = "source"
  BY Inductive DEF PlacedInv, ConversionInv, FileInv, SourceInv, Checked
<1>1. CASE UNCHANGED vars
  <2>1. UNCHANGED <<tensors, mode, layoutVars, stage>>
    BY <1>1 DEF vars, plan
  <2> QED
    BY <1>0, <2>1, StillPlaced DEF PlacedInv
<1>2. CASE ReadMetadata
  <2>1. CASE UNCHANGED vars
    BY <1>1, <2>1
  <2>2. ASSUME NEW m, LayOut(PlanOf(Names), m)
        PROVE  PlacedInv'
    BY <1>0, <2>2, LayOutJoints DEF PlacedInv
  <2>3. CASE MetadataAcceptable
    <3>1. PICK m : LayOut(PlanOf(Names), m)
      BY <1>2, <2>3, Zenon DEF ReadMetadata
    <3> QED
      BY <2>2, <3>1
  <2>4. CASE ~MetadataAcceptable
    BY <1>1, <1>2, <2>4 DEF ReadMetadata
  <2> QED
    BY <2>3, <2>4
<1>3. CASE SelectTensor
  <2>1. \/ UNCHANGED vars
        \/ \E i \in Selected : LayOut(<<T(i)>>, "single")
    BY <1>3 DEF SelectTensor
  <2>2. ASSUME NEW i \in Selected, LayOut(<<T(i)>>, "single")
        PROVE  PlacedInv'
    BY <1>0, <2>2, LayOutJoints DEF PlacedInv
  <2> QED
    BY <1>1, <2>1, <2>2
<1>4. CASE ResolvePayloads
  BY <1>1, <1>4 DEF ResolvePayloads
<1>5. CASE LayoutNext
  BY <1>0, <1>5, LayoutJoints DEF PlacedInv
<1>6. CASE WriteNext
  <2>1. /\ UNCHANGED <<tensors, mode, layoutVars>>
        /\ stage \in {"metadata", "write"}
        /\ stage' \in {"write", "done", "failed", "miscounted"}
    BY <1>6 DEF WriteNext, WriteQuietly, WriteMetadata, WriteRows, NextTensor, Truncate, FailWriting, Streaming, plan
  <2> QED
    BY <1>0, <2>1, StillPlaced DEF PlacedInv, LaidStages
<1>7. CASE Damage
  <2>1. UNCHANGED <<tensors, mode, layoutVars>> /\ stage = "done" /\ stage' = "damaged"
    BY <1>7 DEF Damage, plan
  <2> QED
    BY <1>0, <2>1, StillPlaced DEF PlacedInv, LaidStages
<1>8. CASE CheckShard \/ ReplaceShard
  BY <1>1, <1>8 DEF CheckShard, ReplaceShard
<1>9. CASE OpenShard
  <2>1. stage = "laid"
    BY <1>9 DEF PlacedInv, ConversionInv, Reading, OpenShard
  <2>2. UNCHANGED <<tensors, mode, layoutVars>> /\ stage' \in {"laid", "metadata"}
    BY <1>9, <2>1 DEF OpenShard, plan
  <2> QED
    BY <1>0, <2>1, <2>2, StillPlaced DEF PlacedInv, LaidStages
<1>10. CASE Source
  BY <1>1, <1>10 DEF Source
<1>11. CASE StartCompare \/ CompareRows \/ FailCompare \/ EndCompare \/ UNCHANGED allVars
  BY <1>1, <1>11 DEF StartCompare, CompareRows, FailCompare, EndCompare, allVars, conversionVars
<1> QED
  BY <1>2, <1>3, <1>4, <1>5, <1>6, <1>7, <1>8, <1>9, <1>10, <1>11
     DEF CompareNext, Convert, Next, Layout, Write, WriteNext

(* The experts of a layer follow one another in the directory.             *)
LEMMA ExpertsInRow ==
  ASSUME FromPlan, stage # "source", N \in Nat, NEW layer \in MoeLayers, Complete(layer)
  PROVE  /\ \A n \in Slots : n \in Nat /\ Slot(layer, n) \in 1..N
         /\ \A n \in Slots : n > 0 => Slot(layer, n) = Slot(layer, n - 1) + 1
<1>0. Slots \subseteq Nat /\ \A n \in Slots : n > 0 => n - 1 \in Slots
  BY FileConstants DEF Slots
<1>1. ASSUME NEW n \in Slots
      PROVE  Slot(layer, n) \in 1..N /\ T(Slot(layer, n)).id = LayerId(ExpertName(layer, n))
  <2>1. ExpertTensor(layer, n) # {}
    BY DEF Complete
  <2>2. ExpertTensor(layer, n) \subseteq 1..N
    BY DEF ExpertTensor
  <2>3. Slot(layer, n) \in ExpertTensor(layer, n)
    <3>1. \E i \in 1..N : i \in ExpertTensor(layer, n)
      BY <2>1, <2>2
    <3> QED
      BY <3>1 DEF Slot
  <2> QED
    BY <2>2, <2>3 DEF ExpertTensor
<1>2. ASSUME NEW i \in 1..N
      PROVE  T(i).id \in Int
  <2>1. PICK m \in Names : T(i) = Planned(m)
    BY DEF FromPlan
  <2>2. IdOf(m, Names) \in Int
    BY DEF FromPlan, Plannable, Ordered
  <2> QED
    BY <2>1, <2>2 DEF Planned
<1>3. ASSUME NEW n \in Slots, n > 0
      PROVE  Slot(layer, n) = Slot(layer, n - 1) + 1
  <2> DEFINE i == Slot(layer, n)
             j == Slot(layer, n - 1)
             b == LayerBase + LayerStride * layer + 100
  <2>1. i \in 1..N /\ j \in 1..N
    BY <1>0, <1>1, <1>3
  <2>2. T(i).id = b + n /\ T(j).id = b + (n - 1) /\ b \in Int /\ n \in Nat
    <3>1. layer \in Nat /\ n \in Nat /\ n - 1 \in Nat /\ n - 1 \in Slots
      BY <1>0, <1>3, FileConstants
    <3>2. LayerId(ExpertName(layer, n)) = b + n /\ LayerId(ExpertName(layer, n - 1)) = b + (n - 1)
      BY <3>1, ExpertIdsConsecutive
    <3>3. b \in Int
      BY <3>1 DEF LayerBase, LayerStride
    <3> QED
      BY <1>1, <3>1, <3>2, <3>3
  <2>3. \A k, l \in 1..N : k < l => T(k).id < T(l).id
    BY DEF FromPlan
  <2> HIDE DEF i, j, b
  <2>4. i # j /\ ~(i < j)
    <3>1. T(j).id < T(i).id
      BY <2>2
    <3>2. i < j => T(i).id < T(j).id
      BY <2>1, <2>3
    <3> QED
      BY <2>2, <3>1, <3>2
  <2>5. ASSUME j + 1 < i
        PROVE  FALSE
    <3>1. j + 1 \in 1..N
      BY <2>1, <2>5
    <3>2. T(j).id < T(j + 1).id /\ T(j + 1).id < T(i).id /\ T(j + 1).id \in Int
      BY <1>2, <2>1, <2>3, <2>5, <3>1
    <3> QED
      BY <2>2, <3>2
  <2>6. i = j + 1
    BY <2>1, <2>4, <2>5
  <2> QED
    BY <2>6 DEF i, j
<1> QED
  BY <1>0, <1>1, <1>3

LEMMA AlignedSum ==
  ASSUME NEW a \in Nat, NEW b \in Nat, NEW g \in Nat \ {0}, a % g = 0, b % g = 0
  PROVE  AlignUp(a + b, g) = a + b
<1>1. a = g * (a \div g) /\ b = g * (b \div g) /\ a \div g \in Nat /\ b \div g \in Nat
  OBVIOUS
<1>2. a + b = g * ((a \div g) + (b \div g))
  BY <1>1
<1>3. (a + b) % g = 0
  <2>1. PICK k \in Nat : k = (a \div g) + (b \div g)
    BY <1>1
  <2>2. (g * k) % g = 0
    OBVIOUS
  <2> QED
    BY <1>2, <2>1, <2>2
<1> QED
  BY <1>3 DEF AlignUp

(* What a projection of an expert is planned as.                           *)
LEMMA ExpertPlanned ==
  ASSUME FromPlan, stage # "source", NEW i \in 1..N, NEW layer, NEW n \in Nat, T(i).name = ExpertName(layer, n)
  PROVE  /\ T(i).family = "MOE_EXPERT" /\ T(i).layer = layer
         /\ T(i).usage = "runtime"
         /\ T(i).rows = T(i).entry.shape[1] /\ T(i).cols = Columns(T(i).entry.shape)
         /\ T(i).qtype = PlannedQtype(ExpertName(layer, n), T(i).entry.shape, opts.profile, opts.cfg)
<1>1. PICK m \in Names : T(i) = Planned(m)
  BY DEF FromPlan
<1>2. m = ExpertName(layer, n)
  BY <1>1 DEF Planned
<1>3. m.kind = "expert" /\ m.layer = layer /\ m.part \in {"gate", "up", "down"}
  <2>1. n % 3 \in 0..2
    OBVIOUS
  <2>2. Projections[(n % 3) + 1] \in {"gate", "up", "down"}
    BY <2>1 DEF Projections
  <2> QED
    BY <1>2, <2>2 DEF ExpertName
<1>4. Family(m) = "MOE_EXPERT" /\ Usage(m) = "runtime"
  <2>1. Family(m) = "MOE_EXPERT"
    BY <1>3 DEF Family
  <2>2. Usage(m) = "runtime"
    BY <1>3 DEF Usage
  <2> QED
    BY <2>1, <2>2
<1> QED
  BY <1>1, <1>2, <1>3, <1>4 DEF Planned, Qtype

(* Experts of a regular layer follow one another without a gap.            *)
LEMMA RegularFollows ==
  ASSUME LayoutInv, FromPlan, Joints, stage = "refused", Regular, NEW layer \in MoeLayers,
         NEW n \in Slots, n > 0
  PROVE  /\ Follows(Slot(layer, n), Slot(layer, n - 1))
         /\ Quantized(T(Slot(layer, n))) =>
              /\ Quantized(T(Slot(layer, n - 1)))
              /\ scale[Slot(layer, n)] = scale[Slot(layer, n - 1)] + ScaleBytes(T(Slot(layer, n - 1)))
<1>0. PlanTyped /\ Bounds /\ Slabs /\ N \in Nat
  BY DEF LayoutInv, PlanTyped
<1>1. Complete(layer) /\ n - 1 \in Slots /\ n \in Nat /\ n - 1 \in Nat
  BY FileConstants DEF Regular, Slots
<1>2. PICK i \in 1..N : i = Slot(layer, n - 1) /\ i + 1 = Slot(layer, n) /\ i + 1 \in 1..N
  <2>1. /\ Slot(layer, n - 1) \in 1..N /\ Slot(layer, n) \in 1..N
        /\ Slot(layer, n) = Slot(layer, n - 1) + 1
    BY <1>0, <1>1, ExpertsInRow
  <2> QED
    BY <2>1
<1>3. /\ T(i).name = ExpertName(layer, n - 1) /\ T(i + 1).name = ExpertName(layer, n)
      /\ T(i).qtype = T(i + 1).qtype /\ OutBytes(T(i)) > 0 /\ OutBytes(T(i + 1)) > 0
      /\ OutBytes(T(i)) % PayloadAlign = 0 /\ ScaleBytes(T(i)) % PayloadAlign = 0
  <2>1. \A m \in Slots : LET t == T(Slot(layer, m)) IN
           /\ t.name = ExpertName(layer, m)
           /\ t.qtype = T(Slot(layer, 0)).qtype /\ OutBytes(t) > 0
           /\ OutBytes(t) % PayloadAlign = 0 /\ ScaleBytes(t) % PayloadAlign = 0
    BY DEF Regular
  <2>2. /\ T(i).name = ExpertName(layer, n - 1)
        /\ T(i).qtype = T(Slot(layer, 0)).qtype /\ OutBytes(T(i)) > 0
        /\ OutBytes(T(i)) % PayloadAlign = 0 /\ ScaleBytes(T(i)) % PayloadAlign = 0
    BY <1>1, <1>2, <2>1
  <2>3. /\ T(i + 1).name = ExpertName(layer, n)
        /\ T(i + 1).qtype = T(Slot(layer, 0)).qtype /\ OutBytes(T(i + 1)) > 0
    BY <1>2, <2>1
  <2> QED
    BY <2>2, <2>3
<1>4. /\ T(i).family = "MOE_EXPERT" /\ T(i).layer = layer
      /\ T(i + 1).family = "MOE_EXPERT" /\ T(i + 1).layer = layer
  BY <1>1, <1>2, <1>3, ExpertPlanned
<1>5. Joined(i)
  <2>1. i \in 1..(N - 1)
    BY <1>0, <1>2
  <2> QED
    BY <2>1 DEF Joints
<1>6. /\ payload[i] \in Nat /\ scale[i] \in Nat /\ payload[i] % PayloadAlign = 0 /\ scale[i] % PayloadAlign = 0
      /\ OutBytes(T(i)) \in Nat /\ ScaleBytes(T(i)) \in Nat /\ PayloadAlign \in Nat \ {0}
  <2>1. Place(i, "weight") % PayloadAlign = 0 /\ Place(i, "scale") % PayloadAlign = 0
    BY <1>0 DEF Slabs, Parts
  <2>2. OutBytes(T(i)) \in Nat /\ ScaleBytes(T(i)) \in Nat
    BY <1>0, Sizes DEF PlanTyped
  <2>3. payload[i] \in Nat /\ scale[i] \in Nat
    BY <1>0 DEF Bounds
  <2> QED
    BY <2>1, <2>2, <2>3, FileConstants DEF Place
<1>7. Quantized(T(i)) <=> Quantized(T(i + 1))
  BY <1>3 DEF Quantized
<1>8. Quantized(T(i)) => NextPayload(i) /\ NextScale(i)
  <2>1. Quantized(T(i)) => Slabbed(i)
    BY <1>3, <1>4 DEF Slabbed, QuantizedExpert, SameSlab
  <2> QED
    BY <1>5, <2>1 DEF Joined
<1>9. ~Quantized(T(i)) => NextPayload(i)
  BY <1>3, <1>5 DEF Joined, Loose
<1>10. payload[i + 1] = payload[i] + OutBytes(T(i))
  <2>1. payload[i + 1] = AlignUp(payload[i] + OutBytes(T(i)), PayloadAlign)
    BY <1>8, <1>9 DEF NextPayload
  <2> QED
    BY <1>3, <1>6, <2>1, AlignedSum
<1>11. Quantized(T(i)) => scale[i + 1] = scale[i] + ScaleBytes(T(i))
  <2>1. Quantized(T(i)) => scale[i + 1] = AlignUp(scale[i] + ScaleBytes(T(i)), PayloadAlign)
    BY <1>8 DEF NextScale
  <2>2. AlignUp(scale[i] + ScaleBytes(T(i)), PayloadAlign) = scale[i] + ScaleBytes(T(i))
    BY <1>3, <1>6, AlignedSum
  <2> QED
    BY <2>1, <2>2
<1> QED
  BY <1>2, <1>7, <1>10, <1>11 DEF Follows

LEMMA RegularAccepted ==
  ASSUME LayoutInv, FromPlan, Joints, stage = "refused", Regular
  PROVE  LayoutAccepted
<1>0. PlanTyped /\ N \in Nat
  BY DEF LayoutInv, PlanTyped
<1>1. SUFFICES ASSUME NEW layer \in MoeLayers
               PROVE  Complete(layer) /\ Contiguous(layer)
  BY DEF LayoutAccepted
<1>2. Complete(layer)
  BY DEF Regular
<1>3. \A m \in Slots : m \in Nat /\ Slot(layer, m) \in 1..N
  BY <1>0, <1>2, ExpertsInRow
<1>4. ASSUME NEW n \in Slots
      PROVE  /\ T(Slot(layer, n)).name = ExpertName(layer, n)
             /\ ~Omitted(T(Slot(layer, n))) /\ OutBytes(T(Slot(layer, n))) > 0
             /\ Quantized(T(Slot(layer, n))) => ScaleBytes(T(Slot(layer, n))) > 0
             /\ n > 0 => Follows(Slot(layer, n), Slot(layer, n - 1))
  <2>1. PICK i \in 1..N : i = Slot(layer, n)
    BY <1>3
  <2>2. T(i).name = ExpertName(layer, n) /\ OutBytes(T(i)) > 0
    BY <2>1 DEF Regular
  <2>3. ~Omitted(T(i))
    BY <2>2 DEF OutBytes
  <2>4. Quantized(T(i)) => ScaleBytes(T(i)) > 0
    BY <1>0, Sizes DEF PlanTyped
  <2> QED
    BY <2>1, <2>2, <2>3, <2>4, RegularFollows
<1>5. ASSUME NEW n \in Slots, Quantized(T(Slot(layer, n))),
             NEW earlier, earlier = {m \in 0..(n - 1) : Quantized(T(Slot(layer, m)))}, earlier # {}
      PROVE  scale[Slot(layer, n)] = scale[Slot(layer, CHOOSE m \in earlier : \A l \in earlier : l <= m)]
                                     + ScaleBytes(T(Slot(layer, CHOOSE m \in earlier : \A l \in earlier : l <= m)))
  <2>0. n > 0 /\ n \in Nat
    BY <1>3, <1>5
  <2>1. /\ Quantized(T(Slot(layer, n - 1)))
        /\ scale[Slot(layer, n)] = scale[Slot(layer, n - 1)] + ScaleBytes(T(Slot(layer, n - 1)))
    BY <1>5, <2>0, RegularFollows
  <2>2. n - 1 \in earlier /\ \A l \in earlier : l \in 0..(n - 1)
    BY <1>5, <2>0, <2>1
  <2>3. (CHOOSE m \in earlier : \A l \in earlier : l <= m) = n - 1
    <3> DEFINE c == CHOOSE m \in earlier : \A l \in earlier : l <= m
    <3>1. \E m \in earlier : \A l \in earlier : l <= m
      BY <2>0, <2>2
    <3>2. c \in earlier /\ \A l \in earlier : l <= c
      BY <3>1
    <3> HIDE DEF c
    <3>3. c = n - 1
      BY <2>0, <2>2, <3>2
    <3> QED
      BY <3>3 DEF c
  <2> QED
    BY <2>1, <2>3
<1>6. Contiguous(layer)
  BY <1>4, <1>5 DEF Contiguous
<1> QED
  BY <1>2, <1>6

(* The n-th slab of a row of slabs of three sizes that take turns.         *)
Turn(a, b, c, n) == IF n % 3 = 0 THEN a ELSE IF n % 3 = 1 THEN b ELSE c
Before(a, b, c, n) == (n \div 3) * (a + b + c) + (IF n % 3 > 0 THEN a ELSE 0) + (IF n % 3 > 1 THEN b ELSE 0)
LEMMA NextTurn ==
  ASSUME NEW a \in Nat, NEW b \in Nat, NEW c \in Nat, NEW n \in Nat
  PROVE  /\ Before(a, b, c, 0) = 0 /\ Before(a, b, c, n) \in Nat
         /\ Before(a, b, c, n + 1) = Before(a, b, c, n) + Turn(a, b, c, n)
<1> DEFINE q == n \div 3
           s == a + b + c
<1>1. q \in Nat /\ n % 3 \in 0..2 /\ n = 3 * q + (n % 3) /\ s \in Nat
  OBVIOUS
<1>2. q * s \in Nat /\ (q + 1) * s = q * s + s
  BY <1>1
<1>3. Before(a, b, c, 0) = 0
  BY DEF Before
<1> HIDE DEF q
<1>4. CASE n % 3 = 2
  <2>1. (n + 1) \div 3 = q + 1 /\ (n + 1) % 3 = 0
    BY <1>1, <1>4
  <2>2. Before(a, b, c, n) = q * s + a + b /\ Before(a, b, c, n + 1) = (q + 1) * s
    BY <1>1, <1>4, <2>1 DEF Before, q
  <2>3. Turn(a, b, c, n) = c
    BY <1>4 DEF Turn
  <2> QED
    BY <1>1, <1>2, <1>3, <2>2, <2>3
<1>5. CASE n % 3 # 2
  <2>1. (n + 1) \div 3 = q /\ (n + 1) % 3 = (n % 3) + 1
    BY <1>1, <1>5
  <2>2. CASE n % 3 = 0
    <3>1. Before(a, b, c, n) = q * s /\ Before(a, b, c, n + 1) = q * s + a /\ Turn(a, b, c, n) = a
      BY <1>2, <2>1, <2>2 DEF Before, Turn, q
    <3> QED
      BY <1>2, <1>3, <3>1
  <2>3. CASE n % 3 = 1
    <3>1. Before(a, b, c, n) = q * s + a /\ Before(a, b, c, n + 1) = q * s + a + b /\ Turn(a, b, c, n) = b
      BY <1>2, <2>1, <2>3 DEF Before, Turn, q
    <3> QED
      BY <1>2, <1>3, <3>1
  <2> QED
    BY <1>1, <1>5, <2>2, <2>3
<1> QED
  BY <1>4, <1>5

(* Slabs that follow one another without a gap.                            *)
IsRow(at, k, a, b, c) == \A n \in 0..k : n > 0 => at[n] = at[n - 1] + Turn(a, b, c, n - 1)
LEMMA Row3 ==
  ASSUME NEW k \in Nat, NEW a \in Nat, NEW b \in Nat, NEW c \in Nat, NEW at, at[0] \in Nat,
         IsRow(at, k, a, b, c)
  PROVE  \A n \in 0..k : at[n] = at[0] + Before(a, b, c, n)
<1>0. PICK base \in Nat : at[0] = base
  OBVIOUS
<1>10. ASSUME NEW j \in Nat
       PROVE  /\ Before(a, b, c, 0) = 0 /\ Before(a, b, c, j) \in Nat
              /\ Before(a, b, c, j + 1) = Before(a, b, c, j) + Turn(a, b, c, j)
  <2>1. Before(a, b, c, 0) = 0
    BY NextTurn
  <2>2. Before(a, b, c, j) \in Nat
    BY NextTurn
  <2>3. Before(a, b, c, j + 1) = Before(a, b, c, j) + Turn(a, b, c, j)
    BY NextTurn
  <2> QED
    BY <2>1, <2>2, <2>3
<1> DEFINE Bad == {n \in 0..k : at[n] # base + Before(a, b, c, n)}
<1>1. SUFFICES ASSUME Bad # {}
               PROVE  FALSE
  BY <1>0
<1>2. PICK n \in Bad : \A m \in Bad : n <= m
  <2>1. Bad \in SUBSET Nat
    OBVIOUS
  <2> HIDE DEF Bad
  <2> QED
    BY <1>1, <2>1, LeastNat
<1>3. n \in 0..k /\ at[n] # base + Before(a, b, c, n) /\ at[0] = base
  BY <1>0 DEF Bad
<1>4. n > 0
  <2>1. Before(a, b, c, 0) = 0
    BY <1>10
  <2>2. n # 0
    BY <1>3, <2>1
  <2> QED
    BY <1>3, <2>2
<1>5. at[n - 1] = base + Before(a, b, c, n - 1)
  <2>1. n - 1 \in 0..k /\ n - 1 \notin Bad
    <3> HIDE DEF Bad
    <3> QED
      BY <1>2, <1>3, <1>4
  <2> QED
    BY <2>1 DEF Bad
<1>6. PICK m \in Nat : m = n - 1 /\ m + 1 = n
  BY <1>3, <1>4
<1>7. Before(a, b, c, m + 1) = Before(a, b, c, m) + Turn(a, b, c, m) /\ Before(a, b, c, m) \in Nat
  BY <1>6, <1>10
<1>8. Turn(a, b, c, m) \in Nat
  BY DEF Turn
<1>9. at[n] = base + Before(a, b, c, m) + Turn(a, b, c, m)
  <2>1. at[n] = at[n - 1] + Turn(a, b, c, n - 1)
    BY <1>3, <1>4 DEF IsRow
  <2> QED
    BY <1>5, <1>6, <2>1
<1>11. Before(a, b, c, n) = Before(a, b, c, m) + Turn(a, b, c, m)
  BY <1>6, <1>7
<1> QED
  BY <1>3, <1>7, <1>8, <1>9, <1>11

(* A set of numbers up to n that is not empty has a greatest.              *)
LEMMA GreatestUpTo ==
  ASSUME NEW n \in Nat, NEW S \in SUBSET (0..n), S # {}
  PROVE  \E m \in S : \A l \in S : l <= m
<1> DEFINE D == {n - l : l \in S}
<1>1. D \in SUBSET Nat /\ D # {}
  <2>1. \A l \in S : l \in 0..n
    OBVIOUS
  <2>2. \A l \in S : n - l \in Nat
    BY <2>1
  <2>3. PICK l \in S : TRUE
    OBVIOUS
  <2>4. n - l \in D
    BY <2>3
  <2> QED
    BY <2>2, <2>4
<1>2. PICK d \in D : \A x \in D : d <= x
  <2> HIDE DEF D
  <2> QED
    BY <1>1, LeastNat
<1>3. PICK m \in S : d = n - m
  OBVIOUS
<1>4. ASSUME NEW l \in S
      PROVE  l <= m
  <2>1. n - l \in D
    OBVIOUS
  <2>2. d <= n - l
    BY <1>2, <2>1
  <2>3. m \in 0..n /\ l \in 0..n
    OBVIOUS
  <2> HIDE DEF D
  <2> QED
    BY <1>3, <2>2, <2>3
<1> QED
  BY <1>4

(* Slabs of which some are missing: each follows the last one before it.   *)
IsLast(m, Q, n) == m \in Q /\ m <= n /\ \A l \in Q : l <= n => l <= m
IsRowOf(Q, at, k, a, b, c) ==
  /\ \A n \in Q : at[n] \in Nat
  /\ \A n \in 0..k : n \notin Q => Turn(a, b, c, n) = 0
  /\ \A n \in Q : n > 0 => \A m \in Q : IsLast(m, Q, n - 1) => at[n] = at[m] + Turn(a, b, c, m)
LEMMA Row3WithHoles ==
  ASSUME NEW k \in Nat, NEW a \in Nat, NEW b \in Nat, NEW c \in Nat, NEW at,
         NEW Q \in SUBSET (0..k), 0 \in Q, IsRowOf(Q, at, k, a, b, c)
  PROVE  \A n \in Q : at[n] = at[0] + Before(a, b, c, n)
<1>0. /\ \A n \in Q : at[n] \in Nat
      /\ \A n \in 0..k : n \notin Q => Turn(a, b, c, n) = 0
      /\ \A n \in Q : n > 0 => \A m \in Q : IsLast(m, Q, n - 1) => at[n] = at[m] + Turn(a, b, c, m)
  BY DEF IsRowOf
<1>1. ASSUME NEW j \in Nat
      PROVE  /\ Before(a, b, c, 0) = 0 /\ Before(a, b, c, j) \in Nat /\ Turn(a, b, c, j) \in Nat
             /\ Before(a, b, c, j + 1) = Before(a, b, c, j) + Turn(a, b, c, j)
  <2>1. Before(a, b, c, 0) = 0
    BY NextTurn
  <2>2. Before(a, b, c, j) \in Nat
    BY NextTurn
  <2>3. Before(a, b, c, j + 1) = Before(a, b, c, j) + Turn(a, b, c, j)
    BY NextTurn
  <2>4. Turn(a, b, c, j) \in Nat
    BY DEF Turn
  <2> QED
    BY <2>1, <2>2, <2>3, <2>4
<1> DEFINE Bad == {n \in 0..k : \E m \in Q : IsLast(m, Q, n) /\ at[m] + Turn(a, b, c, m) # at[0] + Before(a, b, c, n + 1)}
<1>2. Bad = {}
  <2>1. SUFFICES ASSUME Bad # {}
                 PROVE  FALSE
    OBVIOUS
  <2>2. PICK n \in Bad : \A x \in Bad : n <= x
    <3>1. Bad \in SUBSET Nat
      OBVIOUS
    <3> HIDE DEF Bad
    <3> QED
      BY <2>1, <3>1, LeastNat
  <2>3. PICK m \in Q : /\ n \in 0..k /\ IsLast(m, Q, n)
                       /\ at[m] + Turn(a, b, c, m) # at[0] + Before(a, b, c, n + 1)
    BY <2>2
  <2>4. n \in Nat /\ m \in Nat /\ m <= n /\ at[m] \in Nat /\ at[0] \in Nat
    BY <1>0, <2>3 DEF IsLast
  <2>5. n # 0
    <3>1. n = 0 => m = 0
      BY <2>4
    <3>2. Before(a, b, c, 0 + 1) = Before(a, b, c, 0) + Turn(a, b, c, 0) /\ Before(a, b, c, 0) = 0 /\ Turn(a, b, c, 0) \in Nat
      BY <1>1
    <3> HIDE DEF Bad
    <3> QED
      BY <2>3, <2>4, <3>1, <3>2
  <2>6. PICK p \in Nat : p + 1 = n /\ p = n - 1 /\ p \in 0..k
    BY <2>3, <2>4, <2>5
  <2>7. \A x \in Q : IsLast(x, Q, p) => at[x] + Turn(a, b, c, x) = at[0] + Before(a, b, c, n)
    <3>1. p \notin Bad
      <4> HIDE DEF Bad
      <4> QED
        BY <2>2, <2>6, <2>4
    <3> QED
      BY <2>6, <3>1
  <2>8. Before(a, b, c, n + 1) = Before(a, b, c, n) + Turn(a, b, c, n)
        /\ Before(a, b, c, n) \in Nat /\ Turn(a, b, c, n) \in Nat
    BY <1>1, <2>4
  <2> HIDE DEF Bad
  <2>9. CASE m = n
    <3>1. PICK x \in Q : IsLast(x, Q, p)
      <4> DEFINE S == {l \in Q : l <= p}
      <4>1. S \in SUBSET (0..p) /\ S # {}
        <5>1. 0 \in S
            BY <2>6
          <5>2. \A l \in S : l \in Nat /\ l <= p
            OBVIOUS
          <5> HIDE DEF S
          <5> QED
            BY <2>6, <5>1, <5>2
      <4>2. PICK x \in S : \A l \in S : l <= x
        <5> HIDE DEF S
        <5> QED
          BY <2>6, <4>1, GreatestUpTo
      <4> QED
        BY <4>2 DEF IsLast
    <3>2. at[x] + Turn(a, b, c, x) = at[0] + Before(a, b, c, n)
      BY <2>7, <3>1
    <3>3. at[n] = at[x] + Turn(a, b, c, x)
      BY <1>0, <2>4, <2>5, <2>6, <2>9, <3>1
    <3> QED
      BY <2>3, <2>4, <2>8, <2>9, <3>2, <3>3
  <2>10. CASE m # n
    <3>1. n \notin Q
      BY <2>3, <2>4, <2>10 DEF IsLast
    <3>2. Turn(a, b, c, n) = 0
      BY <1>0, <2>3, <3>1
    <3>3. IsLast(m, Q, p)
      BY <2>3, <2>4, <2>6, <2>10 DEF IsLast
    <3>4. at[m] + Turn(a, b, c, m) = at[0] + Before(a, b, c, n)
      BY <2>7, <3>3
    <3> QED
      BY <2>3, <2>8, <3>2, <3>4
  <2> QED
    BY <2>9, <2>10
<1>3. ASSUME NEW n \in Q
      PROVE  at[n] = at[0] + Before(a, b, c, n)
  <2>1. n \in 0..k /\ n \in Nat /\ IsLast(n, Q, n) /\ at[n] \in Nat /\ at[0] \in Nat
    BY <1>0 DEF IsLast
  <2>2. at[n] + Turn(a, b, c, n) = at[0] + Before(a, b, c, n + 1)
    BY <1>2, <2>1
  <2>3. Before(a, b, c, n + 1) = Before(a, b, c, n) + Turn(a, b, c, n)
        /\ Before(a, b, c, n) \in Nat /\ Turn(a, b, c, n) \in Nat
    BY <1>1, <2>1
  <2> HIDE DEF Bad
  <2>4. PICK x \in Nat, y \in Nat, z \in Nat, w \in Nat :
          x = at[n] /\ y = at[0] /\ z = Before(a, b, c, n) /\ w = Turn(a, b, c, n)
    BY <2>1, <2>3
  <2>5. x + w = y + (z + w)
    BY <2>2, <2>3, <2>4
  <2>6. x = y + z
    BY <2>5
  <2> QED
    BY <2>4, <2>6
<1> QED
  BY <1>3

(* The place of a projection of an expert, as Metal finds it.              *)
Spot(a, b, c, e, p) == e * (a + b + c) + (IF p > 0 THEN a ELSE 0) + (IF p > 1 THEN b ELSE 0)
IsPart(n, e, p) == n = 3 * e + p /\ e \in Nat /\ p \in 0..2
LEMMA BeforeOf ==
  ASSUME NEW a \in Nat, NEW b \in Nat, NEW c \in Nat, NEW n, NEW e, NEW p, IsPart(n, e, p)
  PROVE  Before(a, b, c, n) = Spot(a, b, c, e, p)
<1>1. n = 3 * e + p /\ e \in Nat /\ p \in 0..2
  BY DEF IsPart
<1>2. n \div 3 = e /\ n % 3 = p
  BY <1>1
<1> QED
  BY <1>1, <1>2 DEF Before, Spot

LEMMA ExpertsAlike ==
  ASSUME NEW x, x.kind = "expert", x.part \in {"gate", "up", "down"}
  PROVE  Family(x) = "MOE_EXPERT" /\ Projection(x) = x.part /\ Usage(x) = "runtime"
<1>1. Family(x) = "MOE_EXPERT"
  BY DEF Family
<1>2. Projection(x) = x.part
  BY DEF Projection, VisionKinds
<1>3. Usage(x) = "runtime"
  BY DEF Usage
<1> QED
  BY <1>1, <1>2, <1>3

(* The same projection of two experts is planned alike.                    *)
LEMMA SameTurn ==
  ASSUME FromPlan, stage # "source", N \in Nat, NEW layer \in MoeLayers, Complete(layer),
         SameShapes(layer), Contiguous(layer), NEW n \in Slots
  PROVE  /\ OutBytes(T(Slot(layer, n))) = OutBytes(T(Slot(layer, n % 3)))
         /\ ScaleBytes(T(Slot(layer, n))) = ScaleBytes(T(Slot(layer, n % 3)))
         /\ Quantized(T(Slot(layer, n))) <=> Quantized(T(Slot(layer, n % 3)))
<1>1. n \in Nat /\ n % 3 \in Nat /\ n % 3 \in Slots /\ (n % 3) % 3 = n % 3
  BY FileConstants DEF Slots
<1>2. PICK i \in 1..N, j \in 1..N : i = Slot(layer, n) /\ j = Slot(layer, n % 3)
  BY <1>1, ExpertsInRow
<1>3. T(i).name = ExpertName(layer, n) /\ T(j).name = ExpertName(layer, n % 3)
  BY <1>1, <1>2 DEF Contiguous
<1>4. T(i).entry.shape = T(j).entry.shape
  BY <1>2 DEF SameShapes
<1> DEFINE s == T(i).entry.shape
           m == ExpertName(layer, n)
           l == ExpertName(layer, n % 3)
<1>5. /\ T(i).usage = "runtime" /\ T(j).usage = "runtime"
      /\ T(i).rows = T(j).rows /\ T(i).cols = T(j).cols
      /\ T(i).qtype = PlannedQtype(m, s, opts.profile, opts.cfg)
      /\ T(j).qtype = PlannedQtype(l, s, opts.profile, opts.cfg)
  BY <1>1, <1>3, <1>4, ExpertPlanned
<1>6. /\ m.kind = "expert" /\ l.kind = "expert" /\ m.part = l.part
      /\ m.part \in {"gate", "up", "down"}
  <2>1. n % 3 \in 0..2
    BY <1>1
  <2>2. Projections[(n % 3) + 1] \in {"gate", "up", "down"}
    BY <2>1 DEF Projections
  <2> QED
    BY <1>1, <2>2 DEF ExpertName
<1> HIDE DEF s, m, l
<1>7. Family(m) = Family(l) /\ Projection(m) = Projection(l) /\ Usage(m) = Usage(l)
  BY <1>6, ExpertsAlike
<1>8. T(i).qtype = T(j).qtype
  <2>1. Candidate(m, s, opts.cfg) <=> Candidate(l, s, opts.cfg)
    BY <1>7 DEF Candidate
  <2> QED
    BY <1>5, <1>7, <2>1 DEF PlannedQtype
<1>9. Quantized(T(i)) <=> Quantized(T(j))
  BY <1>8 DEF Quantized
<1>10. RowBytes(T(i)) = RowBytes(T(j))
  BY <1>5, <1>8 DEF RowBytes
<1>11. RowScales(T(i)) = RowScales(T(j))
  BY <1>5, <1>9 DEF RowScales
<1>12. ~Omitted(T(i)) /\ ~Omitted(T(j))
  BY <1>5 DEF Omitted
<1>13. OutBytes(T(i)) = OutBytes(T(j)) /\ ScaleBytes(T(i)) = ScaleBytes(T(j))
  BY <1>5, <1>10, <1>11, <1>12 DEF OutBytes, ScaleBytes
<1> QED
  BY <1>2, <1>9, <1>13

(* Scales follow the last quantized tensor before, whichever that is.      *)
LEMMA ScalesFollow ==
  ASSUME NEW layer, Contiguous(layer), Slots \subseteq Nat,
         NEW n \in Slots, Quantized(T(Slot(layer, n))), n > 0,
         NEW m \in 0..(n - 1), Quantized(T(Slot(layer, m))),
         \A l \in 0..(n - 1) : Quantized(T(Slot(layer, l))) => l <= m
  PROVE  scale[Slot(layer, n)] = scale[Slot(layer, m)] + ScaleBytes(T(Slot(layer, m)))
<1> DEFINE earlier == {x \in 0..(n - 1) : Quantized(T(Slot(layer, x)))}
           c == CHOOSE x \in earlier : \A l \in earlier : l <= x
<1>1. m \in earlier /\ \A l \in earlier : l <= m
  OBVIOUS
<1>2. scale[Slot(layer, n)] = scale[Slot(layer, c)] + ScaleBytes(T(Slot(layer, c)))
  BY <1>1 DEF Contiguous
<1>3. c = m
  <2>1. c \in earlier /\ \A l \in earlier : l <= c
    <3> HIDE DEF earlier
    <3> QED
      BY <1>1
  <2> HIDE DEF c
  <2>2. c <= m /\ m <= c
    BY <1>1, <2>1
  <2>3. c \in Int /\ m \in Int
    BY <2>1
  <2> QED
    BY <2>2, <2>3
<1> QED
  BY <1>2, <1>3

LEMMA PlacesOfExperts ==
  ASSUME LayoutInv, FromPlan, stage # "source", NEW layer \in MoeLayers, Complete(layer),
         SameShapes(layer), Contiguous(layer), NEW e \in 0..(Experts - 1), NEW p \in 0..2
  PROVE  LET at(k)  == Slot(layer, k)
             b(k)   == OutBytes(T(Slot(layer, k)))
             s(k)   == ScaleBytes(T(Slot(layer, k)))
         IN /\ payload[at(3 * e + p)] = payload[at(0)] + Before(b(0), b(1), b(2), 3 * e + p)
            /\ Quantized(T(at(3 * e + p))) /\ Quantized(T(at(0))) =>
                 scale[at(3 * e + p)] = scale[at(0)] + Before(s(0), s(1), s(2), 3 * e + p)
<1> DEFINE at(k)  == Slot(layer, k)
           b(k)   == OutBytes(T(Slot(layer, k)))
           s(k)   == ScaleBytes(T(Slot(layer, k)))
           g == 3 * e + p
           k0 == 3 * Experts - 1
<1>0. N \in Nat /\ PlanTyped /\ Bounds
  BY DEF LayoutInv, PlanTyped
<1>1. /\ Slots = 0..k0 /\ k0 \in Nat /\ g \in Slots /\ 0 \in Slots /\ 1 \in Slots /\ 2 \in Slots
      /\ Slots \subseteq Nat
  BY FileConstants DEF Slots
<1>2. \A n \in Slots : at(n) \in 1..N
  BY <1>0, ExpertsInRow
<1>3. \A n \in Slots : b(n) \in Nat /\ s(n) \in Nat /\ payload[at(n)] \in Nat /\ scale[at(n)] \in Nat
  <2>1. \A i \in 1..N : OutBytes(T(i)) \in Nat /\ ScaleBytes(T(i)) \in Nat /\ payload[i] \in Nat /\ scale[i] \in Nat
    BY <1>0, Sizes DEF PlanTyped, Bounds
  <2> QED
    BY <1>2, <2>1
<1>4. \A n \in Slots : b(n) = b(n % 3) /\ s(n) = s(n % 3)
  BY <1>0, SameTurn
<1>5. \A n \in Slots : b(n) = Turn(b(0), b(1), b(2), n) /\ s(n) = Turn(s(0), s(1), s(2), n)
  <2> SUFFICES ASSUME NEW n \in Slots
               PROVE  b(n) = Turn(b(0), b(1), b(2), n) /\ s(n) = Turn(s(0), s(1), s(2), n)
    OBVIOUS
  <2>1. n % 3 \in 0..2 /\ b(n) = b(n % 3) /\ s(n) = s(n % 3)
    BY <1>1, <1>4
  <2> HIDE DEF b, s
  <2>2. CASE n % 3 = 0
    BY <2>1, <2>2 DEF Turn
  <2>3. CASE n % 3 = 1
    BY <2>1, <2>3 DEF Turn
  <2>4. CASE n % 3 = 2
    BY <2>1, <2>4 DEF Turn
  <2> QED
    BY <2>1, <2>2, <2>3, <2>4
<1>6. \A n \in Slots : n > 0 => payload[at(n)] = payload[at(n - 1)] + b(n - 1)
  BY DEF Contiguous, Follows
<1>7. payload[at(g)] = payload[at(0)] + Before(b(0), b(1), b(2), g)
  <2> DEFINE f == [n \in 0..k0 |-> payload[at(n)]]
  <2> HIDE DEF at, b, s, g, k0
  <2>1. f[0] = payload[at(0)] /\ payload[at(0)] \in Nat
    BY <1>1, <1>3
  <2>2. \A n \in 0..k0 : n > 0 => f[n] = f[n - 1] + Turn(b(0), b(1), b(2), n - 1)
    <3> SUFFICES ASSUME NEW n \in 0..k0, n > 0
                 PROVE  f[n] = f[n - 1] + Turn(b(0), b(1), b(2), n - 1)
      OBVIOUS
    <3>1. n \in Slots /\ n - 1 \in Slots /\ n - 1 \in 0..k0
      BY <1>1
    <3>2. payload[at(n)] = payload[at(n - 1)] + b(n - 1) /\ b(n - 1) = Turn(b(0), b(1), b(2), n - 1)
      BY <1>5, <1>6, <3>1
    <3> QED
      BY <3>1, <3>2
  <2>3. b(0) \in Nat /\ b(1) \in Nat /\ b(2) \in Nat
    BY <1>1, <1>3
  <2> HIDE DEF f
  <2>4. \A n \in 0..k0 : f[n] = payload[at(0)] + Before(b(0), b(1), b(2), n)
    <3>1. PICK A \in Nat, B \in Nat, C \in Nat, K \in Nat : A = b(0) /\ B = b(1) /\ C = b(2) /\ K = k0
      BY <1>1, <2>3
    <3>2. f[0] \in Nat /\ IsRow(f, K, A, B, C)
      BY <2>1, <2>2, <3>1 DEF IsRow
    <3>3. \A n \in 0..K : f[n] = f[0] + Before(A, B, C, n)
      BY <3>2, Row3
    <3> QED
      BY <2>1, <3>1, <3>3
  <2>5. g \in 0..k0
    BY <1>1
  <2> QED
    BY <2>4, <2>5 DEF f
<1>8. ASSUME Quantized(T(at(g))), Quantized(T(at(0)))
      PROVE  scale[at(g)] = scale[at(0)] + Before(s(0), s(1), s(2), g)
  <2> DEFINE f == [n \in 0..k0 |-> scale[at(n)]]
             Q == {n \in 0..k0 : Quantized(T(at(n)))}
  <2>1. \A n \in 0..k0 : n \notin Q => s(n) = 0
    <3> SUFFICES ASSUME NEW n \in 0..k0, n \notin Q
                 PROVE  s(n) = 0
      OBVIOUS
    <3>1. PICK i \in 1..N : i = at(n)
      BY <1>1, <1>2
    <3>2. T(i).rows \in Nat /\ ~Quantized(T(i))
      BY <1>0, <3>1 DEF PlanTyped, Typed, TensorOK
    <3>3. ScaleBytes(T(i)) = 0
      BY <3>2 DEF ScaleBytes, RowScales
    <3> QED
      BY <3>1, <3>3
  <2>2. ASSUME NEW n \in Q, n > 0, NEW m \in Q, IsLast(m, Q, n - 1)
        PROVE  scale[at(n)] = scale[at(m)] + s(m)
    <3>1. n \in Slots /\ m \in 0..(n - 1) /\ \A l \in 0..(n - 1) : l \in 0..k0
      BY <1>1, <2>2 DEF IsLast
    <3>2. \A l \in 0..(n - 1) : Quantized(T(at(l))) => l <= m
      BY <2>2, <3>1 DEF IsLast
    <3> QED
      BY <1>1, <2>2, <3>1, <3>2, ScalesFollow
  <2>3. 0 \in Q /\ g \in Q /\ Q \in SUBSET (0..k0)
    BY <1>1, <1>8
  <2> HIDE DEF Q
  <2> HIDE DEF at, b, s, g, k0
  <2>4. \A n \in Q : n \in 0..k0 /\ n \in Slots
    BY <1>1, <2>3
  <2>5. \A n \in 0..k0 : f[n] = scale[at(n)]
    OBVIOUS
  <2>6. \A n \in Q : f[n] \in Nat
    BY <1>3, <2>4, <2>5
  <2>7. \A n \in 0..k0 : n \notin Q => Turn(s(0), s(1), s(2), n) = 0
    BY <1>1, <1>5, <2>1
  <2>8. \A n \in Q : n > 0 => \A m \in Q : IsLast(m, Q, n - 1) => f[n] = f[m] + Turn(s(0), s(1), s(2), m)
    <3> SUFFICES ASSUME NEW n \in Q, n > 0, NEW m \in Q, IsLast(m, Q, n - 1)
                 PROVE  f[n] = f[m] + Turn(s(0), s(1), s(2), m)
      OBVIOUS
    <3>1. scale[at(n)] = scale[at(m)] + s(m)
      BY <2>2
    <3>2. s(m) = Turn(s(0), s(1), s(2), m) /\ f[n] = scale[at(n)] /\ f[m] = scale[at(m)]
      BY <1>5, <2>4, <2>5
    <3> QED
      BY <3>1, <3>2
  <2>9. s(0) \in Nat /\ s(1) \in Nat /\ s(2) \in Nat
    BY <1>1, <1>3
  <2> HIDE DEF f
  <2>10. \A n \in Q : f[n] = f[0] + Before(s(0), s(1), s(2), n)
    <3>1. PICK A \in Nat, B \in Nat, C \in Nat, K \in Nat : A = s(0) /\ B = s(1) /\ C = s(2) /\ K = k0
      BY <1>1, <2>9
    <3>2. Q \in SUBSET (0..K) /\ 0 \in Q
      BY <2>3, <3>1
    <3>3. IsRowOf(Q, f, K, A, B, C)
      BY <2>6, <2>7, <2>8, <3>1 DEF IsRowOf
    <3>4. \A n \in Q : f[n] = f[0] + Before(A, B, C, n)
      BY <3>2, <3>3, Row3WithHoles
    <3> QED
      BY <3>1, <3>4
  <2>11. f[g] = scale[at(g)] /\ f[0] = scale[at(0)]
    BY <1>1, <2>5
  <2> QED
    BY <2>3, <2>10, <2>11
<1> QED
  BY <1>7, <1>8

LEMMA ExpertsAddressed ==
  ASSUME LayoutInv, FromPlan, Judged
  PROVE  ExpertsAddressable
<1>1. SUFFICES ASSUME mode # "single", stage \in {"laid", "done"}, NEW layer \in MoeLayers,
                      Complete(layer), SameShapes(layer), NEW e \in 0..(Experts - 1), NEW p \in 0..2
               PROVE  /\ payload[Slot(layer, 3 * e + p)] = payload[Slot(layer, 0)] + Offset(layer, OutBytes, e, p)
                      /\ Quantized(T(Slot(layer, 3 * e + p))) /\ Quantized(T(Slot(layer, 0))) =>
                           scale[Slot(layer, 3 * e + p)] = scale[Slot(layer, 0)] + Offset(layer, ScaleBytes, e, p)
  BY Zenon DEF ExpertsAddressable
<1>2. stage # "source" /\ stage \in LaidStages
  BY <1>1 DEF LaidStages
<1>3. Contiguous(layer)
  BY <1>1, <1>2 DEF Judged, LayoutAccepted
<1> DEFINE b(k) == OutBytes(T(Slot(layer, k)))
           s(k) == ScaleBytes(T(Slot(layer, k)))
<1>4. /\ payload[Slot(layer, 3 * e + p)] = payload[Slot(layer, 0)] + Before(b(0), b(1), b(2), 3 * e + p)
      /\ Quantized(T(Slot(layer, 3 * e + p))) /\ Quantized(T(Slot(layer, 0))) =>
           scale[Slot(layer, 3 * e + p)] = scale[Slot(layer, 0)] + Before(s(0), s(1), s(2), 3 * e + p)
  BY <1>1, <1>2, <1>3, PlacesOfExperts
<1>5. /\ e \in Nat /\ b(0) \in Nat /\ b(1) \in Nat /\ b(2) \in Nat
      /\ s(0) \in Nat /\ s(1) \in Nat /\ s(2) \in Nat
  <2>1. N \in Nat /\ PlanTyped
    BY DEF LayoutInv, PlanTyped
  <2>2. 0 \in Slots /\ 1 \in Slots /\ 2 \in Slots /\ e \in Nat
    BY <1>1, FileConstants DEF Slots
  <2>3. Slot(layer, 0) \in 1..N /\ Slot(layer, 1) \in 1..N /\ Slot(layer, 2) \in 1..N
    BY <1>1, <1>2, <2>1, <2>2, ExpertsInRow
  <2>4. \A i \in 1..N : OutBytes(T(i)) \in Nat /\ ScaleBytes(T(i)) \in Nat
    BY <2>1, Sizes DEF PlanTyped
  <2> QED
    BY <2>2, <2>3, <2>4
<1>6. Offset(layer, OutBytes, e, p)
        = e * (b(0) + b(1) + b(2)) + (IF p > 0 THEN b(0) ELSE 0) + (IF p > 1 THEN b(1) ELSE 0)
  BY Zenon DEF Offset
<1>7. Offset(layer, ScaleBytes, e, p)
        = e * (s(0) + s(1) + s(2)) + (IF p > 0 THEN s(0) ELSE 0) + (IF p > 1 THEN s(1) ELSE 0)
  BY Zenon DEF Offset
<1>8. Offset(layer, OutBytes, e, p) = Before(b(0), b(1), b(2), 3 * e + p)
  <2> HIDE DEF b
  <2>1. PICK x \in Nat, y \in Nat, z \in Nat : x = b(0) /\ y = b(1) /\ z = b(2)
    BY <1>5
  <2>2. Before(x, y, z, 3 * e + p) = Spot(x, y, z, e, p)
    <3>1. PICK n : n = 3 * e + p /\ IsPart(n, e, p)
      BY <1>5 DEF IsPart
    <3> QED
      BY <3>1, BeforeOf
  <2> QED
    BY <1>6, <2>1, <2>2 DEF Spot
<1>9. Offset(layer, ScaleBytes, e, p) = Before(s(0), s(1), s(2), 3 * e + p)
  <2> HIDE DEF s
  <2>1. PICK x \in Nat, y \in Nat, z \in Nat : x = s(0) /\ y = s(1) /\ z = s(2)
    BY <1>5
  <2>2. Before(x, y, z, 3 * e + p) = Spot(x, y, z, e, p)
    <3>1. PICK n : n = 3 * e + p /\ IsPart(n, e, p)
      BY <1>5 DEF IsPart
    <3> QED
      BY <3>1, BeforeOf
  <2> QED
    BY <1>7, <2>1, <2>2 DEF Spot
<1> QED
  BY <1>4, <1>8, <1>9

LEMMA PlacedInit ==
  ASSUME CompareInit
  PROVE  PlacedInv
<1>1. ConversionInv /\ stage = "source"
  BY InitInv DEF CompareInit, Init, FileInit
<1>2. Joints /\ Judged
  BY <1>1 DEF Joints, Judged, LaidStages
<1> QED
  BY <1>1, <1>2 DEF PlacedInv

-----------------------------------------------------------------------------
(* Experts of a strict conversion, or of the v2 checkpoint.                *)

Accepted == phase \in {"metadata", "planned", "resolving", "resolved"} \/ stage # "source"
Shaped == ShapesChecked /\ Accepted => \A n \in Names : ShapeHolds(n)

LEMMA ShapedKept ==
  ASSUME Shaped, opts'.strict = opts.strict, UNCHANGED <<variant, entries>>, Accepted' => Accepted
  PROVE  Shaped'
<1>1. ShapesChecked' <=> ShapesChecked
  BY DEF ShapesChecked
<1>2. Names' = Names /\ \A n : ShapeHolds(n)' <=> ShapeHolds(n)
  BY DEF Names, ShapeHolds
<1> QED
  BY <1>1, <1>2 DEF Shaped

LEMMA ShapedStep ==
  ASSUME ConversionInv, Shaped, [CompareNext]_allVars
  PROVE  Shaped'
<1>0. Checked
  BY DEF ConversionInv, SourceInv
<1>1. CASE Source
  <2>1. stage' = stage
    BY <1>1 DEF Source, vars
  <2>2. CASE ReadContract \/ ReadHeaders
    <3>1. stage = "source" /\ phase' \in {"headers", "check", "refused"}
      BY <1>0, <2>2 DEF Checked, ReadContract, ReadHeaders, Go
    <3> QED
      BY <2>1, <3>1 DEF Shaped, Accepted
  <2>3. CASE CheckTensors
    <3>1. /\ stage = "source" /\ phase' \in {"metadata", "refused"} /\ UNCHANGED <<opts, variant, entries>>
          /\ phase' = "metadata" => TensorsAcceptable
      BY <1>0, <2>3 DEF Checked, CheckTensors, Go
    <3>2. TensorsAcceptable /\ ShapesChecked => \A n \in Names : ShapeHolds(n)
      BY DEF TensorsAcceptable, ShapesChecked
    <3>3. Names' = Names /\ \A n : ShapeHolds(n)' <=> ShapeHolds(n)
      BY <3>1 DEF Names, ShapeHolds
    <3>4. Accepted' => TensorsAcceptable
      BY <2>1, <3>1 DEF Accepted
    <3>5. ShapesChecked' <=> ShapesChecked
      BY <3>1 DEF ShapesChecked
    <3> QED
      BY <3>2, <3>3, <3>4, <3>5 DEF Shaped
  <2> QED
    BY <1>1, <2>2, <2>3 DEF Source
<1>2. CASE ReadMetadata \/ SelectTensor \/ ResolvePayloads \/ CheckShard \/ OpenShard
  <2>1. UNCHANGED <<opts, variant, entries>> /\ Accepted
    BY <1>2 DEF ReadMetadata, SelectTensor, ResolvePayloads, CheckShard, OpenShard, Accepted
  <2> QED
    BY <2>1, ShapedKept
<1>3. CASE Layout \/ Write
  <2>1. UNCHANGED <<opts, variant, entries>> /\ Accepted
    BY <1>3 DEF Layout, Write, sourceVars, Accepted, LayoutNext, WriteNext, WriteQuietly, SkipEmpty, StartGroup, PlacePayload,
         PlaceScale, Validate, WriteMetadata, WriteRows, NextTensor, Truncate, FailWriting, Streaming
  <2> QED
    BY <2>1, ShapedKept
<1>4. CASE Damage
  <2>1. UNCHANGED <<opts, variant, entries>> /\ Accepted
    BY <1>4 DEF Damage, sourceVars, Accepted
  <2> QED
    BY <2>1, ShapedKept
<1>5. CASE UNCHANGED conversionVars
  <2>1. UNCHANGED <<opts, variant, entries, phase, stage>>
    BY <1>5 DEF conversionVars, sourceVars, vars
  <2> QED
    BY <2>1, ShapedKept DEF Accepted
<1>6. CASE ReplaceShard
  <2>1. /\ UNCHANGED <<phase, stage, variant, entries>>
        /\ opts' = [opts EXCEPT !.mayReplace = FALSE]
    BY <1>6 DEF ReplaceShard, vars, plan
  <2>2. opts'.strict = opts.strict
    BY <2>1
  <2> QED
    BY <2>1, <2>2, ShapedKept DEF Accepted
<1> QED
  BY <1>1, <1>2, <1>3, <1>4, <1>5, <1>6
     DEF CompareNext, Convert, Next, StartCompare, CompareRows, FailCompare, EndCompare, allVars

LEMMA ShapedExperts ==
  ASSUME PlacedInv, Shaped
  PROVE  CheckedShapes
<1>1. SUFFICES ASSUME ShapesChecked, mode # "single", stage \in {"laid", "done"},
                      NEW layer \in MoeLayers, Complete(layer), NEW n \in Slots
               PROVE  T(Slot(layer, n)).entry.shape = T(Slot(layer, n % 3)).entry.shape
  BY Zenon DEF CheckedShapes, SameShapes
<1>2. LayoutInv /\ FromPlan /\ Judged /\ stage # "source" /\ stage \in LaidStages
  BY <1>1 DEF PlacedInv, ConversionInv, FileInv, SourceInv, LaidStages
<1>3. Contiguous(layer)
  BY <1>1, <1>2 DEF Judged, LayoutAccepted
<1>4. \A k \in Slots : Slot(layer, k) \in 1..N
  BY <1>1, <1>2, ExpertsInRow DEF LayoutInv, PlanTyped
<1>5. \A m \in Names : ShapeHolds(m)
  BY <1>1, <1>2 DEF Shaped, Accepted
<1>6. ASSUME NEW k \in Slots
      PROVE  T(Slot(layer, k)).entry.shape = ExpectedShape(ExpertName(layer, k))
  <2>1. T(Slot(layer, k)).name = ExpertName(layer, k)
    BY <1>3 DEF Contiguous
  <2>2. PICK m \in Names : T(Slot(layer, k)) = Planned(m)
    BY <1>2, <1>4 DEF FromPlan
  <2>3. m = ExpertName(layer, k) /\ T(Slot(layer, k)).entry = entries[m]
    BY <2>1, <2>2 DEF Planned
  <2> QED
    BY <1>5, <2>3, ExpertShapes DEF ShapeHolds
<1>7. n % 3 \in Slots
  <2>1. n \in Nat /\ Experts \in Nat /\ n < 3 * Experts
    BY FileConstants DEF Slots
  <2>2. n % 3 \in Nat /\ n % 3 <= n
    BY <2>1
  <2> QED
    BY <2>1, <2>2 DEF Slots
<1> QED
  BY <1>6, <1>7, ExpertShapes

LEMMA PlacedHolds ==
  ASSUME PlacedInv, Shaped
  PROVE  ExpertsPlaced
<1>1. LayoutInv /\ FromPlan /\ Joints /\ Judged
  BY DEF PlacedInv, ConversionInv, FileInv, SourceInv
<1>2. ExpertsAddressable
  BY <1>1, ExpertsAddressed
<1>3. RegularPlansAccepted
  <2>1. stage = "refused" /\ Regular => LayoutAccepted
    BY <1>1, RegularAccepted
  <2> QED
    BY <1>1, <2>1 DEF RegularPlansAccepted, Judged
<1> QED
  BY <1>2, <1>3, ShapedExperts DEF ExpertsPlaced

(* Every layout that the validation of the experts accepts is one where    *)
(* Metal finds each projection by base and stride, in the payloads and in  *)
(* the scales, if the experts of the layer have the same shapes, as they   *)
(* do in every strict and every v2 conversion; and no regular layout is    *)
(* refused.                                                                *)
THEOREM ExpertsArePlaced == CompareSpec => []ExpertsPlaced
<1>1. CompareInit => PlacedInv /\ Shaped
  BY PlacedInit DEF CompareInit, Init, FileInit, SourceInit, Shaped, Accepted
<1>2. PlacedInv /\ Shaped /\ [CompareNext]_allVars => PlacedInv' /\ Shaped'
  BY PlacedStep, ShapedStep DEF PlacedInv
<1>3. PlacedInv /\ Shaped => ExpertsPlaced
  BY PlacedHolds
<1> QED
  BY <1>1, <1>2, <1>3, PTL DEF CompareSpec

-----------------------------------------------------------------------------
(* Comparing.  A slab of r rows of rb bytes at w is compared before the    *)
(* one of r rows of rs bytes at s, t rows of each at a time; d is damaged. *)

LEMMA DivBelow ==
  ASSUME NEW q \in Nat, NEW n \in Nat, NEW m \in Nat \ {0}
  PROVE  (q < n * m => q \div m < n) /\ (q >= n * m => q \div m >= n)
<1>1. q = m * (q \div m) + (q % m) /\ q \div m \in Nat /\ q % m \in Nat /\ q % m < m
  OBVIOUS
<1>2. PICK x \in Nat : x = q \div m
  BY <1>1
<1>3. q >= x * m /\ q < (x + 1) * m
  BY <1>1, <1>2
<1>4. ASSUME q < n * m
      PROVE  x < n
  <2>1. n <= x => n * m <= x * m
    BY Monotone
  <2>2. x * m \in Nat /\ n * m \in Nat
    BY ProductIsNat
  <2> QED
    BY <1>3, <1>4, <2>1, <2>2
<1>5. ASSUME q >= n * m
      PROVE  x >= n
  <2>1. x + 1 <= n => (x + 1) * m <= n * m
    BY Monotone
  <2>2. (x + 1) * m \in Nat /\ n * m \in Nat
    BY ProductIsNat
  <2> QED
    BY <1>3, <1>5, <2>1, <2>2
<1> QED
  BY <1>2, <1>4, <1>5

Hit(k, w, s, out, d) == IF k < out THEN w + k \in d ELSE s + (k - out) \in d
CleanTill(c, w, s, rb, rs, d) ==
  /\ \A k \in 0..(c * rb - 1) : w + k \notin d
  /\ \A k \in 0..(c * rs - 1) : s + k \notin d
FirstIs(m, w, s, rb, rs, r, d) ==
  LET out == r * rb IN
  /\ m \in Nat /\ m < out + r * rs /\ Hit(m, w, s, out, d)
  /\ \A k \in 0..(m - 1) : Hit(k, w, s, out, d) => m >= out /\ k < out
  /\ m >= out =>
       \A k \in 0..(out - 1) : Hit(k, w, s, out, d) => k \div rb > (m - out) \div rs
Hits(slab, from, count, d) == {k \in from..(from + count - 1) : slab + k \in d}

LEMMA LeastHit ==
  ASSUME NEW slab, NEW from \in Nat, NEW count \in Nat, NEW d, Hits(slab, from, count, d) # {}
  PROVE  LET m == Least(Hits(slab, from, count, d)) IN
         /\ m \in Nat /\ from <= m /\ m < from + count /\ slab + m \in d
         /\ \A k \in from..(m - 1) : slab + k \notin d
<1> DEFINE H == Hits(slab, from, count, d)
           m == Least(H)
<1>1. \A k \in H : k \in Nat /\ from <= k /\ k < from + count /\ slab + k \in d
  BY DEF Hits
<1>2. H \in SUBSET Nat /\ H # {}
  BY <1>1
<1>3. m \in H /\ \A k \in H : m <= k
  <2> HIDE DEF H
  <2>1. \E k \in H : \A l \in H : k <= l
    BY <1>2, LeastNat
  <2> QED
    BY <2>1 DEF Least
<1>4. ASSUME NEW k \in from..(m - 1)
      PROVE  slab + k \notin d
  <2>1. m \in Nat /\ m < from + count
    BY <1>1, <1>3
  <2> HIDE DEF m
  <2>2. k \in Nat /\ from <= k /\ k < m
    BY <2>1
  <2>3. k \notin H
    <3> HIDE DEF H
    <3> QED
      BY <1>3, <2>1, <2>2
  <2> QED
    BY <2>1, <2>2, <2>3 DEF Hits
<1> QED
  BY <1>1, <1>3, <1>4

LEMMA NextRows ==
  ASSUME NEW c \in Nat, NEW t \in Nat, NEW r \in Nat, NEW w \in Nat, NEW s \in Nat,
         NEW rb \in Nat, NEW rs \in Nat, NEW d,
         c + t <= r, CleanTill(c, w, s, rb, rs, d)
  PROVE  LET W == Hits(w, c * rb, t * rb, d)
             S == Hits(s, c * rs, t * rs, d)
         IN /\ W = {} /\ S = {} => CleanTill(c + t, w, s, rb, rs, d)
            /\ W # {} => FirstIs(Least(W), w, s, rb, rs, r, d)
            /\ W = {} /\ S # {} => FirstIs(r * rb + Least(S), w, s, rb, rs, r, d)
<1> DEFINE W == Hits(w, c * rb, t * rb, d)
           S == Hits(s, c * rs, t * rs, d)
<1>1. /\ c * rb \in Nat /\ t * rb \in Nat /\ c * rs \in Nat /\ t * rs \in Nat /\ r * rb \in Nat /\ r * rs \in Nat
      /\ (c + t) * rb = c * rb + t * rb /\ (c + t) * rs = c * rs + t * rs
      /\ c * rb + t * rb <= r * rb /\ c * rs + t * rs <= r * rs
  <2>1. c * rb \in Nat /\ t * rb \in Nat /\ c * rs \in Nat /\ t * rs \in Nat /\ r * rb \in Nat /\ r * rs \in Nat
    BY ProductIsNat
  <2>2. (c + t) * rb = c * rb + t * rb /\ (c + t) * rs = c * rs + t * rs
    OBVIOUS
  <2>3. (c + t) * rb <= r * rb /\ (c + t) * rs <= r * rs
    BY Monotone
  <2> QED
    BY <2>1, <2>2, <2>3
<1>2. /\ \A k \in 0..(c * rb - 1) : w + k \notin d
      /\ \A k \in 0..(c * rs - 1) : s + k \notin d
  BY DEF CleanTill
<1>3. PICK cb \in Nat, tb \in Nat, cs \in Nat, ts \in Nat, ob \in Nat, os \in Nat :
        /\ cb = c * rb /\ tb = t * rb /\ cs = c * rs /\ ts = t * rs /\ ob = r * rb /\ os = r * rs
        /\ (c + t) * rb = cb + tb /\ (c + t) * rs = cs + ts /\ cb + tb <= ob /\ cs + ts <= os
  BY <1>1
<1>9. /\ \A k \in 0..(cb - 1) : w + k \notin d
      /\ \A k \in 0..(cs - 1) : s + k \notin d
  BY <1>2, <1>3
<1>4. ASSUME W = {}
      PROVE  \A k \in 0..(cb + tb - 1) : w + k \notin d
  <2>1. W = Hits(w, cb, tb, d)
    BY <1>3
  <2> HIDE DEF W
  <2>2. \A k \in cb..(cb + tb - 1) : w + k \notin d
    BY <1>4, <2>1 DEF Hits
  <2>3. \A k \in 0..(cb + tb - 1) : k \in 0..(cb - 1) \/ k \in cb..(cb + tb - 1)
    BY <1>3
  <2> QED
    BY <1>9, <2>2, <2>3
<1>5. ASSUME S = {}
      PROVE  \A k \in 0..(cs + ts - 1) : s + k \notin d
  <2>1. S = Hits(s, cs, ts, d)
    BY <1>3
  <2> HIDE DEF S
  <2>2. \A k \in cs..(cs + ts - 1) : s + k \notin d
    BY <1>5, <2>1 DEF Hits
  <2>3. \A k \in 0..(cs + ts - 1) : k \in 0..(cs - 1) \/ k \in cs..(cs + ts - 1)
    BY <1>3
  <2> QED
    BY <1>9, <2>2, <2>3
<1> HIDE DEF W, S
<1>6. W = {} /\ S = {} => CleanTill(c + t, w, s, rb, rs, d)
  BY <1>3, <1>4, <1>5 DEF CleanTill
<1>7. ASSUME W # {}
      PROVE  FirstIs(Least(W), w, s, rb, rs, r, d)
  <2>1. PICK m \in Nat : /\ m = Least(W) /\ cb <= m /\ m < cb + tb /\ w + m \in d
                         /\ \A k \in cb..(m - 1) : w + k \notin d
    <3>1. W = Hits(w, cb, tb, d)
      BY <1>3 DEF W
    <3> QED
      BY <1>7, <3>1, LeastHit
  <2>2. m < ob
    BY <1>3, <2>1
  <2>3. \A k \in 0..(m - 1) : w + k \notin d
    <3>1. \A k \in 0..(m - 1) : k \in 0..(cb - 1) \/ k \in cb..(m - 1)
      BY <1>3, <2>1
    <3> QED
      BY <1>9, <2>1, <3>1
  <2>4. \A k \in 0..(m - 1) : ~Hit(k, w, s, ob, d)
    BY <2>2, <2>3 DEF Hit
  <2>5. Hit(m, w, s, ob, d) /\ m < ob + os
    BY <2>1, <2>2 DEF Hit
  <2>6. FirstIs(m, w, s, rb, rs, r, d)
    BY <1>3, <2>2, <2>4, <2>5 DEF FirstIs
  <2> QED
    BY <2>1, <2>6
<1>8. ASSUME W = {}, S # {}
      PROVE  FirstIs(r * rb + Least(S), w, s, rb, rs, r, d)
  <2>1. PICK m \in Nat : /\ m = Least(S) /\ cs <= m /\ m < cs + ts /\ s + m \in d
                         /\ \A k \in cs..(m - 1) : s + k \notin d
    <3>1. S = Hits(s, cs, ts, d)
      BY <1>3 DEF S
    <3> QED
      BY <1>8, <3>1, LeastHit
  <2>2. PICK n \in Nat : n = ob + m
    BY <2>1
  <2>3. n < ob + os /\ n >= ob /\ n - ob = m
    BY <1>3, <2>1, <2>2
  <2>4. Hit(n, w, s, ob, d)
    BY <2>1, <2>3 DEF Hit
  <2>5. ASSUME NEW k \in 0..(n - 1), Hit(k, w, s, ob, d)
        PROVE  k < ob
    <3>1. SUFFICES ASSUME k >= ob
                   PROVE  FALSE
      OBVIOUS
    <3>2. s + (k - ob) \in d
      BY <2>5, <3>1 DEF Hit
    <3>3. k - ob \in 0..(m - 1)
      BY <2>2, <3>1
    <3>4. \A l \in 0..(m - 1) : s + l \notin d
      BY <1>2, <1>3, <2>1
    <3> QED
      BY <3>2, <3>3, <3>4
  <2>6. ASSUME NEW k \in 0..(ob - 1), Hit(k, w, s, ob, d)
        PROVE  k \div rb > m \div rs
    <3>1. w + k \in d /\ k \in Nat /\ k < ob
      BY <2>6 DEF Hit
    <3>2. k >= (c + t) * rb
      <4>1. k \notin 0..(cb + tb - 1)
        BY <1>4, <1>8, <3>1
      <4> QED
        BY <1>3, <3>1, <4>1
    <3>3. m < (c + t) * rs
      BY <1>3, <2>1
    <3>4. rb > 0
      <4>1. ob > 0
        BY <3>1
      <4> QED
        BY <1>3, <4>1, ProductIsNat
    <3>5. rs > 0
      <4>1. (c + t) * rs > 0
        BY <1>3, <2>1
      <4> QED
        BY <4>1, ProductIsNat
    <3>6. k \div rb >= c + t
      BY <3>1, <3>2, <3>4, DivBelow
    <3>7. m \div rs < c + t
      BY <2>1, <3>3, <3>5, DivBelow
    <3>8. k \div rb \in Int /\ m \div rs \in Int
      BY <3>1, <3>4, <3>5
    <3> QED
      BY <3>6, <3>7, <3>8
  <2>7. FirstIs(n, w, s, rb, rs, r, d)
    BY <1>3, <2>3, <2>4, <2>5, <2>6 DEF FirstIs
  <2>8. n = r * rb + Least(S)
    BY <1>3, <2>1, <2>2
  <2> QED
    BY <2>7, <2>8
<1> QED
  BY <1>6, <1>7, <1>8 DEF W, S

Holding(d) == \A i \in 1..N, p \in Parts : \A k \in 0..(Length(i, p) - 1) :
  /\ Place(i, p) + k \in DOMAIN file
  /\ file[Place(i, p) + k] = IF Place(i, p) + k \in d THEN <<"damaged">> ELSE Byte(i, p, k)
Looked ==
  IF mismatch = None
  THEN CleanTill(compared, payload[target], scale[target], RowBytes(T(target)), RowScales(T(target)), damaged)
  ELSE FirstIs(mismatch, payload[target], scale[target], RowBytes(T(target)), RowScales(T(target)),
               T(target).rows, damaged)
Comparing == progress \in {"compare", "compared"} =>
  /\ target \in 1..N /\ ~Omitted(T(target))
  /\ \E q : as = [T(target) EXCEPT !.qtype = q]
  /\ compareChunk \in Nat \ {0}
  /\ compared \in Nat /\ compared <= T(target).rows
  /\ progress = "compared" => compared = T(target).rows
  /\ as = T(target) => Looked
CompareInv ==
  /\ stage # "damaged" => damaged = {}
  /\ stage = "damaged" => Holding(damaged)
  /\ progress \in {"none", "compare", "compared", "error"}
  /\ progress = "none" => compared = 0 /\ mismatch = None
  /\ progress # "none" => stage \in {"done", "damaged"}
  /\ Comparing

LEMMA BytesDiffer ==
  ASSUME NEW i, NEW p, NEW k
  PROVE  Byte(i, p, k) # <<"damaged">>
<1>1. DOMAIN Byte(i, p, k) = 1..3 /\ DOMAIN <<"damaged">> = 1..1
  BY DEF Byte
<1>2. 3 \in 1..3 /\ 3 \notin 1..1
  OBVIOUS
<1> QED
  BY <1>1, <1>2

(* What a finished file holds, damaged or not.                             *)
LEMMA HoldingWhenDone ==
  ASSUME FileInv, stage = "done"
  PROVE  Holding({})
<1>1. Content /\ current = N + 1 /\ N \in Nat
  BY DEF FileInv, Filling, LayoutInv, PlanTyped
<1>2. \A i \in 1..N, p \in Parts : Reach(i, p) = Length(i, p)
  BY <1>1 DEF Reach
<1> QED
  BY <1>1, <1>2 DEF Content, Holding

LEMMA HoldingStill ==
  ASSUME FileInv, CompareInv, stage \in {"done", "damaged"}
  PROVE  Holding(damaged)
<1> QED
  BY HoldingWhenDone DEF CompareInv

LEMMA WrongIsHit ==
  ASSUME NEW d, Holding(d), NEW part \in Parts, target \in 1..N, NEW from \in Nat, NEW count \in Nat,
         Length(target, part) \in Nat, from + count <= Length(target, part)
  PROVE  Wrong(part, Place(target, part), from, count) = Hits(Place(target, part), from, count, d)
<1>0. PICK a : a = Place(target, part)
  OBVIOUS
<1>1. PICK i \in 1..N, l \in Nat : i = target /\ a = Place(target, part) /\ l = Length(target, part)
  BY <1>0
<1>2. ASSUME NEW k \in from..(from + count - 1)
      PROVE  (a + k \notin DOMAIN file \/ file[a + k] # Byte(i, part, k)) <=> a + k \in d
  <2>1. k \in 0..(Length(i, part) - 1)
    BY <1>1
  <2>2. /\ a + k \in DOMAIN file
        /\ file[a + k] = IF a + k \in d THEN <<"damaged">> ELSE Byte(i, part, k)
    BY <1>1, <2>1 DEF Holding
  <2> QED
    BY <2>2, BytesDiffer
<1> QED
  BY <1>1, <1>2 DEF Wrong, Hits

LEMMA ComparePeriod ==
  ASSUME CompareInv, UNCHANGED <<tensors, payload, scale, file, stage, target, as, compareChunk, progress, compared,
                                 mismatch, damaged>>
  PROVE  CompareInv'
<1>1. /\ N' = N
      /\ \A i : /\ T(i)' = T(i)
                /\ OutBytes(T(i))' = OutBytes(T(i)) /\ ScaleBytes(T(i))' = ScaleBytes(T(i))
  BY SameTensors DEF T
<1>2. \A i, p : Place(i, p)' = Place(i, p) /\ Length(i, p)' = Length(i, p)
  BY <1>1 DEF Place, Length
<1>3. PICK i, d : i = target /\ d = damaged
  OBVIOUS
<1>4. Holding(d)' <=> Holding(d)
  BY <1>1, <1>2 DEF Holding, Byte
<1>5. Looked' <=> Looked
  <2>1. PICK m, c, w, s, t : /\ m = mismatch /\ c = compared /\ w = payload[target] /\ s = scale[target]
                             /\ t = T(target)
    OBVIOUS
  <2>2. m = mismatch' /\ c = compared' /\ w = payload'[target'] /\ s = scale'[target'] /\ t = T(target)'
    BY <1>1, <1>3, <2>1
  <2>3. Looked <=> IF m = None THEN CleanTill(c, w, s, RowBytes(t), RowScales(t), d)
                               ELSE FirstIs(m, w, s, RowBytes(t), RowScales(t), t.rows, d)
    BY <1>3, <2>1 DEF Looked
  <2>4. Looked' <=> IF m = None THEN CleanTill(c, w, s, RowBytes(t), RowScales(t), d)
                                ELSE FirstIs(m, w, s, RowBytes(t), RowScales(t), t.rows, d)
    BY <1>3, <2>2 DEF Looked, RowBytes, RowScales, Quantized, CleanTill, FirstIs, Hit
  <2> QED
    BY <2>3, <2>4
<1>6. Comparing' <=> Comparing
  BY <1>1, <1>3, <1>5 DEF Comparing, Omitted
<1> QED
  BY <1>3, <1>4, <1>6 DEF CompareInv

(* A conversion that has ended changes nothing any more.                   *)
LEMMA ConvertCompare ==
  ASSUME ConversionInv, CompareInv, Convert \/ UNCHANGED allVars
  PROVE  CompareInv'
<1>0. UNCHANGED <<target, as, compareChunk, progress, compared, mismatch, damaged>>
  BY DEF Convert, allVars, compareVars
<1>1. CASE stage \in {"done", "damaged"}
  <2>1. UNCHANGED <<tensors, payload, scale, file, stage>>
    <3>1. phase \notin {"metadata", "resolving"}
      BY <1>1 DEF ConversionInv, SourceInv, Checked, Reading
    <3> QED
      BY <1>1, <3>1 DEF Convert, allVars, conversionVars, vars, plan, layoutVars, streamVars, Next, Source, ReadMetadata,
         Layout, LayoutNext, SkipEmpty, StartGroup, PlacePayload, PlaceScale, Validate, SelectTensor,
         ResolvePayloads, CheckShard, OpenShard, ReplaceShard, Write, WriteQuietly, WriteMetadata, WriteRows, NextTensor, Truncate, FailWriting, Streaming
  <2> QED
    BY <1>0, <2>1, ComparePeriod
<1>2. CASE stage \notin {"done", "damaged"}
  <2>1. damaged = {} /\ progress = "none" /\ compared = 0 /\ mismatch = None
    BY <1>2 DEF CompareInv
  <2>2. stage' # "damaged"
    BY <1>2 DEF Convert, allVars, conversionVars, vars, Next, Source, ReadMetadata, LayOut,
       Layout, LayoutNext, SkipEmpty, StartGroup, PlacePayload, PlaceScale, Validate, SelectTensor,
       ResolvePayloads, CheckShard, OpenShard, ReplaceShard, Write, WriteQuietly, WriteMetadata, WriteRows, NextTensor, Truncate, FailWriting, Streaming
  <2> QED
    BY <1>0, <2>1, <2>2 DEF CompareInv, Comparing
<1> QED
  BY <1>1, <1>2

LEMMA DamageCompare ==
  ASSUME ConversionInv, CompareInv, Damage
  PROVE  CompareInv'
<1>1. /\ stage = "done" /\ stage' = "damaged" /\ progress = "none"
      /\ UNCHANGED <<tensors, payload, scale, progress, compared, mismatch>>
      /\ file' = [o \in DOMAIN file |-> IF o \in damaged' THEN <<"damaged">> ELSE file[o]]
  BY DEF Damage, plan, layoutVars
<1>2. Holding({})
  BY <1>1, HoldingWhenDone DEF ConversionInv
<1>3. N' = N /\ \A i, p : Place(i, p)' = Place(i, p) /\ Length(i, p)' = Length(i, p)
  <2>1. N' = N /\ \A i : OutBytes(T(i))' = OutBytes(T(i)) /\ ScaleBytes(T(i))' = ScaleBytes(T(i))
    BY <1>1, SameTensors
  <2> QED
    BY <1>1, <2>1 DEF Place, Length
<1>4. PICK d : d = damaged'
  OBVIOUS
<1>5. Holding(d)'
  <2>1. SUFFICES ASSUME NEW i \in 1..N, NEW p \in Parts, NEW k \in 0..(Length(i, p) - 1)
                 PROVE  /\ Place(i, p) + k \in DOMAIN file'
                        /\ file'[Place(i, p) + k] = IF Place(i, p) + k \in d THEN <<"damaged">> ELSE Byte(i, p, k)
    BY <1>3 DEF Holding, Byte
  <2>2. PICK o : o = Place(i, p) + k
    OBVIOUS
  <2>3. o \in DOMAIN file /\ file[o] = Byte(i, p, k)
    BY <1>2, <2>2 DEF Holding
  <2> QED
    BY <1>1, <1>4, <2>2, <2>3
<1> QED
  BY <1>1, <1>4, <1>5 DEF CompareInv, Comparing

LEMMA StartCompareStep ==
  ASSUME ConversionInv, CompareInv, StartCompare
  PROVE  CompareInv'
<1>1. /\ stage \in {"done", "damaged"} /\ progress = "none" /\ compared = 0 /\ mismatch = None
      /\ UNCHANGED <<conversionVars, compared, mismatch, damaged>>
  BY DEF StartCompare, CompareInv
<1>2. UNCHANGED <<tensors, payload, scale, file, stage>>
  BY <1>1 DEF conversionVars, vars, plan, layoutVars, streamVars
<1>3. PICK i \in 1..N : /\ target' = i /\ (\E q : as' = [T(i) EXCEPT !.qtype = q])
                        /\ compareChunk' \in ChunkRows
                        /\ progress' = IF Omitted(T(i)) THEN "error" ELSE "compare"
  BY DEF StartCompare
<1>4. /\ N' = N
      /\ \A j : /\ T(j)' = T(j)
                /\ OutBytes(T(j))' = OutBytes(T(j)) /\ ScaleBytes(T(j))' = ScaleBytes(T(j))
  BY <1>2, SameTensors DEF T
<1>5. \A j, p : Place(j, p)' = Place(j, p) /\ Length(j, p)' = Length(j, p)
  BY <1>2, <1>4 DEF Place, Length
<1>6. PICK d : d = damaged
  OBVIOUS
<1>7. Holding(d)' <=> Holding(d)
  BY <1>2, <1>4, <1>5 DEF Holding, Byte
<1>8. TensorOK(T(i)) /\ T(i).rows \in Nat
  BY DEF ConversionInv, FileInv, LayoutInv, PlanTyped, TensorOK
<1>9. Looked'
  <2>1. PICK w, s, t : w = payload[i] /\ s = scale[i] /\ t = T(i)
    OBVIOUS
  <2>2. w = payload'[target'] /\ s = scale'[target'] /\ t = T(target)' /\ compared' = 0 /\ mismatch' = None
    BY <1>1, <1>2, <1>3, <1>4, <2>1
  <2>3. RowBytes(t) \in Nat /\ RowScales(t) \in Nat
    BY <1>8, <2>1, RowSizes
  <2>4. CleanTill(0, w, s, RowBytes(t), RowScales(t), d)
    BY <2>3 DEF CleanTill
  <2>5. Looked' <=> CleanTill(0, w, s, RowBytes(t), RowScales(t), d)
    BY <1>1, <1>6, <2>2 DEF Looked, RowBytes, RowScales, Quantized, CleanTill
  <2> QED
    BY <2>4, <2>5
<1>10. Comparing'
  <2>1. compareChunk' \in Nat \ {0}
    BY <1>3, FileConstants
  <2>2. target' \in 1..N' /\ T(target)' = T(i)
    BY <1>3, <1>4
  <2>3. (\E r : as = [T(target) EXCEPT !.qtype = r])'
    BY <1>3, <2>2
  <2>4. progress' = "compare" => ~Omitted(T(target))'
    BY <1>3, <2>2 DEF Omitted
  <2>5. compared' \in Nat /\ compared' <= T(target)'.rows /\ progress' # "compared"
    <3>1. compared' = 0 /\ progress' \in {"error", "compare"}
      BY <1>1, <1>3
    <3> QED
      BY <1>8, <2>2, <3>1
  <2>6. progress' \in {"compare", "compared"} => ~Omitted(T(target))'
    BY <2>4, <2>5
  <2> QED
    BY <1>9, <2>1, <2>2, <2>3, <2>5, <2>6 DEF Comparing
<1> QED
  BY <1>1, <1>2, <1>3, <1>6, <1>7, <1>10 DEF CompareInv

(* Facts about the tensor that is compared.                                *)
LEMMA Compared ==
  ASSUME ConversionInv, CompareInv, progress \in {"compare", "compared"}, as = T(target)
  PROVE  /\ target \in 1..N /\ Holding(damaged)
         /\ payload[target] \in Nat /\ scale[target] \in Nat
         /\ as.rows \in Nat /\ RowBytes(as) \in Nat /\ RowScales(as) \in Nat
         /\ OutBytes(as) = as.rows * RowBytes(as) /\ ScaleBytes(as) = as.rows * RowScales(as)
         /\ compared \in Nat /\ compareChunk \in Nat /\ compared <= as.rows
         /\ payload[target] # 0 <=> OutBytes(as) > 0
         /\ scale[target] # 0 <=> ScaleBytes(as) > 0
<1>1. /\ LayoutInv /\ FileInv /\ Comparing /\ stage \in {"done", "damaged"} /\ target \in 1..N
      /\ ~Omitted(as) /\ TensorOK(as) /\ compared \in Nat /\ compareChunk \in Nat /\ compared <= as.rows
  BY DEF ConversionInv, FileInv, LayoutInv, PlanTyped, CompareInv, Comparing
<1>2. /\ RowBytes(as) \in Nat /\ RowScales(as) \in Nat /\ as.rows \in Nat
      /\ OutBytes(as) = as.rows * RowBytes(as) /\ ScaleBytes(as) = as.rows * RowScales(as)
  BY <1>1, Sizes, RowSizes DEF TensorOK
<1>3. Placed(target)
  BY <1>1 DEF LayoutInv, Placing, LaidStages
<1>4. payload[target] \in Nat /\ scale[target] \in Nat
  BY <1>1 DEF LayoutInv, Bounds
<1>5. Holding(damaged)
  BY <1>1, HoldingStill
<1> QED
  BY <1>1, <1>2, <1>3, <1>4, <1>5 DEF Placed

LEMMA CompareRowsLooks ==
  ASSUME ConversionInv, CompareInv, CompareRows, as = T(target)
  PROVE  Looked'
<1>0. /\ progress = "compare" /\ compared < as.rows
      /\ compared' = compared + Take
      /\ mismatch' = IF mismatch = None THEN FirstWrong ELSE mismatch
      /\ UNCHANGED <<conversionVars, target, damaged>>
  BY DEF CompareRows
<1>1. UNCHANGED <<tensors, payload, scale, target, damaged>>
  BY <1>0 DEF conversionVars, vars, plan, layoutVars
<1>2. /\ target \in 1..N /\ Holding(damaged)
      /\ payload[target] \in Nat /\ scale[target] \in Nat
      /\ as.rows \in Nat /\ RowBytes(as) \in Nat /\ RowScales(as) \in Nat
      /\ OutBytes(as) = as.rows * RowBytes(as) /\ ScaleBytes(as) = as.rows * RowScales(as)
      /\ compared \in Nat /\ compareChunk \in Nat /\ compared <= as.rows
  BY <1>0, Compared
<1>10. PICK t, d : t = T(target) /\ d = damaged
  OBVIOUS
<1>3. PICK w \in Nat, s \in Nat, r \in Nat, rb \in Nat, rs \in Nat, c \in Nat :
        /\ t = T(target) /\ w = payload[target] /\ s = scale[target] /\ r = as.rows
        /\ rb = RowBytes(as) /\ rs = RowScales(as) /\ c = compared /\ d = damaged
  BY <1>2, <1>10
<1>4. PICK k \in Nat : k = Take /\ c + k <= r
  <2>1. Take \in Nat /\ compared + Take <= as.rows
    BY <1>0, <1>2 DEF Take, Left
  <2> QED
    BY <1>3, <2>1
<1>5. Looked <=> IF mismatch = None THEN CleanTill(c, w, s, rb, rs, d) ELSE FirstIs(mismatch, w, s, rb, rs, r, d)
  BY <1>3 DEF Looked
<1>6. Looked' <=> IF mismatch' = None THEN CleanTill(c + k, w, s, rb, rs, d)
                                      ELSE FirstIs(mismatch', w, s, rb, rs, r, d)
  <2>1. T(target)' = t /\ payload'[target'] = w /\ scale'[target'] = s /\ compared' = c + k /\ damaged' = d
    BY <1>0, <1>1, <1>3, <1>4 DEF T
  <2>2. RowBytes(T(target))' = rb /\ RowScales(T(target))' = rs /\ t.rows = r
    BY <1>3, <2>1 DEF RowBytes, RowScales, Quantized
  <2> QED
    BY <2>1, <2>2 DEF Looked, CleanTill, FirstIs, Hit
<1>7. Looked
  BY <1>0 DEF CompareInv, Comparing
<1>8. CASE mismatch # None
  BY <1>0, <1>5, <1>6, <1>7, <1>8 DEF FirstIs
<1>9. CASE mismatch = None
  <2>1. c * rb \in Nat /\ k * rb \in Nat /\ c * rs \in Nat /\ k * rs \in Nat /\ r * rb \in Nat /\ r * rs \in Nat
        /\ c * rb + k * rb <= r * rb /\ c * rs + k * rs <= r * rs
    <3>1. (c + k) * rb = c * rb + k * rb /\ (c + k) * rs = c * rs + k * rs
      OBVIOUS
    <3>2. (c + k) * rb <= r * rb /\ (c + k) * rs <= r * rs
      BY <1>4, Monotone
    <3> QED
      BY <3>1, <3>2, ProductIsNat
  <2>2. Length(target, "weight") = r * rb /\ Length(target, "scale") = r * rs
        /\ Place(target, "weight") = w /\ Place(target, "scale") = s
    BY <1>2, <1>3 DEF Length, Place
  <2>3. WrongWeights = Hits(w, c * rb, k * rb, d)
    <3>1. Wrong("weight", Place(target, "weight"), c * rb, k * rb) = Hits(Place(target, "weight"), c * rb, k * rb, d)
      BY <1>2, <1>3, <2>1, <2>2, WrongIsHit DEF Parts
    <3> QED
      BY <1>3, <1>4, <2>2, <3>1 DEF WrongWeights
  <2>4. WrongScales = Hits(s, c * rs, k * rs, d)
    <3>1. Wrong("scale", Place(target, "scale"), c * rs, k * rs) = Hits(Place(target, "scale"), c * rs, k * rs, d)
      BY <1>2, <1>3, <2>1, <2>2, WrongIsHit DEF Parts
    <3> QED
      BY <1>3, <1>4, <2>2, <3>1 DEF WrongScales
  <2>5. CleanTill(c, w, s, rb, rs, d)
    BY <1>5, <1>7, <1>9
  <2>6. PICK W, S : W = WrongWeights /\ S = WrongScales
    OBVIOUS
  <2>7. /\ W = {} /\ S = {} => CleanTill(c + k, w, s, rb, rs, d)
        /\ W # {} => FirstIs(Least(W), w, s, rb, rs, r, d)
        /\ W = {} /\ S # {} => FirstIs(r * rb + Least(S), w, s, rb, rs, r, d)
    BY <1>4, <2>3, <2>4, <2>5, <2>6, NextRows
  <2>8. mismatch' = IF W # {} THEN Least(W) ELSE IF S # {} THEN r * rb + Least(S) ELSE None
    BY <1>0, <1>2, <1>3, <1>9, <2>6 DEF FirstWrong
  <2>9. \A m : FirstIs(m, w, s, rb, rs, r, d) => m # None
    BY NoMismatch DEF FirstIs
  <2> QED
    BY <1>6, <2>7, <2>8, <2>9
<1> QED
  BY <1>8, <1>9

(* A step of the comparison that leaves the file alone.                    *)
Kept == UNCHANGED <<conversionVars, target, as, compareChunk, damaged>>

LEMMA KeptFacts ==
  ASSUME Kept, CompareInv, stage \in {"done", "damaged"}
  PROVE  /\ stage' = stage /\ T(target)' = T(target) /\ N' = N
         /\ damaged' = damaged /\ as' = as /\ target' = target /\ compareChunk' = compareChunk
         /\ stage' # "damaged" => damaged' = {}
         /\ stage' = "damaged" => Holding(damaged)'
<1>1. UNCHANGED <<tensors, payload, scale, file, stage, target, as, compareChunk, damaged>>
  BY DEF Kept, conversionVars, vars, plan, layoutVars, streamVars
<1>2. /\ N' = N
      /\ \A j : /\ T(j)' = T(j)
                /\ OutBytes(T(j))' = OutBytes(T(j)) /\ ScaleBytes(T(j))' = ScaleBytes(T(j))
  BY <1>1, SameTensors DEF T
<1>3. \A j, p : Place(j, p)' = Place(j, p) /\ Length(j, p)' = Length(j, p)
  BY <1>1, <1>2 DEF Place, Length
<1>4. PICK d : d = damaged
  OBVIOUS
<1>5. Holding(d)' <=> Holding(d)
  BY <1>1, <1>2, <1>3 DEF Holding, Byte
<1>6. stage = "damaged" => Holding(damaged)'
  BY <1>1, <1>4, <1>5 DEF CompareInv
<1>7. T(target)' = T(target)
  BY <1>1 DEF T
<1>8. stage # "damaged" => damaged = {}
  BY DEF CompareInv
<1> QED
  BY <1>1, <1>2, <1>6, <1>7, <1>8

LEMMA CompareRowsStep ==
  ASSUME ConversionInv, CompareInv, CompareRows
  PROVE  CompareInv'
<1>1. /\ progress = "compare" /\ compared < as.rows /\ compared' = compared + Take
      /\ progress' = "compare" /\ Kept
  BY DEF CompareRows, Kept
<1>2. Comparing /\ stage \in {"done", "damaged"}
  BY <1>1 DEF CompareInv
<1>3. /\ stage' = stage /\ T(target)' = T(target) /\ N' = N
      /\ damaged' = damaged /\ as' = as /\ target' = target /\ compareChunk' = compareChunk
      /\ stage' # "damaged" => damaged' = {}
      /\ stage' = "damaged" => Holding(damaged)'
  BY <1>1, <1>2, KeptFacts
<1>4. /\ target \in 1..N /\ ~Omitted(T(target))
      /\ \E q : as = [T(target) EXCEPT !.qtype = q]
      /\ compareChunk \in Nat \ {0}
      /\ compared \in Nat /\ compared <= T(target).rows
  BY <1>1, <1>2 DEF Comparing
<1>5. as.rows = T(target).rows /\ T(target).rows \in Nat
  <2>1. T(target).rows \in Nat
    BY <1>4 DEF ConversionInv, FileInv, LayoutInv, PlanTyped, TensorOK
  <2> QED
    BY <1>4, <2>1
<1>6. compared' \in Nat /\ compared' <= T(target).rows
  <2>1. Take \in Nat /\ compared + Take <= as.rows
    BY <1>1, <1>4, <1>5 DEF Take, Left
  <2> QED
    BY <1>1, <1>4, <1>5, <2>1
<1>7. (as = T(target))' => Looked'
  BY <1>3, CompareRowsLooks
<1>8. Comparing'
  BY <1>1, <1>3, <1>4, <1>6, <1>7 DEF Comparing, Omitted
<1> QED
  BY <1>1, <1>2, <1>3, <1>8 DEF CompareInv

LEMMA FailCompareStep ==
  ASSUME ConversionInv, CompareInv, FailCompare
  PROVE  CompareInv'
<1>1. progress = "compare" /\ progress' = "error" /\ Kept
  BY DEF FailCompare, Kept
<1>2. stage \in {"done", "damaged"}
  BY <1>1 DEF CompareInv
<1> QED
  BY <1>1, <1>2, KeptFacts DEF CompareInv, Comparing

LEMMA EndCompareStep ==
  ASSUME ConversionInv, CompareInv, EndCompare
  PROVE  CompareInv'
<1>1. /\ progress = "compare" /\ compared = as.rows /\ progress' = "compared" /\ Kept /\ compared' = compared
      /\ mismatch' = IF mismatch = None /\ ActualBytes # ExpectedBytes
                     THEN Least({ActualBytes, ExpectedBytes}) ELSE mismatch
  BY DEF EndCompare, Kept
<1>2. Comparing /\ stage \in {"done", "damaged"}
  BY <1>1 DEF CompareInv
<1>3. /\ stage' = stage /\ T(target)' = T(target) /\ N' = N
      /\ damaged' = damaged /\ as' = as /\ target' = target /\ compareChunk' = compareChunk
      /\ stage' # "damaged" => damaged' = {}
      /\ stage' = "damaged" => Holding(damaged)'
  BY <1>1, <1>2, KeptFacts
<1>4. /\ target \in 1..N /\ ~Omitted(T(target))
      /\ \E q : as = [T(target) EXCEPT !.qtype = q]
      /\ compareChunk \in Nat \ {0}
      /\ compared \in Nat /\ compared <= T(target).rows
      /\ as = T(target) => Looked
  BY <1>1, <1>2 DEF Comparing
<1>5. as.rows = T(target).rows
  BY <1>4, <1>1
<1>6. ASSUME as = T(target)
      PROVE  Looked'
  <2>1. mismatch' = mismatch
    BY <1>1, <1>6 DEF ActualBytes, ExpectedBytes
  <2>2. PICK m, c, w, s, t, d : /\ m = mismatch /\ c = compared /\ w = payload[target] /\ s = scale[target]
                                /\ t = T(target) /\ d = damaged
    OBVIOUS
  <2>3. /\ m = mismatch' /\ c = compared' /\ w = payload'[target'] /\ s = scale'[target'] /\ t = T(target)'
        /\ d = damaged'
    BY <1>1, <1>3, <2>1, <2>2 DEF Kept, conversionVars, vars, layoutVars
  <2>4. Looked <=> IF m = None THEN CleanTill(c, w, s, RowBytes(t), RowScales(t), d)
                               ELSE FirstIs(m, w, s, RowBytes(t), RowScales(t), t.rows, d)
    BY <2>2 DEF Looked
  <2>5. Looked' <=> IF m = None THEN CleanTill(c, w, s, RowBytes(t), RowScales(t), d)
                                ELSE FirstIs(m, w, s, RowBytes(t), RowScales(t), t.rows, d)
    BY <2>3 DEF Looked, RowBytes, RowScales, Quantized, CleanTill, FirstIs, Hit
  <2> QED
    BY <1>4, <1>6, <2>4, <2>5
<1>7. Comparing'
  <2>1. (target \in 1..N /\ ~Omitted(T(target)))' /\ (\E q : as = [T(target) EXCEPT !.qtype = q])'
    BY <1>3, <1>4 DEF Omitted
  <2>2. compared' \in Nat /\ compared' = T(target)'.rows /\ compared' <= T(target)'.rows
    <3>1. PICK r \in Nat : r = compared
      BY <1>4
    <3>2. compared' = r
      BY <1>1, <3>1
    <3>3. T(target).rows = r
      BY <1>1, <1>5, <3>1
    <3>4. T(target)'.rows = r
      BY <1>3, <3>3
    <3>5. r <= r
      OBVIOUS
    <3> QED
      BY <3>1, <3>2, <3>4, <3>5
  <2>3. (compareChunk \in Nat \ {0})' /\ ((as = T(target))' => Looked')
    BY <1>3, <1>4, <1>6
  <2> QED
    BY <2>1, <2>2, <2>3 DEF Comparing
<1> QED
  BY <1>1, <1>2, <1>3, <1>7 DEF CompareInv

LEMMA CompareStep ==
  ASSUME ConversionInv, CompareInv, [CompareNext]_allVars
  PROVE  CompareInv'
<1>1. CASE Convert \/ UNCHANGED allVars
  BY <1>1, ConvertCompare
<1>2. CASE Damage
  BY <1>2, DamageCompare
<1>3. CASE StartCompare
  BY <1>3, StartCompareStep
<1>4. CASE CompareRows
  BY <1>4, CompareRowsStep
<1>5. CASE FailCompare
  BY <1>5, FailCompareStep
<1>6. CASE EndCompare
  BY <1>6, EndCompareStep
<1> QED
  BY <1>1, <1>2, <1>3, <1>4, <1>5, <1>6 DEF CompareNext

(* Damage in the regions of a tensor is a hit.                             *)
LEMMA HitOrUndamaged ==
  ASSUME ConversionInv, CompareInv, progress = "compared", as = T(target)
  PROVE  mismatch = None <=> Undamaged
<1>1. /\ payload[target] \in Nat /\ scale[target] \in Nat
      /\ as.rows \in Nat /\ RowBytes(as) \in Nat /\ RowScales(as) \in Nat
      /\ OutBytes(as) = as.rows * RowBytes(as) /\ ScaleBytes(as) = as.rows * RowScales(as)
      /\ payload[target] # 0 <=> OutBytes(as) > 0
      /\ scale[target] # 0 <=> ScaleBytes(as) > 0
  BY Compared
<1>2. compared = as.rows /\ Looked
  BY DEF CompareInv, Comparing
<1>3. PICK d : d = damaged
  OBVIOUS
<1>4. PICK w \in Nat, s \in Nat, r \in Nat, rb \in Nat, rs \in Nat, out \in Nat, os \in Nat :
        /\ w = payload[target] /\ s = scale[target] /\ r = as.rows
        /\ rb = RowBytes(as) /\ rs = RowScales(as) /\ out = r * rb /\ os = r * rs
        /\ OutBytes(as) = out /\ ScaleBytes(as) = os /\ (w # 0 <=> out > 0) /\ (s # 0 <=> os > 0)
  BY <1>1, ProductIsNat
<1>5. IF mismatch = None THEN CleanTill(r, w, s, rb, rs, d) ELSE FirstIs(mismatch, w, s, rb, rs, r, d)
  BY <1>2, <1>3, <1>4 DEF Looked
<1>6. Undamaged <=> d \cap ((IF w = 0 THEN {} ELSE w..(w + out - 1)) \cup (IF s = 0 THEN {} ELSE s..(s + os - 1))) = {}
  <2>1. Region(payload, OutBytes, target) = IF w = 0 THEN {} ELSE w..(w + out - 1)
    BY <1>4 DEF Region, Span
  <2>2. Region(scale, ScaleBytes, target) = IF s = 0 THEN {} ELSE s..(s + os - 1)
    BY <1>4 DEF Region, Span
  <2> QED
    BY <1>3, <2>1, <2>2 DEF Undamaged
<1>7. ASSUME mismatch = None
      PROVE  Undamaged
  <2>1. /\ \A k \in 0..(out - 1) : w + k \notin d
        /\ \A k \in 0..(os - 1) : s + k \notin d
    BY <1>4, <1>5, <1>7 DEF CleanTill
  <2>2. ASSUME NEW o \in w..(w + out - 1)
        PROVE  o \notin d
    <3>1. PICK k \in 0..(out - 1) : w + k = o
      <4>1. o - w \in 0..(out - 1) /\ w + (o - w) = o
        OBVIOUS
      <4> QED
        BY <4>1
    <3> QED
      BY <2>1, <3>1
  <2>3. ASSUME NEW o \in s..(s + os - 1)
        PROVE  o \notin d
    <3>1. PICK k \in 0..(os - 1) : s + k = o
      <4>1. o - s \in 0..(os - 1) /\ s + (o - s) = o
        OBVIOUS
      <4> QED
        BY <4>1
    <3> QED
      BY <2>1, <3>1
  <2> QED
    BY <1>6, <2>2, <2>3
<1>8. ASSUME mismatch # None
      PROVE  ~Undamaged
  <2>1. PICK m \in Nat : m = mismatch /\ m < out + os /\ Hit(m, w, s, out, d)
    BY <1>4, <1>5, <1>8 DEF FirstIs
  <2>2. CASE m < out
    <3>1. w + m \in d /\ w # 0 /\ w + m \in w..(w + out - 1)
      BY <1>4, <2>1, <2>2 DEF Hit
    <3> QED
      BY <1>6, <3>1
  <2>3. CASE ~(m < out)
    <3>1. PICK k \in Nat : k = m - out
      BY <2>1, <2>3
    <3>2. s + k \in d
      BY <2>1, <2>3, <3>1 DEF Hit
    <3>3. k < os
      BY <2>1, <3>1
    <3>4. s # 0
      BY <1>4, <3>3
    <3>5. s + k \in s..(s + os - 1)
      BY <3>3
    <3> QED
      BY <1>6, <3>2, <3>4, <3>5
  <2> QED
    BY <2>2, <2>3
<1> QED
  BY <1>7, <1>8

LEMMA DecidesHolds ==
  ASSUME ConversionInv, CompareInv
  PROVE  CompareDecides
<1>1. SUFFICES ASSUME progress = "compared"
               PROVE  ExitStatus = 0 <=> asProfile = opts.profile /\ as = T(target) /\ Undamaged
  BY DEF CompareDecides
<1>2. ExitStatus = 0 <=> PayloadMatches /\ MetadataMatches
  BY DEF ExitStatus
<1>3. CASE asProfile = opts.profile /\ as = T(target)
  <2>1. /\ scale[target] \in Nat
        /\ as.rows \in Nat /\ RowBytes(as) \in Nat /\ RowScales(as) \in Nat
        /\ OutBytes(as) = as.rows * RowBytes(as) /\ ScaleBytes(as) = as.rows * RowScales(as)
        /\ scale[target] # 0 <=> ScaleBytes(as) > 0
    BY <1>1, <1>3, Compared
  <2>2. ScaleBytes(as) \in Nat
    BY <2>1, ProductIsNat
  <2>3. MetadataMatches
    <3>1. scale[target] # 0 <=> ScaleBytes(as) # 0
      <4>1. PICK os \in Nat : os = ScaleBytes(as)
        BY <2>2
      <4>2. os > 0 <=> os # 0
        OBVIOUS
      <4> QED
        BY <2>1, <4>1, <4>2
    <3> QED
      BY <1>3, <3>1 DEF MetadataMatches
  <2>4. compared = as.rows
    BY <1>1, <1>3 DEF CompareInv, Comparing
  <2>5. ComparedBytes = ExpectedBytes
    <3>1. PICK r \in Nat, rb \in Nat, rs \in Nat : r = as.rows /\ rb = RowBytes(as) /\ rs = RowScales(as)
      BY <2>1
    <3>2. r * (rb + rs) = r * rb + r * rs
      OBVIOUS
    <3> QED
      BY <2>1, <2>4, <3>1, <3>2 DEF ComparedBytes, ExpectedBytes
  <2>6. PayloadMatches <=> mismatch = None
    BY <2>5 DEF PayloadMatches
  <2>7. mismatch = None <=> Undamaged
    BY <1>1, <1>3, HitOrUndamaged
  <2> QED
    BY <1>2, <1>3, <2>3, <2>6, <2>7
<1>4. CASE as # T(target)
  <2>1. PICK q : target \in 1..N /\ as = [T(target) EXCEPT !.qtype = q]
    BY <1>1 DEF CompareInv, Comparing
  <2>2. PICK n : T(target) = Planned(n)
    <3>1. stage # "source"
      BY <1>1 DEF CompareInv
    <3> QED
      BY <2>1, <3>1 DEF ConversionInv, SourceInv, FromPlan
  <2>3. T(target).qtype # as.qtype
    <3>1. as.qtype = q
      BY <2>1, <2>2 DEF Planned
    <3>2. q = T(target).qtype => as = T(target)
      BY <2>1, <2>2 DEF Planned
    <3> QED
      BY <1>4, <3>1, <3>2
  <2> QED
    BY <1>2, <1>4, <2>3 DEF MetadataMatches
<1>5. CASE asProfile # opts.profile
  BY <1>2, <1>5 DEF MetadataMatches
<1> QED
  BY <1>3, <1>4, <1>5

LEMMA MismatchHolds ==
  ASSUME ConversionInv, CompareInv
  PROVE  FirstMismatchReal
<1>1. SUFFICES ASSUME progress = "compared", mismatch # None, as = T(target)
               PROVE  LET out == OutBytes(as) IN
                      /\ mismatch < ExpectedBytes /\ DamagedAt(mismatch)
                      /\ \A k \in 0..(mismatch - 1) : DamagedAt(k) => mismatch >= out /\ k < out
                      /\ mismatch >= out =>
                           \A k \in 0..(out - 1) : DamagedAt(k) =>
                             k \div RowBytes(as) > (mismatch - out) \div RowScales(as)
  BY Zenon DEF FirstMismatchReal
<1>2. /\ OutBytes(as) = as.rows * RowBytes(as) /\ ScaleBytes(as) = as.rows * RowScales(as)
  BY <1>1, Compared
<1>3. Looked
  BY <1>1 DEF CompareInv, Comparing
<1>4. PICK d : d = damaged
  OBVIOUS
<1>5. PICK w, s, r, rb, rs, out : /\ w = payload[target] /\ s = scale[target] /\ r = as.rows
                                  /\ rb = RowBytes(as) /\ rs = RowScales(as) /\ out = OutBytes(as)
                                  /\ out = r * rb /\ ExpectedBytes = out + r * rs
  BY <1>2 DEF ExpectedBytes
<1>6. FirstIs(mismatch, w, s, rb, rs, r, d)
  BY <1>1, <1>3, <1>4, <1>5 DEF Looked
<1>7. \A k : DamagedAt(k) <=> Hit(k, w, s, out, d)
  BY <1>4, <1>5 DEF DamagedAt, Hit
<1>8. PICK m : m = mismatch
  OBVIOUS
<1>9. /\ m < out + r * rs /\ Hit(m, w, s, out, d)
      /\ \A k \in 0..(m - 1) : Hit(k, w, s, out, d) => m >= out /\ k < out
      /\ m >= out =>
           \A k \in 0..(out - 1) : Hit(k, w, s, out, d) => k \div rb > (m - out) \div rs
  BY <1>5, <1>6, <1>8 DEF FirstIs
<1> QED
  BY <1>5, <1>7, <1>8, <1>9

(* `--compare-uocr --tensor` exits with 0 exactly if the file was          *)
(* converted under the profile of the plan, the type of the tensor is the  *)
(* plan's and no byte of it differs, and the first mismatch it names is    *)
(* one, with nothing before it in the rows compared: for every damage and  *)
(* whatever the profile, the configuration and the two sizes of a chunk.   *)
THEOREM ComparisonsAreSound == CompareSpec => []CompareSound
<1>1. CompareInit => CompareInv
  BY DEF CompareInit, Init, FileInit, CompareInv, Comparing
<1>2. ConversionInv /\ CompareInv /\ [CompareNext]_allVars => CompareInv'
  BY CompareStep
<1>3. ConversionInv /\ CompareInv => CompareSound
  BY DecidesHolds, MismatchHolds DEF CompareSound
<1> QED
  BY <1>1, <1>2, <1>3, ConversionInvariant, PTL DEF CompareSpec
=============================================================================
