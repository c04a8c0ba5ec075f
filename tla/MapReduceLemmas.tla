--------------------------- MODULE MapReduceLemmas ---------------------------
(***************************************************************************)
(* What the operators that MapReduce is built from return, for vectors of    *)
(* any length and any number of threads: std::sort, std::merge,              *)
(* merge_vectors and a round of the loop of shuffle_stage.                   *)
(***************************************************************************)
EXTENDS MapReduce, FiniteSetTheorems, FunctionTheorems, SequenceTheorems, TLAPS

\* A vector without an element twice, and one in the order of the comparator.
Distinct(s) == \A i, j \in 1 .. Len(s) : s[i] = s[j] => i = j
Ordered(s)  == \A i, j \in 1 .. Len(s) : i <= j => s[i].key <= s[j].key

\* Sets of pairs, as far as the lemmas care.
Keyed(S) == \A p \in S : p.key \in Int

-----------------------------------------------------------------------------
(* Induction, for a set of numbers instead of a predicate: if m is not in S,  *)
(* the successor is an injection from what S has of 0..m into a smaller set.  *)

LEMMA Induction ==
  ASSUME NEW S, 0 \in S, \A n \in Nat : n \in S => n + 1 \in S
  PROVE  Nat \subseteq S
<1> SUFFICES ASSUME NEW m \in Nat, m \notin S PROVE FALSE
  OBVIOUS
<1> DEFINE A == {k \in 0 .. m : k \in S}
           next == [k \in A |-> k + 1]
<1>1. IsFiniteSet(A) /\ 0 \in A /\ A \subseteq Nat
  <2>1. IsFiniteSet(0 .. m) BY FS_Interval
  <2>2. QED BY <2>1, FS_Subset
<1>2. next \in [A -> A \ {0}]
  <2>1. ASSUME NEW k \in A PROVE k + 1 \in A \ {0}
    OBVIOUS
  <2>2. QED BY <2>1
<1>3. \A j, k \in A : next[j] = next[k] => j = k
  OBVIOUS
<1> HIDE DEF A
<1>4. next \in Injection(A, A \ {0})
  BY <1>2, <1>3, Fun_IsInj
<1> HIDE DEF next
<1>5. /\ IsFiniteSet(A \ {0}) /\ Cardinality(A) \in Nat
      /\ Cardinality(A \ {0}) = Cardinality(A) - 1
  BY <1>1, FS_RemoveElement, FS_CardinalityType
<1>6. Cardinality(A) <= Cardinality(A \ {0})
  BY <1>4, <1>5, FS_Injection
<1>7. QED BY <1>5, <1>6

-----------------------------------------------------------------------------
(* Sequences and the sets of their elements.                               *)

LEMMA SeqElements ==
  ASSUME NEW U, NEW s \in Seq(U)
  PROVE  /\ Len(s) \in Nat /\ DOMAIN s = 1 .. Len(s)
         /\ \A i \in 1 .. Len(s) : s[i] \in U /\ s[i] \in ToSet(s)
         /\ ToSet(s) = {s[i] : i \in 1 .. Len(s)} /\ ToSet(s) \subseteq U
         /\ \A e \in ToSet(s) : \E i \in 1 .. Len(s) : s[i] = e
         /\ s \in Seq(ToSet(s))
<1>1. Len(s) \in Nat /\ DOMAIN s = 1 .. Len(s) /\ \A i \in 1 .. Len(s) : s[i] \in U
  BY LenProperties, ElementOfSeq
<1>2. ToSet(s) = {s[i] : i \in 1 .. Len(s)} BY <1>1 DEF ToSet
<1>3. s \in Seq(Range(s)) /\ Range(s) = {s[i] : i \in 1 .. Len(s)}
  BY SeqOfRange, RangeEquality
<1>4. QED BY <1>1, <1>2, <1>3

LEMMA EmptySeqElements == ToSet(<<>>) = {} /\ Distinct(<<>>) /\ Ordered(<<>>)
BY DEF ToSet, Distinct, Ordered

LEMMA AppendElements ==
  ASSUME NEW U, NEW s \in Seq(U), NEW e \in U
  PROVE  /\ Append(s, e) \in Seq(U) /\ Len(Append(s, e)) = Len(s) + 1
         /\ ToSet(Append(s, e)) = ToSet(s) \union {e}
         /\ Distinct(s) /\ e \notin ToSet(s) => Distinct(Append(s, e))
<1> DEFINE a == Append(s, e)
<1>1. /\ a \in Seq(U) /\ Len(a) = Len(s) + 1 /\ Len(s) \in Nat
      /\ \A i \in 1 .. Len(s) : a[i] = s[i]
      /\ a[Len(s) + 1] = e
  BY AppendProperties, LenProperties
<1> HIDE DEF a
<1>2. ToSet(a) = ToSet(s) \union {e}
  <2>1. ToSet(a) = {a[i] : i \in 1 .. Len(s) + 1} BY <1>1, SeqElements
  <2>2. ToSet(s) = {s[i] : i \in 1 .. Len(s)} BY SeqElements
  <2>3. 1 .. Len(s) + 1 = (1 .. Len(s)) \union {Len(s) + 1} BY <1>1
  <2>4. QED BY <1>1, <2>1, <2>2, <2>3
<1>3. ASSUME Distinct(s), e \notin ToSet(s) PROVE Distinct(a)
  <2>1. \A i \in 1 .. Len(s) : a[i] # e BY <1>1, <1>3, SeqElements
  <2>2. QED BY <1>1, <1>3, <2>1 DEF Distinct
<1>4. QED BY <1>1, <1>2, <1>3 DEF a

LEMMA TailElements ==
  ASSUME NEW U, NEW s \in Seq(U), s # <<>>
  PROVE  /\ Head(s) \in U /\ Tail(s) \in Seq(U) /\ Len(Tail(s)) = Len(s) - 1
         /\ Len(s) \in Nat \ {0}
         /\ ToSet(s) = {Head(s)} \union ToSet(Tail(s))
         /\ Distinct(s) => Distinct(Tail(s)) /\ Head(s) \notin ToSet(Tail(s))
         /\ Ordered(s) => /\ Ordered(Tail(s))
                          /\ \A p \in ToSet(s) : Head(s).key <= p.key
<1> DEFINE t == Tail(s)
<1>1. /\ Head(s) \in U /\ t \in Seq(U) /\ Len(t) = Len(s) - 1
      /\ \A i \in 1 .. Len(t) : t[i] = s[i + 1]
      /\ Len(s) \in Nat \ {0}
  BY HeadTailProperties, EmptySeq
<1>2. Head(s) = s[1] BY <1>1 DEF Head
<1> HIDE DEF t
<1>3. ToSet(t) = {t[i] : i \in 1 .. Len(t)} /\ ToSet(s) = {s[i] : i \in 1 .. Len(s)}
  BY <1>1, SeqElements
<1>4. ToSet(s) = {Head(s)} \union ToSet(t)
  <2>1. ASSUME NEW i \in 1 .. Len(s) PROVE s[i] \in {Head(s)} \union ToSet(t)
    <3>1. CASE i = 1 BY <3>1, <1>2
    <3>2. CASE i # 1
      <4>1. i - 1 \in 1 .. Len(t) /\ t[i - 1] = s[i] BY <3>2, <1>1
      <4>2. QED BY <4>1, <1>3
    <3>3. QED BY <3>1, <3>2
  <2>2. ASSUME NEW i \in 1 .. Len(t) PROVE t[i] \in ToSet(s)
    BY <1>1, <1>3
  <2>3. Head(s) \in ToSet(s) BY <1>1, <1>2, <1>3
  <2>4. QED BY <2>1, <2>2, <2>3, <1>3
<1>5. ASSUME Distinct(s) PROVE Distinct(t) /\ Head(s) \notin ToSet(t)
  BY <1>1, <1>2, <1>3, <1>5 DEF Distinct
<1>6. ASSUME Ordered(s)
      PROVE  Ordered(t) /\ \A p \in ToSet(s) : Head(s).key <= p.key
  <2>1. Ordered(t) BY <1>1, <1>6 DEF Ordered
  <2>2. \A i \in 1 .. Len(s) : s[1].key <= s[i].key BY <1>1, <1>6 DEF Ordered
  <2>3. QED BY <1>2, <1>3, <2>1, <2>2
<1>7. QED BY <1>1, <1>4, <1>5, <1>6 DEF t

LEMMA ElementsFinite ==
  ASSUME NEW U, NEW s \in Seq(U)
  PROVE  /\ IsFiniteSet(ToSet(s)) /\ Cardinality(ToSet(s)) \in Nat
         /\ Cardinality(ToSet(s)) <= Len(s)
         /\ Distinct(s) <=> Cardinality(ToSet(s)) = Len(s)
<1> DEFINE D == 1 .. Len(s)
<1>1. Len(s) \in Nat /\ IsFiniteSet(D) /\ Cardinality(D) = Len(s)
  <2>1. Len(s) \in Nat BY SeqElements
  <2>2. QED BY <2>1, FS_Interval
<1>2. s \in [D -> ToSet(s)] /\ \A e \in ToSet(s) : \E i \in D : s[i] = e
  <2>1. s \in [D -> U] BY LenProperties
  <2>2. QED BY <2>1, SeqElements
<1>3. s \in Surjection(D, ToSet(s)) BY <1>2, Fun_IsSurj
<1>4. /\ IsFiniteSet(ToSet(s)) /\ Cardinality(ToSet(s)) <= Len(s)
      /\ Cardinality(ToSet(s)) = Len(s) <=> s \in Injection(D, ToSet(s))
  BY <1>1, <1>3, FS_Surjection
<1>5. s \in Injection(D, ToSet(s)) <=> Distinct(s)
  <2>1. ASSUME s \in Injection(D, ToSet(s)) PROVE Distinct(s)
    BY <2>1, Fun_InjectionProperties DEF Distinct
  <2>2. ASSUME Distinct(s) PROVE s \in Injection(D, ToSet(s))
    BY <2>2, <1>2, Fun_IsInj DEF Distinct
  <2>3. QED BY <2>1, <2>2
<1>6. QED BY <1>4, <1>5, FS_CardinalityType

-----------------------------------------------------------------------------
(* std::sort                                                               *)

LEMMA SortLemma ==
  ASSUME NEW U, Keyed(U), NEW v \in Seq(U), Distinct(v), NEW s \in Sortings(v)
  PROVE  s \in Seq(U) /\ ToSet(s) = ToSet(v) /\ Distinct(s) /\ Ordered(s)
<1> DEFINE n == Cardinality(ToSet(v))
<1>1. n \in Nat /\ IsFiniteSet(ToSet(v)) BY ElementsFinite
<1>2. s \in [1 .. n -> ToSet(v)] /\ \A i, j \in 1 .. n : i # j => s[i] # s[j]
  BY DEF Sortings, SetToSeqs
<1>3. IsSorted(s, KeyAtMost) BY DEF Sortings
<1> HIDE DEF n
<1>4. s \in Seq(ToSet(v)) /\ Len(s) = n BY <1>1, <1>2
<1>5. s \in Seq(U) /\ ToSet(v) \subseteq U BY <1>4, SeqElements, SeqMonotonic
<1>6. Distinct(s) BY <1>2, <1>4 DEF Distinct
<1>7. ToSet(s) = ToSet(v)
  <2>1. ToSet(s) \subseteq ToSet(v) BY <1>4, SeqElements
  <2>2. Cardinality(ToSet(s)) = n BY <1>4, <1>6, ElementsFinite
  <2>3. QED BY <2>1, <2>2, <1>1, FS_Subset DEF n
<1>8. Ordered(s)
  <2>1. ASSUME NEW i \in 1 .. Len(s), NEW j \in 1 .. Len(s), i <= j
        PROVE  s[i].key <= s[j].key
    <3>1. s[i].key \in Int BY <1>5, SeqElements DEF Keyed
    <3>2. CASE i = j BY <3>1, <3>2
    <3>3. CASE i < j BY <3>3, <1>3 DEF IsSorted, KeyAtMost
    <3>4. QED BY <2>1, <3>2, <3>3, <1>1, <1>4
  <2>2. QED BY <2>1 DEF Ordered
<1>9. QED BY <1>5, <1>6, <1>7, <1>8

-----------------------------------------------------------------------------
(* std::merge                                                              *)

LEMMA AppendOrdered ==
  ASSUME NEW U, Keyed(U), NEW s \in Seq(U), NEW e \in U, Ordered(s),
         \A p \in ToSet(s) : p.key <= e.key
  PROVE  Ordered(Append(s, e))
<1> DEFINE a == Append(s, e)
<1>1. /\ Len(a) = Len(s) + 1 /\ Len(s) \in Nat
      /\ \A i \in 1 .. Len(s) : a[i] = s[i]
      /\ a[Len(s) + 1] = e
  BY AppendProperties, LenProperties
<1> HIDE DEF a
<1>2. \A i \in 1 .. Len(s) : s[i].key <= e.key BY SeqElements
<1>3. e.key <= e.key BY DEF Keyed
<1>4. Ordered(a) BY <1>1, <1>2, <1>3 DEF Ordered
<1>5. QED BY <1>4 DEF a

\* What holds before round k of the loop: `out` has the first m.i elements of a
\* and the first m.j of b, in order, and none of them is after one that is left.
MergeInv(a, b, U, m, k) ==
  /\ m.i \in 0 .. Len(a) /\ m.j \in 0 .. Len(b) /\ m.i + m.j = k
  /\ m.out \in Seq(U) /\ Ordered(m.out)
  /\ ToSet(m.out) = {a[x] : x \in 1 .. m.i} \union {b[y] : y \in 1 .. m.j}
  /\ \A p \in ToSet(m.out) : /\ m.i < Len(a) => p.key <= a[m.i + 1].key
                             /\ m.j < Len(b) => p.key <= b[m.j + 1].key
  /\ Distinct(a) /\ Distinct(b) /\ ToSet(a) \intersect ToSet(b) = {} => Distinct(m.out)

LEMMA MergeRoundLemma ==
  ASSUME NEW U, Keyed(U), NEW a \in Seq(U), NEW b \in Seq(U), Ordered(a), Ordered(b),
         NEW k \in Nat, k < Len(a) + Len(b), NEW m, MergeInv(a, b, U, m, k)
  PROVE  MergeInv(a, b, U, MergeRound(a, b, m), k + 1)
<1> DEFINE r == MergeRound(a, b, m)
<1>1. /\ Len(a) \in Nat /\ Len(b) \in Nat
      /\ \A x \in 1 .. Len(a) : a[x] \in U /\ a[x].key \in Int /\ a[x] \in ToSet(a)
      /\ \A y \in 1 .. Len(b) : b[y] \in U /\ b[y].key \in Int /\ b[y] \in ToSet(b)
  BY SeqElements DEF Keyed
<1>2. /\ m.i \in 0 .. Len(a) /\ m.j \in 0 .. Len(b) /\ m.i + m.j = k
      /\ m.out \in Seq(U) /\ Ordered(m.out)
      /\ ToSet(m.out) = {a[x] : x \in 1 .. m.i} \union {b[y] : y \in 1 .. m.j}
      /\ \A p \in ToSet(m.out) : /\ m.i < Len(a) => p.key <= a[m.i + 1].key
                                 /\ m.j < Len(b) => p.key <= b[m.j + 1].key
      /\ ToSet(m.out) \subseteq U
  BY SeqElements DEF MergeInv
<1>3. \A p \in ToSet(m.out) : p.key \in Int BY <1>2 DEF Keyed
<1>4. CASE TakesFirst(a, b, m)
  <2> DEFINE e == a[m.i + 1]
  <2>1. /\ r.i = m.i + 1 /\ r.j = m.j /\ r.out = Append(m.out, e)
        /\ m.i < Len(a) /\ (m.j < Len(b) => e.key <= b[m.j + 1].key)
    BY <1>4 DEF MergeRound, TakesFirst
  <2> HIDE DEF r
  <2>2. e \in U /\ e.key \in Int /\ e \in ToSet(a) /\ m.i + 1 \in 1 .. Len(a)
    <3>1. m.i + 1 \in 1 .. Len(a)
      <4>1. m.i \in 0 .. Len(a) /\ m.i < Len(a) /\ Len(a) \in Nat BY <1>1, <1>2, <2>1
      <4>2. QED BY <4>1
    <3>2. QED BY <1>1, <3>1
  <2>3. /\ r.out \in Seq(U) /\ ToSet(r.out) = ToSet(m.out) \union {e}
        /\ Distinct(m.out) /\ e \notin ToSet(m.out) => Distinct(r.out)
    <3>1. m.out \in Seq(U) /\ e \in U BY <1>2, <2>2
    <3>2. QED BY <3>1, <2>1, AppendElements
  <2>4. Ordered(r.out)
    <3>1. \A p \in ToSet(m.out) : p.key <= e.key BY <1>2, <2>1
    <3>2. QED BY <1>2, <2>1, <2>2, <3>1, AppendOrdered
  <2>5. ToSet(r.out) = {a[x] : x \in 1 .. r.i} \union {b[y] : y \in 1 .. r.j}
    <3>1. 1 .. m.i + 1 = (1 .. m.i) \union {m.i + 1} BY <1>2
    <3>2. {a[x] : x \in 1 .. m.i + 1} = {a[x] : x \in 1 .. m.i} \union {e} BY <3>1
    <3>3. QED BY <1>2, <2>1, <2>3, <3>2
  <2>6. ASSUME NEW p \in ToSet(r.out)
        PROVE  /\ r.i < Len(a) => p.key <= a[r.i + 1].key
               /\ r.j < Len(b) => p.key <= b[r.j + 1].key
    <3>1. m.i + 1 < Len(a) => e.key <= a[m.i + 1 + 1].key /\ a[m.i + 1 + 1].key \in Int
      BY <1>1, <1>2, <2>2 DEF Ordered
    <3>2. m.j < Len(b) => b[m.j + 1].key \in Int
      <4>1. m.j \in 0 .. Len(b) /\ Len(b) \in Nat BY <1>1, <1>2
      <4>2. m.j < Len(b) => m.j + 1 \in 1 .. Len(b) BY <4>1
      <4>3. QED BY <1>1, <4>2
    <3>3. CASE p = e BY <3>3, <3>1, <2>1
    <3>4. CASE p \in ToSet(m.out)
      <4>1. p.key \in Int /\ p.key <= e.key BY <3>4, <1>2, <1>3, <2>1
      <4>2. r.i < Len(a) => p.key <= a[r.i + 1].key BY <4>1, <3>1, <2>1, <2>2
      <4>3. r.j < Len(b) => p.key <= b[r.j + 1].key BY <3>4, <1>2, <2>1
      <4>4. QED BY <4>2, <4>3
    <3>5. QED BY <2>3, <3>3, <3>4
  <2>7. ASSUME Distinct(a), Distinct(b), ToSet(a) \intersect ToSet(b) = {}
        PROVE  Distinct(r.out)
    <3>1. e \notin {a[x] : x \in 1 .. m.i} BY <1>1, <1>2, <2>2, <2>7 DEF Distinct
    <3>2. e \notin {b[y] : y \in 1 .. m.j} BY <1>1, <1>2, <2>2, <2>7
    <3>3. Distinct(m.out) BY <2>7 DEF MergeInv
    <3>4. QED BY <3>1, <3>2, <3>3, <1>2, <2>3
  <2>8. r.i \in 0 .. Len(a) /\ r.j \in 0 .. Len(b) /\ r.i + r.j = k + 1
    <3>1. /\ m.i \in 0 .. Len(a) /\ m.j \in 0 .. Len(b) /\ m.i + m.j = k
          /\ Len(a) \in Nat /\ Len(b) \in Nat
      BY <1>1, <1>2
    <3>2. QED BY <3>1, <2>1
  <2>9. QED BY <2>3, <2>4, <2>5, <2>6, <2>7, <2>8 DEF MergeInv, r
<1>5. CASE ~ TakesFirst(a, b, m)
  <2> DEFINE e == b[m.j + 1]
  <2>1. r.i = m.i /\ r.j = m.j + 1 /\ r.out = Append(m.out, e)
    BY <1>5 DEF MergeRound
  <2> HIDE DEF r
  <2>2. m.j < Len(b) BY <1>1, <1>2, <1>5 DEF TakesFirst
  <2>3. e \in U /\ e.key \in Int /\ e \in ToSet(b) /\ m.j + 1 \in 1 .. Len(b)
    <3>1. m.j + 1 \in 1 .. Len(b)
      <4>1. m.j \in 0 .. Len(b) /\ m.j < Len(b) /\ Len(b) \in Nat BY <1>1, <1>2, <2>2
      <4>2. QED BY <4>1
    <3>2. QED BY <1>1, <3>1
  <2>4. m.i < Len(a) => e.key <= a[m.i + 1].key
    <3>1. ASSUME m.i < Len(a) PROVE m.i + 1 \in 1 .. Len(a)
      <4>1. m.i \in 0 .. Len(a) /\ Len(a) \in Nat BY <1>1, <1>2
      <4>2. QED BY <3>1, <4>1
    <3>2. m.i < Len(a) => a[m.i + 1].key \in Int BY <1>1, <3>1
    <3>3. m.i < Len(a) => ~ a[m.i + 1].key <= e.key BY <1>5, <2>2 DEF TakesFirst
    <3>4. QED BY <2>3, <3>2, <3>3
  <2>5. /\ r.out \in Seq(U) /\ ToSet(r.out) = ToSet(m.out) \union {e}
        /\ Distinct(m.out) /\ e \notin ToSet(m.out) => Distinct(r.out)
    <3>1. m.out \in Seq(U) /\ e \in U BY <1>2, <2>3
    <3>2. QED BY <3>1, <2>1, AppendElements
  <2>6. Ordered(r.out)
    <3>1. \A p \in ToSet(m.out) : p.key <= e.key BY <1>2, <2>2
    <3>2. QED BY <1>2, <2>1, <2>3, <3>1, AppendOrdered
  <2>7. ToSet(r.out) = {a[x] : x \in 1 .. r.i} \union {b[y] : y \in 1 .. r.j}
    <3>1. 1 .. m.j + 1 = (1 .. m.j) \union {m.j + 1} BY <1>2
    <3>2. {b[y] : y \in 1 .. m.j + 1} = {b[y] : y \in 1 .. m.j} \union {e} BY <3>1
    <3>3. QED BY <1>2, <2>1, <2>5, <3>2
  <2>8. ASSUME NEW p \in ToSet(r.out)
        PROVE  /\ r.i < Len(a) => p.key <= a[r.i + 1].key
               /\ r.j < Len(b) => p.key <= b[r.j + 1].key
    <3>1. m.j + 1 < Len(b) => e.key <= b[m.j + 1 + 1].key /\ b[m.j + 1 + 1].key \in Int
      BY <1>1, <1>2, <2>3 DEF Ordered
    <3>2. CASE p = e BY <3>2, <3>1, <2>1, <2>4
    <3>3. CASE p \in ToSet(m.out)
      <4>1. p.key \in Int /\ p.key <= e.key BY <3>3, <1>2, <1>3, <2>2
      <4>2. r.j < Len(b) => p.key <= b[r.j + 1].key BY <4>1, <3>1, <2>1, <2>3
      <4>3. r.i < Len(a) => p.key <= a[r.i + 1].key BY <3>3, <1>2, <2>1
      <4>4. QED BY <4>2, <4>3
    <3>4. QED BY <2>5, <3>2, <3>3
  <2>9. ASSUME Distinct(a), Distinct(b), ToSet(a) \intersect ToSet(b) = {}
        PROVE  Distinct(r.out)
    <3>1. e \notin {b[y] : y \in 1 .. m.j} BY <1>1, <1>2, <2>3, <2>9 DEF Distinct
    <3>2. e \notin {a[x] : x \in 1 .. m.i} BY <1>1, <1>2, <2>3, <2>9
    <3>3. Distinct(m.out) BY <2>9 DEF MergeInv
    <3>4. QED BY <3>1, <3>2, <3>3, <1>2, <2>5
  <2>10. r.i \in 0 .. Len(a) /\ r.j \in 0 .. Len(b) /\ r.i + r.j = k + 1
    <3>1. /\ m.i \in 0 .. Len(a) /\ m.j \in 0 .. Len(b) /\ m.i + m.j = k
          /\ Len(a) \in Nat /\ Len(b) \in Nat
      BY <1>1, <1>2
    <3>2. r.i = m.i /\ r.j = m.j + 1 /\ m.j < Len(b) BY <2>1, <2>2
    <3>3. m.j + 1 \in 0 .. Len(b) /\ m.i + (m.j + 1) = k + 1 BY <3>1, <3>2
    <3>4. QED BY <3>1, <3>2, <3>3
  <2>11. QED BY <2>5, <2>6, <2>7, <2>8, <2>9, <2>10 DEF MergeInv, r
<1>6. QED BY <1>4, <1>5

\* The recursive function behind Merge exists, so that it has its equation.
LEMMA MergeDefined ==
  ASSUME NEW a, NEW b, NEW N \in Nat, Len(a) + Len(b) = N
  PROVE  \E after : /\ after[0] = [i |-> 0, j |-> 0, out |-> <<>>]
                    /\ \A k \in 1 .. N : after[k] = MergeRound(a, b, after[k - 1])
                    /\ Merge(a, b) = after[N].out
<1> DEFINE init == [i |-> 0, j |-> 0, out |-> <<>>]
           Good(f, n) == f = [k \in 0 .. n |-> IF k = 0 THEN init
                                              ELSE MergeRound(a, b, f[k - 1])]
           S == {n \in Nat : \E f : Good(f, n)}
<1> HIDE DEF init
<1>1. 0 \in S
  <2>1. Good([k \in 0 .. 0 |-> init], 0) OBVIOUS
  <2>2. QED BY <2>1
<1>2. ASSUME NEW n \in Nat, n \in S PROVE n + 1 \in S
  <2>1. PICK f : Good(f, n) BY <1>2
  <2> DEFINE g == [k \in 0 .. n + 1 |-> IF k = n + 1 THEN MergeRound(a, b, f[n]) ELSE f[k]]
  <2>2. \A k \in 0 .. n + 1 : g[k] = IF k = 0 THEN init ELSE MergeRound(a, b, g[k - 1])
    BY <2>1
  <2>3. Good(g, n + 1) BY <2>2
  <2> HIDE DEF g, Good
  <2>4. \E h : Good(h, n + 1) BY <2>3
  <2>5. QED BY <2>4
<1>3. N \in S BY <1>1, <1>2, Induction
<1>4. \E f : Good(f, N) BY <1>3
<1> DEFINE after == CHOOSE f : Good(f, N)
<1>5. Good(after, N) BY <1>4
<1>6. Merge(a, b) = after[N].out BY DEF Merge, init
<1> HIDE DEF after
<1>7. after[0] = init /\ \A k \in 1 .. N : after[k] = MergeRound(a, b, after[k - 1])
  BY <1>5
<1>8. QED BY <1>6, <1>7 DEF init

\* std::merge of two sorted vectors: all their elements, sorted.
LEMMA MergeLemma ==
  ASSUME NEW U, Keyed(U), NEW a \in Seq(U), NEW b \in Seq(U), Ordered(a), Ordered(b)
  PROVE  /\ Merge(a, b) \in Seq(U) /\ Ordered(Merge(a, b))
         /\ ToSet(Merge(a, b)) = ToSet(a) \union ToSet(b)
         /\ Distinct(a) /\ Distinct(b) /\ ToSet(a) \intersect ToSet(b) = {}
              => Distinct(Merge(a, b))
<1> DEFINE N == Len(a) + Len(b)
<1>1. Len(a) \in Nat /\ Len(b) \in Nat /\ N \in Nat BY SeqElements
<1>2. PICK after : /\ after[0] = [i |-> 0, j |-> 0, out |-> <<>>]
                   /\ \A k \in 1 .. N : after[k] = MergeRound(a, b, after[k - 1])
                   /\ Merge(a, b) = after[N].out
  BY <1>1, MergeDefined
<1> DEFINE S == {k \in Nat : k <= N => MergeInv(a, b, U, after[k], k)}
<1> HIDE DEF N
<1>3. 0 \in S
  <2>1. <<>> \in Seq(U) BY EmptySeq
  <2>2. MergeInv(a, b, U, after[0], 0)
    BY <1>1, <1>2, <2>1, EmptySeqElements DEF MergeInv
  <2>3. QED BY <2>2
<1>4. ASSUME NEW k \in Nat, k \in S PROVE k + 1 \in S
  <2>1. ASSUME k + 1 <= N PROVE MergeInv(a, b, U, after[k + 1], k + 1)
    <3>1. MergeInv(a, b, U, after[k], k) /\ k < N BY <1>1, <1>4, <2>1
    <3>2. after[k + 1] = MergeRound(a, b, after[k]) BY <1>1, <1>2, <2>1
    <3>3. QED BY <3>1, <3>2, MergeRoundLemma DEF N
  <2>2. QED BY <2>1
<1>5. N \in S BY <1>1, <1>3, <1>4, Induction
<1>6. MergeInv(a, b, U, after[N], N) BY <1>1, <1>5
<1> DEFINE m == after[N]
<1> HIDE DEF S, m
<1>7. MergeInv(a, b, U, m, N) /\ Merge(a, b) = m.out BY <1>2, <1>6 DEF m
<1>8. m.i = Len(a) /\ m.j = Len(b) BY <1>1, <1>7 DEF MergeInv, N
<1>9. ToSet(m.out) = ToSet(a) \union ToSet(b)
  BY <1>7, <1>8, SeqElements DEF MergeInv
<1>10. QED BY <1>7, <1>9 DEF MergeInv

-----------------------------------------------------------------------------
(* merge_vectors                                                           *)

LEMMA ThreadsLemma ==
  /\ numThreads \in Nat \ {0} /\ Thread = 0 .. numThreads - 1 /\ 0 \in Thread
  /\ NoThread \notin Thread /\ IsFiniteSet(Thread)
<1>1. IsFiniteSet(Thread) /\ NoThread \notin Thread BY BarrierAssumption
<1>2. numThreads \in Nat BY <1>1, FS_CardinalityType DEF numThreads
<1>3. Thread = 0 .. numThreads - 1 /\ numThreads > 0 BY MapReduceAssumption
<1> HIDE DEF numThreads
<1>4. QED BY <1>1, <1>2, <1>3

\* The places of a vector, by twos.
LEMMA PlacesByTwo ==
  ASSUME NEW L \in Nat
  PROVE  /\ (L + 1) \div 2 \in Nat /\ L \div 2 \in Nat
         /\ \A n \in 1 .. (L + 1) \div 2 : n \in Nat /\ 2 * n - 1 \in 1 .. L
         /\ \A n \in 1 .. L \div 2 : /\ n \in 1 .. (L + 1) \div 2
                                     /\ 2 * n - 1 \in 1 .. L /\ 2 * n \in 1 .. L
         /\ \A k \in 1 .. L : \/ \E n \in 1 .. (L + 1) \div 2 : k = 2 * n - 1
                              \/ \E n \in 1 .. L \div 2 : k = 2 * n
         /\ L > 0 => (L + 1) \div 2 > 0
         /\ L > 1 => (L + 1) \div 2 < L
         /\ L = 1 => (L + 1) \div 2 = 1
<1>1. /\ (L + 1) \div 2 \in Nat /\ L \div 2 \in Nat
      /\ 2 * ((L + 1) \div 2) <= L + 1 /\ L + 1 < 2 * ((L + 1) \div 2) + 2
      /\ 2 * (L \div 2) <= L /\ L < 2 * (L \div 2) + 2
  OBVIOUS
<1> DEFINE h == (L + 1) \div 2
           d == L \div 2
<1> HIDE DEF h, d
<1>2. h \in Nat /\ d \in Nat /\ 2 * h <= L + 1 /\ L + 1 < 2 * h + 2 /\ 2 * d <= L /\ L < 2 * d + 2
  BY <1>1 DEF h, d
<1>3. \A n \in 1 .. h : n \in Nat /\ 2 * n - 1 \in 1 .. L BY <1>2
<1>4. \A n \in 1 .. d : n \in 1 .. h /\ 2 * n - 1 \in 1 .. L /\ 2 * n \in 1 .. L BY <1>2
<1>5. ASSUME NEW k \in 1 .. L
      PROVE  (\E n \in 1 .. h : k = 2 * n - 1) \/ (\E n \in 1 .. d : k = 2 * n)
  <2>1. k = 2 * (k \div 2) \/ k = 2 * (k \div 2) + 1 OBVIOUS
  <2>2. k \div 2 \in Nat OBVIOUS
  <2>3. CASE k = 2 * (k \div 2)
    <3>1. k \div 2 \in 1 .. d BY <1>2, <2>2, <2>3
    <3>2. QED BY <2>3, <3>1
  <2>4. CASE k = 2 * (k \div 2) + 1
    <3>1. k \div 2 + 1 \in 1 .. h /\ k = 2 * (k \div 2 + 1) - 1 BY <1>2, <2>2, <2>4
    <3>2. QED BY <3>1
  <2>5. QED BY <2>1, <2>3, <2>4
<1>6. (L > 0 => h > 0) /\ (L > 1 => h < L) /\ (L = 1 => h = 1) BY <1>2
<1>7. QED BY <1>2, <1>3, <1>4, <1>5, <1>6 DEF h, d

\* The first of two has the second for its neighbour, and the others have none.
LEMMA NeighbourLemma ==
  ASSUME NEW m \in Seq(Thread), Distinct(m)
  PROVE  /\ \A n \in 1 .. Len(m) \div 2 : Neighbour(m, m[2 * n - 1]) = {m[2 * n]}
         /\ \A t \in Thread :
              \/ Neighbour(m, t) = {}
              \/ \E n \in 1 .. Len(m) \div 2 : t = m[2 * n - 1]
         /\ \A n \in 1 .. (Len(m) + 1) \div 2 :
              n \notin 1 .. Len(m) \div 2 => Neighbour(m, m[2 * n - 1]) = {}
<1>1. Len(m) \in Nat BY SeqElements
<1>2. ASSUME NEW n \in 1 .. (Len(m) + 1) \div 2, NEW k \in 1 .. Len(m) \div 2,
             m[2 * k - 1] = m[2 * n - 1]
      PROVE  k = n
  <2>1. 2 * k - 1 \in 1 .. Len(m) /\ 2 * n - 1 \in 1 .. Len(m) /\ n \in Nat /\ k \in Nat
    BY <1>1, PlacesByTwo
  <2>2. 2 * k - 1 = 2 * n - 1 BY <2>1, <1>2 DEF Distinct
  <2>3. QED BY <2>1, <2>2
<1>3. ASSUME NEW n \in 1 .. Len(m) \div 2
      PROVE  Neighbour(m, m[2 * n - 1]) = {m[2 * n]}
  <2>1. n \in 1 .. (Len(m) + 1) \div 2 BY <1>1, PlacesByTwo
  <2>2. QED BY <1>2, <2>1 DEF Neighbour
<1>4. ASSUME NEW n \in 1 .. (Len(m) + 1) \div 2, n \notin 1 .. Len(m) \div 2
      PROVE  Neighbour(m, m[2 * n - 1]) = {}
  BY <1>2, <1>4 DEF Neighbour
<1>5. ASSUME NEW t \in Thread, Neighbour(m, t) # {}
      PROVE  \E n \in 1 .. Len(m) \div 2 : t = m[2 * n - 1]
  BY <1>5 DEF Neighbour
<1>6. QED BY <1>3, <1>4, <1>5

\* What holds before each call of merge_vectors, of vectors that have among them
\* the pairs of U: the vectors of to_merge have them all, each once.
CallInv(U, c) ==
  /\ c.to_merge \in Seq(Thread) /\ Len(c.to_merge) > 0 /\ c.to_merge[1] = 0
  /\ Distinct(c.to_merge)
  /\ c.vecs \in [Thread -> Seq(U)]
  /\ \A t \in Thread : Ordered(c.vecs[t]) /\ Distinct(c.vecs[t])
  /\ \A m, n \in 1 .. Len(c.to_merge) :
       m # n => ToSet(c.vecs[c.to_merge[m]]) \intersect ToSet(c.vecs[c.to_merge[n]]) = {}
  /\ \A p \in U : \E n \in 1 .. Len(c.to_merge) : p \in ToSet(c.vecs[c.to_merge[n]])

LEMMA VecSetLemma ==
  ASSUME NEW m \in Seq(Thread), Distinct(m), Len(m) > 0
  PROVE  /\ VecSet(m) \in Seq(Thread) /\ Len(VecSet(m)) = (Len(m) + 1) \div 2
         /\ \A n \in 1 .. (Len(m) + 1) \div 2 : VecSet(m)[n] = m[2 * n - 1]
         /\ Distinct(VecSet(m)) /\ VecSet(m)[1] = m[1]
<1> DEFINE h == (Len(m) + 1) \div 2
<1>1. /\ Len(m) \in Nat /\ h \in Nat /\ h > 0
      /\ \A n \in 1 .. h : n \in Nat /\ 2 * n - 1 \in 1 .. Len(m)
  BY SeqElements, PlacesByTwo
<1>2. VecSet(m) = [n \in 1 .. h |-> m[2 * n - 1]] BY DEF VecSet
<1> HIDE DEF h
<1>3. VecSet(m) \in Seq(Thread) /\ Len(VecSet(m)) = h
  <2>1. \A n \in 1 .. h : m[2 * n - 1] \in Thread BY <1>1, SeqElements
  <2>2. VecSet(m) \in [1 .. h -> Thread] BY <1>2, <2>1
  <2>3. QED BY <2>2, <1>1
<1>4. \A n \in 1 .. h : VecSet(m)[n] = m[2 * n - 1] BY <1>2
<1>5. Distinct(VecSet(m))
  <2>1. ASSUME NEW i \in 1 .. h, NEW j \in 1 .. h, m[2 * i - 1] = m[2 * j - 1]
        PROVE  i = j
    <3>1. 2 * i - 1 \in 1 .. Len(m) /\ 2 * j - 1 \in 1 .. Len(m) BY <1>1
    <3>2. 2 * i - 1 = 2 * j - 1 BY <2>1, <3>1 DEF Distinct
    <3>3. QED BY <1>1, <3>2
  <2>2. QED BY <1>3, <1>4, <2>1 DEF Distinct
<1>6. VecSet(m)[1] = m[1] BY <1>1, <1>4
<1>7. QED BY <1>3, <1>4, <1>5, <1>6 DEF h

LEMMA MergeCallLemma ==
  ASSUME NEW U, Keyed(U), NEW c, CallInv(U, c)
  PROVE  /\ CallInv(U, MergeCall(c))
         /\ Len(MergeCall(c).to_merge) = (Len(c.to_merge) + 1) \div 2
<1> DEFINE m == c.to_merge
           v == c.vecs
           mm == VecSet(m)
           vv == MergeNeighbours(m, v)
           d == Len(m) \div 2
           h == (Len(m) + 1) \div 2
<1>1. MergeCall(c).to_merge = mm /\ MergeCall(c).vecs = vv BY DEF MergeCall
<1>2. /\ m \in Seq(Thread) /\ Len(m) > 0 /\ m[1] = 0 /\ Distinct(m)
      /\ v \in [Thread -> Seq(U)]
      /\ \A t \in Thread : Ordered(v[t]) /\ Distinct(v[t])
      /\ \A i, j \in 1 .. Len(m) : i # j => ToSet(v[m[i]]) \intersect ToSet(v[m[j]]) = {}
      /\ \A p \in U : \E n \in 1 .. Len(m) : p \in ToSet(v[m[n]])
  BY DEF CallInv
<1>3. /\ mm \in Seq(Thread) /\ Len(mm) = h /\ Distinct(mm) /\ mm[1] = 0
      /\ \A n \in 1 .. h : mm[n] = m[2 * n - 1]
  BY <1>2, VecSetLemma
<1>4. /\ Len(m) \in Nat /\ h \in Nat /\ d \in Nat /\ h > 0
      /\ \A n \in 1 .. h : n \in Nat /\ 2 * n - 1 \in 1 .. Len(m)
      /\ \A n \in 1 .. d : n \in 1 .. h /\ 2 * n - 1 \in 1 .. Len(m) /\ 2 * n \in 1 .. Len(m)
      /\ \A k \in 1 .. Len(m) : \/ \E n \in 1 .. h : k = 2 * n - 1
                                \/ \E n \in 1 .. d : k = 2 * n
  BY <1>2, SeqElements, PlacesByTwo
<1>5. \A k \in 1 .. Len(m) : m[k] \in Thread BY <1>2, SeqElements
<1>6. \A n \in 1 .. d : vv[m[2 * n - 1]] = Merge(v[m[2 * n - 1]], v[m[2 * n]])
  <2>1. ASSUME NEW n \in 1 .. d
        PROVE  vv[m[2 * n - 1]] = Merge(v[m[2 * n - 1]], v[m[2 * n]])
    <3>1. Neighbour(m, m[2 * n - 1]) = {m[2 * n]} /\ m[2 * n - 1] \in Thread
      BY <1>2, <1>4, <1>5, NeighbourLemma
    <3>2. (CHOOSE u \in {m[2 * n]} : TRUE) = m[2 * n] OBVIOUS
    <3>3. QED BY <3>1, <3>2 DEF MergeNeighbours
  <2>2. QED BY <2>1
<1>7. \A t \in Thread : vv[t] = v[t] \/ \E n \in 1 .. d : t = m[2 * n - 1]
  BY <1>2, NeighbourLemma DEF MergeNeighbours
<1>8. \A n \in 1 .. h : n \notin 1 .. d => vv[m[2 * n - 1]] = v[m[2 * n - 1]]
  BY <1>2, <1>4, <1>5, NeighbourLemma DEF MergeNeighbours
<1>9. vv = [t \in Thread |-> vv[t]] BY DEF MergeNeighbours
<1> HIDE DEF m, v, mm, vv, d, h
<1>10. ASSUME NEW n \in 1 .. d
       PROVE  /\ vv[m[2 * n - 1]] \in Seq(U)
              /\ Ordered(vv[m[2 * n - 1]]) /\ Distinct(vv[m[2 * n - 1]])
              /\ ToSet(vv[m[2 * n - 1]]) = ToSet(v[m[2 * n - 1]]) \union ToSet(v[m[2 * n]])
  <2>1. m[2 * n - 1] \in Thread /\ m[2 * n] \in Thread BY <1>4, <1>5
  <2>2. 2 * n - 1 # 2 * n /\ 2 * n - 1 \in 1 .. Len(m) /\ 2 * n \in 1 .. Len(m) BY <1>4
  <2>3. ToSet(v[m[2 * n - 1]]) \intersect ToSet(v[m[2 * n]]) = {} BY <1>2, <2>2
  <2>4. /\ v[m[2 * n - 1]] \in Seq(U) /\ v[m[2 * n]] \in Seq(U)
        /\ Ordered(v[m[2 * n - 1]]) /\ Ordered(v[m[2 * n]])
        /\ Distinct(v[m[2 * n - 1]]) /\ Distinct(v[m[2 * n]])
    BY <1>2, <2>1
  <2> DEFINE a == v[m[2 * n - 1]]
             b == v[m[2 * n]]
  <2>5. vv[m[2 * n - 1]] = Merge(a, b) BY <1>6
  <2> HIDE DEF a, b
  <2>6. /\ Merge(a, b) \in Seq(U) /\ Ordered(Merge(a, b)) /\ Distinct(Merge(a, b))
        /\ ToSet(Merge(a, b)) = ToSet(a) \union ToSet(b)
    BY <2>3, <2>4, MergeLemma DEF a, b
  <2>7. QED BY <2>5, <2>6 DEF a, b
<1>11. vv \in [Thread -> Seq(U)] /\ \A t \in Thread : Ordered(vv[t]) /\ Distinct(vv[t])
  <2>1. ASSUME NEW t \in Thread PROVE vv[t] \in Seq(U) /\ Ordered(vv[t]) /\ Distinct(vv[t])
    <3>1. CASE vv[t] = v[t] BY <3>1, <1>2
    <3>2. CASE \E n \in 1 .. d : t = m[2 * n - 1] BY <3>2, <1>10
    <3>3. QED BY <3>1, <3>2, <1>7
  <2>2. QED BY <2>1, <1>9
\* Where the pairs of a vector that is passed on come from.
<1>12. ASSUME NEW n \in 1 .. h
       PROVE  /\ ToSet(v[m[2 * n - 1]]) \subseteq ToSet(vv[m[2 * n - 1]])
              /\ \A p \in ToSet(vv[m[2 * n - 1]]) :
                   \E k \in 1 .. Len(m) : k \in {2 * n - 1, 2 * n} /\ p \in ToSet(v[m[k]])
  <2>1. 2 * n - 1 \in 1 .. Len(m) BY <1>4
  <2>2. CASE n \in 1 .. d
    <3>1. 2 * n \in 1 .. Len(m) BY <2>2, <1>4
    <3>2. ToSet(vv[m[2 * n - 1]]) = ToSet(v[m[2 * n - 1]]) \union ToSet(v[m[2 * n]])
      BY <2>2, <1>10
    <3>3. QED BY <2>1, <3>1, <3>2
  <2>3. CASE n \notin 1 .. d BY <2>1, <2>3, <1>8
  <2>4. QED BY <2>2, <2>3
<1>13. ASSUME NEW i \in 1 .. h, NEW j \in 1 .. h, i # j
       PROVE  ToSet(vv[mm[i]]) \intersect ToSet(vv[mm[j]]) = {}
  <2>1. SUFFICES ASSUME NEW p, p \in ToSet(vv[m[2 * i - 1]]), p \in ToSet(vv[m[2 * j - 1]])
                 PROVE  FALSE
    BY <1>3
  <2>2. PICK k \in 1 .. Len(m) : k \in {2 * i - 1, 2 * i} /\ p \in ToSet(v[m[k]])
    BY <2>1, <1>12
  <2>3. PICK l \in 1 .. Len(m) : l \in {2 * j - 1, 2 * j} /\ p \in ToSet(v[m[l]])
    BY <2>1, <1>12
  <2>4. i \in Nat /\ j \in Nat BY <1>4
  <2>5. k # l BY <2>2, <2>3, <2>4, <1>13
  <2>6. QED BY <2>2, <2>3, <2>5, <1>2
<1>14. ASSUME NEW p \in U PROVE \E n \in 1 .. h : p \in ToSet(vv[mm[n]])
  <2>1. PICK k \in 1 .. Len(m) : p \in ToSet(v[m[k]]) BY <1>2
  <2>2. CASE \E n \in 1 .. h : k = 2 * n - 1
    <3>1. PICK n \in 1 .. h : k = 2 * n - 1 BY <2>2
    <3>2. p \in ToSet(vv[m[2 * n - 1]]) BY <2>1, <3>1, <1>12
    <3>3. QED BY <3>2, <1>3
  <2>3. CASE \E n \in 1 .. d : k = 2 * n
    <3>1. PICK n \in 1 .. d : k = 2 * n BY <2>3
    <3>2. p \in ToSet(vv[m[2 * n - 1]]) /\ n \in 1 .. h BY <2>1, <3>1, <1>4, <1>10
    <3>3. QED BY <3>2, <1>3
  <2>4. QED BY <2>2, <2>3, <1>4
<1>15. CallInv(U, [to_merge |-> mm, vecs |-> vv])
  BY <1>3, <1>4, <1>11, <1>13, <1>14 DEF CallInv
<1>16. QED BY <1>1, <1>3, <1>15 DEF CallInv, h, m

LEMMA MergeVectorsDefined ==
  ASSUME NEW vecs
  PROVE  \E call : /\ call[0] = [to_merge |-> [n \in 1 .. numThreads |-> n - 1], vecs |-> vecs]
                   /\ \A r \in 1 .. numThreads : call[r] = MergeCall(call[r - 1])
                   /\ merge_vectors(vecs) = call[numThreads].vecs
<1> DEFINE init == [to_merge |-> [n \in 1 .. numThreads |-> n - 1], vecs |-> vecs]
           Good(f, n) == f = [r \in 0 .. n |-> IF r = 0 THEN init ELSE MergeCall(f[r - 1])]
           S == {n \in Nat : \E f : Good(f, n)}
<1> HIDE DEF init
<1>1. 0 \in S
  <2>1. Good([r \in 0 .. 0 |-> init], 0) OBVIOUS
  <2>2. QED BY <2>1
<1>2. ASSUME NEW n \in Nat, n \in S PROVE n + 1 \in S
  <2>1. PICK f : Good(f, n) BY <1>2
  <2> DEFINE g == [r \in 0 .. n + 1 |-> IF r = n + 1 THEN MergeCall(f[n]) ELSE f[r]]
  <2>2. \A r \in 0 .. n + 1 : g[r] = IF r = 0 THEN init ELSE MergeCall(g[r - 1])
    BY <2>1
  <2>3. Good(g, n + 1) BY <2>2
  <2> HIDE DEF g, Good
  <2>4. \E h : Good(h, n + 1) BY <2>3
  <2>5. QED BY <2>4
<1>3. numThreads \in Nat BY ThreadsLemma
<1>4. numThreads \in S BY <1>1, <1>2, <1>3, Induction
<1>5. \E f : Good(f, numThreads) BY <1>4
<1> DEFINE call == CHOOSE f : Good(f, numThreads)
<1>6. Good(call, numThreads) BY <1>5
<1>7. merge_vectors(vecs) = call[numThreads].vecs BY DEF merge_vectors, init
<1> HIDE DEF call
<1>8. call[0] = init /\ \A r \in 1 .. numThreads : call[r] = MergeCall(call[r - 1])
  BY <1>3, <1>6
<1>9. QED BY <1>7, <1>8 DEF init

\* merge_vectors, of sorted vectors that have the pairs of U among them, each
\* once: the first becomes all of them, sorted, and the others get nothing new.
LEMMA MergeVectorsLemma ==
  ASSUME NEW U, Keyed(U), NEW vecs \in [Thread -> Seq(U)],
         \A t \in Thread : Ordered(vecs[t]) /\ Distinct(vecs[t]),
         \A t, u \in Thread : t # u => ToSet(vecs[t]) \intersect ToSet(vecs[u]) = {},
         \A p \in U : \E t \in Thread : p \in ToSet(vecs[t])
  PROVE  /\ merge_vectors(vecs) \in [Thread -> Seq(U)]
         /\ ToSet(merge_vectors(vecs)[0]) = U
         /\ Ordered(merge_vectors(vecs)[0]) /\ Distinct(merge_vectors(vecs)[0])
<1>1. /\ numThreads \in Nat \ {0} /\ Thread = 0 .. numThreads - 1 /\ 0 \in Thread
  BY ThreadsLemma
<1>2. PICK call : /\ call[0] = [to_merge |-> [n \in 1 .. numThreads |-> n - 1], vecs |-> vecs]
                  /\ \A r \in 1 .. numThreads : call[r] = MergeCall(call[r - 1])
                  /\ merge_vectors(vecs) = call[numThreads].vecs
  BY MergeVectorsDefined
<1> DEFINE Holds(r) == /\ CallInv(U, call[r])
                       /\ Len(call[r].to_merge) = 1 \/ Len(call[r].to_merge) + r <= numThreads
           S == {r \in Nat : r <= numThreads => Holds(r)}
<1> HIDE DEF Holds
<1>3. 0 \in S
  <2> DEFINE m == [n \in 1 .. numThreads |-> n - 1]
  <2>1. m \in Seq(Thread) /\ Len(m) = numThreads
    <3>1. m \in [1 .. numThreads -> Thread] BY <1>1
    <3>2. QED BY <3>1, <1>1
  <2>2. \A n \in 1 .. numThreads : m[n] = n - 1 BY <1>1
  <2> HIDE DEF m
  <2>3. Distinct(m) /\ m[1] = 0 BY <1>1, <2>1, <2>2 DEF Distinct
  <2>4. \A i, j \in 1 .. Len(m) : i # j => ToSet(vecs[m[i]]) \intersect ToSet(vecs[m[j]]) = {}
    <3>1. \A i, j \in 1 .. Len(m) : i # j => m[i] # m[j] /\ m[i] \in Thread /\ m[j] \in Thread
      BY <2>1, <2>3, SeqElements DEF Distinct
    <3>2. QED BY <3>1
  <2>5. \A p \in U : \E n \in 1 .. Len(m) : p \in ToSet(vecs[m[n]])
    <3>1. \A t \in Thread : t + 1 \in 1 .. Len(m) /\ m[t + 1] = t BY <1>1, <2>1, <2>2
    <3>2. QED BY <3>1
  <2>6. CallInv(U, [to_merge |-> m, vecs |-> vecs])
    <3>1. Len(m) > 0 BY <1>1, <2>1
    <3>2. QED BY <2>1, <2>3, <2>4, <2>5, <3>1 DEF CallInv
  <2>7. call[0] = [to_merge |-> m, vecs |-> vecs] BY <1>2 DEF m
  <2>8. Holds(0) BY <1>1, <2>1, <2>6, <2>7 DEF Holds
  <2>9. QED BY <2>8
<1>4. ASSUME NEW r \in Nat, r \in S PROVE r + 1 \in S
  <2>1. ASSUME r + 1 <= numThreads PROVE Holds(r + 1)
    <3>1. Holds(r) BY <1>1, <1>4, <2>1
    <3>2. call[r + 1] = MergeCall(call[r]) BY <1>1, <1>2, <2>1
    <3> DEFINE c == call[r]
               L == Len(c.to_merge)
    <3>3. /\ CallInv(U, MergeCall(c))
          /\ Len(MergeCall(c).to_merge) = (L + 1) \div 2
      BY <3>1, MergeCallLemma DEF Holds
    <3>4. L \in Nat /\ L > 0 BY <3>1, SeqElements DEF CallInv, Holds
    <3>5. /\ (L + 1) \div 2 \in Nat /\ (L > 1 => (L + 1) \div 2 < L)
          /\ (L = 1 => (L + 1) \div 2 = 1)
      BY <3>4, PlacesByTwo
    <3>6. (L + 1) \div 2 = 1 \/ (L + 1) \div 2 + (r + 1) <= numThreads
      <4>1. L = 1 \/ L + r <= numThreads BY <3>1 DEF Holds
      <4> HIDE DEF L
      <4> DEFINE h == (L + 1) \div 2
      <4> HIDE DEF h
      <4>2. h \in Nat /\ (L > 1 => h < L) /\ (L = 1 => h = 1) BY <3>5 DEF h
      <4>3. h = 1 \/ h + (r + 1) <= numThreads BY <1>1, <3>4, <4>1, <4>2
      <4>4. QED BY <4>3 DEF h
    <3>7. QED BY <3>2, <3>3, <3>6 DEF Holds
  <2>2. QED BY <2>1
<1>5. numThreads \in S BY <1>1, <1>3, <1>4, Induction
<1>6. Holds(numThreads) BY <1>1, <1>5
<1> DEFINE c == call[numThreads]
<1> HIDE DEF S, c
<1>7. /\ CallInv(U, c) /\ merge_vectors(vecs) = c.vecs
      /\ Len(c.to_merge) = 1 \/ Len(c.to_merge) + numThreads <= numThreads
  BY <1>2, <1>6 DEF c, Holds
<1>8. Len(c.to_merge) = 1 /\ c.to_merge[1] = 0
  <2>1. Len(c.to_merge) \in Nat /\ Len(c.to_merge) > 0 /\ c.to_merge[1] = 0
    BY <1>7, SeqElements DEF CallInv
  <2>2. QED BY <1>1, <1>7, <2>1
<1>9. c.vecs \in [Thread -> Seq(U)] /\ Ordered(c.vecs[0]) /\ Distinct(c.vecs[0])
  BY <1>1, <1>7 DEF CallInv
<1>10. U \subseteq ToSet(c.vecs[0])
  <2>1. \A p \in U : \E n \in 1 .. 1 : p \in ToSet(c.vecs[c.to_merge[n]])
    BY <1>7, <1>8 DEF CallInv
  <2>2. QED BY <1>8, <2>1
<1>11. ToSet(c.vecs[0]) \subseteq U BY <1>1, <1>9, SeqElements
<1>12. QED BY <1>7, <1>9, <1>10, <1>11

-----------------------------------------------------------------------------
(* The loop of shuffle_stage                                               *)

\* The groups of the pairs that have been shuffled: one per key, in the order of
\* the keys, without a pair twice.
GroupsInv(groups) ==
  /\ \A g \in 1 .. Len(groups) :
       /\ Len(groups[g]) > 0 /\ Distinct(groups[g])
       /\ \A p \in ToSet(groups[g]) : p.key = groups[g][1].key
  /\ \A g, h \in 1 .. Len(groups) : g < h => groups[g][1].key < groups[h][1].key
InGroups(groups) == UNION {ToSet(groups[g]) : g \in 1 .. Len(groups)}

LEMMA GroupedLemma ==
  ASSUME NEW U, Keyed(U), NEW groups \in Seq(Seq(U)), GroupsInv(groups), NEW p \in U,
         p \notin InGroups(groups), \A q \in InGroups(groups) : q.key <= p.key
  PROVE  /\ Grouped(groups, p) \in Seq(Seq(U)) /\ GroupsInv(Grouped(groups, p))
         /\ InGroups(Grouped(groups, p)) = InGroups(groups) \union {p}
         /\ Len(Grouped(groups, p)) >= Len(groups)
<1> DEFINE n == Len(groups)
           same == GroupsWithKey(groups, p)
           new == Grouped(groups, p)
<1>1. n \in Nat /\ DOMAIN groups = 1 .. n /\ \A g \in 1 .. n : groups[g] \in Seq(U)
  BY SeqElements
<1>2. /\ \A g \in 1 .. n : /\ Len(groups[g]) > 0 /\ Distinct(groups[g])
                           /\ \A q \in ToSet(groups[g]) : q.key = groups[g][1].key
      /\ \A g, h \in 1 .. n : g < h => groups[g][1].key < groups[h][1].key
  BY DEF GroupsInv
<1>3. \A g \in 1 .. n : /\ groups[g][1] \in ToSet(groups[g]) /\ groups[g][1].key \in Int
                        /\ groups[g][1].key <= p.key
  <2>1. ASSUME NEW g \in 1 .. n
        PROVE  groups[g][1] \in ToSet(groups[g]) /\ groups[g][1] \in U
    <3>1. Len(groups[g]) \in Nat /\ 1 \in 1 .. Len(groups[g]) BY <1>1, <1>2, SeqElements
    <3>2. QED BY <3>1, <1>1, SeqElements
  <2>2. QED BY <2>1 DEF InGroups, Keyed
<1>4. p.key \in Int BY DEF Keyed
<1>5. same = {g \in 1 .. n : groups[g][1].key = p.key} BY <1>1 DEF GroupsWithKey
<1>6. CASE same = {}
  <2> DEFINE s == <<p>>
  <2>1. new = Append(groups, s) BY <1>6 DEF Grouped
  <2>2. s \in Seq(U) /\ Len(s) = 1 /\ s[1] = p /\ ToSet(s) = {p} /\ Distinct(s)
    <3>1. s \in Seq(U) /\ Len(s) = 1 /\ s[1] = p OBVIOUS
    <3>2. ToSet(s) = {s[i] : i \in 1 .. Len(s)} BY <3>1, SeqElements
    <3>3. QED BY <3>1, <3>2 DEF Distinct
  <2> HIDE DEF s, new
  <2>3. /\ new \in Seq(Seq(U)) /\ Len(new) = n + 1
        /\ \A g \in 1 .. n : new[g] = groups[g]
        /\ new[n + 1] = s
    BY <2>1, <2>2, <1>1, AppendProperties
  <2>4. ASSUME NEW g \in 1 .. n PROVE groups[g][1].key < p.key
    <3>1. groups[g][1].key # p.key BY <1>5, <1>6
    <3>2. QED BY <1>3, <1>4, <3>1
  <2>5. GroupsInv(new)
    <3>1. ASSUME NEW g \in 1 .. n + 1
          PROVE  /\ Len(new[g]) > 0 /\ Distinct(new[g])
                 /\ \A q \in ToSet(new[g]) : q.key = new[g][1].key
      <4>1. CASE g = n + 1
        <5>1. new[g] = s /\ Len(s) > 0 BY <4>1, <2>2, <2>3
        <5>2. QED BY <5>1, <2>2
      <4>2. CASE g \in 1 .. n BY <4>2, <1>2, <2>3
      <4>3. QED BY <1>1, <4>1, <4>2
    <3>2. ASSUME NEW g \in 1 .. n + 1, NEW h \in 1 .. n + 1, g < h
          PROVE  new[g][1].key < new[h][1].key
      <4>1. g \in 1 .. n BY <1>1, <3>2
      <4>2. CASE h = n + 1 BY <4>1, <4>2, <2>2, <2>3, <2>4
      <4>3. CASE h \in 1 .. n BY <4>1, <4>3, <1>2, <2>3, <3>2
      <4>4. QED BY <1>1, <4>2, <4>3
    <3>3. QED BY <2>3, <3>1, <3>2 DEF GroupsInv
  <2>6. InGroups(new) = InGroups(groups) \union {p}
    <3>1. \A q : q \in InGroups(new) <=> \E g \in 1 .. n + 1 : q \in ToSet(new[g])
      BY <2>3 DEF InGroups
    <3>2. \A q : q \in InGroups(groups) <=> \E g \in 1 .. n : q \in ToSet(new[g])
      BY <2>3 DEF InGroups
    <3>3. 1 .. n + 1 = (1 .. n) \union {n + 1} BY <1>1
    <3>4. ToSet(new[n + 1]) = {p} BY <2>2, <2>3
    <3>5. \A q : q \in InGroups(new) <=> q \in InGroups(groups) \union {p}
      BY <3>1, <3>2, <3>3, <3>4
    <3>6. QED BY <3>5
  <2>7. QED BY <1>1, <2>3, <2>5, <2>6 DEF new
<1>7. CASE same # {}
  <2>1. PICK f \in 1 .. n : groups[f][1].key = p.key BY <1>5, <1>7
  <2>2. same = {f}
    <3>1. ASSUME NEW g \in 1 .. n, groups[g][1].key = p.key PROVE g = f
      <4>1. ~ p.key < p.key BY <1>4
      <4>2. ~ g < f /\ ~ f < g BY <1>2, <2>1, <3>1, <4>1
      <4>3. g \in Nat /\ f \in Nat OBVIOUS
      <4>4. QED BY <4>2, <4>3
    <3>2. QED BY <1>5, <2>1, <3>1
  <2>3. (CHOOSE g \in same : \A h \in same : g <= h) = f
    <3>1. f <= f BY <1>1
    <3>2. QED BY <2>2, <3>1
  <2>4. new = [groups EXCEPT ![f] = Append(@, p)] BY <1>7, <2>3 DEF Grouped
  <2> DEFINE s == Append(groups[f], p)
  <2>5. p \notin ToSet(groups[f]) BY <2>1 DEF InGroups
  <2>6. /\ s \in Seq(U) /\ Len(s) = Len(groups[f]) + 1 /\ Distinct(s)
        /\ ToSet(s) = ToSet(groups[f]) \union {p} /\ s[1] = groups[f][1]
    <3>1. groups[f] \in Seq(U) /\ Distinct(groups[f]) /\ Len(groups[f]) > 0 BY <1>1, <1>2
    <3>2. Len(groups[f]) \in Nat BY <3>1, SeqElements
    <3>3. 1 \in 1 .. Len(groups[f]) BY <3>1, <3>2
    <3>4. QED BY <3>1, <3>3, <2>5, AppendElements, AppendProperties
  <2>7. new = [groups EXCEPT ![f] = s] BY <2>4
  <2> HIDE DEF s, new, same
  <2>8. /\ new \in Seq(Seq(U)) /\ Len(new) = n
        /\ \A g \in 1 .. n : new[g] = IF g = f THEN s ELSE groups[g]
    BY <2>6, <2>7, <1>1, ExceptSeq
  <2>9. \A g \in 1 .. n : new[g][1] = groups[g][1] BY <2>6, <2>8
  <2>10. GroupsInv(new)
    <3>1. ASSUME NEW g \in 1 .. n
          PROVE  /\ Len(new[g]) > 0 /\ Distinct(new[g])
                 /\ \A q \in ToSet(new[g]) : q.key = new[g][1].key
      <4>1. CASE g # f BY <4>1, <1>2, <2>8
      <4>2. CASE g = f
        <5>1. Len(groups[f]) \in Nat /\ Len(groups[f]) > 0 BY <1>1, <1>2, SeqElements
        <5>2. new[g] = s /\ Len(s) > 0 /\ Distinct(s) BY <4>2, <5>1, <2>6, <2>8
        <5>3. \A q \in ToSet(s) : q.key = groups[f][1].key BY <1>2, <2>1, <2>6
        <5>4. QED BY <4>2, <5>2, <5>3, <2>9
      <4>3. QED BY <4>1, <4>2
    <3>2. QED BY <1>2, <2>8, <2>9, <3>1 DEF GroupsInv
  <2>11. InGroups(new) = InGroups(groups) \union {p}
    <3>1. \A g \in 1 .. n : ToSet(new[g]) = IF g = f THEN ToSet(groups[g]) \union {p}
                                            ELSE ToSet(groups[g])
      BY <2>6, <2>8
    <3>2. \A q : q \in InGroups(new) <=> \E g \in 1 .. n : q \in ToSet(new[g])
      BY <2>8 DEF InGroups
    <3>3. \A q : q \in InGroups(groups) <=> \E g \in 1 .. n : q \in ToSet(groups[g])
      BY DEF InGroups
    <3>4. \A q : q \in InGroups(new) <=> q \in InGroups(groups) \union {p}
      BY <3>1, <3>2, <3>3, <2>1
    <3>5. QED BY <3>4
  <2>12. QED BY <1>1, <2>8, <2>10, <2>11 DEF new
<1>8. QED BY <1>6, <1>7

=============================================================================
