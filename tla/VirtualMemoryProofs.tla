------------------------ MODULE VirtualMemoryProofs ------------------------
(***************************************************************************)
(* The paging of VirtualMemory for every width, every set of addresses and  *)
(* every set of words: the tree of tables stays a tree, a page is in one    *)
(* place, a page evicted is one of the farthest, and the memory behind the   *)
(* calls is flat.                                                           *)
(***************************************************************************)
EXTENDS VirtualMemory, FiniteSetTheorems, FunctionTheorems, TLAPS

-----------------------------------------------------------------------------
(* Induction, for a set of numbers instead of a predicate: if m is not in S,  *)
(* the successor is an injection from what S has of 0..m into a smaller set.  *)

LEMMA Induction ==
  ASSUME NEW S, 0 \in S, \A n \in Nat : n \in S => n + 1 \in S
  PROVE  Nat \subseteq S
<1> SUFFICES ASSUME NEW m \in Nat, m \notin S PROVE FALSE
  OBVIOUS
<1> DEFINE A == {k \in 0 .. m : k \in S}
           next == [k \in A |-> k + 1]
<1>1. IsFiniteSet(A) /\ 0 \in A /\ A \subseteq Nat
  <2>1. IsFiniteSet(0 .. m) BY FS_Interval
  <2>2. QED BY <2>1, FS_Subset
<1>2. next \in [A -> A \ {0}]
  <2>1. ASSUME NEW k \in A PROVE k + 1 \in A \ {0}
    OBVIOUS
  <2>2. QED BY <2>1
<1>3. \A j, k \in A : next[j] = next[k] => j = k
  OBVIOUS
<1> HIDE DEF A
<1>4. next \in Injection(A, A \ {0})
  BY <1>2, <1>3, Fun_IsInj
<1> HIDE DEF next
<1>5. /\ IsFiniteSet(A \ {0}) /\ Cardinality(A) \in Nat
      /\ Cardinality(A \ {0}) = Cardinality(A) - 1
  BY <1>1, FS_RemoveElement, FS_CardinalityType
<1>6. Cardinality(A) <= Cardinality(A \ {0})
  BY <1>4, <1>5, FS_Injection
<1>7. QED BY <1>5, <1>6

\* A set whose elements have a rank has one of the lowest rank.
LEMMA LowestRank ==
  ASSUME NEW S, NEW rank \in [S -> Nat], S # {}
  PROVE  \E x \in S : \A y \in S : rank[x] <= rank[y]
<1> SUFFICES ASSUME \A x \in S : \E y \in S : rank[y] < rank[x] PROVE FALSE
  OBVIOUS
<1> DEFINE U == {n \in Nat : \A x \in S : n <= rank[x]}
<1>1. 0 \in U OBVIOUS
<1>2. ASSUME NEW n \in Nat, n \in U PROVE n + 1 \in U
  <2>1. ASSUME NEW x \in S PROVE n + 1 <= rank[x]
    <3>1. PICK y \in S : rank[y] < rank[x] OBVIOUS
    <3>2. n <= rank[y] /\ rank[y] \in Nat /\ rank[x] \in Nat BY <1>2
    <3>3. QED BY <3>1, <3>2
  <2>2. QED BY <2>1
<1>3. Nat \subseteq U BY <1>1, <1>2, Induction
<1>4. PICK x \in S : TRUE OBVIOUS
<1>5. rank[x] \in Nat /\ rank[x] + 1 \in U BY <1>3
<1>6. QED BY <1>5

-----------------------------------------------------------------------------
(* The powers of two, and the parts of an address.                          *)

\* The recursive function Bit exists, so that it has its equation.
LEMMA BitDefined ==
  /\ Bit[0] = 1
  /\ \A n \in Nat : Bit[n + 1] = 2 * Bit[n]
<1> DEFINE Good(f, n) == f[0] = 1 /\ \A k \in 1 .. n : f[k] = 2 * f[k - 1]
           S == {n \in Nat : \E f : Good(f, n)}
           T(f, g) == {n \in Nat : Good(f, n) /\ Good(g, n) => f[n] = g[n]}
<1>1. 0 \in S
  <2>1. Good([k \in Nat |-> 1], 0) OBVIOUS
  <2>2. QED BY <2>1
<1>2. ASSUME NEW n \in Nat, n \in S PROVE n + 1 \in S
  <2>1. PICK f : Good(f, n) BY <1>2
  <2> DEFINE g == [k \in Nat |-> IF k = n + 1 THEN 2 * f[n] ELSE f[k]]
  <2>2. Good(g, n + 1) BY <2>1
  <2> HIDE DEF g, Good
  <2>3. \E h : Good(h, n + 1) BY <2>2
  <2>4. QED BY <2>3
<1>3. Nat \subseteq S BY <1>1, <1>2, Induction
<1>4. ASSUME NEW f, NEW g PROVE Nat \subseteq T(f, g)
  <2>1. 0 \in T(f, g) OBVIOUS
  <2>2. ASSUME NEW n \in Nat, n \in T(f, g) PROVE n + 1 \in T(f, g)
    <3> SUFFICES ASSUME Good(f, n + 1), Good(g, n + 1) PROVE f[n + 1] = g[n + 1]
      OBVIOUS
    <3>1. Good(f, n) /\ Good(g, n) OBVIOUS
    <3>2. f[n] = g[n] BY <2>2, <3>1
    <3>3. /\ n + 1 \in 1 .. n + 1 /\ (n + 1) - 1 = n OBVIOUS
    <3>4. f[n + 1] = 2 * f[n] /\ g[n + 1] = 2 * g[n] BY <3>3
    <3>5. QED BY <3>2, <3>4
  <2> HIDE DEF T
  <2>3. QED BY <2>1, <2>2, Induction
<1> DEFINE upto(n) == CHOOSE f : Good(f, n)
           bit == [n \in Nat |-> upto(n)[n]]
<1>5. ASSUME NEW n \in Nat PROVE Good(upto(n), n)
  <2>1. \E f : Good(f, n) BY <1>3
  <2> HIDE DEF Good
  <2>2. QED BY <2>1
<1>6. bit[0] = 1 BY <1>5
<1>7. ASSUME NEW n \in Nat PROVE bit[n + 1] = 2 * bit[n]
  <2> DEFINE f == upto(n)
             g == upto(n + 1)
  <2>1. Good(f, n) /\ Good(g, n + 1) BY <1>5
  <2>2. bit[n] = f[n] /\ bit[n + 1] = g[n + 1] OBVIOUS
  <2> HIDE DEF f, g, bit, upto
  <2>3. Good(g, n) BY <2>1
  <2>4. f[n] = g[n] BY <2>1, <2>3, <1>4
  <2>5. n + 1 \in 1 .. n + 1 /\ (n + 1) - 1 = n OBVIOUS
  <2>6. g[n + 1] = 2 * g[n] BY <2>1, <2>5
  <2>7. QED BY <2>2, <2>4, <2>6
<1>8. bit = [n \in Nat |-> IF n = 0 THEN 1 ELSE 2 * bit[n - 1]]
  <2>1. ASSUME NEW n \in Nat PROVE bit[n] = IF n = 0 THEN 1 ELSE 2 * bit[n - 1]
    <3>1. CASE n = 0 BY <3>1, <1>6
    <3>2. CASE n # 0
      <4>1. n - 1 \in Nat /\ (n - 1) + 1 = n BY <3>2
      <4> HIDE DEF bit
      <4>2. bit[(n - 1) + 1] = 2 * bit[n - 1] BY <4>1, <1>7
      <4>3. QED BY <4>1, <4>2, <3>2
    <3>3. QED BY <3>1, <3>2
  <2>2. bit = [n \in Nat |-> bit[n]] OBVIOUS
  <2> HIDE DEF bit
  <2>3. QED BY <2>1, <2>2
<1> HIDE DEF bit
<1>9. \E f : f = [n \in Nat |-> IF n = 0 THEN 1 ELSE 2 * f[n - 1]] BY <1>8
<1>10. Bit = [n \in Nat |-> IF n = 0 THEN 1 ELSE 2 * Bit[n - 1]] BY <1>9 DEF Bit
<1>11. \A n \in Nat : Bit[n] = IF n = 0 THEN 1 ELSE 2 * Bit[n - 1] BY <1>10
<1>12. ASSUME NEW n \in Nat PROVE Bit[n + 1] = 2 * Bit[n]
  <2>1. n + 1 \in Nat /\ n + 1 # 0 /\ (n + 1) - 1 = n OBVIOUS
  <2>2. QED BY <2>1, <1>11
<1>13. QED BY <1>11, <1>12

\* Powers of two are positive, and the product of two adds their exponents.
LEMMA BitPositive == \A n \in Nat : Bit[n] \in Nat \ {0}
<1> DEFINE S == {n \in Nat : Bit[n] \in Nat \ {0}}
<1>1. 0 \in S BY BitDefined
<1>2. \A n \in Nat : n \in S => n + 1 \in S BY BitDefined
<1>3. QED BY <1>1, <1>2, Induction

LEMMA BitSum == \A m, n \in Nat : Bit[m + n] = Bit[m] * Bit[n]
<1> SUFFICES ASSUME NEW m \in Nat PROVE \A n \in Nat : Bit[m + n] = Bit[m] * Bit[n]
  OBVIOUS
<1> DEFINE S == {n \in Nat : Bit[m + n] = Bit[m] * Bit[n]}
<1>1. 0 \in S
  <2>1. Bit[m] \in Nat /\ Bit[0] = 1 BY BitDefined, BitPositive
  <2>2. QED BY <2>1
<1>2. ASSUME NEW n \in Nat, n \in S PROVE n + 1 \in S
  <2>1. Bit[m + (n + 1)] = 2 * Bit[m + n]
    <3>1. m + (n + 1) = (m + n) + 1 /\ m + n \in Nat OBVIOUS
    <3>2. QED BY <3>1, BitDefined
  <2>2. Bit[n + 1] = 2 * Bit[n] BY BitDefined
  <2>3. Bit[m] \in Nat /\ Bit[n] \in Nat BY BitPositive
  <2>4. 2 * (Bit[m] * Bit[n]) = Bit[m] * (2 * Bit[n]) BY <2>3
  <2>5. QED BY <1>2, <2>1, <2>2, <2>4
<1>3. QED BY <1>1, <1>2, Induction

\* \div and % are the quotient and the rest, and only they are.
LEMMA Division ==
  ASSUME NEW a \in Nat, NEW b \in Nat \ {0}
  PROVE  /\ a \div b \in Nat /\ a % b \in 0 .. b - 1
         /\ a = (a \div b) * b + (a % b)
         /\ \A q, r \in Nat : a = q * b + r /\ r < b => q = a \div b /\ r = a % b
<1>1. a \div b \in Nat /\ a % b \in 0 .. b - 1 OBVIOUS
<1>2. a = (a \div b) * b + (a % b) OBVIOUS
<1>3. \A q, r \in Nat : a = q * b + r /\ r < b => q = a \div b /\ r = a % b OBVIOUS
<1>4. QED BY <1>1, <1>2, <1>3

\* Two numbers are equal only digit by digit.
LEMMA SameDigits ==
  ASSUME NEW b \in Nat \ {0}, NEW q \in Nat, NEW s \in Nat, NEW j \in Nat, NEW k \in Nat,
         j < b, k < b, q * b + j = s * b + k
  PROVE  q = s /\ j = k
<1> DEFINE a == q * b + j
<1>1. a \in Nat
  <2>1. q * b \in Nat OBVIOUS
  <2>2. QED BY <2>1
<1>2. a = q * b + j /\ a = s * b + k OBVIOUS
<1> HIDE DEF a
<1>3. q = a \div b /\ j = a % b BY <1>1, <1>2, Division
<1>4. s = a \div b /\ k = a % b BY <1>1, <1>2, Division
<1>5. QED BY <1>3, <1>4

\* The widths: a table has entries, the tree levels, the RAM more frames than levels.
LEMMA Widths ==
  /\ OFFSET_WIDTH \in Nat \ {0} /\ PAGE_SIZE \in Nat \ {0}
  /\ TABLES_DEPTH \in Nat \ {0}
  /\ NUM_FRAMES \in Nat /\ NUM_FRAMES > TABLES_DEPTH
  /\ 0 \in Frame /\ 0 \in Offset /\ 0 \in Word
  /\ VIRTUAL_ADDRESS_WIDTH - OFFSET_WIDTH \in Nat
  /\ NUM_PAGES = Bit[VIRTUAL_ADDRESS_WIDTH - OFFSET_WIDTH] /\ NUM_PAGES \in Nat \ {0}
  /\ VIRTUAL_MEMORY_SIZE = NUM_PAGES * PAGE_SIZE
  /\ VIRTUAL_MEMORY_SIZE <= Bit[(TABLES_DEPTH + 1) * OFFSET_WIDTH]
<1> DEFINE O == OFFSET_WIDTH
           V == VIRTUAL_ADDRESS_WIDTH
           D == TABLES_DEPTH
<1>1. O \in Nat \ {0} /\ V \in Nat /\ V > O /\ PHYSICAL_ADDRESS_WIDTH \in Nat
  BY WidthAssumption
<1>2. PAGE_SIZE \in Nat \ {0} BY <1>1, BitPositive DEF PAGE_SIZE
<1>3. D \in Nat \ {0} /\ V <= (D + 1) * O
  <2>1. V - 1 \in Nat BY <1>1
  <2>2. D \in Nat /\ V - 1 = D * O + ((V - 1) % O) /\ (V - 1) % O \in 0 .. O - 1
    BY <2>1, <1>1, Division DEF TABLES_DEPTH
  <2> HIDE DEF D
  <2>3. D # 0 BY <1>1, <2>2
  <2>4. (D + 1) * O = (D * O) + O BY <1>1, <2>2
  <2>5. D * O \in Nat BY <1>1, <2>2
  <2>6. V - 1 <= (D * O) + (O - 1) BY <1>1, <2>2, <2>5
  <2>7. QED BY <1>1, <2>2, <2>3, <2>4, <2>5, <2>6
<1>4. NUM_FRAMES \in Nat /\ NUM_FRAMES > D
  <2>1. NUM_FRAMES \in Nat BY <1>1, <1>2, BitPositive, Division DEF NUM_FRAMES
  <2>2. QED BY <2>1, WidthAssumption
<1>5. 0 \in Frame /\ 0 \in Offset /\ 0 \in Word
  BY <1>2, <1>3, <1>4 DEF Frame, Offset, Word
<1>6. /\ V - O \in Nat /\ VIRTUAL_MEMORY_SIZE = Bit[V - O] * PAGE_SIZE
      /\ Bit[V - O] \in Nat \ {0}
  <2>1. V - O \in Nat /\ V = (V - O) + O BY <1>1
  <2>2. Bit[(V - O) + O] = Bit[V - O] * Bit[O] BY <2>1, <1>1, BitSum
  <2>3. QED BY <2>1, <2>2, BitPositive DEF VIRTUAL_MEMORY_SIZE, PAGE_SIZE
<1>7. NUM_PAGES = Bit[V - O]
  <2>1. VIRTUAL_MEMORY_SIZE \in Nat BY <1>1, BitPositive DEF VIRTUAL_MEMORY_SIZE
  <2>2. VIRTUAL_MEMORY_SIZE = Bit[V - O] * PAGE_SIZE + 0 BY <1>2, <1>6, <2>1
  <2>3. Bit[V - O] = VIRTUAL_MEMORY_SIZE \div PAGE_SIZE
    <3>1. 0 < PAGE_SIZE /\ Bit[V - O] \in Nat BY <1>2, <1>6
    <3>2. QED BY <3>1, <2>1, <2>2, <1>2, Division
  <2>4. QED BY <2>3 DEF NUM_PAGES
<1>8. VIRTUAL_MEMORY_SIZE <= Bit[(D + 1) * O]
  <2> DEFINE E == (D + 1) * O - V
  <2>1. (D + 1) * O \in Nat BY <1>1, <1>3
  <2>2. E \in Nat /\ (D + 1) * O = V + E BY <1>1, <1>3, <2>1
  <2> HIDE DEF E
  <2>3. Bit[V + E] = Bit[V] * Bit[E] BY <1>1, <2>2, BitSum
  <2>4. Bit[V] \in Nat /\ Bit[E] \in Nat \ {0} BY <1>1, <2>2, BitPositive
  <2>5. Bit[V] <= Bit[V] * Bit[E] BY <2>4
  <2>6. QED BY <2>2, <2>3, <2>5 DEF VIRTUAL_MEMORY_SIZE
<1>9. QED BY <1>1, <1>2, <1>3, <1>4, <1>5, <1>6, <1>7, <1>8

\* What is left of an address after the entries of i levels are read: the path, as a
\* number, of the node that the translation reaches there.
Prefix(a, i) == a \div Bit[(TABLES_DEPTH + 1 - i) * OFFSET_WIDTH]

\* The entry that the translation reads on level i.
EntryAt(a, i) == (a \div Bit[(TABLES_DEPTH - i) * OFFSET_WIDTH]) % PAGE_SIZE

\* An address is split into a page and an offset, the page into the entries of the levels:
\* the path of a node is that of its parent, times the size of a table, plus the entry.
LEMMA Addressing ==
  ASSUME NEW a \in Nat, a < VIRTUAL_MEMORY_SIZE
  PROVE  /\ a \div PAGE_SIZE \in Page /\ a % PAGE_SIZE \in Offset
         /\ Prefix(a, 0) = 0 /\ Prefix(a, TABLES_DEPTH) = a \div PAGE_SIZE
         /\ \A i \in 0 .. TABLES_DEPTH : Prefix(a, i) \in Nat
         /\ \A i \in 0 .. TABLES_DEPTH - 1 :
              /\ EntryAt(a, i) \in Offset
              /\ Prefix(a, i + 1) = Prefix(a, i) * PAGE_SIZE + EntryAt(a, i)
<1> DEFINE O == OFFSET_WIDTH
           P == PAGE_SIZE
           D == TABLES_DEPTH
<1>1. /\ O \in Nat \ {0} /\ P \in Nat \ {0} /\ P = Bit[O]
      /\ D \in Nat \ {0} /\ NUM_PAGES \in Nat \ {0}
      /\ VIRTUAL_MEMORY_SIZE = NUM_PAGES * P
      /\ VIRTUAL_MEMORY_SIZE <= Bit[(D + 1) * O]
  BY Widths DEF PAGE_SIZE
<1> HIDE DEF O, P, D
<1>2. a \div P \in Nat /\ a % P \in 0 .. P - 1 /\ a = (a \div P) * P + (a % P)
  BY <1>1, Division
<1>3. a \div P < NUM_PAGES
  <2> DEFINE q == a \div P
             r == a % P
             N == NUM_PAGES
  <2>1. q \in Nat /\ r \in Nat /\ a = q * P + r /\ N \in Nat /\ a < N * P
    BY <1>1, <1>2
  <2> HIDE DEF q, r, N
  <2>2. q >= N => q * P >= N * P BY <2>1, <1>1
  <2>3. q * P \in Nat /\ N * P \in Nat BY <2>1, <1>1
  <2>4. q < N BY <2>1, <2>2, <2>3
  <2>5. QED BY <2>4 DEF q, N
<1>4. \A i \in 0 .. D : (D + 1 - i) * O \in Nat /\ Bit[(D + 1 - i) * O] \in Nat \ {0}
  <2>1. \A i \in 0 .. D : (D + 1 - i) * O \in Nat BY <1>1
  <2>2. QED BY <2>1, BitPositive
<1>5. \A i \in 0 .. D : Prefix(a, i) \in Nat BY <1>4, Division DEF Prefix, O, D
<1>6. Prefix(a, 0) = 0
  <2> DEFINE B == Bit[(D + 1) * O]
  <2>1. B \in Nat \ {0} /\ Prefix(a, 0) = a \div B
    <3>1. 0 \in 0 .. D /\ D + 1 - 0 = D + 1 BY <1>1
    <3>2. QED BY <3>1, <1>4 DEF Prefix, O, D
  <2> HIDE DEF B
  <2>2. VIRTUAL_MEMORY_SIZE <= B BY <1>1 DEF B
  <2>3. NUM_PAGES * P \in Nat BY <1>1
  <2>4. a < B BY <1>1, <2>1, <2>2, <2>3
  <2>5. a \div B = 0
    <3>1. a \div B \in Nat /\ a % B \in 0 .. B - 1 /\ a = (a \div B) * B + (a % B)
      BY <2>1, Division
    <3> DEFINE q == a \div B
               r == a % B
    <3> HIDE DEF q, r
    <3>2. q \in Nat /\ r \in Nat /\ a = q * B + r BY <3>1, <2>1 DEF q, r
    <3>3. q >= 1 => q * B >= B BY <3>2, <2>1
    <3>4. q = 0 BY <3>2, <3>3, <2>1, <2>4
    <3>5. QED BY <3>4 DEF q
  <2>6. QED BY <2>1, <2>5
<1>7. Prefix(a, D) = a \div P
  <2>1. (D + 1 - D) * O = O BY <1>1
  <2>2. QED BY <2>1, <1>1 DEF Prefix, O, D
<1>8. ASSUME NEW i \in 0 .. D - 1
      PROVE  EntryAt(a, i) \in Offset /\ Prefix(a, i + 1) = Prefix(a, i) * P + EntryAt(a, i)
  <2> DEFINE B == Bit[(D - i) * O]
             q == a \div B
  <2>1. (D - i) * O \in Nat /\ B \in Nat \ {0}
    <3>1. (D - i) * O \in Nat BY <1>1
    <3>2. QED BY <3>1, BitPositive
  <2>2. Bit[(D + 1 - i) * O] = B * P
    <3>1. (D + 1 - i) * O = (D - i) * O + O BY <1>1
    <3>2. QED BY <3>1, <2>1, <1>1, BitSum
  <2>3. (D + 1 - (i + 1)) * O = (D - i) * O
    <3>1. D + 1 - (i + 1) = D - i BY <1>1
    <3>2. QED BY <3>1
  <2>4. Prefix(a, i + 1) = q BY <2>3 DEF Prefix, O, D
  <2>5. EntryAt(a, i) = q % P BY DEF EntryAt, O, P, D
  <2>6. Prefix(a, i) = a \div (B * P) BY <2>2 DEF Prefix, O, D
  <2> HIDE DEF B
  <2>7. q \in Nat BY <2>1, Division
  <2>8. q \div P = a \div (B * P) BY <2>1, <1>1
  <2> HIDE DEF q
  <2>9. q = (q \div P) * P + (q % P) /\ q % P \in 0 .. P - 1 BY <2>7, <1>1, Division
  <2>10. QED BY <2>4, <2>5, <2>6, <2>8, <2>9 DEF Offset, P
<1>9. QED BY <1>2, <1>3, <1>5, <1>6, <1>7, <1>8, <1>1 DEF Page, Offset, P, D

-----------------------------------------------------------------------------
(* The tree of tables.                                                     *)

Child(ram, p, j) ==
  [frame |-> ram[p.frame][j], parent |-> p.frame, offset |-> j,
   path |-> p.path * PAGE_SIZE + j, depth |-> p.depth + 1]

\* What a child of a table is, without the set it is in.
LEMMA ChildLemma ==
  ASSUME NEW ram, NEW p
  PROVE  /\ \A j \in Offset : ram[p.frame][j] # 0 => Child(ram, p, j) \in Children(ram, p)
         /\ \A c \in Children(ram, p) :
              /\ c.offset \in Offset /\ c = Child(ram, p, c.offset)
              /\ c.frame = ram[p.frame][c.offset] /\ c.frame # 0
              /\ c.parent = p.frame
              /\ c.path = p.path * PAGE_SIZE + c.offset
              /\ c.depth = p.depth + 1
BY DEF Children, Child

\* The recursive function behind Levels exists, so that it has its equation.
LEMMA LevelsDefined ==
  ASSUME NEW ram
  PROVE  /\ Levels(ram)[0] = {Root}
         /\ \A d \in 0 .. TABLES_DEPTH - 1 :
              Levels(ram)[d + 1] = UNION {Children(ram, n) : n \in Levels(ram)[d]}
<1> DEFINE Below(X) == UNION {Children(ram, n) : n \in X}
           Good(f, k) == f = [d \in 0 .. k |-> IF d = 0 THEN {Root} ELSE Below(f[d - 1])]
           S == {k \in Nat : \E f : Good(f, k)}
<1> HIDE DEF Below
<1>1. 0 \in S
  <2>1. Good([d \in 0 .. 0 |-> {Root}], 0) OBVIOUS
  <2>2. QED BY <2>1
<1>2. ASSUME NEW k \in Nat, k \in S PROVE k + 1 \in S
  <2>1. PICK f : Good(f, k) BY <1>2
  <2> DEFINE g == [d \in 0 .. k + 1 |-> IF d = k + 1 THEN Below(f[k]) ELSE f[d]]
  <2>2. ASSUME NEW d \in 0 .. k + 1
        PROVE  g[d] = IF d = 0 THEN {Root} ELSE Below(g[d - 1])
    <3>1. CASE d = k + 1
      <4>1. d # 0 /\ d - 1 = k /\ k \in 0 .. k + 1 /\ k # k + 1 BY <3>1
      <4>2. g[k] = f[k] /\ g[d] = Below(f[k]) BY <4>1, <3>1
      <4>3. QED BY <4>1, <4>2
    <3>2. CASE d # k + 1
      <4>1. d \in 0 .. k /\ (d # 0 => d - 1 \in 0 .. k + 1 /\ d - 1 # k + 1) BY <3>2
      <4>2. g[d] = f[d] /\ (d # 0 => g[d - 1] = f[d - 1]) BY <4>1, <3>2
      <4>3. f[d] = IF d = 0 THEN {Root} ELSE Below(f[d - 1]) BY <2>1, <4>1
      <4>4. QED BY <4>2, <4>3
    <3>3. QED BY <3>1, <3>2
  <2>3. Good(g, k + 1) BY <2>2
  <2> HIDE DEF g, Good
  <2>4. \E h : Good(h, k + 1) BY <2>3
  <2>5. QED BY <2>4
<1>3. TABLES_DEPTH \in Nat BY Widths
<1>4. TABLES_DEPTH \in S BY <1>1, <1>2, <1>3, Induction
<1>5. \E f : Good(f, TABLES_DEPTH) BY <1>4
<1> DEFINE level == CHOOSE f : Good(f, TABLES_DEPTH)
<1>6. Good(level, TABLES_DEPTH) BY <1>5
<1>7. Levels(ram) = level BY DEF Levels, Below
<1> HIDE DEF level
<1>8. level[0] = {Root} BY <1>3, <1>6
<1>9. ASSUME NEW d \in 0 .. TABLES_DEPTH - 1 PROVE level[d + 1] = Below(level[d])
  <2>1. d + 1 \in 0 .. TABLES_DEPTH /\ d + 1 # 0 /\ (d + 1) - 1 = d BY <1>3
  <2>2. QED BY <2>1, <1>6
<1>10. QED BY <1>7, <1>8, <1>9 DEF Below

\* S is what a walk from the root finds: the root and every child of a table.
IsTree(ram, S) ==
  /\ Root \in S
  /\ \A n \in S : n.depth \in 0 .. TABLES_DEPTH /\ n.path \in Nat
  /\ \A n \in S : n.depth < TABLES_DEPTH => Children(ram, n) \subseteq S
  /\ \A n \in S : n = Root \/ \E p \in S : p.depth < TABLES_DEPTH /\ n \in Children(ram, p)

\* The nodes are such a set, and the leaves are those on the last level.
LEMMA NodesAreTree ==
  ASSUME NEW ram
  PROVE  /\ IsTree(ram, Nodes(ram))
         /\ Leaves(ram) = {n \in Nodes(ram) : n.depth = TABLES_DEPTH}
<1> DEFINE D == TABLES_DEPTH
           L(d) == Levels(ram)[d]
           S == {d \in Nat : d <= D => \A n \in L(d) : n.depth = d /\ n.path \in Nat}
<1>1. /\ L(0) = {Root}
      /\ \A d \in 0 .. D - 1 : L(d + 1) = UNION {Children(ram, n) : n \in L(d)}
  BY LevelsDefined
<1>2. D \in Nat \ {0} /\ PAGE_SIZE \in Nat /\ Offset \subseteq Nat BY Widths DEF Offset
<1>3. Nodes(ram) = UNION {L(d) : d \in 0 .. D} /\ Leaves(ram) = L(D)
  BY DEF Nodes, Leaves
<1> HIDE DEF L, D
<1>4. 0 \in S BY <1>1 DEF Root
<1>5. ASSUME NEW d \in Nat, d \in S PROVE d + 1 \in S
  <2> SUFFICES ASSUME d + 1 <= D, NEW c \in L(d + 1)
               PROVE  c.depth = d + 1 /\ c.path \in Nat
    OBVIOUS
  <2>1. d \in 0 .. D - 1 /\ d <= D BY <1>2
  <2>2. PICK n \in L(d) : c \in Children(ram, n) BY <1>1, <2>1
  <2>3. n.depth = d /\ n.path \in Nat BY <1>5, <2>1
  <2>4. /\ c.offset \in Offset /\ c.path = n.path * PAGE_SIZE + c.offset
        /\ c.depth = n.depth + 1
    BY <2>2, ChildLemma
  <2>5. n.path \in Nat /\ PAGE_SIZE \in Nat BY <2>3, <1>2
  <2>6. n.path * PAGE_SIZE \in Nat BY <2>5
  <2>7. c.offset \in Nat BY <2>4, <1>2
  <2>8. QED BY <2>3, <2>4, <2>6, <2>7
<1>6. Nat \subseteq S BY <1>4, <1>5, Induction
<1>7. \A d \in 0 .. D : \A n \in L(d) : n.depth = d /\ n.path \in Nat BY <1>2, <1>6
<1>8. Root \in Nodes(ram) BY <1>1, <1>2, <1>3
<1>9. ASSUME NEW n \in Nodes(ram)
      PROVE  n.depth \in 0 .. D /\ n.path \in Nat /\ n \in L(n.depth)
  BY <1>3, <1>7
<1>10. ASSUME NEW n \in Nodes(ram), n.depth < D PROVE Children(ram, n) \subseteq Nodes(ram)
  <2>1. n.depth \in 0 .. D - 1 /\ n \in L(n.depth) BY <1>9, <1>10, <1>2
  <2>2. Children(ram, n) \subseteq L(n.depth + 1) BY <2>1, <1>1
  <2>3. n.depth + 1 \in 0 .. D BY <2>1, <1>2
  <2>4. QED BY <2>2, <2>3, <1>3
<1>11. ASSUME NEW n \in Nodes(ram), n # Root
       PROVE  \E p \in Nodes(ram) : p.depth < D /\ n \in Children(ram, p)
  <2>1. n \in L(n.depth) /\ n.depth \in 0 .. D BY <1>9
  <2>2. n.depth # 0 BY <2>1, <1>1, <1>11
  <2> DEFINE d == n.depth - 1
  <2>3. d \in 0 .. D - 1 /\ n.depth = d + 1 BY <2>1, <2>2, <1>2
  <2>4. PICK p \in L(d) : n \in Children(ram, p) BY <2>1, <2>3, <1>1
  <2>5. p \in Nodes(ram) /\ p.depth < D BY <2>3, <1>2, <1>3, <1>7
  <2>6. QED BY <2>4, <2>5
<1>12. Leaves(ram) = {n \in Nodes(ram) : n.depth = D} BY <1>2, <1>3, <1>7, <1>9
<1>13. QED BY <1>8, <1>9, <1>10, <1>11, <1>12 DEF IsTree, D

\* There is only one such set.
LEMMA TreeIsNodes ==
  ASSUME NEW ram, NEW S, IsTree(ram, S)
  PROVE  S = Nodes(ram)
<1> DEFINE D == TABLES_DEPTH
           L(d) == Levels(ram)[d]
           U == {d \in Nat : d <= D => {n \in S : n.depth = d} = L(d)}
<1>1. /\ L(0) = {Root}
      /\ \A d \in 0 .. D - 1 : L(d + 1) = UNION {Children(ram, n) : n \in L(d)}
  BY LevelsDefined
<1>2. D \in Nat \ {0} BY Widths
<1>3. Nodes(ram) = UNION {L(d) : d \in 0 .. D} BY DEF Nodes
<1>4. /\ Root \in S
      /\ \A n \in S : n.depth \in 0 .. D
      /\ \A n \in S : n.depth < D => Children(ram, n) \subseteq S
      /\ \A n \in S : n = Root \/ \E p \in S : p.depth < D /\ n \in Children(ram, p)
  BY DEF IsTree
<1> HIDE DEF L, D
<1>5. 0 \in U
  <2>1. ASSUME NEW n \in S, n.depth = 0 PROVE n = Root
    <3> SUFFICES ASSUME NEW p \in S, n \in Children(ram, p) PROVE FALSE BY <1>4
    <3>1. n.depth = p.depth + 1 /\ p.depth \in Nat BY ChildLemma, <1>4
    <3>2. QED BY <2>1, <3>1
  <2>2. Root.depth = 0 BY DEF Root
  <2>3. QED BY <2>1, <2>2, <1>1, <1>4
<1>6. ASSUME NEW d \in Nat, d \in U PROVE d + 1 \in U
  <2> SUFFICES ASSUME d + 1 <= D PROVE {n \in S : n.depth = d + 1} = L(d + 1) OBVIOUS
  <2>1. d \in 0 .. D - 1 /\ d < D /\ d <= D BY <1>2
  <2>2. L(d) = {n \in S : n.depth = d} BY <2>1, <1>6
  <2>3. L(d + 1) = UNION {Children(ram, n) : n \in L(d)} BY <2>1, <1>1
  <2>4. ASSUME NEW n \in S, n.depth = d + 1 PROVE n \in L(d + 1)
    <3>1. n # Root BY <2>4 DEF Root
    <3>2. PICK p \in S : n \in Children(ram, p) BY <3>1, <1>4
    <3>3. n.depth = p.depth + 1 /\ p.depth \in Nat BY <3>2, ChildLemma, <1>4
    <3>4. p.depth = d BY <3>3, <2>4
    <3>5. QED BY <3>2, <3>4, <2>2, <2>3
  <2>5. ASSUME NEW n \in L(d + 1) PROVE n \in S /\ n.depth = d + 1
    <3>1. PICK p \in L(d) : n \in Children(ram, p) BY <2>3
    <3>2. p \in S /\ p.depth = d BY <2>2
    <3>3. n \in S BY <3>1, <3>2, <2>1, <1>4
    <3>4. QED BY <3>1, <3>2, <3>3, ChildLemma
  <2>6. QED BY <2>4, <2>5
<1>7. Nat \subseteq U BY <1>5, <1>6, Induction
<1>8. \A d \in 0 .. D : {n \in S : n.depth = d} = L(d) BY <1>2, <1>7
<1>9. QED BY <1>3, <1>4, <1>8

\* A path of a given length leads to one node.
LEMMA PathsLemma ==
  ASSUME NEW ram
  PROVE  \A n, o \in Nodes(ram) : n.depth = o.depth /\ n.path = o.path => n = o
<1> DEFINE N == Nodes(ram)
           P == PAGE_SIZE
           S == {d \in Nat : \A n, o \in N : n.depth = d /\ o.depth = d /\ n.path = o.path
                                            => n = o}
<1>1. /\ \A n \in N : n.depth \in Nat /\ n.path \in Nat
      /\ \A n \in N : n = Root \/ \E p \in N : n \in Children(ram, p)
  <2>1. TABLES_DEPTH \in Nat BY Widths
  <2>2. QED BY <2>1, NodesAreTree DEF IsTree
<1>2. P \in Nat \ {0} /\ Offset = 0 .. P - 1 BY Widths DEF Offset
<1> HIDE DEF N, P
<1>3. 0 \in S
  <2>1. ASSUME NEW n \in N, n.depth = 0 PROVE n = Root
    <3> SUFFICES ASSUME NEW p \in N, n \in Children(ram, p) PROVE FALSE BY <1>1
    <3>1. n.depth = p.depth + 1 /\ p.depth \in Nat BY ChildLemma, <1>1
    <3>2. QED BY <2>1, <3>1
  <2>2. QED BY <2>1
<1>4. ASSUME NEW d \in Nat, d \in S PROVE d + 1 \in S
  <2> SUFFICES ASSUME NEW n \in N, NEW o \in N, n.depth = d + 1, o.depth = d + 1,
                      n.path = o.path
               PROVE  n = o
    OBVIOUS
  <2>1. n # Root /\ o # Root BY DEF Root
  <2>2. PICK p \in N : n \in Children(ram, p) BY <2>1, <1>1
  <2>3. PICK q \in N : o \in Children(ram, q) BY <2>1, <1>1
  <2>4. /\ n = Child(ram, p, n.offset) /\ n.offset \in Offset
        /\ n.path = p.path * P + n.offset /\ n.depth = p.depth + 1
    BY <2>2, ChildLemma DEF P
  <2>5. /\ o = Child(ram, q, o.offset) /\ o.offset \in Offset
        /\ o.path = q.path * P + o.offset /\ o.depth = q.depth + 1
    BY <2>3, ChildLemma DEF P
  <2>6. p.depth = d /\ q.depth = d BY <2>4, <2>5, <1>1
  <2>7. p.path = q.path /\ n.offset = o.offset
    <3>1. p.path \in Nat /\ q.path \in Nat BY <1>1
    <3>2. /\ n.offset \in Nat /\ n.offset < P
          /\ o.offset \in Nat /\ o.offset < P
      BY <1>2, <2>4, <2>5
    <3>3. p.path * P + n.offset = q.path * P + o.offset BY <2>4, <2>5
    <3>4. QED BY <3>1, <3>2, <3>3, <1>2, SameDigits
  <2>8. p = q BY <2>6, <2>7, <1>4
  <2>9. QED BY <2>4, <2>5, <2>7, <2>8
<1>5. Nat \subseteq S BY <1>3, <1>4, Induction
<1>6. QED BY <1>1, <1>5 DEF N

-----------------------------------------------------------------------------
(* The memory between two operations, also in the middle of a translation.   *)

Content == [Offset -> Word]

UsedFrames(ram) == {n.frame : n \in Nodes(ram)}

MemoryTyped(m) ==
  /\ m = [ram |-> m.ram, swap |-> m.swap]
  /\ m.ram \in [Frame -> Content]
  /\ DOMAIN m.swap \subseteq Page
  /\ \A p \in DOMAIN m.swap : m.swap[p] \in Content

\* The words of the tables that are not 0 are frames, each of one node, those in use
\* are the lowest, and the pages in the RAM are not in the swap file.
Sound(m) ==
  /\ MemoryTyped(m)
  /\ \A n \in Nodes(m.ram) : n.frame \in Frame
  /\ \A n, o \in Nodes(m.ram) : n.frame = o.frame => n = o
  /\ \A n \in Nodes(m.ram) : 0 .. n.frame \subseteq UsedFrames(m.ram)
  /\ \A n \in Leaves(m.ram) : n.path \in Page /\ n.path \notin DOMAIN m.swap

\* What the lemmas below know of the tree of a memory.
LEMMA TreeFacts ==
  ASSUME NEW ram
  PROVE  /\ Root \in Nodes(ram)
         /\ \A n \in Nodes(ram) : n.depth \in Nat /\ n.depth <= TABLES_DEPTH /\ n.path \in Nat
         /\ \A n \in Nodes(ram) : n.depth < TABLES_DEPTH => Children(ram, n) \subseteq Nodes(ram)
         /\ \A n \in Nodes(ram) :
              n # Root => \E p \in Nodes(ram) : p.depth < TABLES_DEPTH /\ n \in Children(ram, p)
         /\ \A n \in Nodes(ram) : n \in Leaves(ram) <=> n.depth = TABLES_DEPTH
         /\ Leaves(ram) \subseteq Nodes(ram)
         /\ \A n \in Nodes(ram) : n.depth = 0 => n = Root
         /\ Root.depth = 0 /\ Root.frame = 0 /\ Root.path = 0
<1>1. IsTree(ram, Nodes(ram)) /\ Leaves(ram) = {n \in Nodes(ram) : n.depth = TABLES_DEPTH}
  BY NodesAreTree
<1>2. TABLES_DEPTH \in Nat BY Widths
<1>3. \A n \in Nodes(ram) : n.depth \in Nat /\ n.depth <= TABLES_DEPTH /\ n.path \in Nat
  BY <1>1, <1>2 DEF IsTree
<1>4. /\ Root \in Nodes(ram)
      /\ \A n \in Nodes(ram) : n.depth < TABLES_DEPTH => Children(ram, n) \subseteq Nodes(ram)
      /\ \A n \in Nodes(ram) :
           n # Root => \E p \in Nodes(ram) : p.depth < TABLES_DEPTH /\ n \in Children(ram, p)
  BY <1>1 DEF IsTree
<1>5. ASSUME NEW n \in Nodes(ram), n.depth = 0 PROVE n = Root
  <2> SUFFICES ASSUME NEW p \in Nodes(ram), n \in Children(ram, p) PROVE FALSE BY <1>4
  <2>1. n.depth = p.depth + 1 /\ p.depth \in Nat BY ChildLemma, <1>3
  <2>2. QED BY <2>1, <1>5
<1>6. Root.depth = 0 /\ Root.frame = 0 /\ Root.path = 0 BY DEF Root
<1>7. QED BY <1>1, <1>3, <1>4, <1>5, <1>6

\* If every frame is in use and no table is empty but the one that the translation is
\* at, there is a page to evict: otherwise the nodes are one chain of tables, shorter
\* than the RAM.
LEMMA LeafExists ==
  ASSUME NEW m, Sound(m), NEW x \in Nodes(m.ram), x.depth < TABLES_DEPTH,
         EmptyTables(m.ram, x.frame) = {}, UsedFrames(m.ram) = Frame
  PROVE  Leaves(m.ram) # {}
<1> SUFFICES ASSUME Leaves(m.ram) = {} PROVE FALSE
  OBVIOUS
<1> DEFINE D == TABLES_DEPTH
           N == Nodes(m.ram)
           T == {k \in Nat : k <= D => \A n, o \in N : n.depth = D - k /\ o.depth = D - k
                                             => n = o /\ n.depth <= x.depth}
<1>1. D \in Nat \ {0} /\ NUM_FRAMES \in Nat /\ NUM_FRAMES > D BY Widths
<1>2. /\ \A n \in N : n.depth \in Nat /\ n.depth <= D
      /\ \A n \in N : n.depth # D
      /\ \A n \in N : n.depth < D => Children(m.ram, n) \subseteq N
      /\ \A n, o \in N : n.frame = o.frame => n = o
  BY TreeFacts DEF Sound
<1>3. ASSUME NEW n \in N, n # x PROVE \E c \in N : c \in Children(m.ram, n)
  <2>1. n.depth < D BY <1>1, <1>2
  <2>2. n.frame # x.frame BY <1>2, <1>3
  <2>3. \E j \in Offset : m.ram[n.frame][j] # 0 BY <2>1, <2>2 DEF EmptyTables
  <2>4. PICK j \in Offset : Child(m.ram, n, j) \in Children(m.ram, n) BY <2>3, ChildLemma
  <2>5. QED BY <2>1, <2>4, <1>2
<1>4. \A n \in N : \A c \in Children(m.ram, n) : c.depth = n.depth + 1 /\ c.parent = n.frame
  BY ChildLemma
<1> HIDE DEF D, N
<1>5. x \in N /\ x.depth \in Nat BY <1>2 DEF N
<1>6. 0 \in T BY <1>1, <1>2
<1>7. ASSUME NEW k \in Nat, k \in T PROVE k + 1 \in T
  <2> SUFFICES ASSUME k + 1 <= D, NEW n \in N, NEW o \in N,
                      n.depth = D - (k + 1), o.depth = D - (k + 1)
               PROVE  n = o /\ n.depth <= x.depth
    OBVIOUS
  <2>1. k <= D /\ (D - (k + 1)) + 1 = D - k BY <1>1
  <2>2. \A b, c \in N : b.depth = D - k /\ c.depth = D - k => b = c /\ b.depth <= x.depth
    BY <2>1, <1>7
  <2>3. ASSUME NEW b \in N, b # x, b.depth = n.depth
        PROVE  \E c \in N : c.depth = D - k /\ c.parent = b.frame /\ b.depth < x.depth
    <3>1. PICK c \in N : c \in Children(m.ram, b) BY <2>3, <1>3
    <3>2. c.depth = D - k /\ c.parent = b.frame /\ c.depth = b.depth + 1
      BY <3>1, <2>1, <2>3, <1>4
    <3>3. c.depth <= x.depth BY <3>2, <2>2
    <3>4. b.depth \in Nat BY <1>2
    <3>5. QED BY <3>2, <3>3, <3>4, <1>5
  <2>4. CASE n = x
    <3>1. o = x
      <4> SUFFICES ASSUME o # x PROVE FALSE OBVIOUS
      <4>1. o.depth < x.depth BY <2>3
      <4>2. QED BY <4>1, <2>4, <1>5
    <3>2. QED BY <3>1, <2>4, <1>5
  <2>5. CASE n # x
    <3>1. PICK b \in N : b.depth = D - k /\ b.parent = n.frame /\ n.depth < x.depth
      BY <2>3, <2>5
    <3>2. o # x BY <3>1, <1>5
    <3>3. PICK c \in N : c.depth = D - k /\ c.parent = o.frame BY <3>2, <2>3
    <3>4. b = c BY <3>1, <3>3, <2>2
    <3>5. n.frame = o.frame BY <3>1, <3>3, <3>4
    <3>6. n.depth \in Nat BY <1>2
    <3>7. QED BY <3>1, <3>5, <3>6, <1>2, <1>5
  <2>6. QED BY <2>4, <2>5
<1>8. Nat \subseteq T BY <1>6, <1>7, Induction
<1>9. ASSUME NEW n \in N, NEW o \in N, n.depth = o.depth PROVE n = o
  <2> DEFINE k == D - n.depth
  <2>1. k \in Nat /\ k <= D /\ n.depth = D - k BY <1>1, <1>2
  <2> HIDE DEF k
  <2>2. k \in T BY <2>1, <1>8
  <2>3. QED BY <2>1, <2>2, <1>9
<1> DEFINE at == [g \in Frame |-> (CHOOSE n \in N : n.frame = g).depth]
<1>10. ASSUME NEW g \in Frame
       PROVE  \E n \in N : n.frame = g /\ at[g] = n.depth /\ n.depth \in 0 .. D - 1
  <2>1. \E n \in N : n.frame = g BY DEF UsedFrames, N
  <2> DEFINE n == CHOOSE o \in N : o.frame = g
  <2>2. n \in N /\ n.frame = g BY <2>1
  <2>3. at[g] = n.depth OBVIOUS
  <2> HIDE DEF n, at
  <2>4. n.depth \in Nat /\ n.depth <= D /\ n.depth # D BY <2>2, <1>2
  <2>5. n.depth \in 0 .. D - 1 BY <2>4, <1>1
  <2>6. QED BY <2>2, <2>3, <2>5
<1> HIDE DEF T
<1>11. at \in [Frame -> 0 .. D - 1] BY <1>10
<1> HIDE DEF at
<1>12. /\ IsFiniteSet(Frame) /\ Cardinality(Frame) = NUM_FRAMES
       /\ IsFiniteSet(0 .. D - 1) /\ Cardinality(0 .. D - 1) = D
  BY <1>1, FS_Interval DEF Frame
<1>13. PICK g \in Frame, h \in Frame : g # h /\ at[g] = at[h]
  BY <1>1, <1>11, <1>12, FS_PigeonHole
<1>14. QED BY <1>9, <1>10, <1>13

\* PMwrite changes one word.
LEMMA WriteLemma ==
  ASSUME NEW m, MemoryTyped(m), NEW f \in Frame, NEW j \in Offset, NEW w \in Word,
         NEW r, r = PMwrite(m, f, j, w)
  PROVE  /\ MemoryTyped(r) /\ r.swap = m.swap
         /\ r.ram[f][j] = w
         /\ \A g \in Frame, i \in Offset : g # f \/ i # j => r.ram[g][i] = m.ram[g][i]
         /\ \A g \in Frame : g # f => r.ram[g] = m.ram[g]
<1> DEFINE ram2 == [m.ram EXCEPT ![f][j] = w]
<1>1. m = [ram |-> m.ram, swap |-> m.swap] /\ m.ram \in [Frame -> [Offset -> Word]]
  BY DEF MemoryTyped, Content
<1>2. r = [ram |-> ram2, swap |-> m.swap]
  <2> DEFINE a == m.ram
             b == m.swap
  <2>1. m = [ram |-> a, swap |-> b] BY <1>1
  <2> HIDE DEF a, b
  <2>2. [m EXCEPT !.ram[f][j] = w] = [ram |-> [a EXCEPT ![f][j] = w], swap |-> b]
    BY <2>1
  <2>3. QED BY <2>2 DEF PMwrite, a, b
<1>3. ram2 \in [Frame -> [Offset -> Word]] BY <1>1
<1>4. /\ ram2[f][j] = w
      /\ \A g \in Frame, i \in Offset : g # f \/ i # j => ram2[g][i] = m.ram[g][i]
      /\ \A g \in Frame : g # f => ram2[g] = m.ram[g]
  BY <1>1
<1> HIDE DEF ram2
<1>5. r.ram = ram2 /\ r.swap = m.swap /\ r = [ram |-> r.ram, swap |-> r.swap] BY <1>2
<1>6. MemoryTyped(r) BY <1>3, <1>5 DEF MemoryTyped, Content
<1>7. QED BY <1>4, <1>5, <1>6

\* PMevict copies a frame to the swap file, and nothing else.
LEMMA EvictLemma ==
  ASSUME NEW m, MemoryTyped(m), NEW f \in Frame, NEW p \in Page,
         NEW r, r = PMevict(m, f, p)
  PROVE  /\ MemoryTyped(r) /\ r.ram = m.ram
         /\ DOMAIN r.swap = DOMAIN m.swap \union {p}
         /\ r.swap[p] = m.ram[f]
         /\ \A q \in DOMAIN m.swap : q # p => r.swap[q] = m.swap[q]
<1> DEFINE swap2 == [q \in DOMAIN m.swap \union {p} |-> IF q = p THEN m.ram[f] ELSE m.swap[q]]
<1>1. /\ m = [ram |-> m.ram, swap |-> m.swap] /\ m.ram \in [Frame -> Content]
      /\ DOMAIN m.swap \subseteq Page
      /\ \A q \in DOMAIN m.swap : m.swap[q] \in Content
  BY DEF MemoryTyped
<1>2. r = [ram |-> m.ram, swap |-> swap2] BY <1>1 DEF PMevict
<1>3. /\ DOMAIN swap2 = DOMAIN m.swap \union {p}
      /\ swap2[p] = m.ram[f] /\ m.ram[f] \in Content
      /\ \A q \in DOMAIN m.swap : q # p => swap2[q] = m.swap[q]
  BY <1>1
<1> HIDE DEF swap2
<1>4. r.ram = m.ram /\ r.swap = swap2 /\ r = [ram |-> r.ram, swap |-> r.swap] BY <1>2
<1>5. MemoryTyped(r) BY <1>1, <1>3, <1>4 DEF MemoryTyped
<1>6. QED BY <1>3, <1>4, <1>5

-----------------------------------------------------------------------------
(* emptyFrame                                                              *)

\* `found` is a frame that the node in `out`, if there is one, has given up: `out` is
\* {} or has the empty table or the page taken, which has no children.
Freed(m, page, x, found, out) ==
  /\ found.frame \in Frame /\ found.frame # 0 /\ found.frame # x.frame
  /\ out \subseteq Nodes(m.ram)
  /\ \A n \in out : /\ n.frame = found.frame /\ n # Root
                    /\ n.depth < TABLES_DEPTH => Children(m.ram, n) = {}
  /\ \A n \in Nodes(m.ram) \ out : n.frame # found.frame
  /\ MemoryTyped(found.mem)
  /\ \A n \in out : found.mem.ram[n.parent][n.offset] = 0
  /\ \A g \in Frame, j \in Offset :
       (\A n \in out : n.parent # g \/ n.offset # j) => found.mem.ram[g][j] = m.ram[g][j]
  /\ \A g \in Frame : (\A n \in out : n.parent # g) => found.mem.ram[g] = m.ram[g]
  /\ \A p : p \in DOMAIN found.mem.swap <=>
       p \in DOMAIN m.swap \/ \E n \in out : n.depth = TABLES_DEPTH /\ n.path = p
  /\ \A n \in out : n.depth = TABLES_DEPTH => found.mem.swap[n.path] = m.ram[n.frame]
  /\ \A p \in DOMAIN m.swap : found.mem.swap[p] = m.swap[p]
  /\ \A g \in Frame : g < found.frame => g \in UsedFrames(m.ram)
  /\ \A n \in out : n.depth = TABLES_DEPTH =>
       /\ UsedFrames(m.ram) = Frame
       /\ \A l \in Leaves(m.ram) :
            CyclicDistance(page, n.path) >= CyclicDistance(page, l.path)

\* A node that is not the root is linked in a table of the RAM.
LEMMA LinkLemma ==
  ASSUME NEW m, Sound(m), NEW n \in Nodes(m.ram), n # Root
  PROVE  /\ n.parent \in Frame /\ n.offset \in Offset /\ n.frame \in Frame /\ n.frame # 0
         /\ \E p \in Nodes(m.ram) : /\ p.depth < TABLES_DEPTH /\ n \in Children(m.ram, p)
                                    /\ p.frame = n.parent
<1>1. PICK p \in Nodes(m.ram) : p.depth < TABLES_DEPTH /\ n \in Children(m.ram, p)
  BY TreeFacts
<1>2. n.offset \in Offset /\ n.frame # 0 /\ n.parent = p.frame BY <1>1, ChildLemma
<1>3. p.frame \in Frame /\ n.frame \in Frame BY DEF Sound
<1>4. QED BY <1>1, <1>2, <1>3

\* Taking a node out: what holds of its frame in each of the two cases.
LEMMA TakenLemma ==
  ASSUME NEW m, Sound(m), NEW page, NEW x \in Nodes(m.ram), NEW n \in Nodes(m.ram),
         n # Root, n.frame # x.frame, NEW mem, MemoryTyped(mem), mem.ram = m.ram,
         n.depth < TABLES_DEPTH => Children(m.ram, n) = {} /\ mem = m,
         n.depth = TABLES_DEPTH =>
           /\ UsedFrames(m.ram) = Frame
           /\ \A l \in Leaves(m.ram) :
                CyclicDistance(page, n.path) >= CyclicDistance(page, l.path)
           /\ \A p : p \in DOMAIN mem.swap <=> p \in DOMAIN m.swap \/ p = n.path
           /\ mem.swap[n.path] = m.ram[n.frame]
           /\ \A p \in DOMAIN m.swap : mem.swap[p] = m.swap[p]
  PROVE  Freed(m, page, x, [frame |-> n.frame, mem |-> PMwrite(mem, n.parent, n.offset, 0)], {n})
<1> DEFINE r == PMwrite(mem, n.parent, n.offset, 0)
           found == [frame |-> n.frame, mem |-> r]
<1>1. found.frame = n.frame /\ found.mem = r /\ r = PMwrite(mem, n.parent, n.offset, 0)
  OBVIOUS
<1> HIDE DEF found, r
<1>2. n.parent \in Frame /\ n.offset \in Offset /\ n.frame \in Frame /\ n.frame # 0
  BY LinkLemma
<1>3. 0 \in Word BY Widths
<1>4. /\ MemoryTyped(r) /\ r.swap = mem.swap
      /\ r.ram[n.parent][n.offset] = 0
      /\ \A g \in Frame, i \in Offset :
           g # n.parent \/ i # n.offset => r.ram[g][i] = mem.ram[g][i]
      /\ \A g \in Frame : g # n.parent => r.ram[g] = mem.ram[g]
  <2>1. MemoryTyped(r) /\ r.swap = mem.swap BY <1>1, <1>2, <1>3, WriteLemma
  <2>2. /\ r.ram[n.parent][n.offset] = 0
        /\ \A g \in Frame, i \in Offset :
             g # n.parent \/ i # n.offset => r.ram[g][i] = mem.ram[g][i]
    BY <1>1, <1>2, <1>3, WriteLemma
  <2>3. \A g \in Frame : g # n.parent => r.ram[g] = mem.ram[g]
    BY <1>1, <1>2, <1>3, WriteLemma
  <2>4. QED BY <2>1, <2>2, <2>3
<1>5. n.depth \in Nat /\ n.depth <= TABLES_DEPTH BY TreeFacts
<1>6. TABLES_DEPTH \in Nat BY Widths
<1>7. \A o \in Nodes(m.ram) : o.frame = n.frame => o = n BY DEF Sound
<1>8. ASSUME NEW g \in Frame, g < n.frame PROVE g \in UsedFrames(m.ram)
  <2>1. g \in 0 .. n.frame BY <1>2, <1>8 DEF Frame
  <2>2. QED BY <2>1 DEF Sound
<1>9. /\ \A p : p \in DOMAIN r.swap <=>
           p \in DOMAIN m.swap \/ \E o \in {n} : o.depth = TABLES_DEPTH /\ o.path = p
      /\ \A p \in DOMAIN m.swap : r.swap[p] = m.swap[p]
      /\ n.depth = TABLES_DEPTH => r.swap[n.path] = m.ram[n.frame]
  <2>1. CASE n.depth = TABLES_DEPTH BY <2>1, <1>4
  <2>2. CASE n.depth # TABLES_DEPTH
    <3>1. mem = m BY <2>2, <1>5, <1>6
    <3>2. QED BY <3>1, <2>2, <1>4
  <2>3. QED BY <2>1, <2>2
<1>10. /\ found.frame \in Frame /\ found.frame # 0 /\ found.frame # x.frame
       /\ {n} \subseteq Nodes(m.ram)
       /\ \A o \in {n} : /\ o.frame = found.frame /\ o # Root
                       /\ o.depth < TABLES_DEPTH => Children(m.ram, o) = {}
       /\ \A o \in Nodes(m.ram) \ {n} : o.frame # found.frame
       /\ MemoryTyped(found.mem)
  BY <1>1, <1>2, <1>4, <1>7
<1>11. /\ \A o \in {n} : found.mem.ram[o.parent][o.offset] = 0
       /\ \A g \in Frame, j \in Offset :
            (\A o \in {n} : o.parent # g \/ o.offset # j) => found.mem.ram[g][j] = m.ram[g][j]
       /\ \A g \in Frame : (\A o \in {n} : o.parent # g) => found.mem.ram[g] = m.ram[g]
  BY <1>1, <1>4
<1>12. /\ \A g \in Frame : g < found.frame => g \in UsedFrames(m.ram)
       /\ \A o \in {n} : o.depth = TABLES_DEPTH =>
            /\ UsedFrames(m.ram) = Frame
            /\ \A l \in Leaves(m.ram) :
                 CyclicDistance(page, o.path) >= CyclicDistance(page, l.path)
  BY <1>1, <1>8
<1>13. Freed(m, page, x, found, {n})
  BY <1>1, <1>9, <1>10, <1>11, <1>12, Zenon DEF Freed
<1>14. QED BY <1>13 DEF found, r

\* What emptyFrame returns, whichever of its three ways it takes.
LEMMA EmptyFrameLemma ==
  ASSUME NEW m, Sound(m), NEW page \in Page, NEW x \in Nodes(m.ram), x.depth < TABLES_DEPTH
  PROVE  \E out : Freed(m, page, x, emptyFrame(m, page, x.frame), out)
<1> DEFINE N == Nodes(m.ram)
           old == x.frame
           found == emptyFrame(m, page, old)
           empty == EmptyTables(m.ram, old)
           highest == CHOOSE n \in N : \A o \in N : n.frame >= o.frame
           lowest == CHOOSE n \in empty : \A o \in empty : FirstPage(n) <= FirstPage(o)
           far == Farthest(m.ram, page)
           unlinked(n, mem) == [frame |-> n.frame, mem |-> PMwrite(mem, n.parent, n.offset, 0)]
<1>1. found = IF empty # {} THEN unlinked(lowest, m)
              ELSE IF highest.frame + 1 < NUM_FRAMES
              THEN [frame |-> highest.frame + 1, mem |-> m]
              ELSE unlinked(far, PMevict(m, far.frame, far.path))
  BY DEF emptyFrame
<1>2. /\ MemoryTyped(m)
      /\ \A n \in N : n.frame \in Frame
      /\ \A n, o \in N : n.frame = o.frame => n = o
      /\ \A n \in N : 0 .. n.frame \subseteq UsedFrames(m.ram)
      /\ \A n \in N : n.depth \in Nat /\ n.depth <= TABLES_DEPTH /\ n.path \in Nat
      /\ Root \in N
  BY TreeFacts DEF Sound
<1>3. /\ TABLES_DEPTH \in Nat \ {0} /\ PAGE_SIZE \in Nat /\ NUM_FRAMES \in Nat
      /\ OFFSET_WIDTH \in Nat /\ NUM_PAGES \in Nat
  BY Widths
<1> HIDE DEF found, N, highest, lowest, far
<1>4. CASE empty # {}
  <2>1. \A n \in empty : /\ n \in N /\ n.depth < TABLES_DEPTH /\ n.frame # old
                         /\ \A j \in Offset : m.ram[n.frame][j] = 0
    BY DEF EmptyTables, N
  <2> HIDE DEF empty
  <2>2. \A n \in empty : FirstPage(n) \in Nat
    <3> SUFFICES ASSUME NEW n \in empty PROVE FirstPage(n) \in Nat
      OBVIOUS
    <3> DEFINE k == TABLES_DEPTH - n.depth
    <3>1. k \in Nat BY <2>1, <1>2, <1>3
    <3> HIDE DEF k
    <3>2. k * OFFSET_WIDTH \in Nat BY <3>1, <1>3
    <3>3. Bit[k * OFFSET_WIDTH] \in Nat BY <3>2, BitPositive
    <3>4. n.path \in Nat BY <2>1, <1>2
    <3>5. n.path * Bit[k * OFFSET_WIDTH] \in Nat BY <3>3, <3>4
    <3>6. QED BY <3>5 DEF FirstPage, k
  <2> DEFINE first == [n \in empty |-> FirstPage(n)]
  <2>3. first \in [empty -> Nat] BY <2>2
  <2>4. \E n \in empty : \A o \in empty : first[n] <= first[o] BY <2>3, <1>4, LowestRank
  <2>5. \E n \in empty : \A o \in empty : FirstPage(n) <= FirstPage(o) BY <2>4
  <2>6. lowest \in empty BY <2>5 DEF lowest
  <2> DEFINE n == lowest
  <2> HIDE DEF first
  <2>7. /\ n \in N /\ n.depth < TABLES_DEPTH /\ n.frame # old
        /\ \A j \in Offset : m.ram[n.frame][j] = 0
    BY <2>1, <2>6
  <2>8. Children(m.ram, n) = {} BY <2>7 DEF Children
  <2>9. n # Root
    <3> SUFFICES ASSUME n = Root PROVE FALSE OBVIOUS
    <3>1. IsTree(m.ram, {Root})
      <4>1. Root.depth \in 0 .. TABLES_DEPTH /\ Root.path \in Nat BY <1>3 DEF Root
      <4>2. QED BY <4>1, <2>8 DEF IsTree
    <3>2. N = {Root} BY <3>1, TreeIsNodes DEF N
    <3>3. QED BY <3>2, <2>7 DEF N
  <2>10. n.depth # TABLES_DEPTH BY <2>7, <1>2, <1>3
  <2>11. found = [frame |-> n.frame, mem |-> PMwrite(m, n.parent, n.offset, 0)]
    BY <1>1, <1>4
  <2>12. Freed(m, page, x, found, {n})
    BY <2>7, <2>8, <2>9, <2>10, <2>11, <1>2, TakenLemma DEF N
  <2>13. QED BY <2>12 DEF found
<1>5. ASSUME empty = {}
      PROVE  /\ highest \in N /\ \A o \in N : highest.frame >= o.frame
             /\ highest.frame \in Nat /\ highest.frame < NUM_FRAMES
  <2> DEFINE room == [n \in N |-> NUM_FRAMES - n.frame]
  <2>1. \A n \in N : n.frame \in Nat /\ n.frame < NUM_FRAMES BY <1>2, <1>3 DEF Frame
  <2>2. room \in [N -> Nat] BY <2>1, <1>3
  <2>3. \E n \in N : \A o \in N : room[n] <= room[o] BY <2>2, <1>2, LowestRank
  <2>4. \E n \in N : \A o \in N : n.frame >= o.frame BY <2>1, <2>3, <1>3
  <2>5. highest \in N /\ \A o \in N : highest.frame >= o.frame BY <2>4 DEF highest
  <2>6. QED BY <2>1, <2>5
<1>6. CASE empty = {} /\ highest.frame + 1 < NUM_FRAMES
  <2>1. found.frame = highest.frame + 1 /\ found.mem = m BY <1>1, <1>6
  <2>2. found.frame \in Frame /\ found.frame # 0 BY <2>1, <1>5, <1>6, <1>3 DEF Frame
  <2>3. \A n \in N : n.frame # found.frame
    BY <2>1, <1>2, <1>3, <1>5, <1>6 DEF Frame
  <2>4. ASSUME NEW g \in Frame, g < found.frame PROVE g \in UsedFrames(m.ram)
    <3>1. g \in 0 .. highest.frame BY <2>1, <2>4, <1>3, <1>5, <1>6 DEF Frame
    <3>2. QED BY <3>1, <1>2, <1>5, <1>6
  <2>5. x \in N BY DEF N
  <2>6. Freed(m, page, x, found, {})
    BY <2>1, <2>2, <2>3, <2>4, <2>5, <1>2, Zenon DEF Freed, N
  <2>7. QED BY <2>6 DEF found
<1>7. CASE empty = {} /\ ~ highest.frame + 1 < NUM_FRAMES
  <2> DEFINE mem == PMevict(m, far.frame, far.path)
             L == Leaves(m.ram)
             dist(l) == CyclicDistance(page, l.path)
  <2>1. highest.frame = NUM_FRAMES - 1 BY <1>3, <1>5, <1>7
  <2>2. UsedFrames(m.ram) = Frame
    <3>1. 0 .. highest.frame \subseteq UsedFrames(m.ram) BY <1>2, <1>5, <1>7
    <3>2. UsedFrames(m.ram) \subseteq Frame BY <1>2 DEF UsedFrames, N
    <3>3. QED BY <3>1, <3>2, <2>1 DEF Frame
  <2>3. L # {} BY <2>2, <1>7, LeafExists
  <2>4. \A l \in L : l \in N /\ l.depth = TABLES_DEPTH /\ l.path \in Page
    BY TreeFacts DEF Sound, N
  <2>5. \A l \in L : dist(l) \in Nat /\ dist(l) <= NUM_PAGES
    <3> SUFFICES ASSUME NEW l \in L PROVE dist(l) \in Nat /\ dist(l) <= NUM_PAGES
      OBVIOUS
    <3>1. l.path \in 0 .. NUM_PAGES - 1 /\ page \in 0 .. NUM_PAGES - 1 BY <2>4 DEF Page
    <3>2. QED BY <3>1, <1>3 DEF CyclicDistance
  <2> HIDE DEF L, dist
  <2>6. far \in L /\ \A l \in L : dist(far) >= dist(l)
    <3> DEFINE near == [l \in L |-> NUM_PAGES - dist(l)]
    <3>1. near \in [L -> Nat] BY <2>5, <1>3
    <3>2. PICK b \in L : \A l \in L : near[b] <= near[l] BY <3>1, <2>3, LowestRank
    <3>3. \A l \in L : dist(b) >= dist(l) BY <3>2, <2>5, <1>3
    <3> DEFINE F == {l \in L : dist(l) = dist(b)}
               path == [l \in F |-> l.path]
    <3>4. path \in [F -> Nat] /\ F # {} BY <2>4, <1>2
    <3> HIDE DEF path
    <3>5. PICK c \in F : \A l \in F : path[c] <= path[l] BY <3>4, LowestRank
    <3>6. \A l \in F : c.path <= l.path BY <3>5 DEF path
    <3>7. c \in L /\ dist(c) = dist(b) BY <3>5
    <3>8. ASSUME NEW l \in L
          PROVE  dist(c) > dist(l) \/ (dist(c) = dist(l) /\ c.path <= l.path)
      <4>1. CASE l \in F BY <4>1, <3>6, <3>7
      <4>2. CASE l \notin F BY <4>2, <3>3, <3>7, <3>8, <2>5
      <4>3. QED BY <4>1, <4>2
    <3>9. \E k \in L : \A l \in L : dist(k) > dist(l) \/ (dist(k) = dist(l) /\ k.path <= l.path)
      BY <3>7, <3>8
    <3>10. far = CHOOSE k \in L : \A l \in L :
                   dist(k) > dist(l) \/ (dist(k) = dist(l) /\ k.path <= l.path)
      BY DEF far, Farthest, L, dist
    <3>11. /\ far \in L
           /\ \A l \in L : dist(far) > dist(l) \/ (dist(far) = dist(l) /\ far.path <= l.path)
      BY <3>9, <3>10
    <3>12. QED BY <3>11, <2>5
  <2>7. /\ far \in N /\ far.depth = TABLES_DEPTH /\ far.path \in Page /\ far.frame \in Frame
    BY <2>4, <2>6, <1>2
  <2>8. far # Root BY <2>7, <1>3 DEF Root
  <2>9. far.frame # x.frame
    <3>1. far # x BY <2>7, <1>2, <1>3
    <3>2. QED BY <3>1, <2>7, <1>2 DEF N
  <2>10. /\ MemoryTyped(mem) /\ mem.ram = m.ram
         /\ \A p : p \in DOMAIN mem.swap <=> p \in DOMAIN m.swap \/ p = far.path
         /\ mem.swap[far.path] = m.ram[far.frame]
         /\ \A p \in DOMAIN m.swap : mem.swap[p] = m.swap[p]
    <3>1. mem = PMevict(m, far.frame, far.path) OBVIOUS
    <3> HIDE DEF mem
    <3>2. /\ MemoryTyped(mem) /\ mem.ram = m.ram
          /\ DOMAIN mem.swap = DOMAIN m.swap \union {far.path}
          /\ mem.swap[far.path] = m.ram[far.frame]
          /\ \A p \in DOMAIN m.swap : p # far.path => mem.swap[p] = m.swap[p]
      BY <3>1, <2>7, <1>2, EvictLemma
    <3>3. far.path \notin DOMAIN m.swap BY <2>6 DEF Sound, L
    <3>4. QED BY <3>2, <3>3
  <2> HIDE DEF mem
  <2>11. found = [frame |-> far.frame, mem |-> PMwrite(mem, far.parent, far.offset, 0)]
    BY <1>1, <1>7 DEF mem
  <2>12. \A l \in Leaves(m.ram) : CyclicDistance(page, far.path) >= CyclicDistance(page, l.path)
    BY <2>6 DEF L, dist
  <2>13. ~ far.depth < TABLES_DEPTH BY <2>7, <1>3
  <2>14. Freed(m, page, x, found, {far})
    BY <2>2, <2>7, <2>8, <2>9, <2>10, <2>11, <2>12, <2>13, TakenLemma DEF N
  <2>15. QED BY <2>14 DEF found
<1>8. QED BY <1>4, <1>6, <1>7

-----------------------------------------------------------------------------
(* findEmptyCell                                                           *)

\* PMrestore fills the frame with the page if it is swapped out, and takes it out of there.
LEMMA RestoreLemma ==
  ASSUME NEW m, MemoryTyped(m), NEW f \in Frame, NEW p,
         NEW r, r = PMrestore(m, f, p)
  PROVE  /\ MemoryTyped(r)
         /\ \A g \in Frame : g # f => r.ram[g] = m.ram[g]
         /\ p \in DOMAIN m.swap => r.ram[f] = m.swap[p]
         /\ \A q : q \in DOMAIN r.swap <=> q \in DOMAIN m.swap /\ q # p
         /\ \A q \in DOMAIN r.swap : r.swap[q] = m.swap[q]
<1>1. /\ m.ram \in [Frame -> Content] /\ DOMAIN m.swap \subseteq Page
      /\ \A q \in DOMAIN m.swap : m.swap[q] \in Content
  BY DEF MemoryTyped
<1>2. CASE p \notin DOMAIN m.swap
  <2>1. r = m BY <1>2 DEF PMrestore
  <2>2. QED BY <2>1, <1>2
<1>3. CASE p \in DOMAIN m.swap
  <2> DEFINE ram2 == [m.ram EXCEPT ![f] = m.swap[p]]
             swap2 == [q \in DOMAIN m.swap \ {p} |-> m.swap[q]]
  <2>1. r = [ram |-> ram2, swap |-> swap2] BY <1>3 DEF PMrestore
  <2>2. /\ ram2 \in [Frame -> Content]
        /\ \A g \in Frame : g # f => ram2[g] = m.ram[g]
        /\ ram2[f] = m.swap[p]
    BY <1>1, <1>3
  <2>3. /\ DOMAIN swap2 = DOMAIN m.swap \ {p}
        /\ \A q \in DOMAIN swap2 : swap2[q] = m.swap[q] /\ swap2[q] \in Content
    BY <1>1
  <2> HIDE DEF ram2, swap2
  <2>4. r.ram = ram2 /\ r.swap = swap2 /\ r = [ram |-> r.ram, swap |-> r.swap] BY <2>1
  <2>5. MemoryTyped(r) BY <2>2, <2>3, <2>4, <1>1 DEF MemoryTyped
  <2>6. QED BY <2>2, <2>3, <2>4, <2>5
<1>4. QED BY <1>2, <1>3

\* clearMemory zeroes a frame, and nothing else.
LEMMA ClearLemma ==
  ASSUME NEW m, MemoryTyped(m), NEW f \in Frame, NEW r, r = clearMemory(m, f)
  PROVE  /\ MemoryTyped(r) /\ r.swap = m.swap
         /\ \A g \in Frame : g # f => r.ram[g] = m.ram[g]
         /\ \A j \in Offset : r.ram[f][j] = 0
<1> DEFINE ram2 == [m.ram EXCEPT ![f] = [j \in Offset |-> 0]]
<1>1. m = [ram |-> m.ram, swap |-> m.swap] /\ m.ram \in [Frame -> [Offset -> Word]]
  BY DEF MemoryTyped, Content
<1>2. r = [ram |-> ram2, swap |-> m.swap]
  <2> DEFINE a == m.ram
             b == m.swap
             zero == [j \in Offset |-> 0]
  <2>1. m = [ram |-> a, swap |-> b] BY <1>1
  <2> HIDE DEF a, b, zero
  <2>2. [m EXCEPT !.ram[f] = zero] = [ram |-> [a EXCEPT ![f] = zero], swap |-> b]
    BY <2>1
  <2>3. QED BY <2>2 DEF clearMemory, a, b, zero
<1>3. [j \in Offset |-> 0] \in [Offset -> Word] BY Widths
<1>4. /\ ram2 \in [Frame -> [Offset -> Word]]
      /\ \A g \in Frame : g # f => ram2[g] = m.ram[g]
      /\ \A j \in Offset : ram2[f][j] = 0
  BY <1>1, <1>3
<1> HIDE DEF ram2
<1>5. r.ram = ram2 /\ r.swap = m.swap /\ r = [ram |-> r.ram, swap |-> r.swap] BY <1>2
<1>6. MemoryTyped(r) BY <1>4, <1>5 DEF MemoryTyped, Content
<1>7. QED BY <1>4, <1>5, <1>6

\* The memory m2 after the entry j of the table of x has got the frame f, as far as the
\* tree and the pages tell it apart from m.
Linked(m, page, x, j, f, out, m2) ==
  /\ MemoryTyped(m2)
  /\ m2.ram[x.frame][j] = f
  /\ \A n \in out : /\ n.parent # f
                    /\ n.parent # x.frame \/ n.offset # j => m2.ram[n.parent][n.offset] = 0
  /\ \A g \in Frame \ {f}, i \in Offset :
       /\ g # x.frame \/ i # j
       /\ \A n \in out : n.parent # g \/ n.offset # i
       => m2.ram[g][i] = m.ram[g][i]
  /\ \A g \in Frame \ {f, x.frame} : (\A n \in out : n.parent # g) => m2.ram[g] = m.ram[g]
  /\ x.depth + 1 < TABLES_DEPTH =>
       /\ \A i \in Offset : m2.ram[f][i] = 0
       /\ \A p : p \in DOMAIN m2.swap <=>
            p \in DOMAIN m.swap \/ \E n \in out : n.depth = TABLES_DEPTH /\ n.path = p
  /\ x.depth + 1 = TABLES_DEPTH =>
       /\ page \in DOMAIN m.swap => m2.ram[f] = m.swap[page]
       /\ \A p : p \in DOMAIN m2.swap <=>
            /\ p # page
            /\ p \in DOMAIN m.swap \/ \E n \in out : n.depth = TABLES_DEPTH /\ n.path = p
  /\ \A n \in out : n.depth = TABLES_DEPTH /\ n.path \in DOMAIN m2.swap =>
       m2.swap[n.path] = m.ram[n.frame]
  /\ \A p \in DOMAIN m.swap : p \in DOMAIN m2.swap => m2.swap[p] = m.swap[p]

\* findEmptyCell takes a frame of emptyFrame, fills or clears it, and links it.
LEMMA LinkedLemma ==
  ASSUME NEW m, Sound(m), NEW page, NEW x \in Nodes(m.ram), x.depth < TABLES_DEPTH,
         NEW j \in Offset, NEW found, NEW out,
         found = emptyFrame(m, page, x.frame), Freed(m, page, x, found, out),
         NEW r, r = findEmptyCell(m, x.depth, page, x.frame, j, x.frame)
  PROVE  r.frame = found.frame /\ Linked(m, page, x, j, found.frame, out, r.mem)
<1> DEFINE f == found.frame
           m1 == found.mem
           last == x.depth = TABLES_DEPTH - 1
           ready == IF last THEN PMrestore(m1, f, page) ELSE clearMemory(m1, f)
           m2 == PMwrite(ready, x.frame, j, f)
<1>1. r.frame = f /\ r.mem = m2 BY DEF findEmptyCell
<1>2. /\ MemoryTyped(m1) /\ f \in Frame /\ f # x.frame
      /\ \A n \in out : n.frame = f /\ n # Root /\ n \in Nodes(m.ram)
      /\ \A n \in out : m1.ram[n.parent][n.offset] = 0
      /\ \A g \in Frame, i \in Offset :
           (\A n \in out : n.parent # g \/ n.offset # i) => m1.ram[g][i] = m.ram[g][i]
      /\ \A g \in Frame : (\A n \in out : n.parent # g) => m1.ram[g] = m.ram[g]
      /\ \A p : p \in DOMAIN m1.swap <=>
           p \in DOMAIN m.swap \/ \E n \in out : n.depth = TABLES_DEPTH /\ n.path = p
      /\ \A n \in out : n.depth = TABLES_DEPTH => m1.swap[n.path] = m.ram[n.frame]
      /\ \A p \in DOMAIN m.swap : m1.swap[p] = m.swap[p]
  BY DEF Freed
<1>3. x.frame \in Frame /\ f \in Word BY <1>2 DEF Sound, Word
<1>4. x.depth \in Nat /\ TABLES_DEPTH \in Nat BY TreeFacts, Widths
<1>5. /\ last <=> x.depth + 1 = TABLES_DEPTH
      /\ ~ last <=> x.depth + 1 < TABLES_DEPTH
  BY <1>4
<1>6. \A n \in out : n.parent \in Frame /\ n.offset \in Offset /\ n.parent # f
  <2> SUFFICES ASSUME NEW n \in out
               PROVE  n.parent \in Frame /\ n.offset \in Offset /\ n.parent # f
    OBVIOUS
  <2>1. n \in Nodes(m.ram) /\ n # Root /\ n.frame = f BY <1>2
  <2>2. n.parent \in Frame /\ n.offset \in Offset BY <2>1, LinkLemma
  <2>3. PICK p \in Nodes(m.ram) : /\ p.depth < TABLES_DEPTH /\ n \in Children(m.ram, p)
                                  /\ p.frame = n.parent
    BY <2>1, LinkLemma
  <2>4. p # n
    <3>1. n.depth = p.depth + 1 /\ p.depth \in Nat BY <2>3, ChildLemma, TreeFacts
    <3>2. QED BY <3>1
  <2>5. p.frame # n.frame BY <2>1, <2>4 DEF Sound
  <2>6. QED BY <2>1, <2>2, <2>3, <2>5
<1> HIDE DEF f, m1, m2
<1>7. /\ MemoryTyped(ready)
      /\ \A g \in Frame : g # f => ready.ram[g] = m1.ram[g]
      /\ \A p \in DOMAIN m1.swap : p \in DOMAIN ready.swap => ready.swap[p] = m1.swap[p]
      /\ ~ last => /\ ready.swap = m1.swap
                   /\ \A i \in Offset : ready.ram[f][i] = 0
      /\ last => /\ page \in DOMAIN m1.swap => ready.ram[f] = m1.swap[page]
                 /\ \A p : p \in DOMAIN ready.swap <=> p \in DOMAIN m1.swap /\ p # page
  <2>1. CASE last
    <3>1. ready = PMrestore(m1, f, page) BY <2>1
    <3> HIDE DEF ready
    <3>2. /\ MemoryTyped(ready)
          /\ \A g \in Frame : g # f => ready.ram[g] = m1.ram[g]
          /\ page \in DOMAIN m1.swap => ready.ram[f] = m1.swap[page]
          /\ \A q : q \in DOMAIN ready.swap <=> q \in DOMAIN m1.swap /\ q # page
          /\ \A q \in DOMAIN ready.swap : ready.swap[q] = m1.swap[q]
      BY <3>1, <1>2, RestoreLemma
    <3>3. QED BY <3>2, <2>1
  <2>2. CASE ~ last
    <3>1. ready = clearMemory(m1, f) BY <2>2
    <3> HIDE DEF ready
    <3>2. /\ MemoryTyped(ready) /\ ready.swap = m1.swap
          /\ \A g \in Frame : g # f => ready.ram[g] = m1.ram[g]
          /\ \A i \in Offset : ready.ram[f][i] = 0
      BY <3>1, <1>2, ClearLemma
    <3>3. QED BY <3>2, <2>2
  <2>3. QED BY <2>1, <2>2
<1>8. m2 = PMwrite(ready, x.frame, j, f) BY DEF m2
<1> HIDE DEF ready, last
<1>9. /\ MemoryTyped(m2) /\ m2.swap = ready.swap
      /\ m2.ram[x.frame][j] = f
      /\ \A g \in Frame, i \in Offset : g # x.frame \/ i # j => m2.ram[g][i] = ready.ram[g][i]
      /\ \A g \in Frame : g # x.frame => m2.ram[g] = ready.ram[g]
  BY <1>3, <1>7, <1>8, WriteLemma
<1>10. ASSUME NEW n \in out, n.parent # x.frame \/ n.offset # j
       PROVE  m2.ram[n.parent][n.offset] = 0
  <2>1. n.parent \in Frame /\ n.offset \in Offset /\ n.parent # f BY <1>6
  <2>2. m2.ram[n.parent][n.offset] = ready.ram[n.parent][n.offset] BY <2>1, <1>9, <1>10
  <2>3. ready.ram[n.parent] = m1.ram[n.parent] BY <2>1, <1>7
  <2>4. QED BY <2>2, <2>3, <1>2
<1>11. ASSUME NEW g \in Frame \ {f}, NEW i \in Offset, g # x.frame \/ i # j,
              \A n \in out : n.parent # g \/ n.offset # i
       PROVE  m2.ram[g][i] = m.ram[g][i]
  <2>1. m2.ram[g][i] = ready.ram[g][i] BY <1>9, <1>11
  <2>2. ready.ram[g] = m1.ram[g] BY <1>7
  <2>3. m1.ram[g][i] = m.ram[g][i] BY <1>2, <1>11
  <2>4. QED BY <2>1, <2>2, <2>3
<1>12. ASSUME NEW g \in Frame \ {f, x.frame}, \A n \in out : n.parent # g
       PROVE  m2.ram[g] = m.ram[g]
  <2>1. m2.ram[g] = ready.ram[g] BY <1>9
  <2>2. ready.ram[g] = m1.ram[g] BY <1>7
  <2>3. m1.ram[g] = m.ram[g] BY <1>2, <1>12
  <2>4. QED BY <2>1, <2>2, <2>3
<1>13. m2.ram[f] = ready.ram[f] BY <1>2, <1>9
<1>14. ASSUME ~ last
       PROVE  /\ \A i \in Offset : m2.ram[f][i] = 0
              /\ \A p : p \in DOMAIN m2.swap <=>
                   p \in DOMAIN m.swap \/ \E n \in out : n.depth = TABLES_DEPTH /\ n.path = p
  BY <1>2, <1>7, <1>9, <1>13, <1>14
<1>15. ASSUME last
       PROVE  /\ page \in DOMAIN m.swap => m2.ram[f] = m.swap[page]
              /\ \A p : p \in DOMAIN m2.swap <=>
                   /\ p # page
                   /\ p \in DOMAIN m.swap \/ \E n \in out : n.depth = TABLES_DEPTH /\ n.path = p
  BY <1>2, <1>7, <1>9, <1>13, <1>15
<1>16. /\ \A n \in out : n.depth = TABLES_DEPTH /\ n.path \in DOMAIN m2.swap =>
            m2.swap[n.path] = m.ram[n.frame]
       /\ \A p \in DOMAIN m.swap : p \in DOMAIN m2.swap => m2.swap[p] = m.swap[p]
  BY <1>2, <1>7, <1>9
<1>17. Linked(m, page, x, j, f, out, m2)
  BY <1>5, <1>6, <1>9, <1>10, <1>11, <1>12, <1>14, <1>15, <1>16, Zenon DEF Linked
<1>18. QED BY <1>1, <1>17 DEF f

\* The tree then: without the node that gave its frame up, and with the new one.
NewNode(x, j, f) ==
  [frame |-> f, parent |-> x.frame, offset |-> j,
   path |-> x.path * PAGE_SIZE + j, depth |-> x.depth + 1]

\* Then the nodes are those before, without the one that gave its frame up, and the new one.
LEMMA LinkedTree ==
  ASSUME NEW m, Sound(m), NEW page, NEW x \in Nodes(m.ram), x.depth < TABLES_DEPTH,
         NEW j \in Offset, m.ram[x.frame][j] = 0, NEW found, NEW out,
         Freed(m, page, x, found, out),
         NEW m2, Linked(m, page, x, j, found.frame, out, m2)
  PROVE  Nodes(m2.ram) = (Nodes(m.ram) \ out) \union {NewNode(x, j, found.frame)}
<1> DEFINE D == TABLES_DEPTH
           N == Nodes(m.ram)
           f == found.frame
           new == NewNode(x, j, f)
           S == (N \ out) \union {new}
<1>1. /\ Root \in N
      /\ \A n \in N : n.depth \in Nat /\ n.depth <= D /\ n.path \in Nat
      /\ \A n \in N : n.depth < D => Children(m.ram, n) \subseteq N
      /\ \A n \in N : n # Root => \E p \in N : p.depth < D /\ n \in Children(m.ram, p)
      /\ \A n \in N : n.frame \in Frame
      /\ \A n, o \in N : n.frame = o.frame => n = o
  BY TreeFacts DEF Sound
<1>2. /\ D \in Nat /\ PAGE_SIZE \in Nat /\ Offset \subseteq Nat BY Widths DEF Offset
<1>3. /\ f \in Frame /\ f # 0 /\ f # x.frame /\ out \subseteq N
      /\ \A n \in out : n.frame = f /\ n # Root /\ (n.depth < D => Children(m.ram, n) = {})
      /\ \A n \in N \ out : n.frame # f
  BY DEF Freed
<1>4. /\ m2.ram[x.frame][j] = f
      /\ \A n \in out : /\ n.parent # f
                        /\ n.parent # x.frame \/ n.offset # j => m2.ram[n.parent][n.offset] = 0
      /\ \A g \in Frame \ {f}, i \in Offset :
           /\ g # x.frame \/ i # j
           /\ \A n \in out : n.parent # g \/ n.offset # i
           => m2.ram[g][i] = m.ram[g][i]
      /\ x.depth + 1 < D => \A i \in Offset : m2.ram[f][i] = 0
  BY DEF Linked
<1>5. /\ new.frame = f /\ new.parent = x.frame /\ new.offset = j
      /\ new.path = x.path * PAGE_SIZE + j /\ new.depth = x.depth + 1
  BY DEF NewNode
<1>6. new = Child(m2.ram, x, j) BY <1>4 DEF NewNode, Child
<1>7. x \in N /\ x \notin out /\ x.depth < D BY <1>3
<1> HIDE DEF D, N, f, new
<1>8. Root \in S BY <1>1, <1>3
<1>9. ASSUME NEW n \in S PROVE n.depth \in 0 .. D /\ n.path \in Nat
  <2>1. CASE n \in N BY <2>1, <1>1, <1>2
  <2>2. CASE n = new
    <3>1. x.path \in Nat /\ x.depth \in Nat /\ j \in Nat BY <1>1, <1>2, <1>7
    <3>2. x.path * PAGE_SIZE \in Nat BY <3>1, <1>2
    <3>3. new.path \in Nat BY <3>1, <3>2, <1>5
    <3>4. new.depth \in 0 .. D BY <3>1, <1>2, <1>5, <1>7
    <3>5. QED BY <2>2, <3>3, <3>4
  <2>3. QED BY <2>1, <2>2
\* An entry of a table that stays, other than the new one: as before, or unlinked.
<1>10. ASSUME NEW p \in N \ out, p.depth < D, NEW i \in Offset, p # x \/ i # j,
              m2.ram[p.frame][i] # 0
       PROVE  m2.ram[p.frame][i] = m.ram[p.frame][i] /\ Child(m.ram, p, i) \in N \ out
  <2>1. p.frame \in Frame \ {f} BY <1>1, <1>3
  <2>2. p.frame # x.frame \/ i # j BY <1>1, <1>7, <1>10
  <2>3. ASSUME NEW n \in out PROVE n.parent # p.frame \/ n.offset # i
    BY <2>2, <1>4, <1>10
  <2>4. m2.ram[p.frame][i] = m.ram[p.frame][i] BY <2>1, <2>2, <2>3, <1>4
  <2> DEFINE c == Child(m.ram, p, i)
  <2>5. c \in Children(m.ram, p) BY <2>4, <1>10, ChildLemma
  <2>6. c.parent = p.frame /\ c.offset = i BY DEF Child
  <2> HIDE DEF c
  <2>7. c \in N BY <2>5, <1>1, <1>10
  <2>8. c \notin out BY <2>3, <2>6
  <2>9. QED BY <2>4, <2>7, <2>8 DEF c
<1>11. ASSUME NEW p \in S, p.depth < D, NEW c \in Children(m2.ram, p) PROVE c \in S
  <2> DEFINE i == c.offset
  <2>1. i \in Offset /\ c = Child(m2.ram, p, i) /\ m2.ram[p.frame][i] # 0
    BY ChildLemma
  <2>2. CASE p = new
    <3>1. m2.ram[f][i] = 0 BY <2>1, <2>2, <1>4, <1>5, <1>11
    <3>2. QED BY <3>1, <2>1, <2>2, <1>5
  <2>3. CASE p # new /\ p = x /\ i = j BY <2>1, <2>3, <1>6
  <2>4. CASE p # new /\ (p # x \/ i # j)
    <3>1. p \in N \ out BY <2>4
    <3>2. /\ m2.ram[p.frame][i] = m.ram[p.frame][i]
          /\ Child(m.ram, p, i) \in N \ out
      BY <3>1, <2>1, <2>4, <1>10, <1>11
    <3>3. Child(m2.ram, p, i) = Child(m.ram, p, i) BY <3>2 DEF Child
    <3>4. QED BY <2>1, <3>2, <3>3
  <2>5. QED BY <2>2, <2>3, <2>4
<1>12. ASSUME NEW n \in S, n # Root
       PROVE  \E p \in S : p.depth < D /\ n \in Children(m2.ram, p)
  <2>1. CASE n = new
    <3>1. m2.ram[x.frame][j] # 0 BY <1>3, <1>4
    <3>2. new \in Children(m2.ram, x) BY <3>1, <1>6, ChildLemma
    <3>3. QED BY <2>1, <3>2, <1>7
  <2>2. CASE n # new
    <3>1. n \in N \ out BY <2>2
    <3>2. PICK p \in N : p.depth < D /\ n \in Children(m.ram, p) BY <3>1, <1>1, <1>12
    <3> DEFINE i == n.offset
    <3>3. /\ i \in Offset /\ n = Child(m.ram, p, i)
          /\ m.ram[p.frame][i] = n.frame /\ n.frame # 0
      BY <3>2, ChildLemma
    <3>4. p \notin out BY <3>2, <1>3
    <3>5. p.frame \in Frame \ {f} BY <3>4, <1>1, <1>3
    <3>6. p.frame # x.frame \/ i # j BY <3>3
    <3>7. ASSUME NEW o \in out, o.parent = p.frame, o.offset = i PROVE FALSE
      <4>1. o \in N /\ o # Root BY <1>3
      <4>2. PICK q \in N : o \in Children(m.ram, q) BY <4>1, <1>1
      <4>3. o = Child(m.ram, q, o.offset) /\ o.parent = q.frame BY <4>2, ChildLemma
      <4>4. q = p BY <4>3, <3>2, <3>7, <1>1
      <4>5. o = n BY <4>3, <4>4, <3>3, <3>7
      <4>6. QED BY <4>5, <3>1
    <3>8. m2.ram[p.frame][i] = m.ram[p.frame][i] BY <3>3, <3>5, <3>6, <3>7, <1>4
    <3>9. n = Child(m2.ram, p, i) BY <3>3, <3>8 DEF Child
    <3>10. n \in Children(m2.ram, p) BY <3>3, <3>8, <3>9, ChildLemma
    <3>11. QED BY <3>2, <3>4, <3>10
  <2>3. QED BY <2>1, <2>2
<1> HIDE DEF S
<1>13. IsTree(m2.ram, S) BY <1>8, <1>9, <1>11, <1>12 DEF IsTree, D
<1>14. S = Nodes(m2.ram) BY <1>13, TreeIsNodes
<1>15. QED BY <1>14 DEF S, N, new, f

\* findEmptyCell as a whole: the tree loses at most one node and gets the new one.
LEMMA FindCellLemma ==
  ASSUME NEW m, Sound(m), NEW page \in Page, NEW x \in Nodes(m.ram),
         x.depth < TABLES_DEPTH, NEW j \in Offset, m.ram[x.frame][j] = 0,
         NEW r, r = findEmptyCell(m, x.depth, page, x.frame, j, x.frame)
  PROVE  \E out : /\ Freed(m, page, x, emptyFrame(m, page, x.frame), out)
                  /\ r.frame = emptyFrame(m, page, x.frame).frame
                  /\ Linked(m, page, x, j, r.frame, out, r.mem)
                  /\ Nodes(r.mem.ram) = (Nodes(m.ram) \ out) \union {NewNode(x, j, r.frame)}
<1> DEFINE found == emptyFrame(m, page, x.frame)
<1>1. found = emptyFrame(m, page, x.frame) OBVIOUS
<1> HIDE DEF found
<1>2. PICK out : Freed(m, page, x, found, out) BY <1>1, EmptyFrameLemma
<1>3. r.frame = found.frame /\ Linked(m, page, x, j, found.frame, out, r.mem)
  BY <1>1, <1>2, LinkedLemma
<1>4. Nodes(r.mem.ram) = (Nodes(m.ram) \ out) \union {NewNode(x, j, found.frame)}
  <2> DEFINE m2 == r.mem
  <2>1. Linked(m, page, x, j, found.frame, out, m2) BY <1>3
  <2> HIDE DEF m2
  <2>2. Nodes(m2.ram) = (Nodes(m.ram) \ out) \union {NewNode(x, j, found.frame)}
    BY <1>2, <2>1, LinkedTree
  <2>3. QED BY <2>2 DEF m2
<1>5. QED BY <1>1, <1>2, <1>3, <1>4

\* c is the content of page q.
Holds(m, q, c) ==
  \/ \E n \in Leaves(m.ram) : n.path = q /\ m.ram[n.frame] = c
  \/ q \in DOMAIN m.swap /\ m.swap[q] = c

ResidentIn(m) == {n.path : n \in Leaves(m.ram)}

\* From m to m2 no page loses its content, and none but `page` gets one.
Keeps(m, m2, page) ==
  /\ \A q, c : Holds(m, q, c) => Holds(m2, q, c)
  /\ \A q, c : q # page /\ Holds(m2, q, c) => Holds(m, q, c)

\* One missing entry of the walk to a page that is not in the RAM.
LEMMA StepLemma ==
  ASSUME NEW m, Sound(m), NEW page \in Page, NEW x \in Nodes(m.ram),
         x.depth < TABLES_DEPTH, NEW j \in Offset, m.ram[x.frame][j] = 0,
         page \notin ResidentIn(m),
         x.depth + 1 = TABLES_DEPTH => x.path * PAGE_SIZE + j = page,
         NEW r, r = findEmptyCell(m, x.depth, page, x.frame, j, x.frame)
  PROVE  /\ Sound(r.mem)
         /\ NewNode(x, j, r.frame) \in Nodes(r.mem.ram)
         /\ Keeps(m, r.mem, page)
         /\ ResidentIn(r.mem) \subseteq ResidentIn(m) \union {page}
         /\ UsedFrames(m.ram) \subseteq UsedFrames(r.mem.ram)
         /\ \A p \in ResidentIn(m) \ ResidentIn(r.mem) :
              /\ UsedFrames(m.ram) = Frame
              /\ \A q \in ResidentIn(m) : CyclicDistance(page, q) <= CyclicDistance(page, p)
<1> DEFINE D == TABLES_DEPTH
           N == Nodes(m.ram)
           found == emptyFrame(m, page, x.frame)
           f == r.frame
           m2 == r.mem
           new == NewNode(x, j, f)
<1>1. PICK out : /\ Freed(m, page, x, found, out) /\ f = found.frame
                 /\ Linked(m, page, x, j, f, out, m2)
                 /\ Nodes(m2.ram) = (N \ out) \union {new}
  BY FindCellLemma
<1>2. Linked(m, page, x, j, f, out, m2) BY <1>1
<1>3. Nodes(m2.ram) = (N \ out) \union {new} BY <1>1
<1>4. /\ f \in Frame /\ f # x.frame /\ out \subseteq N
      /\ \A n \in out : n.frame = f /\ n # Root
      /\ \A n \in N \ out : n.frame # f
      /\ \A g \in Frame : g < f => g \in UsedFrames(m.ram)
      /\ \A n \in out : n.depth = D =>
           /\ UsedFrames(m.ram) = Frame
           /\ \A l \in Leaves(m.ram) :
                CyclicDistance(page, n.path) >= CyclicDistance(page, l.path)
  BY <1>1, <1>2 DEF Freed
<1>5. /\ MemoryTyped(m2)
      /\ \A g \in Frame \ {f, x.frame} : (\A n \in out : n.parent # g) => m2.ram[g] = m.ram[g]
      /\ \A n \in out : n.depth = D /\ n.path \in DOMAIN m2.swap =>
           m2.swap[n.path] = m.ram[n.frame]
      /\ \A p \in DOMAIN m.swap : p \in DOMAIN m2.swap => m2.swap[p] = m.swap[p]
  BY <1>2 DEF Linked
<1>6. /\ x.depth + 1 < D => \A p : p \in DOMAIN m2.swap <=>
           p \in DOMAIN m.swap \/ \E n \in out : n.depth = D /\ n.path = p
      /\ x.depth + 1 = D =>
           /\ page \in DOMAIN m.swap => m2.ram[f] = m.swap[page]
           /\ \A p : p \in DOMAIN m2.swap <=>
                /\ p # page
                /\ p \in DOMAIN m.swap \/ \E n \in out : n.depth = D /\ n.path = p
  BY <1>2 DEF Linked
<1>7. /\ \A n \in N : n.frame \in Frame
      /\ \A n, o \in N : n.frame = o.frame => n = o
      /\ \A n \in N : 0 .. n.frame \subseteq UsedFrames(m.ram)
      /\ \A n \in Leaves(m.ram) : n.path \in Page /\ n.path \notin DOMAIN m.swap
  BY DEF Sound
<1>8. /\ \A n \in N : n.depth \in Nat /\ n.depth <= D
      /\ \A n \in N : n \in Leaves(m.ram) <=> n.depth = D
      /\ Leaves(m.ram) \subseteq N
      /\ \A n \in Nodes(m2.ram) : n \in Leaves(m2.ram) <=> n.depth = D
      /\ Leaves(m2.ram) \subseteq Nodes(m2.ram)
  BY TreeFacts
<1>9. new.frame = f /\ new.path = x.path * PAGE_SIZE + j /\ new.depth = x.depth + 1
  BY DEF NewNode
<1>10. x \in N /\ x.depth \in Nat /\ D \in Nat /\ x.depth + 1 <= D BY <1>8, Widths
<1>11. \A n, o \in N : n.depth = o.depth /\ n.path = o.path => n = o BY PathsLemma
<1>12. page \in Page /\ \A n \in Leaves(m.ram) : n.path # page BY DEF ResidentIn
<1> HIDE DEF D, N, found, f, m2, new
\* The leaves of m2: those of m that stay, and the new node on the last level.
<1>13. /\ \A l : l \in Leaves(m2.ram) <=>
            \/ l \in Leaves(m.ram) /\ l \notin out
            \/ l = new /\ x.depth + 1 = D
       /\ x.depth + 1 = D => new.path = page
  <2>1. x.depth + 1 = D => new.path = page BY <1>9 DEF D
  <2>2. ASSUME NEW l \in Leaves(m2.ram)
        PROVE  \/ l \in Leaves(m.ram) /\ l \notin out
               \/ l = new /\ x.depth + 1 = D
    BY <1>3, <1>8, <1>9
  <2>3. ASSUME NEW l \in Leaves(m.ram), l \notin out PROVE l \in Leaves(m2.ram)
    BY <2>3, <1>3, <1>8
  <2>4. x.depth + 1 = D => new \in Leaves(m2.ram) BY <1>3, <1>8, <1>9
  <2>5. QED BY <2>1, <2>2, <2>3, <2>4
\* A page that stays keeps its content.
<1>14. ASSUME NEW l \in Leaves(m.ram), l \notin out PROVE m2.ram[l.frame] = m.ram[l.frame]
  <2>1. l \in N /\ l.depth = D BY <1>8
  <2>2. l.frame \in Frame /\ l.frame # f BY <2>1, <1>4, <1>7, <1>14
  <2>3. l.frame # x.frame BY <2>1, <1>7, <1>10
  <2>4. ASSUME NEW n \in out PROVE n.parent # l.frame
    <3>1. n \in N /\ n # Root BY <1>4
    <3>2. PICK p \in N : p.depth < D /\ p.frame = n.parent BY <3>1, LinkLemma DEF N, D
    <3>3. p # l BY <3>2, <2>1, <1>10
    <3>4. QED BY <3>2, <3>3, <2>1, <1>7
  <2>5. QED BY <2>2, <2>3, <2>4, <1>5
<1>15. UsedFrames(m2.ram) = UsedFrames(m.ram) \union {f}
  <2>1. UsedFrames(m2.ram) = {n.frame : n \in (N \ out) \union {new}}
    BY <1>3 DEF UsedFrames
  <2>2. UsedFrames(m.ram) = {n.frame : n \in N} BY DEF UsedFrames, N
  <2>3. ASSUME NEW g \in UsedFrames(m.ram) PROVE g \in UsedFrames(m2.ram) \union {f}
    <3>1. PICK n \in N : n.frame = g BY <2>2
    <3>2. CASE n \in out BY <3>1, <3>2, <1>4
    <3>3. CASE n \notin out BY <3>1, <3>3, <2>1
    <3>4. QED BY <3>2, <3>3
  <2>4. f \in UsedFrames(m2.ram) BY <2>1, <1>9
  <2>5. ASSUME NEW g \in UsedFrames(m2.ram) PROVE g \in UsedFrames(m.ram) \union {f}
    BY <2>1, <2>2, <1>9
  <2>6. QED BY <2>3, <2>4, <2>5
<1>16. Sound(m2)
  <2>1. \A n \in Nodes(m2.ram) : n.frame \in Frame BY <1>3, <1>4, <1>7, <1>9
  <2>2. \A n, o \in Nodes(m2.ram) : n.frame = o.frame => n = o BY <1>3, <1>4, <1>7, <1>9
  <2>3. ASSUME NEW n \in Nodes(m2.ram), NEW g \in 0 .. n.frame PROVE g \in UsedFrames(m2.ram)
    <3>1. CASE n \in N BY <3>1, <1>7, <1>15
    <3>2. CASE n = new
      <4>1. g \in Frame /\ (g < f \/ g = f) BY <3>2, <1>4, <1>9, Widths DEF Frame
      <4>2. QED BY <4>1, <1>4, <1>15
    <3>3. QED BY <3>1, <3>2, <1>3
  <2>4. ASSUME NEW l \in Leaves(m2.ram) PROVE l.path \in Page /\ l.path \notin DOMAIN m2.swap
    <3>1. CASE l \in Leaves(m.ram) /\ l \notin out
      <4>1. l.path \in Page /\ l.path \notin DOMAIN m.swap BY <3>1, <1>7
      <4>2. ASSUME NEW n \in out, n.depth = D, n.path = l.path PROVE FALSE
        <5>1. n \in N /\ l \in N /\ l.depth = D BY <3>1, <1>4, <1>8
        <5>2. n = l BY <5>1, <4>2, <1>11
        <5>3. QED BY <5>2, <3>1
      <4>3. x.depth + 1 < D \/ x.depth + 1 = D BY <1>10
      <4>4. QED BY <4>1, <4>2, <4>3, <1>6
    <3>2. CASE l = new /\ x.depth + 1 = D BY <3>2, <1>6, <1>12, <1>13
    <3>3. QED BY <3>1, <3>2, <1>13
  <2>5. QED BY <2>1, <2>2, <2>3, <2>4, <1>5 DEF Sound
<1>17. ASSUME NEW q, NEW c, Holds(m, q, c) PROVE Holds(m2, q, c)
  <2>1. CASE \E n \in Leaves(m.ram) : n.path = q /\ m.ram[n.frame] = c
    <3>1. PICK n \in Leaves(m.ram) : n.path = q /\ m.ram[n.frame] = c BY <2>1
    <3>2. q # page BY <3>1, <1>12
    <3>3. CASE n \in out
      <4>1. n.depth = D BY <1>8
      <4>2. q \in DOMAIN m2.swap BY <4>1, <3>1, <3>2, <3>3, <1>6, <1>10
      <4>3. m2.swap[q] = c BY <4>1, <4>2, <3>1, <3>3, <1>5
      <4>4. QED BY <4>2, <4>3 DEF Holds
    <3>4. CASE n \notin out
      <4>1. n \in Leaves(m2.ram) /\ m2.ram[n.frame] = c BY <3>1, <3>4, <1>13, <1>14
      <4>2. QED BY <4>1, <3>1 DEF Holds
    <3>5. QED BY <3>3, <3>4
  <2>2. CASE q \in DOMAIN m.swap /\ m.swap[q] = c
    <3>1. CASE q \in DOMAIN m2.swap
      <4>1. m2.swap[q] = c BY <3>1, <2>2, <1>5
      <4>2. QED BY <3>1, <4>1 DEF Holds
    <3>2. CASE q \notin DOMAIN m2.swap
      <4>1. x.depth + 1 = D /\ q = page BY <3>2, <2>2, <1>6, <1>10
      <4>2. new \in Leaves(m2.ram) /\ new.path = q BY <4>1, <1>13
      <4>3. m2.ram[new.frame] = c BY <4>1, <2>2, <1>6, <1>9
      <4>4. QED BY <4>2, <4>3 DEF Holds
    <3>3. QED BY <3>1, <3>2
  <2>3. QED BY <2>1, <2>2, <1>17 DEF Holds
<1>18. ASSUME NEW q, NEW c, q # page, Holds(m2, q, c) PROVE Holds(m, q, c)
  <2>1. CASE \E n \in Leaves(m2.ram) : n.path = q /\ m2.ram[n.frame] = c
    <3>1. PICK n \in Leaves(m2.ram) : n.path = q /\ m2.ram[n.frame] = c BY <2>1
    <3>2. n \in Leaves(m.ram) /\ n \notin out BY <3>1, <1>13, <1>18
    <3>3. m.ram[n.frame] = c BY <3>1, <3>2, <1>14
    <3>4. QED BY <3>1, <3>2, <3>3 DEF Holds
  <2>2. CASE q \in DOMAIN m2.swap /\ m2.swap[q] = c
    <3>1. CASE q \in DOMAIN m.swap
      <4>1. m.swap[q] = c BY <3>1, <2>2, <1>5
      <4>2. QED BY <3>1, <4>1 DEF Holds
    <3>2. CASE q \notin DOMAIN m.swap
      <4>1. PICK n \in out : n.depth = D /\ n.path = q BY <3>2, <2>2, <1>6, <1>10
      <4>2. n \in Leaves(m.ram) BY <4>1, <1>4, <1>8
      <4>3. m.ram[n.frame] = c BY <4>1, <2>2, <1>5
      <4>4. QED BY <4>1, <4>2, <4>3 DEF Holds
    <3>3. QED BY <3>1, <3>2
  <2>3. QED BY <2>1, <2>2, <1>18 DEF Holds
<1>19. ResidentIn(m2) \subseteq ResidentIn(m) \union {page} BY <1>13 DEF ResidentIn
<1>20. ASSUME NEW p \in ResidentIn(m) \ ResidentIn(m2)
       PROVE  /\ UsedFrames(m.ram) = Frame
              /\ \A q \in ResidentIn(m) : CyclicDistance(page, q) <= CyclicDistance(page, p)
  <2>1. PICK n \in Leaves(m.ram) : n.path = p BY DEF ResidentIn
  <2>2. n \in out BY <2>1, <1>13, <1>20 DEF ResidentIn
  <2>3. n.depth = D BY <1>8
  <2>4. /\ UsedFrames(m.ram) = Frame
        /\ \A l \in Leaves(m.ram) : CyclicDistance(page, p) >= CyclicDistance(page, l.path)
    BY <2>1, <2>2, <2>3, <1>4
  <2>5. ASSUME NEW q \in ResidentIn(m)
        PROVE  CyclicDistance(page, q) <= CyclicDistance(page, p)
    <3>1. PICK l \in Leaves(m.ram) : l.path = q BY DEF ResidentIn
    <3>2. /\ p \in 0 .. NUM_PAGES - 1 /\ q \in 0 .. NUM_PAGES - 1
          /\ page \in 0 .. NUM_PAGES - 1 /\ NUM_PAGES \in Nat
      BY <2>1, <3>1, <1>7, <1>12, Widths DEF Page
    <3>3. CyclicDistance(page, q) \in Nat /\ CyclicDistance(page, p) \in Nat
      BY <3>2 DEF CyclicDistance
    <3>4. QED BY <3>1, <3>3, <2>4
  <2>6. QED BY <2>4, <2>5
<1>21. new \in Nodes(m2.ram) BY <1>3
<1>22. UsedFrames(m.ram) \subseteq UsedFrames(m2.ram) BY <1>15
<1>23. Keeps(m, m2, page) BY <1>17, <1>18 DEF Keeps
<1>24. QED BY <1>16, <1>19, <1>20, <1>21, <1>22, <1>23, Zenon DEF m2, new, f

-----------------------------------------------------------------------------
(* extractPhysicalAdd                                                      *)

\* The way to a node passes the nodes of the shorter prefixes of the address.
LEMMA ParentLemma ==
  ASSUME NEW a \in Nat, a < VIRTUAL_MEMORY_SIZE, NEW ram, NEW i \in 0 .. TABLES_DEPTH - 1,
         NEW n \in Nodes(ram), n.depth = i + 1, n.path = Prefix(a, i + 1)
  PROVE  \E p \in Nodes(ram) : /\ p.depth = i /\ p.path = Prefix(a, i)
                               /\ ram[p.frame][EntryAt(a, i)] # 0
<1>1. /\ Prefix(a, i) \in Nat /\ EntryAt(a, i) \in Offset
      /\ Prefix(a, i + 1) = Prefix(a, i) * PAGE_SIZE + EntryAt(a, i)
  <2>1. i \in 0 .. TABLES_DEPTH BY Widths
  <2>2. QED BY <2>1, Addressing
<1>2. n # Root BY TreeFacts
<1>3. PICK p \in Nodes(ram) : n \in Children(ram, p) BY <1>2, TreeFacts
<1>4. /\ n.offset \in Offset /\ ram[p.frame][n.offset] = n.frame /\ n.frame # 0
      /\ n.path = p.path * PAGE_SIZE + n.offset /\ n.depth = p.depth + 1
  BY <1>3, ChildLemma
<1>5. p.depth \in Nat /\ p.path \in Nat BY TreeFacts
<1>6. p.depth = i BY <1>4, <1>5
<1>7. p.path = Prefix(a, i) /\ n.offset = EntryAt(a, i)
  <2>1. PAGE_SIZE \in Nat \ {0} /\ Offset = 0 .. PAGE_SIZE - 1 BY Widths DEF Offset
  <2>2. /\ n.offset \in Nat /\ n.offset < PAGE_SIZE
        /\ EntryAt(a, i) \in Nat /\ EntryAt(a, i) < PAGE_SIZE
    BY <1>1, <1>4, <2>1
  <2>3. p.path * PAGE_SIZE + n.offset = Prefix(a, i) * PAGE_SIZE + EntryAt(a, i)
    BY <1>1, <1>4
  <2>4. p.path \in Nat /\ Prefix(a, i) \in Nat /\ PAGE_SIZE \in Nat \ {0}
    BY <1>1, <1>5, <2>1
  <2> DEFINE P == PAGE_SIZE
             q == p.path
             s == Prefix(a, i)
             j == n.offset
             k == EntryAt(a, i)
  <2>5. /\ P \in Nat \ {0} /\ q \in Nat /\ s \in Nat /\ j \in Nat /\ k \in Nat
        /\ j < P /\ k < P /\ q * P + j = s * P + k
    BY <2>2, <2>3, <2>4
  <2> HIDE DEF P, q, s, j, k
  <2>6. q = s /\ j = k BY <2>5, SameDigits
  <2>7. QED BY <2>6 DEF q, s, j, k
<1>8. QED BY <1>4, <1>6, <1>7

\* If an entry on the way to a page is missing, the page is not in the RAM.
LEMMA MissingLemma ==
  ASSUME NEW a \in Nat, a < VIRTUAL_MEMORY_SIZE, NEW ram, NEW x \in Nodes(ram),
         x.depth < TABLES_DEPTH, x.path = Prefix(a, x.depth),
         ram[x.frame][EntryAt(a, x.depth)] = 0
  PROVE  \A l \in Leaves(ram) : l.path # a \div PAGE_SIZE
<1> SUFFICES ASSUME NEW l \in Leaves(ram), l.path = a \div PAGE_SIZE PROVE FALSE
  OBVIOUS
<1> DEFINE D == TABLES_DEPTH
           N == Nodes(ram)
           Reaches(i) == \E n \in N : n.depth = i /\ n.path = Prefix(a, i)
           S == {k \in Nat : k <= D => Reaches(D - k)}
<1>1. D \in Nat BY Widths
<1>2. l \in N /\ l.depth = D /\ l.path = Prefix(a, D) BY TreeFacts, Addressing
<1>3. \A n, o \in N : n.depth = o.depth /\ n.path = o.path => n = o BY PathsLemma
<1>4. ASSUME NEW i \in 0 .. D - 1, Reaches(i + 1)
      PROVE  \E p \in N : /\ p.depth = i /\ p.path = Prefix(a, i)
                          /\ ram[p.frame][EntryAt(a, i)] # 0
  <2>1. PICK n \in N : n.depth = i + 1 /\ n.path = Prefix(a, i + 1) BY <1>4
  <2>2. QED BY <2>1, ParentLemma
<1> HIDE DEF D, N
<1>5. 0 \in S
  <2>1. D - 0 = D BY <1>1
  <2>2. QED BY <2>1, <1>2
<1>6. ASSUME NEW k \in Nat, k \in S PROVE k + 1 \in S
  <2> SUFFICES ASSUME k + 1 <= D PROVE Reaches(D - (k + 1)) OBVIOUS
  <2> DEFINE i == D - (k + 1)
  <2>1. i \in 0 .. D - 1 /\ i + 1 = D - k /\ k <= D BY <1>1
  <2> HIDE DEF i
  <2>2. Reaches(i + 1) BY <2>1, <1>6
  <2>3. Reaches(i) BY <2>1, <2>2, <1>4
  <2>4. QED BY <2>3 DEF i
<1>7. Nat \subseteq S BY <1>5, <1>6, Induction
<1> DEFINE d == x.depth
<1>8. d \in 0 .. D - 1 /\ x \in N BY <1>1, TreeFacts DEF D, N
<1> HIDE DEF Reaches
<1>9. Reaches(d + 1)
  <2> DEFINE k == D - (d + 1)
  <2>1. k \in Nat /\ k <= D /\ D - k = d + 1 BY <1>1, <1>8
  <2> HIDE DEF k, d
  <2>2. k \in S BY <2>1, <1>7
  <2>3. Reaches(D - k) BY <2>1, <2>2
  <2>4. QED BY <2>1, <2>3
<1>10. PICK p \in N : p.depth = d /\ p.path = Prefix(a, d) /\ ram[p.frame][EntryAt(a, d)] # 0
  BY <1>4, <1>8, <1>9
<1>11. p = x BY <1>3, <1>8, <1>10
<1>12. QED BY <1>10, <1>11

\* One round of the loop, and the loop.
WalkStep(a, i, r) ==
  IF r.mem.ram[r.frame][EntryAt(a, i)] # 0
  THEN [r EXCEPT !.frame = r.mem.ram[r.frame][EntryAt(a, i)]]
  ELSE findEmptyCell(r.mem, i, a \div PAGE_SIZE, r.frame, EntryAt(a, i), r.frame)

\* The recursive function of extractPhysicalAdd exists: one WalkStep for each level.
LEMMA WalkDefined ==
  ASSUME NEW m, NEW a
  PROVE  \E reached : /\ reached[0] = [frame |-> 0, mem |-> m]
                      /\ \A i \in 0 .. TABLES_DEPTH - 1 :
                           reached[i + 1] = WalkStep(a, i, reached[i])
                      /\ extractPhysicalAdd(m, a) = reached[TABLES_DEPTH]
<1> DEFINE start == [frame |-> 0, mem |-> m]
           step(i, r) == WalkStep(a, i, r)
           Good(f, k) == f = [i \in 0 .. k |-> IF i = 0 THEN start ELSE step(i - 1, f[i - 1])]
           S == {k \in Nat : \E f : Good(f, k)}
<1> HIDE DEF start, step
<1>1. 0 \in S
  <2>1. Good([i \in 0 .. 0 |-> start], 0) OBVIOUS
  <2>2. QED BY <2>1
<1>2. ASSUME NEW k \in Nat, k \in S PROVE k + 1 \in S
  <2>1. PICK f : Good(f, k) BY <1>2
  <2> DEFINE g == [i \in 0 .. k + 1 |-> IF i = k + 1 THEN step(k, f[k]) ELSE f[i]]
  <2>2. ASSUME NEW i \in 0 .. k + 1
        PROVE  g[i] = IF i = 0 THEN start ELSE step(i - 1, g[i - 1])
    <3>1. CASE i = k + 1
      <4>1. i # 0 /\ i - 1 = k /\ k \in 0 .. k + 1 /\ k # k + 1 BY <3>1
      <4>2. g[k] = f[k] /\ g[i] = step(k, f[k]) BY <4>1, <3>1
      <4>3. QED BY <4>1, <4>2
    <3>2. CASE i # k + 1
      <4>1. i \in 0 .. k /\ (i # 0 => i - 1 \in 0 .. k + 1 /\ i - 1 # k + 1) BY <3>2
      <4>2. g[i] = f[i] /\ (i # 0 => g[i - 1] = f[i - 1]) BY <4>1, <3>2
      <4>3. f[i] = IF i = 0 THEN start ELSE step(i - 1, f[i - 1]) BY <2>1, <4>1
      <4>4. QED BY <4>2, <4>3
    <3>3. QED BY <3>1, <3>2
  <2>3. Good(g, k + 1) BY <2>2
  <2> HIDE DEF g, Good
  <2>4. \E h : Good(h, k + 1) BY <2>3
  <2>5. QED BY <2>4
<1>3. TABLES_DEPTH \in Nat BY Widths
<1>4. TABLES_DEPTH \in S BY <1>1, <1>2, <1>3, Induction
<1>5. \E f : Good(f, TABLES_DEPTH) BY <1>4
<1> DEFINE reached == CHOOSE f : Good(f, TABLES_DEPTH)
<1>6. Good(reached, TABLES_DEPTH) BY <1>5
<1>7. extractPhysicalAdd(m, a) = reached[TABLES_DEPTH]
  BY DEF extractPhysicalAdd, step, WalkStep, EntryAt, start
<1> HIDE DEF reached
<1>8. reached[0] = start BY <1>3, <1>6
<1>9. ASSUME NEW i \in 0 .. TABLES_DEPTH - 1 PROVE reached[i + 1] = step(i, reached[i])
  <2>1. i + 1 \in 0 .. TABLES_DEPTH /\ i + 1 # 0 /\ (i + 1) - 1 = i BY <1>3
  <2>2. QED BY <2>1, <1>6
<1>10. QED BY <1>7, <1>8, <1>9 DEF step, start

\* After i rounds: the memory is sound and the frame that of the node on level i of the
\* way; every page has kept its content; nothing has changed if the page was in the RAM,
\* and the pages that have left are farther than those that have not.
Walked(m, a, i, r) ==
  LET page == a \div PAGE_SIZE
  IN  /\ r = [frame |-> r.frame, mem |-> r.mem]
      /\ Sound(r.mem)
      /\ \E x \in Nodes(r.mem.ram) : x.frame = r.frame /\ x.depth = i /\ x.path = Prefix(a, i)
      /\ Keeps(m, r.mem, page)
      /\ ResidentIn(r.mem) \subseteq ResidentIn(m) \union {page}
      /\ page \in ResidentIn(m) => r.mem = m
      /\ \A p \in ResidentIn(m) \ ResidentIn(r.mem) :
           /\ UsedFrames(r.mem.ram) = Frame
           /\ \A q \in ResidentIn(m) \intersect ResidentIn(r.mem) :
                CyclicDistance(page, q) <= CyclicDistance(page, p)

\* One level of the walk keeps all this.
LEMMA WalkStepLemma ==
  ASSUME NEW a \in Nat, a < VIRTUAL_MEMORY_SIZE, NEW m, NEW i \in 0 .. TABLES_DEPTH - 1,
         NEW r, Walked(m, a, i, r), NEW s, s = WalkStep(a, i, r)
  PROVE  Walked(m, a, i + 1, s)
<1> DEFINE page == a \div PAGE_SIZE
           j == EntryAt(a, i)
           M == r.mem
<1>1. /\ r = [frame |-> r.frame, mem |-> r.mem]
      /\ Sound(M) /\ Keeps(m, M, page)
      /\ ResidentIn(M) \subseteq ResidentIn(m) \union {page}
      /\ page \in ResidentIn(m) => M = m
      /\ \A p \in ResidentIn(m) \ ResidentIn(M) :
           /\ UsedFrames(M.ram) = Frame
           /\ \A q \in ResidentIn(m) \intersect ResidentIn(M) :
                CyclicDistance(page, q) <= CyclicDistance(page, p)
  BY DEF Walked
<1>2. PICK x \in Nodes(M.ram) : x.frame = r.frame /\ x.depth = i /\ x.path = Prefix(a, i)
  BY DEF Walked
<1>3. TABLES_DEPTH \in Nat /\ x.depth < TABLES_DEPTH BY <1>2, Widths
<1>4. /\ page \in Page /\ j \in Offset
      /\ Prefix(a, i + 1) = x.path * PAGE_SIZE + j
      /\ Prefix(a, TABLES_DEPTH) = page
  BY <1>2, Addressing
<1> HIDE DEF page, j, M
<1>5. CASE M.ram[r.frame][j] # 0
  <2> DEFINE c == Child(M.ram, x, j)
  <2>1. s = [frame |-> M.ram[r.frame][j], mem |-> M]
    <3> DEFINE b == r.frame
    <3>1. r = [frame |-> b, mem |-> M] BY <1>1 DEF M
    <3> HIDE DEF b
    <3>2. s = [r EXCEPT !.frame = M.ram[r.frame][j]] BY <1>5 DEF WalkStep, j, M
    <3>3. QED BY <3>1, <3>2
  <2>2. c \in Children(M.ram, x) BY <1>2, <1>4, <1>5, ChildLemma
  <2>3. c \in Nodes(M.ram) BY <2>2, <1>3, TreeFacts
  <2>4. c.frame = s.frame /\ c.depth = i + 1 /\ c.path = Prefix(a, i + 1)
    BY <2>1, <1>2, <1>4 DEF Child
  <2>5. s.mem = M /\ s = [frame |-> s.frame, mem |-> s.mem] BY <2>1
  <2> HIDE DEF c
  <2>6. QED BY <2>3, <2>4, <2>5, <1>1 DEF Walked, page
<1>6. CASE M.ram[r.frame][j] = 0
  <2> DEFINE new == NewNode(x, j, s.frame)
             M2 == s.mem
  <2>1. s = findEmptyCell(M, x.depth, page, x.frame, j, x.frame)
    BY <1>2, <1>6 DEF WalkStep, j, M, page
  <2>2. page \notin ResidentIn(M)
    <3>1. M.ram[x.frame][EntryAt(a, x.depth)] = 0 BY <1>2, <1>6 DEF j
    <3>2. \A l \in Leaves(M.ram) : l.path # a \div PAGE_SIZE
      BY <3>1, <1>2, <1>3, MissingLemma
    <3>3. QED BY <3>2 DEF ResidentIn, page
  <2>3. x.depth + 1 = TABLES_DEPTH => x.path * PAGE_SIZE + j = page BY <1>2, <1>4
  <2>4. s = [frame |-> s.frame, mem |-> M2] BY <2>1 DEF findEmptyCell
  <2>5. /\ Sound(M2)
        /\ new \in Nodes(M2.ram)
        /\ Keeps(M, M2, page)
        /\ ResidentIn(M2) \subseteq ResidentIn(M) \union {page}
        /\ UsedFrames(M.ram) \subseteq UsedFrames(M2.ram)
        /\ \A p \in ResidentIn(M) \ ResidentIn(M2) :
             /\ UsedFrames(M.ram) = Frame
             /\ \A q \in ResidentIn(M) : CyclicDistance(page, q) <= CyclicDistance(page, p)
    <3>1. x \in Nodes(M.ram) /\ M.ram[x.frame][j] = 0 BY <1>2, <1>6
    <3>2. QED BY <3>1, <2>1, <2>2, <2>3, <1>1, <1>3, <1>4, StepLemma
  <2>6. new.frame = s.frame /\ new.depth = i + 1 /\ new.path = Prefix(a, i + 1)
    BY <1>2, <1>4 DEF NewNode
  <2> HIDE DEF new, M2
  <2>7. page \notin ResidentIn(m) BY <2>2, <1>1
  <2>8. Keeps(m, M2, page) BY <2>5, <1>1, Zenon DEF Keeps
  <2>9. ResidentIn(M2) \subseteq ResidentIn(m) \union {page} BY <2>5, <1>1
  <2>10. UsedFrames(M2.ram) \subseteq Frame BY <2>5 DEF Sound, UsedFrames
  <2>11. ASSUME NEW p \in ResidentIn(m) \ ResidentIn(M2)
         PROVE  /\ UsedFrames(M2.ram) = Frame
                /\ \A q \in ResidentIn(m) \intersect ResidentIn(M2) :
                     CyclicDistance(page, q) <= CyclicDistance(page, p)
    <3>1. ResidentIn(m) \intersect ResidentIn(M2) \subseteq ResidentIn(M) BY <2>5, <2>7
    <3>2. CASE p \in ResidentIn(M)
      <4>1. UsedFrames(M.ram) = Frame BY <3>2, <2>5, <2>11
      <4>2. UsedFrames(M2.ram) = Frame BY <4>1, <2>5, <2>10
      <4>3. QED BY <3>1, <3>2, <4>2, <2>5, <2>11
    <3>3. CASE p \notin ResidentIn(M)
      <4>1. UsedFrames(M.ram) = Frame BY <3>3, <1>1
      <4>2. UsedFrames(M2.ram) = Frame BY <4>1, <2>5, <2>10
      <4>3. QED BY <3>1, <3>3, <4>2, <1>1
    <3>4. QED BY <3>2, <3>3
  <2>12. QED BY <2>4, <2>5, <2>6, <2>7, <2>8, <2>9, <2>11 DEF Walked, page, M2
<1>7. QED BY <1>5, <1>6

\* The translation of a valid address.
LEMMA TranslationLemma ==
  ASSUME NEW a \in Nat, a < VIRTUAL_MEMORY_SIZE, NEW m, Sound(m)
  PROVE  Walked(m, a, TABLES_DEPTH, extractPhysicalAdd(m, a))
<1> DEFINE D == TABLES_DEPTH
<1>1. PICK reached : /\ reached[0] = [frame |-> 0, mem |-> m]
                     /\ \A i \in 0 .. D - 1 : reached[i + 1] = WalkStep(a, i, reached[i])
                     /\ extractPhysicalAdd(m, a) = reached[D]
  BY WalkDefined
<1> DEFINE S == {i \in Nat : i <= D => Walked(m, a, i, reached[i])}
<1>2. D \in Nat BY Widths
<1> HIDE DEF D
<1>3. 0 \in S
  <2> DEFINE r == reached[0]
  <2>1. r.mem = m /\ r.frame = 0 /\ r = [frame |-> r.frame, mem |-> r.mem] BY <1>1
  <2>2. Root \in Nodes(m.ram) /\ Root.frame = 0 /\ Root.depth = 0 /\ Root.path = 0
    BY TreeFacts
  <2>3. Prefix(a, 0) = 0 BY Addressing
  <2>4. Keeps(m, m, a \div PAGE_SIZE) BY DEF Keeps
  <2> HIDE DEF r
  <2>5. Walked(m, a, 0, r) BY <2>1, <2>2, <2>3, <2>4 DEF Walked
  <2>6. QED BY <2>5 DEF r
<1>4. ASSUME NEW i \in Nat, i \in S PROVE i + 1 \in S
  <2> SUFFICES ASSUME i + 1 <= D PROVE Walked(m, a, i + 1, reached[i + 1]) OBVIOUS
  <2>1. i \in 0 .. D - 1 /\ i <= D BY <1>2
  <2>2. Walked(m, a, i, reached[i]) BY <2>1, <1>4
  <2>3. reached[i + 1] = WalkStep(a, i, reached[i]) BY <2>1, <1>1
  <2>4. QED BY <2>1, <2>2, <2>3, WalkStepLemma DEF D
<1>5. Nat \subseteq S BY <1>3, <1>4, Induction
<1>6. Walked(m, a, D, reached[D]) BY <1>2, <1>5
<1>7. QED BY <1>1, <1>6 DEF D

-----------------------------------------------------------------------------
(* What the callers see: the contents of the pages.                         *)

PageOf(m, p) ==
  IF \E n \in Leaves(m.ram) : n.path = p
  THEN m.ram[(CHOOSE n \in Leaves(m.ram) : n.path = p).frame]
  ELSE IF p \in DOMAIN m.swap THEN m.swap[p] ELSE Unused

\* What a page holds is unique, and is what the callers see.
LEMMA ContentLemma ==
  ASSUME NEW m, Sound(m), NEW p
  PROVE  /\ \A c : Holds(m, p, c) => PageOf(m, p) = c /\ c \in Content
         /\ (\E c : Holds(m, p, c)) \/ PageOf(m, p) = Unused
<1>1. \A n, o \in Leaves(m.ram) : n.path = o.path => n = o
  <2>1. \A n \in Leaves(m.ram) : n \in Nodes(m.ram) /\ n.depth = TABLES_DEPTH BY TreeFacts
  <2>2. QED BY <2>1, PathsLemma
<1>2. /\ \A n \in Leaves(m.ram) : n.frame \in Frame /\ n.path \notin DOMAIN m.swap
      /\ m.ram \in [Frame -> Content]
      /\ \A q \in DOMAIN m.swap : m.swap[q] \in Content
  BY TreeFacts DEF Sound, MemoryTyped
<1>3. CASE \E n \in Leaves(m.ram) : n.path = p
  <2> DEFINE l == CHOOSE n \in Leaves(m.ram) : n.path = p
  <2>1. l \in Leaves(m.ram) /\ l.path = p BY <1>3
  <2>2. PageOf(m, p) = m.ram[l.frame] BY <1>3 DEF PageOf
  <2> HIDE DEF l
  <2>3. Holds(m, p, m.ram[l.frame]) BY <2>1 DEF Holds
  <2>4. ASSUME NEW c, Holds(m, p, c) PROVE c = m.ram[l.frame]
    <3>1. p \notin DOMAIN m.swap BY <2>1, <1>2
    <3>2. PICK n \in Leaves(m.ram) : n.path = p /\ m.ram[n.frame] = c
      BY <3>1, <2>4 DEF Holds
    <3>3. n = l BY <3>2, <2>1, <1>1
    <3>4. QED BY <3>2, <3>3
  <2>5. m.ram[l.frame] \in Content BY <2>1, <1>2
  <2>6. QED BY <2>2, <2>3, <2>4, <2>5
<1>4. CASE ~ \E n \in Leaves(m.ram) : n.path = p
  <2>1. PageOf(m, p) = IF p \in DOMAIN m.swap THEN m.swap[p] ELSE Unused
    BY <1>4 DEF PageOf
  <2>2. \A c : Holds(m, p, c) <=> p \in DOMAIN m.swap /\ m.swap[p] = c
    BY <1>4 DEF Holds
  <2>3. QED BY <2>1, <2>2, <1>2
<1>5. QED BY <1>3, <1>4

\* If no page loses its content, callers see those of all but the page addressed unchanged.
LEMMA KeepsLemma ==
  ASSUME NEW m, Sound(m), NEW m2, Sound(m2), NEW page, Keeps(m, m2, page)
  PROVE  /\ \A q : q # page => PageOf(m2, q) = PageOf(m, q)
         /\ PageOf(m, page) # Unused => PageOf(m2, page) = PageOf(m, page)
<1>1. ASSUME NEW q, NEW c, Holds(m, q, c) PROVE PageOf(m2, q) = PageOf(m, q)
  <2>1. Holds(m2, q, c) BY <1>1 DEF Keeps
  <2>2. PageOf(m, q) = c /\ PageOf(m2, q) = c BY <1>1, <2>1, ContentLemma
  <2>3. QED BY <2>2
<1>2. ASSUME NEW q, q # page PROVE PageOf(m2, q) = PageOf(m, q)
  <2>1. CASE \E c : Holds(m, q, c) BY <2>1, <1>1
  <2>2. CASE ~ \E c : Holds(m, q, c)
    <3>1. ~ \E c : Holds(m2, q, c) BY <2>2, <1>2 DEF Keeps
    <3>2. PageOf(m, q) = Unused /\ PageOf(m2, q) = Unused BY <2>2, <3>1, ContentLemma
    <3>3. QED BY <3>2
  <2>3. QED BY <2>1, <2>2
<1>3. ASSUME PageOf(m, page) # Unused PROVE PageOf(m2, page) = PageOf(m, page)
  <2>1. PICK c : Holds(m, page, c) BY <1>3, ContentLemma
  <2>2. QED BY <2>1, <1>1
<1>4. QED BY <1>2, <1>3

\* A word of a page is written: the tree and the other pages stay.
LEMMA WritePageLemma ==
  ASSUME NEW m, Sound(m), NEW l \in Leaves(m.ram), NEW o \in Offset, NEW w \in Word,
         NEW m2, m2 = PMwrite(m, l.frame, o, w)
  PROVE  /\ Sound(m2) /\ Nodes(m2.ram) = Nodes(m.ram) /\ Leaves(m2.ram) = Leaves(m.ram)
         /\ \A q : q # l.path => PageOf(m2, q) = PageOf(m, q)
<1> DEFINE D == TABLES_DEPTH
           N == Nodes(m.ram)
           f == l.frame
<1>1. /\ Root \in N
      /\ \A n \in N : n.depth \in 0 .. D /\ n.path \in Nat
      /\ \A n \in N : n.depth < D => Children(m.ram, n) \subseteq N
      /\ \A n \in N : n = Root \/ \E p \in N : p.depth < D /\ n \in Children(m.ram, p)
  <2>1. IsTree(m.ram, N) BY NodesAreTree
  <2>2. QED BY <2>1 DEF IsTree
<1>2. /\ MemoryTyped(m)
      /\ \A n \in N : n.frame \in Frame
      /\ \A n, k \in N : n.frame = k.frame => n = k
      /\ \A n \in N : 0 .. n.frame \subseteq UsedFrames(m.ram)
      /\ \A n \in Leaves(m.ram) : n.path \in Page /\ n.path \notin DOMAIN m.swap
  BY DEF Sound
<1>3. l \in N /\ l.depth = D /\ D \in Nat /\ f \in Frame BY TreeFacts, Widths, <1>2
<1> HIDE DEF D, N, f
<1>4. /\ MemoryTyped(m2) /\ m2.swap = m.swap
      /\ \A g \in Frame : g # f => m2.ram[g] = m.ram[g]
  <2>1. m2 = PMwrite(m, f, o, w) BY DEF f
  <2>2. QED BY <2>1, <1>2, <1>3, WriteLemma
<1>5. ASSUME NEW n \in N, n.depth < D
      PROVE  m2.ram[n.frame] = m.ram[n.frame] /\ Children(m2.ram, n) = Children(m.ram, n)
  <2>1. n # l BY <1>3, <1>5
  <2>2. n.frame # f BY <2>1, <1>2, <1>3 DEF f
  <2>3. m2.ram[n.frame] = m.ram[n.frame] BY <2>2, <1>2, <1>4
  <2>4. QED BY <2>3 DEF Children
<1>6. IsTree(m2.ram, N) BY <1>1, <1>5 DEF IsTree, D
<1>7. Nodes(m2.ram) = N BY <1>6, TreeIsNodes
<1>8. Leaves(m2.ram) = Leaves(m.ram)
  <2>1. Leaves(m2.ram) = {n \in Nodes(m2.ram) : n.depth = TABLES_DEPTH} BY NodesAreTree
  <2>2. Leaves(m.ram) = {n \in Nodes(m.ram) : n.depth = TABLES_DEPTH} BY NodesAreTree
  <2>3. QED BY <2>1, <2>2, <1>7 DEF N
<1>9. UsedFrames(m2.ram) = UsedFrames(m.ram) BY <1>7 DEF UsedFrames, N
<1>10. Sound(m2) BY <1>2, <1>4, <1>7, <1>8, <1>9 DEF Sound
<1>11. ASSUME NEW q, q # l.path PROVE PageOf(m2, q) = PageOf(m, q)
  <2>1. ASSUME NEW n \in Leaves(m.ram), n.path = q PROVE m2.ram[n.frame] = m.ram[n.frame]
    <3>1. n \in N /\ n # l BY <2>1, <1>11, TreeFacts DEF N
    <3>2. n.frame \in Frame /\ n.frame # f BY <3>1, <1>2, <1>3 DEF f
    <3>3. QED BY <3>2, <1>4
  <2>2. \A c : Holds(m, q, c) <=> Holds(m2, q, c) BY <2>1, <1>4, <1>8 DEF Holds
  <2>3. CASE \E c : Holds(m, q, c)
    <3>1. PICK c : Holds(m, q, c) BY <2>3
    <3>2. PageOf(m, q) = c BY <3>1, ContentLemma
    <3>3. PageOf(m2, q) = c BY <3>1, <2>2, <1>10, ContentLemma
    <3>4. QED BY <3>2, <3>3
  <2>4. CASE ~ \E c : Holds(m, q, c)
    <3>1. PageOf(m, q) = Unused BY <2>4, ContentLemma
    <3>2. PageOf(m2, q) = Unused BY <2>4, <2>2, <1>10, ContentLemma
    <3>3. QED BY <3>1, <3>2
  <2>5. QED BY <2>3, <2>4
<1>12. QED BY <1>7, <1>8, <1>10, <1>11 DEF N

\* The frame that PMwrite has written to.
LEMMA WrittenWord ==
  ASSUME NEW m, MemoryTyped(m), NEW f \in Frame, NEW o, NEW w,
         NEW m2, m2 = PMwrite(m, f, o, w)
  PROVE  m2.ram[f] = [m.ram[f] EXCEPT ![o] = w]
<1> DEFINE a == m.ram
           b == m.swap
<1>1. m = [ram |-> a, swap |-> b] /\ a \in [Frame -> Content] BY DEF MemoryTyped
<1> HIDE DEF a, b
<1>2. PMwrite(m, f, o, w) = [ram |-> [a EXCEPT ![f][o] = w], swap |-> b]
  BY <1>1 DEF PMwrite
<1>3. PMwrite(m, f, o, w).ram = [a EXCEPT ![f][o] = w] BY <1>2
<1>4. [a EXCEPT ![f][o] = w][f] = [a[f] EXCEPT ![o] = w] BY <1>1
<1>5. m2.ram = [a EXCEPT ![f][o] = w] BY <1>3
<1>6. QED BY <1>4, <1>5 DEF a

-----------------------------------------------------------------------------
(* cyclic_distance                                                         *)

\* The rest of a number that goes round at most once.
LEMMA OnceAround ==
  ASSUME NEW n \in Nat \ {0}, NEW s \in Nat, s < n + n
  PROVE  /\ s < n => s % n = s
         /\ ~ s < n => s % n = s - n
<1>1. ASSUME s < n PROVE s % n = s
  <2>1. s = 0 * n + s OBVIOUS
  <2>2. QED BY <2>1, <1>1, Division
<1>2. ASSUME ~ s < n PROVE s % n = s - n
  <2> DEFINE t == s - n
  <2>1. t \in Nat /\ t < n /\ s = 1 * n + t BY <1>2
  <2> HIDE DEF t
  <2>2. s % n = t BY <2>1, Division
  <2>3. QED BY <2>2 DEF t
<1>3. QED BY <1>1, <1>2

\* cyclic_distance is the number of steps from one page to the other, the shorter way.
LEMMA AroundLemma ==
  ASSUME NEW p \in Page, NEW q \in Page
  PROVE  Around(p, q) = CyclicDistance(p, q)
<1> DEFINE N == NUM_PAGES
           Hit(d) == (p + d) % N = q \/ (q + d) % N = p
           First(d) == Hit(d) /\ \A e \in 0 .. d - 1 : (p + e) % N # q /\ (q + e) % N # p
           c == CyclicDistance(p, q)
<1>1. N \in Nat \ {0} /\ p \in Nat /\ q \in Nat /\ p < N /\ q < N BY Widths DEF Page
<1>2. Page = 0 .. N - 1 BY DEF Page
<1>3. c = LET ans == IF p > q THEN p - q ELSE q - p IN IF N - ans > ans THEN ans ELSE N - ans
  BY DEF CyclicDistance
<1> HIDE DEF N, c
<1>4. ASSUME NEW x \in Nat, NEW d \in Nat, x < N, d < N
      PROVE  /\ x + d < N => (x + d) % N = x + d
             /\ ~ x + d < N => (x + d) % N = x + d - N
  <2>1. PICK s \in Nat : s = x + d OBVIOUS
  <2>2. s < N + N BY <2>1, <1>1, <1>4
  <2>3. /\ s < N => s % N = s
        /\ ~ s < N => s % N = s - N
    BY <2>2, <1>1, OnceAround
  <2>4. QED BY <2>1, <2>3, <1>1
<1>5. ASSUME NEW d \in Nat, d < N
      PROVE  Hit(d) <=> p + d = q \/ p + d = q + N \/ q + d = p \/ q + d = p + N
  <2>1. /\ p + d < N => (p + d) % N = p + d
        /\ ~ p + d < N => (p + d) % N = p + d - N
    BY <1>1, <1>4, <1>5
  <2>2. /\ q + d < N => (q + d) % N = q + d
        /\ ~ q + d < N => (q + d) % N = q + d - N
    BY <1>1, <1>4, <1>5
  <2>3. QED BY <2>1, <2>2, <1>1, <1>5
<1>6. c \in Nat /\ c < N /\ Hit(c)
  <2>1. c \in Nat /\ c < N BY <1>1, <1>3
  <2>2. p + c = q \/ p + c = q + N \/ q + c = p \/ q + c = p + N BY <1>1, <1>3
  <2>3. QED BY <2>1, <2>2, <1>5
<1>7. ASSUME NEW e \in Nat, e < N, Hit(e) PROVE c <= e
  <2>1. p + e = q \/ p + e = q + N \/ q + e = p \/ q + e = p + N BY <1>5, <1>7
  <2>2. QED BY <2>1, <1>1, <1>3, <1>7
<1>8. First(c)
  <2>1. ASSUME NEW e \in 0 .. c - 1 PROVE (p + e) % N # q /\ (q + e) % N # p
    <3>1. e \in Nat /\ e < N /\ ~ c <= e BY <1>1, <1>6
    <3>2. ~ Hit(e) BY <3>1, <1>7
    <3>3. QED BY <3>2
  <2>2. QED BY <2>1, <1>6
<1>9. ASSUME NEW d \in Page, First(d) PROVE d = c
  <2>1. d \in Nat /\ d < N BY <1>1, <1>2
  <2>2. c <= d BY <2>1, <1>7, <1>9
  <2>3. ~ c \in 0 .. d - 1 BY <1>6, <1>9
  <2>4. QED BY <2>1, <2>2, <2>3, <1>6
<1>10. c \in Page BY <1>1, <1>2, <1>6
<1>11. Around(p, q) = CHOOSE d \in Page : First(d) BY DEF Around, N
<1> HIDE DEF First
<1>12. QED BY <1>8, <1>9, <1>10, <1>11 DEF c

-----------------------------------------------------------------------------
(* The operations of the library.                                          *)

\* The inductive invariant.
PagingInv == Sound(Memory) /\ result \in Word \union {NoResult}

\* With a cleared RAM the tree is the root alone, whatever has been swapped out.
LEMMA ClearedLemma ==
  ASSUME NEW m, MemoryTyped(m), m.ram = Cleared
  PROVE  Sound(m) /\ Leaves(m.ram) = {}
<1>1. \A j \in Offset : m.ram[0][j] = 0 BY Widths DEF Cleared
<1>2. Children(m.ram, Root) = {} BY <1>1 DEF Children, Root
<1>3. IsTree(m.ram, {Root})
  <2>1. Root.depth \in 0 .. TABLES_DEPTH /\ Root.path \in Nat BY Widths DEF Root
  <2>2. QED BY <2>1, <1>2 DEF IsTree
<1>4. Nodes(m.ram) = {Root} BY <1>3, TreeIsNodes
<1>5. Leaves(m.ram) = {}
  <2>1. Root.depth # TABLES_DEPTH BY Widths DEF Root
  <2>2. QED BY <2>1, <1>4, TreeFacts
<1>6. Root.frame = 0 /\ 0 \in Frame /\ UsedFrames(m.ram) = {0} /\ 0 .. 0 = {0}
  BY <1>4, Widths DEF Root, UsedFrames
<1>7. QED BY <1>4, <1>5, <1>6 DEF Sound

\* What the translation of a call gives, for a memory that is sound.
LEMMA CallLemma ==
  ASSUME NEW a \in Address, a < VIRTUAL_MEMORY_SIZE, NEW m, Sound(m),
         NEW r, r = extractPhysicalAdd(m, a)
  PROVE  /\ a \in Nat /\ a \div PAGE_SIZE \in Page /\ a % PAGE_SIZE \in Offset
         /\ Walked(m, a, TABLES_DEPTH, r) /\ Sound(r.mem) /\ Keeps(m, r.mem, a \div PAGE_SIZE)
         /\ \E l \in Leaves(r.mem.ram) : l.frame = r.frame /\ l.path = a \div PAGE_SIZE
<1>1. a \in Nat BY WidthAssumption
<1>2. Walked(m, a, TABLES_DEPTH, r) BY <1>1, TranslationLemma
<1>3. /\ a \div PAGE_SIZE \in Page /\ a % PAGE_SIZE \in Offset
      /\ Prefix(a, TABLES_DEPTH) = a \div PAGE_SIZE
  BY <1>1, Addressing
<1>4. /\ Sound(r.mem) /\ Keeps(m, r.mem, a \div PAGE_SIZE)
      /\ \E x \in Nodes(r.mem.ram) : /\ x.frame = r.frame /\ x.depth = TABLES_DEPTH
                                     /\ x.path = Prefix(a, TABLES_DEPTH)
  BY <1>2 DEF Walked
<1>5. \E l \in Leaves(r.mem.ram) : l.frame = r.frame /\ l.path = a \div PAGE_SIZE
  BY <1>3, <1>4, TreeFacts
<1>6. QED BY <1>1, <1>2, <1>3, <1>4, <1>5

\* The memory after a call: that of the translation, with the word in place for a
\* write; the page is in the RAM, and the result is its word.
LEMMA ReadStep ==
  ASSUME NEW a \in Address, Sound(Memory), VMread(a),
         NEW r, r = extractPhysicalAdd(Memory, a)
  PROVE  /\ a < VIRTUAL_MEMORY_SIZE /\ Memory' = r.mem /\ Sound(r.mem)
         /\ \E l \in Leaves(r.mem.ram) : l.frame = r.frame /\ l.path = a \div PAGE_SIZE
         /\ result' = r.mem.ram[r.frame][a % PAGE_SIZE]
<1>1. /\ a < VIRTUAL_MEMORY_SIZE /\ RAM' = r.mem.ram /\ swapFile' = r.mem.swap
      /\ result' = r.mem.ram[r.frame][a % PAGE_SIZE]
  BY DEF VMread, Becomes
<1>2. /\ Sound(r.mem)
      /\ \E l \in Leaves(r.mem.ram) : l.frame = r.frame /\ l.path = a \div PAGE_SIZE
  BY <1>1, CallLemma
<1>3. r.mem = [ram |-> r.mem.ram, swap |-> r.mem.swap] BY <1>2 DEF Sound, MemoryTyped
<1>4. Memory' = r.mem BY <1>1, <1>3 DEF Memory
<1>5. QED BY <1>1, <1>2, <1>4

\* Likewise for a write: the word is in its place, all else is as the translation left it.
LEMMA WriteStep ==
  ASSUME NEW a \in Address, NEW v \in Value, Sound(Memory), VMwrite(a, v),
         NEW r, r = extractPhysicalAdd(Memory, a)
  PROVE  /\ a < VIRTUAL_MEMORY_SIZE /\ Sound(r.mem)
         /\ Memory' = PMwrite(r.mem, r.frame, a % PAGE_SIZE, v)
         /\ \E l \in Leaves(r.mem.ram) : l.frame = r.frame /\ l.path = a \div PAGE_SIZE
         /\ a % PAGE_SIZE \in Offset /\ v \in Word /\ r.frame \in Frame
         /\ Sound(Memory') /\ Nodes(RAM') = Nodes(r.mem.ram)
         /\ Leaves(RAM') = Leaves(r.mem.ram)
         /\ \A q : q # a \div PAGE_SIZE => PageOf(Memory', q) = PageOf(r.mem, q)
         /\ RAM'[r.frame] = [r.mem.ram[r.frame] EXCEPT ![a % PAGE_SIZE] = v]
         /\ result' = v
<1> DEFINE o == a % PAGE_SIZE
           m2 == PMwrite(r.mem, r.frame, o, v)
<1>1. /\ a < VIRTUAL_MEMORY_SIZE /\ RAM' = m2.ram /\ swapFile' = m2.swap /\ result' = v
  BY DEF VMwrite, Becomes
<1>2. Sound(r.mem) /\ o \in Offset BY <1>1, CallLemma
<1>3. PICK l \in Leaves(r.mem.ram) : l.frame = r.frame /\ l.path = a \div PAGE_SIZE
  BY <1>1, CallLemma
<1>4. v \in Word BY DEF Word
<1>5. r.frame \in Frame BY <1>2, <1>3, TreeFacts DEF Sound
<1>6. m2 = PMwrite(r.mem, l.frame, o, v) BY <1>3
<1>7. m2.ram[r.frame] = [r.mem.ram[r.frame] EXCEPT ![o] = v]
  <2>1. MemoryTyped(r.mem) BY <1>2 DEF Sound
  <2> HIDE DEF o
  <2>2. m2 = PMwrite(r.mem, r.frame, o, v) OBVIOUS
  <2> HIDE DEF m2
  <2>3. QED BY <1>5, <2>1, <2>2, WrittenWord
<1> HIDE DEF m2, o
<1>8. /\ Sound(m2) /\ Nodes(m2.ram) = Nodes(r.mem.ram) /\ Leaves(m2.ram) = Leaves(r.mem.ram)
      /\ \A q : q # l.path => PageOf(m2, q) = PageOf(r.mem, q)
  BY <1>2, <1>4, <1>6, WritePageLemma
<1>9. m2 = [ram |-> m2.ram, swap |-> m2.swap] BY <1>8 DEF Sound, MemoryTyped
<1>10. Memory' = m2 BY <1>1, <1>9 DEF Memory
<1>11. QED BY <1>1, <1>2, <1>3, <1>4, <1>5, <1>7, <1>8, <1>10 DEF m2, o

\* VMinitialize takes all pages out of the RAM and leaves the swap file.
LEMMA InitializeStep ==
  ASSUME Sound(Memory), VMinitialize
  PROVE  Sound(Memory') /\ Leaves(RAM') = {} /\ swapFile' = swapFile /\ result' = NoResult
<1>1. RAM' = Cleared /\ swapFile' = swapFile /\ result' = NoResult BY DEF VMinitialize
<1>2. Memory.swap = swapFile /\ Memory' = [ram |-> Cleared, swap |-> swapFile]
  BY <1>1 DEF Memory
<1>3. Cleared \in [Frame -> Content] BY Widths DEF Cleared, Content
<1> DEFINE m2 == [ram |-> Cleared, swap |-> swapFile]
<1>4. m2.ram = Cleared /\ m2.swap = swapFile /\ m2 = [ram |-> m2.ram, swap |-> m2.swap]
  OBVIOUS
<1>5. DOMAIN swapFile \subseteq Page /\ \A p \in DOMAIN swapFile : swapFile[p] \in Content
  BY <1>2 DEF Sound, MemoryTyped
<1> HIDE DEF m2
<1>6. MemoryTyped(m2) BY <1>3, <1>4, <1>5 DEF MemoryTyped
<1>7. Sound(m2) /\ Leaves(m2.ram) = {} BY <1>4, <1>6, ClearedLemma
<1>8. Memory' = m2 BY <1>2 DEF m2
<1>9. QED BY <1>1, <1>4, <1>7, <1>8

\* The invariant: it holds at the start and every call keeps it.
THEOREM PagingInvariant == Spec => []PagingInv
<1>1. Init => PagingInv
  <2> SUFFICES ASSUME Init PROVE PagingInv OBVIOUS
  <2> DEFINE m == [ram |-> Cleared, swap |-> <<>>]
  <2>1. Memory = m /\ result = NoResult BY DEF Init, Memory
  <2>2. m.ram = Cleared /\ m.swap = <<>> /\ m = [ram |-> m.ram, swap |-> m.swap] OBVIOUS
  <2>3. Cleared \in [Frame -> Content] BY Widths DEF Cleared, Content
  <2>4. DOMAIN <<>> = {} OBVIOUS
  <2> HIDE DEF m
  <2>5. MemoryTyped(m) BY <2>2, <2>3, <2>4 DEF MemoryTyped
  <2>6. Sound(m) BY <2>2, <2>5, ClearedLemma
  <2>7. QED BY <2>1, <2>6 DEF PagingInv
<1>2. PagingInv /\ [Next]_vars => PagingInv'
  <2> SUFFICES ASSUME PagingInv, [Next]_vars PROVE PagingInv' OBVIOUS
  <2>1. Sound(Memory) /\ result \in Word \union {NoResult} BY DEF PagingInv
  <2>2. ASSUME NEW a \in Address, VMread(a) PROVE PagingInv'
    <3> DEFINE r == extractPhysicalAdd(Memory, a)
    <3>1. /\ a < VIRTUAL_MEMORY_SIZE /\ Memory' = r.mem /\ Sound(r.mem)
          /\ \E l \in Leaves(r.mem.ram) : l.frame = r.frame /\ l.path = a \div PAGE_SIZE
          /\ result' = r.mem.ram[r.frame][a % PAGE_SIZE]
      BY <2>1, <2>2, ReadStep
    <3>2. a % PAGE_SIZE \in Offset BY <2>1, <3>1, CallLemma
    <3> HIDE DEF r
    <3>3. r.frame \in Frame BY <3>1, TreeFacts DEF Sound
    <3>4. result' \in Word BY <3>1, <3>2, <3>3 DEF Sound, MemoryTyped, Content
    <3>5. QED BY <3>1, <3>4 DEF PagingInv
  <2>3. ASSUME NEW a \in Address, NEW v \in Value, VMwrite(a, v) PROVE PagingInv'
    <3>1. Sound(Memory') /\ result' = v /\ v \in Word BY <2>1, <2>3, WriteStep
    <3>2. QED BY <3>1 DEF PagingInv
  <2>4. ASSUME NEW a \in Address, Refuse(a) PROVE PagingInv'
    <3>1. Memory' = Memory /\ result' = NoResult BY <2>4 DEF Refuse, Memory
    <3>2. QED BY <2>1, <3>1 DEF PagingInv
  <2>5. ASSUME VMinitialize PROVE PagingInv'
    <3>1. Sound(Memory') /\ result' = NoResult BY <2>1, <2>5, InitializeStep
    <3>2. QED BY <3>1 DEF PagingInv
  <2>6. CASE UNCHANGED vars
    <3>1. Memory' = Memory /\ result' = result BY <2>6 DEF vars, Memory
    <3>2. QED BY <2>1, <3>1 DEF PagingInv
  <2>7. QED BY <2>2, <2>3, <2>4, <2>5, <2>6 DEF Next
<1>3. QED BY <1>1, <1>2, PTL DEF Spec

\* Types: every word of the RAM and of the swap file is one that was written or a frame.
THEOREM WordsTyped == Spec => []TypeOK
<1>1. PagingInv => TypeOK
  <2>1. Memory.ram = RAM /\ Memory.swap = swapFile BY DEF Memory
  <2>2. QED BY <2>1 DEF PagingInv, Sound, MemoryTyped, Content, TypeOK
<1>2. QED BY <1>1, PagingInvariant, PTL

\* The frames in use are one for each node of the tree, and the lowest of the RAM.
THEOREM FramesOfTheTree == Spec => []FramesExact
<1>1. PagingInv => FramesExact
  <2> SUFFICES ASSUME PagingInv PROVE FramesExact OBVIOUS
  <2> DEFINE N == Nodes(RAM)
             U == UsedFrames(RAM)
             frameOf == [n \in N |-> n.frame]
  <2>1. Memory.ram = RAM BY DEF Memory
  <2>2. /\ \A n \in N : n.frame \in Frame
        /\ \A n, o \in N : n.frame = o.frame => n = o
        /\ \A n \in N : 0 .. n.frame \subseteq U
    BY <2>1 DEF PagingInv, Sound
  <2>3. U = {n.frame : n \in N} BY DEF UsedFrames
  <2> HIDE DEF N, U
  <2>4. frameOf \in Injection(N, U) BY <2>2, <2>3 DEF Injection, IsInjective
  <2>5. frameOf \in Surjection(N, U) BY <2>3 DEF Surjection
  <2>6. IsFiniteSet(U)
    <3>1. NUM_FRAMES - 1 \in Int BY Widths
    <3>2. IsFiniteSet(Frame) BY <3>1, FS_Interval DEF Frame
    <3>3. U \subseteq Frame BY <2>2, <2>3
    <3>4. QED BY <3>2, <3>3, FS_Subset
  <2> HIDE DEF frameOf
  <2>7. Cardinality(N) = Cardinality(U) BY <2>4, <2>5, <2>6, FS_Injection
  <2>8. \A f \in U : 0 .. f \subseteq U BY <2>2, <2>3
  <2>9. QED BY <2>7, <2>8 DEF FramesExact, N, U, UsedFrames
<1>2. QED BY <1>1, PagingInvariant, PTL

\* No page is in the RAM and in the swap file: what PMevict asserts always holds.
THEOREM PagesInOnePlace == Spec => []PageInOnePlace
<1>1. PagingInv => PageInOnePlace
  <2>1. Memory.ram = RAM /\ Memory.swap = swapFile BY DEF Memory
  <2>2. QED BY <2>1 DEF PagingInv, Sound, PageInOnePlace
<1>2. QED BY <1>1, PagingInvariant, PTL

-----------------------------------------------------------------------------
(* Eviction.                                                               *)

\* A page that a call puts out of the RAM leaves it full, and is one of the farthest.
LEMMA LeavingLemma ==
  ASSUME Sound(Memory), NEW a \in Address, VMread(a) \/ \E v \in Value : VMwrite(a, v),
         NEW p \in Resident, p \notin Resident'
  PROVE  /\ UsedFrames(RAM') = Frame
         /\ \A q \in Resident \intersect Resident' :
              Around(a \div PAGE_SIZE, q) <= Around(a \div PAGE_SIZE, p)
<1> DEFINE m == Memory
           r == extractPhysicalAdd(m, a)
           page == a \div PAGE_SIZE
<1>1. /\ a < VIRTUAL_MEMORY_SIZE
      /\ Nodes(RAM') = Nodes(r.mem.ram) /\ Leaves(RAM') = Leaves(r.mem.ram)
  <2>1. CASE VMread(a)
    <3>1. a < VIRTUAL_MEMORY_SIZE /\ Memory' = r.mem BY <2>1, ReadStep
    <3>2. RAM' = r.mem.ram BY <3>1 DEF Memory
    <3>3. QED BY <3>1, <3>2
  <2>2. CASE \E v \in Value : VMwrite(a, v)
    <3>1. PICK v \in Value : VMwrite(a, v) BY <2>2
    <3>2. QED BY <3>1, WriteStep
  <2>3. QED BY <2>1, <2>2
<1>2. a \in Nat /\ page \in Page /\ Walked(m, a, TABLES_DEPTH, r) BY <1>1, CallLemma
<1>3. \A x \in ResidentIn(m) \ ResidentIn(r.mem) :
        /\ UsedFrames(r.mem.ram) = Frame
        /\ \A q \in ResidentIn(m) \intersect ResidentIn(r.mem) :
             CyclicDistance(page, q) <= CyclicDistance(page, x)
  BY <1>2 DEF Walked
<1>4. /\ Resident = ResidentIn(m) /\ Resident' = ResidentIn(r.mem)
      /\ UsedFrames(RAM') = UsedFrames(r.mem.ram)
  BY <1>1 DEF Resident, ResidentIn, UsedFrames, Memory
<1>5. Resident \subseteq Page
  <2>1. \A n \in Leaves(Memory.ram) : n.path \in Page BY DEF Sound
  <2>2. QED BY <2>1, <1>4 DEF ResidentIn
<1> HIDE DEF m, r, page
<1>6. \A q \in Resident : Around(page, q) = CyclicDistance(page, q)
  BY <1>2, <1>5, AroundLemma
<1>7. QED BY <1>3, <1>4, <1>6 DEF page

\* A page leaves the RAM only for want of a frame, and as one of the farthest.
THEOREM FarthestLeaves == Spec => EvictsFarthest
<1> DEFINE Leaving == \A p \in Evicted :
      /\ {n.frame : n \in Nodes(RAM)}' = Frame
      /\ \A a \in Address : (VMread(a) \/ \E v \in Value : VMwrite(a, v)) =>
           \A q \in Resident \intersect Resident' :
             Around(a \div PAGE_SIZE, q) <= Around(a \div PAGE_SIZE, p)
<1>1. PagingInv /\ [Next]_vars => [Leaving]_vars
  <2> SUFFICES ASSUME PagingInv, Next, NEW p \in Evicted
               PROVE  /\ {n.frame : n \in Nodes(RAM)}' = Frame
                      /\ \A a \in Address : (VMread(a) \/ \E v \in Value : VMwrite(a, v)) =>
                           \A q \in Resident \intersect Resident' :
                             Around(a \div PAGE_SIZE, q) <= Around(a \div PAGE_SIZE, p)
    OBVIOUS
  <2>1. Sound(Memory) BY DEF PagingInv
  <2>2. p \in Resident /\ p \notin Resident' /\ p \in DOMAIN swapFile' BY DEF Evicted
  <2>3. ASSUME NEW a \in Address, VMread(a) \/ \E v \in Value : VMwrite(a, v)
        PROVE  /\ UsedFrames(RAM') = Frame
               /\ \A q \in Resident \intersect Resident' :
                    Around(a \div PAGE_SIZE, q) <= Around(a \div PAGE_SIZE, p)
    BY <2>1, <2>2, <2>3, LeavingLemma
  <2>4. UsedFrames(RAM') = Frame
    <3>1. CASE \E a \in Address : VMread(a) \/ \E v \in Value : VMwrite(a, v)
      BY <3>1, <2>3
    <3>2. ASSUME NEW a \in Address, Refuse(a) PROVE FALSE
      <4>1. RAM' = RAM BY <3>2 DEF Refuse
      <4>2. Resident' = Resident BY <4>1 DEF Resident
      <4>3. QED BY <4>2, <2>2
    <3>3. ASSUME VMinitialize PROVE FALSE
      <4>1. swapFile' = swapFile BY <3>3 DEF VMinitialize
      <4>2. PICK n \in Leaves(RAM) : n.path = p BY <2>2 DEF Resident
      <4>3. p \notin DOMAIN swapFile BY <4>2, <2>1 DEF Sound, Memory
      <4>4. QED BY <4>1, <4>3, <2>2
    <3>4. QED BY <3>1, <3>2, <3>3 DEF Next
  <2>5. UsedFrames(RAM') = {n.frame : n \in Nodes(RAM)}' BY DEF UsedFrames
  <2>6. QED BY <2>3, <2>4, <2>5
<1>2. QED BY <1>1, PagingInvariant, PTL DEF Spec, EvictsFarthest

-----------------------------------------------------------------------------
(* The flat memory of the header.                                          *)

\* The pages of the refinement mapping are what the callers see of the memory.
LEMMA PagesLemma ==
  /\ \A p \in Page : Pages[p] = PageOf(Memory, p) /\ Pages'[p] = PageOf(Memory', p)
  /\ Pages = [p \in Page |-> PageOf(Memory, p)]
<1>1. Memory.ram = RAM /\ Memory.swap = swapFile BY DEF Memory
<1>2. Memory'.ram = RAM' /\ Memory'.swap = swapFile' BY DEF Memory
<1>3. Pages = [p \in Page |-> PageOf(Memory, p)] BY <1>1 DEF Pages, PageOf
<1>4. Pages' = [p \in Page |-> PageOf(Memory', p)] BY <1>2 DEF Pages, PageOf
<1>5. QED BY <1>3, <1>4

\* The content of a page in the RAM is that of its frame.
LEMMA PageInFrame ==
  ASSUME NEW m, Sound(m), NEW l \in Leaves(m.ram)
  PROVE  PageOf(m, l.path) = m.ram[l.frame] /\ m.ram[l.frame] \in Content
<1>1. Holds(m, l.path, m.ram[l.frame]) BY DEF Holds
<1>2. QED BY <1>1, ContentLemma

\* A VMread of a valid address is a Read of its page and offset.
LEMMA ReadRefines ==
  ASSUME Sound(Memory), NEW a \in Address, VMread(a)
  PROVE  /\ a \div PAGE_SIZE \in Page /\ a % PAGE_SIZE \in Offset
         /\ Flat!Read(a \div PAGE_SIZE, a % PAGE_SIZE)
<1> DEFINE r == extractPhysicalAdd(Memory, a)
           m == r.mem
           p == a \div PAGE_SIZE
           o == a % PAGE_SIZE
<1>1. /\ a < VIRTUAL_MEMORY_SIZE /\ Memory' = m /\ Sound(m)
      /\ \E l \in Leaves(m.ram) : l.frame = r.frame /\ l.path = p
      /\ result' = m.ram[r.frame][o]
  BY ReadStep
<1>2. p \in Page /\ o \in Offset /\ Keeps(Memory, m, p) BY <1>1, CallLemma
<1> HIDE DEF r, m, p, o
<1>3. PICK l \in Leaves(m.ram) : l.frame = r.frame /\ l.path = p BY <1>1
<1>4. PageOf(m, p) = m.ram[r.frame] /\ PageOf(m, p) \in Content BY <1>1, <1>3, PageInFrame
<1>5. /\ \A q : q # p => PageOf(m, q) = PageOf(Memory, q)
      /\ PageOf(Memory, p) # Unused => PageOf(m, p) = PageOf(Memory, p)
  BY <1>1, <1>2, KeepsLemma
<1>6. \A q \in Page : Pages[q] = PageOf(Memory, q) /\ Pages'[q] = PageOf(m, q)
  BY <1>1, PagesLemma
<1>7. Flat!Touch(p) BY <1>2, <1>4, <1>5, <1>6 DEF Flat!Touch, Flat!Content, Content
<1>8. result' = Pages'[p][o] BY <1>1, <1>2, <1>4, <1>6
<1>9. Pages[p] # Unused => Pages'[p] = Pages[p] BY <1>2, <1>5, <1>6
<1>10. Flat!Read(p, o) BY <1>7, <1>8, <1>9 DEF Flat!Read
<1>11. QED BY <1>2, <1>10 DEF p, o

\* A VMwrite is a Write: the page keeps all words but the one written.
LEMMA WriteRefines ==
  ASSUME Sound(Memory), NEW a \in Address, NEW v \in Value, VMwrite(a, v)
  PROVE  /\ a \div PAGE_SIZE \in Page /\ a % PAGE_SIZE \in Offset
         /\ Flat!Write(a \div PAGE_SIZE, a % PAGE_SIZE)
<1> DEFINE r == extractPhysicalAdd(Memory, a)
           m == r.mem
           m2 == Memory'
           p == a \div PAGE_SIZE
           o == a % PAGE_SIZE
<1>1. /\ a < VIRTUAL_MEMORY_SIZE /\ Sound(m)
      /\ \E l \in Leaves(m.ram) : l.frame = r.frame /\ l.path = p
      /\ Sound(m2) /\ Leaves(RAM') = Leaves(m.ram)
      /\ \A q : q # p => PageOf(m2, q) = PageOf(m, q)
      /\ RAM'[r.frame] = [m.ram[r.frame] EXCEPT ![o] = v]
      /\ result' = v
  BY WriteStep
<1>2. p \in Page /\ o \in Offset /\ Keeps(Memory, m, p) BY <1>1, CallLemma
<1>3. m2.ram = RAM' BY DEF Memory
<1>4. \A q \in Page : Pages[q] = PageOf(Memory, q) /\ Pages'[q] = PageOf(m2, q)
  BY PagesLemma
<1> HIDE DEF r, m, m2, p, o
<1>5. PICK l \in Leaves(m.ram) : l.frame = r.frame /\ l.path = p BY <1>1
<1>6. PageOf(m, p) = m.ram[r.frame] /\ PageOf(m, p) \in Content BY <1>1, <1>5, PageInFrame
<1>7. PageOf(m2, p) = m2.ram[r.frame] /\ PageOf(m2, p) \in Content
  BY <1>1, <1>3, <1>5, PageInFrame
<1>8. /\ \A q : q # p => PageOf(m, q) = PageOf(Memory, q)
      /\ PageOf(Memory, p) # Unused => PageOf(m, p) = PageOf(Memory, p)
  BY <1>1, <1>2, KeepsLemma
<1>9. PageOf(m2, p) = [PageOf(m, p) EXCEPT ![o] = v] BY <1>1, <1>3, <1>6, <1>7
<1>10. PageOf(m2, p)[o] = v BY <1>2, <1>6, <1>9 DEF Content
<1>11. Flat!Touch(p)
  <2>1. Pages'[p] \in [Offset -> Word] BY <1>2, <1>4, <1>7 DEF Content
  <2>2. \A q \in Page \ {p} : Pages'[q] = Pages[q] BY <1>1, <1>4, <1>8
  <2>3. QED BY <2>1, <2>2 DEF Flat!Touch, Flat!Content
<1>12. result' = Pages'[p][o] BY <1>1, <1>2, <1>4, <1>10
<1>13. Pages[p] # Unused => Pages'[p] = [Pages[p] EXCEPT ![o] = result']
  BY <1>1, <1>2, <1>4, <1>8, <1>9
<1>14. Flat!Write(p, o) BY <1>11, <1>12, <1>13 DEF Flat!Write
<1>15. QED BY <1>2, <1>14 DEF p, o

\* VMinitialize forgets the pages in the RAM and no others.
LEMMA InitializeRefines ==
  ASSUME Sound(Memory), VMinitialize
  PROVE  Flat!Forget
<1>1. Leaves(RAM') = {} /\ swapFile' = swapFile /\ result' = NoResult BY InitializeStep
<1>2. Memory.swap = swapFile /\ Memory'.swap = swapFile' /\ Memory'.ram = RAM'
  BY DEF Memory
<1>3. ASSUME NEW p \in Page PROVE Pages'[p] \in {Pages[p], Unused}
  <2>1. Pages[p] = PageOf(Memory, p) /\ Pages'[p] = PageOf(Memory', p) BY PagesLemma
  <2>2. PageOf(Memory', p) = IF p \in DOMAIN swapFile THEN swapFile[p] ELSE Unused
    BY <1>1, <1>2 DEF PageOf
  <2>3. CASE p \in DOMAIN swapFile
    <3>1. Holds(Memory, p, swapFile[p]) BY <1>2, <2>3 DEF Holds
    <3>2. PageOf(Memory, p) = swapFile[p] BY <3>1, ContentLemma
    <3>3. QED BY <2>1, <2>2, <2>3, <3>2
  <2>4. CASE p \notin DOMAIN swapFile BY <2>1, <2>2, <2>4
  <2>5. QED BY <2>3, <2>4
<1>4. QED BY <1>1, <1>3 DEF Flat!Forget

\* The library is the flat memory that its header promises: a call touches one page,
\* a read gives what was last written, wherever the page has been in between.
THEOREM MemoryIsFlat == Spec => KeepsFlatMemory
<1>1. Init => Flat!Init
  <2> SUFFICES ASSUME Init PROVE Flat!Init OBVIOUS
  <2> DEFINE m == [ram |-> Cleared, swap |-> <<>>]
  <2>1. Memory = m /\ result = NoResult BY DEF Init, Memory
  <2>2. m.ram = Cleared /\ m.swap = <<>> /\ m = [ram |-> m.ram, swap |-> m.swap] OBVIOUS
  <2>3. Cleared \in [Frame -> Content] BY Widths DEF Cleared, Content
  <2>4. DOMAIN <<>> = {} OBVIOUS
  <2> HIDE DEF m
  <2>5. MemoryTyped(m) BY <2>2, <2>3, <2>4 DEF MemoryTyped
  <2>6. Leaves(m.ram) = {} BY <2>2, <2>5, ClearedLemma
  <2>7. \A p : PageOf(m, p) = Unused BY <2>2, <2>4, <2>6 DEF PageOf
  <2>8. Pages = [p \in Page |-> Unused] BY <2>1, <2>7, PagesLemma
  <2>9. QED BY <2>1, <2>8 DEF Flat!Init
<1>2. PagingInv /\ [Next]_vars => [Flat!Next]_<<Pages, result>>
  <2> SUFFICES ASSUME PagingInv, [Next]_vars PROVE [Flat!Next]_<<Pages, result>> OBVIOUS
  <2>1. Sound(Memory) BY DEF PagingInv
  <2>2. ASSUME NEW a \in Address, VMread(a) PROVE Flat!Next
    BY <2>1, <2>2, ReadRefines DEF Flat!Next
  <2>3. ASSUME NEW a \in Address, NEW v \in Value, VMwrite(a, v) PROVE Flat!Next
    BY <2>1, <2>3, WriteRefines DEF Flat!Next
  <2>4. ASSUME NEW a \in Address, Refuse(a) PROVE Flat!Next
    <3>1. RAM' = RAM /\ swapFile' = swapFile /\ result' = NoResult BY <2>4 DEF Refuse
    <3>2. Pages' = Pages BY <3>1 DEF Pages
    <3>3. QED BY <3>1, <3>2 DEF Flat!Next, Flat!Refuse
  <2>5. ASSUME VMinitialize PROVE Flat!Next
    BY <2>1, <2>5, InitializeRefines DEF Flat!Next
  <2>6. CASE UNCHANGED vars
    <3>1. RAM' = RAM /\ swapFile' = swapFile /\ result' = result BY <2>6 DEF vars
    <3>2. Pages' = Pages BY <3>1 DEF Pages
    <3>3. QED BY <3>1, <3>2
  <2>7. QED BY <2>2, <2>3, <2>4, <2>5, <2>6 DEF Next
<1>3. QED BY <1>1, <1>2, PagingInvariant, PTL DEF Spec, KeepsFlatMemory, Flat!Spec

=============================================================================
