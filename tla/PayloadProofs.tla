--------------------------- MODULE PayloadProofs ---------------------------
(***************************************************************************)
(* Proofs about tuner ids and about the sizes of payloads, for every       *)
(* number and every length.  Both are computed by recursion.  The library  *)
(* states induction for operators; here it is stated for sets and          *)
(* functions, and comes from the well-ordering of the natural numbers.     *)
(***************************************************************************)
EXTENDS TunerId, DtvPdu, SequenceTheorems, WellFoundedInduction, TLAPS

-----------------------------------------------------------------------------
(* Induction and recursion.                                                *)

LEMMA LeastNumber ==
  ASSUME NEW S \in SUBSET Nat, S # {}
  PROVE  \E n \in S : \A m \in S : n <= m
<1>1. PICK n \in S : \A m \in S : <<m, n>> \notin OpToRel(<, Nat)
  BY NatLessThanWellFounded, WFMin
<1>2. \A m \in S : ~(m < n)
  <2> TAKE m \in S
  <2>1. <<m, n>> \in Nat \X Nat /\ <<m, n>>[1] = m /\ <<m, n>>[2] = n
    OBVIOUS
  <2> QED BY <1>1, <2>1 DEF OpToRel
<1> QED BY <1>2

(* Each number is in S if it is when all smaller ones are. *)
LEMMA Induction ==
  ASSUME NEW S, \A n \in Nat : (\A m \in Nat : m < n => m \in S) => n \in S
  PROVE  Nat \subseteq S
<1> SUFFICES ASSUME Nat \ S # {} PROVE FALSE
  OBVIOUS
<1>1. PICK n \in Nat \ S : \A m \in Nat \ S : n <= m
  BY LeastNumber
<1> QED BY <1>1

LEMMA InductionUpto ==
  ASSUME NEW S, NEW l \in Nat, 0 \in S, \A n \in 1..l : n - 1 \in S => n \in S
  PROVE  0..l \subseteq S
<1> DEFINE T == {n \in Nat : n <= l => n \in S}
<1>1. ASSUME NEW n \in Nat, \A m \in Nat : m < n => m \in T
      PROVE  n \in T
  <2> SUFFICES ASSUME n <= l, n # 0 PROVE n \in S
    OBVIOUS
  <2>1. n \in 1..l /\ n - 1 \in Nat /\ n - 1 < n /\ n - 1 <= l
    OBVIOUS
  <2> QED BY <1>1, <2>1
<1> HIDE DEF T
<1>2. Nat \subseteq T
  BY <1>1, Induction
<1> QED BY <1>2 DEF T

(* Two functions are the same up to l if no step tells them apart. *)
NoStepDiffers(f, g, l) ==
  f[0] = g[0] /\ \A n \in 1..l : f[n - 1] = g[n - 1] => f[n] = g[n]

LEMMA SameUpto ==
  ASSUME NEW l \in Nat, NEW f, NEW g, NoStepDiffers(f, g, l)
  PROVE  \A n \in 0..l : f[n] = g[n]
<1> DEFINE Same == {n \in 0..l : f[n] = g[n]}
<1>1. 0 \in Same /\ \A n \in 1..l : n - 1 \in Same => n \in Same
  <2>1. 0 \in 0..l /\ \A n \in 1..l : n \in 0..l
    OBVIOUS
  <2> QED BY <2>1 DEF NoStepDiffers
<1> HIDE DEF Same
<1>2. 0..l \subseteq Same
  BY <1>1, InductionUpto
<1> QED BY <1>2 DEF Same

(* f follows the recursion up to k: its value at n in Step is made by h    *)
(* from the one at a smaller number p[n], the others are those of base.    *)
IsRecursion(V, Step, p, base, h) ==
  /\ p \in [Nat -> Nat] /\ \A n \in Step \intersect Nat : p[n] < n
  /\ base \in [Nat -> V] /\ h \in [V \X Nat -> V]

Follows(f, k, Step, p, base, h) ==
  \A n \in 0..k : f[n] = IF n \in Step THEN h[<<f[p[n]], n>>] ELSE base[n]

LEMMA RecursionUnique ==
  ASSUME NEW Step, NEW p \in [Nat -> Nat], \A n \in Step \intersect Nat : p[n] < n,
         NEW base, NEW h, NEW k \in Nat, NEW l \in Nat, k <= l, NEW f, NEW g,
         Follows(f, k, Step, p, base, h), Follows(g, l, Step, p, base, h)
  PROVE  \A n \in 0..k : f[n] = g[n]
<1> DEFINE Same == {n \in Nat : n <= k => f[n] = g[n]}
<1>1. ASSUME NEW n \in Nat, \A m \in Nat : m < n => m \in Same
      PROVE  n \in Same
  <2> SUFFICES ASSUME n <= k PROVE f[n] = g[n]
    OBVIOUS
  <2>1. n \in 0..k /\ n \in 0..l
    OBVIOUS
  <2>2. CASE n \in Step
    <3>1. p[n] \in Nat /\ p[n] < n
      BY <2>2
    <3>2. p[n] <= k
      BY <3>1
    <3>3. f[p[n]] = g[p[n]]
      BY <1>1, <3>1, <3>2
    <3> QED BY <2>1, <2>2, <3>3 DEF Follows
  <2>3. CASE n \notin Step
    BY <2>1, <2>3 DEF Follows
  <2> QED BY <2>2, <2>3
<1> HIDE DEF Same
<1>2. Nat \subseteq Same
  BY <1>1, Induction
<1> QED BY <1>2 DEF Same

LEMMA Recursion ==
  ASSUME NEW V, NEW Step, NEW p, NEW base, NEW h, IsRecursion(V, Step, p, base, h)
  PROVE  \E f \in [Nat -> V] : \A k \in Nat : Follows(f, k, Step, p, base, h)
<1> USE DEF IsRecursion
<1>0. ASSUME NEW k \in Nat, NEW l \in Nat, k <= l, NEW f, NEW g,
             Follows(f, k, Step, p, base, h), Follows(g, l, Step, p, base, h)
      PROVE  \A n \in 0..k : f[n] = g[n]
  BY <1>0, RecursionUnique
<1> DEFINE Part(k, f) == f \in [0..k -> V] /\ Follows(f, k, Step, p, base, h)
           Defined == {k \in Nat : \E f : Part(k, f)}
<1>1. ASSUME NEW k \in Nat, \A m \in Nat : m < k => m \in Defined
      PROVE  k \in Defined
  <2>1. \E g : k # 0 => Part(k - 1, g)
    <3>1. CASE k # 0
      <4>1. k - 1 \in Nat /\ k - 1 < k
        BY <3>1
      <4>2. k - 1 \in Defined
        <5> HIDE DEF Defined
        <5> QED BY <1>1, <4>1
      <4> QED BY <4>2
    <3> QED BY <3>1
  <2>2. PICK g : k # 0 => Part(k - 1, g)
    BY <2>1
  <2> DEFINE last == IF k \in Step THEN h[<<g[p[k]], k>>] ELSE base[k]
             f == [n \in 0..k |-> IF n = k THEN last ELSE g[n]]
  <2>3. ASSUME NEW n \in 0..k, n \in Step
        PROVE  p[n] \in 0..k /\ p[n] # k /\ p[n] \in 0..k-1
    <3>1. n \in Nat /\ p[n] \in Nat /\ p[n] < n
      BY <2>3
    <3> QED BY <3>1
  <2>4. \A n \in 0..k : n # k => k # 0 /\ n \in 0..k-1
    OBVIOUS
  <2>5. last \in V
    <3>1. CASE k \in Step
      <4>1. p[k] \in 0..k-1 /\ k # 0
        BY <2>3, <3>1
      <4>2. g[p[k]] \in V
        BY <2>2, <4>1
      <4>3. <<g[p[k]], k>> \in V \X Nat
        BY <4>2
      <4> QED BY <3>1, <4>3
    <3>2. CASE k \notin Step
      BY <3>2
    <3> QED BY <3>1, <3>2
  <2>6. f \in [0..k -> V]
    <3> HIDE DEF last
    <3> QED BY <2>2, <2>4, <2>5
  <2>7. ASSUME NEW n \in 0..k
        PROVE  f[n] = IF n \in Step THEN h[<<f[p[n]], n>>] ELSE base[n]
    <3>1. n \in Step => f[p[n]] = g[p[n]]
      <4> HIDE DEF last
      <4> QED BY <2>3
    <3>2. CASE n = k
      <4>1. f[n] = last
        BY <3>2
      <4> HIDE DEF f
      <4> QED BY <3>1, <3>2, <4>1
    <3>3. CASE n # k
      <4>1. f[n] = g[n] /\ n \in 0..k-1 /\ k # 0
        BY <2>4, <3>3
      <4>2. g[n] = IF n \in Step THEN h[<<g[p[n]], n>>] ELSE base[n]
        BY <2>2, <4>1 DEF Follows
      <4> HIDE DEF f
      <4> QED BY <3>1, <4>1, <4>2
    <3> QED BY <3>2, <3>3
  <2> HIDE DEF f
  <2> QED BY <2>6, <2>7 DEF Follows
<1>2. Nat \subseteq Defined
  <2> HIDE DEF Defined
  <2> QED BY <1>1, Induction
<1> DEFINE part == [k \in Nat |-> CHOOSE f : Part(k, f)]
           whole == [n \in Nat |-> part[n][n]]
<1>3. \A k \in Nat : Part(k, part[k])
  BY <1>2
<1> HIDE DEF part
<1>4. whole \in [Nat -> V]
  <2>1. \A n \in Nat : part[n] \in [0..n -> V] /\ n \in 0..n
    BY <1>3
  <2> QED BY <2>1
<1>5. ASSUME NEW n \in Nat
      PROVE  whole[n] = IF n \in Step THEN h[<<whole[p[n]], n>>] ELSE base[n]
  <2>1. part[n][n] = IF n \in Step THEN h[<<part[n][p[n]], n>>] ELSE base[n]
    BY <1>3 DEF Follows
  <2>2. ASSUME n \in Step
        PROVE  part[n][p[n]] = part[p[n]][p[n]]
    <3>1. p[n] \in Nat /\ p[n] <= n
      BY <2>2
    <3>2. /\ Follows(part[p[n]], p[n], Step, p, base, h)
          /\ Follows(part[n], n, Step, p, base, h)
      BY <1>3, <3>1
    <3>3. \A m \in 0..p[n] : part[p[n]][m] = part[n][m]
      <4> DEFINE k == p[n]
      <4> HIDE DEF k
      <4>1. \A m \in 0..k : part[k][m] = part[n][m]
        <5>1. k \in Nat /\ k <= n
          BY <3>1 DEF k
        <5>2. Follows(part[k], k, Step, p, base, h)
          BY <3>2 DEF k
        <5> QED BY <3>2, <5>1, <5>2, <1>0
      <4> QED BY <4>1 DEF k
    <3> QED BY <3>1, <3>3
  <2>3. whole[n] = part[n][n] /\ (n \in Step => whole[p[n]] = part[p[n]][p[n]])
    OBVIOUS
  <2> HIDE DEF whole
  <2> QED BY <2>1, <2>2, <2>3
<1> HIDE DEF whole
<1> QED BY <1>4, <1>5 DEF Follows

(* Recursion along a sequence: from c, and at each index from the value    *)
(* before.                                                                 *)
Along(f, l, c, h) == f = [n \in 0..l |-> IF n = 0 THEN c ELSE h[<<f[n - 1], n>>]]

LEMMA SequenceRecursion ==
  ASSUME NEW V, NEW c \in V, NEW l \in Nat, NEW h \in [V \X Nat -> V]
  PROVE  \E f \in [0..l -> V] : Along(f, l, c, h)
<1> DEFINE Step == Nat \ {0}
           p == [n \in Nat |-> IF n = 0 THEN 0 ELSE n - 1]
           base == [n \in Nat |-> c]
<1>1. IsRecursion(V, Step, p, base, h)
  BY DEF IsRecursion
<1>2. \A n \in Nat : n \in Step <=> n # 0
  OBVIOUS
<1>3. \A n \in Nat : base[n] = c /\ (n # 0 => p[n] = n - 1)
  OBVIOUS
<1> HIDE DEF Step, p, base
<1>4. PICK f \in [Nat -> V] :
        \A n \in Nat : f[n] = IF n \in Step THEN h[<<f[p[n]], n>>] ELSE base[n]
  BY <1>1, Recursion DEF Follows
<1> DEFINE g == [n \in 0..l |-> f[n]]
<1>5. g \in [0..l -> V]
  OBVIOUS
<1>6. ASSUME NEW n \in 0..l
      PROVE  g[n] = IF n = 0 THEN c ELSE h[<<g[n - 1], n>>]
  <2>1. f[n] = IF n = 0 THEN c ELSE h[<<f[n - 1], n>>]
    <3>1. n \in Nat
      OBVIOUS
    <3> QED BY <1>2, <1>3, <1>4, <3>1
  <2>2. n # 0 => n - 1 \in 0..l
    OBVIOUS
  <2> QED BY <2>1, <2>2
<1>7. g = [n \in 0..l |-> IF n = 0 THEN c ELSE h[<<g[n - 1], n>>]]
  <2> HIDE DEF g
  <2> QED BY <1>5, <1>6
<1> HIDE DEF g
<1> QED BY <1>5, <1>7 DEF Along
-----------------------------------------------------------------------------
(* Tuner ids.                                                              *)

LEMMA DivisionByTen ==
  ASSUME NEW n \in Nat
  PROVE  /\ n \div 10 \in Nat /\ n % 10 \in 0..9
         /\ n = (n \div 10) * 10 + (n % 10)
         /\ n > 9 => n \div 10 < n
OBVIOUS

(* The loop of get_int_length stops at 10 already.                         *)
LEMMA LengthEquation ==
  /\ get_int_length \in [Nat -> Nat]
  /\ \A n \in Nat : get_int_length[n] =
       IF n > 10 THEN 1 + get_int_length[n \div 10] ELSE 1
<1> DEFINE Step == {n \in Nat : n > 10}
           p == [n \in Nat |-> n \div 10]
           base == [n \in Nat |-> 1]
           h == [vn \in Nat \X Nat |-> 1 + vn[1]]
<1>1. IsRecursion(Nat, Step, p, base, h)
  BY DivisionByTen DEF IsRecursion
<1>2. \A n \in Nat : (n \in Step <=> n > 10) /\ base[n] = 1 /\ p[n] = n \div 10 /\ p[n] \in Nat
  BY DivisionByTen
<1>3. \A v, n \in Nat : h[<<v, n>>] = 1 + v
  OBVIOUS
<1> HIDE DEF Step, p, base, h
<1>4. PICK f \in [Nat -> Nat] :
        \A n \in Nat : f[n] = IF n \in Step THEN h[<<f[p[n]], n>>] ELSE base[n]
  BY <1>1, Recursion DEF Follows
<1>5. \A n \in Nat : f[n] = IF n > 10 THEN 1 + f[n \div 10] ELSE 1
  <2> TAKE n \in Nat
  <2>1. f[n] = IF n \in Step THEN h[<<f[p[n]], n>>] ELSE base[n]
    BY <1>4
  <2> QED BY <1>2, <1>3, <2>1
<1>6. f = [n \in Nat |-> IF n > 10 THEN 1 + f[n \div 10] ELSE 1]
  BY <1>5
<1>7. get_int_length = [n \in Nat |-> IF n > 10 THEN 1 + get_int_length[n \div 10] ELSE 1]
  BY <1>6 DEF get_int_length
<1>8. get_int_length \in [Nat -> Nat]
  <2> DEFINE Typed == {n \in Nat : get_int_length[n] \in Nat}
  <2>1. ASSUME NEW n \in Nat, \A m \in Nat : m < n => m \in Typed
        PROVE  n \in Typed
    <3>1. n > 10 => n \div 10 \in Typed
      BY <2>1, DivisionByTen
    <3> QED BY <1>7, <3>1
  <2> HIDE DEF Typed
  <2>2. Nat \subseteq Typed
    BY <2>1, Induction
  <2> QED BY <1>7, <2>2 DEF Typed
<1> QED BY <1>7, <1>8

LEMMA AppendDigit ==
  ASSUME NEW s \in Seq(0..9), NEW c \in 0..9
  PROVE  Append(s, c) \in Seq(0..9)
OBVIOUS

LEMMA DecimalEquation ==
  /\ Decimal \in [Nat -> Seq(0..9)]
  /\ \A n \in Nat : Decimal[n] =
       IF n < 10 THEN <<n>> ELSE Append(Decimal[n \div 10], n % 10)
<1> DEFINE Step == {n \in Nat : n > 9}
           p == [n \in Nat |-> n \div 10]
           base == [n \in Nat |-> IF n < 10 THEN <<n>> ELSE <<>>]
           h == [vn \in Seq(0..9) \X Nat |-> Append(vn[1], vn[2] % 10)]
<1>1. IsRecursion(Seq(0..9), Step, p, base, h)
  <2>1. p \in [Nat -> Nat] /\ \A n \in Step \intersect Nat : p[n] < n
    BY DivisionByTen
  <2>2. base \in [Nat -> Seq(0..9)]
    <3> SUFFICES ASSUME NEW n \in Nat
                 PROVE  (IF n < 10 THEN <<n>> ELSE <<>>) \in Seq(0..9)
      OBVIOUS
    <3>1. n < 10 => <<n>> \in Seq(0..9)
      OBVIOUS
    <3>2. <<>> \in Seq(0..9)
      OBVIOUS
    <3> QED BY <3>1, <3>2
  <2>3. h \in [Seq(0..9) \X Nat -> Seq(0..9)]
    BY DivisionByTen
  <2> QED BY <2>1, <2>2, <2>3 DEF IsRecursion
<1>2. \A n \in Nat : (n \in Step <=> ~(n < 10)) /\ p[n] = n \div 10 /\ p[n] \in Nat
                     /\ (n < 10 => base[n] = <<n>>)
  BY DivisionByTen
<1>3. \A v \in Seq(0..9), n \in Nat : h[<<v, n>>] = Append(v, n % 10)
  OBVIOUS
<1> HIDE DEF Step, p, base, h
<1>4. PICK f \in [Nat -> Seq(0..9)] :
        \A n \in Nat : f[n] = IF n \in Step THEN h[<<f[p[n]], n>>] ELSE base[n]
  BY <1>1, Recursion DEF Follows
<1>5. \A n \in Nat : f[n] = IF n < 10 THEN <<n>> ELSE Append(f[n \div 10], n % 10)
  <2> TAKE n \in Nat
  <2>1. f[n] = IF n \in Step THEN h[<<f[p[n]], n>>] ELSE base[n]
    BY <1>4
  <2> QED BY <1>2, <1>3, <2>1
<1>6. f = [n \in Nat |-> IF n < 10 THEN <<n>> ELSE Append(f[n \div 10], n % 10)]
  BY <1>5
<1>7. Decimal = [n \in Nat |-> IF n < 10 THEN <<n>> ELSE Append(Decimal[n \div 10], n % 10)]
  BY <1>6 DEF Decimal
<1>8. Decimal \in [Nat -> Seq(0..9)]
  <2> DEFINE Typed == {n \in Nat : Decimal[n] \in Seq(0..9)}
  <2>1. ASSUME NEW n \in Nat, \A m \in Nat : m < n => m \in Typed
        PROVE  n \in Typed
    <3>1. CASE n < 10
      BY <1>7, <3>1
    <3>2. CASE ~(n < 10)
      <4>1. Decimal[n \div 10] \in Seq(0..9) /\ n % 10 \in 0..9
        BY <2>1, <3>2, DivisionByTen
      <4>2. Decimal[n] = Append(Decimal[n \div 10], n % 10)
        BY <1>7, <3>2
      <4>3. Append(Decimal[n \div 10], n % 10) \in Seq(0..9)
        BY <4>1, AppendDigit
      <4> QED BY <4>2, <4>3
    <3> QED BY <3>1, <3>2
  <2> HIDE DEF Typed
  <2>2. Nat \subseteq Typed
    BY <2>1, Induction
  <2> QED BY <1>7, <2>2 DEF Typed
<1> QED BY <1>7, <1>8

(* One more character, in a uint32_t. *)
Shifted(v, c) == (v * 10 + c) % UINT_RANGE

LEMMA ShiftedType ==
  /\ \A v, c \in Int : Shifted(v, c) \in Int
  /\ \A v, c \in Nat : v * 10 + c < UINT_RANGE => Shifted(v, c) = v * 10 + c
BY UintAssumption DEF Shifted

(* A string's value, by its last character.                                *)
LEMMA ValueOfString ==
  ASSUME NEW s \in Seq(Int)
  PROVE  \E f \in [0..Len(s) -> Int] :
           /\ DeviceIdOf(s) = f[Len(s)]
           /\ \A n \in 0..Len(s) : f[n] = IF n = 0 THEN 0 ELSE Shifted(f[n - 1], s[n])
<1> DEFINE h == [vn \in Int \X Nat |-> IF vn[2] \in 1..Len(s)
                                       THEN Shifted(vn[1], s[vn[2]]) ELSE 0]
<1>1. h \in [Int \X Nat -> Int]
  <2> SUFFICES ASSUME NEW v \in Int, NEW n \in Nat PROVE h[<<v, n>>] \in Int
    OBVIOUS
  <2>1. CASE n \in 1..Len(s)
    <3>1. s[n] \in Int
      BY <2>1
    <3> QED BY <2>1, <3>1, ShiftedType
  <2>2. CASE n \notin 1..Len(s)
    BY <2>2
  <2> QED BY <2>1, <2>2
<1>2. \A v \in Int, n \in 1..Len(s) : h[<<v, n>>] = Shifted(v, s[n])
  OBVIOUS
<1> HIDE DEF h
<1>3. PICK f \in [0..Len(s) -> Int] : Along(f, Len(s), 0, h)
  <2>1. 0 \in Int /\ Len(s) \in Nat
    OBVIOUS
  <2> QED BY <1>1, <2>1, SequenceRecursion
<1>4. \A n \in 0..Len(s) : f[n] = IF n = 0 THEN 0 ELSE Shifted(f[n - 1], s[n])
  <2> TAKE n \in 0..Len(s)
  <2>1. n # 0 => f[n - 1] \in Int /\ n \in 1..Len(s)
    BY <1>3
  <2> QED BY <1>2, <1>3, <2>1 DEF Along
<1>5. f = [n \in 0..Len(s) |-> IF n = 0 THEN 0 ELSE Shifted(f[n - 1], s[n])]
  BY <1>4
<1> DEFINE value == CHOOSE g : g = [n \in 0..Len(s) |-> IF n = 0 THEN 0 ELSE Shifted(g[n - 1], s[n])]
<1>6. value = [n \in 0..Len(s) |-> IF n = 0 THEN 0 ELSE Shifted(value[n - 1], s[n])]
  BY <1>5
<1>7. DeviceIdOf(s) = value[Len(s)]
  BY DEF DeviceIdOf, Shifted
<1> HIDE DEF value
<1>8. value[0] = 0 /\ \A n \in 1..Len(s) : value[n] = Shifted(value[n - 1], s[n])
  <2>1. ASSUME NEW n \in 0..Len(s)
        PROVE  value[n] = IF n = 0 THEN 0 ELSE Shifted(value[n - 1], s[n])
    BY <1>6
  <2>2. 0 \in 0..Len(s) /\ \A n \in 1..Len(s) : n \in 0..Len(s) /\ n # 0
    <3>1. Len(s) \in Nat
      OBVIOUS
    <3> QED BY <3>1
  <2> HIDE <1>6
  <2> QED BY <2>1, <2>2
<1>9. \A n \in 0..Len(s) : f[n] = value[n]
  <2>1. 0 \in 0..Len(s) /\ \A n \in 1..Len(s) : n \in 0..Len(s) /\ n # 0
    BY <1>3
  <2>2. NoStepDiffers(f, value, Len(s))
    BY <1>4, <1>8, <2>1 DEF NoStepDiffers
  <2>3. Len(s) \in Nat
    OBVIOUS
  <2> QED BY <2>2, <2>3, SameUpto
<1>10. Len(s) \in 0..Len(s)
  OBVIOUS
<1>11. DeviceIdOf(s) = f[Len(s)]
  BY <1>7, <1>9, <1>10
<1> QED BY <1>4, <1>11

LEMMA ValueOfEmpty == DeviceIdOf(<<>>) = 0
<1>1. <<>> \in Seq(Int) /\ Len(<<>>) = 0 /\ 0 \in 0..0
  OBVIOUS
<1>2. PICK f : /\ DeviceIdOf(<<>>) = f[Len(<<>>)]
               /\ \A n \in 0..Len(<<>>) : f[n] = IF n = 0 THEN 0 ELSE Shifted(f[n - 1], <<>>[n])
  BY <1>1, ValueOfString
<1> QED BY <1>1, <1>2

LEMMA ValueOfMore ==
  ASSUME NEW s \in Seq(Int), NEW t \in Seq(Int),
         Len(t) = Len(s) + 1, \A n \in 1..Len(s) : t[n] = s[n]
  PROVE  DeviceIdOf(t) = Shifted(DeviceIdOf(s), t[Len(t)])
<1>1. PICK f \in [0..Len(s) -> Int] :
        /\ DeviceIdOf(s) = f[Len(s)]
        /\ \A n \in 0..Len(s) : f[n] = IF n = 0 THEN 0 ELSE Shifted(f[n - 1], s[n])
  BY ValueOfString
<1>2. PICK g \in [0..Len(t) -> Int] :
        /\ DeviceIdOf(t) = g[Len(t)]
        /\ \A n \in 0..Len(t) : g[n] = IF n = 0 THEN 0 ELSE Shifted(g[n - 1], t[n])
  BY ValueOfString
<1>3. NoStepDiffers(f, g, Len(s))
  <2>1. 0 \in 0..Len(s) /\ 0 \in 0..Len(t)
    OBVIOUS
  <2>2. \A n \in 1..Len(s) : n \in 0..Len(s) /\ n \in 0..Len(t) /\ n # 0
    OBVIOUS
  <2> QED BY <1>1, <1>2, <2>1, <2>2 DEF NoStepDiffers
<1>4. Len(s) \in Nat
  OBVIOUS
<1>5. \A n \in 0..Len(s) : f[n] = g[n]
  BY <1>3, <1>4, SameUpto
<1>6. f[Len(s)] = g[Len(s)]
  BY <1>4, <1>5
<1>7. Len(t) \in 0..Len(t) /\ Len(t) # 0 /\ Len(t) - 1 = Len(s)
  BY <1>4
<1> QED BY <1>1, <1>2, <1>6, <1>7

LEMMA ValueOfAppend ==
  ASSUME NEW s \in Seq(Int), NEW c \in Int
  PROVE  DeviceIdOf(Append(s, c)) = Shifted(DeviceIdOf(s), c)
<1> DEFINE t == Append(s, c)
<1>1. /\ t \in Seq(Int) /\ Len(t) = Len(s) + 1 /\ t[Len(t)] = c
      /\ \A n \in 1..Len(s) : t[n] = s[n]
  OBVIOUS
<1> HIDE DEF t
<1>2. DeviceIdOf(t) = Shifted(DeviceIdOf(s), t[Len(t)])
  BY <1>1, ValueOfMore
<1> QED BY <1>1, <1>2 DEF t

LEMMA ValueOfDecimal == \A n \in Nat : n < UINT_RANGE => DeviceIdOf(Decimal[n]) = n
<1> DEFINE Valued == {n \in Nat : n < UINT_RANGE => DeviceIdOf(Decimal[n]) = n}
<1>1. ASSUME NEW n \in Nat, \A m \in Nat : m < n => m \in Valued
      PROVE  n \in Valued
  <2> SUFFICES ASSUME n < UINT_RANGE PROVE DeviceIdOf(Decimal[n]) = n
    OBVIOUS
  <2>1. <<n>> = Append(<<>>, n) /\ <<>> \in Seq(Int) /\ n \in Int
    OBVIOUS
  <2>2. CASE n < 10
    <3>1. Decimal[n] = Append(<<>>, n)
      BY <2>1, <2>2, DecimalEquation
    <3>2. DeviceIdOf(Append(<<>>, n)) = Shifted(DeviceIdOf(<<>>), n)
      BY <2>1, ValueOfAppend
    <3>3. Shifted(0, n) = n
      BY ShiftedType
    <3> QED BY <3>1, <3>2, <3>3, ValueOfEmpty
  <2>3. CASE ~(n < 10)
    <3>1. /\ n \div 10 \in Nat /\ n % 10 \in 0..9
          /\ DeviceIdOf(Decimal[n \div 10]) = n \div 10
      BY <1>1, <2>3, UintAssumption, DivisionByTen
    <3>2. Decimal[n \div 10] \in Seq(Int) /\ n % 10 \in Int
      <4>1. Decimal[n \div 10] \in Seq(0..9)
        BY <3>1, DecimalEquation
      <4> QED BY <3>1, <4>1
    <3>3. Decimal[n] = Append(Decimal[n \div 10], n % 10)
      BY <2>3, DecimalEquation
    <3>4. DeviceIdOf(Decimal[n]) = Shifted(n \div 10, n % 10)
      BY <3>1, <3>2, <3>3, ValueOfAppend
    <3>5. (n \div 10) * 10 + (n % 10) = n
      BY DivisionByTen
    <3> QED BY <3>1, <3>4, <3>5, ShiftedType
  <2> QED BY <2>2, <2>3
<1> HIDE DEF Valued
<1>2. Nat \subseteq Valued
  BY <1>1, Induction
<1> QED BY <1>2 DEF Valued

(* The ids get_int_length is wrong about. *)
BeginsWithTen(n) ==
  Len(Decimal[n]) > 1 /\ Decimal[n][1] = 1 /\ Decimal[n][2] = 0

LengthKnown(n) ==
  /\ Len(Decimal[n]) \in Nat /\ Len(Decimal[n]) > 0 /\ (n > 9 => Len(Decimal[n]) > 1)
  /\ get_int_length[n] = IF BeginsWithTen(n) THEN Len(Decimal[n]) - 1
                         ELSE Len(Decimal[n])

LEMMA LengthOfDigit ==
  ASSUME NEW n \in Nat, n < 10
  PROVE  /\ Decimal[n] = <<n>> /\ get_int_length[n] = 1 /\ Len(Decimal[n]) = 1
         /\ LengthKnown(n)
<1>1. Decimal[n] = <<n>>
  BY DecimalEquation
<1>2. get_int_length[n] = 1
  BY LengthEquation
<1>3. Len(Decimal[n]) = 1
  BY <1>1
<1>4. ~BeginsWithTen(n)
  BY <1>3 DEF BeginsWithTen
<1> QED BY <1>1, <1>2, <1>3, <1>4 DEF LengthKnown

LEMMA LengthOfMore ==
  ASSUME NEW n \in Nat, n > 9, NEW m \in Nat, m = n \div 10, LengthKnown(m)
  PROVE  LengthKnown(n)
<1>1. m > 0 /\ n % 10 \in 0..9 /\ n = m * 10 + (n % 10)
  BY DivisionByTen
<1>2. Decimal[n] = Append(Decimal[m], n % 10) /\ Decimal[m] \in Seq(0..9)
  <2>1. ~(n < 10)
    OBVIOUS
  <2> QED BY <2>1, DecimalEquation
<1>3. /\ Len(Decimal[n]) = Len(Decimal[m]) + 1
      /\ \A i \in 1..Len(Decimal[m]) : Decimal[n][i] = Decimal[m][i]
      /\ Decimal[n][Len(Decimal[m]) + 1] = n % 10
  BY <1>1, <1>2
<1>4. get_int_length[n] = IF n > 10 THEN 1 + get_int_length[m] ELSE 1
  BY LengthEquation
<1>5. CASE m > 9
  <2>1. Len(Decimal[m]) > 1 /\ Len(Decimal[m]) \in Nat
    BY <1>5 DEF LengthKnown
  <2>2. 1 \in 1..Len(Decimal[m]) /\ 2 \in 1..Len(Decimal[m])
    BY <2>1
  <2>3. Len(Decimal[n]) > 1 /\ (BeginsWithTen(n) <=> BeginsWithTen(m))
    BY <1>3, <2>1, <2>2 DEF BeginsWithTen
  <2>4. get_int_length[n] = 1 + get_int_length[m]
    BY <1>1, <1>4, <1>5
  <2> QED BY <1>3, <2>1, <2>3, <2>4 DEF LengthKnown
<1>6. CASE m < 10
  <2>1. Decimal[m] = <<m>> /\ get_int_length[m] = 1 /\ Len(Decimal[m]) = 1
    BY <1>6, LengthOfDigit
  <2>2. Len(Decimal[n]) = 2 /\ Decimal[n][1] = m /\ Decimal[n][2] = n % 10
    BY <1>3, <2>1
  <2>3. BeginsWithTen(n) <=> n = 10
    BY <1>1, <1>6, <2>2 DEF BeginsWithTen
  <2>4. get_int_length[n] = IF n = 10 THEN 1 ELSE 2
    BY <1>4, <2>1
  <2> QED BY <2>2, <2>3, <2>4 DEF LengthKnown
<1> QED BY <1>5, <1>6

LEMMA Lengths == \A n \in Nat : LengthKnown(n)
<1> DEFINE Known == {n \in Nat : LengthKnown(n)}
<1>1. ASSUME NEW n \in Nat, \A m \in Nat : m < n => m \in Known
      PROVE  n \in Known
  <2>1. CASE n < 10
    BY <2>1, LengthOfDigit
  <2>2. CASE n > 9
    <3>1. n \div 10 \in Nat /\ n \div 10 < n
      BY <2>2, DivisionByTen
    <3>2. LengthKnown(n \div 10)
      BY <1>1, <3>1
    <3> QED BY <2>2, <3>1, <3>2, LengthOfMore
  <2> QED BY <2>1, <2>2
<1> HIDE DEF Known
<1>2. Nat \subseteq Known
  BY <1>1, Induction
<1> QED BY <1>2 DEF Known

(* A tuner id names the device it was made for, unless the device's number *)
(* begins with the digits 10: then its last digit is lost, and the id is   *)
(* another device's.  get_int_length takes 10 to have one digit            *)
(* (dtv.c:33-42, dtv.c:79-84).                                             *)
THEOREM TunerIdRoundTrip ==
  \A n \in Nat :
    /\ TunerIdOf(n) \in Seq(0..9)
    /\ n < UINT_RANGE =>
         DeviceIdOf(TunerIdOf(n)) = IF BeginsWithTen(n) THEN n \div 10 ELSE n
<1> TAKE n \in Nat
<1>1. LengthKnown(n) /\ Decimal[n] \in Seq(0..9)
  BY Lengths, DecimalEquation
<1>2. CASE ~BeginsWithTen(n)
  <2>1. TunerIdOf(n) = SubSeq(Decimal[n], 1, Len(Decimal[n]))
    BY <1>1, <1>2 DEF TunerIdOf, LengthKnown
  <2>2. TunerIdOf(n) = Decimal[n]
    BY <1>1, <2>1
  <2> QED BY <1>1, <1>2, <2>2, ValueOfDecimal
<1>3. CASE BeginsWithTen(n)
  <2>1. ~(n < 10)
    BY <1>3, LengthOfDigit DEF BeginsWithTen
  <2>2. PICK m \in Nat : m = n \div 10
    BY DivisionByTen
  <2>3. /\ Decimal[n] = Append(Decimal[m], n % 10) /\ Decimal[m] \in Seq(0..9)
        /\ n % 10 \in 0..9
    BY <2>1, <2>2, DecimalEquation, DivisionByTen
  <2>4. TunerIdOf(n) = SubSeq(Append(Decimal[m], n % 10), 1, Len(Decimal[m]))
    <3>1. get_int_length[n] = Len(Decimal[n]) - 1
      BY <1>1, <1>3 DEF LengthKnown
    <3>2. Len(Decimal[n]) = Len(Decimal[m]) + 1 /\ Len(Decimal[m]) \in Nat
      BY <2>3
    <3> QED BY <2>3, <3>1, <3>2 DEF TunerIdOf
  <2>5. TunerIdOf(n) = Decimal[m]
    BY <2>3, <2>4
  <2>6. n < UINT_RANGE => m < UINT_RANGE
    BY <2>2, UintAssumption
  <2>7. n < UINT_RANGE => DeviceIdOf(Decimal[m]) = m
    BY <2>6, ValueOfDecimal
  <2>8. TunerIdOf(n) \in Seq(0..9)
    BY <2>3, <2>5
  <2> QED BY <1>3, <2>2, <2>5, <2>7, <2>8
<1> QED BY <1>2, <1>3
-----------------------------------------------------------------------------
(* Sums.                                                                   *)

LEMMA TotalOfNumbers ==
  ASSUME NEW s \in Seq(Nat)
  PROVE  \E f \in [0..Len(s) -> Nat] :
           /\ Sum(s) = f[Len(s)]
           /\ \A n \in 0..Len(s) : f[n] = IF n = 0 THEN 0 ELSE f[n - 1] + s[n]
<1> DEFINE h == [vn \in Nat \X Nat |-> IF vn[2] \in 1..Len(s)
                                       THEN vn[1] + s[vn[2]] ELSE 0]
<1>1. h \in [Nat \X Nat -> Nat]
  <2> SUFFICES ASSUME NEW v \in Nat, NEW n \in Nat PROVE h[<<v, n>>] \in Nat
    OBVIOUS
  <2>1. CASE n \in 1..Len(s)
    <3>1. s[n] \in Nat
      BY <2>1
    <3> QED BY <2>1, <3>1
  <2>2. CASE n \notin 1..Len(s)
    BY <2>2
  <2> QED BY <2>1, <2>2
<1>2. \A v \in Nat, n \in 1..Len(s) : h[<<v, n>>] = v + s[n]
  OBVIOUS
<1> HIDE DEF h
<1>3. PICK f \in [0..Len(s) -> Nat] : Along(f, Len(s), 0, h)
  <2>1. 0 \in Nat /\ Len(s) \in Nat
    OBVIOUS
  <2> QED BY <1>1, <2>1, SequenceRecursion
<1>4. \A n \in 0..Len(s) : f[n] = IF n = 0 THEN 0 ELSE f[n - 1] + s[n]
  <2> TAKE n \in 0..Len(s)
  <2>1. n # 0 => f[n - 1] \in Nat /\ n \in 1..Len(s)
    BY <1>3
  <2> QED BY <1>2, <1>3, <2>1 DEF Along
<1>5. f = [n \in 0..Len(s) |-> IF n = 0 THEN 0 ELSE f[n - 1] + s[n]]
  BY <1>4
<1> DEFINE total == CHOOSE g : g = [n \in 0..Len(s) |-> IF n = 0 THEN 0 ELSE g[n - 1] + s[n]]
<1>6. total = [n \in 0..Len(s) |-> IF n = 0 THEN 0 ELSE total[n - 1] + s[n]]
  BY <1>5
<1>7. Sum(s) = total[Len(s)]
  BY DEF Sum
<1> HIDE DEF total
<1>8. total[0] = 0 /\ \A n \in 1..Len(s) : total[n] = total[n - 1] + s[n]
  <2>1. ASSUME NEW n \in 0..Len(s)
        PROVE  total[n] = IF n = 0 THEN 0 ELSE total[n - 1] + s[n]
    BY <1>6
  <2>2. 0 \in 0..Len(s) /\ \A n \in 1..Len(s) : n \in 0..Len(s) /\ n # 0
    <3>1. Len(s) \in Nat
      OBVIOUS
    <3> QED BY <3>1
  <2> HIDE <1>6
  <2> QED BY <2>1, <2>2
<1>9. \A n \in 0..Len(s) : f[n] = total[n]
  <2>1. 0 \in 0..Len(s) /\ \A n \in 1..Len(s) : n \in 0..Len(s) /\ n # 0
    BY <1>3
  <2>2. NoStepDiffers(f, total, Len(s))
    BY <1>4, <1>8, <2>1 DEF NoStepDiffers
  <2>3. Len(s) \in Nat
    OBVIOUS
  <2> QED BY <2>2, <2>3, SameUpto
<1>10. Len(s) \in 0..Len(s)
  OBVIOUS
<1>11. Sum(s) = f[Len(s)]
  BY <1>7, <1>9, <1>10
<1> QED BY <1>4, <1>11

(* The running total of s. *)
IsTotal(f, s) ==
  f \in [0..Len(s) -> Nat] /\ f[0] = 0 /\ \A n \in 1..Len(s) : f[n] = f[n - 1] + s[n]

LEMMA RunningTotal ==
  ASSUME NEW s \in Seq(Nat)
  PROVE  \E f : IsTotal(f, s) /\ Sum(s) = f[Len(s)]
<1>1. PICK f \in [0..Len(s) -> Nat] :
        /\ Sum(s) = f[Len(s)]
        /\ \A n \in 0..Len(s) : f[n] = IF n = 0 THEN 0 ELSE f[n - 1] + s[n]
  BY TotalOfNumbers
<1>2. 0 \in 0..Len(s) /\ \A n \in 1..Len(s) : n \in 0..Len(s) /\ n # 0
  <2>1. Len(s) \in Nat
    OBVIOUS
  <2> QED BY <2>1
<1>3. f[0] = 0 /\ \A n \in 1..Len(s) : f[n] = f[n - 1] + s[n]
  BY <1>1, <1>2
<1> QED BY <1>1, <1>3 DEF IsTotal

(* The running total is the only function there is. *)
LEMMA SumIsTotal ==
  ASSUME NEW s \in Seq(Nat), NEW f, IsTotal(f, s)
  PROVE  Sum(s) = f[Len(s)]
<1>1. PICK g : IsTotal(g, s) /\ Sum(s) = g[Len(s)]
  BY RunningTotal
<1>2. Len(s) \in Nat /\ Len(s) \in 0..Len(s)
  OBVIOUS
<1>3. NoStepDiffers(f, g, Len(s))
  BY <1>1 DEF IsTotal, NoStepDiffers
<1>4. \A n \in 0..Len(s) : f[n] = g[n]
  BY <1>2, <1>3, SameUpto
<1> QED BY <1>1, <1>2, <1>4

LEMMA SumType == ASSUME NEW s \in Seq(Nat) PROVE Sum(s) \in Nat
<1>1. PICK f : IsTotal(f, s) /\ Sum(s) = f[Len(s)]
  BY RunningTotal
<1>2. Len(s) \in 0..Len(s)
  OBVIOUS
<1> QED BY <1>1, <1>2 DEF IsTotal

LEMMA SumAtMost ==
  ASSUME NEW s \in Seq(Nat), NEW t \in Seq(Nat), Len(s) = Len(t),
         \A n \in 1..Len(s) : s[n] <= t[n]
  PROVE  Sum(s) <= Sum(t)
<1>1. PICK f : IsTotal(f, s) /\ Sum(s) = f[Len(s)]
  BY RunningTotal
<1>2. PICK g : IsTotal(g, t) /\ Sum(t) = g[Len(t)]
  BY RunningTotal
<1> DEFINE Less == {n \in 0..Len(s) : f[n] <= g[n]}
<1>3. 0 \in Less
  <2>1. 0 \in 0..Len(s)
    OBVIOUS
  <2> QED BY <1>1, <1>2, <2>1 DEF IsTotal
<1>4. \A n \in 1..Len(s) : n - 1 \in Less => n \in Less
  <2> SUFFICES ASSUME NEW n \in 1..Len(s), n - 1 \in Less PROVE n \in Less
    OBVIOUS
  <2>1. f[n] = f[n - 1] + s[n] /\ g[n] = g[n - 1] + t[n]
    BY <1>1, <1>2 DEF IsTotal
  <2>2. n \in 0..Len(s) /\ n - 1 \in 0..Len(s)
    OBVIOUS
  <2>3. s[n] \in Nat /\ t[n] \in Nat
    OBVIOUS
  <2>4. f[n - 1] <= g[n - 1] /\ s[n] <= t[n]
    OBVIOUS
  <2>5. f[n - 1] \in Nat /\ g[n - 1] \in Nat
    BY <1>1, <1>2, <2>2 DEF IsTotal
  <2>6. f[n] <= g[n]
    BY <2>1, <2>3, <2>4, <2>5
  <2> QED BY <2>2, <2>6
<1> HIDE DEF Less
<1>5. Len(s) \in Nat
  OBVIOUS
<1>6. 0..Len(s) \subseteq Less
  BY <1>3, <1>4, <1>5, InductionUpto
<1>7. Len(s) \in Less
  BY <1>5, <1>6
<1> QED BY <1>1, <1>2, <1>7 DEF Less

LEMMA SumEmpty == Sum(<<>>) = 0
<1>1. <<>> \in Seq(Nat) /\ Len(<<>>) = 0
  OBVIOUS
<1>2. PICK f : IsTotal(f, <<>>) /\ Sum(<<>>) = f[Len(<<>>)]
  BY <1>1, RunningTotal
<1> QED BY <1>1, <1>2 DEF IsTotal

LEMMA SumConcat ==
  ASSUME NEW s \in Seq(Nat), NEW t \in Seq(Nat)
  PROVE  Sum(s \o t) = Sum(s) + Sum(t)
<1>1. PICK f : IsTotal(f, s) /\ Sum(s) = f[Len(s)]
  BY RunningTotal
<1>2. PICK g : IsTotal(g, t) /\ Sum(t) = g[Len(t)]
  BY RunningTotal
<1>3. /\ s \o t \in Seq(Nat) /\ Len(s) \in Nat /\ Len(t) \in Nat
      /\ Len(s \o t) = Len(s) + Len(t)
      /\ \A n \in 1..Len(s) : (s \o t)[n] = s[n]
      /\ \A n \in 1..Len(t) : (s \o t)[Len(s) + n] = t[n]
  OBVIOUS
<1>4. PICK u \in Seq(Nat) : u = s \o t
  BY <1>3
<1>5. PICK h : IsTotal(h, u) /\ Sum(u) = h[Len(u)]
  BY RunningTotal
<1>6. NoStepDiffers(h, f, Len(s))
  <2>1. h[0] = f[0]
    BY <1>1, <1>5 DEF IsTotal
  <2>2. \A n \in 1..Len(s) : h[n - 1] = f[n - 1] => h[n] = f[n]
    <3> TAKE n \in 1..Len(s)
    <3>1. n \in 1..Len(u) /\ u[n] = s[n]
      BY <1>3, <1>4
    <3> QED BY <1>1, <1>5, <3>1 DEF IsTotal
  <2> QED BY <2>1, <2>2 DEF NoStepDiffers
<1>7. h[Len(s)] = f[Len(s)]
  <2>1. \A n \in 0..Len(s) : h[n] = f[n]
    BY <1>3, <1>6, SameUpto
  <2> QED BY <1>3, <2>1
<1> DEFINE Behind == {n \in 0..Len(t) : h[Len(s) + n] = f[Len(s)] + g[n]}
<1>8. 0 \in Behind
  <2>1. 0 \in 0..Len(t) /\ Len(s) + 0 = Len(s) /\ Len(s) \in 0..Len(s)
    BY <1>3
  <2>2. g[0] = 0 /\ f[Len(s)] \in Nat
    BY <1>1, <1>2, <2>1 DEF IsTotal
  <2> QED BY <1>7, <2>1, <2>2
<1>9. \A n \in 1..Len(t) : n - 1 \in Behind => n \in Behind
  <2> SUFFICES ASSUME NEW n \in 1..Len(t), n - 1 \in Behind PROVE n \in Behind
    OBVIOUS
  <2>1. Len(s) + n \in 1..Len(u) /\ n \in 0..Len(t) /\ n - 1 \in 0..Len(t)
    BY <1>3, <1>4
  <2>2. h[Len(s) + n] = h[Len(s) + n - 1] + u[Len(s) + n]
    BY <1>5, <2>1 DEF IsTotal
  <2>3. h[Len(s) + n - 1] = f[Len(s)] + g[n - 1]
    <3>1. Len(s) + n - 1 = Len(s) + (n - 1)
      BY <1>3
    <3> QED BY <3>1
  <2>4. u[Len(s) + n] = t[n]
    BY <1>3, <1>4
  <2>5. g[n] = g[n - 1] + t[n]
    BY <1>2 DEF IsTotal
  <2>6. f[Len(s)] \in Nat /\ g[n - 1] \in Nat
    <3>1. Len(s) \in 0..Len(s)
      BY <1>3
    <3>2. f \in [0..Len(s) -> Nat] /\ g \in [0..Len(t) -> Nat]
      BY <1>1, <1>2 DEF IsTotal
    <3> QED BY <2>1, <3>1, <3>2
  <2>7. t[n] \in Nat
    OBVIOUS
  <2>8. h[Len(s) + n] = f[Len(s)] + g[n]
    BY <2>2, <2>3, <2>4, <2>5, <2>6, <2>7
  <2> QED BY <2>1, <2>8
<1> HIDE DEF Behind
<1>10. 0..Len(t) \subseteq Behind
  BY <1>3, <1>8, <1>9, InductionUpto
<1>11. h[Len(s) + Len(t)] = f[Len(s)] + g[Len(t)]
  <2>1. Len(t) \in Behind
    BY <1>3, <1>10
  <2> QED BY <2>1 DEF Behind
<1> QED BY <1>1, <1>2, <1>3, <1>4, <1>5, <1>11

LEMMA SumOfSame ==
  ASSUME NEW l \in Nat, NEW c \in Nat
  PROVE  Sum([i \in 1..l |-> c]) = c * l
<1> DEFINE s == [i \in 1..l |-> c]
           f == [n \in 0..l |-> c * n]
<1>1. s \in Seq(Nat) /\ Len(s) = l /\ \A n \in 1..l : s[n] = c
  OBVIOUS
<1>2. /\ f \in [0..l -> Nat] /\ f[l] = c * l /\ f[0] = 0
      /\ \A n \in 1..l : f[n] = f[n - 1] + c
  <2>1. \A n \in Nat : c * n \in Nat /\ (n # 0 => c * n = c * (n - 1) + c)
    OBVIOUS
  <2>2. 0 \in 0..l /\ l \in 0..l /\ c * 0 = 0
    OBVIOUS
  <2>3. \A n \in 1..l : n \in 0..l /\ n - 1 \in 0..l /\ n # 0 /\ n \in Nat
    OBVIOUS
  <2> QED BY <2>1, <2>2, <2>3
<1> HIDE DEF s, f
<1>3. IsTotal(f, s)
  BY <1>1, <1>2 DEF IsTotal
<1>4. Sum(s) = c * l
  BY <1>1, <1>2, <1>3, SumIsTotal
<1> QED BY <1>4 DEF s

LEMMA SumOfOne == ASSUME NEW a \in Nat PROVE Sum(<<a>>) = a
<1>1. <<a>> \in Seq(Nat) /\ Len(<<a>>) = 1 /\ <<a>>[1] = a
  OBVIOUS
<1>2. PICK f : IsTotal(f, <<a>>) /\ Sum(<<a>>) = f[Len(<<a>>)]
  BY <1>1, RunningTotal
<1>3. f[0] = 0 /\ f[1] = f[0] + a
  <2>1. 1 \in 1..1 /\ 1 - 1 = 0
    OBVIOUS
  <2> QED BY <1>1, <1>2, <2>1 DEF IsTotal
<1> QED BY <1>1, <1>2, <1>3

LEMMA SumOfTwo ==
  ASSUME NEW a \in Nat, NEW b \in Nat
  PROVE  Sum(<<a, b>>) = a + b
<1>1. <<a>> \in Seq(Nat) /\ <<b>> \in Seq(Nat)
  OBVIOUS
<1>2. <<a, b>> = <<a>> \o <<b>>
  <2>1. <<a, b>> = Append(<<a>>, b)
    OBVIOUS
  <2> QED BY <1>1, <2>1, AppendIsConcat
<1>3. Sum(<<a>> \o <<b>>) = a + b
  BY <1>1, SumConcat, SumOfOne
<1> QED BY <1>2, <1>3

LEMMA SumOfFour ==
  ASSUME NEW a \in Nat, NEW b \in Nat, NEW c \in Nat, NEW d \in Nat
  PROVE  Sum(<<a, b, c, d>>) = a + b + c + d
<1>1. <<a, b>> \in Seq(Nat) /\ <<c, d>> \in Seq(Nat)
  OBVIOUS
<1>2. <<a, b, c, d>> = <<a, b>> \o <<c, d>>
  OBVIOUS
<1>3. Sum(<<a, b>> \o <<c, d>>) = Sum(<<a, b>>) + Sum(<<c, d>>)
  BY <1>1, SumConcat
<1>4. Sum(<<a, b>>) = a + b /\ Sum(<<c, d>>) = c + d
  BY SumOfTwo
<1>5. (a + b) + (c + d) = a + b + c + d
  OBVIOUS
<1> QED BY <1>2, <1>3, <1>4, <1>5, Zenon
-----------------------------------------------------------------------------
(* Fields and their bytes.                                                 *)

FieldName == {"id", "num_types", "supported_type",
              "evt_id", "start_time", "duration", "descpt", "rating",
              "lang_num", "lang", "stl_lang_num", "stl_lang",
              "version", "numFds", "numInts", "data",
              "tuner_num", "prog_num", "ch_num"}
FieldRecord == [name : FieldName, bytes : Nat]
Fields == Seq(FieldRecord)

Sizes(fields) == [i \in DOMAIN fields |-> fields[i].bytes]

LEMMA SizesType ==
  ASSUME NEW fields \in Fields
  PROVE  /\ Sizes(fields) \in Seq(Nat) /\ Len(Sizes(fields)) = Len(fields)
         /\ \A i \in 1..Len(fields) : Sizes(fields)[i] = fields[i].bytes
         /\ Bytes(fields) = Sum(Sizes(fields)) /\ Bytes(fields) \in Nat
<1>1. DOMAIN fields = 1..Len(fields) /\ Len(fields) \in Nat
  BY DEF Fields
<1>2. \A i \in 1..Len(fields) : fields[i].bytes \in Nat
  <2>1. \A i \in 1..Len(fields) : fields[i] \in FieldRecord
    BY ElementOfSeq DEF Fields
  <2> QED BY <2>1 DEF FieldRecord
<1>3. /\ Sizes(fields) \in Seq(Nat) /\ Len(Sizes(fields)) = Len(fields)
      /\ \A i \in 1..Len(fields) : Sizes(fields)[i] = fields[i].bytes
  BY <1>1, <1>2 DEF Sizes
<1>4. Bytes(fields) = Sum(Sizes(fields))
  BY DEF Bytes, Sizes
<1> QED BY <1>3, <1>4, SumType

LEMMA BytesEmpty == <<>> \in Fields /\ Bytes(<<>>) = 0
<1>1. <<>> \in Fields
  BY DEF Fields
<1>2. Sizes(<<>>) = <<>>
  BY DEF Sizes
<1> QED BY <1>1, <1>2, SizesType, SumEmpty

LEMMA BytesConcat ==
  ASSUME NEW f \in Fields, NEW g \in Fields
  PROVE  f \o g \in Fields /\ Bytes(f \o g) = Bytes(f) + Bytes(g)
<1>1. /\ Len(f) \in Nat /\ Len(g) \in Nat /\ f \o g \in Fields
      /\ Len(f \o g) = Len(f) + Len(g)
      /\ \A i \in 1..Len(f) + Len(g) :
           (f \o g)[i] = IF i <= Len(f) THEN f[i] ELSE g[i - Len(f)]
  BY ConcatProperties, LenProperties DEF Fields
<1>2. PICK sf \in Seq(Nat) : /\ sf = Sizes(f) /\ Len(sf) = Len(f) /\ Bytes(f) = Sum(sf)
                             /\ \A i \in 1..Len(f) : sf[i] = f[i].bytes
  BY SizesType
<1>3. PICK sg \in Seq(Nat) : /\ sg = Sizes(g) /\ Len(sg) = Len(g) /\ Bytes(g) = Sum(sg)
                             /\ \A i \in 1..Len(g) : sg[i] = g[i].bytes
  BY SizesType
<1>4. /\ sf \o sg \in Seq(Nat) /\ Len(sf \o sg) = Len(f) + Len(g)
      /\ \A i \in 1..Len(f) + Len(g) :
           (sf \o sg)[i] = IF i <= Len(f) THEN sf[i] ELSE sg[i - Len(f)]
  <2>1. /\ sf \o sg \in Seq(Nat) /\ Len(sf \o sg) = Len(sf) + Len(sg)
        /\ \A i \in 1..Len(sf) + Len(sg) :
             (sf \o sg)[i] = IF i <= Len(sf) THEN sf[i] ELSE sg[i - Len(sf)]
    BY ConcatProperties
  <2> QED BY <1>2, <1>3, <2>1
<1>5. Sizes(f \o g) = sf \o sg
  <2>1. /\ Sizes(f \o g) \in Seq(Nat) /\ Len(Sizes(f \o g)) = Len(f) + Len(g)
        /\ \A i \in 1..Len(f) + Len(g) : Sizes(f \o g)[i] = (f \o g)[i].bytes
    BY <1>1, SizesType
  <2>2. ASSUME NEW i \in 1..Len(f) + Len(g)
        PROVE  Sizes(f \o g)[i] = (sf \o sg)[i]
    <3>1. i <= Len(f) => i \in 1..Len(f)
      BY <1>1
    <3>2. ~(i <= Len(f)) => i - Len(f) \in 1..Len(g)
      BY <1>1
    <3> QED BY <1>1, <1>2, <1>3, <1>4, <2>1, <3>1, <3>2
  <2> QED BY <1>4, <2>1, <2>2, SeqEqual
<1>6. Bytes(f \o g) = Sum(sf \o sg)
  BY <1>1, <1>5, SizesType
<1> QED BY <1>1, <1>2, <1>3, <1>6, SumConcat

LEMMA Flattening ==
  ASSUME NEW ss \in Seq(Fields)
  PROVE  \E f \in [0..Len(ss) -> Fields] :
           /\ FlattenSeq(ss) = f[Len(ss)] /\ f[0] = <<>>
           /\ \A n \in 1..Len(ss) : f[n] = f[n - 1] \o ss[n]
<1> DEFINE h == [vn \in Fields \X Nat |-> IF vn[2] \in 1..Len(ss)
                                          THEN vn[1] \o ss[vn[2]] ELSE <<>>]
<1>1. h \in [Fields \X Nat -> Fields]
  <2> SUFFICES ASSUME NEW v \in Fields, NEW n \in Nat PROVE h[<<v, n>>] \in Fields
    OBVIOUS
  <2>1. CASE n \in 1..Len(ss)
    <3>1. ss[n] \in Fields
      BY <2>1
    <3>2. v \o ss[n] \in Fields
      BY <3>1, BytesConcat
    <3> QED BY <2>1, <3>2
  <2>2. CASE n \notin 1..Len(ss)
    BY <2>2, BytesEmpty
  <2> QED BY <2>1, <2>2
<1>2. \A v \in Fields, n \in 1..Len(ss) : h[<<v, n>>] = v \o ss[n]
  <2> TAKE v \in Fields, n \in 1..Len(ss)
  <2>1. <<v, n>> \in Fields \X Nat /\ <<v, n>>[1] = v /\ <<v, n>>[2] = n
    OBVIOUS
  <2> QED BY <2>1
<1> HIDE DEF h
<1>3. Len(ss) \in Nat /\ 0 \in 0..Len(ss) /\ Len(ss) \in 0..Len(ss)
      /\ \A n \in 1..Len(ss) : n \in 0..Len(ss) /\ n - 1 \in 0..Len(ss) /\ n # 0
  <2>1. Len(ss) \in Nat
    OBVIOUS
  <2> QED BY <2>1
<1>4. PICK f \in [0..Len(ss) -> Fields] : Along(f, Len(ss), <<>>, h)
  BY <1>1, <1>3, BytesEmpty, SequenceRecursion
<1>5. f[0] = <<>> /\ \A n \in 1..Len(ss) : f[n] = f[n - 1] \o ss[n]
  <2>1. f[0] = <<>> /\ \A n \in 1..Len(ss) : f[n] = h[<<f[n - 1], n>>]
    BY <1>3, <1>4 DEF Along
  <2>2. \A n \in 1..Len(ss) : f[n - 1] \in Fields
    BY <1>3
  <2> QED BY <1>2, <2>1, <2>2
<1>6. FlattenSeq(ss) = f[Len(ss)]
  <2>1. CASE Len(ss) = 0
    <3>1. ss = <<>> /\ FlattenSeq(ss) = ss
      BY <2>1 DEF FlattenSeq
    <3> QED BY <1>5, <2>1, <3>1
  <2>2. CASE Len(ss) # 0
    <3>1. f[1] = ss[1]
      <4>1. 1 \in 1..Len(ss) /\ 1 - 1 = 0 /\ ss[1] \in Fields
        BY <1>3, <2>2
      <4>2. <<>> \o ss[1] = ss[1]
        BY <4>1, ConcatEmptySeq DEF Fields
      <4>3. f[1] = f[0] \o ss[1]
        BY <1>5, <4>1
      <4> QED BY <1>5, <4>2, <4>3
    <3> DEFINE one == [i \in 1..Len(ss) |-> f[i]]
    <3>2. one = [i \in 1..Len(ss) |-> IF i = 1 THEN ss[i] ELSE one[i - 1] \o ss[i]]
      <4> SUFFICES ASSUME NEW i \in 1..Len(ss)
                   PROVE  f[i] = IF i = 1 THEN ss[i] ELSE one[i - 1] \o ss[i]
        OBVIOUS
      <4>1. CASE i = 1
        BY <3>1, <4>1
      <4>2. CASE i # 1
        <5>1. i - 1 \in 1..Len(ss)
          BY <4>2
        <5>2. one[i - 1] = f[i - 1]
          BY <5>1
        <5> QED BY <1>5, <4>2, <5>2
      <4> QED BY <4>1, <4>2
    <3> DEFINE flatten == CHOOSE g :
                 g = [i \in 1..Len(ss) |-> IF i = 1 THEN ss[i] ELSE g[i - 1] \o ss[i]]
               behind == [n \in 0..Len(ss) |-> IF n = 0 THEN <<>> ELSE flatten[n]]
    <3>3. flatten = [i \in 1..Len(ss) |-> IF i = 1 THEN ss[i] ELSE flatten[i - 1] \o ss[i]]
      BY <3>2
    <3>4. FlattenSeq(ss) = flatten[Len(ss)]
      BY <2>2 DEF FlattenSeq
    <3> HIDE DEF one, flatten
    <3>5. behind[0] = <<>> /\ behind[Len(ss)] = flatten[Len(ss)]
      BY <1>3, <2>2
    <3>6. \A n \in 1..Len(ss) : f[n - 1] = behind[n - 1] => f[n] = behind[n]
      <4> SUFFICES ASSUME NEW n \in 1..Len(ss), f[n - 1] = behind[n - 1]
                   PROVE  f[n] = flatten[n]
        BY <1>3
      <4>1. f[n] = behind[n - 1] \o ss[n]
        BY <1>5
      <4>2. CASE n = 1
        <5>1. flatten[1] = ss[1]
          BY <3>3, <4>2
        <5> QED BY <3>1, <4>2, <5>1
      <4>3. CASE n # 1
        <5>1. behind[n - 1] = flatten[n - 1]
          BY <1>3, <4>3
        <5>2. flatten[n] = flatten[n - 1] \o ss[n]
          BY <3>3, <4>3
        <5> QED BY <4>1, <5>1, <5>2
      <4> QED BY <4>2, <4>3
    <3> HIDE DEF behind
    <3>7. NoStepDiffers(f, behind, Len(ss))
      BY <1>5, <3>5, <3>6 DEF NoStepDiffers
    <3>8. \A n \in 0..Len(ss) : f[n] = behind[n]
      BY <1>3, <3>7, SameUpto
    <3> QED BY <1>3, <3>4, <3>5, <3>8
  <2> QED BY <2>1, <2>2
<1> QED BY <1>5, <1>6

(* The bytes of a list are those of its elements. *)
LEMMA BytesFlatten ==
  ASSUME NEW ss \in Seq(Fields)
  PROVE  /\ FlattenSeq(ss) \in Fields
         /\ [i \in DOMAIN ss |-> Bytes(ss[i])] \in Seq(Nat)
         /\ Bytes(FlattenSeq(ss)) = Sum([i \in DOMAIN ss |-> Bytes(ss[i])])
<1>1. PICK f \in [0..Len(ss) -> Fields] :
        /\ FlattenSeq(ss) = f[Len(ss)] /\ f[0] = <<>>
        /\ \A n \in 1..Len(ss) : f[n] = f[n - 1] \o ss[n]
  BY Flattening
<1> DEFINE sizes == [i \in DOMAIN ss |-> Bytes(ss[i])]
           total == [n \in 0..Len(ss) |-> Bytes(f[n])]
<1>2. Len(ss) \in Nat /\ DOMAIN ss = 1..Len(ss) /\ \A n \in 1..Len(ss) : ss[n] \in Fields
  OBVIOUS
<1>3. /\ 0 \in 0..Len(ss) /\ Len(ss) \in 0..Len(ss)
      /\ \A n \in 1..Len(ss) : n \in 0..Len(ss) /\ n - 1 \in 0..Len(ss)
  BY <1>2
<1>4. \A n \in 1..Len(ss) : Bytes(ss[n]) \in Nat
  BY <1>2, SizesType
<1>5. sizes \in Seq(Nat) /\ Len(sizes) = Len(ss) /\ \A n \in 1..Len(ss) : sizes[n] = Bytes(ss[n])
  BY <1>2, <1>4
<1>6. total \in [0..Len(ss) -> Nat]
  BY SizesType
<1>7. total[0] = 0 /\ total[Len(ss)] = Bytes(f[Len(ss)])
  BY <1>1, <1>3, BytesEmpty
<1>8. \A n \in 1..Len(ss) : total[n] = total[n - 1] + sizes[n]
  <2> TAKE n \in 1..Len(ss)
  <2>1. f[n - 1] \in Fields /\ ss[n] \in Fields
    BY <1>2, <1>3
  <2>2. Bytes(f[n]) = Bytes(f[n - 1]) + Bytes(ss[n])
    BY <1>1, <2>1, BytesConcat
  <2>3. total[n] = Bytes(f[n]) /\ total[n - 1] = Bytes(f[n - 1])
    BY <1>3
  <2> QED BY <1>5, <2>2, <2>3
<1> HIDE DEF sizes, total
<1>9. IsTotal(total, sizes)
  BY <1>5, <1>6, <1>7, <1>8 DEF IsTotal
<1>10. Sum(sizes) = Bytes(FlattenSeq(ss))
  BY <1>1, <1>5, <1>7, <1>9, SumIsTotal
<1>11. FlattenSeq(ss) \in Fields
  BY <1>1, <1>3
<1> QED BY <1>5, <1>10, <1>11 DEF sizes

LEMMA FieldType ==
  ASSUME NEW name \in FieldName, NEW bytes \in Nat
  PROVE  /\ Field(name, bytes) \in FieldRecord
         /\ Field(name, bytes).bytes = bytes
BY DEF Field, FieldRecord

LEMMA BytesOfOne ==
  ASSUME NEW a \in FieldRecord
  PROVE  <<a>> \in Fields /\ Bytes(<<a>>) = a.bytes
<1>1. <<a>> \in Fields
  BY DEF Fields
<1>2. Sizes(<<a>>) = <<a.bytes>>
  BY DEF Sizes
<1>3. a.bytes \in Nat
  BY DEF FieldRecord
<1> QED BY <1>1, <1>2, <1>3, SizesType, SumOfOne

LEMMA BytesOfTwo ==
  ASSUME NEW a \in FieldRecord, NEW b \in FieldRecord
  PROVE  <<a, b>> \in Fields /\ Bytes(<<a, b>>) = a.bytes + b.bytes
<1>1. <<a>> \in Fields /\ <<b>> \in Fields
  BY BytesOfOne
<1>2. <<a, b>> = <<a>> \o <<b>>
  <2>1. <<a, b>> = Append(<<a>>, b)
    OBVIOUS
  <2> QED BY <1>1, <2>1, AppendIsConcat DEF Fields
<1> QED BY <1>1, <1>2, BytesOfOne, BytesConcat

(* l fields of the same kind. *)
LEMMA BytesOfSame ==
  ASSUME NEW l \in Int, NEW a \in FieldRecord
  PROVE  /\ [i \in 1..l |-> a] \in Fields
         /\ Bytes([i \in 1..l |-> a]) = a.bytes * (IF l < 0 THEN 0 ELSE l)
<1>1. CASE l < 0
  <2>1. [i \in 1..l |-> a] = <<>>
    BY <1>1
  <2>2. a.bytes * 0 = 0
    BY DEF FieldRecord
  <2> QED BY <1>1, <2>1, <2>2, BytesEmpty
<1>2. CASE l >= 0
  <2>1. [i \in 1..l |-> a] \in Fields
    BY <1>2 DEF Fields
  <2>2. Sizes([i \in 1..l |-> a]) = [i \in 1..l |-> a.bytes]
    BY DEF Sizes
  <2>3. a.bytes \in Nat /\ l \in Nat
    BY <1>2 DEF FieldRecord
  <2>4. Bytes([i \in 1..l |-> a]) = Sum([i \in 1..l |-> a.bytes])
    BY <2>1, <2>2, SizesType
  <2>5. Sum([i \in 1..l |-> a.bytes]) = a.bytes * l
    BY <2>3, SumOfSame
  <2> QED BY <1>2, <2>1, <2>4, <2>5
<1> QED BY <1>1, <1>2

(* Texts have their characters and a '\0' each. *)
LEMMA BytesOfTexts ==
  ASSUME NEW lengths \in Seq(Nat), NEW name \in FieldName, NEW l \in 0..Len(lengths)
  PROVE  /\ [i \in 1..l |-> Text(name, lengths[i])] \in Fields
         /\ Bytes([i \in 1..l |-> Text(name, lengths[i])])
              = SizeOfTexts(SubSeq(lengths, 1, l))
<1> DEFINE fields == [i \in 1..l |-> Text(name, lengths[i])]
           texts == SubSeq(lengths, 1, l)
<1>1. \A i \in 1..l : lengths[i] \in Nat
  OBVIOUS
<1>2. \A i \in 1..l : /\ fields[i] \in FieldRecord
                      /\ fields[i].bytes = lengths[i] + 1
  BY <1>1 DEF Text, Field, FieldRecord
<1>3. fields \in Fields
  BY <1>2 DEF Fields
<1>4. DOMAIN texts = 1..l /\ \A i \in 1..l : texts[i] = lengths[i]
  BY SubSeqProperties
<1>5. Sizes(fields) = [i \in DOMAIN texts |-> texts[i] + 1]
  BY <1>2, <1>4 DEF Sizes
<1>6. Bytes(fields) = SizeOfTexts(texts)
  BY <1>3, <1>5, SizesType DEF SizeOfTexts
<1> QED BY <1>3, <1>6

(* A list: its length, and its elements, each within its size. *)
LEMMA ListFits ==
  ASSUME NEW ss \in Seq(Fields), NEW sizes \in Seq(Nat), Len(ss) = Len(sizes),
         \A i \in 1..Len(ss) : Bytes(ss[i]) <= sizes[i], NEW name \in FieldName
  PROVE  Bytes(<<Field(name, U32)>> \o FlattenSeq(ss)) <= U32 + Sum(sizes)
<1> DEFINE bytes == [i \in DOMAIN ss |-> Bytes(ss[i])]
<1>1. /\ FlattenSeq(ss) \in Fields /\ bytes \in Seq(Nat)
      /\ Bytes(FlattenSeq(ss)) = Sum(bytes)
  BY BytesFlatten
<1>2. Len(bytes) = Len(ss) /\ \A i \in 1..Len(bytes) : bytes[i] <= sizes[i]
  <2>1. DOMAIN ss = 1..Len(ss) /\ Len(ss) \in Nat
    OBVIOUS
  <2> QED BY <2>1
<1> HIDE DEF bytes
<1>3. Sum(bytes) <= Sum(sizes)
  BY <1>1, <1>2, SumAtMost
<1>4. <<Field(name, U32)>> \in Fields /\ Bytes(<<Field(name, U32)>>) = U32
  BY FieldType, BytesOfOne DEF U32
<1>5. Bytes(<<Field(name, U32)>> \o FlattenSeq(ss)) = U32 + Sum(bytes)
  BY <1>1, <1>4, BytesConcat
<1>6. Sum(bytes) \in Nat /\ Sum(sizes) \in Nat
  BY <1>1, SumType
<1> QED BY <1>3, <1>5, <1>6 DEF U32
-----------------------------------------------------------------------------
(* The payloads.                                                           *)

(* append_tuner appends what calculate_tuner_size counts                   *)
(* (dtv_pdu.c:48-62, dtv_pdu.c:113-132).                                   *)
THEOREM TunerSizeExact ==
  ASSUME NEW tuner \in tv_tuner
  PROVE  /\ append_tuner(tuner) \in Fields
         /\ calculate_tuner_size(tuner) \in Nat
         /\ Bytes(append_tuner(tuner)) = calculate_tuner_size(tuner)
<1>1. tuner.id \in Nat /\ tuner.num_types \in Nat /\ tuner.num_types \in Int
  BY DEF tv_tuner
<1>2. PICK text \in FieldRecord : text = Text("id", tuner.id) /\ text.bytes = tuner.id + 1
  BY <1>1, FieldType DEF Text, FieldName
<1>3. PICK num \in FieldRecord : num = Field("num_types", U32) /\ num.bytes = 4
  BY FieldType DEF U32, FieldName
<1>4. PICK type \in FieldRecord : type = Field("supported_type", U8) /\ type.bytes = 1
  BY FieldType DEF U8, FieldName
<1>5. <<text, num>> \in Fields /\ Bytes(<<text, num>>) = (tuner.id + 1) + 4
  BY <1>2, <1>3, BytesOfTwo
<1>6. /\ [i \in 1..tuner.num_types |-> type] \in Fields
      /\ Bytes([i \in 1..tuner.num_types |-> type]) = 1 * tuner.num_types
  <2>1. ~(tuner.num_types < 0)
    BY <1>1
  <2> QED BY <1>1, <1>4, <2>1, BytesOfSame
<1>7. /\ append_tuner(tuner) \in Fields
      /\ Bytes(append_tuner(tuner)) = ((tuner.id + 1) + 4) + 1 * tuner.num_types
  <2>1. append_tuner(tuner) = <<text, num>> \o [i \in 1..tuner.num_types |-> type]
    BY <1>2, <1>3, <1>4 DEF append_tuner
  <2> QED BY <1>5, <1>6, <2>1, BytesConcat
<1> QED BY <1>1, <1>7 DEF calculate_tuner_size, U32

(* The buffer for a native handle holds it: the loop that ends early       *)
(* appends at most what HandleSize counts (dtv_io.c:360-377,               *)
(* dtv_io.c:395-408).                                                      *)
THEOREM HandleFits ==
  ASSUME NEW numFds \in Nat, NEW numInts \in Nat, NEW handle,
         handle.numFds = numFds, handle.numInts = numInts
  PROVE  HandleSize(handle) \in Nat /\ Bytes(HandleFields(handle)) <= HandleSize(handle)
<1>1. PICK version \in FieldRecord : version = Field("version", U32) /\ version.bytes = 4
  BY FieldType DEF U32, FieldName
<1>2. PICK fds \in FieldRecord : fds = Field("numFds", U32) /\ fds.bytes = 4
  BY FieldType DEF U32, FieldName
<1>3. PICK ints \in FieldRecord : ints = Field("numInts", U32) /\ ints.bytes = 4
  BY FieldType DEF U32, FieldName
<1>4. PICK data \in FieldRecord : data = Field("data", U32) /\ data.bytes = 4
  BY FieldType DEF U32, FieldName
<1>5. /\ <<version, fds>> \in Fields /\ Bytes(<<version, fds>>) = 8
      /\ <<ints>> \in Fields /\ Bytes(<<ints>>) = 4
  BY <1>1, <1>2, <1>3, BytesOfOne, BytesOfTwo
<1>6. <<version, fds, ints>> \in Fields /\ Bytes(<<version, fds, ints>>) = 12
  <2>1. <<version, fds, ints>> = Append(<<version, fds>>, ints)
    OBVIOUS
  <2>2. <<version, fds, ints>> = <<version, fds>> \o <<ints>>
    BY <1>5, <2>1, AppendIsConcat DEF Fields
  <2>3. Bytes(<<version, fds>> \o <<ints>>) = 8 + 4
    BY <1>5, BytesConcat
  <2>4. <<version, fds>> \o <<ints>> \in Fields
    BY <1>5, BytesConcat
  <2>5. 8 + 4 = 12
    OBVIOUS
  <2> QED BY <2>2, <2>3, <2>4, <2>5, Zenon
<1>7. PICK l \in Int : l = numInts - numFds
  OBVIOUS
<1>8. Bytes(HandleFields(handle)) = 12 + 4 * (IF l < 0 THEN 0 ELSE l)
  <2>1. /\ [i \in 1..l |-> data] \in Fields
        /\ Bytes([i \in 1..l |-> data]) = 4 * (IF l < 0 THEN 0 ELSE l)
    BY <1>4, BytesOfSame
  <2>2. HandleFields(handle) = <<version, fds, ints>> \o [i \in 1..l |-> data]
    BY <1>1, <1>2, <1>3, <1>4, <1>7 DEF HandleFields
  <2> QED BY <1>6, <2>1, <2>2, BytesConcat
<1>9. HandleSize(handle) = 12 + 4 * numInts
  BY DEF HandleSize, U32, SizeOfInt
<1> QED BY <1>7, <1>8, <1>9

LEMMA BytesOfFour ==
  ASSUME NEW a \in FieldRecord, NEW b \in FieldRecord,
         NEW c \in FieldRecord, NEW d \in FieldRecord
  PROVE  /\ <<a, b, c, d>> \in Fields
         /\ Bytes(<<a, b, c, d>>) = (a.bytes + b.bytes) + (c.bytes + d.bytes)
<1>1. <<a, b, c, d>> = <<a, b>> \o <<c, d>>
  OBVIOUS
<1>2. <<a, b>> \o <<c, d>> \in Fields
  BY BytesOfTwo, BytesConcat
<1>3. Bytes(<<a, b>> \o <<c, d>>) = (a.bytes + b.bytes) + (c.bytes + d.bytes)
  BY BytesOfTwo, BytesConcat
<1> QED BY <1>1, <1>2, <1>3, Zenon

(* The size counted for a program holds what is appended of it, the title  *)
(* it counts and append_program leaves out being the only difference       *)
(* (dtv_pdu.c:85-111, dtv_pdu.c:146-174).                                  *)
THEOREM ProgramFits ==
  ASSUME NEW prog \in tv_program, ~ReadsBeyond(prog)
  PROVE  /\ append_program(prog) \in Fields
         /\ calculate_prog_size(prog) \in Nat
         /\ calculate_prog_size(prog) = Bytes(append_program(prog)) + (prog.title + 1)
<1>1. /\ prog.evt_id \in Nat /\ prog.title \in Nat /\ prog.descpt \in Nat
      /\ prog.rating \in Nat /\ prog.langs \in Seq(Nat) /\ prog.stl_langs \in Seq(Nat)
  BY DEF tv_program
<1>2. PICK l \in Nat : l = Len(prog.langs) /\ DOMAIN prog.langs = 1..l
  BY <1>1
<1>3. l \in 0..Len(prog.langs) /\ l \in 0..Len(prog.stl_langs)
  BY <1>1, <1>2 DEF ReadsBeyond
<1>4. PICK evt_id \in FieldRecord : evt_id = Text("evt_id", prog.evt_id)
                                    /\ evt_id.bytes = prog.evt_id + 1
  BY <1>1, FieldType DEF Text, FieldName
<1>5. PICK start \in FieldRecord : start = Field("start_time", U64) /\ start.bytes = 8
  BY FieldType DEF U64, FieldName
<1>6. PICK duration \in FieldRecord : duration = Field("duration", U64) /\ duration.bytes = 8
  BY FieldType DEF U64, FieldName
<1>7. PICK descpt \in FieldRecord : descpt = Text("descpt", prog.descpt)
                                    /\ descpt.bytes = prog.descpt + 1
  BY <1>1, FieldType DEF Text, FieldName
<1>8. PICK rating \in FieldRecord : rating = Text("rating", prog.rating)
                                    /\ rating.bytes = prog.rating + 1
  BY <1>1, FieldType DEF Text, FieldName
<1>9. PICK num \in FieldRecord : num = Field("lang_num", U32) /\ num.bytes = 4
  BY FieldType DEF U32, FieldName
<1>10. PICK stl_num \in FieldRecord : stl_num = Field("stl_lang_num", U32) /\ stl_num.bytes = 4
  BY FieldType DEF U32, FieldName
<1>11. PICK head \in Fields :
         /\ head = <<evt_id, start, duration, descpt, rating, num>>
         /\ Bytes(head) = ((evt_id.bytes + 8) + (8 + descpt.bytes)) + (rating.bytes + 4)
  <2>1. <<evt_id, start, duration, descpt, rating, num>>
          = <<evt_id, start, duration, descpt>> \o <<rating, num>>
    OBVIOUS
  <2>2. /\ <<evt_id, start, duration, descpt>> \in Fields
        /\ Bytes(<<evt_id, start, duration, descpt>>) = (evt_id.bytes + 8) + (8 + descpt.bytes)
    BY <1>5, <1>6, BytesOfFour
  <2>3. <<rating, num>> \in Fields /\ Bytes(<<rating, num>>) = rating.bytes + 4
    BY <1>9, BytesOfTwo
  <2>4. /\ <<evt_id, start, duration, descpt>> \o <<rating, num>> \in Fields
        /\ Bytes(<<evt_id, start, duration, descpt>> \o <<rating, num>>)
             = ((evt_id.bytes + 8) + (8 + descpt.bytes)) + (rating.bytes + 4)
    BY <2>2, <2>3, BytesConcat
  <2> QED BY <2>1, <2>4, Zenon
<1>12. PICK langs \in Fields :
         /\ langs = [i \in 1..l |-> Text("lang", prog.langs[i])]
         /\ Bytes(langs) = SizeOfTexts(prog.langs)
  <2>1. "lang" \in FieldName
    BY DEF FieldName
  <2>2. SubSeq(prog.langs, 1, l) = prog.langs
    BY <1>1, <1>2
  <2> QED BY <1>1, <1>3, <2>1, <2>2, BytesOfTexts
<1>13. PICK stl_langs \in Fields :
         /\ stl_langs = [i \in 1..l |-> Text("stl_lang", prog.stl_langs[i])]
         /\ Bytes(stl_langs) = SizeOfTexts(SubSeq(prog.stl_langs, 1, l))
  <2>1. "stl_lang" \in FieldName
    BY DEF FieldName
  <2> QED BY <1>1, <1>3, <2>1, BytesOfTexts
<1>14. <<stl_num>> \in Fields /\ Bytes(<<stl_num>>) = 4
  BY <1>10, BytesOfOne
<1>15. append_program(prog) = ((head \o langs) \o <<stl_num>>) \o stl_langs
  BY <1>2, <1>4, <1>5, <1>6, <1>7, <1>8, <1>9, <1>10, <1>11, <1>12, <1>13
  DEF append_program
<1>16. /\ head \o langs \in Fields
       /\ Bytes(head \o langs) = Bytes(head) + Bytes(langs)
  BY BytesConcat
<1>17. /\ (head \o langs) \o <<stl_num>> \in Fields
       /\ Bytes((head \o langs) \o <<stl_num>>) = Bytes(head) + Bytes(langs) + 4
  BY <1>14, <1>16, BytesConcat
<1>18. /\ append_program(prog) \in Fields
       /\ Bytes(append_program(prog)) = Bytes(head) + Bytes(langs) + 4 + Bytes(stl_langs)
  BY <1>15, <1>17, BytesConcat
<1>19. SizeOfTexts(<<prog.evt_id, prog.title, prog.descpt, prog.rating>>)
         = (prog.evt_id + 1) + (prog.title + 1) + (prog.descpt + 1) + (prog.rating + 1)
  <2> DEFINE texts == <<prog.evt_id, prog.title, prog.descpt, prog.rating>>
  <2>1. [i \in DOMAIN texts |-> texts[i] + 1]
          = <<prog.evt_id + 1, prog.title + 1, prog.descpt + 1, prog.rating + 1>>
    OBVIOUS
  <2>2. /\ prog.evt_id + 1 \in Nat /\ prog.title + 1 \in Nat
        /\ prog.descpt + 1 \in Nat /\ prog.rating + 1 \in Nat
    BY <1>1
  <2> QED BY <2>1, <2>2, SumOfFour DEF SizeOfTexts
<1>20. /\ Bytes(head) \in Nat /\ Bytes(langs) \in Nat /\ Bytes(stl_langs) \in Nat
       /\ Bytes(append_program(prog)) \in Nat
  BY <1>18, SizesType
<1>21. calculate_prog_size(prog) =
         SizeOfTexts(<<prog.evt_id, prog.title, prog.descpt, prog.rating>>)
           + 8 + 8 + 4 + Bytes(langs) + 4 + Bytes(stl_langs)
  BY <1>2, <1>12, <1>13 DEF calculate_prog_size, U32, U64
<1>22. calculate_prog_size(prog) = Bytes(append_program(prog)) + (prog.title + 1)
  <2>1. Bytes(append_program(prog)) =
          ((((prog.evt_id + 1) + 8) + (8 + (prog.descpt + 1))) + ((prog.rating + 1) + 4))
            + Bytes(langs) + 4 + Bytes(stl_langs)
    BY <1>4, <1>7, <1>8, <1>11, <1>18
  <2>2. calculate_prog_size(prog) =
          ((prog.evt_id + 1) + (prog.title + 1) + (prog.descpt + 1) + (prog.rating + 1))
            + 8 + 8 + 4 + Bytes(langs) + 4 + Bytes(stl_langs)
    BY <1>19, <1>21
  <2>3. PICK bytes, stl_bytes \in Nat : bytes = Bytes(langs) /\ stl_bytes = Bytes(stl_langs)
    BY <1>20
  <2>4. PICK evt_size, title, desc_size, rate_size \in Nat :
          /\ evt_size = prog.evt_id /\ title = prog.title
          /\ desc_size = prog.descpt /\ rate_size = prog.rating
    BY <1>1
  <2> QED BY <2>1, <2>2, <2>3, <2>4
<1> QED BY <1>1, <1>18, <1>20, <1>22
=============================================================================
