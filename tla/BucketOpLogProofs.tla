-------------------------- MODULE BucketOpLogProofs ---------------------------
(***************************************************************************)
(* Proofs about the op log: what the keys of key.rs do for a scan, and     *)
(* that appends, compactions and crashes keep what drain_since(), the      *)
(* checksums and the callers of append() rely on.                          *)
(***************************************************************************)
EXTENDS BucketOpLog, FiniteSetTheorems, TLAPS

USE SMTT(30), ZenonT(30)

-----------------------------------------------------------------------------
(* Induction and recursion over the naturals, stated with sets.            *)

\* A set of naturals has a least element: the first byte in which two keys
\* differ.
LEMMA LeastElement ==
  ASSUME NEW T, T \subseteq Nat, T # {}
  PROVE  \E m \in T : \A k \in T : m <= k
<1> DEFINE R == OpToRel(<, Nat)
<1>1. IsWellFoundedOn(R, Nat)
  BY ZenonT(30), NatLessThanWellFounded
<1>2. \A a, b \in Nat : a < b => <<a, b>> \in R
  BY ZenonT(30) DEF OpToRel
<1> HIDE DEF R
<1>3. PICK m \in T : \A k \in T : ~(<<k, m>> \in R)
  BY ZenonT(30), <1>1, WFMin
<1>4. ASSUME NEW k \in T PROVE m <= k
  <2>1. k \in Nat /\ m \in Nat
    BY ZenonT(30)
  <2>2. ~(k < m)
    BY ZenonT(30), <1>2, <1>3, <2>1
  <2> QED
    BY <2>1, <2>2
<1> QED
  BY ZenonT(30), <1>4

\* Induction: a set that holds 0 and the successors of its naturals holds
\* every natural.
LEMMA SetInduction ==
  ASSUME NEW S, 0 \in S, \A n \in Nat : n \in S => n + 1 \in S
  PROVE  Nat \subseteq S
<1> SUFFICES ASSUME Nat \ S # {} PROVE FALSE
  BY ZenonT(30)
<1>1. PICK m \in Nat \ S : \A k \in Nat \ S : m <= k
  BY ZenonT(30), LeastElement
<1>2. m # 0 /\ m - 1 \in Nat
  BY <1>1
<1>3. m - 1 \in S
  BY <1>1, <1>2
<1> QED
  BY <1>1, <1>2, <1>3

IsIteration(f, x, g) == f[0] = x /\ \A n \in Nat : f[n + 1] = g[f[n]]

\* Recursion: the iterates of a function exist, so that the shifts and the
\* largest value of an LSN are what their equations say.
LEMMA Iterates ==
  ASSUME NEW S, NEW x \in S, NEW g \in [S -> S]
  PROVE  \E f \in [Nat -> S] : IsIteration(f, x, g)
<1> DEFINE Path(n, h) ==
      h \in [0..n -> S] /\ h[0] = x /\ \A i \in 0..(n - 1) : h[i + 1] = g[h[i]]
           Defined == {n \in Nat : \E h \in [0..n -> S] : Path(n, h)}
<1>1. 0 \in Defined
  <2>1. Path(0, [i \in 0..0 |-> x])
    OBVIOUS
  <2> QED
    BY ZenonT(30), <2>1
<1>2. ASSUME NEW n \in Nat, n \in Defined PROVE n + 1 \in Defined
  <2>1. PICK h \in [0..n -> S] : Path(n, h)
    BY ZenonT(30), <1>2
  <2> DEFINE k == [i \in 0..(n + 1) |-> IF i = n + 1 THEN g[h[n]] ELSE h[i]]
  <2>2. k \in [0..(n + 1) -> S] /\ k[0] = x
    BY <2>1
  <2>3. ASSUME NEW i \in 0..n PROVE k[i + 1] = g[k[i]]
    <3>1. CASE i = n
      BY <3>1
    <3>2. CASE i # n
      BY <3>2, <2>1
    <3> QED
      BY ZenonT(30), <3>1, <3>2
  <2>4. Path(n + 1, k)
    BY <2>2, <2>3
  <2>5. \E kk \in [0..(n + 1) -> S] : Path(n + 1, kk)
    <3> HIDE DEF Path, k
    <3> QED
      BY ZenonT(30), <2>2, <2>4
  <2> QED
    BY <2>5
<1>3. \A n \in Nat : \E h : Path(n, h)
  <2>1. Nat \subseteq Defined
    <3> HIDE DEF Defined
    <3> QED
      BY ZenonT(30), <1>1, <1>2, SetInduction
  <2> QED
    BY ZenonT(30), <2>1
<1>4. ASSUME NEW n \in Nat, NEW h, NEW k, Path(n, h), Path(n + 1, k)
      PROVE  h[n] = k[n]
  <2> DEFINE Agree == {i \in Nat : i <= n => h[i] = k[i]}
  <2>1. 0 \in Agree
    BY ZenonT(30), <1>4
  <2>2. ASSUME NEW i \in Nat, i \in Agree PROVE i + 1 \in Agree
    <3> SUFFICES ASSUME i + 1 <= n PROVE h[i + 1] = k[i + 1]
      OBVIOUS
    <3>1. h[i] = k[i]
      BY <2>2
    <3>2. i \in 0..(n - 1) /\ i \in 0..(n + 1 - 1)
      OBVIOUS
    <3> QED
      BY <3>1, <3>2, <1>4
  <2>3. Nat \subseteq Agree
    <3> HIDE DEF Agree
    <3> QED
      BY ZenonT(30), <2>1, <2>2, SetInduction
  <2> QED
    BY <2>3
<1> DEFINE H(n) == CHOOSE h : Path(n, h)
           f == [n \in Nat |-> H(n)[n]]
<1>5. \A n \in Nat : Path(n, H(n))
  <2> HIDE DEF Path
  <2> QED
    BY ZenonT(30), <1>3
<1> HIDE DEF H
<1>6. f \in [Nat -> S] /\ f[0] = x
  BY <1>5
<1>7. ASSUME NEW n \in Nat PROVE f[n + 1] = g[f[n]]
  <2>1. f[n + 1] = H(n + 1)[n + 1] /\ f[n] = H(n)[n]
    OBVIOUS
  <2>2. Path(n + 1, H(n + 1)) /\ Path(n, H(n))
    BY <1>5
  <2>3. H(n)[n] = H(n + 1)[n]
    <3> HIDE DEF Path
    <3> QED
      BY ZenonT(30), <2>2, <1>4
  <2>4. H(n + 1)[n + 1] = g[H(n + 1)[n]]
    BY <2>2
  <2> QED
    BY ZenonT(30), <2>1, <2>3, <2>4
<1>8. IsIteration(f, x, g)
  BY ZenonT(30), <1>6, <1>7 DEF IsIteration
<1> QED
  BY ZenonT(30), <1>6, <1>8

\* The same for functions on the naturals.
LEMMA NatIterates ==
  ASSUME NEW x \in Nat, NEW g \in [Nat -> Nat]
  PROVE  \E f \in [Nat -> Nat] : IsIteration(f, x, g)
<1>1. PICK S : S = Nat
  BY ZenonT(30)
<1>2. x \in S /\ g \in [S -> S]
  BY ZenonT(30), <1>1
<1>3. \E f \in [Nat -> S] : IsIteration(f, x, g)
  BY ZenonT(30), <1>2, Iterates
<1> QED
  BY ZenonT(30), <1>1, <1>3

-----------------------------------------------------------------------------
(* Numbers as bytes.                                                       *)

\* The equations of the largest value of i bytes.
LEMMA AllOnesEquation ==
  /\ AllOnes[0] = 0
  /\ \A i \in Nat : AllOnes[i] \in Nat /\ AllOnes[i + 1] = AllOnes[i] * Base + (Base - 1)
<1> DEFINE g == [m \in Nat |-> m * Base + (Base - 1)]
<1>1. g \in [Nat -> Nat]
  BY KeyAssumption
<1>2. PICK f \in [Nat -> Nat] : f[0] = 0 /\ \A i \in Nat : f[i + 1] = g[f[i]]
  <2>1. 0 \in Nat
    BY ZenonT(30)
  <2> HIDE DEF g
  <2> QED
    BY ZenonT(30), <1>1, <2>1, NatIterates DEF IsIteration
<1>3. f = [i \in Nat |-> IF i = 0 THEN 0 ELSE f[i - 1] * Base + (Base - 1)]
  <2>1. ASSUME NEW i \in Nat, i # 0 PROVE f[i] = f[i - 1] * Base + (Base - 1)
    <3>1. i - 1 \in Nat /\ (i - 1) + 1 = i
      BY <2>1
    <3> QED
      BY ZenonT(30), <1>2, <3>1
  <2> QED
    BY ZenonT(30), <1>2, <2>1
<1>4. AllOnes = [i \in Nat |-> IF i = 0 THEN 0 ELSE AllOnes[i - 1] * Base + (Base - 1)]
  BY ZenonT(30), <1>3 DEF AllOnes
<1>5. AllOnes[0] = 0
  BY ZenonT(30), <1>4
<1>6. \A i \in Nat : AllOnes[i + 1] = AllOnes[i] * Base + (Base - 1)
  BY <1>4
<1>7. Nat \subseteq {i \in Nat : AllOnes[i] \in Nat}
  <2> DEFINE Typed == {i \in Nat : AllOnes[i] \in Nat}
  <2>1. 0 \in Typed
    BY ZenonT(30), <1>5
  <2>2. ASSUME NEW i \in Nat, i \in Typed PROVE i + 1 \in Typed
    BY <2>2, <1>6, KeyAssumption
  <2> HIDE DEF Typed
  <2>3. Nat \subseteq Typed
    BY ZenonT(30), <2>1, <2>2, SetInduction
  <2> QED
    BY ZenonT(30), <2>3 DEF Typed
<1> QED
  BY ZenonT(30), <1>5, <1>6, <1>7

\* The equations of the shifts of an LSN.
LEMMA ShiftedEquation ==
  ASSUME NEW n \in Nat
  PROVE  /\ Shifted(n)[0] = n
         /\ \A i \in Nat : Shifted(n)[i] \in Nat /\ Shifted(n)[i + 1] = Shifted(n)[i] \div Base
<1> DEFINE g == [m \in Nat |-> m \div Base]
           Eq(f) == f = [i \in Nat |-> IF i = 0 THEN n ELSE f[i - 1] \div Base]
<1>1. g \in [Nat -> Nat]
  BY KeyAssumption
<1>2. PICK f \in [Nat -> Nat] : f[0] = n /\ \A i \in Nat : f[i + 1] = g[f[i]]
  <2>1. n \in Nat
    BY ZenonT(30)
  <2> HIDE DEF g
  <2> QED
    BY ZenonT(30), <1>1, <2>1, NatIterates DEF IsIteration
<1>3. Eq(f)
  <2>1. ASSUME NEW i \in Nat, i # 0 PROVE f[i] = f[i - 1] \div Base
    <3>1. i - 1 \in Nat /\ (i - 1) + 1 = i
      BY <2>1
    <3> QED
      BY ZenonT(30), <1>2, <3>1
  <2> QED
    BY ZenonT(30), <1>2, <2>1
<1>4. Eq(Shifted(n))
  <2>1. Shifted(n) = CHOOSE s : Eq(s)
    BY ZenonT(30) DEF Shifted
  <2> HIDE DEF Eq
  <2> QED
    BY ZenonT(30), <1>3, <2>1
<1>5. Shifted(n)[0] = n
  BY ZenonT(30), <1>4
<1>6. \A i \in Nat : Shifted(n)[i + 1] = Shifted(n)[i] \div Base
  BY <1>4
<1>7. Nat \subseteq {i \in Nat : Shifted(n)[i] \in Nat}
  <2> DEFINE Typed == {i \in Nat : Shifted(n)[i] \in Nat}
  <2>1. 0 \in Typed
    BY ZenonT(30), <1>5
  <2>2. ASSUME NEW i \in Nat, i \in Typed PROVE i + 1 \in Typed
    <3>1. \A m \in Nat : m \div Base \in Nat
      BY KeyAssumption
    <3> QED
      BY <2>2, <1>6, <3>1
  <2> HIDE DEF Typed
  <2>3. Nat \subseteq Typed
    BY ZenonT(30), <2>1, <2>2, SetInduction
  <2> QED
    BY ZenonT(30), <2>3 DEF Typed
<1> QED
  BY ZenonT(30), <1>5, <1>6, <1>7

\* A shift is monotone in the LSN.
LEMMA ShiftedMonotone ==
  ASSUME NEW l \in Nat, NEW m \in Nat, l <= m
  PROVE  \A i \in Nat : Shifted(l)[i] <= Shifted(m)[i]
<1> DEFINE Ordered == {i \in Nat : Shifted(l)[i] <= Shifted(m)[i]}
<1>1. 0 \in Ordered
  BY ZenonT(30), ShiftedEquation
<1>2. ASSUME NEW i \in Nat, i \in Ordered PROVE i + 1 \in Ordered
  <2>1. \A a, b \in Nat : a <= b => a \div Base <= b \div Base
    BY KeyAssumption
  <2>2. /\ Shifted(l)[i] \in Nat /\ Shifted(l)[i + 1] = Shifted(l)[i] \div Base
        /\ Shifted(m)[i] \in Nat /\ Shifted(m)[i + 1] = Shifted(m)[i] \div Base
    BY ZenonT(30), ShiftedEquation
  <2> QED
    BY <1>2, <2>1, <2>2
<1>3. Nat \subseteq Ordered
  <2> HIDE DEF Ordered
  <2> QED
    BY ZenonT(30), <1>1, <1>2, SetInduction
<1> QED
  BY ZenonT(30), <1>3

\* Nothing is left of an LSN after LsnBytes shifts.
LEMMA ShiftedOut ==
  ASSUME NEW l \in 0..MaxU64
  PROVE  l \in Nat /\ Shifted(l)[LsnBytes] = 0
<1>1. LsnBytes \in Nat /\ MaxU64 \in Nat /\ MaxU64 = AllOnes[LsnBytes]
  BY ZenonT(30), AllOnesEquation, KeyAssumption DEF MaxU64
<1>2. l \in Nat /\ l <= AllOnes[LsnBytes]
  BY <1>1
<1> DEFINE Fits == {i \in Nat : i <= LsnBytes => Shifted(l)[i] <= AllOnes[LsnBytes - i]}
<1>3. 0 \in Fits
  <2>1. LsnBytes - 0 = LsnBytes
    BY <1>1
  <2> QED
    BY ZenonT(30), <1>2, <2>1, ShiftedEquation
<1>4. ASSUME NEW i \in Nat, i \in Fits PROVE i + 1 \in Fits
  <2> SUFFICES ASSUME i + 1 <= LsnBytes PROVE Shifted(l)[i + 1] <= AllOnes[LsnBytes - (i + 1)]
    OBVIOUS
  <2>1. PICK j \in Nat : j = LsnBytes - (i + 1)
    BY <1>1
  <2>2. LsnBytes - i = j + 1 /\ i <= LsnBytes
    BY <1>1, <2>1
  <2>3. Shifted(l)[i] <= AllOnes[j + 1]
    BY ZenonT(30), <1>4, <2>2
  <2>4. AllOnes[j] \in Nat /\ AllOnes[j + 1] = AllOnes[j] * Base + (Base - 1)
    BY ZenonT(30), AllOnesEquation
  <2>5. Shifted(l)[i] \in Nat /\ Shifted(l)[i + 1] = Shifted(l)[i] \div Base
    BY ZenonT(30), <1>2, ShiftedEquation
  <2>6. \A a, b \in Nat : a <= b * Base + (Base - 1) => a \div Base <= b
    BY KeyAssumption
  <2> QED
    BY ZenonT(30), <2>1, <2>3, <2>4, <2>5, <2>6
<1>5. Nat \subseteq Fits
  <2> HIDE DEF Fits
  <2> QED
    BY ZenonT(30), <1>3, <1>4, SetInduction
<1>6. Shifted(l)[LsnBytes] <= AllOnes[LsnBytes - LsnBytes]
  BY <1>1, <1>5
<1>7. LsnBytes - LsnBytes = 0
  BY <1>1
<1>8. Shifted(l)[LsnBytes] <= 0 /\ Shifted(l)[LsnBytes] \in Nat
  BY ZenonT(30), <1>1, <1>2, <1>6, <1>7, AllOnesEquation, ShiftedEquation
<1> QED
  BY <1>2, <1>8

\* An LSN has LsnBytes bytes.
LEMMA BytesType ==
  ASSUME NEW l \in Nat
  PROVE  to_be_bytes(l) \in [1..LsnBytes -> 0..(Base - 1)]
<1> SUFFICES ASSUME NEW i \in 1..LsnBytes PROVE Shifted(l)[LsnBytes - i] % Base \in 0..(Base - 1)
  BY ZenonT(30) DEF to_be_bytes
<1>1. LsnBytes - i \in Nat
  BY KeyAssumption
<1>2. Shifted(l)[LsnBytes - i] \in Nat
  BY ZenonT(30), <1>1, ShiftedEquation
<1>3. \A a \in Nat : a % Base \in 0..(Base - 1)
  BY KeyAssumption
<1> QED
  BY ZenonT(30), <1>2, <1>3

\* Of two numbers that agree above their lowest byte, the smaller has the
\* smaller lowest byte.
LEMMA LowByte ==
  \A a, b \in Nat : a < b /\ a \div Base = b \div Base => a % Base < b % Base
<1>1. ASSUME NEW c \in Nat
      PROVE  /\ c = Base * (c \div Base) + (c % Base)
             /\ c % Base \in Nat /\ Base * (c \div Base) \in Nat
  <2>1. Base \in Nat \ {0}
    BY ZenonT(30), KeyAssumption
  <2>2. c % Base \in Nat /\ c \div Base \in Nat
    BY <2>1
  <2>3. c = Base * (c \div Base) + (c % Base)
    BY <2>1
  <2> QED
    BY <2>1, <2>2, <2>3
<1> SUFFICES ASSUME NEW a \in Nat, NEW b \in Nat, a < b, a \div Base = b \div Base
             PROVE  a % Base < b % Base
  BY ZenonT(30)
<1>2. PICK d \in Nat : d = Base * (a \div Base)
  BY ZenonT(30), <1>1
<1>3. PICK x \in Nat : x = a % Base
  BY ZenonT(30), <1>1
<1>4. PICK y \in Nat : y = b % Base
  BY ZenonT(30), <1>1
<1>5. a = d + x
  BY ZenonT(30), <1>1, <1>2, <1>3
<1>6. b = d + y
  <2>1. d = Base * (b \div Base)
    BY ZenonT(30), <1>2
  <2> QED
    BY ZenonT(30), <1>1, <1>4, <2>1
<1>7. x < y
  BY ONLY <1>5, <1>6, a < b, x \in Nat, y \in Nat, d \in Nat, SMTT(30)
<1> QED
  BY ZenonT(30), <1>3, <1>4, <1>7

\* Big-endian bytes keep the order of LSNs (key.rs:11): the first byte in
\* which two LSNs differ is smaller in the smaller one.
LEMMA BytesOrder ==
  ASSUME NEW l \in 0..MaxU64, NEW m \in 0..MaxU64, l < m
  PROVE  \E p \in 1..LsnBytes :
           /\ \A i \in 1..(p - 1) : to_be_bytes(l)[i] = to_be_bytes(m)[i]
           /\ to_be_bytes(l)[p] < to_be_bytes(m)[p]
<1>1. /\ l \in Nat /\ Shifted(l)[LsnBytes] = 0
      /\ m \in Nat /\ Shifted(m)[LsnBytes] = 0
  BY ShiftedOut
<1>2. LsnBytes \in Nat \ {0} /\ Base \in Nat \ {0, 1}
  BY ZenonT(30), KeyAssumption
<1> DEFINE Differ == {i \in 0..LsnBytes : Shifted(l)[LsnBytes - i] # Shifted(m)[LsnBytes - i]}
<1>3. LsnBytes \in Differ
  <2>1. LsnBytes - LsnBytes = 0 /\ LsnBytes \in 0..LsnBytes
    BY <1>2
  <2>2. Shifted(l)[0] = l /\ Shifted(m)[0] = m
    BY ZenonT(30), <1>1, ShiftedEquation
  <2> QED
    BY <1>1, <2>1, <2>2
<1>4. PICK p \in Differ : \A i \in Differ : p <= i
  <2>1. Differ \subseteq Nat /\ Differ # {}
    BY <1>2, <1>3
  <2> HIDE DEF Differ
  <2> QED
    BY ZenonT(30), <2>1, LeastElement
<1>5. p \in 1..LsnBytes
  <2>1. LsnBytes - 0 = LsnBytes
    BY <1>2
  <2>2. p # 0
    BY <1>1, <2>1
  <2> QED
    BY <1>2, <2>2
<1>6. ASSUME NEW i \in 0..(p - 1)
      PROVE  Shifted(l)[LsnBytes - i] = Shifted(m)[LsnBytes - i]
  <2>1. i \in 0..LsnBytes /\ i < p
    BY <1>2, <1>5
  <2>2. i \notin Differ
    <3> HIDE DEF Differ
    <3> QED
      BY <1>2, <1>4, <1>5, <2>1
  <2> QED
    BY ZenonT(30), <2>1, <2>2
<1>7. ASSUME NEW i \in 1..(p - 1) PROVE to_be_bytes(l)[i] = to_be_bytes(m)[i]
  <2>1. i \in 0..(p - 1) /\ i \in 1..LsnBytes
    BY <1>2, <1>5
  <2> QED
    BY <1>6, <2>1 DEF to_be_bytes
<1>8. to_be_bytes(l)[p] < to_be_bytes(m)[p]
  <2>1. PICK q \in Nat : q = LsnBytes - p
    BY <1>2, <1>5
  <2>2. LsnBytes - (p - 1) = q + 1 /\ p - 1 \in 0..(p - 1)
    BY <1>2, <1>5, <2>1
  <2>3. Shifted(l)[q + 1] = Shifted(m)[q + 1]
    BY ZenonT(30), <1>6, <2>2
  <2>4. /\ Shifted(l)[q] \in Nat /\ Shifted(l)[q + 1] = Shifted(l)[q] \div Base
        /\ Shifted(m)[q] \in Nat /\ Shifted(m)[q + 1] = Shifted(m)[q] \div Base
    BY <1>1, ShiftedEquation
  <2>5. Shifted(l)[q] <= Shifted(m)[q]
    <3>1. l <= m
      BY <1>1
    <3> QED
      BY ZenonT(30), <1>1, <3>1, ShiftedMonotone
  <2>6. Shifted(l)[q] # Shifted(m)[q]
    BY <1>4, <2>1
  <2>7. Shifted(l)[q] < Shifted(m)[q]
    BY <2>4, <2>5, <2>6
  <2>8. Shifted(l)[q] \div Base = Shifted(m)[q] \div Base
    BY ZenonT(30), <2>3, <2>4
  <2>9. PICK a \in Nat, b \in Nat : a = Shifted(l)[q] /\ b = Shifted(m)[q]
    BY ZenonT(30), <2>4
  <2>10. a < b /\ a \div Base = b \div Base
    BY ZenonT(30), <2>7, <2>8, <2>9
  <2>11. a % Base < b % Base
    BY ONLY <2>10, LowByte, ZenonT(30)
  <2> QED
    BY ZenonT(30), <1>5, <2>1, <2>9, <2>11 DEF to_be_bytes
<1> QED
  BY ZenonT(30), <1>5, <1>7, <1>8

-----------------------------------------------------------------------------
(* Keys.                                                                   *)

\* The first byte in which two keys differ decides their order.
LEMMA FirstDifference ==
  ASSUME NEW k1 \in Seq(Int), NEW k2 \in Seq(Int), NEW p \in 1..Len(k1), p <= Len(k2),
         \A i \in 1..(p - 1) : k1[i] = k2[i], k1[p] # k2[p]
  PROVE  KeyLess(k1, k2) <=> k1[p] < k2[p]
<1>1. Len(k1) \in Nat /\ Len(k2) \in Nat /\ p \in Nat
  OBVIOUS
<1>2. ASSUME KeyLess(k1, k2) PROVE k1[p] < k2[p]
  <2>1. PICK n \in 0..Len(k1) :
          /\ n <= Len(k2)
          /\ \A i \in 1..n : k1[i] = k2[i]
          /\ \/ n = Len(k1) /\ n < Len(k2)
             \/ n < Len(k1) /\ n < Len(k2) /\ k1[n + 1] < k2[n + 1]
    BY ZenonT(30), <1>2 DEF KeyLess
  <2>2. n < p
    <3>1. ~(p \in 1..n)
      BY ZenonT(30), <2>1
    <3> QED
      BY <1>1, <3>1
  <2>3. n < Len(k1) /\ n + 1 \in 1..Len(k1) /\ n + 1 \in 1..Len(k2) /\ k1[n + 1] < k2[n + 1]
    BY <1>1, <2>1, <2>2
  <2>4. k1[n + 1] # k2[n + 1]
    BY <1>1, <2>3
  <2>5. n + 1 = p
    <3>1. ~(n + 1 \in 1..(p - 1))
      BY ZenonT(30), <2>4
    <3> QED
      BY <1>1, <2>2, <3>1
  <2> QED
    BY ZenonT(30), <2>3, <2>5
<1>3. ASSUME k1[p] < k2[p] PROVE KeyLess(k1, k2)
  <2>1. PICK n \in 0..Len(k1) : n = p - 1
    BY <1>1
  <2>2. n <= Len(k2) /\ n < Len(k1) /\ n < Len(k2) /\ n + 1 = p
    BY <1>1, <2>1
  <2>3. \A i \in 1..n : k1[i] = k2[i]
    BY ZenonT(30), <2>1
  <2> QED
    BY ZenonT(30), <1>3, <2>2, <2>3 DEF KeyLess
<1> QED
  BY ZenonT(30), <1>2, <1>3

\* No key is before itself.
LEMMA KeyLessIrreflexive ==
  ASSUME NEW k \in Seq(Int)
  PROVE  ~KeyLess(k, k)
<1> SUFFICES ASSUME KeyLess(k, k) PROVE FALSE
  BY ZenonT(30)
<1>1. PICK n \in 0..Len(k) : n < Len(k) /\ k[n + 1] < k[n + 1]
  BY DEF KeyLess
<1>2. k[n + 1] \in Int
  BY <1>1
<1> QED
  BY <1>1, <1>2

\* What comes after the first part of a key is the second part.
LEMMA Concatenation ==
  ASSUME NEW h \in Seq(Int), NEW d \in Seq(Int)
  PROVE  /\ h \o d \in Seq(Int) /\ Len(h \o d) = Len(h) + Len(d)
         /\ \A i \in 1..Len(h) : (h \o d)[i] = h[i]
         /\ \A i \in 1..Len(d) : (h \o d)[Len(h) + i] = d[i]
OBVIOUS

\* The three parts of a key (key.rs:21).
LEMMA KeyParts ==
  ASSUME NEW b \in Seq(0..(Base - 1)), NEW l \in Nat
  PROVE  /\ make_key(b, l) \in Seq(Int)
         /\ Len(make_key(b, l)) = 1 + Len(b) + LsnBytes
         /\ make_key(b, l)[1] = Len(b)
         /\ \A i \in 1..Len(b) : make_key(b, l)[1 + i] = b[i]
         /\ \A i \in 1..LsnBytes : make_key(b, l)[1 + Len(b) + i] = to_be_bytes(l)[i]
<1> DEFINE d == to_be_bytes(l)
<1>1. LsnBytes \in Nat /\ Base \in Nat
  BY ZenonT(30), KeyAssumption
<1>2. d \in Seq(Int) /\ Len(d) = LsnBytes
  <2>1. d \in [1..LsnBytes -> 0..(Base - 1)]
    BY ZenonT(30), BytesType
  <2> HIDE DEF d
  <2> QED
    BY <1>1, <2>1
<1>3. b \in Seq(Int) /\ Len(b) \in Nat
  BY <1>1
<1>4. make_key(b, l) = <<Len(b)>> \o b \o d
  BY ZenonT(30) DEF make_key
<1> HIDE DEF d
<1>5. /\ <<Len(b)>> \o b \in Seq(Int) /\ Len(<<Len(b)>> \o b) = 1 + Len(b)
      /\ (<<Len(b)>> \o b)[1] = Len(b)
      /\ \A i \in 1..Len(b) : (<<Len(b)>> \o b)[1 + i] = b[i]
  BY <1>3
<1>6. PICK h \in Seq(Int) : h = <<Len(b)>> \o b
  BY ZenonT(30), <1>5
<1>7. /\ h \o d \in Seq(Int) /\ Len(h \o d) = Len(h) + Len(d)
      /\ \A i \in 1..Len(h) : (h \o d)[i] = h[i]
      /\ \A i \in 1..Len(d) : (h \o d)[Len(h) + i] = d[i]
  BY ZenonT(30), <1>2, Concatenation
<1>8. make_key(b, l) = h \o d /\ Len(h) = 1 + Len(b)
  BY ZenonT(30), <1>4, <1>5, <1>6
<1>9. make_key(b, l)[1] = Len(b)
  <2>1. 1 \in 1..Len(h)
    BY <1>3, <1>8
  <2> QED
    BY <1>5, <1>6, <1>7, <1>8, <2>1
<1>10. ASSUME NEW i \in 1..Len(b) PROVE make_key(b, l)[1 + i] = b[i]
  <2>1. 1 + i \in 1..Len(h)
    BY <1>3, <1>8
  <2> QED
    BY ZenonT(30), <1>5, <1>6, <1>7, <1>8, <2>1
<1>11. ASSUME NEW i \in 1..LsnBytes PROVE make_key(b, l)[1 + Len(b) + i] = d[i]
  BY ZenonT(30), <1>2, <1>7, <1>8
<1> QED
  BY ZenonT(30), <1>2, <1>7, <1>8, <1>9, <1>10, <1>11 DEF d

\* The bytes of a key before the LSN do not depend on the LSN.
LEMMA KeyHeader ==
  ASSUME NEW b \in Seq(0..(Base - 1)), NEW l \in Nat, NEW m \in Nat, NEW p \in 1..(1 + Len(b))
  PROVE  make_key(b, l)[p] = make_key(b, m)[p]
<1>1. Len(b) \in Nat
  OBVIOUS
<1>2. CASE p = 1
  <2>1. make_key(b, l)[1] = Len(b) /\ make_key(b, m)[1] = Len(b)
    BY ZenonT(30), KeyParts
  <2> QED
    BY ZenonT(30), <1>2, <2>1
<1>3. CASE p # 1
  <2>1. PICK i \in 1..Len(b) : p = 1 + i
    <3>1. p - 1 \in 1..Len(b) /\ p = 1 + (p - 1)
      BY <1>1, <1>3
    <3> QED
      BY ZenonT(30), <3>1
  <2> QED
    BY <2>1, KeyParts
<1> QED
  BY ZenonT(30), <1>2, <1>3

\* Within a bucket, the order of the keys is the order of the LSNs.
LEMMA SameBucketLess ==
  ASSUME NEW b \in Seq(0..(Base - 1)), NEW l \in 0..MaxU64, NEW m \in 0..MaxU64, l < m
  PROVE  KeyLess(make_key(b, l), make_key(b, m)) /\ ~KeyLess(make_key(b, m), make_key(b, l))
<1>1. LsnBytes \in Nat /\ Len(b) \in Nat /\ l \in Nat /\ m \in Nat
  BY KeyAssumption, ShiftedOut
<1>2. PICK q \in 1..LsnBytes :
        /\ \A i \in 1..(q - 1) : to_be_bytes(l)[i] = to_be_bytes(m)[i]
        /\ to_be_bytes(l)[q] < to_be_bytes(m)[q]
  BY ZenonT(30), BytesOrder
<1> DEFINE x == make_key(b, l)
           y == make_key(b, m)
           p == 1 + Len(b) + q
<1>3. /\ x \in Seq(Int) /\ y \in Seq(Int)
      /\ Len(x) = 1 + Len(b) + LsnBytes /\ Len(y) = 1 + Len(b) + LsnBytes
      /\ \A i \in 1..LsnBytes : /\ x[1 + Len(b) + i] = to_be_bytes(l)[i]
                                /\ y[1 + Len(b) + i] = to_be_bytes(m)[i]
  BY ZenonT(30), <1>1, KeyParts
<1>4. \A i \in 1..(1 + Len(b)) : x[i] = y[i]
  BY <1>1, KeyHeader
<1> HIDE DEF x, y
<1>5. ASSUME NEW i \in 1..(p - 1) PROVE x[i] = y[i]
  <2>1. CASE i <= 1 + Len(b)
    BY <1>1, <1>4, <2>1
  <2>2. CASE ~(i <= 1 + Len(b))
    <3>1. PICK j \in 1..(q - 1) : i = 1 + Len(b) + j
      <4>1. i - (1 + Len(b)) \in 1..(q - 1) /\ i = 1 + Len(b) + (i - (1 + Len(b)))
        BY <1>1, <2>2
      <4> QED
        BY ZenonT(30), <4>1
    <3>2. j \in 1..LsnBytes
      BY <1>1
    <3> QED
      BY ZenonT(30), <1>2, <1>3, <3>1, <3>2
  <2> QED
    BY ZenonT(30), <2>1, <2>2
<1>6. x[p] < y[p]
  BY ZenonT(30), <1>2, <1>3
<1>7. p \in 1..Len(x) /\ p <= Len(y) /\ p \in 1..Len(y) /\ p <= Len(x)
  BY <1>1, <1>3
<1>8. x[p] \in Int /\ y[p] \in Int
  BY <1>3, <1>7
<1>9. x[p] # y[p] /\ ~(y[p] < x[p])
  BY <1>6, <1>8
<1> HIDE DEF p
<1>10. KeyLess(x, y)
  BY ZenonT(30), <1>3, <1>5, <1>6, <1>7, <1>9, FirstDifference
<1>11. ~KeyLess(y, x)
  BY ZenonT(30), <1>3, <1>5, <1>7, <1>9, FirstDifference
<1> QED
  BY ZenonT(30), <1>10, <1>11 DEF x, y

\* Within a bucket, keys compare as their LSNs do.
LEMMA SameBucketOrder ==
  ASSUME NEW b \in Seq(0..(Base - 1)), NEW l \in 0..MaxU64, NEW m \in 0..MaxU64
  PROVE  KeyLess(make_key(b, l), make_key(b, m)) <=> l < m
<1>1. l \in Nat /\ m \in Nat
  BY ShiftedOut
<1>2. CASE l < m
  BY ZenonT(30), <1>2, SameBucketLess
<1>3. CASE m < l
  BY ZenonT(30), <1>1, <1>3, SameBucketLess
<1>4. CASE l = m
  <2>1. make_key(b, l) \in Seq(Int)
    BY ZenonT(30), <1>1, KeyParts
  <2> QED
    BY <1>1, <1>4, <2>1, KeyLessIrreflexive
<1> QED
  BY <1>1, <1>2, <1>3, <1>4

\* The keys of two buckets differ before the LSN: because of the length
\* prefix, also if one id is a prefix of the other (key.rs:5).
LEMMA HeadersDiffer ==
  ASSUME NEW b \in Seq(0..(Base - 1)), NEW c \in Seq(0..(Base - 1)), b # c
  PROVE  \E p \in 1..(1 + Len(b)) :
           /\ p <= 1 + Len(c)
           /\ \A l, m \in Nat :
                /\ \A i \in 1..(p - 1) : make_key(b, l)[i] = make_key(c, m)[i]
                /\ make_key(b, l)[p] # make_key(c, m)[p]
<1>1. Len(b) \in Nat /\ Len(c) \in Nat
  OBVIOUS
<1>2. CASE Len(b) # Len(c)
  <2>1. ASSUME NEW l \in Nat, NEW m \in Nat PROVE make_key(b, l)[1] # make_key(c, m)[1]
    <3>1. make_key(b, l)[1] = Len(b) /\ make_key(c, m)[1] = Len(c)
      BY ZenonT(30), KeyParts
    <3> QED
      BY ZenonT(30), <1>2, <3>1
  <2>2. 1 \in 1..(1 + Len(b)) /\ 1 <= 1 + Len(c) /\ 1..(1 - 1) = {}
    BY <1>1
  <2> QED
    BY ZenonT(30), <2>1, <2>2
<1>3. CASE Len(b) = Len(c)
  <2> DEFINE Differ == {i \in 1..Len(b) : b[i] # c[i]}
  <2>1. Differ # {}
    BY <1>1, <1>3
  <2>2. PICK q \in Differ : \A i \in Differ : q <= i
    <3>1. Differ \subseteq Nat
      BY <1>1
    <3> HIDE DEF Differ
    <3> QED
      BY ZenonT(30), <2>1, <3>1, LeastElement
  <2>3. q \in 1..Len(b) /\ b[q] # c[q] /\ \A i \in 1..(q - 1) : b[i] = c[i]
    <3>1. q \in 1..Len(b) /\ b[q] # c[q]
      BY ZenonT(30)
    <3>2. ASSUME NEW i \in 1..(q - 1) PROVE b[i] = c[i]
      <4>1. i \in 1..Len(b) /\ ~(q <= i)
        BY <1>1, <3>1
      <4>2. i \notin Differ
        BY ZenonT(30), <2>2, <4>1
      <4> QED
        BY ZenonT(30), <4>1, <4>2
    <3> QED
      BY ZenonT(30), <3>1, <3>2
  <2> HIDE DEF Differ
  <2>4. ASSUME NEW l \in Nat, NEW m \in Nat
        PROVE  /\ \A i \in 1..q : make_key(b, l)[i] = make_key(c, m)[i]
               /\ make_key(b, l)[1 + q] # make_key(c, m)[1 + q]
    <3>1. /\ make_key(b, l)[1] = Len(b) /\ make_key(c, m)[1] = Len(c)
          /\ \A i \in 1..Len(b) : make_key(b, l)[1 + i] = b[i] /\ make_key(c, m)[1 + i] = c[i]
      BY ZenonT(30), <1>3, KeyParts
    <3>2. ASSUME NEW i \in 1..q PROVE make_key(b, l)[i] = make_key(c, m)[i]
      <4>1. CASE i = 1
        BY ZenonT(30), <1>3, <3>1, <4>1
      <4>2. CASE i # 1
        <5>1. PICK j \in 1..(q - 1) : i = 1 + j
          <6>1. i - 1 \in 1..(q - 1) /\ i = 1 + (i - 1)
            BY <2>3, <4>2
          <6> QED
            BY ZenonT(30), <6>1
        <5>2. j \in 1..Len(b)
          BY <1>1, <2>3
        <5> QED
          BY ZenonT(30), <2>3, <3>1, <5>1, <5>2
      <4> QED
        BY ZenonT(30), <4>1, <4>2
    <3> QED
      BY ZenonT(30), <2>3, <3>1, <3>2
  <2>5. 1 + q \in 1..(1 + Len(b)) /\ 1 + q <= 1 + Len(c) /\ (1 + q) - 1 = q
    BY <1>1, <1>3, <2>3
  <2> QED
    BY <2>4, <2>5
<1> QED
  BY ZenonT(30), <1>2, <1>3

\* How a key of another bucket compares with the keys of a bucket does not
\* depend on their LSNs, so that no scan of the bucket meets it.
LEMMA OtherBucketOrder ==
  ASSUME NEW b \in Seq(0..(Base - 1)), NEW c \in Seq(0..(Base - 1)), b # c,
         NEW l \in Nat, NEW m \in Nat, NEW n \in Nat
  PROVE  /\ make_key(c, l) # make_key(b, m)
         /\ KeyLess(make_key(c, l), make_key(b, m)) <=> KeyLess(make_key(c, l), make_key(b, n))
<1>1. PICK p \in 1..(1 + Len(c)) :
        /\ p <= 1 + Len(b)
        /\ \A x, y \in Nat :
             /\ \A i \in 1..(p - 1) : make_key(c, x)[i] = make_key(b, y)[i]
             /\ make_key(c, x)[p] # make_key(b, y)[p]
  BY ZenonT(30), HeadersDiffer
<1>2. LsnBytes \in Nat /\ Len(b) \in Nat /\ Len(c) \in Nat
  BY KeyAssumption
<1>3. make_key(c, l) \in Seq(Int) /\ Len(make_key(c, l)) = 1 + Len(c) + LsnBytes
  BY ZenonT(30), KeyParts
<1>4. ASSUME NEW y \in Nat
      PROVE  KeyLess(make_key(c, l), make_key(b, y)) <=> make_key(c, l)[p] < make_key(b, y)[p]
  <2>1. make_key(b, y) \in Seq(Int) /\ Len(make_key(b, y)) = 1 + Len(b) + LsnBytes
    BY ZenonT(30), KeyParts
  <2>2. p \in 1..Len(make_key(c, l)) /\ p <= Len(make_key(b, y))
    <3>1. p \in 1..(1 + Len(c)) /\ p <= 1 + Len(b)
      BY ZenonT(30), <1>1
    <3> QED
      BY ONLY <1>2, <1>3, <2>1, <3>1, SMTT(30)
  <2>3. /\ \A i \in 1..(p - 1) : make_key(c, l)[i] = make_key(b, y)[i]
        /\ make_key(c, l)[p] # make_key(b, y)[p]
    BY ZenonT(30), <1>1
  <2> QED
    BY ZenonT(30), <1>3, <2>1, <2>2, <2>3, FirstDifference
<1>5. make_key(b, m)[p] = make_key(b, n)[p]
  <2>1. p \in 1..(1 + Len(b))
    BY <1>1, <1>2
  <2> QED
    BY <2>1, KeyHeader
<1> QED
  BY <1>1, <1>4, <1>5

\* Two appends have the same key only if bucket and LSN are the same.
LEMMA KeyInjective ==
  ASSUME NEW b \in Seq(0..(Base - 1)), NEW c \in Seq(0..(Base - 1)),
         NEW l \in 0..MaxU64, NEW m \in 0..MaxU64, make_key(b, l) = make_key(c, m)
  PROVE  b = c /\ l = m
<1>1. l \in Nat /\ m \in Nat
  BY ZenonT(30), ShiftedOut
<1>2. b = c
  BY ZenonT(30), <1>1, OtherBucketOrder
<1>3. make_key(b, l) \in Seq(Int) /\ make_key(b, l) = make_key(b, m)
  BY ZenonT(30), <1>1, <1>2, KeyParts
<1>4. ~(l < m)
  BY ZenonT(30), <1>3, SameBucketLess, KeyLessIrreflexive
<1>5. ~(m < l)
  BY ZenonT(30), <1>3, SameBucketLess, KeyLessIrreflexive
<1> QED
  BY <1>1, <1>2, <1>4, <1>5

-----------------------------------------------------------------------------
(* The inductive invariant.                                                *)

\* The write transaction belongs to the one append() that is in it.
LockInv == \A k \in Calls : call[k].st = "writing" <=> lock = k

\* A compact() in its transaction has a cutoff, and a cutoff that is old
\* removes too little, never too much.
CutoffInv ==
  /\ lock = Compactor => cutoff # None
  /\ cutoff # None => cutoff = 0 \/ cutoff + Ttl <= clock

\* The table holds the operations that it ought to, each under its own key.
StoredInv ==
  /\ IsFiniteSet(DOMAIN ops)
  /\ \A key \in DOMAIN ops : ops[key].call \in kept /\ key = Key(ops[key].call)
  /\ \A k \in kept : /\ call[k].st = "done" /\ Key(k) \in DOMAIN ops
                     /\ ops[Key(k)] = [call |-> k, at |-> call[k].at]

IndInv == TypeOK /\ LockInv /\ CutoffInv /\ StoredInv /\ ChecksumExact /\ AckedSurvive

CallRecord == [st : {"stamped", "writing", "done", "failed"},
               bucket : BucketIds, lsn : Lsns, at : 0..MaxTime]

\* The constants, without the arithmetic of the keys.
LEMMA Limits ==
  /\ Ttl \in Nat /\ MaxTime \in Nat /\ MaxCompactions \in Nat /\ MaxCrashes \in Nat
  /\ Free \notin Calls /\ Compactor \notin Calls /\ Free # Compactor
  /\ BucketIds \subseteq Seq(0..(Base - 1)) /\ Lsns \subseteq 0..MaxU64
BY ZenonT(30), OpLogAssumption DEF Free, Compactor

\* A call that has arguments has those of a record.
LEMMA CallFields ==
  ASSUME TypeOK, NEW k \in Calls, call[k].st # "idle"
  PROVE  /\ call[k] \in CallRecord
         /\ call[k].bucket \in Seq(0..(Base - 1)) /\ call[k].bucket \in BucketIds
         /\ call[k].lsn \in 0..MaxU64 /\ call[k].at \in 0..MaxTime
<1>1. call[k] \in {Idle} \cup CallRecord /\ Idle.st = "idle"
  BY ZenonT(30) DEF TypeOK, CallRecord, Idle
<1>2. call[k] \in CallRecord
  BY ZenonT(30), <1>1
<1> QED
  BY ZenonT(30), <1>2, Limits DEF CallRecord

\* Two calls with the same key are for the same bucket and LSN.
LEMMA SameKey ==
  ASSUME TypeOK, NEW j \in Calls, NEW k \in Calls, call[j].st # "idle", call[k].st # "idle"
  PROVE  Key(j) = Key(k) <=> call[j].bucket = call[k].bucket /\ call[j].lsn = call[k].lsn
BY CallFields, KeyInjective DEF Key

\* A step that moves a call on keeps its arguments.
LEMMA Moved ==
  ASSUME TypeOK, NEW k \in Calls, call[k].st # "idle", NEW s \in {"writing", "done", "failed"},
         call' = [call EXCEPT ![k].st = s]
  PROVE  /\ call' \in [Calls -> {Idle} \cup CallRecord]
         /\ call'[k].st = s /\ call'[k].bucket = call[k].bucket
         /\ call'[k].lsn = call[k].lsn /\ call'[k].at = call[k].at
         /\ \A j \in Calls \ {k} : call'[j] = call[j]
<1>1. call[k] \in CallRecord /\ call \in [Calls -> {Idle} \cup CallRecord]
  BY ZenonT(30), CallFields DEF TypeOK, CallRecord
<1>2. call' = [call EXCEPT ![k] = [call[k] EXCEPT !.st = s]]
  BY ZenonT(30)
<1>3. /\ [call[k] EXCEPT !.st = s] \in CallRecord
      /\ [call[k] EXCEPT !.st = s].st = s
      /\ [call[k] EXCEPT !.st = s].bucket = call[k].bucket
      /\ [call[k] EXCEPT !.st = s].lsn = call[k].lsn
      /\ [call[k] EXCEPT !.st = s].at = call[k].at
  BY ZenonT(30), <1>1 DEF CallRecord
<1>4. PICK r : r = [call[k] EXCEPT !.st = s]
  BY ZenonT(30)
<1>5. call' = [call EXCEPT ![k] = r] /\ r \in CallRecord
  BY ZenonT(30), <1>2, <1>3, <1>4
<1>6. /\ call' \in [Calls -> {Idle} \cup CallRecord] /\ call'[k] = r
      /\ \A j \in Calls \ {k} : call'[j] = call[j]
  BY ZenonT(30), <1>1, <1>5
<1> QED
  BY ZenonT(30), <1>3, <1>4, <1>6

\* What is stored and acknowledged does not depend on the calls under way.
LEMMA StoreUnchanged ==
  ASSUME IndInv, ops' = ops, checksums' = checksums, kept' = kept,
         clock' \in Nat, clock <= clock',
         \A k \in Calls : /\ call'[k].st = "done" <=> call[k].st = "done"
                          /\ call[k].st = "done" => call'[k] = call[k]
  PROVE  StoredInv' /\ ChecksumExact' /\ AckedSurvive'
<1>1. kept \subseteq Calls /\ clock \in Nat
  BY Limits DEF IndInv, TypeOK
<1>2. \A k \in Calls : call[k].st = "done" => Key(k)' = Key(k)
  BY ZenonT(30) DEF Key
<1>3. StoredInv'
  <2>1. /\ IsFiniteSet(DOMAIN ops)
        /\ \A key \in DOMAIN ops : ops[key].call \in kept /\ key = Key(ops[key].call)
        /\ \A k \in kept : /\ call[k].st = "done" /\ Key(k) \in DOMAIN ops
                           /\ ops[Key(k)] = [call |-> k, at |-> call[k].at]
    BY ZenonT(30) DEF IndInv, StoredInv
  <2>2. \A k \in kept : call'[k].st = "done" /\ call'[k] = call[k] /\ Key(k)' = Key(k)
    BY ZenonT(30), <1>1, <1>2, <2>1
  <2>3. \A key \in DOMAIN ops : ops[key].call \in kept /\ key = Key(ops[key].call)'
    BY ZenonT(30), <2>1, <2>2
  <2>4. \A k \in kept : /\ call'[k].st = "done" /\ Key(k)' \in DOMAIN ops
                         /\ ops[Key(k)'] = [call |-> k, at |-> call'[k].at]
    BY ZenonT(30), <2>1, <2>2
  <2> QED
    BY ZenonT(30), <2>1, <2>3, <2>4 DEF StoredInv
<1>4. ChecksumExact'
  BY DEF IndInv, ChecksumExact
<1>5. AckedSurvive'
  <2> SUFFICES ASSUME NEW k \in Calls, call'[k].st = "done"
               PROVE  \/ Key(k)' \in DOMAIN ops' /\ ops'[Key(k)'].call = k
                      \/ call'[k].at + Ttl < clock'
                      \/ \E j \in Calls \ {k} :
                           /\ call'[j].st = "done" /\ Key(j)' = Key(k)'
                           /\ \E m, n \in DOMAIN checksums'[call'[k].bucket] :
                                m < n /\ checksums'[call'[k].bucket][m] = k /\ checksums'[call'[k].bucket][n] = j
    BY ZenonT(30) DEF AckedSurvive
  <2>1. call[k].st = "done" /\ call'[k] = call[k] /\ Key(k)' = Key(k)
    BY ZenonT(30), <1>2
  <2>2. CASE Key(k) \in DOMAIN ops /\ ops[Key(k)].call = k
    BY ZenonT(30), <2>1, <2>2
  <2>3. CASE call[k].at + Ttl < clock
    <3>1. call[k].at \in Nat /\ Ttl \in Nat
      BY <2>1, CallFields, Limits DEF IndInv
    <3> QED
      BY <1>1, <2>1, <2>3, <3>1
  <2>4. CASE \E j \in Calls \ {k} :
               /\ call[j].st = "done" /\ Key(j) = Key(k)
               /\ \E m, n \in DOMAIN checksums[call[k].bucket] :
                    m < n /\ checksums[call[k].bucket][m] = k /\ checksums[call[k].bucket][n] = j
    BY <1>2, <2>1, <2>4
  <2> QED
    BY ZenonT(30), <2>1, <2>2, <2>3, <2>4 DEF IndInv, AckedSurvive
<1> QED
  BY ZenonT(30), <1>3, <1>4, <1>5

-----------------------------------------------------------------------------
(* The steps that leave the table alone.                                   *)

\* append() stamps its operation.
LEMMA AppendCallStep ==
  ASSUME IndInv, NEW k \in Calls, AppendCall(k)
  PROVE  IndInv'
<1>1. PICK b \in BucketIds, l \in Lsns :
        call' = [call EXCEPT ![k] = [st |-> "stamped", bucket |-> b, lsn |-> l, at |-> clock]]
  BY ZenonT(30) DEF AppendCall
<1>2. /\ call[k] = Idle /\ Idle.st = "idle"
      /\ ops' = ops /\ checksums' = checksums /\ kept' = kept /\ clock' = clock
      /\ lock' = lock /\ cutoff' = cutoff /\ crashes' = crashes /\ compactions' = compactions
  BY ZenonT(30) DEF AppendCall, Idle
<1>3. PICK r \in CallRecord : call' = [call EXCEPT ![k] = r] /\ r.st = "stamped"
  <2>1. [st |-> "stamped", bucket |-> b, lsn |-> l, at |-> clock] \in CallRecord
    BY ZenonT(30) DEF IndInv, TypeOK, CallRecord
  <2> QED
    BY ZenonT(30), <1>1, <2>1
<1>4. /\ call' \in [Calls -> {Idle} \cup CallRecord] /\ call'[k].st = "stamped"
      /\ \A j \in Calls \ {k} : call'[j] = call[j]
  BY ZenonT(30), <1>3 DEF IndInv, TypeOK, CallRecord
<1>5. TypeOK'
  BY ZenonT(30), <1>2, <1>4 DEF IndInv, TypeOK, CallRecord
<1>6. LockInv'
  BY <1>2, <1>4 DEF IndInv, LockInv
<1>7. CutoffInv'
  BY ZenonT(30), <1>2 DEF IndInv, CutoffInv
<1>8. StoredInv' /\ ChecksumExact' /\ AckedSurvive'
  <2>1. clock' \in Nat /\ clock <= clock'
    BY <1>2, Limits DEF IndInv, TypeOK
  <2>2. \A j \in Calls : /\ call'[j].st = "done" <=> call[j].st = "done"
                         /\ call[j].st = "done" => call'[j] = call[j]
    BY ZenonT(30), <1>2, <1>4
  <2> QED
    BY ZenonT(30), <1>2, <2>1, <2>2, StoreUnchanged
<1> QED
  BY ZenonT(30), <1>5, <1>6, <1>7, <1>8 DEF IndInv

\* append() has its write transaction.
LEMMA BeginAppendStep ==
  ASSUME IndInv, NEW k \in Calls, BeginAppend(k)
  PROVE  IndInv'
<1>1. /\ call[k].st = "stamped" /\ lock = Free /\ lock' = k
      /\ call' = [call EXCEPT ![k].st = "writing"]
      /\ ops' = ops /\ checksums' = checksums /\ kept' = kept /\ clock' = clock
      /\ cutoff' = cutoff /\ crashes' = crashes /\ compactions' = compactions
  BY ZenonT(30) DEF BeginAppend
<1>2. /\ call' \in [Calls -> {Idle} \cup CallRecord] /\ call'[k].st = "writing"
      /\ \A j \in Calls \ {k} : call'[j] = call[j]
  BY ZenonT(30), <1>1, Moved DEF IndInv
<1>3. TypeOK'
  BY ZenonT(30), <1>1, <1>2 DEF IndInv, TypeOK, CallRecord
<1>4. LockInv'
  BY ZenonT(30), <1>1, <1>2, Limits DEF IndInv, LockInv
<1>5. CutoffInv'
  BY ZenonT(30), <1>1, Limits DEF IndInv, CutoffInv
<1>6. StoredInv' /\ ChecksumExact' /\ AckedSurvive'
  <2>1. clock' \in Nat /\ clock <= clock'
    BY <1>1, Limits DEF IndInv, TypeOK
  <2>2. \A j \in Calls : /\ call'[j].st = "done" <=> call[j].st = "done"
                         /\ call[j].st = "done" => call'[j] = call[j]
    BY ZenonT(30), <1>1, <1>2
  <2> QED
    BY ZenonT(30), <1>1, <2>1, <2>2, StoreUnchanged
<1> QED
  BY ZenonT(30), <1>3, <1>4, <1>5, <1>6 DEF IndInv

\* The transaction of append() is dropped.
LEMMA AbortAppendStep ==
  ASSUME IndInv, NEW k \in Calls, AbortAppend(k)
  PROVE  IndInv'
<1>1. /\ lock = k /\ lock' = Free
      /\ call' = [call EXCEPT ![k].st = "failed"]
      /\ ops' = ops /\ checksums' = checksums /\ kept' = kept /\ clock' = clock
      /\ cutoff' = cutoff /\ crashes' = crashes /\ compactions' = compactions
  BY ZenonT(30) DEF AbortAppend
<1>2. call[k].st = "writing"
  BY ZenonT(30), <1>1 DEF IndInv, LockInv
<1>3. /\ call' \in [Calls -> {Idle} \cup CallRecord] /\ call'[k].st = "failed"
      /\ \A j \in Calls \ {k} : call'[j] = call[j]
  BY ZenonT(30), <1>1, <1>2, Moved DEF IndInv
<1>4. TypeOK'
  BY ZenonT(30), <1>1, <1>3 DEF IndInv, TypeOK, CallRecord
<1>5. LockInv'
  BY ZenonT(30), <1>1, <1>3, Limits DEF IndInv, LockInv
<1>6. CutoffInv'
  BY ZenonT(30), <1>1, Limits DEF IndInv, CutoffInv
<1>7. StoredInv' /\ ChecksumExact' /\ AckedSurvive'
  <2>1. clock' \in Nat /\ clock <= clock'
    BY <1>1, Limits DEF IndInv, TypeOK
  <2>2. \A j \in Calls : /\ call'[j].st = "done" <=> call[j].st = "done"
                         /\ call[j].st = "done" => call'[j] = call[j]
    BY ZenonT(30), <1>2, <1>3
  <2> QED
    BY ZenonT(30), <1>1, <2>1, <2>2, StoreUnchanged
<1> QED
  BY ZenonT(30), <1>4, <1>5, <1>6, <1>7 DEF IndInv

\* compact() reads the clock, begins and gives up, and time passes.
LEMMA QuietSteps ==
  ASSUME IndInv, CompactCall \/ BeginCompact \/ AbortCompact \/ Tick
  PROVE  IndInv'
<1>1. ops' = ops /\ checksums' = checksums /\ kept' = kept /\ call' = call /\ crashes' = crashes
  BY ZenonT(30) DEF CompactCall, BeginCompact, AbortCompact, Tick
<1>2. clock \in Nat /\ MaxTime \in Nat /\ Ttl \in Nat /\ clock <= MaxTime
  BY Limits DEF IndInv, TypeOK
<1>3. clock' \in 0..MaxTime /\ clock' \in Nat /\ clock <= clock'
  BY <1>2 DEF IndInv, TypeOK, CompactCall, BeginCompact, AbortCompact, Tick
<1>4. /\ lock' \in Calls \cup {Free, Compactor} /\ compactions' \in Nat
      /\ cutoff' \in Nat \cup {None}
  BY <1>2 DEF IndInv, TypeOK, CompactCall, BeginCompact, AbortCompact, Tick, Cutoff
<1>5. TypeOK'
  BY ZenonT(30), <1>1, <1>3, <1>4 DEF IndInv, TypeOK
<1>6. LockInv'
  BY ZenonT(30), <1>1, Limits DEF IndInv, LockInv, CompactCall, BeginCompact, AbortCompact, Tick
<1>7. CutoffInv'
  <2>1. CASE CompactCall
    BY <1>2, <2>1 DEF IndInv, TypeOK, CutoffInv, CompactCall, Cutoff, None
  <2>2. CASE BeginCompact
    BY ZenonT(30), <1>2, <2>2 DEF IndInv, CutoffInv, BeginCompact
  <2>3. CASE AbortCompact
    BY ZenonT(30), <2>3, Limits DEF CutoffInv, AbortCompact
  <2>4. CASE Tick
    <3>1. cutoff' = cutoff /\ lock' = lock /\ clock' = clock + 1 /\ cutoff \in Nat \cup {None}
      BY ZenonT(30), <2>4 DEF Tick, IndInv, TypeOK
    <3> QED
      BY <1>2, <3>1 DEF IndInv, CutoffInv
  <2> QED
    BY ZenonT(30), <2>1, <2>2, <2>3, <2>4
<1>8. StoredInv' /\ ChecksumExact' /\ AckedSurvive'
  BY ZenonT(30), <1>1, <1>3, StoreUnchanged
<1> QED
  BY ZenonT(30), <1>5, <1>6, <1>7, <1>8 DEF IndInv

\* The process dies and opens the file again.
LEMMA CrashStep ==
  ASSUME IndInv, Crash
  PROVE  IndInv'
<1>1. /\ ops' = ops /\ checksums' = checksums /\ kept' = kept /\ clock' = clock
      /\ lock' = Free /\ cutoff' = None /\ crashes' = crashes + 1 /\ compactions' = compactions
      /\ call' = [k \in Calls |-> IF call[k].st \in {"stamped", "writing"}
                                  THEN [call[k] EXCEPT !.st = "failed"] ELSE call[k]]
  BY ZenonT(30) DEF Crash
<1>2. ASSUME NEW k \in Calls
      PROVE  /\ call'[k] \in {Idle} \cup CallRecord /\ call'[k].st # "writing"
             /\ call'[k].st = "done" <=> call[k].st = "done"
             /\ call[k].st = "done" => call'[k] = call[k]
  <2>1. CASE call[k].st \in {"stamped", "writing"}
    <3>1. call[k] \in CallRecord
      BY ZenonT(30), <2>1, CallFields DEF IndInv
    <3>2. [call[k] EXCEPT !.st = "failed"] \in CallRecord /\ [call[k] EXCEPT !.st = "failed"].st = "failed"
      BY ZenonT(30), <3>1 DEF CallRecord
    <3>3. call'[k] = [call[k] EXCEPT !.st = "failed"]
      BY ZenonT(30), <1>1, <2>1
    <3> QED
      BY ZenonT(30), <2>1, <3>2, <3>3
  <2>2. CASE call[k].st \notin {"stamped", "writing"}
    <3>1. call'[k] = call[k] /\ call[k] \in {Idle} \cup CallRecord
      BY ZenonT(30), <1>1, <2>2 DEF IndInv, TypeOK, CallRecord
    <3> QED
      BY ZenonT(30), <2>2, <3>1
  <2> QED
    BY ZenonT(30), <2>1, <2>2
<1>3. call' \in [Calls -> {Idle} \cup CallRecord]
  <2>1. PICK c : c = call'
    BY ZenonT(30)
  <2>2. DOMAIN c = Calls /\ c = [k \in DOMAIN c |-> c[k]]
    BY ZenonT(30), <1>1, <2>1
  <2> QED
    BY ZenonT(30), <1>2, <2>1, <2>2
<1>4. TypeOK'
  BY <1>1, <1>3 DEF IndInv, TypeOK, CallRecord
<1>5. LockInv'
  BY ZenonT(30), <1>1, <1>2, Limits DEF LockInv
<1>6. CutoffInv'
  BY ZenonT(30), <1>1, Limits DEF CutoffInv
<1>7. clock' \in Nat /\ clock <= clock'
  BY <1>1, Limits DEF IndInv, TypeOK
<1>8. StoredInv' /\ ChecksumExact' /\ AckedSurvive'
  BY ZenonT(30), <1>1, <1>2, <1>7, StoreUnchanged
<1> QED
  BY ZenonT(30), <1>4, <1>5, <1>6, <1>8 DEF IndInv

-----------------------------------------------------------------------------
(* The steps that write the table.                                         *)

\* The bucket's checksum takes one more operation, the other buckets' none.
LEMMA FoldedChecksums ==
  ASSUME TypeOK, NEW k \in Calls, call[k].st # "idle",
         checksums' = [checksums EXCEPT ![call[k].bucket] = Fold(call[k].bucket, k)]
  PROVE  /\ checksums' \in [BucketIds -> Seq(Calls)]
         /\ \A c \in BucketIds \ {call[k].bucket} : checksums'[c] = checksums[c]
         /\ checksums[call[k].bucket] \in Seq(Calls)
         /\ checksums'[call[k].bucket] = Append(checksums[call[k].bucket], k)
<1>1. call[k].bucket \in BucketIds /\ checksums \in [BucketIds -> Seq(Calls)]
  BY ZenonT(30), CallFields DEF TypeOK
<1>2. PICK b \in BucketIds : b = call[k].bucket
  BY ZenonT(30), <1>1
<1>3. checksums' = [checksums EXCEPT ![b] = Append(checksums[b], k)]
  BY ZenonT(30), <1>2 DEF Fold
<1>4. checksums[b] \in Seq(Calls) /\ Append(checksums[b], k) \in Seq(Calls)
  BY <1>1
<1> QED
  BY ZenonT(30), <1>1, <1>2, <1>3, <1>4

\* append() commits: the entry, the checksum and the answer in one step.
LEMMA CommitAppendStep ==
  ASSUME IndInv, NEW k \in Calls, CommitAppend(k)
  PROVE  IndInv'
<1>1. /\ lock = k /\ lock' = Free /\ call' = [call EXCEPT ![k].st = "done"]
      /\ clock' = clock /\ cutoff' = cutoff /\ crashes' = crashes /\ compactions' = compactions
      /\ checksums' = [checksums EXCEPT ![call[k].bucket] = Fold(call[k].bucket, k)]
      /\ kept' = {j \in kept : <<call[j].bucket, call[j].lsn>> # <<call[k].bucket, call[k].lsn>>} \cup {k}
  BY ZenonT(30) DEF CommitAppend
<1>2. call[k].st = "writing" /\ TypeOK
  BY ZenonT(30), <1>1 DEF IndInv, LockInv
<1>3. /\ call' \in [Calls -> {Idle} \cup CallRecord] /\ call'[k].st = "done"
      /\ call'[k].bucket = call[k].bucket /\ call'[k].lsn = call[k].lsn /\ call'[k].at = call[k].at
      /\ \A j \in Calls \ {k} : call'[j] = call[j]
  BY ZenonT(30), <1>1, <1>2, Moved
<1>4. PICK b \in BucketIds : b = call[k].bucket
  BY ZenonT(30), <1>2, CallFields
<1>5. /\ checksums' \in [BucketIds -> Seq(Calls)]
      /\ \A c \in BucketIds \ {b} : checksums'[c] = checksums[c]
      /\ checksums[b] \in Seq(Calls) /\ checksums'[b] = Append(checksums[b], k)
  BY ZenonT(30), <1>1, <1>2, <1>4, FoldedChecksums
<1>6. PICK x : x = Key(k)
  BY ZenonT(30)
<1>7. /\ DOMAIN ops' = DOMAIN ops \cup {x} /\ ops'[x] = [call |-> k, at |-> call[k].at]
      /\ \A key \in DOMAIN ops \ {x} : ops'[key] = ops[key]
  BY ZenonT(30), <1>6 DEF CommitAppend
<1>8. \A j \in Calls : Key(j)' = Key(j)
  BY ZenonT(30), <1>3 DEF Key
<1>9. kept' = {j \in kept : Key(j) # x} \cup {k} /\ kept \subseteq Calls
  <2>1. kept \subseteq Calls /\ \A j \in kept : call[j].st = "done"
    BY ZenonT(30) DEF IndInv, TypeOK, StoredInv
  <2>2. \A j \in kept : Key(j) # x <=> <<call[j].bucket, call[j].lsn>> # <<call[k].bucket, call[k].lsn>>
    BY ZenonT(30), <1>2, <1>6, <2>1, SameKey
  <2> QED
    BY ZenonT(30), <1>1, <2>1, <2>2
<1>10. TypeOK'
  <2>1. \A key \in DOMAIN ops' : ops'[key] \in [call : Calls, at : 0..MaxTime]
    <3>1. [call |-> k, at |-> call[k].at] \in [call : Calls, at : 0..MaxTime]
      BY ZenonT(30), <1>2, CallFields
    <3> QED
      BY ZenonT(30), <1>7, <3>1 DEF IndInv, TypeOK
  <2>2. lock' \in Calls \cup {Free, Compactor} /\ kept' \subseteq Calls
    BY ZenonT(30), <1>1, <1>9
  <2> QED
    BY ZenonT(30), <1>1, <1>3, <1>5, <2>1, <2>2 DEF IndInv, TypeOK, CallRecord
<1>11. LockInv'
  BY ZenonT(30), <1>1, <1>3, Limits DEF IndInv, LockInv
<1>12. CutoffInv'
  BY ZenonT(30), <1>1, Limits DEF IndInv, CutoffInv
<1>13. StoredInv'
  <2>1. IsFiniteSet(DOMAIN ops')
    BY <1>7, FS_AddElement DEF IndInv, StoredInv
  <2>2. ASSUME NEW key \in DOMAIN ops' PROVE \E j \in kept' : ops'[key].call = j /\ key = Key(j)'
    <3>1. CASE key = x
      BY <1>6, <1>7, <1>8, <1>9, <3>1
    <3>2. CASE key # x
      <4>1. key \in DOMAIN ops /\ ops'[key] = ops[key]
        BY ZenonT(30), <1>7, <3>2
      <4>2. PICK j \in kept : j = ops[key].call /\ key = Key(j)
        BY ZenonT(30), <4>1 DEF IndInv, StoredInv
      <4>3. j \in kept' /\ key = Key(j)'
        BY ZenonT(30), <1>8, <1>9, <3>2, <4>2
      <4>4. ops'[key].call = j
        BY ZenonT(30), <4>1, <4>2
      <4> QED
        BY ZenonT(30), <4>3, <4>4
    <3> QED
      BY ZenonT(30), <3>1, <3>2
  <2>3. ASSUME NEW j \in kept'
        PROVE  /\ call'[j].st = "done" /\ Key(j)' \in DOMAIN ops'
               /\ ops'[Key(j)'] = [call |-> j, at |-> call'[j].at]
    <3>1. CASE j = k
      BY ZenonT(30), <1>3, <1>6, <1>7, <1>8, <3>1
    <3>2. CASE j # k
      <4>1. j \in kept /\ Key(j) # x /\ j \in Calls
        BY ZenonT(30), <1>9, <3>2
      <4>2. call'[j] = call[j] /\ Key(j)' = Key(j)
        BY ZenonT(30), <1>3, <1>8, <3>2, <4>1
      <4>3. call[j].st = "done" /\ Key(j) \in DOMAIN ops /\ ops[Key(j)] = [call |-> j, at |-> call[j].at]
        BY ZenonT(30), <4>1 DEF IndInv, StoredInv
      <4> QED
        BY ZenonT(30), <1>7, <4>1, <4>2, <4>3
    <3> QED
      BY ZenonT(30), <3>1, <3>2
  <2> QED
    BY ZenonT(30), <2>1, <2>2, <2>3 DEF StoredInv, Key
<1>14. ChecksumExact'
  <2> SUFFICES ASSUME NEW c \in BucketIds
               PROVE  /\ {checksums'[c][i] : i \in 1..Len(checksums'[c])}
                           = {j \in Calls : call'[j].st = "done" /\ call'[j].bucket = c}
                      /\ \A i, j \in 1..Len(checksums'[c]) : checksums'[c][i] = checksums'[c][j] => i = j
    BY ZenonT(30) DEF ChecksumExact
  <2>1. /\ {checksums[c][i] : i \in 1..Len(checksums[c])}
             = {j \in Calls : call[j].st = "done" /\ call[j].bucket = c}
        /\ \A i, j \in 1..Len(checksums[c]) : checksums[c][i] = checksums[c][j] => i = j
    BY ZenonT(30) DEF IndInv, ChecksumExact
  <2>2. CASE c # b
    <3>1. checksums'[c] = checksums[c]
      BY ZenonT(30), <1>5, <2>2
    <3>2. {j \in Calls : call'[j].st = "done" /\ call'[j].bucket = c}
            = {j \in Calls : call[j].st = "done" /\ call[j].bucket = c}
      BY ZenonT(30), <1>2, <1>3, <1>4, <2>2
    <3> QED
      BY <2>1, <3>1, <3>2
  <2>3. CASE c = b
    <3>1. PICK s \in Seq(Calls) : s = checksums[c] /\ checksums'[c] = Append(s, k)
      BY ZenonT(30), <1>5, <2>3
    <3>2. {s[i] : i \in 1..Len(s)} = {j \in Calls : call[j].st = "done" /\ call[j].bucket = c}
      BY <2>1, <3>1
    <3>3. \A i, j \in 1..Len(s) : s[i] = s[j] => i = j
      BY ZenonT(30), <2>1, <3>1
    <3>4. {j \in Calls : call'[j].st = "done" /\ call'[j].bucket = c}
            = {j \in Calls : call[j].st = "done" /\ call[j].bucket = c} \cup {k}
      BY ZenonT(30), <1>2, <1>3, <1>4, <2>3
    <3>5. k \notin {s[i] : i \in 1..Len(s)}
      BY ZenonT(30), <1>2, <3>2
    <3>6. /\ Len(Append(s, k)) = Len(s) + 1 /\ Append(s, k)[Len(s) + 1] = k
          /\ \A i \in 1..Len(s) : Append(s, k)[i] = s[i]
          /\ Len(s) \in Nat
      OBVIOUS
    <3>7. {Append(s, k)[i] : i \in 1..(Len(s) + 1)} = {s[i] : i \in 1..Len(s)} \cup {k}
      BY <3>6
    <3>8. \A i, j \in 1..(Len(s) + 1) : Append(s, k)[i] = Append(s, k)[j] => i = j
      BY <3>3, <3>5, <3>6
    <3> QED
      BY <3>1, <3>2, <3>4, <3>6, <3>7, <3>8
  <2> QED
    BY ZenonT(30), <2>2, <2>3
<1>15. AckedSurvive'
  <2> SUFFICES ASSUME NEW i \in Calls, call'[i].st = "done"
               PROVE  \/ Key(i)' \in DOMAIN ops' /\ ops'[Key(i)'].call = i
                      \/ call'[i].at + Ttl < clock'
                      \/ \E j \in Calls \ {i} :
                           /\ call'[j].st = "done" /\ Key(j)' = Key(i)'
                           /\ \E m, n \in DOMAIN checksums'[call'[i].bucket] :
                                m < n /\ checksums'[call'[i].bucket][m] = i /\ checksums'[call'[i].bucket][n] = j
    BY ZenonT(30) DEF AckedSurvive
  <2>1. CASE i = k
    BY <1>6, <1>7, <1>8, <2>1
  <2>2. CASE i # k
    <3>1. call'[i] = call[i] /\ call[i].st = "done" /\ Key(i)' = Key(i)
      BY ZenonT(30), <1>3, <1>8, <2>2
    <3>2. PICK c \in BucketIds : c = call[i].bucket
      BY ZenonT(30), <1>2, <3>1, CallFields
    <3>3. PICK s \in Seq(Calls) : s = checksums[c]
      BY ZenonT(30) DEF IndInv, TypeOK
    <3>4. /\ DOMAIN s \subseteq DOMAIN checksums'[c]
          /\ \A m \in DOMAIN s : checksums'[c][m] = s[m]
      <4>1. CASE c = b
        BY <1>5, <3>3, <4>1
      <4>2. CASE c # b
        BY ZenonT(30), <1>5, <3>3, <4>2
      <4> QED
        BY ZenonT(30), <4>1, <4>2
    <3>5. CASE Key(i) \in DOMAIN ops /\ ops[Key(i)].call = i /\ Key(i) # x
      BY ZenonT(30), <1>7, <3>1, <3>5
    <3>6. CASE Key(i) = x
      <4>1. c = b
        BY ZenonT(30), <1>2, <1>4, <1>6, <3>1, <3>2, <3>6, SameKey
      <4>2. PICK m \in 1..Len(s) : s[m] = i
        <5>1. i \in {s[m] : m \in 1..Len(s)}
          BY <3>1, <3>2, <3>3 DEF IndInv, ChecksumExact
        <5> QED
          BY ZenonT(30), <5>1
      <4>3. checksums'[c] = Append(s, k)
        BY ZenonT(30), <1>5, <3>3, <4>1
      <4>4. PICK n : n = Len(s) + 1
        BY ZenonT(30)
      <4>5. /\ m \in DOMAIN Append(s, k) /\ n \in DOMAIN Append(s, k) /\ m < n
            /\ Append(s, k)[m] = i /\ Append(s, k)[n] = k
        BY <4>2, <4>4
      <4>6. k \in Calls \ {i} /\ call'[k].st = "done" /\ Key(k)' = Key(i)'
        BY ZenonT(30), <1>3, <1>6, <1>8, <2>2, <3>6
      <4> QED
        BY <3>1, <3>2, <4>3, <4>5, <4>6
    <3>7. CASE call[i].at + Ttl < clock
      BY ZenonT(30), <1>1, <3>1, <3>7
    <3>8. CASE \E j \in Calls \ {i} :
                 /\ call[j].st = "done" /\ Key(j) = Key(i)
                 /\ \E m, n \in DOMAIN checksums[call[i].bucket] :
                      m < n /\ checksums[call[i].bucket][m] = i /\ checksums[call[i].bucket][n] = j
      <4>1. PICK j \in Calls \ {i} :
              /\ call[j].st = "done" /\ Key(j) = Key(i)
              /\ \E m, n \in DOMAIN s : m < n /\ s[m] = i /\ s[n] = j
        BY ZenonT(30), <3>2, <3>3, <3>8
      <4>2. PICK m, n \in DOMAIN s : m < n /\ s[m] = i /\ s[n] = j
        BY ZenonT(30), <4>1
      <4>3. call'[j].st = "done" /\ Key(j)' = Key(i)'
        BY ZenonT(30), <1>2, <1>3, <1>8, <4>1
      <4>4. /\ m \in DOMAIN checksums'[c] /\ n \in DOMAIN checksums'[c] /\ m < n
            /\ checksums'[c][m] = i /\ checksums'[c][n] = j
        BY ZenonT(30), <3>4, <4>2
      <4> QED
        BY ZenonT(30), <3>1, <3>2, <4>3, <4>4
    <3> QED
      BY ZenonT(30), <3>1, <3>5, <3>6, <3>7, <3>8 DEF IndInv, AckedSurvive
  <2> QED
    BY ZenonT(30), <2>1, <2>2
<1> QED
  BY ZenonT(30), <1>10, <1>11, <1>12, <1>13, <1>14, <1>15 DEF IndInv

\* What the cutoff of a running compact() calls expired is older than the TTL.
LEMMA ExpiredIsOld ==
  ASSUME TypeOK, CutoffInv, lock = Compactor, NEW at \in Nat, at < cutoff
  PROVE  at + Ttl < clock
<1>1. cutoff \in Nat /\ Ttl \in Nat /\ clock \in Nat
  BY Limits DEF TypeOK, CutoffInv
<1>2. cutoff = 0 \/ cutoff + Ttl <= clock
  BY ZenonT(30) DEF CutoffInv
<1> QED
  BY <1>1, <1>2

\* compact() commits: the expired entries go, everything else stays.
LEMMA CommitCompactStep ==
  ASSUME IndInv, CommitCompact
  PROVE  IndInv'
<1>1. /\ lock = Compactor /\ lock' = Free /\ cutoff' = None
      /\ clock' = clock /\ checksums' = checksums /\ call' = call /\ crashes' = crashes
      /\ compactions' = compactions /\ kept' = {k \in kept : ~(call[k].at < cutoff)}
      /\ DOMAIN ops' = {j \in DOMAIN ops : ~(ops[j].at < cutoff)}
      /\ \A key \in DOMAIN ops' : ops'[key] = ops[key]
  BY ZenonT(30) DEF CommitCompact, Expired
<1>2. \A k \in Calls : Key(k)' = Key(k)
  BY ZenonT(30), <1>1 DEF Key
<1>3. TypeOK'
  BY ZenonT(30), <1>1 DEF IndInv, TypeOK
<1>4. LockInv'
  BY ZenonT(30), <1>1, Limits DEF IndInv, LockInv
<1>5. CutoffInv'
  BY ZenonT(30), <1>1, Limits DEF CutoffInv
<1>6. kept \subseteq Calls
  BY ZenonT(30) DEF IndInv, TypeOK
<1>7. StoredInv'
  <2>1. IsFiniteSet(DOMAIN ops')
    <3>1. DOMAIN ops' \in SUBSET DOMAIN ops /\ IsFiniteSet(DOMAIN ops)
      BY ZenonT(30), <1>1 DEF IndInv, StoredInv
    <3> QED
      BY ZenonT(30), <3>1, FS_Subset
  <2>2. ASSUME NEW key \in DOMAIN ops' PROVE \E j \in kept' : ops'[key].call = j /\ key = Key(j)'
    <3>1. key \in DOMAIN ops /\ ~(ops[key].at < cutoff) /\ ops'[key] = ops[key]
      BY ZenonT(30), <1>1
    <3>2. PICK j \in kept : ops[key].call = j /\ key = Key(j)
      BY ZenonT(30), <3>1 DEF IndInv, StoredInv
    <3>3. ops[key].at = call[j].at
      <4>1. ops[Key(j)] = [call |-> j, at |-> call[j].at]
        BY ZenonT(30), <3>2 DEF IndInv, StoredInv
      <4> QED
        BY <3>2, <4>1
    <3> QED
      BY ZenonT(30), <1>1, <1>2, <1>6, <3>1, <3>2, <3>3
  <2>3. ASSUME NEW j \in kept'
        PROVE  /\ call'[j].st = "done" /\ Key(j)' \in DOMAIN ops'
               /\ ops'[Key(j)'] = [call |-> j, at |-> call'[j].at]
    <3>1. j \in kept /\ ~(call[j].at < cutoff) /\ Key(j)' = Key(j)
      BY ZenonT(30), <1>1, <1>2, <1>6
    <3>2. call[j].st = "done" /\ Key(j) \in DOMAIN ops /\ ops[Key(j)] = [call |-> j, at |-> call[j].at]
      BY ZenonT(30), <3>1 DEF IndInv, StoredInv
    <3> QED
      BY <1>1, <3>1, <3>2
  <2> QED
    BY ZenonT(30), <2>1, <2>2, <2>3 DEF StoredInv, Key
<1>8. ChecksumExact'
  BY <1>1 DEF IndInv, ChecksumExact
<1>9. AckedSurvive'
  <2> SUFFICES ASSUME NEW i \in Calls, call[i].st = "done"
               PROVE  \/ Key(i)' \in DOMAIN ops' /\ ops'[Key(i)'].call = i
                      \/ call[i].at + Ttl < clock
                      \/ \E j \in Calls \ {i} :
                           /\ call[j].st = "done" /\ Key(j)' = Key(i)'
                           /\ \E m, n \in DOMAIN checksums[call[i].bucket] :
                                m < n /\ checksums[call[i].bucket][m] = i /\ checksums[call[i].bucket][n] = j
    BY <1>1 DEF AckedSurvive
  <2>1. CASE Key(i) \in DOMAIN ops /\ ops[Key(i)].call = i /\ ~(ops[Key(i)].at < cutoff)
    BY ZenonT(30), <1>1, <1>2, <2>1
  <2>2. CASE Key(i) \in DOMAIN ops /\ ops[Key(i)].call = i /\ ops[Key(i)].at < cutoff
    <3>1. i \in kept
      BY ZenonT(30), <2>2 DEF IndInv, StoredInv
    <3>2. call[i].at < cutoff
      <4>1. ops[Key(i)] = [call |-> i, at |-> call[i].at]
        BY ZenonT(30), <3>1 DEF IndInv, StoredInv
      <4> QED
        BY <2>2, <4>1
    <3>3. call[i].at \in Nat
      BY CallFields, Limits DEF IndInv
    <3> QED
      BY ZenonT(30), <1>1, <3>2, <3>3, ExpiredIsOld DEF IndInv
  <2>3. CASE call[i].at + Ttl < clock
    BY ZenonT(30), <2>3
  <2>4. CASE \E j \in Calls \ {i} :
               /\ call[j].st = "done" /\ Key(j) = Key(i)
               /\ \E m, n \in DOMAIN checksums[call[i].bucket] :
                    m < n /\ checksums[call[i].bucket][m] = i /\ checksums[call[i].bucket][n] = j
    BY ZenonT(30), <1>2, <2>4
  <2> QED
    BY ZenonT(30), <2>1, <2>2, <2>3, <2>4 DEF IndInv, AckedSurvive
<1> QED
  BY ZenonT(30), <1>3, <1>4, <1>5, <1>7, <1>8, <1>9 DEF IndInv

-----------------------------------------------------------------------------
(* The theorems.                                                           *)

\* The file that open() creates.
LEMMA InitInv == Init => IndInv
<1> SUFFICES ASSUME Init PROVE IndInv
  BY ZenonT(30)
<1>1. TypeOK
  BY Limits DEF Init, TypeOK
<1>2. LockInv /\ CutoffInv
  BY ZenonT(30), Limits DEF Init, LockInv, CutoffInv, Idle
<1>3. StoredInv
  <2>1. DOMAIN ops = {} /\ kept = {}
    BY DEF Init
  <2> QED
    BY ZenonT(30), <2>1, FS_EmptySet DEF StoredInv
<1>4. ChecksumExact /\ AckedSurvive
  <2>1. \A k \in Calls : call[k].st # "done"
    BY ZenonT(30) DEF Init, Idle
  <2>2. \A b \in BucketIds : checksums[b] = <<>>
    BY ZenonT(30) DEF Init
  <2> QED
    BY <2>1, <2>2 DEF ChecksumExact, AckedSurvive
<1> QED
  BY ZenonT(30), <1>1, <1>2, <1>3, <1>4 DEF IndInv

\* Every step keeps the invariant.
LEMMA NextInv == IndInv /\ [Next]_vars => IndInv'
<1> SUFFICES ASSUME IndInv, [Next]_vars PROVE IndInv'
  BY ZenonT(30)
<1>1. CASE UNCHANGED vars
  <2>1. /\ clock' = clock /\ ops' = ops /\ checksums' = checksums /\ call' = call /\ lock' = lock
        /\ cutoff' = cutoff /\ crashes' = crashes /\ compactions' = compactions /\ kept' = kept
    BY ZenonT(30), <1>1 DEF vars
  <2>2. TypeOK' /\ LockInv' /\ CutoffInv'
    BY ZenonT(30), <2>1 DEF IndInv, TypeOK, LockInv, CutoffInv
  <2>3. clock' \in Nat /\ clock <= clock'
    BY <2>1, Limits DEF IndInv, TypeOK
  <2> QED
    BY ZenonT(30), <2>1, <2>2, <2>3, StoreUnchanged DEF IndInv
<1>2. CASE Next
  BY ZenonT(30), <1>2, AppendCallStep, BeginAppendStep, CommitAppendStep, AbortAppendStep, QuietSteps,
     CommitCompactStep, CrashStep DEF Next
<1> QED
  BY ZenonT(30), <1>1, <1>2

\* The invariant holds in every state of the op log.
THEOREM Invariance == Spec => []IndInv
BY InitInv, NextInv, PTL DEF Spec

\* Checksums fold in every committed append() once, whatever ran at the same
\* time, crashed or was compacted (store.rs:96).
THEOREM ChecksumExactCorrect == Spec => []ChecksumExact
<1>1. IndInv => ChecksumExact
  BY ZenonT(30) DEF IndInv
<1> QED
  BY <1>1, Invariance, PTL

\* An append() that returned Ok is stored until it is older than the TTL or
\* its key is written again (store.rs:84).
THEOREM AckedSurviveCorrect == Spec => []AckedSurvive
<1>1. IndInv => AckedSurvive
  BY ZenonT(30) DEF IndInv
<1> QED
  BY <1>1, Invariance, PTL

\* compact() removes nothing that is younger than the TTL, though its cutoff
\* was computed before it had the write lock (store.rs:202).
THEOREM CompactKeepsRecentCorrect == Spec => CompactKeepsRecent
<1>1. IndInv /\ [Next]_vars
        => [CommitCompact => \A key \in DOMAIN ops \ DOMAIN ops' : ops[key].at + Ttl < clock]_vars
  <2> SUFFICES ASSUME IndInv, CommitCompact, NEW key \in DOMAIN ops \ DOMAIN ops'
               PROVE  ops[key].at + Ttl < clock
    BY ZenonT(30)
  <2>1. lock = Compactor /\ ops[key].at < cutoff
    BY ZenonT(30) DEF CommitCompact, Expired
  <2>2. ops[key].at \in Nat
    BY Limits DEF IndInv, TypeOK
  <2> QED
    BY ZenonT(30), <2>1, <2>2, ExpiredIsOld DEF IndInv
<1> QED
  BY <1>1, Invariance, PTL DEF Spec, CompactKeepsRecent

-----------------------------------------------------------------------------
(* drain_since().                                                          *)

Rank(K, v, k) == Cardinality({j \in K : v[j] < v[k]})

\* Counting the smaller elements puts a finite set in order: every rank is
\* taken, and a smaller rank is a smaller value.
LEMMA Ranking ==
  ASSUME NEW K, IsFiniteSet(K), NEW v \in [K -> Nat], \A j, k \in K : v[j] = v[k] => j = k
  PROVE  /\ Cardinality(K) \in Nat
         /\ \A i \in 1..Cardinality(K) : \E k \in K : Rank(K, v, k) = i - 1
         /\ \A k \in K : Rank(K, v, k) \in Nat /\ Rank(K, v, k) + 1 \in 1..Cardinality(K)
         /\ \A j, k \in K : Rank(K, v, j) < Rank(K, v, k) => v[j] < v[k]
         /\ \A j, k \in K : Rank(K, v, j) = Rank(K, v, k) => j = k
<1> DEFINE Low(k) == {j \in K : v[j] < v[k]}
<1>1. PICK n \in Nat : n = Cardinality(K)
  BY ZenonT(30), FS_CardinalityType
<1>2. ASSUME NEW k \in K
      PROVE  IsFiniteSet(Low(k)) /\ Cardinality(Low(k)) \in Nat /\ Cardinality(Low(k)) < n
  <2>1. Low(k) \in SUBSET K /\ k \notin Low(k)
    OBVIOUS
  <2>2. Low(k) # K
    BY ZenonT(30), <2>1
  <2> HIDE DEF Low
  <2>3. IsFiniteSet(Low(k)) /\ Cardinality(Low(k)) <= Cardinality(K) /\ Cardinality(K) # Cardinality(Low(k))
    BY ZenonT(30), <2>1, <2>2, FS_Subset
  <2>4. Cardinality(Low(k)) \in Nat
    BY ZenonT(30), <2>3, FS_CardinalityType
  <2> QED
    BY <1>1, <2>3, <2>4
<1>3. ASSUME NEW j \in K, NEW k \in K, v[j] < v[k]
      PROVE  Cardinality(Low(j)) < Cardinality(Low(k))
  <2>1. Low(j) \in SUBSET Low(k)
    BY <1>3
  <2>2. j \in Low(k) /\ j \notin Low(j)
    BY <1>3
  <2> HIDE DEF Low
  <2>3. Cardinality(Low(j)) <= Cardinality(Low(k)) /\ Cardinality(Low(k)) # Cardinality(Low(j))
    BY ZenonT(30), <1>2, <2>1, <2>2, FS_Subset
  <2> QED
    BY <1>2, <2>3
<1>4. \A k \in K : Rank(K, v, k) = Cardinality(Low(k))
  BY ZenonT(30) DEF Rank
<1> HIDE DEF Low
<1>5. \A j, k \in K : Rank(K, v, j) = Rank(K, v, k) => j = k
  <2> SUFFICES ASSUME NEW j \in K, NEW k \in K, Rank(K, v, j) = Rank(K, v, k) PROVE j = k
    BY ZenonT(30)
  <2>1. ~(v[j] < v[k]) /\ ~(v[k] < v[j])
    BY <1>2, <1>3, <1>4
  <2> QED
    BY <2>1
<1>6. \A j, k \in K : Rank(K, v, j) < Rank(K, v, k) => v[j] < v[k]
  <2> SUFFICES ASSUME NEW j \in K, NEW k \in K, Rank(K, v, j) < Rank(K, v, k) PROVE v[j] < v[k]
    BY ZenonT(30)
  <2>1. ~(v[k] < v[j])
    BY <1>2, <1>3, <1>4
  <2>2. v[j] # v[k]
    <3>1. CASE j = k
      BY <1>2, <1>4, <3>1
    <3> QED
      BY ZenonT(30), <3>1
  <2> QED
    BY <2>1, <2>2
<1> DEFINE f == [k \in K |-> Rank(K, v, k)]
<1>7. f \in [K -> 0..(n - 1)] /\ \A a, b \in K : f[a] = f[b] => a = b
  BY <1>1, <1>2, <1>4, <1>5
<1>8. f \in Injection(K, 0..(n - 1))
  <2> HIDE DEF f
  <2> QED
    BY ZenonT(30), <1>7 DEF Injection, IsInjective
<1>9. IsFiniteSet(0..(n - 1)) /\ Cardinality(0..(n - 1)) = n
  <2>1. PICK m \in Int : m = n - 1
    OBVIOUS
  <2>2. IsFiniteSet(0..m) /\ Cardinality(0..m) = IF 0 > m THEN 0 ELSE m - 0 + 1
    BY FS_Interval
  <2> QED
    BY <2>1, <2>2
<1>10. \A r \in 0..(n - 1) : \E k \in K : f[k] = r
  <2> HIDE DEF f
  <2>1. f \in Surjection(K, 0..(n - 1))
    BY ZenonT(30), <1>1, <1>8, <1>9, FS_Injection
  <2> QED
    BY ZenonT(30), <2>1 DEF Surjection
<1>11. ASSUME NEW i \in 1..n PROVE \E k \in K : Rank(K, v, k) = i - 1
  <2>1. i - 1 \in 0..(n - 1)
    OBVIOUS
  <2> QED
    BY ZenonT(30), <1>10, <2>1
<1>12. \A k \in K : Rank(K, v, k) \in Nat /\ Rank(K, v, k) + 1 \in 1..n
  BY <1>1, <1>2, <1>4
<1> QED
  BY ZenonT(30), <1>1, <1>5, <1>6, <1>11, <1>12

\* A scan meets exactly the stored operations of its bucket from the given
\* LSN up to the one before the largest.
LEMMA ScanExact ==
  ASSUME IndInv, NEW b \in BucketIds, NEW from \in Lsns
  PROVE  ScannedKeys(b, from)
           = {Key(k) : k \in {j \in kept : call[j].bucket = b /\ from <= call[j].lsn /\ call[j].lsn < MaxU64}}
<1>1. /\ kept \subseteq Calls /\ \A k \in kept : call[k].st = "done" /\ Key(k) \in DOMAIN ops
      /\ \A key \in DOMAIN ops : \E k \in kept : key = Key(k)
  <2>1. kept \subseteq Calls
    BY ZenonT(30) DEF IndInv, TypeOK
  <2>2. /\ \A key \in DOMAIN ops : ops[key].call \in kept /\ key = Key(ops[key].call)
        /\ \A k \in kept : call[k].st = "done" /\ Key(k) \in DOMAIN ops
    BY ZenonT(30) DEF IndInv, StoredInv
  <2> QED
    BY ZenonT(30), <2>1, <2>2
<1>2. b \in Seq(0..(Base - 1)) /\ from \in 0..MaxU64 /\ from \in Nat
  BY ZenonT(30), Limits, ShiftedOut
<1>3. MaxU64 \in 0..MaxU64 /\ MaxU64 \in Nat
  BY AllOnesEquation, KeyAssumption DEF MaxU64
<1>4. ASSUME NEW k \in kept
      PROVE  InRange(Key(k), make_range_start(b, from), make_bucket_range_end(b))
               <=> call[k].bucket = b /\ from <= call[k].lsn /\ call[k].lsn < MaxU64
  <2>1. PICK c \in Seq(0..(Base - 1)), l \in 0..MaxU64 : c = call[k].bucket /\ l = call[k].lsn
    BY ZenonT(30), <1>1, CallFields DEF IndInv
  <2>2. l \in Nat
    BY ZenonT(30), ShiftedOut
  <2>3. InRange(Key(k), make_range_start(b, from), make_bucket_range_end(b))
          <=> ~KeyLess(make_key(c, l), make_key(b, from)) /\ KeyLess(make_key(c, l), make_key(b, MaxU64))
    BY ZenonT(30), <2>1 DEF InRange, make_range_start, make_bucket_range_end, Key
  <2>4. CASE c = b
    <3>1. KeyLess(make_key(c, l), make_key(b, from)) <=> l < from
      BY ZenonT(30), <1>2, <2>4, SameBucketOrder
    <3>2. KeyLess(make_key(c, l), make_key(b, MaxU64)) <=> l < MaxU64
      BY ZenonT(30), <1>2, <1>3, <2>4, SameBucketOrder
    <3>3. ~(l < from) <=> from <= l
      BY <1>2, <2>2
    <3> QED
      BY ZenonT(30), <2>1, <2>3, <2>4, <3>1, <3>2, <3>3
  <2>5. CASE c # b
    <3>1. KeyLess(make_key(c, l), make_key(b, from)) <=> KeyLess(make_key(c, l), make_key(b, MaxU64))
      BY ZenonT(30), <1>2, <1>3, <2>2, <2>5, OtherBucketOrder
    <3> QED
      BY ZenonT(30), <2>1, <2>3, <2>5, <3>1
  <2> QED
    BY ZenonT(30), <2>4, <2>5
<1> QED
  BY ZenonT(30), <1>1, <1>4 DEF ScannedKeys

\* In every state of the invariant, drain_since() is exact.
LEMMA DrainIsExact ==
  ASSUME IndInv, NEW b \in BucketIds, NEW from \in Lsns
  PROVE  LET out == drain_since(b, from)
         IN /\ {out[i] : i \in 1..Len(out)}
                 = {k \in kept : call[k].bucket = b /\ call[k].lsn >= from /\ call[k].lsn < MaxU64}
            /\ \A i, j \in 1..Len(out) : i < j => call[out[i]].lsn < call[out[j]].lsn
<1> DEFINE K == ScannedKeys(b, from)
           L == {j \in kept : call[j].bucket = b /\ from <= call[j].lsn /\ call[j].lsn < MaxU64}
           v == [key \in K |-> call[ops[key].call].lsn]
<1>1. K = {Key(k) : k \in L}
  BY ZenonT(30), ScanExact
<1>2. ASSUME NEW k \in L
      PROVE  /\ k \in kept /\ k \in Calls /\ call[k].bucket = b /\ call[k].bucket \in Seq(0..(Base - 1))
             /\ call[k].lsn \in 0..MaxU64 /\ call[k].lsn \in Nat
             /\ Key(k) \in K /\ ops[Key(k)].call = k
  <2>1. k \in kept /\ k \in Calls /\ call[k].st = "done" /\ call[k].bucket = b
    BY ZenonT(30) DEF IndInv, TypeOK, StoredInv
  <2>2. ops[Key(k)] = [call |-> k, at |-> call[k].at]
    BY ZenonT(30), <2>1 DEF IndInv, StoredInv
  <2>3. call[k].bucket \in Seq(0..(Base - 1)) /\ call[k].lsn \in 0..MaxU64
    BY ZenonT(30), <2>1, CallFields DEF IndInv
  <2>4. call[k].lsn \in Nat
    BY ZenonT(30), <2>3, ShiftedOut
  <2> QED
    BY <1>1, <2>1, <2>2, <2>3, <2>4
<1>3. IsFiniteSet(K)
  <2>1. K \in SUBSET DOMAIN ops /\ IsFiniteSet(DOMAIN ops)
    BY ZenonT(30) DEF ScannedKeys, IndInv, StoredInv
  <2> QED
    BY ZenonT(30), <2>1, FS_Subset
<1> HIDE DEF K, L
<1>4. v \in [K -> Nat] /\ \A k \in L : v[Key(k)] = call[k].lsn
  <2>1. ASSUME NEW k \in L PROVE Key(k) \in K /\ call[ops[Key(k)].call].lsn = call[k].lsn
    BY ZenonT(30), <1>2
  <2>2. ASSUME NEW key \in K PROVE call[ops[key].call].lsn \in Nat
    <3>1. PICK k \in L : key = Key(k)
      BY ZenonT(30), <1>1
    <3> QED
      BY ZenonT(30), <1>2, <2>1, <3>1
  <2> QED
    BY ZenonT(30), <2>1, <2>2
<1>5. \A k \in L : Key(k) = make_key(b, call[k].lsn)
  BY ZenonT(30), <1>2 DEF Key
<1> HIDE DEF v
<1>6. \A x, y \in K : KeyLess(x, y) <=> v[x] < v[y]
  <2> SUFFICES ASSUME NEW x \in K, NEW y \in K PROVE KeyLess(x, y) <=> v[x] < v[y]
    BY ZenonT(30)
  <2>1. PICK j \in L : x = Key(j)
    BY ZenonT(30), <1>1
  <2>2. PICK k \in L : y = Key(k)
    BY ZenonT(30), <1>1
  <2>3. x = make_key(b, call[j].lsn) /\ y = make_key(b, call[k].lsn)
    BY ZenonT(30), <1>5, <2>1, <2>2
  <2>4. v[x] = call[j].lsn /\ v[y] = call[k].lsn
    BY ZenonT(30), <1>4, <2>1, <2>2
  <2>5. b \in Seq(0..(Base - 1)) /\ call[j].lsn \in 0..MaxU64 /\ call[k].lsn \in 0..MaxU64
    BY ZenonT(30), <1>2
  <2> QED
    BY ZenonT(30), <2>3, <2>4, <2>5, SameBucketOrder
<1>7. \A x, y \in K : v[x] = v[y] => x = y
  BY <1>1, <1>4, <1>5
<1>8. /\ Cardinality(K) \in Nat
      /\ \A i \in 1..Cardinality(K) : \E k \in K : Rank(K, v, k) = i - 1
      /\ \A k \in K : Rank(K, v, k) \in Nat /\ Rank(K, v, k) + 1 \in 1..Cardinality(K)
      /\ \A j, k \in K : Rank(K, v, j) < Rank(K, v, k) => v[j] < v[k]
      /\ \A j, k \in K : Rank(K, v, j) = Rank(K, v, k) => j = k
  BY ZenonT(30), <1>3, <1>4, <1>7, Ranking
<1> DEFINE rank(key) == Cardinality({j \in K : KeyLess(j, key)})
           at(i) == CHOOSE key \in K : rank(key) = i - 1
           out == [i \in 1..Cardinality(K) |-> ops[at(i)].call]
<1>9. drain_since(b, from) = out
  BY ZenonT(30) DEF drain_since, K
<1>10. \A key \in K : rank(key) = Rank(K, v, key)
  <2> SUFFICES ASSUME NEW key \in K PROVE rank(key) = Rank(K, v, key)
    BY ZenonT(30)
  <2>1. {j \in K : KeyLess(j, key)} = {j \in K : v[j] < v[key]}
    BY ZenonT(30), <1>6
  <2> QED
    BY ZenonT(30), <2>1 DEF Rank
<1> HIDE DEF rank
<1>11. \A i \in 1..Cardinality(K) : at(i) \in K /\ Rank(K, v, at(i)) = i - 1
  BY ZenonT(30), <1>8, <1>10
<1>12. \A key \in K : at(Rank(K, v, key) + 1) = key
  <2> SUFFICES ASSUME NEW key \in K PROVE at(Rank(K, v, key) + 1) = key
    BY ZenonT(30)
  <2>1. PICK i \in 1..Cardinality(K) : i = Rank(K, v, key) + 1
    BY ZenonT(30), <1>8
  <2>2. at(i) \in K /\ Rank(K, v, at(i)) = i - 1
    BY ZenonT(30), <1>11
  <2>3. Rank(K, v, key) = i - 1
    BY <1>8, <2>1
  <2> HIDE DEF at
  <2>4. at(i) = key
    BY ZenonT(30), <1>8, <2>2, <2>3
  <2> QED
    BY ZenonT(30), <2>1, <2>4
<1> HIDE DEF at
<1>13. Len(out) = Cardinality(K) /\ \A i \in 1..Cardinality(K) : out[i] = ops[at(i)].call
  BY <1>8
<1> HIDE DEF out
<1>14. {out[i] : i \in 1..Len(out)} = L
  <2>1. ASSUME NEW i \in 1..Len(out) PROVE out[i] \in L
    <3>1. at(i) \in K /\ out[i] = ops[at(i)].call
      BY ZenonT(30), <1>11, <1>13
    <3>2. PICK k \in L : at(i) = Key(k)
      BY ZenonT(30), <1>1, <3>1
    <3> QED
      BY ZenonT(30), <1>2, <3>1, <3>2
  <2>2. ASSUME NEW k \in L PROVE \E i \in 1..Len(out) : out[i] = k
    <3>1. Key(k) \in K /\ ops[Key(k)].call = k
      BY ZenonT(30), <1>2
    <3>2. PICK i \in 1..Cardinality(K) : i = Rank(K, v, Key(k)) + 1
      BY ZenonT(30), <1>8, <3>1
    <3>3. at(i) = Key(k)
      BY ZenonT(30), <1>12, <3>1, <3>2
    <3> QED
      BY ZenonT(30), <1>13, <3>1, <3>3
  <2> QED
    BY ZenonT(30), <2>1, <2>2
<1>15. ASSUME NEW i \in 1..Len(out), NEW j \in 1..Len(out), i < j
       PROVE  call[out[i]].lsn < call[out[j]].lsn
  <2>1. /\ at(i) \in K /\ out[i] = ops[at(i)].call /\ Rank(K, v, at(i)) = i - 1
        /\ at(j) \in K /\ out[j] = ops[at(j)].call /\ Rank(K, v, at(j)) = j - 1
    BY ZenonT(30), <1>11, <1>13
  <2>2. Rank(K, v, at(i)) < Rank(K, v, at(j))
    BY <1>8, <1>13, <1>15, <2>1
  <2>3. v[at(i)] < v[at(j)]
    BY ZenonT(30), <1>8, <2>1, <2>2
  <2>4. PICK k \in L : at(i) = Key(k)
    BY ZenonT(30), <1>1, <2>1
  <2>5. PICK l \in L : at(j) = Key(l)
    BY ZenonT(30), <1>1, <2>1
  <2>6. out[i] = k /\ out[j] = l /\ v[at(i)] = call[k].lsn /\ v[at(j)] = call[l].lsn
    BY ZenonT(30), <1>2, <1>4, <2>1, <2>4, <2>5
  <2> QED
    BY ZenonT(30), <2>3, <2>6
<1>16. L = {k \in kept : call[k].bucket = b /\ call[k].lsn >= from /\ call[k].lsn < MaxU64}
  BY ZenonT(30) DEF L
<1> QED
  BY ZenonT(30), <1>9, <1>14, <1>15, <1>16

\* A drain returns the stored operations of its bucket from the given LSN on,
\* in LSN order and no others, for any byte size and number of bytes (store.rs:118,
\* key.rs:21): bucket ids that are prefixes of one another do not mix.
THEOREM DrainExactCorrect == Spec => []DrainExact
<1>1. IndInv => DrainExact
  BY ZenonT(30), DrainIsExact DEF DrainExact
<1> QED
  BY <1>1, Invariance, PTL
=============================================================================
