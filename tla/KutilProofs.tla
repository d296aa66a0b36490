------------------------------ MODULE KutilProofs ------------------------------
(***************************************************************************)
(* Proofs about the kernel's printing, for any number of processors, any   *)
(* messages they print and any numbers of 64 bits in them.                 *)
(***************************************************************************)
EXTENDS Kutil, SequenceTheorems, WellFoundedInduction, TLAPS

(* The least element of a set of naturals: the proofs by induction below   *)
(* look at the least number that is against them.                          *)
LEMMA Least ==
  ASSUME NEW T, T \subseteq Nat, T # {}
  PROVE  \E x \in T : \A y \in T : x <= y
<1>1. \E x \in T : \A y \in T : ~(<<y, x>> \in OpToRel(<, Nat))
  BY WFMin, NatLessThanWellFounded, Zenon
<1>2. PICK x \in T : \A y \in T : ~(<<y, x>> \in OpToRel(<, Nat))
  BY <1>1, Zenon
<1>3. \A y \in T : ~(y < x)
  BY <1>2, Zenon DEF OpToRel
<1> QED
  BY <1>3

-----------------------------------------------------------------------------
(* Digits.                                                                 *)
Bases == {2, 10, 16}

LEMMA Division ==
  ASSUME NEW n \in Nat, NEW base \in Bases
  PROVE  /\ n \div base \in Nat /\ n % base \in 0 .. base - 1
         /\ n > 0 => n \div base < n
         /\ n \div base = 0 <=> n < base
         /\ n < base => n % base = n
  BY DEF Bases

LEMMA HexLut ==
  ASSUME NEW d \in Nat
  PROVE  hex_lut(d) \in Nat
  BY DEF hex_lut

(* The function that Shr(n, base, k) is defined by.                        *)
Shifts(s, n, base, k) ==
  s = [j \in 0 .. k |-> IF j = 0 THEN n ELSE s[j - 1] \div base]

LEMMA ShiftsAt ==
  ASSUME NEW s, NEW n, NEW base, NEW k \in Nat, Shifts(s, n, base, k)
  PROVE  s[0] = n /\ \A j \in 1 .. k : s[j] = s[j - 1] \div base
<1>1. \A j \in 0 .. k : s[j] = IF j = 0 THEN n ELSE s[j - 1] \div base
  BY Zenon DEF Shifts
<1> QED
  BY <1>1

LEMMA ShiftsExist ==
  ASSUME NEW n \in Nat, NEW base \in Bases, NEW k \in Nat
  PROVE  \E s : Shifts(s, n, base, k)
<1> DEFINE T == {x \in Nat : ~\E s : Shifts(s, n, base, x)}
<1>1. ASSUME T # {}
      PROVE  FALSE
  <2>1. PICK x \in T : \A y \in T : x <= y
    BY <1>1, Least
  <2>2. x # 0
    <3>1. \E r : r = [j \in 0 .. 0 |-> n]
      OBVIOUS
    <3>2. PICK r : r = [j \in 0 .. 0 |-> n]
      BY <3>1
    <3>3. Shifts(r, n, base, 0)
      BY <3>2 DEF Shifts
    <3> QED
      BY <2>1, <3>3
  <2>3. x - 1 \in Nat /\ x - 1 \notin T
    BY <2>1, <2>2
  <2>4. PICK s : Shifts(s, n, base, x - 1)
    BY <2>3
  <2>5. s[0] = n /\ \A j \in 1 .. x - 1 : s[j] = s[j - 1] \div base
    BY <2>3, <2>4, ShiftsAt
  <2>6. PICK r : r = [j \in 0 .. x |-> IF j = x THEN s[x - 1] \div base ELSE s[j]]
    OBVIOUS
  <2>7. \A j \in 0 .. x : r[j] = IF j = 0 THEN n ELSE r[j - 1] \div base
    <3> TAKE j \in 0 .. x
    <3>1. CASE j = 0
      BY <2>2, <2>5, <2>6, <3>1
    <3>2. CASE j = x
      <4>1. x - 1 \in 0 .. x /\ x - 1 # x /\ x \in 0 .. x
        BY <2>3
      <4>2. r[x - 1] = s[x - 1] /\ r[x] = s[x - 1] \div base
        BY <2>6, <4>1
      <4> QED
        BY <2>2, <3>2, <4>2
    <3>3. CASE j # 0 /\ j # x
      <4>1. j \in 1 .. x - 1 /\ j - 1 \in 0 .. x /\ j - 1 # x
        BY <2>3, <3>3
      <4>2. r[j] = s[j] /\ r[j - 1] = s[j - 1]
        BY <2>6, <3>3, <4>1
      <4> QED
        BY <2>5, <3>3, <4>1, <4>2
    <3> QED
      BY <3>1, <3>2, <3>3
  <2>8. r = [j \in 0 .. x |-> r[j]]
    BY <2>6
  <2>9. Shifts(r, n, base, x)
    BY <2>7, <2>8 DEF Shifts
  <2> QED
    BY <2>1, <2>9
<1> QED
  BY <1>1

LEMMA ShiftsAgree ==
  ASSUME NEW n \in Nat, NEW base \in Bases, NEW k \in Nat, NEW m \in Nat, NEW s, NEW r,
         Shifts(s, n, base, k), Shifts(r, n, base, m)
  PROVE  \A j \in Nat : j <= k /\ j <= m => s[j] = r[j] /\ s[j] \in Nat
<1> DEFINE T == {j \in Nat : j <= k /\ j <= m /\ ~(s[j] = r[j] /\ s[j] \in Nat)}
<1>0. /\ s[0] = n /\ \A j \in 1 .. k : s[j] = s[j - 1] \div base
      /\ r[0] = n /\ \A j \in 1 .. m : r[j] = r[j - 1] \div base
  BY ShiftsAt
<1>1. ASSUME T # {}
      PROVE  FALSE
  <2>1. PICK x \in T : \A y \in T : x <= y
    BY <1>1, Least
  <2>2. x # 0
    BY <1>0, <2>1
  <2>3. x - 1 \in Nat /\ x - 1 \notin T /\ x \in 1 .. k /\ x \in 1 .. m
    BY <2>1, <2>2
  <2>4. s[x - 1] = r[x - 1] /\ s[x - 1] \in Nat
    BY <2>3
  <2>5. s[x] = s[x - 1] \div base /\ r[x] = r[x - 1] \div base
    BY <1>0, <2>3
  <2>6. s[x - 1] \div base \in Nat
    BY <2>4, Division
  <2> QED
    BY <2>1, <2>4, <2>5, <2>6
<1> QED
  BY <1>1

LEMMA ShrIs ==
  ASSUME NEW n \in Nat, NEW base \in Bases, NEW k \in Nat
  PROVE  \E s : Shifts(s, n, base, k) /\ Shr(n, base, k) = s[k]
<1> DEFINE s0 == CHOOSE s : s = [j \in 0 .. k |-> IF j = 0 THEN n ELSE s[j - 1] \div base]
<1>1. \E s : s = [j \in 0 .. k |-> IF j = 0 THEN n ELSE s[j - 1] \div base]
  BY ShiftsExist DEF Shifts
<1>2. Shifts(s0, n, base, k)
  BY <1>1, Zenon DEF Shifts
<1>3. Shr(n, base, k) = s0[k]
  BY Zenon DEF Shr
<1> QED
  BY <1>2, <1>3, Zenon

(* n >> (k + 1) is (n >> k) >> 1, counted in digits.                       *)
LEMMA ShrStep ==
  ASSUME NEW n \in Nat, NEW base \in Bases
  PROVE  /\ Shr(n, base, 0) = n
         /\ \A k \in Nat : Shr(n, base, k) \in Nat
         /\ \A k \in Nat : Shr(n, base, k + 1) = Shr(n, base, k) \div base
<1>1. Shr(n, base, 0) = n
  <2>1. PICK s : Shifts(s, n, base, 0) /\ Shr(n, base, 0) = s[0]
    BY ShrIs
  <2> QED
    BY <2>1, ShiftsAt
<1>2. ASSUME NEW k \in Nat
      PROVE  Shr(n, base, k) \in Nat /\ Shr(n, base, k + 1) = Shr(n, base, k) \div base
  <2>1. PICK s : Shifts(s, n, base, k) /\ Shr(n, base, k) = s[k]
    BY ShrIs
  <2>2. k + 1 \in Nat /\ (k + 1) - 1 = k /\ k + 1 \in 1 .. k + 1 /\ k <= k + 1
    OBVIOUS
  <2>3. PICK r : Shifts(r, n, base, k + 1) /\ Shr(n, base, k + 1) = r[k + 1]
    BY <2>2, ShrIs
  <2>4. s[k] = r[k] /\ s[k] \in Nat
    BY <2>1, <2>2, <2>3, ShiftsAgree
  <2>5. r[k + 1] = r[k] \div base
    BY <2>2, <2>3, ShiftsAt
  <2> QED
    BY <2>1, <2>3, <2>4, <2>5
<1> QED
  BY <1>1, <1>2

LEMMA ShrShift ==
  ASSUME NEW n \in Nat, NEW base \in Bases
  PROVE  \A k \in Nat : Shr(n \div base, base, k) = Shr(n, base, k + 1)
<1> DEFINE T == {x \in Nat : Shr(n \div base, base, x) # Shr(n, base, x + 1)}
<1>0. n \div base \in Nat
  BY Division
<1>1. ASSUME T # {}
      PROVE  FALSE
  <2>1. PICK x \in T : \A y \in T : x <= y
    BY <1>1, Least
  <2>2. x # 0
    BY <1>0, <2>1, ShrStep
  <2>3. x - 1 \in Nat /\ x - 1 \notin T /\ (x - 1) + 1 = x
    BY <2>1, <2>2
  <2>4. Shr(n \div base, base, x - 1) = Shr(n, base, x)
    BY <2>3
  <2>5. Shr(n \div base, base, x) = Shr(n \div base, base, x - 1) \div base
    BY <1>0, <2>3, ShrStep
  <2>6. Shr(n, base, x + 1) = Shr(n, base, x) \div base
    BY <2>3, ShrStep
  <2> QED
    BY <2>1, <2>4, <2>5, <2>6
<1> QED
  BY <1>1

LEMMA ShrStaysZero ==
  ASSUME NEW n \in Nat, NEW base \in Bases, NEW j \in Nat, Shr(n, base, j) = 0
  PROVE  \A k \in Nat : j <= k => Shr(n, base, k) = 0
<1> DEFINE T == {x \in Nat : j <= x /\ Shr(n, base, x) # 0}
<1>1. ASSUME T # {}
      PROVE  FALSE
  <2>1. PICK x \in T : \A y \in T : x <= y
    BY <1>1, Least
  <2>2. x - 1 \in Nat /\ x - 1 \notin T /\ (x - 1) + 1 = x /\ j <= x - 1
    BY <2>1
  <2>3. Shr(n, base, x - 1) = 0
    BY <2>2
  <2>4. Shr(n, base, x) = 0 \div base
    BY <2>2, <2>3, ShrStep
  <2>5. 0 \div base = 0
    BY Division DEF Bases
  <2> QED
    BY <2>1, <2>4, <2>5
<1> QED
  BY <1>1

(* The function that Numeral(n, base) is defined by.                       *)
Numerals(f, n, base) ==
  f = [k \in 0 .. n |->
         IF k < base THEN <<hex_lut(k)>> ELSE Append(f[k \div base], hex_lut(k % base))]

LEMMA NumeralsAt ==
  ASSUME NEW f, NEW n \in Nat, NEW base, Numerals(f, n, base), NEW k \in 0 .. n
  PROVE  f[k] = IF k < base THEN <<hex_lut(k)>> ELSE Append(f[k \div base], hex_lut(k % base))
  BY Zenon DEF Numerals

LEMMA NumeralsExist ==
  ASSUME NEW n \in Nat, NEW base \in Bases
  PROVE  \E f : Numerals(f, n, base)
<1> DEFINE T == {x \in Nat : ~\E f : Numerals(f, x, base)}
<1>1. ASSUME T # {}
      PROVE  FALSE
  <2>1. PICK x \in T : \A y \in T : x <= y
    BY <1>1, Least
  <2>2. x # 0
    <3>1. PICK f : f = [k \in 0 .. 0 |-> <<hex_lut(k)>>]
      OBVIOUS
    <3>2. \A k \in 0 .. 0 : f[k] = IF k < base THEN <<hex_lut(k)>>
                                   ELSE Append(f[k \div base], hex_lut(k % base))
      BY <3>1 DEF Bases
    <3>3. f = [k \in 0 .. 0 |-> f[k]]
      BY <3>1
    <3>4. Numerals(f, 0, base)
      BY <3>2, <3>3 DEF Numerals
    <3> QED
      BY <2>1, <3>4
  <2>3. x - 1 \in Nat /\ x - 1 \notin T
    BY <2>1, <2>2
  <2>4. PICK g : Numerals(g, x - 1, base)
    BY <2>3
  <2>5. PICK f : f = [k \in 0 .. x |->
                        IF k < x THEN g[k]
                        ELSE IF k < base THEN <<hex_lut(k)>>
                        ELSE Append(g[k \div base], hex_lut(k % base))]
    OBVIOUS
  <2>6. \A k \in 0 .. x : f[k] = IF k < base THEN <<hex_lut(k)>>
                                 ELSE Append(f[k \div base], hex_lut(k % base))
    <3> TAKE k \in 0 .. x
    <3>1. k > 0 => k \div base \in 0 .. x /\ k \div base < x /\ k \div base \in 0 .. x - 1
      BY <2>3, Division
    <3>2. k > 0 => f[k \div base] = g[k \div base]
      BY <2>5, <3>1
    <3>3. k >= base => k > 0
      BY DEF Bases
    <3>4. CASE k < x
      <4>1. k \in 0 .. x - 1
        BY <2>3, <3>4
      <4>2. g[k] = IF k < base THEN <<hex_lut(k)>> ELSE Append(g[k \div base], hex_lut(k % base))
        BY <2>3, <2>4, <4>1, NumeralsAt
      <4>3. f[k] = g[k]
        BY <2>5, <3>4
      <4>4. k < base \/ k >= base
        BY DEF Bases
      <4> QED
        BY <3>2, <3>3, <4>2, <4>3, <4>4
    <3>5. CASE ~(k < x)
      <4>1. f[k] = IF k < base THEN <<hex_lut(k)>> ELSE Append(g[k \div base], hex_lut(k % base))
        BY <2>5, <3>5
      <4>2. k < base \/ k >= base
        BY DEF Bases
      <4> QED
        BY <3>2, <3>3, <4>1, <4>2
    <3> QED
      BY <3>4, <3>5
  <2>7. f = [k \in 0 .. x |-> f[k]]
    BY <2>5
  <2>8. Numerals(f, x, base)
    BY <2>6, <2>7 DEF Numerals
  <2> QED
    BY <2>1, <2>8
<1> QED
  BY <1>1

(* s has the digits of n, the last one first, and no zero in front.        *)
Denotes(s, n, base) ==
  /\ s \in Seq(Nat) /\ Len(s) \in Nat \ {0} /\ DOMAIN s = 1 .. Len(s)
  /\ \A j \in 0 .. Len(s) - 1 : s[Len(s) - j] = hex_lut(Shr(n, base, j) % base)
  /\ \A j \in 1 .. Len(s) - 1 : Shr(n, base, j) # 0
  /\ Shr(n, base, Len(s)) = 0

LEMMA DenotesOne ==
  ASSUME NEW n \in Nat, NEW base \in Bases, n < base
  PROVE  Denotes(<<hex_lut(n)>>, n, base)
<1>1. PICK d \in Nat : d = hex_lut(n)
  BY HexLut
<1>2. PICK s : s = <<d>>
  OBVIOUS
<1>3. s \in Seq(Nat) /\ Len(s) = 1 /\ DOMAIN s = 1 .. 1 /\ s[1] = d
  BY <1>2
<1>4. Shr(n, base, 0) = n /\ Shr(n, base, 0 + 1) = Shr(n, base, 0) \div base
  BY ShrStep
<1>5. n \div base = 0 /\ n % base = n
  BY Division
<1>6. Denotes(s, n, base)
  <2>1. \A j \in 0 .. Len(s) - 1 : j = 0 /\ Len(s) - j = 1
    BY <1>3
  <2>2. \A j \in 1 .. Len(s) - 1 : FALSE
    BY <1>3
  <2> QED
    BY <1>1, <1>3, <1>4, <1>5, <2>1, <2>2 DEF Denotes
<1> QED
  BY <1>1, <1>2, <1>6

LEMMA DenotesMore ==
  ASSUME NEW n \in Nat, NEW base \in Bases, n >= base, NEW s, Denotes(s, n \div base, base)
  PROVE  Denotes(Append(s, hex_lut(n % base)), n, base)
<1>1. n % base \in Nat /\ n \div base \in Nat /\ n \div base # 0
  BY Division DEF Bases
<1>2. PICK d \in Nat : d = hex_lut(n % base)
  BY <1>1, HexLut
<1>3. PICK L \in Nat \ {0} : L = Len(s)
  BY DEF Denotes
<1>4. PICK t : t = Append(s, d)
  OBVIOUS
<1>5. /\ t \in Seq(Nat) /\ Len(t) = L + 1 /\ DOMAIN t = 1 .. L + 1
      /\ t[L + 1] = d /\ \A p \in 1 .. L : t[p] = s[p]
  <2>1. s \in Seq(Nat)
    BY DEF Denotes
  <2> QED
    BY <1>3, <1>4, <2>1
<1>6. Shr(n, base, 0) = n /\ \A k \in Nat : Shr(n \div base, base, k) = Shr(n, base, k + 1)
  BY ShrStep, ShrShift
<1>7. ASSUME NEW j \in 0 .. L
      PROVE  /\ t[(L + 1) - j] = hex_lut(Shr(n, base, j) % base)
             /\ j # 0 => Shr(n, base, j) # 0
  <2>1. CASE j = 0
    BY <1>2, <1>5, <1>6, <2>1
  <2>2. CASE j # 0
    <3>1. j - 1 \in 0 .. L - 1 /\ (L + 1) - j = L - (j - 1) /\ L - (j - 1) \in 1 .. L
          /\ j - 1 \in Nat /\ (j - 1) + 1 = j
      BY <2>2
    <3>2. t[(L + 1) - j] = s[L - (j - 1)]
      BY <1>5, <3>1
    <3>3. s[L - (j - 1)] = hex_lut(Shr(n \div base, base, j - 1) % base)
      BY <1>3, <3>1 DEF Denotes
    <3>4. Shr(n \div base, base, j - 1) = Shr(n, base, j)
      BY <1>6, <3>1
    <3>5. Shr(n \div base, base, j - 1) # 0
      <4>1. CASE j = 1
        BY <1>1, <4>1, ShrStep
      <4>2. CASE j # 1
        <5>1. j - 1 \in 1 .. L - 1
          BY <2>2, <4>2
        <5> QED
          BY <1>3, <5>1 DEF Denotes
      <4> QED
        BY <4>1, <4>2
    <3> QED
      BY <3>2, <3>3, <3>4, <3>5
  <2> QED
    BY <2>1, <2>2
<1>8. Shr(n, base, L + 1) = 0
  BY <1>3, <1>6 DEF Denotes
<1>9. Denotes(t, n, base)
  <2>1. (L + 1) - 1 = L /\ L + 1 \in Nat \ {0} /\ \A j \in 1 .. L : j \in 0 .. L /\ j # 0
    OBVIOUS
  <2> QED
    BY <1>5, <1>7, <1>8, <2>1 DEF Denotes
<1> QED
  BY <1>2, <1>4, <1>9

(* The numeral of n has the digits that its shifts end in.                 *)
LEMMA NumeralDenotes ==
  ASSUME NEW n \in Nat, NEW base \in Bases
  PROVE  Denotes(Numeral(n, base), n, base)
<1> DEFINE f0 == CHOOSE f : f = [k \in 0 .. n |->
                   IF k < base THEN <<hex_lut(k)>>
                   ELSE Append(f[k \div base], hex_lut(k % base))]
<1>1. \E f : f = [k \in 0 .. n |-> IF k < base THEN <<hex_lut(k)>>
                                   ELSE Append(f[k \div base], hex_lut(k % base))]
  BY NumeralsExist DEF Numerals
<1>2. Numerals(f0, n, base)
  BY <1>1, Zenon DEF Numerals
<1>3. Numeral(n, base) = f0[n]
  BY Zenon DEF Numeral
<1>4. PICK f : f = f0
  OBVIOUS
<1>5. Numerals(f, n, base) /\ Numeral(n, base) = f[n]
  BY <1>2, <1>3, <1>4, Zenon
<1> HIDE DEF f0
<1> DEFINE T == {k \in Nat : k <= n /\ ~Denotes(f[k], k, base)}
<1>6. ASSUME T # {}
      PROVE  FALSE
  <2>1. PICK x \in T : \A y \in T : x <= y
    BY <1>6, Least
  <2>2. f[x] = IF x < base THEN <<hex_lut(x)>> ELSE Append(f[x \div base], hex_lut(x % base))
    BY <1>5, <2>1, NumeralsAt
  <2>3. CASE x < base
    BY <2>1, <2>2, <2>3, DenotesOne
  <2>4. CASE ~(x < base)
    <3>1. x >= base /\ x > 0
      BY <2>1, <2>4 DEF Bases
    <3>2. x \div base \in Nat /\ x \div base < x
      BY <2>1, <3>1, Division
    <3>3. x \div base \notin T /\ x \div base <= n
      BY <2>1, <3>2
    <3>4. Denotes(f[x \div base], x \div base, base)
      BY <3>2, <3>3
    <3>5. Denotes(Append(f[x \div base], hex_lut(x % base)), x, base)
      BY <2>1, <3>1, <3>4, DenotesMore
    <3> QED
      BY <2>1, <2>2, <2>4, <3>5
  <2> QED
    BY <2>3, <2>4
<1> QED
  BY <1>5, <1>6

LEMMA NchIs ==
  ASSUME NEW n \in Nat, NEW base \in Bases, NEW limit \in Nat, NEW s, Denotes(s, n, base),
         n # 0, Shr(n, base, limit) = 0
  PROVE  nch(n, base, limit) = Len(s)
<1>1. PICK L \in Nat \ {0} : L = Len(s)
  BY DEF Denotes
<1>2. Shr(n, base, L) = 0 /\ \A j \in 0 .. L - 1 : Shr(n, base, j) # 0
  <2>1. \A j \in 1 .. L - 1 : Shr(n, base, j) # 0
    BY <1>1 DEF Denotes
  <2>2. Shr(n, base, 0) = n
    BY ShrStep
  <2>3. \A j \in 0 .. L - 1 : j = 0 \/ j \in 1 .. L - 1
    OBVIOUS
  <2> QED
    BY <1>1, <2>1, <2>2, <2>3 DEF Denotes
<1>3. L <= limit
  BY <1>2
<1>4. L \in 0 .. limit
  BY <1>3
<1>5. ASSUME NEW k \in 0 .. limit, k = limit \/ Shr(n, base, k) = 0,
             \A j \in 0 .. k - 1 : Shr(n, base, j) # 0
      PROVE  k = L
  <2>1. ~(k < L)
    BY <1>2, <1>5
  <2>2. ~(L < k)
    BY <1>2, <1>5
  <2> QED
    BY <2>1, <2>2
<1>6. /\ L = limit \/ Shr(n, base, L) = 0
      /\ \A j \in 0 .. L - 1 : Shr(n, base, j) # 0
  BY <1>2
<1> DEFINE Q(k) == /\ k = limit \/ Shr(n, base, k) = 0
                   /\ \A j \in 0 .. k - 1 : Shr(n, base, j) # 0
<1>7. \E k \in 0 .. limit : Q(k)
  BY <1>4, <1>6, Zenon
<1>8. nch(n, base, limit) = CHOOSE k \in 0 .. limit : Q(k)
  BY Zenon DEF nch
<1>9. \A k \in 0 .. limit : Q(k) => k = L
  BY <1>5, Zenon
<1> HIDE DEF Q
<1>10. nch(n, base, limit) \in 0 .. limit /\ Q(nch(n, base, limit))
  BY <1>7, <1>8, Zenon
<1> QED
  BY <1>1, <1>9, <1>10, Zenon

(* Digits gives what the numeral's digits are, as many as are asked for.   *)
LEMMA DigitsIs ==
  ASSUME NEW n \in Nat, NEW base \in Bases, NEW w \in Nat
  PROVE  /\ Digits(n, base, w) \in Seq(Nat) /\ DOMAIN Digits(n, base, w) = 1 .. w
         /\ \A p \in 1 .. w : Digits(n, base, w)[p] = hex_lut(Shr(n, base, w - p) % base)
<1>1. \A p \in 1 .. w : hex_lut(Shr(n, base, w - p) % base) \in Nat
  <2> TAKE p \in 1 .. w
  <2>1. w - p \in Nat
    OBVIOUS
  <2>2. Shr(n, base, w - p) \in Nat
    BY <2>1, ShrStep
  <2>3. Shr(n, base, w - p) % base \in Nat
    BY <2>2, Division DEF Bases
  <2> QED
    BY <2>3, HexLut
<1> QED
  BY <1>1 DEF Digits

LEMMA DigitsNumeral ==
  ASSUME NEW n \in Nat, NEW base \in Bases, NEW s, Denotes(s, n, base)
  PROVE  Digits(n, base, Len(s)) = s
<1>1. PICK L \in Nat \ {0} : L = Len(s)
  BY DEF Denotes
<1>2. PICK t : t = Digits(n, base, L)
  OBVIOUS
<1>3. t \in Seq(Nat) /\ DOMAIN t = 1 .. L
      /\ \A p \in 1 .. L : t[p] = hex_lut(Shr(n, base, L - p) % base)
  BY <1>1, <1>2, DigitsIs
<1>4. \A p \in 1 .. L : s[p] = hex_lut(Shr(n, base, L - p) % base)
  <2> TAKE p \in 1 .. L
  <2>1. L - p \in 0 .. L - 1 /\ L - (L - p) = p
    OBVIOUS
  <2> QED
    BY <1>1, <2>1 DEF Denotes
<1>5. s \in Seq(Nat) /\ DOMAIN s = 1 .. L /\ Len(s) = L
  BY <1>1 DEF Denotes
<1>6. Len(t) = L
  BY <1>3
<1>7. t = s
  BY <1>3, <1>4, <1>5, <1>6
<1> QED
  BY <1>1, <1>2, <1>7

LEMMA DigitsFixed ==
  ASSUME NEW n \in Nat, NEW base \in Bases, NEW w \in Nat, NEW s, Denotes(s, n, base)
  PROVE  Digits(n, base, w) = Fixed(s, w)
<1>1. PICK L \in Nat \ {0} : L = Len(s)
  BY DEF Denotes
<1>2. ASSUME NEW p \in 1 .. w
      PROVE  hex_lut(Shr(n, base, w - p) % base) =
               IF p + L > w THEN s[(p + L) - w] ELSE hex_lut(0)
  <2>1. CASE p + L > w
    <3>1. w - p \in 0 .. L - 1 /\ L - (w - p) = (p + L) - w
      BY <2>1
    <3>2. s[L - (w - p)] = hex_lut(Shr(n, base, w - p) % base)
      BY <1>1, <3>1 DEF Denotes
    <3> QED
      BY <2>1, <3>1, <3>2
  <2>2. CASE ~(p + L > w)
    <3>1. w - p \in Nat /\ L <= w - p
      BY <2>2
    <3>2. Shr(n, base, L) = 0
      BY <1>1 DEF Denotes
    <3>3. Shr(n, base, w - p) = 0
      BY <3>1, <3>2, ShrStaysZero
    <3>4. 0 % base = 0
      BY Division DEF Bases
    <3> QED
      BY <2>2, <3>3, <3>4
  <2> QED
    BY <2>1, <2>2
<1>3. PICK t : t = Digits(n, base, w)
  OBVIOUS
<1>4. /\ DOMAIN t = 1 .. w /\ t \in Seq(Nat)
      /\ \A p \in 1 .. w : t[p] = hex_lut(Shr(n, base, w - p) % base)
  BY <1>3, DigitsIs
<1>5. t = [p \in 1 .. w |-> t[p]]
  BY <1>4
<1>6. t = [p \in 1 .. w |-> IF p + L > w THEN s[(p + L) - w] ELSE hex_lut(0)]
  BY <1>2, <1>4, <1>5
<1>7. Fixed(s, w) = [p \in 1 .. w |-> IF p + L > w THEN s[(p + L) - w] ELSE hex_lut(0)]
  BY <1>1 DEF Fixed
<1> QED
  BY <1>3, <1>6, <1>7

(* A number of 64 bits has at most 16 digits to the base 16 and 20 to the  *)
(* base 10: the loops that count them stop at the number's last digit.     *)
LEMMA Bits64 ==
  ASSUME NEW n \in Nat, Shr(n, 2, 64) = 0
  PROVE  n < 18446744073709551616
<1>1. /\ 2 \in Bases /\ Shr(n, 2, 0) = n /\ \A k \in Nat : Shr(n, 2, k) \in Nat
      /\ \A k \in Nat : Shr(n, 2, k + 1) = Shr(n, 2, k) \div 2
  BY ShrStep DEF Bases
<1>2. ASSUME NEW k \in Nat
      PROVE  Shr(n, 2, k) <= 255 + 256 * Shr(n, 2, k + 8)
  <2>1. /\ Shr(n, 2, k) <= 1 + 2 * Shr(n, 2, k + 1)
        /\ Shr(n, 2, k + 1) <= 1 + 2 * Shr(n, 2, k + 2)
        /\ Shr(n, 2, k + 2) <= 1 + 2 * Shr(n, 2, k + 3)
        /\ Shr(n, 2, k + 3) <= 1 + 2 * Shr(n, 2, k + 4)
        /\ Shr(n, 2, k + 4) <= 1 + 2 * Shr(n, 2, k + 5)
        /\ Shr(n, 2, k + 5) <= 1 + 2 * Shr(n, 2, k + 6)
        /\ Shr(n, 2, k + 6) <= 1 + 2 * Shr(n, 2, k + 7)
        /\ Shr(n, 2, k + 7) <= 1 + 2 * Shr(n, 2, k + 8)
    <3>1. ASSUME NEW m \in Nat
          PROVE  Shr(n, 2, m) <= 1 + 2 * Shr(n, 2, m + 1)
      BY <1>1
    <3>2. \A m \in 0 .. 7 : Shr(n, 2, k + m) <= 1 + 2 * Shr(n, 2, (k + m) + 1)
      BY <3>1
    <3>3. \A m \in 0 .. 7 : (k + m) + 1 = k + (m + 1)
      OBVIOUS
    <3> QED
      BY <3>2, <3>3
  <2>2. \A m \in 0 .. 8 : Shr(n, 2, k + m) \in Nat
    BY <1>1
  <2> QED
    BY <2>1, <2>2, <1>1
<1>3. /\ Shr(n, 2, 0) <= 255 + 256 * Shr(n, 2, 8)
      /\ Shr(n, 2, 8) <= 255 + 256 * Shr(n, 2, 16)
      /\ Shr(n, 2, 16) <= 255 + 256 * Shr(n, 2, 24)
      /\ Shr(n, 2, 24) <= 255 + 256 * Shr(n, 2, 32)
      /\ Shr(n, 2, 32) <= 255 + 256 * Shr(n, 2, 40)
      /\ Shr(n, 2, 40) <= 255 + 256 * Shr(n, 2, 48)
      /\ Shr(n, 2, 48) <= 255 + 256 * Shr(n, 2, 56)
      /\ Shr(n, 2, 56) <= 255 + 256 * Shr(n, 2, 64)
  BY <1>2
<1> QED
  BY <1>1, <1>3

LEMMA HexDigits64 ==
  ASSUME NEW n \in Nat, Shr(n, 2, 64) = 0
  PROVE  Shr(n, 16, 16) = 0
<1>1. n < 18446744073709551616
  BY Bits64
<1>2. /\ Shr(n, 16, 0) = n /\ \A k \in Nat : Shr(n, 16, k) \in Nat
      /\ \A k \in Nat : Shr(n, 16, k + 1) = Shr(n, 16, k) \div 16
  BY ShrStep DEF Bases
<1>3. ASSUME NEW k \in Nat
      PROVE  65536 * Shr(n, 16, k + 4) <= Shr(n, 16, k)
  <2>1. \A m \in Nat : 16 * Shr(n, 16, m + 1) <= Shr(n, 16, m)
    BY <1>2
  <2>2. /\ 16 * Shr(n, 16, k + 1) <= Shr(n, 16, k)
        /\ 16 * Shr(n, 16, k + 2) <= Shr(n, 16, k + 1)
        /\ 16 * Shr(n, 16, k + 3) <= Shr(n, 16, k + 2)
        /\ 16 * Shr(n, 16, k + 4) <= Shr(n, 16, k + 3)
    <3>1. \A m \in 0 .. 3 : 16 * Shr(n, 16, (k + m) + 1) <= Shr(n, 16, k + m)
      BY <2>1
    <3>2. \A m \in 0 .. 3 : (k + m) + 1 = k + (m + 1)
      OBVIOUS
    <3> QED
      BY <3>1, <3>2
  <2>3. \A m \in 0 .. 4 : Shr(n, 16, k + m) \in Nat
    BY <1>2
  <2> QED
    BY <2>2, <2>3
<1>4. /\ 65536 * Shr(n, 16, 4) <= Shr(n, 16, 0)
      /\ 65536 * Shr(n, 16, 8) <= Shr(n, 16, 4)
      /\ 65536 * Shr(n, 16, 12) <= Shr(n, 16, 8)
      /\ 65536 * Shr(n, 16, 16) <= Shr(n, 16, 12)
  BY <1>3
<1>5. /\ Shr(n, 16, 0) \in Nat
      /\ Shr(n, 16, 4) \in Nat
      /\ Shr(n, 16, 8) \in Nat
      /\ Shr(n, 16, 12) \in Nat
      /\ Shr(n, 16, 16) \in Nat
  BY <1>2
<1>6. 4294967296 * Shr(n, 16, 16) <= Shr(n, 16, 8)
  BY <1>4, <1>5
<1>7. 4294967296 * Shr(n, 16, 8) <= Shr(n, 16, 0)
  BY <1>4, <1>5
<1>8. Shr(n, 16, 8) < 4294967296
  BY <1>1, <1>2, <1>5, <1>7
<1> QED
  BY <1>5, <1>6, <1>8

LEMMA DecimalDigits64 ==
  ASSUME NEW n \in Nat, Shr(n, 2, 64) = 0
  PROVE  Shr(n, 10, 20) = 0
<1>1. n < 18446744073709551616
  BY Bits64
<1>2. /\ Shr(n, 10, 0) = n /\ \A k \in Nat : Shr(n, 10, k) \in Nat
      /\ \A k \in Nat : Shr(n, 10, k + 1) = Shr(n, 10, k) \div 10
  BY ShrStep DEF Bases
<1>3. ASSUME NEW k \in Nat
      PROVE  100000 * Shr(n, 10, k + 5) <= Shr(n, 10, k)
  <2>1. \A m \in Nat : 10 * Shr(n, 10, m + 1) <= Shr(n, 10, m)
    BY <1>2
  <2>2. /\ 10 * Shr(n, 10, k + 1) <= Shr(n, 10, k)
        /\ 10 * Shr(n, 10, k + 2) <= Shr(n, 10, k + 1)
        /\ 10 * Shr(n, 10, k + 3) <= Shr(n, 10, k + 2)
        /\ 10 * Shr(n, 10, k + 4) <= Shr(n, 10, k + 3)
        /\ 10 * Shr(n, 10, k + 5) <= Shr(n, 10, k + 4)
    <3>1. \A m \in 0 .. 4 : 10 * Shr(n, 10, (k + m) + 1) <= Shr(n, 10, k + m)
      BY <2>1
    <3>2. \A m \in 0 .. 4 : (k + m) + 1 = k + (m + 1)
      OBVIOUS
    <3> QED
      BY <3>1, <3>2
  <2>3. \A m \in 0 .. 5 : Shr(n, 10, k + m) \in Nat
    BY <1>2
  <2> QED
    BY <2>2, <2>3
<1>4. /\ 100000 * Shr(n, 10, 5) <= Shr(n, 10, 0)
      /\ 100000 * Shr(n, 10, 10) <= Shr(n, 10, 5)
      /\ 100000 * Shr(n, 10, 15) <= Shr(n, 10, 10)
      /\ 100000 * Shr(n, 10, 20) <= Shr(n, 10, 15)
  BY <1>3
<1>5. /\ Shr(n, 10, 0) \in Nat
      /\ Shr(n, 10, 5) \in Nat
      /\ Shr(n, 10, 10) \in Nat
      /\ Shr(n, 10, 15) \in Nat
      /\ Shr(n, 10, 20) \in Nat
  BY <1>2
<1>6. 10000000000 * Shr(n, 10, 20) <= Shr(n, 10, 10)
  BY <1>4, <1>5
<1>7. 10000000000 * Shr(n, 10, 10) <= Shr(n, 10, 0)
  BY <1>4, <1>5
<1>8. Shr(n, 10, 10) < 10000000000
  BY <1>1, <1>2, <1>5, <1>7
<1> QED
  BY <1>5, <1>6, <1>8

(* A number printed without a width is its numeral, zero included, and one *)
(* printed with a width is its numeral cut or filled up to that width.     *)
LEMMA Printed ==
  ASSUME NEW n \in Nat, NEW base \in Bases, NEW limit \in Nat, Shr(n, base, limit) = 0
  PROVE  /\ (IF n = 0 THEN <<48>> ELSE Digits(n, base, nch(n, base, limit))) = Numeral(n, base)
         /\ Numeral(n, base) \in Seq(Nat)
         /\ \A w \in Nat : /\ Digits(n, base, w) = Fixed(Numeral(n, base), w)
                           /\ Digits(n, base, w) \in Seq(Nat)
<1>1. PICK s : s = Numeral(n, base)
  OBVIOUS
<1>2. Denotes(s, n, base)
  BY <1>1, NumeralDenotes
<1>3. s \in Seq(Nat)
  BY <1>2 DEF Denotes
<1>6. ASSUME NEW w \in Nat
      PROVE  Digits(n, base, w) = Fixed(s, w) /\ Digits(n, base, w) \in Seq(Nat)
  <2>1. Digits(n, base, w) = Fixed(s, w)
    BY <1>2, DigitsFixed
  <2>2. Digits(n, base, w) \in Seq(Nat)
    BY DigitsIs, Zenon
  <2> QED
    BY <2>1, <2>2
<1>4. CASE n = 0
  <2>1. PICK L \in Nat \ {0} : L = Len(s)
    BY <1>2 DEF Denotes
  <2>2. Shr(n, base, 0) = 0
    BY <1>4, ShrStep
  <2>3. \A k \in Nat : Shr(n, base, k) = 0
    BY <2>2, ShrStaysZero
  <2>4. \A j \in 1 .. L - 1 : FALSE
    BY <1>2, <2>1, <2>3 DEF Denotes
  <2>5. L = 1
    BY <2>4
  <2>6. 0 \in 0 .. L - 1 /\ L - 0 = 1
    BY <2>5
  <2>7. s[1] = hex_lut(Shr(n, base, 0) % base)
    BY <1>2, <2>1, <2>6 DEF Denotes
  <2>8. 0 % base = 0 /\ hex_lut(0) = 48
    BY Division DEF Bases, hex_lut
  <2>9. s[1] = 48
    BY <2>2, <2>7, <2>8
  <2>10. s = <<48>>
    <3>1. PICK zero : zero = <<48>>
      OBVIOUS
    <3>2. zero \in Seq(Nat) /\ DOMAIN zero = 1 .. 1 /\ \A p \in 1 .. 1 : zero[p] = 48
      BY <3>1
    <3>3. DOMAIN s = 1 .. 1 /\ \A p \in 1 .. 1 : s[p] = 48
      BY <1>2, <2>1, <2>5, <2>9 DEF Denotes
    <3>4. s = zero
      BY <1>3, <3>2, <3>3
    <3> QED
      BY <3>1, <3>4
  <2>11. (IF n = 0 THEN <<48>> ELSE Digits(n, base, nch(n, base, limit))) = s
    BY <1>4, <2>10, Zenon
  <2> QED
    BY <1>1, <1>3, <1>6, <2>11, Zenon
<1>5. CASE n # 0
  <2>1. nch(n, base, limit) = Len(s)
    BY <1>2, <1>5, NchIs
  <2>2. Digits(n, base, Len(s)) = s
    BY <1>2, DigitsNumeral
  <2>3. (IF n = 0 THEN <<48>> ELSE Digits(n, base, nch(n, base, limit))) = s
    BY <1>5, <2>1, <2>2, Zenon
  <2> QED
    BY <1>1, <1>3, <1>6, <2>3, Zenon
<1> QED
  BY <1>4, <1>5

LEMMA Widths ==
  \A mod \in DOMAIN FM : FM[mod] \in Nat /\ FM[mod] \div 4 \in Nat /\ mod # NONE
  BY DEF FM, NONE

(* Every conversion prints what it means.                                  *)
LEMMA PieceMeans ==
  ASSUME NEW item \in Item
  PROVE  /\ Piece(item) = Meaning(item) /\ Piece(item) \in Seq(Nat)
         /\ ~Sends(item) => Piece(item) = <<>>
<1>1. ItemOK(item)
  BY KutilAssumption
<1>2. CASE item.conv = "x"
  <2>1. /\ item.arg \in Nat /\ Shr(item.arg, 2, 64) = 0 /\ Shr(item.arg, 16, 16) = 0
        /\ item.mod \in DOMAIN FM \cup {NONE} /\ 16 \in Bases
    BY <1>1, <1>2, HexDigits64 DEF ItemOK, Bases
  <2>2. Piece(item) = print_fmt_x(item.arg, item.mod) /\ Sends(item)
    BY <1>2 DEF Piece, Sends
  <2>3. CASE item.mod = NONE
    <3>1. Meaning(item) = Numeral(item.arg, 16)
      BY <1>2, <2>3 DEF Meaning
    <3>2. /\ (IF item.arg = 0 THEN <<48>> ELSE Digits(item.arg, 16, nch(item.arg, 16, 16)))
                = Numeral(item.arg, 16)
          /\ Numeral(item.arg, 16) \in Seq(Nat)
      BY <2>1, Printed
    <3> QED
      BY <2>1, <2>2, <2>3, <3>1, <3>2, Zenon DEF print_fmt_x
  <2>4. CASE item.mod # NONE
    <3>1. Meaning(item) = Fixed(Numeral(item.arg, 16), FM[item.mod] \div 4)
      BY <1>2, <2>4 DEF Meaning
    <3>2. FM[item.mod] \div 4 \in Nat
      BY <2>1, <2>4, Widths
    <3> QED
      BY <2>1, <2>2, <2>4, <3>1, <3>2, Printed DEF print_fmt_x
  <2> QED
    BY <2>3, <2>4
<1>3. CASE item.conv = "b"
  <2>1. /\ item.arg \in Nat /\ Shr(item.arg, 2, 64) = 0
        /\ item.mod \in DOMAIN FM \cup {NONE} /\ 2 \in Bases
    BY <1>1, <1>3 DEF ItemOK, Bases
  <2>2. Piece(item) = print_fmt_b(item.arg, item.mod) /\ Sends(item)
    BY <1>3 DEF Piece, Sends
  <2>3. CASE item.mod = NONE
    <3>1. Meaning(item) = Numeral(item.arg, 2)
      BY <1>3, <2>3 DEF Meaning
    <3>2. /\ (IF item.arg = 0 THEN <<48>> ELSE Digits(item.arg, 2, nch(item.arg, 2, 64)))
                = Numeral(item.arg, 2)
          /\ Numeral(item.arg, 2) \in Seq(Nat)
      BY <2>1, Printed
    <3> QED
      BY <2>1, <2>2, <2>3, <3>1, <3>2, Zenon DEF print_fmt_b
  <2>4. CASE item.mod # NONE
    <3>1. Meaning(item) = Fixed(Numeral(item.arg, 2), FM[item.mod])
      BY <1>3, <2>4 DEF Meaning
    <3>2. FM[item.mod] \in Nat
      BY <2>1, <2>4, Widths
    <3> QED
      BY <2>1, <2>2, <2>4, <3>1, <3>2, Printed DEF print_fmt_b
  <2> QED
    BY <2>3, <2>4
<1>4. CASE item.conv = "u"
  <2>1. /\ item.arg \in Nat /\ Shr(item.arg, 10, 20) = 0 /\ 10 \in Bases
    BY <1>1, <1>4, DecimalDigits64 DEF ItemOK, Bases
  <2>2. Piece(item) = print_fmt_u(item.arg) /\ Sends(item)
    BY <1>4 DEF Piece, Sends
  <2>3. Meaning(item) = Numeral(item.arg, 10)
    BY <1>4 DEF Meaning
  <2>4. /\ (IF item.arg = 0 THEN <<48>> ELSE Digits(item.arg, 10, nch(item.arg, 10, 20)))
              = Numeral(item.arg, 10)
        /\ Numeral(item.arg, 10) \in Seq(Nat)
    BY <2>1, Printed
  <2> QED
    BY <2>1, <2>2, <2>3, <2>4, Zenon DEF print_fmt_u
<1>5. CASE item.conv = "lit"
  <2>1. item.arg \in Nat
    BY <1>1, <1>5 DEF ItemOK
  <2>2. Piece(item) = <<item.arg>> /\ Meaning(item) = <<item.arg>> /\ Sends(item)
    BY <1>5 DEF Piece, Meaning, Sends
  <2> QED
    BY <2>1, <2>2
<1>6. CASE item.conv = "s"
  <2>1. item.arg \in Seq(Nat)
    BY <1>1, <1>6 DEF ItemOK
  <2>2. Piece(item) = item.arg /\ Meaning(item) = item.arg /\ Sends(item)
    BY <1>6 DEF Piece, Meaning, Sends, print_fmt_s
  <2> QED
    BY <2>1, <2>2
<1>7. CASE item.conv = "c"
  <2>1. item.arg \in Nat /\ item.arg % 256 \in Nat
    BY <1>1, <1>7 DEF ItemOK
  <2>2. Piece(item) = <<item.arg % 256>> /\ Meaning(item) = <<item.arg % 256>> /\ Sends(item)
    BY <1>7 DEF Piece, Meaning, Sends, print_fmt_c
  <2> QED
    BY <2>1, <2>2
<1>8. CASE ~Sends(item)
  <2>1. Piece(item) = <<>> /\ Meaning(item) = <<>>
    BY <1>8 DEF Sends, Piece, Meaning
  <2> QED
    BY <1>8, <2>1
<1> QED
  BY <1>2, <1>3, <1>4, <1>5, <1>6, <1>7, <1>8 DEF Sends

-----------------------------------------------------------------------------
(* The processors.                                                         *)
Ops == Operation \cup [op : {"sp_init", "au_hang"}]
Places == {"parked", "run", "test", "loop", "sp_lock", "put", "read", "hung"}

KutilTypeOK ==
  /\ mutex \in k_mutex_t
  /\ prog \in [Cpu -> Seq(Ops)] /\ fmt \in [Cpu -> Seq(Item)] /\ out \in [Cpu -> Seq(Nat)]
  /\ pc \in [Cpu -> Places]
  /\ uart \in {"reset", "loop", "on"} /\ thr \in Seq(Nat) /\ line \in Seq(Nat)

(* What is left of a processor's operations are operations of its script.  *)
Follows ==
  \A c \in Cpu : \A k \in 1 .. Len(prog[c]) : prog[c][k] \in Range(Script(c))

(* A processor inside an operation is at the first it has left.            *)
WhereOf(c) ==
  /\ pc[c] = "loop" => At(c, "loop", "print") /\ out[c] = <<>>
  /\ pc[c] \in {"sp_lock", "put"} =>
       \/ At(c, pc[c], "print")
       \/ At(c, pc[c], "write") /\ out[c] \in {<<>>, <<NL>>}
WhereOK == \A c \in Cpu : WhereOf(c)

(* One processor is inside ku_print_v at a time.                           *)
OnePrinter ==
  /\ mutex = 0 => Printing = {}
  /\ \A c, d \in Printing : c = d

Without(c, ops) == \A k \in 1 .. Len(prog[c]) : prog[c][k].op \notin ops

(* Nothing is on the line and nobody but the boot processor runs until the *)
(* port has passed its test, and the test is made once.                    *)
PortOK ==
  /\ uart # "on" => line = <<>> /\ \A c \in Cpu \ {BSP} : pc[c] = "parked"
  /\ uart = "reset" => pc[BSP] = "run" /\ thr = <<>> /\ rx = <<>>
  /\ uart = "loop" /\ pc[BSP] = "test" => thr = <<>> \/ rx = <<>>
  /\ uart = "reset" \/ (uart = "loop" /\ pc[BSP] = "test") => prog[BSP] = Script(BSP)
  /\ uart = "loop" /\ pc[BSP] # "test" => Without(BSP, {"sp_init"}) /\ Without(BSP, {"smp"})
  /\ uart = "on" => \A c \in Cpu : Without(c, {"sp_init"})

IInv == KutilTypeOK /\ Follows /\ WhereOK /\ OnePrinter /\ PortOK

LEMMA Joined ==
  ASSUME NEW S, NEW s \in Seq(S), NEW t \in Seq(S)
  PROVE  /\ s \o t \in Seq(S) /\ Len(s \o t) = Len(s) + Len(t)
         /\ \A k \in 1 .. Len(s) : (s \o t)[k] = s[k]
         /\ \A k \in 1 .. Len(t) : (s \o t)[Len(s) + k] = t[k]
<1>1. Len(s) \in Nat /\ Len(t) \in Nat
  OBVIOUS
<1>2. /\ s \o t \in Seq(S) /\ Len(s \o t) = Len(s) + Len(t)
      /\ \A k \in 1 .. Len(s) + Len(t) :
           (s \o t)[k] = IF k <= Len(s) THEN s[k] ELSE t[k - Len(s)]
  BY ConcatProperties
<1>3. \A k \in 1 .. Len(t) :
        Len(s) + k \in 1 .. Len(s) + Len(t) /\ ~(Len(s) + k <= Len(s)) /\ (Len(s) + k) - Len(s) = k
  BY <1>1
<1>4. \A k \in 1 .. Len(s) : k \in 1 .. Len(s) + Len(t) /\ k <= Len(s)
  BY <1>1
<1> QED
  BY <1>2, <1>3, <1>4

LEMMA Hanging ==
  /\ ku_hang \in Seq(Ops) /\ Len(ku_hang) = 3
  /\ ku_hang[1].op = "print" /\ ku_hang[2].op = "write" /\ ku_hang[3].op = "au_hang"
<1>1. PICK p : p = [op |-> "print", type |-> "LT_INFO", msg |-> <<Lit(HANGING)>>]
  OBVIOUS
<1>2. PICK w : w = [op |-> "write", ch |-> NL]
  OBVIOUS
<1>3. PICK h : h = [op |-> "au_hang"]
  OBVIOUS
<1>4. p \in Ops /\ p.op = "print"
  <2>1. PICK m : m = <<Lit(HANGING)>>
    OBVIOUS
  <2>2. m \in Seq(Item)
    BY <2>1, KutilAssumption
  <2> QED
    BY <1>1, <2>1, <2>2 DEF Ops, Operation, LogTypes
<1>5. w \in Ops /\ w.op = "write" /\ h \in Ops /\ h.op = "au_hang"
  BY <1>2, <1>3 DEF Ops, Operation
<1>6. ku_hang = (<<p>> \o <<w>>) \o <<h>>
  BY <1>1, <1>2, <1>3, Zenon DEF ku_hang, ku_println, ku_print, sp_write_ch
<1>7. PICK s : s = (<<p>> \o <<w>>) \o <<h>>
  OBVIOUS
<1>8. s \in Seq(Ops) /\ Len(s) = 3 /\ s[1] = p /\ s[2] = w /\ s[3] = h
  BY <1>4, <1>5, <1>7
<1> QED
  BY <1>4, <1>5, <1>6, <1>7, <1>8

LEMMA ScriptIs ==
  ASSUME NEW c \in Cpu
  PROVE  /\ Script(c) \in Seq(Ops)
         /\ \A k \in 1 .. 3 : ku_hang[k] \in Range(Script(c))
         /\ c = BSP => Len(Script(c)) > 0 /\ Script(c)[1].op = "sp_init"
         /\ \A k \in 1 .. Len(Script(c)) :
              (c = BSP => k > 1) => Script(c)[k].op # "sp_init"
<1>1. PICK calls : calls = Calls[c]
  OBVIOUS
<1>2. PICK hang3 : hang3 = ku_hang
  OBVIOUS
<1>3. PICK start : start = IF c = BSP THEN <<[op |-> "sp_init"]>> ELSE <<>>
  OBVIOUS
<1>4. calls \in Seq(Operation)
  BY <1>1, KutilAssumption
<1>5. calls \in Seq(Ops) /\ Len(calls) \in Nat /\ \A k \in 1 .. Len(calls) : calls[k].op # "sp_init"
  <2>1. \A o \in Operation : o \in Ops /\ o.op # "sp_init"
    BY DEF Ops, Operation
  <2>2. \A k \in 1 .. Len(calls) : calls[k] \in Operation
    BY <1>4
  <2>3. calls \in Seq(Ops)
    BY <1>4, <2>1
  <2> QED
    BY <1>4, <2>1, <2>2, <2>3
<1>6. /\ hang3 \in Seq(Ops) /\ Len(hang3) = 3
      /\ \A k \in 1 .. 3 : hang3[k].op # "sp_init"
  BY <1>2, Hanging
<1>7. /\ start \in Seq(Ops) /\ Len(start) = IF c = BSP THEN 1 ELSE 0
      /\ c = BSP => start[1].op = "sp_init"
  <2>1. PICK o : o = [op |-> "sp_init"]
    OBVIOUS
  <2>2. o \in Ops /\ o.op = "sp_init"
    BY <2>1 DEF Ops
  <2>3. start = IF c = BSP THEN <<o>> ELSE <<>>
    BY <1>3, <2>1
  <2> QED
    BY <2>2, <2>3
<1>8. PICK s : s = (start \o calls) \o hang3
  OBVIOUS
<1>9. Script(c) = s
  BY <1>1, <1>2, <1>3, <1>8, Zenon DEF Script
<1>10. /\ s \in Seq(Ops) /\ Len(s) = (Len(start) + Len(calls)) + 3
       /\ \A k \in 1 .. Len(start) : s[k] = start[k]
       /\ \A k \in 1 .. Len(calls) : s[Len(start) + k] = calls[k]
       /\ \A k \in 1 .. 3 : s[(Len(start) + Len(calls)) + k] = hang3[k]
  <2>1. start \in Seq(Ops) /\ calls \in Seq(Ops) /\ hang3 \in Seq(Ops)
    BY <1>5, <1>6, <1>7
  <2>2. PICK u \in Seq(Ops) : u = start \o calls
    BY <2>1, Joined
  <2>3. /\ Len(u) = Len(start) + Len(calls)
        /\ \A k \in 1 .. Len(start) : u[k] = start[k]
        /\ \A k \in 1 .. Len(calls) : u[Len(start) + k] = calls[k]
    <3>1. /\ Len(start \o calls) = Len(start) + Len(calls)
          /\ \A k \in 1 .. Len(start) : (start \o calls)[k] = start[k]
          /\ \A k \in 1 .. Len(calls) : (start \o calls)[Len(start) + k] = calls[k]
      BY <2>1, Joined
    <3> QED
      BY <2>2, <3>1, Zenon
  <2>4. /\ s \in Seq(Ops) /\ Len(s) = Len(u) + Len(hang3)
        /\ \A k \in 1 .. Len(u) : s[k] = u[k]
        /\ \A k \in 1 .. Len(hang3) : s[Len(u) + k] = hang3[k]
    <3>1. /\ u \o hang3 \in Seq(Ops) /\ Len(u \o hang3) = Len(u) + Len(hang3)
          /\ \A k \in 1 .. Len(u) : (u \o hang3)[k] = u[k]
          /\ \A k \in 1 .. Len(hang3) : (u \o hang3)[Len(u) + k] = hang3[k]
      BY <2>1, <2>2, Joined
    <3>2. s = u \o hang3
      BY <1>8, <2>2, Zenon
    <3> QED
      BY <3>1, <3>2, Zenon
  <2>5. \A k \in 1 .. Len(start) : k \in 1 .. Len(u)
    BY <1>5, <1>7, <2>3
  <2>6. \A k \in 1 .. Len(calls) : Len(start) + k \in 1 .. Len(u)
    BY <1>5, <1>7, <2>3
  <2> QED
    BY <1>6, <2>3, <2>4, <2>5, <2>6
<1>11. \A k \in 1 .. 3 : hang3[k] \in Range(s)
  <2> TAKE k \in 1 .. 3
  <2>1. (Len(start) + Len(calls)) + k \in 1 .. Len(s) /\ DOMAIN s = 1 .. Len(s)
    BY <1>5, <1>7, <1>10
  <2> QED
    BY <1>10, <2>1 DEF Range
<1>12. ASSUME NEW k \in 1 .. Len(s), c = BSP => k > 1
       PROVE  s[k].op # "sp_init"
  <2>1. k > Len(start)
    BY <1>7, <1>12
  <2>2. CASE k <= Len(start) + Len(calls)
    <3>1. k - Len(start) \in 1 .. Len(calls) /\ Len(start) + (k - Len(start)) = k
      BY <1>5, <1>7, <2>1, <2>2
    <3> QED
      BY <1>5, <1>10, <3>1
  <2>3. CASE k > Len(start) + Len(calls)
    <3>1. PICK n \in Nat : n = Len(start) + Len(calls)
      BY <1>5, <1>7
    <3>2. Len(s) = n + 3 /\ k > n
      BY <1>10, <2>3, <3>1
    <3>3. k - n \in 1 .. 3 /\ n + (k - n) = k
      BY <3>1, <3>2
    <3> QED
      BY <1>6, <1>10, <3>1, <3>3
  <2> QED
    BY <1>5, <1>7, <2>2, <2>3
<1>13. c = BSP => Len(s) > 0 /\ s[1].op = "sp_init"
  BY <1>5, <1>7, <1>10
<1> QED
  BY <1>2, <1>9, <1>10, <1>11, <1>12, <1>13

LEMMA KutilStart ==
  ASSUME Init
  PROVE  IInv
<1>1. BSP \in Cpu
  BY KutilAssumption
<1>2. /\ mutex = 0 /\ prog = [c \in Cpu |-> Script(c)]
      /\ pc = [c \in Cpu |-> IF c = BSP THEN "run" ELSE "parked"]
      /\ fmt = [c \in Cpu |-> <<>>] /\ out = [c \in Cpu |-> <<>>]
      /\ uart = "reset" /\ thr = <<>> /\ rx = <<>> /\ line = <<>>
  BY DEF Init
<1>3. \A c \in Cpu : prog[c] = Script(c) /\ Script(c) \in Seq(Ops)
  BY <1>2, ScriptIs
<1>4. KutilTypeOK
  BY <1>2, <1>3 DEF KutilTypeOK, k_mutex_t, Places
<1>5. Follows
  <2> SUFFICES ASSUME NEW c \in Cpu, NEW k \in 1 .. Len(prog[c])
               PROVE  prog[c][k] \in Range(Script(c))
    BY DEF Follows
  <2>1. PICK s \in Seq(Ops) : s = Script(c)
    BY <1>3
  <2>2. \A j \in 1 .. Len(s) : s[j] \in Range(s)
    BY DEF Range
  <2> QED
    BY <1>3, <2>1, <2>2
<1>6. \A c \in Cpu : pc[c] \in {"run", "parked"}
  BY <1>2
<1>7. WhereOK /\ OnePrinter
  BY <1>6 DEF WhereOK, WhereOf, OnePrinter, Printing
<1>8. PortOK
  BY <1>1, <1>2 DEF PortOK
<1> QED
  BY <1>4, <1>5, <1>7, <1>8 DEF IInv

(* A step of one processor: it stays in its operation or is done with it.  *)
LEMMA TailOf ==
  ASSUME NEW S, NEW s \in Seq(S), s # <<>>
  PROVE  /\ Head(s) = s[1] /\ Tail(s) \in Seq(S) /\ Len(s) \in Nat \ {0}
         /\ Len(Tail(s)) = Len(s) - 1
         /\ \A k \in 1 .. Len(Tail(s)) : k + 1 \in 1 .. Len(s) /\ Tail(s)[k] = s[k + 1]
  OBVIOUS

LEMMA ProgStep ==
  ASSUME KutilTypeOK, Follows, NEW c \in Cpu, prog' \in [Cpu -> Seq(Ops)],
         \A d \in Cpu \ {c} : prog'[d] = prog[d],
         \/ prog'[c] = prog[c]
         \/ prog[c] # <<>> /\ prog'[c] = Tail(prog[c])
  PROVE  /\ Follows'
         /\ \A d \in Cpu : \A ops : Without(d, ops) => Without(d, ops)'
<1>1. ASSUME NEW d \in Cpu, NEW k \in 1 .. Len(prog'[d])
      PROVE  \E j \in 1 .. Len(prog[d]) : prog'[d][k] = prog[d][j]
  <2>1. CASE prog'[d] = prog[d]
    BY <2>1
  <2>2. CASE d = c /\ prog[c] # <<>> /\ prog'[c] = Tail(prog[c])
    <3>1. PICK s \in Seq(Ops) : s = prog[c]
      BY DEF KutilTypeOK
    <3>2. k \in 1 .. Len(Tail(s)) /\ s # <<>> /\ prog'[d] = Tail(s)
      BY <2>2, <3>1
    <3>3. k + 1 \in 1 .. Len(s) /\ Tail(s)[k] = s[k + 1]
      BY <3>2, TailOf
    <3> QED
      BY <2>2, <3>1, <3>2, <3>3
  <2> QED
    BY <2>1, <2>2
<1>2. Follows'
  <2> SUFFICES ASSUME NEW d \in Cpu, NEW k \in 1 .. Len(prog'[d])
               PROVE  prog'[d][k] \in Range(Script(d))
    BY DEF Follows, Script
  <2> QED
    BY <1>1 DEF Follows
<1>3. ASSUME NEW d \in Cpu, NEW ops, Without(d, ops)
      PROVE  Without(d, ops)'
  BY <1>1, <1>3 DEF Without
<1> QED
  BY <1>2, <1>3

LEMMA LocalStep ==
  ASSUME IInv, NEW c \in Cpu, KutilTypeOK',
         \A d \in Cpu \ {c} : pc'[d] = pc[d] /\ prog'[d] = prog[d] /\ out'[d] = out[d],
         \/ prog'[c] = prog[c]
         \/ prog[c] # <<>> /\ prog'[c] = Tail(prog[c]),
         WhereOf(c)',
         \/ c \notin Printing' /\ mutex' = mutex /\ c \notin Printing
         \/ c \in Printing' /\ mutex' = mutex /\ c \in Printing
         \/ c \in Printing' /\ mutex = 0 /\ mutex' = 1
         \/ c \notin Printing' /\ c \in Printing
  PROVE  /\ Follows' /\ WhereOK' /\ OnePrinter'
         /\ \A d \in Cpu : \A ops : Without(d, ops) => Without(d, ops)'
<1>1. /\ Follows' /\ \A d \in Cpu : \A ops : Without(d, ops) => Without(d, ops)'
  <2>1. prog' \in [Cpu -> Seq(Ops)]
    BY DEF KutilTypeOK
  <2> QED
    BY <2>1, ProgStep DEF IInv
<1>2. WhereOK'
  <2> SUFFICES ASSUME NEW d \in Cpu, d # c
               PROVE  WhereOf(d)'
    BY DEF WhereOK
  <2>1. WhereOf(d) /\ pc'[d] = pc[d] /\ prog'[d] = prog[d] /\ out'[d] = out[d]
    BY DEF IInv, WhereOK
  <2> QED
    BY <2>1 DEF WhereOf, At
<1>3. OnePrinter'
  <2>1. \A d \in Cpu \ {c} : d \in Printing' <=> d \in Printing
    BY DEF Printing
  <2>2. Printing \subseteq Cpu /\ Printing' \subseteq Cpu
    BY DEF Printing
  <2>3. OnePrinter
    BY DEF IInv
  <2> QED
    BY <2>1, <2>2, <2>3 DEF OnePrinter
<1> QED
  BY <1>1, <1>2, <1>3

(* Outside the test of the port, a step leaves the port's mode alone.      *)
LEMMA PortLater ==
  ASSUME IInv, NEW c \in Cpu, pc[c] \notin {"parked", "test"},
         uart = "reset" => c # BSP,
         \A d \in Cpu \ {c} : pc'[d] = pc[d],
         pc'[c] # "test", uart' = uart, line' = line,
         \A d \in Cpu : \A ops : Without(d, ops) => Without(d, ops)'
  PROVE  PortOK'
<1>1. uart = "on" \/ uart = "loop"
  BY DEF IInv, KutilTypeOK, PortOK
<1>2. BSP \in Cpu
  BY KutilAssumption
<1>3. uart # "on" => c = BSP
  BY DEF IInv, PortOK
<1>4. CASE uart = "on"
  <2>1. uart' = "on" /\ \A d \in Cpu : Without(d, {"sp_init"})'
    BY <1>4 DEF IInv, PortOK
  <2> QED
    BY <2>1 DEF PortOK
<1>5. CASE uart = "loop"
  <2>1. /\ uart' = "loop" /\ line' = <<>> /\ pc'[BSP] # "test" /\ c = BSP
        /\ \A d \in Cpu \ {BSP} : pc'[d] = "parked"
    BY <1>3, <1>5 DEF IInv, PortOK
  <2>2. Without(BSP, {"sp_init"}) /\ Without(BSP, {"smp"})
    BY <1>3, <1>5 DEF IInv, PortOK
  <2>3. Without(BSP, {"sp_init"})' /\ Without(BSP, {"smp"})'
    BY <1>2, <2>2
  <2> QED
    BY <2>1, <2>3 DEF PortOK
<1> QED
  BY <1>1, <1>4, <1>5

LEMMA Reset ==
  ASSUME IInv, uart = "reset"
  PROVE  pc[BSP] = "run" /\ prog[BSP] # <<>> /\ Head(prog[BSP]).op = "sp_init"
<1>1. BSP \in Cpu
  BY KutilAssumption
<1>2. pc[BSP] = "run" /\ prog[BSP] = Script(BSP)
  BY DEF IInv, PortOK
<1>3. PICK s \in Seq(Ops) : s = Script(BSP)
  BY <1>1, ScriptIs
<1>4. Len(s) > 0 /\ s[1].op = "sp_init"
  BY <1>1, <1>3, ScriptIs
<1>5. s # <<>> /\ Head(s) = s[1]
  BY <1>3, <1>4
<1> QED
  BY <1>2, <1>3, <1>4, <1>5

LEMMA LocalKeeps ==
  ASSUME IInv, NEW c \in Cpu, KutilTypeOK',
         \A d \in Cpu \ {c} : pc'[d] = pc[d] /\ prog'[d] = prog[d] /\ out'[d] = out[d],
         \/ prog'[c] = prog[c]
         \/ prog[c] # <<>> /\ prog'[c] = Tail(prog[c]),
         WhereOf(c)',
         \/ c \notin Printing' /\ mutex' = mutex /\ c \notin Printing
         \/ c \in Printing' /\ mutex' = mutex /\ c \in Printing
         \/ c \in Printing' /\ mutex = 0 /\ mutex' = 1
         \/ c \notin Printing' /\ c \in Printing,
         pc[c] \notin {"parked", "test"},
         pc[c] # "run" \/ Head(prog[c]).op # "sp_init",
         pc'[c] # "test", uart' = uart, line' = line
  PROVE  IInv'
<1>1. /\ Follows' /\ WhereOK' /\ OnePrinter'
      /\ \A d \in Cpu : \A ops : Without(d, ops) => Without(d, ops)'
  BY LocalStep
<1>2. uart = "reset" => c # BSP
  BY Reset
<1>3. PortOK'
  BY <1>1, <1>2, PortLater
<1> QED
  BY <1>1, <1>3 DEF IInv

(* What the macros of an action do.                                        *)
LEMMA Goes ==
  ASSUME KutilTypeOK, NEW c \in Cpu, NEW p \in Places, Goto(c, p)
  PROVE  /\ pc' \in [Cpu -> Places] /\ pc'[c] = p
         /\ \A d \in Cpu \ {c} : pc'[d] = pc[d]
  BY DEF KutilTypeOK, Goto

LEMMA Finishes ==
  ASSUME KutilTypeOK, NEW c \in Cpu, Finish(c), prog[c] # <<>>
  PROVE  /\ pc' \in [Cpu -> Places] /\ pc'[c] = "run" /\ prog' \in [Cpu -> Seq(Ops)]
         /\ prog'[c] = Tail(prog[c])
         /\ \A d \in Cpu \ {c} : pc'[d] = pc[d] /\ prog'[d] = prog[d]
<1>1. Goto(c, "run") /\ prog' = [prog EXCEPT ![c] = Tail(@)] /\ "run" \in Places
  BY DEF Finish, Places
<1>2. pc' \in [Cpu -> Places] /\ pc'[c] = "run" /\ \A d \in Cpu \ {c} : pc'[d] = pc[d]
  BY <1>1, Goes
<1>3. prog[c] \in Seq(Ops) /\ Tail(prog[c]) \in Seq(Ops)
  BY TailOf DEF KutilTypeOK
<1>4. prog' \in [Cpu -> Seq(Ops)] /\ prog'[c] = Tail(prog[c]) /\ \A d \in Cpu \ {c} : prog'[d] = prog[d]
  BY <1>1, <1>3 DEF KutilTypeOK
<1> QED
  BY <1>2, <1>4

LEMMA OpAt ==
  ASSUME KutilTypeOK, NEW c \in Cpu, prog[c] # <<>>
  PROVE  /\ Head(prog[c]) \in Ops
         /\ Head(prog[c]).op = "print" =>
              Head(prog[c]).msg \in Seq(Item) /\ Prefix(Head(prog[c]).type) \in Seq(Nat)
         /\ Head(prog[c]).op = "write" => Head(prog[c]).ch = NL
<1>1. PICK o \in Ops : o = Head(prog[c])
  BY TailOf DEF KutilTypeOK
<1>2. o.op = "print" => o.msg \in Seq(Item) /\ o.type \in LogTypes
  BY DEF Ops, Operation
<1>3. o.op = "write" => o.ch = NL
  BY DEF Ops, Operation
<1>4. ASSUME NEW type \in LogTypes
      PROVE  Prefix(type) \in Seq(Nat)
  BY DEF Prefix, LogTypes
<1> QED
  BY <1>1, <1>2, <1>3, <1>4

LEMMA PrintLockKeeps ==
  ASSUME IInv, NEW c \in Cpu, print_lock(c)
  PROVE  IInv'
<1>1. KutilTypeOK /\ pc[c] = "run" /\ prog[c] # <<>> /\ Head(prog[c]).op = "print"
      /\ mutex = 0 /\ mutex' = 1
  BY DEF IInv, print_lock, At, k_mutex_lock
<1>2. PICK m : m = Head(prog[c])
  OBVIOUS
<1>3. PICK prefix : prefix = Prefix(m.type)
  OBVIOUS
<1>4. m.msg \in Seq(Item) /\ prefix \in Seq(Nat)
  BY <1>1, <1>2, <1>3, OpAt
<1>5. PICK p \in {"sp_lock", "loop"} : p = IF prefix # <<>> THEN "sp_lock" ELSE "loop"
  OBVIOUS
<1>6. /\ fmt' = [fmt EXCEPT ![c] = m.msg] /\ out' = [out EXCEPT ![c] = prefix] /\ Goto(c, p)
      /\ UNCHANGED <<sp_mutex, prog, uart, thr, rx, line, input>>
  BY <1>2, <1>3, <1>5 DEF print_lock, dev_vars
<1>7. p \in Places
  BY <1>5 DEF Places
<1>8. pc' \in [Cpu -> Places] /\ pc'[c] = p /\ \A d \in Cpu \ {c} : pc'[d] = pc[d]
  BY <1>1, <1>6, <1>7, Goes
<1>9. /\ fmt' \in [Cpu -> Seq(Item)] /\ out' \in [Cpu -> Seq(Nat)] /\ out'[c] = prefix
      /\ \A d \in Cpu \ {c} : out'[d] = out[d]
  BY <1>1, <1>4, <1>6 DEF KutilTypeOK
<1>10. KutilTypeOK'
  BY <1>1, <1>6, <1>8, <1>9 DEF KutilTypeOK, k_mutex_t
<1>11. WhereOf(c)'
  BY <1>1, <1>5, <1>6, <1>8, <1>9 DEF WhereOf, At
<1>12. c \in Printing'
  BY <1>1, <1>5, <1>6, <1>8 DEF Printing
<1> QED
  BY <1>1, <1>5, <1>6, <1>8, <1>9, <1>10, <1>11, <1>12, LocalKeeps

LEMMA PrintItemKeeps ==
  ASSUME IInv, NEW c \in Cpu, print_item(c)
  PROVE  IInv'
<1>1. KutilTypeOK /\ pc[c] = "loop" /\ prog[c] # <<>> /\ Head(prog[c]).op = "print"
      /\ fmt[c] # <<>>
  BY DEF IInv, print_item, WhereOK, WhereOf, At
<1>2. PICK item : item = Head(fmt[c])
  OBVIOUS
<1>3. item \in Item /\ Tail(fmt[c]) \in Seq(Item)
  BY <1>1, <1>2, TailOf DEF KutilTypeOK
<1>4. PICK piece : piece = Piece(item)
  OBVIOUS
<1>5. piece \in Seq(Nat) /\ (~Sends(item) => piece = <<>>)
  BY <1>3, <1>4, PieceMeans
<1>6. PICK p \in {"sp_lock", "loop"} : p = IF Sends(item) THEN "sp_lock" ELSE "loop"
  OBVIOUS
<1>7. /\ out' = [out EXCEPT ![c] = piece] /\ Goto(c, p) /\ fmt' = [fmt EXCEPT ![c] = Tail(@)]
      /\ UNCHANGED <<mutex, sp_mutex, prog, uart, thr, rx, line, input>>
  BY <1>2, <1>4, <1>6 DEF print_item, dev_vars
<1>8. pc' \in [Cpu -> Places] /\ pc'[c] = p /\ \A d \in Cpu \ {c} : pc'[d] = pc[d]
  BY <1>1, <1>6, <1>7, Goes DEF Places
<1>9. /\ fmt' \in [Cpu -> Seq(Item)] /\ out' \in [Cpu -> Seq(Nat)] /\ out'[c] = piece
      /\ \A d \in Cpu \ {c} : out'[d] = out[d]
  BY <1>1, <1>3, <1>5, <1>7 DEF KutilTypeOK
<1>10. KutilTypeOK'
  BY <1>1, <1>7, <1>8, <1>9 DEF KutilTypeOK
<1>11. WhereOf(c)'
  BY <1>1, <1>5, <1>6, <1>7, <1>8, <1>9 DEF WhereOf, At
<1>12. c \in Printing /\ c \in Printing'
  BY <1>1, <1>6, <1>7, <1>8 DEF Printing
<1> QED
  BY <1>1, <1>6, <1>7, <1>8, <1>9, <1>10, <1>11, <1>12, LocalKeeps

LEMMA PrintUnlockKeeps ==
  ASSUME IInv, NEW c \in Cpu, print_unlock(c)
  PROVE  IInv'
<1>1. KutilTypeOK /\ pc[c] = "loop" /\ prog[c] # <<>> /\ Head(prog[c]).op = "print"
      /\ mutex' = 0 /\ Finish(c) /\ UNCHANGED <<sp_mutex, fmt, out, uart, thr, rx, line, input>>
  BY DEF IInv, print_unlock, WhereOK, WhereOf, At, k_mutex_unlock, dev_vars
<1>2. /\ pc' \in [Cpu -> Places] /\ pc'[c] = "run" /\ prog' \in [Cpu -> Seq(Ops)]
      /\ prog'[c] = Tail(prog[c])
      /\ \A d \in Cpu \ {c} : pc'[d] = pc[d] /\ prog'[d] = prog[d]
  BY <1>1, Finishes
<1>3. KutilTypeOK'
  BY <1>1, <1>2 DEF KutilTypeOK, k_mutex_t
<1>4. WhereOf(c)' /\ c \in Printing /\ c \notin Printing'
  BY <1>1, <1>2 DEF WhereOf, Printing
<1> QED
  BY <1>1, <1>2, <1>3, <1>4, LocalKeeps

LEMMA WriteChKeeps ==
  ASSUME IInv, NEW c \in Cpu, write_ch(c)
  PROVE  IInv'
<1>1. KutilTypeOK /\ pc[c] = "run" /\ prog[c] # <<>> /\ Head(prog[c]).op = "write"
      /\ Goto(c, "sp_lock") /\ UNCHANGED <<mutex, sp_mutex, prog, fmt, uart, thr, rx, line, input>>
  BY DEF IInv, write_ch, At, dev_vars
<1>2. out' = [out EXCEPT ![c] = <<NL>>] /\ NL \in Nat
  BY <1>1, OpAt DEF write_ch, NL
<1>3. pc' \in [Cpu -> Places] /\ pc'[c] = "sp_lock" /\ \A d \in Cpu \ {c} : pc'[d] = pc[d]
  BY <1>1, Goes DEF Places
<1>4. out' \in [Cpu -> Seq(Nat)] /\ out'[c] = <<NL>> /\ \A d \in Cpu \ {c} : out'[d] = out[d]
  BY <1>1, <1>2 DEF KutilTypeOK
<1>5. KutilTypeOK'
  BY <1>1, <1>3, <1>4 DEF KutilTypeOK
<1>6. WhereOf(c)'
  BY <1>1, <1>3, <1>4 DEF WhereOf, At
<1>7. c \notin Printing /\ c \notin Printing'
  BY <1>1, <1>3 DEF Printing
<1> QED
  BY <1>1, <1>3, <1>4, <1>5, <1>6, <1>7, LocalKeeps

LEMMA SpLockKeeps ==
  ASSUME IInv, NEW c \in Cpu, sp_lock(c)
  PROVE  IInv'
<1>1. KutilTypeOK /\ pc[c] = "sp_lock" /\ Goto(c, "put")
      /\ UNCHANGED <<mutex, prog, fmt, out, uart, thr, rx, line, input>>
  BY DEF IInv, sp_lock, dev_vars
<1>2. pc' \in [Cpu -> Places] /\ pc'[c] = "put" /\ \A d \in Cpu \ {c} : pc'[d] = pc[d]
  BY <1>1, Goes DEF Places
<1>3. KutilTypeOK'
  BY <1>1, <1>2 DEF KutilTypeOK
<1>4. WhereOf(c)'
  BY <1>1, <1>2 DEF WhereOf, At, IInv, WhereOK
<1>5. c \in Printing' <=> c \in Printing
  BY <1>1, <1>2 DEF Printing
<1> QED
  BY <1>1, <1>2, <1>3, <1>4, <1>5, LocalKeeps

LEMMA SpPutKeeps ==
  ASSUME IInv, NEW c \in Cpu, sp_put(c)
  PROVE  IInv'
<1>1. KutilTypeOK /\ pc[c] = "put" /\ out[c] # <<>> /\ thr' = <<Head(out[c])>>
      /\ out' = [out EXCEPT ![c] = Tail(@)]
      /\ UNCHANGED <<mutex, sp_mutex, prog, pc, fmt, uart, rx, line, input>>
  BY DEF IInv, sp_put
<1>2. Head(out[c]) \in Nat /\ Tail(out[c]) \in Seq(Nat)
  BY <1>1, TailOf DEF KutilTypeOK
<1>3. out' \in [Cpu -> Seq(Nat)] /\ out'[c] = Tail(out[c])
      /\ \A d \in Cpu \ {c} : out'[d] = out[d]
  BY <1>1, <1>2 DEF KutilTypeOK
<1>4. thr' \in Seq(Nat)
  BY <1>1, <1>2
<1>5. KutilTypeOK'
  BY <1>1, <1>3, <1>4 DEF KutilTypeOK
<1>6. WhereOf(c)'
  <2>1. CASE At(c, "put", "print")
    BY <1>1, <2>1 DEF WhereOf, At
  <2>2. CASE At(c, "put", "write") /\ out[c] \in {<<>>, <<NL>>}
    <3>1. Tail(<<NL>>) = <<>>
      BY DEF NL
    <3>2. out'[c] = <<>>
      BY <1>1, <1>3, <2>2, <3>1
    <3> QED
      BY <1>1, <2>2, <3>2 DEF WhereOf, At
  <2> QED
    BY <1>1, <2>1, <2>2 DEF IInv, WhereOK, WhereOf
<1>7. c \in Printing' <=> c \in Printing
  BY <1>1 DEF Printing
<1> QED
  BY <1>1, <1>3, <1>5, <1>6, <1>7, LocalKeeps

LEMMA SpUnlockKeeps ==
  ASSUME IInv, NEW c \in Cpu, sp_unlock(c)
  PROVE  IInv'
<1>1. KutilTypeOK /\ pc[c] = "put" /\ out[c] = <<>>
      /\ UNCHANGED <<mutex, fmt, out, uart, thr, rx, line, input>>
  BY DEF IInv, sp_unlock, dev_vars
<1>2. prog[c] # <<>> /\ Head(prog[c]).op \in {"print", "write"}
  BY <1>1 DEF IInv, WhereOK, WhereOf, At
<1>3. CASE Head(prog[c]).op = "print"
  <2>1. Goto(c, "loop") /\ UNCHANGED prog
    BY <1>3 DEF sp_unlock
  <2>2. pc' \in [Cpu -> Places] /\ pc'[c] = "loop" /\ \A d \in Cpu \ {c} : pc'[d] = pc[d]
    BY <1>1, <2>1, Goes DEF Places
  <2>3. KutilTypeOK'
    BY <1>1, <2>1, <2>2 DEF KutilTypeOK
  <2>4. WhereOf(c)' /\ c \in Printing /\ c \in Printing'
    BY <1>1, <1>2, <1>3, <2>1, <2>2 DEF WhereOf, At, Printing
  <2> QED
    BY <1>1, <2>1, <2>2, <2>3, <2>4, LocalKeeps
<1>4. CASE Head(prog[c]).op # "print"
  <2>1. Finish(c)
    BY <1>4 DEF sp_unlock
  <2>2. /\ pc' \in [Cpu -> Places] /\ pc'[c] = "run" /\ prog' \in [Cpu -> Seq(Ops)]
        /\ prog'[c] = Tail(prog[c])
        /\ \A d \in Cpu \ {c} : pc'[d] = pc[d] /\ prog'[d] = prog[d]
    BY <1>1, <1>2, <2>1, Finishes
  <2>3. KutilTypeOK'
    BY <1>1, <2>2 DEF KutilTypeOK
  <2>4. WhereOf(c)' /\ c \notin Printing /\ c \notin Printing'
    BY <1>4, <2>2 DEF WhereOf, Printing
  <2> QED
    BY <1>1, <1>2, <2>2, <2>3, <2>4, LocalKeeps
<1> QED
  BY <1>3, <1>4

LEMMA ReadLockKeeps ==
  ASSUME IInv, NEW c \in Cpu, read_lock(c)
  PROVE  IInv'
<1>1. KutilTypeOK /\ pc[c] = "run" /\ Head(prog[c]).op = "read" /\ Goto(c, "read")
      /\ UNCHANGED <<mutex, prog, fmt, out, uart, thr, rx, line, input>>
  BY DEF IInv, read_lock, At, dev_vars
<1>2. pc' \in [Cpu -> Places] /\ pc'[c] = "read" /\ \A d \in Cpu \ {c} : pc'[d] = pc[d]
  BY <1>1, Goes DEF Places
<1>3. KutilTypeOK'
  BY <1>1, <1>2 DEF KutilTypeOK
<1>4. WhereOf(c)' /\ c \notin Printing /\ c \notin Printing'
  BY <1>1, <1>2 DEF WhereOf, Printing
<1> QED
  BY <1>1, <1>2, <1>3, <1>4, LocalKeeps

LEMMA ReadChKeeps ==
  ASSUME IInv, NEW c \in Cpu, read_ch(c)
  PROVE  IInv'
<1>1. KutilTypeOK /\ pc[c] = "read" /\ prog[c] # <<>> /\ Finish(c)
      /\ UNCHANGED <<mutex, fmt, out, uart, thr, line, input>>
  BY DEF IInv, read_ch, At
<1>2. /\ pc' \in [Cpu -> Places] /\ pc'[c] = "run" /\ prog' \in [Cpu -> Seq(Ops)]
      /\ prog'[c] = Tail(prog[c])
      /\ \A d \in Cpu \ {c} : pc'[d] = pc[d] /\ prog'[d] = prog[d]
  BY <1>1, Finishes
<1>3. KutilTypeOK'
  BY <1>1, <1>2 DEF KutilTypeOK
<1>4. WhereOf(c)' /\ c \notin Printing /\ c \notin Printing'
  BY <1>1, <1>2 DEF WhereOf, Printing
<1> QED
  BY <1>1, <1>2, <1>3, <1>4, LocalKeeps

LEMMA HangKeeps ==
  ASSUME IInv, NEW c \in Cpu, hang(c)
  PROVE  IInv'
<1>1. KutilTypeOK /\ pc[c] = "run" /\ Head(prog[c]).op = "au_hang" /\ Goto(c, "hung")
      /\ UNCHANGED <<mutex, prog, fmt, out, uart, thr, rx, line, input>>
  BY DEF IInv, hang, At, dev_vars
<1>2. pc' \in [Cpu -> Places] /\ pc'[c] = "hung" /\ \A d \in Cpu \ {c} : pc'[d] = pc[d]
  BY <1>1, Goes DEF Places
<1>3. KutilTypeOK'
  BY <1>1, <1>2 DEF KutilTypeOK
<1>4. WhereOf(c)' /\ c \notin Printing /\ c \notin Printing'
  BY <1>1, <1>2 DEF WhereOf, Printing
<1> QED
  BY <1>1, <1>2, <1>3, <1>4, LocalKeeps

(* The others are only started once the port is on line: until then the    *)
(* boot processor has the test before it, or only the way to its hang.     *)
LEMMA SmpStartKeeps ==
  ASSUME IInv, NEW c \in Cpu, smp_start(c)
  PROVE  IInv'
<1>1. KutilTypeOK /\ pc[c] = "run" /\ prog[c] # <<>> /\ Head(prog[c]).op = "smp"
      /\ prog' = [prog EXCEPT ![c] = Tail(@)]
      /\ pc' = [d \in Cpu |-> IF pc[d] = "parked" THEN "run" ELSE pc[d]]
      /\ UNCHANGED <<mutex, fmt, out, uart, thr, rx, line, input>>
  BY DEF IInv, smp_start, At, dev_vars
<1>2. PICK s \in Seq(Ops) : s = prog[c]
  BY <1>1 DEF KutilTypeOK
<1>3. Tail(s) \in Seq(Ops) /\ 1 \in 1 .. Len(s) /\ Head(s) = s[1]
  BY <1>1, <1>2, TailOf
<1>4. prog' \in [Cpu -> Seq(Ops)] /\ prog'[c] = Tail(prog[c])
      /\ \A d \in Cpu \ {c} : prog'[d] = prog[d]
  BY <1>1, <1>2, <1>3 DEF KutilTypeOK
<1>5. pc' \in [Cpu -> Places] /\ \A d \in Cpu : pc'[d] = IF pc[d] = "parked" THEN "run" ELSE pc[d]
  BY <1>1 DEF KutilTypeOK, Places
<1>6. KutilTypeOK'
  BY <1>1, <1>4, <1>5 DEF KutilTypeOK
<1>7. uart = "on"
  <2>1. uart = "reset" => c # BSP
    BY <1>1, Reset
  <2>2. uart # "on" => c = BSP
    BY <1>1 DEF IInv, PortOK
  <2>3. uart = "loop" => Without(BSP, {"smp"})
    BY <1>1, <2>2 DEF IInv, PortOK
  <2>4. ~Without(c, {"smp"})
    BY <1>1, <1>2, <1>3 DEF Without
  <2> QED
    BY <1>1, <2>1, <2>2, <2>3, <2>4 DEF KutilTypeOK
<1>8. Follows' /\ \A d \in Cpu : \A ops : Without(d, ops) => Without(d, ops)'
  BY <1>1, <1>4, ProgStep DEF IInv
<1>9. WhereOK'
  <2> SUFFICES ASSUME NEW d \in Cpu
               PROVE  WhereOf(d)'
    BY DEF WhereOK
  <2>1. WhereOf(d)
    BY DEF IInv, WhereOK
  <2>2. CASE d = c
    BY <1>1, <1>5, <2>2 DEF WhereOf
  <2>3. CASE d # c
    BY <1>1, <1>4, <1>5, <2>1, <2>3 DEF WhereOf, At
  <2> QED
    BY <2>2, <2>3
<1>10. OnePrinter'
  <2>1. Printing' = Printing
    <3>1. \A d \in Cpu : d \in Printing' <=> d \in Printing
      BY <1>1, <1>4, <1>5 DEF Printing
    <3> QED
      BY <3>1 DEF Printing
  <2> QED
    BY <1>1, <2>1 DEF IInv, OnePrinter
<1>11. PortOK'
  <2>1. \A d \in Cpu : Without(d, {"sp_init"})'
    BY <1>7, <1>8 DEF IInv, PortOK
  <2> QED
    BY <1>1, <1>7, <2>1 DEF PortOK
<1> QED
  BY <1>6, <1>8, <1>9, <1>10, <1>11 DEF IInv

(* The test of the port.  Nobody prints before it has been made.           *)
LEMMA Alone ==
  ASSUME IInv, uart # "on", NEW c \in Cpu, pc[c] # "parked"
  PROVE  c = BSP /\ (pc[c] \in {"run", "test"} => Printing = {})
<1>1. c = BSP /\ \A d \in Cpu \ {BSP} : pc[d] = "parked"
  BY DEF IInv, PortOK
<1> QED
  BY <1>1 DEF Printing

LEMMA SpInitTestKeeps ==
  ASSUME IInv, NEW c \in Cpu, sp_init_test(c)
  PROVE  IInv'
<1>1. KutilTypeOK /\ pc[c] = "run" /\ prog[c] # <<>> /\ Head(prog[c]).op = "sp_init"
      /\ uart' = "loop" /\ thr' = <<TEST>> /\ Goto(c, "test")
      /\ UNCHANGED <<mutex, sp_mutex, prog, fmt, out, rx, line, input>>
  BY DEF IInv, sp_init_test, At
<1>2. pc' \in [Cpu -> Places] /\ pc'[c] = "test" /\ \A d \in Cpu \ {c} : pc'[d] = pc[d]
  BY <1>1, Goes DEF Places
<1>3. KutilTypeOK'
  BY <1>1, <1>2 DEF KutilTypeOK, TEST
<1>4. PICK s \in Seq(Ops) : s = prog[c]
  BY <1>1 DEF KutilTypeOK
<1>5. 1 \in 1 .. Len(s) /\ Head(s) = s[1]
  BY <1>1, <1>4, TailOf
<1>6. ~Without(c, {"sp_init"})
  BY <1>1, <1>4, <1>5 DEF Without
<1>7. uart = "reset" /\ c = BSP
  <2>1. uart # "on"
    BY <1>6 DEF IInv, PortOK
  <2>2. c = BSP
    BY <1>1, <2>1, Alone
  <2> QED
    BY <1>1, <1>6, <2>1, <2>2 DEF IInv, PortOK, KutilTypeOK
<1>8. c \notin Printing /\ c \notin Printing' /\ WhereOf(c)'
  BY <1>1, <1>2 DEF Printing, WhereOf
<1>9. Follows' /\ WhereOK' /\ OnePrinter'
  BY <1>1, <1>2, <1>3, <1>8, LocalStep
<1>10. PortOK'
  <2>1. /\ line = <<>> /\ (\A d \in Cpu \ {BSP} : pc[d] = "parked")
        /\ rx = <<>> /\ prog[BSP] = Script(BSP)
    BY <1>7 DEF IInv, PortOK
  <2>2. /\ line' = <<>> /\ (\A d \in Cpu \ {BSP} : pc'[d] = "parked")
        /\ rx' = <<>> /\ prog'[BSP] = Script(BSP) /\ Script(BSP)' = Script(BSP)
        /\ pc'[BSP] = "test"
    BY <1>1, <1>2, <1>7, <2>1 DEF Script
  <2> QED
    BY <1>1, <2>2 DEF PortOK
<1> QED
  BY <1>3, <1>9, <1>10 DEF IInv

LEMMA SpInitOkKeeps ==
  ASSUME IInv, NEW c \in Cpu, sp_init_ok(c)
  PROVE  IInv' /\ uart # "on" /\ thr' = <<>> /\ line' = <<>> /\ Printing' = {}
<1>1. KutilTypeOK /\ pc[c] = "test" /\ prog[c] # <<>> /\ Head(prog[c]).op = "sp_init"
      /\ rx = <<TEST>> /\ uart' = "on" /\ Finish(c)
      /\ UNCHANGED <<mutex, sp_mutex, fmt, out, thr, line, input>>
  BY DEF IInv, sp_init_ok, At
<1>2. /\ pc' \in [Cpu -> Places] /\ pc'[c] = "run" /\ prog' \in [Cpu -> Seq(Ops)]
      /\ prog'[c] = Tail(prog[c])
      /\ \A d \in Cpu \ {c} : pc'[d] = pc[d] /\ prog'[d] = prog[d]
  BY <1>1, Finishes
<1>3. KutilTypeOK'
  BY <1>1, <1>2 DEF KutilTypeOK
<1>4. PICK s \in Seq(Ops) : s = prog[c]
  BY <1>1 DEF KutilTypeOK
<1>5. 1 \in 1 .. Len(s) /\ Head(s) = s[1]
  BY <1>1, <1>4, TailOf
<1>6. ~Without(c, {"sp_init"})
  BY <1>1, <1>4, <1>5 DEF Without
<1>7. uart = "loop" /\ c = BSP
  <2>1. uart # "on"
    BY <1>6 DEF IInv, PortOK
  <2>2. c = BSP
    BY <1>1, <2>1, Alone
  <2> QED
    BY <1>1, <2>1, <2>2 DEF IInv, PortOK, KutilTypeOK
<1>8. c \notin Printing /\ c \notin Printing' /\ WhereOf(c)'
  BY <1>1, <1>2 DEF Printing, WhereOf
<1>9. Follows' /\ WhereOK' /\ OnePrinter'
  BY <1>1, <1>2, <1>3, <1>8, LocalStep
<1>10. /\ line = <<>> /\ (\A d \in Cpu \ {BSP} : pc[d] = "parked")
       /\ thr = <<>> /\ prog[BSP] = Script(BSP)
  <2>1. rx # <<>>
    BY <1>1
  <2> QED
    BY <1>1, <1>7, <2>1 DEF IInv, PortOK
<1>11. ASSUME NEW d \in Cpu
       PROVE  Without(d, {"sp_init"})'
  <2>1. PICK t \in Seq(Ops) : t = Script(d)
    BY ScriptIs
  <2>2. \A k \in 1 .. Len(t) : (d = BSP => k > 1) => t[k].op # "sp_init"
    BY <2>1, ScriptIs
  <2>3. CASE d = c
    <3>1. s = t /\ s # <<>> /\ prog'[d] = Tail(s)
      BY <1>1, <1>2, <1>4, <1>7, <1>10, <2>1, <2>3
    <3>2. \A k \in 1 .. Len(Tail(s)) : k + 1 \in 1 .. Len(s) /\ Tail(s)[k] = s[k + 1] /\ k + 1 > 1
      BY <3>1, TailOf
    <3>3. \A k \in 1 .. Len(Tail(s)) : Tail(s)[k].op # "sp_init"
      BY <2>2, <3>1, <3>2
    <3> QED
      BY <3>1, <3>3 DEF Without
  <2>4. CASE d # c
    <3>1. \A k \in 1 .. Len(prog[d]) : prog[d][k] \in Range(t)
      BY <2>1 DEF IInv, Follows
    <3>2. \A o \in Range(t) : o.op # "sp_init"
      BY <1>7, <2>2, <2>4 DEF Range
    <3> QED
      BY <1>2, <2>4, <3>1, <3>2 DEF Without
  <2> QED
    BY <2>3, <2>4
<1>12. PortOK'
  BY <1>1, <1>11 DEF PortOK
<1>13. Printing' = {}
  BY <1>2, <1>7, <1>10 DEF Printing
<1> QED
  BY <1>1, <1>3, <1>7, <1>9, <1>10, <1>12, <1>13 DEF IInv

LEMMA SpInitFailKeeps ==
  ASSUME IInv, NEW c \in Cpu, sp_init_fail(c)
  PROVE  IInv' /\ uart # "on"
<1>1. KutilTypeOK /\ pc[c] = "test" /\ prog[c] # <<>> /\ Head(prog[c]).op = "sp_init"
      /\ prog' = [prog EXCEPT ![c] = ku_hang] /\ Goto(c, "run")
      /\ UNCHANGED <<mutex, sp_mutex, fmt, out, uart, thr, line, input>>
  BY DEF IInv, sp_init_fail, At
<1>2. pc' \in [Cpu -> Places] /\ pc'[c] = "run" /\ \A d \in Cpu \ {c} : pc'[d] = pc[d]
  BY <1>1, Goes DEF Places
<1>3. PICK h \in Seq(Ops) : h = ku_hang
  BY Hanging
<1>4. prog' \in [Cpu -> Seq(Ops)] /\ prog'[c] = h /\ \A d \in Cpu \ {c} : prog'[d] = prog[d]
  BY <1>1, <1>3 DEF KutilTypeOK
<1>5. KutilTypeOK'
  BY <1>1, <1>2, <1>4 DEF KutilTypeOK
<1>6. PICK s \in Seq(Ops) : s = prog[c]
  BY <1>1 DEF KutilTypeOK
<1>7. 1 \in 1 .. Len(s) /\ Head(s) = s[1]
  BY <1>1, <1>6, TailOf
<1>8. ~Without(c, {"sp_init"})
  BY <1>1, <1>6, <1>7 DEF Without
<1>9. uart = "loop" /\ c = BSP /\ Printing = {}
  <2>1. uart # "on"
    BY <1>8 DEF IInv, PortOK
  <2>2. c = BSP /\ Printing = {}
    BY <1>1, <2>1, Alone
  <2> QED
    BY <1>1, <2>1, <2>2 DEF IInv, PortOK, KutilTypeOK
<1>10. Follows'
  <2> SUFFICES ASSUME NEW d \in Cpu, NEW k \in 1 .. Len(prog'[d])
               PROVE  prog'[d][k] \in Range(Script(d))
    BY DEF Follows, Script, ku_hang, ku_println, ku_print, sp_write_ch
  <2>1. CASE d = c
    <3>1. k \in 1 .. 3
      BY <1>3, <1>4, <2>1, Hanging
    <3>2. ku_hang[k] \in Range(Script(d))
      BY <3>1, ScriptIs
    <3> QED
      BY <1>3, <1>4, <2>1, <3>2
  <2>2. CASE d # c
    BY <1>4, <2>2 DEF IInv, Follows
  <2> QED
    BY <2>1, <2>2
<1>11. \A d \in Cpu : d = c \/ pc'[d] = "parked"
  BY <1>2, <1>9 DEF IInv, PortOK
<1>12. WhereOK' /\ Printing' = {}
  BY <1>2, <1>11 DEF WhereOK, WhereOf, Printing
<1>13. OnePrinter'
  BY <1>12 DEF OnePrinter
<1>14. PortOK'
  <2>1. Len(h) = 3 /\ h[1].op = "print" /\ h[2].op = "write" /\ h[3].op = "au_hang"
    BY <1>3, Hanging
  <2>2. \A k \in 1 .. Len(h) : h[k].op \notin {"sp_init"} /\ h[k].op \notin {"smp"}
    BY <2>1
  <2>3. Without(BSP, {"sp_init"})' /\ Without(BSP, {"smp"})'
    BY <1>4, <1>9, <2>2 DEF Without
  <2>4. line' = <<>> /\ uart' = "loop" /\ pc'[BSP] = "run"
    BY <1>1, <1>2, <1>9 DEF IInv, PortOK
  <2> QED
    BY <1>9, <1>11, <2>3, <2>4 DEF PortOK
<1> QED
  BY <1>5, <1>9, <1>10, <1>12, <1>13, <1>14 DEF IInv

(* The port's own steps.                                                   *)
LEMMA CpusStay ==
  ASSUME IInv, UNCHANGED <<mutex, prog, pc, fmt, out>>, thr' \in Seq(Nat), line' \in Seq(Nat),
         UNCHANGED uart
  PROVE  /\ KutilTypeOK' /\ Follows' /\ WhereOK' /\ OnePrinter' /\ Printing' = Printing
         /\ \A d \in Cpu : \A ops : Without(d, ops)' <=> Without(d, ops)
<1>1. KutilTypeOK'
  BY DEF IInv, KutilTypeOK
<1>2. Follows'
  BY DEF IInv, Follows, Script
<1>3. WhereOK' /\ OnePrinter' /\ Printing' = Printing
  BY DEF IInv, WhereOK, WhereOf, At, OnePrinter, Printing
<1> QED
  BY <1>1, <1>2, <1>3 DEF Without

LEMMA TransmitKeeps ==
  ASSUME IInv, transmit
  PROVE  IInv'
<1>1. /\ thr # <<>> /\ thr' = <<>> /\ UNCHANGED <<mutex, prog, pc, fmt, out, uart>>
      /\ uart = "loop" => line' = line
      /\ uart # "loop" => line' = line \o thr /\ rx' = rx
  BY DEF transmit, cpu_vars
<1>2. thr' \in Seq(Nat) /\ line' \in Seq(Nat)
  <2>1. line \in Seq(Nat) /\ thr \in Seq(Nat)
    BY DEF IInv, KutilTypeOK
  <2>2. line \o thr \in Seq(Nat)
    BY <2>1, Joined
  <2>3. line' \in {line, line \o thr}
    BY <1>1, Zenon
  <2>4. line' \in Seq(Nat)
    BY <2>1, <2>2, <2>3, Zenon
  <2> QED
    BY <1>1, <2>4
<1>3. /\ KutilTypeOK' /\ Follows' /\ WhereOK' /\ OnePrinter'
      /\ \A d \in Cpu : \A ops : Without(d, ops)' <=> Without(d, ops)
  BY <1>1, <1>2, CpusStay
<1>4. uart # "reset"
  BY <1>1 DEF IInv, PortOK
<1>5. PortOK'
  <2>1. BSP \in Cpu /\ Script(BSP)' = Script(BSP)
    BY KutilAssumption
  <2>2. CASE uart = "on"
    BY <1>1, <1>3, <2>2 DEF IInv, PortOK
  <2>3. CASE uart = "loop"
    BY <1>1, <1>3, <2>1, <2>3 DEF IInv, PortOK
  <2> QED
    BY <1>4, <2>2, <2>3 DEF IInv, KutilTypeOK
<1> QED
  BY <1>3, <1>5 DEF IInv

LEMMA ReceiveKeeps ==
  ASSUME IInv, receive
  PROVE  IInv'
<1>1. uart = "on" /\ UNCHANGED <<mutex, prog, pc, fmt, out, uart, thr, line>>
  BY DEF receive, cpu_vars
<1>2. thr' \in Seq(Nat) /\ line' \in Seq(Nat)
  BY <1>1 DEF IInv, KutilTypeOK
<1>3. /\ KutilTypeOK' /\ Follows' /\ WhereOK' /\ OnePrinter'
      /\ \A d \in Cpu : \A ops : Without(d, ops)' <=> Without(d, ops)
  BY <1>1, <1>2, CpusStay
<1>4. PortOK'
  BY <1>1, <1>3 DEF IInv, PortOK
<1> QED
  BY <1>3, <1>4 DEF IInv

LEMMA StayKeeps ==
  ASSUME IInv, UNCHANGED vars
  PROVE  IInv'
<1>1. UNCHANGED <<mutex, prog, pc, fmt, out, uart, thr, line, rx>>
  BY DEF vars, cpu_vars, dev_vars
<1>2. thr' \in Seq(Nat) /\ line' \in Seq(Nat)
  BY <1>1 DEF IInv, KutilTypeOK
<1>3. /\ KutilTypeOK' /\ Follows' /\ WhereOK' /\ OnePrinter'
      /\ \A d \in Cpu : \A ops : Without(d, ops)' <=> Without(d, ops)
  BY <1>1, <1>2, CpusStay
<1>4. PortOK'
  <2>1. BSP \in Cpu /\ Script(BSP)' = Script(BSP)
    BY KutilAssumption
  <2> QED
    BY <1>1, <1>3, <2>1 DEF IInv, PortOK
<1> QED
  BY <1>3, <1>4 DEF IInv

LEMMA NextKeeps ==
  ASSUME IInv, [Next]_vars
  PROVE  IInv'
<1>1. CASE Next
  <2>1. ASSUME NEW c \in Cpu, Step(c)
        PROVE  IInv'
    BY <2>1, SpInitTestKeeps, SpInitOkKeeps, SpInitFailKeeps, PrintLockKeeps, PrintItemKeeps,
       PrintUnlockKeeps, WriteChKeeps, SpLockKeeps, SpPutKeeps, SpUnlockKeeps, ReadLockKeeps,
       ReadChKeeps, SmpStartKeeps, HangKeeps DEF Step
  <2>2. CASE Stopped
    BY <2>2, StayKeeps DEF Stopped
  <2> QED
    BY <1>1, <2>1, <2>2, TransmitKeeps, ReceiveKeeps DEF Next
<1> QED
  BY <1>1, StayKeeps

(* Every reachable state satisfies the inductive invariant: one processor  *)
(* at a time is inside ku_print_v, and nothing is on the line before       *)
(* sp_init has found its test byte.                                        *)
THEOREM KutilInvariant == Spec => []IInv
  BY KutilStart, NextKeeps, PTL DEF Spec

-----------------------------------------------------------------------------
(* Each step is one of LogSpec's, or none.                                 *)
Wire == IF uart = "on" THEN line \o thr ELSE <<>>
Word == IF Speaking THEN out[Speaker] ELSE <<>>
Rest == IF Speaking THEN Meanings(fmt[Speaker]) ELSE <<>>
Silent == Wire' = Wire /\ Word' = Word /\ Rest' = Rest

LEMMA SpeakerIs ==
  ASSUME OnePrinter, NEW c \in Printing
  PROVE  Speaker = c
<1>1. Speaker \in Printing
  BY Zenon DEF Speaker
<1> QED
  BY <1>1 DEF OnePrinter

LEMMA SpeaksNow ==
  ASSUME OnePrinter, uart = "on", NEW c \in Printing
  PROVE  Word = out[c] /\ Rest = Meanings(fmt[c])
<1>1. Speaker = c /\ Speaking
  BY SpeakerIs DEF Speaking
<1> QED
  BY <1>1 DEF Word, Rest

LEMMA SpeaksThen ==
  ASSUME OnePrinter', uart' = "on", NEW c, c \in Printing'
  PROVE  Word' = out'[c] /\ Rest' = Meanings(fmt'[c])
<1>1. Speaker' \in Printing'
  <2>1. \E d : d \in Printing'
    OBVIOUS
  <2>2. Speaker' = CHOOSE d \in Printing' : TRUE
    BY Zenon DEF Speaker
  <2> QED
    BY <2>1, <2>2, Zenon
<1>2. Speaker' = c
  BY <1>1 DEF OnePrinter
<1>3. Speaking'
  BY DEF Speaking
<1> QED
  BY <1>2, <1>3 DEF Word, Rest

LEMMA OffOff ==
  ASSUME uart # "on", uart' # "on"
  PROVE  Silent
  BY DEF Silent, Wire, Word, Rest, Speaking

LEMMA NobodySpeaks ==
  ASSUME Printing = {}
  PROVE  Word = <<>> /\ Rest = <<>>
  BY DEF Word, Rest, Speaking

LEMMA NobodySpeaksThen ==
  ASSUME Printing' = {}
  PROVE  Word' = <<>> /\ Rest' = <<>>
  BY DEF Word, Rest, Speaking

(* A step that leaves the messages being printed alone.                    *)
LEMMA SameVoice ==
  ASSUME IInv, IInv', uart' = uart, uart = "on", Printing' = Printing,
         \A c \in Printing : out'[c] = out[c] /\ fmt'[c] = fmt[c]
  PROVE  Word' = Word /\ Rest' = Rest
<1>1. CASE Printing = {}
  BY <1>1, NobodySpeaks, NobodySpeaksThen
<1>2. CASE Printing # {}
  <2>1. PICK c \in Printing : TRUE
    BY <1>2
  <2>2. Word = out[c] /\ Rest = Meanings(fmt[c])
    BY <2>1, SpeaksNow DEF IInv
  <2>3. Word' = out'[c] /\ Rest' = Meanings(fmt'[c])
    BY <2>1, SpeaksThen DEF IInv
  <2> QED
    BY <2>1, <2>2, <2>3
<1> QED
  BY <1>1, <1>2

LEMMA SameVoices ==
  ASSUME IInv, IInv', NEW c \in Cpu, uart = "on",
         \A d \in Cpu \ {c} : pc'[d] = pc[d] /\ prog'[d] = prog[d]
                              /\ out'[d] = out[d] /\ fmt'[d] = fmt[d],
         \/ c \notin Printing /\ c \notin Printing'
         \/ c \in Printing /\ c \in Printing' /\ out'[c] = out[c] /\ fmt'[c] = fmt[c],
         UNCHANGED <<uart, thr, line>>
  PROVE  Silent
<1>1. Printing' = Printing
  <2>1. \A d \in Cpu : d \in Printing' <=> d \in Printing
    BY DEF Printing
  <2> QED
    BY <2>1 DEF Printing
<1>2. \A d \in Printing : out'[d] = out[d] /\ fmt'[d] = fmt[d]
  BY DEF Printing
<1>3. Word' = Word /\ Rest' = Rest
  BY <1>1, <1>2, SameVoice
<1>4. Wire' = Wire
  BY DEF Wire
<1> QED
  BY <1>3, <1>4 DEF Silent

(* LogSpec's steps, in the words of this module.                           *)
LEMMA LogSteps ==
  /\ (Word = <<>> /\ Rest = <<>> /\ Wire' = Wire
        /\ \E m \in Texts : Word' = m.prefix /\ Rest' = m.words) => Log!Next
  /\ (Word = <<>> /\ Rest # <<>> /\ Wire' = Wire
        /\ Word' = Head(Rest) /\ Rest' = Tail(Rest)) => Log!Next
  /\ (Word # <<>> /\ Wire' = Append(Wire, Head(Word)) /\ Word' = Tail(Word)
        /\ Rest' = Rest) => Log!Next
  /\ (Wire' = Append(Wire, NL) /\ Word' = Word /\ Rest' = Rest) => Log!Next
  /\ Silent => UNCHANGED Log!log_vars
<1>1. (Word = <<>> /\ Rest = <<>> /\ Wire' = Wire
        /\ \E m \in Texts : Word' = m.prefix /\ Rest' = m.words) => Log!Next
  BY DEF Log!Next, Log!Begin, Wire, Word, Rest
<1>2. (Word = <<>> /\ Rest # <<>> /\ Wire' = Wire
        /\ Word' = Head(Rest) /\ Rest' = Tail(Rest)) => Log!Next
  BY DEF Log!Next, Log!NextWord, Wire, Word, Rest
<1>3. (Word # <<>> /\ Wire' = Append(Wire, Head(Word)) /\ Word' = Tail(Word)
        /\ Rest' = Rest) => Log!Next
  BY DEF Log!Next, Log!Say, Wire, Word, Rest
<1>4. (Wire' = Append(Wire, NL) /\ Word' = Word /\ Rest' = Rest) => Log!Next
  BY DEF Log!Next, Log!Newline, Wire, Word, Rest
<1>5. Silent => UNCHANGED Log!log_vars
  BY DEF Silent, Log!log_vars, Wire, Word, Rest
<1> QED
  BY <1>1, <1>2, <1>3, <1>4, <1>5

LEMMA PrintLockBegins ==
  ASSUME IInv, IInv', uart = "on", NEW c \in Cpu, print_lock(c)
  PROVE  Log!Next
<1>1. KutilTypeOK /\ pc[c] = "run" /\ prog[c] # <<>> /\ Head(prog[c]).op = "print"
      /\ mutex = 0
  BY DEF IInv, print_lock, At, k_mutex_lock
<1>2. PICK m : m = Head(prog[c])
  OBVIOUS
<1>3. PICK prefix : prefix = Prefix(m.type)
  OBVIOUS
<1>4. PICK p \in {"sp_lock", "loop"} : p = IF prefix # <<>> THEN "sp_lock" ELSE "loop"
  OBVIOUS
<1>5. /\ fmt' = [fmt EXCEPT ![c] = m.msg] /\ out' = [out EXCEPT ![c] = prefix] /\ Goto(c, p)
      /\ UNCHANGED <<prog, uart, thr, line>>
  BY <1>2, <1>3, <1>4 DEF print_lock, dev_vars
<1>6. fmt'[c] = m.msg /\ out'[c] = prefix /\ pc'[c] = p
  BY <1>1, <1>4, <1>5, Goes DEF KutilTypeOK, Places
<1>7. Word = <<>> /\ Rest = <<>>
  BY <1>1, NobodySpeaks DEF IInv, OnePrinter
<1>8. c \in Printing'
  BY <1>1, <1>4, <1>5, <1>6 DEF Printing
<1>9. Word' = prefix /\ Rest' = Meanings(m.msg)
  BY <1>5, <1>6, <1>8, SpeaksThen DEF IInv
<1>10. m \in Range(Script(c)) /\ m.op = "print"
  <2>1. PICK s \in Seq(Ops) : s = prog[c]
    BY <1>1 DEF KutilTypeOK
  <2>2. 1 \in 1 .. Len(s) /\ Head(s) = s[1]
    BY <1>1, <2>1, TailOf
  <2>3. s[1] \in Range(Script(c))
    BY <2>1, <2>2 DEF IInv, Follows
  <2> QED
    BY <1>1, <1>2, <2>1, <2>2, <2>3
<1>11. PICK text : text = [prefix |-> prefix, words |-> Meanings(m.msg)]
  OBVIOUS
<1>12. text \in Texts /\ text.prefix = prefix /\ text.words = Meanings(m.msg)
  <2>1. m \in {o \in UNION {Range(Script(d)) : d \in Cpu} : o.op = "print"}
    BY <1>10
  <2>2. text = [prefix |-> Prefix(m.type), words |-> Meanings(m.msg)]
    BY <1>3, <1>11, Zenon
  <2>3. text \in Texts
    BY <2>1, <2>2, Zenon DEF Texts
  <2> QED
    BY <1>11, <2>3
<1>13. Wire' = Wire
  BY <1>5 DEF Wire
<1> QED
  BY <1>7, <1>9, <1>12, <1>13, LogSteps

LEMMA PrintItemNextWord ==
  ASSUME IInv, IInv', uart = "on", NEW c \in Cpu, print_item(c)
  PROVE  Log!Next
<1>1. KutilTypeOK /\ pc[c] = "loop" /\ prog[c] # <<>> /\ Head(prog[c]).op = "print"
      /\ fmt[c] # <<>> /\ out[c] = <<>>
  BY DEF IInv, print_item, WhereOK, WhereOf, At
<1>2. PICK f \in Seq(Item) : f = fmt[c]
  BY <1>1 DEF KutilTypeOK
<1>3. Head(f) \in Item /\ Tail(f) \in Seq(Item) /\ Len(f) \in Nat \ {0}
      /\ Head(f) = f[1] /\ Len(Tail(f)) = Len(f) - 1
      /\ \A k \in 1 .. Len(Tail(f)) : k + 1 \in 1 .. Len(f) /\ Tail(f)[k] = f[k + 1]
  BY <1>1, <1>2, TailOf
<1>4. PICK piece : piece = Piece(Head(f))
  OBVIOUS
<1>5. piece = Meaning(Head(f))
  BY <1>3, <1>4, PieceMeans
<1>6. PICK p \in {"sp_lock", "loop"} : p = IF Sends(Head(f)) THEN "sp_lock" ELSE "loop"
  OBVIOUS
<1>7. /\ out' = [out EXCEPT ![c] = piece] /\ Goto(c, p) /\ fmt' = [fmt EXCEPT ![c] = Tail(f)]
      /\ UNCHANGED <<prog, uart, thr, line>>
  BY <1>2, <1>4, <1>6 DEF print_item, dev_vars
<1>8. fmt'[c] = Tail(f) /\ out'[c] = piece /\ pc'[c] = p
  BY <1>1, <1>6, <1>7, Goes DEF KutilTypeOK, Places
<1>9. c \in Printing /\ c \in Printing'
  BY <1>1, <1>6, <1>7, <1>8 DEF Printing
<1>10. Word = <<>> /\ Rest = Meanings(f)
  BY <1>1, <1>2, <1>9, SpeaksNow DEF IInv
<1>11. Word' = piece /\ Rest' = Meanings(Tail(f))
  BY <1>7, <1>8, <1>9, SpeaksThen DEF IInv
<1>12. PICK ms : ms = Meanings(f)
  OBVIOUS
<1>13. ms # <<>> /\ Head(ms) = Meaning(Head(f)) /\ Tail(ms) = Meanings(Tail(f))
  <2>1. PICK S : S = {Meaning(f[k]) : k \in 1 .. Len(f)}
    OBVIOUS
  <2>2. /\ ms \in Seq(S) /\ Len(ms) = Len(f) /\ \A k \in 1 .. Len(f) : ms[k] = Meaning(f[k])
    BY <1>3, <1>12, <2>1 DEF Meanings
  <2>3. ms # <<>> /\ Head(ms) = ms[1]
    BY <1>3, <2>2
  <2>4. PICK rest : rest = Meanings(Tail(f))
    OBVIOUS
  <2>5. /\ Len(Tail(ms)) = Len(f) - 1 /\ Tail(ms) \in Seq(S)
        /\ \A k \in 1 .. Len(f) - 1 : Tail(ms)[k] = Meaning(f[k + 1])
    <3>1. /\ Tail(ms) \in Seq(S) /\ Len(Tail(ms)) = Len(ms) - 1
          /\ \A k \in 1 .. Len(Tail(ms)) : k + 1 \in 1 .. Len(ms) /\ Tail(ms)[k] = ms[k + 1]
      BY <2>2, <2>3, TailOf
    <3> QED
      BY <2>2, <3>1
  <2>6. DOMAIN rest = 1 .. Len(f) - 1 /\ \A k \in 1 .. Len(f) - 1 : rest[k] = Meaning(f[k + 1])
    BY <1>3, <2>4 DEF Meanings
  <2>7. rest = [k \in 1 .. Len(f) - 1 |-> rest[k]]
    BY <2>4, <2>6 DEF Meanings
  <2>8. PICK t \in Seq(S) : t = Tail(ms)
    BY <2>5
  <2>9. t = rest
    <3>1. DOMAIN t = 1 .. Len(t) /\ Len(t) = Len(f) - 1
      BY <2>5, <2>8
    <3>2. t = [k \in 1 .. Len(f) - 1 |-> t[k]]
      BY <3>1
    <3> QED
      BY <2>5, <2>6, <2>7, <2>8, <3>2
  <2> QED
    BY <1>3, <2>2, <2>3, <2>4, <2>8, <2>9
<1>14. Wire' = Wire
  BY <1>7 DEF Wire
<1> QED
  BY <1>5, <1>10, <1>11, <1>12, <1>13, <1>14, LogSteps

LEMMA PrintUnlockSilent ==
  ASSUME IInv, IInv', uart = "on", NEW c \in Cpu, print_unlock(c)
  PROVE  Silent
<1>1. KutilTypeOK /\ pc[c] = "loop" /\ prog[c] # <<>> /\ Head(prog[c]).op = "print"
      /\ fmt[c] = <<>> /\ out[c] = <<>> /\ mutex' = 0
      /\ UNCHANGED <<uart, thr, line>>
  BY DEF IInv, print_unlock, WhereOK, WhereOf, At, k_mutex_unlock, dev_vars
<1>2. c \in Printing
  BY <1>1 DEF Printing
<1>3. Meanings(<<>>) = <<>>
  BY DEF Meanings
<1>4. Word = <<>> /\ Rest = <<>>
  BY <1>1, <1>2, <1>3, SpeaksNow DEF IInv
<1>5. Printing' = {}
  BY <1>1 DEF IInv, OnePrinter
<1>6. Word' = <<>> /\ Rest' = <<>>
  BY <1>5, NobodySpeaksThen
<1>7. Wire' = Wire
  BY <1>1 DEF Wire
<1> QED
  BY <1>4, <1>6, <1>7 DEF Silent

LEMMA SpPutSays ==
  ASSUME IInv, IInv', uart = "on", NEW c \in Cpu, sp_put(c)
  PROVE  Log!Next
<1>1. KutilTypeOK /\ pc[c] = "put" /\ out[c] # <<>> /\ thr = <<>>
      /\ thr' = <<Head(out[c])>> /\ out' = [out EXCEPT ![c] = Tail(@)]
      /\ UNCHANGED <<prog, pc, fmt, uart, line>>
  BY DEF IInv, sp_put
<1>2. PICK o \in Seq(Nat) : o = out[c]
  BY <1>1 DEF KutilTypeOK
<1>3. Head(o) \in Nat /\ Tail(o) \in Seq(Nat) /\ o # <<>>
  BY <1>1, <1>2, TailOf
<1>4. out'[c] = Tail(o) /\ \A d \in Cpu \ {c} : out'[d] = out[d]
  BY <1>1, <1>2 DEF KutilTypeOK
<1>5. Wire' = Append(Wire, Head(o))
  <2>1. line \in Seq(Nat)
    BY <1>1 DEF KutilTypeOK
  <2>2. Wire = line
    <3>1. line \o <<>> = line
      BY <2>1, ConcatEmptySeq
    <3> QED
      BY <1>1, <3>1 DEF Wire
  <2>3. Wire' = line \o <<Head(o)>>
    BY <1>1, <1>2 DEF Wire
  <2>4. PICK ch \in Nat : ch = Head(o)
    BY <1>3
  <2>5. line \o <<ch>> = Append(line, ch)
    BY <2>1
  <2> QED
    BY <2>2, <2>3, <2>4, <2>5
<1>6. Printing' = Printing
  BY <1>1 DEF Printing
<1>7. CASE c \in Printing
  <2>1. Word = o /\ Rest = Meanings(fmt[c])
    BY <1>2, <1>7, SpeaksNow DEF IInv
  <2>2. Word' = Tail(o) /\ Rest' = Meanings(fmt[c])
    BY <1>1, <1>4, <1>6, <1>7, SpeaksThen DEF IInv
  <2> QED
    BY <1>3, <1>5, <2>1, <2>2, LogSteps
<1>8. CASE c \notin Printing
  <2>1. Head(prog[c]).op # "print"
    BY <1>1, <1>8 DEF Printing
  <2>2. o \in {<<>>, <<NL>>}
    BY <1>1, <1>2, <2>1 DEF IInv, WhereOK, WhereOf, At
  <2>3. Head(<<NL>>) = NL
    BY DEF NL
  <2>4. Head(o) = NL
    BY <1>3, <2>2, <2>3
  <2>5. \A d \in Printing : out'[d] = out[d] /\ fmt'[d] = fmt[d]
    BY <1>1, <1>4, <1>8 DEF Printing
  <2>6. Word' = Word /\ Rest' = Rest
    BY <1>1, <1>6, <2>5, SameVoice
  <2> QED
    BY <1>5, <2>4, <2>6, LogSteps
<1> QED
  BY <1>7, <1>8

(* What a processor does outside ku_print_v, and taking and giving back    *)
(* the port's lock, is not heard.                                          *)
LEMMA Unheard ==
  ASSUME IInv, IInv', uart = "on", NEW c \in Cpu,
         write_ch(c) \/ sp_lock(c) \/ sp_unlock(c) \/ read_lock(c) \/ read_ch(c) \/ hang(c)
  PROVE  Silent
<1>0. KutilTypeOK /\ UNCHANGED <<uart, thr, line, fmt>>
  BY DEF IInv, write_ch, sp_lock, sp_unlock, read_lock, read_ch, hang, dev_vars
<1>1. CASE write_ch(c)
  <2>1. /\ pc[c] = "run" /\ Goto(c, "sp_lock") /\ UNCHANGED prog /\ Head(prog[c]).op = "write"
        /\ \A d \in Cpu \ {c} : out'[d] = out[d]
    BY <1>0, <1>1 DEF write_ch, At, KutilTypeOK
  <2>2. pc'[c] = "sp_lock" /\ \A d \in Cpu \ {c} : pc'[d] = pc[d]
    BY <1>0, <2>1, Goes DEF Places
  <2>3. c \notin Printing /\ c \notin Printing'
    BY <2>1, <2>2 DEF Printing
  <2> QED
    BY <1>0, <2>1, <2>2, <2>3, SameVoices
<1>2. CASE sp_lock(c)
  <2>1. pc[c] = "sp_lock" /\ Goto(c, "put") /\ UNCHANGED <<prog, out>>
    BY <1>2 DEF sp_lock
  <2>2. pc'[c] = "put" /\ \A d \in Cpu \ {c} : pc'[d] = pc[d]
    BY <1>0, <2>1, Goes DEF Places
  <2>3. c \in Printing <=> c \in Printing'
    BY <2>1, <2>2 DEF Printing
  <2> QED
    BY <1>0, <2>1, <2>2, <2>3, SameVoices
<1>3. CASE sp_unlock(c)
  <2>1. pc[c] = "put" /\ prog[c] # <<>> /\ UNCHANGED out
    BY <1>3 DEF sp_unlock, IInv, WhereOK, WhereOf, At
  <2>2. CASE Head(prog[c]).op = "print"
    <3>1. Goto(c, "loop") /\ UNCHANGED prog
      BY <1>3, <2>2 DEF sp_unlock
    <3>2. pc'[c] = "loop" /\ \A d \in Cpu \ {c} : pc'[d] = pc[d]
      BY <1>0, <3>1, Goes DEF Places
    <3>3. c \in Printing /\ c \in Printing'
      BY <2>1, <2>2, <3>1, <3>2 DEF Printing
    <3> QED
      BY <1>0, <2>1, <3>1, <3>2, <3>3, SameVoices
  <2>3. CASE Head(prog[c]).op # "print"
    <3>1. pc'[c] = "run" /\ \A d \in Cpu \ {c} : pc'[d] = pc[d] /\ prog'[d] = prog[d]
      BY <1>0, <1>3, <2>1, <2>3, Finishes DEF sp_unlock
    <3>2. c \notin Printing /\ c \notin Printing'
      BY <2>3, <3>1 DEF Printing
    <3> QED
      BY <1>0, <2>1, <3>1, <3>2, SameVoices
  <2> QED
    BY <2>2, <2>3
<1>4. CASE read_lock(c)
  <2>1. pc[c] = "run" /\ Goto(c, "read") /\ UNCHANGED <<prog, out>>
    BY <1>4 DEF read_lock, At
  <2>2. pc'[c] = "read" /\ \A d \in Cpu \ {c} : pc'[d] = pc[d]
    BY <1>0, <2>1, Goes DEF Places
  <2>3. c \notin Printing /\ c \notin Printing'
    BY <2>1, <2>2 DEF Printing
  <2> QED
    BY <1>0, <2>1, <2>2, <2>3, SameVoices
<1>5. CASE read_ch(c)
  <2>1. pc[c] = "read" /\ prog[c] # <<>> /\ Finish(c) /\ UNCHANGED out
    BY <1>5 DEF read_ch, At
  <2>2. pc'[c] = "run" /\ \A d \in Cpu \ {c} : pc'[d] = pc[d] /\ prog'[d] = prog[d]
    BY <1>0, <2>1, Finishes
  <2>3. c \notin Printing /\ c \notin Printing'
    BY <2>1, <2>2 DEF Printing
  <2> QED
    BY <1>0, <2>1, <2>2, <2>3, SameVoices
<1>6. CASE hang(c)
  <2>1. pc[c] = "run" /\ Goto(c, "hung") /\ UNCHANGED <<prog, out>>
    BY <1>6 DEF hang, At
  <2>2. pc'[c] = "hung" /\ \A d \in Cpu \ {c} : pc'[d] = pc[d]
    BY <1>0, <2>1, Goes DEF Places
  <2>3. c \notin Printing /\ c \notin Printing'
    BY <2>1, <2>2 DEF Printing
  <2> QED
    BY <1>0, <2>1, <2>2, <2>3, SameVoices
<1> QED
  BY <1>1, <1>2, <1>3, <1>4, <1>5, <1>6

LEMMA StartUnheard ==
  ASSUME IInv, IInv', uart = "on", NEW c \in Cpu, smp_start(c)
  PROVE  Silent
<1>1. KutilTypeOK /\ pc[c] = "run" /\ prog' = [prog EXCEPT ![c] = Tail(@)]
      /\ pc' = [d \in Cpu |-> IF pc[d] = "parked" THEN "run" ELSE pc[d]]
      /\ UNCHANGED <<fmt, out, uart, thr, line>>
  BY DEF IInv, smp_start, At, dev_vars
<1>2. \A d \in Cpu \ {c} : prog'[d] = prog[d]
  BY <1>1 DEF KutilTypeOK
<1>3. \A d \in Cpu : pc'[d] = IF pc[d] = "parked" THEN "run" ELSE pc[d]
  BY <1>1
<1>4. Printing' = Printing
  <2>1. \A d \in Cpu : d \in Printing' <=> d \in Printing
    BY <1>1, <1>2, <1>3 DEF Printing
  <2> QED
    BY <2>1 DEF Printing
<1>5. Word' = Word /\ Rest' = Rest
  BY <1>1, <1>4, SameVoice
<1>6. Wire' = Wire
  BY <1>1 DEF Wire
<1> QED
  BY <1>5, <1>6 DEF Silent

LEMMA PortUnheard ==
  ASSUME IInv, IInv', uart = "on", transmit \/ receive \/ UNCHANGED vars
  PROVE  Silent
<1>1. UNCHANGED <<prog, pc, fmt, out, uart>>
  BY DEF transmit, receive, vars, cpu_vars, dev_vars
<1>2. Printing' = Printing
  BY <1>1 DEF Printing
<1>3. Word' = Word /\ Rest' = Rest
  BY <1>1, <1>2, SameVoice
<1>4. Wire' = Wire
  <2>1. CASE transmit
    <3>1. line' = line \o thr /\ thr' = <<>>
      BY <2>1 DEF transmit
    <3>2. line \o thr \in Seq(Nat)
      BY Joined DEF IInv, KutilTypeOK
    <3>3. (line \o thr) \o <<>> = line \o thr
      BY <3>2, ConcatEmptySeq
    <3> QED
      BY <1>1, <3>1, <3>3 DEF Wire
  <2>2. CASE receive \/ UNCHANGED vars
    <3>1. UNCHANGED <<line, thr>>
      BY <2>2 DEF receive, vars, dev_vars
    <3> QED
      BY <1>1, <3>1 DEF Wire
  <2> QED
    BY <2>1, <2>2
<1> QED
  BY <1>3, <1>4 DEF Silent

LEMMA LogStep ==
  ASSUME IInv, IInv', [Next]_vars
  PROVE  [Log!Next]_(Log!log_vars)
<1>1. CASE uart = "on"
  <2>1. ASSUME NEW c \in Cpu, Step(c)
        PROVE  Silent \/ Log!Next
    <3>1. ~sp_init_test(c) /\ ~sp_init_ok(c) /\ ~sp_init_fail(c)
      <4>1. ASSUME KutilTypeOK, Without(c, {"sp_init"}), prog[c] # <<>>
            PROVE  Head(prog[c]).op # "sp_init"
        <5>1. PICK s \in Seq(Ops) : s = prog[c]
          BY <4>1 DEF KutilTypeOK
        <5>2. 1 \in 1 .. Len(s) /\ Head(s) = s[1]
          BY <4>1, <5>1, TailOf
        <5> QED
          BY <4>1, <5>1, <5>2 DEF Without
      <4>2. KutilTypeOK /\ Without(c, {"sp_init"})
        BY <1>1 DEF IInv, PortOK
      <4> QED
        BY <4>1, <4>2 DEF sp_init_test, sp_init_ok, sp_init_fail, At
    <3> QED
      BY <1>1, <2>1, <3>1, PrintLockBegins, PrintItemNextWord, PrintUnlockSilent, SpPutSays,
         Unheard, StartUnheard DEF Step
  <2>2. ASSUME transmit \/ receive \/ UNCHANGED vars
        PROVE  Silent
    BY <1>1, <2>2, PortUnheard
  <2>3. Silent \/ Log!Next
    <3>1. CASE UNCHANGED vars
      BY <2>2, <3>1
    <3>2. CASE Next
      <4>1. Stopped => UNCHANGED vars
        BY DEF Stopped
      <4> QED
        BY <2>1, <2>2, <3>2, <4>1, Zenon DEF Next
    <3> QED
      BY <3>1, <3>2
  <2> QED
    BY <2>3, LogSteps
<1>2. CASE uart # "on"
  <2>1. CASE uart' # "on"
    BY <1>2, <2>1, OffOff, LogSteps
  <2>2. CASE uart' = "on"
    <3>1. PICK c \in Cpu : sp_init_ok(c)
      BY <1>2, <2>2 DEF Next, Step, sp_init_test, sp_init_ok, sp_init_fail, print_lock, print_item,
         print_unlock, write_ch, sp_lock, sp_put, sp_unlock, read_lock, read_ch, smp_start, hang,
         transmit, receive, Stopped, vars, dev_vars
    <3>2. thr' = <<>> /\ line' = <<>> /\ Printing' = {}
      BY <3>1, SpInitOkKeeps
    <3>3. Word = <<>> /\ Rest = <<>> /\ Wire = <<>>
      BY <1>2 DEF Word, Rest, Wire, Speaking
    <3>4. Word' = <<>> /\ Rest' = <<>>
      BY <3>2, NobodySpeaksThen
    <3>5. Wire' = <<>>
      BY <2>2, <3>2 DEF Wire
    <3>6. Silent
      BY <3>3, <3>4, <3>5 DEF Silent
    <3> QED
      BY <3>6, LogSteps
  <2> QED
    BY <2>1, <2>2
<1> QED
  BY <1>1, <1>2

(* ku_print_v and the serial port keep LogSpec's promise: whatever the     *)
(* processors print, and however they interleave, messages come out whole, *)
(* character by character and one after the other, in the right words.     *)
THEOREM MessagesComeOutWhole == Spec => LogPromise
<1>1. Init => Log!Init
  BY DEF Init, Log!Init, Speaking
<1>2. IInv /\ IInv' /\ [Next]_vars => [Log!Next]_(Log!log_vars)
  BY LogStep
<1>3. Spec => []IInv
  BY KutilInvariant
<1> QED
  BY <1>1, <1>2, <1>3, PTL DEF Spec, LogPromise, Log!Spec

(* A conversion prints what it says: the numeral of any number of 64 bits  *)
(* to its base, cut or filled up to a modifier's width, a string or a      *)
(* character as it is (print_fmt_x, _b, _u, _s and _c).                    *)
ConversionsRight == \A item \in Item : Piece(item) = Meaning(item)

(* The loops of the conversions are right for every item there is.         *)
THEOREM EveryConversionRight == ConversionsRight
  BY PieceMeans DEF ConversionsRight
=============================================================================
