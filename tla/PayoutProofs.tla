---------------------------- MODULE PayoutProofs ----------------------------
(***************************************************************************)
(* Theorems about what a contract pays: that the ranges PayoutRanges ends  *)
(* with pay every outcome what the payout function, rounded, owes it, and  *)
(* that each outcome begins with the digits of one of the prefixes that    *)
(* DigitPrefixes groups them in; for every payout function, rounding, base *)
(* and number of digits.                                                   *)
(***************************************************************************)
EXTENDS ContractProofs

(***************************************************************************)
(* Digits.                                                                 *)
(***************************************************************************)
\* Power is the recursion it is written as, and positive.
LEMMA PowerIs == Power \in [Nat -> Nat \ {0}] /\ Power[0] = 1 /\ \A n \in Nat : Power[n + 1] = Base * Power[n]
<1> DEFINE E(f, n) == IF n = 0 THEN 1 ELSE Base * f[n - 1]
           S == {k \in Nat : \E f \in [Nat -> Nat \ {0}] : \A n \in 0..k : f[n] = E(f, n)}
           Is(f) == \A n \in Nat : f[n] = E(f, n)
<1>1. Base \in Nat \ {0} /\ \A b, p \in Nat \ {0} : b * p \in Nat \ {0}
    BY DigitsAssumption
<1>2. 0 \in S
    <2> DEFINE one == [n \in Nat |-> 1]
    <2>1. one \in [Nat -> Nat \ {0}]
        OBVIOUS
    <2>2. \A n \in 0..0 : one[n] = E(one, n)
        OBVIOUS
    <2> HIDE DEF one, E
    <2> QED BY <2>1, <2>2 DEF S
<1>3. ASSUME NEW k \in Nat, k \in S PROVE k + 1 \in S
    <2>1. PICK f \in [Nat -> Nat \ {0}] : \A n \in 0..k : f[n] = E(f, n)
        BY <1>3
    <2> DEFINE g == [n \in Nat |-> IF n = k + 1 THEN Base * f[k] ELSE f[n]]
    <2>2. g \in [Nat -> Nat \ {0}]
        BY <1>1
    <2>3. \A n \in 0..k + 1 : g[n] = E(g, n)
        BY <2>1
    <2> HIDE DEF g, E
    <2> QED BY <2>2, <2>3 DEF S
<1>4. Nat \subseteq S
    <2> HIDE DEF S
    <2> QED BY <1>2, <1>3, Induct
<1> DEFINE H(k) == CHOOSE h \in [Nat -> Nat \ {0}] : \A m \in 0..k : h[m] = E(h, m)
           f == [n \in Nat |-> H(n)[n]]
<1>5. ASSUME NEW n \in Nat PROVE H(n) \in [Nat -> Nat \ {0}] /\ \A m \in 0..n : H(n)[m] = E(H(n), m)
    BY <1>4
<1>6. ASSUME NEW k \in Nat, NEW g, NEW h, \A m \in 0..k : g[m] = E(g, m), \A m \in 0..k : h[m] = E(h, m)
      PROVE  \A n \in 0..k : g[n] = h[n]
    <2> DEFINE U == {n \in Nat : n <= k => g[n] = h[n]}
    <2>1. 0 \in U
        BY <1>6
    <2>2. ASSUME NEW n \in Nat, n \in U PROVE n + 1 \in U
        BY <1>6, <2>2
    <2> HIDE DEF U
    <2>3. Nat \subseteq U
        BY <2>1, <2>2, Induct
    <2> QED BY <2>3 DEF U
<1>7. f \in [Nat -> Nat \ {0}] /\ \A n \in Nat : f[n] = H(n)[n]
    <2> HIDE DEF H
    <2> QED BY <1>5
<1>8. Is(f)
    <2> HIDE DEF f, H, E
    <2> SUFFICES ASSUME NEW n \in Nat PROVE f[n] = E(f, n)
        OBVIOUS
    <2>1. f[n] = E(H(n), n)
        <3>1. n \in 0..n /\ \A m \in 0..n : H(n)[m] = E(H(n), m)
            BY <1>5
        <3>2. f[n] = H(n)[n]
            BY <1>7
        <3> QED BY <3>1, <3>2, Zenon
    <2>2. CASE n = 0
        BY <2>1, <2>2 DEF E
    <2>3. CASE n # 0
        <3>1. n - 1 \in Nat /\ 0..n - 1 \subseteq 0..n /\ n - 1 \in 0..n - 1
            BY <2>3
        <3>2. \A m \in 0..n - 1 : H(n - 1)[m] = E(H(n - 1), m)
            BY <1>5, <3>1
        <3>3. \A m \in 0..n - 1 : H(n)[m] = E(H(n), m)
            BY <1>5, <3>1
        <3>4. H(n)[n - 1] = H(n - 1)[n - 1]
            BY <1>6, <3>1, <3>2, <3>3
        <3>5. f[n - 1] = H(n)[n - 1]
            BY <1>7, <3>1, <3>4
        <3> QED BY <2>1, <2>3, <3>5 DEF E
    <2> QED BY <2>2, <2>3
<1> HIDE DEF f
<1> HIDE DEF H
<1>9. f = [n \in Nat |-> E(f, n)]
    BY <1>7, <1>8
<1>10. Power = [n \in Nat |-> E(Power, n)]
    BY <1>9, Zenon DEF Power
<1>11. \A n \in Nat : Power[n] = E(Power, n)
    BY <1>10
<1>12. \A n \in Nat : Power[n] = f[n]
    <2> SUFFICES ASSUME NEW n \in Nat PROVE Power[n] = f[n]
        OBVIOUS
    <2>1. \A m \in 0..n : Power[m] = E(Power, m) /\ f[m] = E(f, m)
        BY <1>8, <1>11
    <2> QED BY <1>6, <2>1
<1>13. Power \in [Nat -> Nat \ {0}]
    <2> HIDE DEF E
    <2> QED BY <1>7, <1>10, <1>12
<1> QED BY <1>11, <1>13
-----------------------------------------------------------------------------
\* What the first l digits of a number come to.
High(x, l) == x \div Power[NumDigits - l]

\* Dividing twice is dividing by the product.
LEMMA DivDiv ==
    ASSUME NEW x \in Nat, NEW b \in Nat \ {0}, NEW p \in Nat \ {0}
    PROVE  (x \div p) \div b = x \div (b * p)
<1> DEFINE q == x \div p
           r == x % p
           t == q \div b
           u == q % b
<1>1. q \in Nat /\ r \in 0..p - 1 /\ x = p * q + r
    BY DivMod
<1>2. t \in Nat /\ u \in 0..b - 1 /\ q = b * t + u
    <2> HIDE DEF q
    <2> QED BY <1>1, DivMod
<1> HIDE DEF q, r, t, u
<1>3. p * (b * t + u) = (b * p) * t + p * u
    <2>1. \A c, d, e, f \in Nat : c * (d * e + f) = (d * c) * e + c * f
        OBVIOUS
    <2>2. p \in Nat /\ b \in Nat /\ t \in Nat /\ u \in Nat
        BY <1>2
    <2> QED BY <2>1, <2>2
<1>4. b * p \in Nat /\ b * p > 0 /\ p * u + r \in 0..b * p - 1
    <2>1. p * u + p <= b * p /\ p * u \in Nat /\ b * p \in Nat
        <3>1. u \in Nat /\ u < b /\ p \in Nat
            BY <1>2
        <3>2. u * p + p <= b * p
            BY <3>1, RowsApart
        <3>3. u * p = p * u /\ p * u \in Nat /\ b * p \in Nat
            BY <3>1
        <3> QED BY <3>2, <3>3
    <2> QED BY <1>1, <2>1
<1>5. x = (b * p) * t + (p * u + r)
    <2> DEFINE y == p * q
               v == (b * p) * t
               w == p * u
    <2>1. y = v + w /\ x = y + r
        BY <1>1, <1>2, <1>3
    <2>2. v \in Nat /\ w \in Nat /\ r \in Nat
        BY <1>1, <1>2
    <2> HIDE DEF y, v, w
    <2>3. x = v + (w + r)
        BY <2>1, <2>2
    <2> QED BY <2>3 DEF v, w
<1>6. ((b * p) * t + (p * u + r)) \div (b * p) = t
    BY <1>2, <1>4, CellIs
<1> QED BY <1>5, <1>6 DEF t, q

\* One digit more: a number is Base times what is above it, and the digit.
LEMMA DigitStep ==
    ASSUME NEW x \in Nat, NEW l \in 0..NumDigits - 1
    PROVE  /\ High(x, l) \in Nat /\ High(x, l + 1) \in Nat /\ Decompose(x)[l + 1] \in 0..Base - 1
           /\ High(x, l + 1) = Base * High(x, l) + Decompose(x)[l + 1]
<1> DEFINE n == NumDigits - (l + 1)
           p == Power[n]
           q == x \div p
<1>1. n \in Nat /\ n + 1 = NumDigits - l /\ l + 1 \in 1..NumDigits /\ Base \in Nat \ {0}
    BY DigitsAssumption
<1>2. p \in Nat \ {0} /\ Power[NumDigits - l] = Base * p
    BY <1>1, PowerIs
<1> HIDE DEF n
<1>3. Decompose(x)[l + 1] = q % Base /\ High(x, l + 1) = q
    BY <1>1 DEF Decompose, High, n
<1> HIDE DEF p
<1>4. q \in Nat
    BY <1>2, DivMod
<1>5. High(x, l) = q \div Base
    <2>1. x \div (Base * p) = q \div Base
        BY <1>1, <1>2, DivDiv
    <2> QED BY <1>2, <2>1, Zenon DEF High
<1> HIDE DEF q
<1>6. q \div Base \in Nat /\ (q % Base) \in 0..Base - 1 /\ q = Base * (q \div Base) + (q % Base)
    BY <1>1, <1>4, DivMod
<1> QED BY <1>3, <1>4, <1>5, <1>6

\* The numbers that have that many digits.
Writable == 0..Power[NumDigits] - 1

\* Nothing is above the first digit, and all digits are the number.
LEMMA HighEnds ==
    ASSUME NEW x \in Writable
    PROVE  High(x, 0) = 0 /\ High(x, NumDigits) = x /\ x \in Nat
<1>1. NumDigits \in Nat /\ Power[NumDigits] \in Nat \ {0} /\ Power[0] = 1
    BY DigitsAssumption, PowerIs
<1>2. x \in Nat /\ x \in 0..Power[NumDigits] - 1
    BY <1>1 DEF Writable
<1>3. NumDigits - 0 = NumDigits /\ NumDigits - NumDigits = 0
    BY <1>1
<1>4. \A p \in Nat \ {0} : \A y \in 0..p - 1 : y \div p = 0
    <2> TAKE p \in Nat \ {0}
    <2> TAKE y \in 0..p - 1
    <2>1. (p * 0 + y) \div p = 0
        BY CellIs
    <2>2. p * 0 + y = y
        OBVIOUS
    <2> QED BY <2>1, <2>2
<1>5. High(x, 0) = 0
    BY <1>1, <1>2, <1>3, <1>4 DEF High
<1>6. High(x, NumDigits) = x
    BY <1>1, <1>2, <1>3 DEF High
<1> QED BY <1>2, <1>5, <1>6

\* Two rows of digits, and which of them comes first.
Digits == [1..NumDigits -> 0..Base - 1]
Same(a, b, l) == \A i \in 1..l : a[i] = b[i]
Parts(a, b, q) == Same(a, b, q - 1) /\ a[q] < b[q]
Less(a, b) == \E q \in 1..NumDigits : Parts(a, b, q)

\* Decompose returns NumDigits digits.
LEMMA DigitsAre == \A x \in Nat : Decompose(x) \in Digits
<1> SUFFICES ASSUME NEW x \in Nat, NEW i \in 1..NumDigits
             PROVE  (x \div Power[NumDigits - i]) % Base \in 0..Base - 1
    BY DEF Decompose, Digits
<1>1. i - 1 \in 0..NumDigits - 1 /\ (i - 1) + 1 = i
    BY DigitsAssumption
<1>2. Decompose(x)[i] \in 0..Base - 1
    BY <1>1, DigitStep
<1> QED BY <1>2 DEF Decompose

\* The order of numbers is that of their digits.
LEMMA InOrder ==
    ASSUME NEW x \in Writable, NEW y \in Writable, x < y
    PROVE  Less(Decompose(x), Decompose(y))
<1> DEFINE a == Decompose(x)
           b == Decompose(y)
           S == {l \in Nat : l <= NumDigits =>
                   /\ High(x, l) = High(y, l) => Same(a, b, l)
                   /\ High(x, l) < High(y, l) => \E q \in 1..l : Parts(a, b, q)}
<1>1. 0 \in S
    BY HighEnds DEF Same
<1>2. ASSUME NEW l \in Nat, l \in S, l + 1 <= NumDigits
      PROVE  /\ High(x, l + 1) = High(y, l + 1) => Same(a, b, l + 1)
             /\ High(x, l + 1) < High(y, l + 1) => \E q \in 1..l + 1 : Parts(a, b, q)
    <2>1. x \in Nat /\ y \in Nat /\ l \in 0..NumDigits - 1 /\ NumDigits \in Nat
        BY <1>2, HighEnds, DigitsAssumption
    <2> DEFINE hx == High(x, l)
               hy == High(y, l)
               dx == a[l + 1]
               dy == b[l + 1]
    <2>2. /\ hx \in Nat /\ dx \in 0..Base - 1 /\ High(x, l + 1) = Base * hx + dx
          /\ hy \in Nat /\ dy \in 0..Base - 1 /\ High(y, l + 1) = Base * hy + dy
        BY <2>1, DigitStep
    <2>3. (hx = hy => Same(a, b, l)) /\ (hx < hy => \E q \in 1..l : Parts(a, b, q))
        <3>1. l <= NumDigits
            BY <2>1
        <3> HIDE DEF a, b
        <3> QED BY <1>2, <3>1, Zenon
    <2> HIDE DEF hx, hy, a, b
    <2>4. Base * hx + dx = Base * hy + dy => hx = hy /\ dx = dy
        BY <2>2, DigitsAssumption, OneCell
    <2>5. Base * hx + dx < Base * hy + dy => hx < hy \/ (hx = hy /\ dx < dy)
        <3>1. hy < hx => hy * Base + Base <= hx * Base
            BY <2>2, DigitsAssumption, RowsApart
        <3>2. /\ hy * Base = Base * hy /\ hx * Base = Base * hx /\ Base * hy \in Nat /\ Base * hx \in Nat
              /\ Base \in Nat
            BY <2>2, DigitsAssumption
        <3>3. hx = hy => Base * hx = Base * hy
            OBVIOUS
        <3> QED BY <2>2, <3>1, <3>2, <3>3
    <2>6. Same(a, b, l) /\ dx = dy => Same(a, b, l + 1)
        BY DEF Same
    <2>7. Same(a, b, l) /\ dx < dy => Parts(a, b, l + 1)
        <3>1. (l + 1) - 1 = l
            OBVIOUS
        <3> QED BY <3>1 DEF Parts
    <2>8. (\E q \in 1..l : Parts(a, b, q)) => \E q \in 1..l + 1 : Parts(a, b, q)
        OBVIOUS
    <2>9. l + 1 \in 1..l + 1
        OBVIOUS
    <2> QED BY <2>2, <2>3, <2>4, <2>5, <2>6, <2>7, <2>8, <2>9
<1>3. \A l \in Nat : l \in S => l + 1 \in S
    <2> SUFFICES ASSUME NEW l \in Nat, l \in S PROVE l + 1 \in S
        OBVIOUS
    <2>1. l + 1 \in Nat
        OBVIOUS
    <2> QED BY <1>2, <2>1, Zenon
<1>4. NumDigits \in S
    <2> HIDE DEF S
    <2> QED BY <1>1, <1>3, Induct, DigitsAssumption
<1>5. High(x, NumDigits) < High(y, NumDigits) /\ NumDigits <= NumDigits
    BY HighEnds, DigitsAssumption
<1> QED BY <1>4, <1>5 DEF Less
-----------------------------------------------------------------------------
\* Where two rows of digits first differ.
LEMMA FirstApart ==
    ASSUME NEW a \in Digits, NEW b \in Digits, a # b
    PROVE  \E q \in 1..NumDigits : Same(a, b, q - 1) /\ a[q] # b[q]
<1> DEFINE T == {q \in 1..NumDigits : a[q] # b[q]}
<1>1. T # {}
    <2> SUFFICES ASSUME \A q \in 1..NumDigits : a[q] = b[q] PROVE a = b
        OBVIOUS
    <2>1. a = [q \in 1..NumDigits |-> a[q]] /\ b = [q \in 1..NumDigits |-> b[q]]
        BY DEF Digits
    <2> QED BY <2>1
<1>2. T \in SUBSET Nat
    OBVIOUS
<1> HIDE DEF T
<1>3. PICK q \in T : \A m \in T : q <= m
    BY <1>1, <1>2, Least
<1>4. q \in 1..NumDigits /\ a[q] # b[q] /\ \A i \in 1..NumDigits : a[i] # b[i] => q <= i
    BY <1>3 DEF T
<1>5. \A i \in 1..q - 1 : a[i] = b[i]
    BY <1>4, DigitsAssumption
<1> QED BY <1>4, <1>5 DEF Same

\* One of two different rows comes first.
LEMMA Ordered ==
    ASSUME NEW a \in Digits, NEW b \in Digits
    PROVE  (Less(a, b) \/ a = b \/ Less(b, a)) /\ ~(Less(a, b) /\ Less(b, a)) /\ ~Less(a, a)
<1>1. \A q \in 1..NumDigits : a[q] \in Int /\ b[q] \in Int
    BY DEF Digits
<1>2. a # b => Less(a, b) \/ Less(b, a)
    <2> SUFFICES ASSUME a # b PROVE Less(a, b) \/ Less(b, a)
        OBVIOUS
    <2>1. PICK q \in 1..NumDigits : Same(a, b, q - 1) /\ a[q] # b[q]
        BY FirstApart
    <2>2. Same(b, a, q - 1)
        BY <2>1 DEF Same
    <2>3. a[q] < b[q] \/ b[q] < a[q]
        BY <1>1, <2>1
    <2> QED BY <2>1, <2>2, <2>3 DEF Less, Parts
<1>3. ASSUME Less(a, b), Less(b, a) PROVE FALSE
    <2>1. PICK q \in 1..NumDigits : Same(a, b, q - 1) /\ a[q] < b[q]
        BY <1>3 DEF Less, Parts
    <2>2. PICK r \in 1..NumDigits : Same(b, a, r - 1) /\ b[r] < a[r]
        BY <1>3 DEF Less, Parts
    <2>3. q < r => q \in 1..r - 1
        BY DigitsAssumption
    <2>4. r < q => r \in 1..q - 1
        BY DigitsAssumption
    <2> QED BY <1>1, <2>1, <2>2, <2>3, <2>4 DEF Same
<1>4. ~Less(a, a)
    BY <1>1 DEF Less, Parts
<1> QED BY <1>2, <1>3, <1>4

\* A row that does not come before another is the same or after it.
LEMMA OrderIs ==
    ASSUME NEW x \in Writable, NEW y \in Writable
    PROVE  /\ Decompose(x) \in Digits /\ Decompose(y) \in Digits
           /\ x <= y <=> ~Less(Decompose(y), Decompose(x))
           /\ x = y <=> Decompose(x) = Decompose(y)
<1>1. x \in Nat /\ y \in Nat
    BY HighEnds
<1>2. Decompose(x) \in Digits /\ Decompose(y) \in Digits
    BY <1>1, DigitsAre
<1>3. (x < y => Less(Decompose(x), Decompose(y))) /\ (y < x => Less(Decompose(y), Decompose(x)))
    BY InOrder
<1>4. /\ ~(Less(Decompose(x), Decompose(y)) /\ Less(Decompose(y), Decompose(x)))
      /\ ~Less(Decompose(x), Decompose(x))
    BY <1>2, Ordered
<1>5. x = y => Decompose(x) = Decompose(y)
    OBVIOUS
<1> QED BY <1>1, <1>2, <1>3, <1>4, <1>5

\* Not before a row that ends with zeros, not after one that ends with Base - 1.
LEMMA NotBefore ==
    ASSUME NEW a \in Digits, NEW d \in Digits, NEW K \in 1..NumDigits, \A j \in K + 1..NumDigits : a[j] = 0
    PROVE  ~Less(d, a) <=> Same(d, a, K) \/ \E l \in 1..K : Parts(a, d, l)
<1>1. \A q \in 1..NumDigits : a[q] \in Nat /\ d[q] \in Nat
    BY DigitsAssumption DEF Digits
<1>2. ASSUME ~Less(d, a), ~Same(d, a, K) PROVE \E l \in 1..K : Parts(a, d, l)
    <2>1. a # d /\ Less(a, d)
        BY <1>2, Ordered DEF Same
    <2>2. PICK l \in 1..NumDigits : Parts(a, d, l)
        BY <2>1 DEF Less
    <2>3. l > K => FALSE
        <3>1. l > K => 1..K \subseteq 1..l - 1
            BY DigitsAssumption
        <3> QED BY <1>2, <2>2, <3>1 DEF Parts, Same
    <2> QED BY <2>2, <2>3, DigitsAssumption
<1>3. ASSUME Same(d, a, K), Less(d, a) PROVE FALSE
    <2>1. PICK l \in 1..NumDigits : d[l] < a[l]
        BY <1>3 DEF Less, Parts
    <2>2. l \in 1..K \/ l \in K + 1..NumDigits
        BY DigitsAssumption
    <2> QED BY <1>1, <1>3, <2>1, <2>2 DEF Same
<1>4. ASSUME NEW l \in 1..K, Parts(a, d, l) PROVE ~Less(d, a)
    <2>1. l \in 1..NumDigits
        BY DigitsAssumption
    <2> QED BY <1>4, <2>1, Ordered DEF Less
<1> QED BY <1>2, <1>3, <1>4

\* ... nor after one that ends with Base - 1.
LEMMA NotAfter ==
    ASSUME NEW a \in Digits, NEW d \in Digits, NEW K \in 1..NumDigits, \A j \in K + 1..NumDigits : a[j] = Base - 1
    PROVE  ~Less(a, d) <=> Same(d, a, K) \/ \E l \in 1..K : Parts(d, a, l)
<1>1. \A q \in 1..NumDigits : a[q] \in 0..Base - 1 /\ d[q] \in 0..Base - 1
    BY DEF Digits
<1>2. ASSUME ~Less(a, d), ~Same(d, a, K) PROVE \E l \in 1..K : Parts(d, a, l)
    <2>1. a # d /\ Less(d, a)
        BY <1>2, Ordered DEF Same
    <2>2. PICK l \in 1..NumDigits : Parts(d, a, l)
        BY <2>1 DEF Less
    <2>3. l > K => FALSE
        <3>1. l > K => 1..K \subseteq 1..l - 1
            BY DigitsAssumption
        <3> QED BY <1>2, <2>2, <3>1 DEF Parts, Same
    <2> QED BY <2>2, <2>3, DigitsAssumption
<1>3. ASSUME Same(d, a, K), Less(a, d) PROVE FALSE
    <2>1. PICK l \in 1..NumDigits : a[l] < d[l]
        BY <1>3 DEF Less, Parts
    <2>2. l \in 1..K \/ l \in K + 1..NumDigits
        BY DigitsAssumption
    <2>3. a[l] = d[l] \/ a[l] = Base - 1
        BY <1>3, <2>2 DEF Same
    <2> QED BY <1>1, <2>1, <2>3, DigitsAssumption
<1>4. ASSUME NEW l \in 1..K, Parts(d, a, l) PROVE ~Less(a, d)
    <2>1. l \in 1..NumDigits
        BY DigitsAssumption
    <2> QED BY <1>4, <2>1, Ordered DEF Less
<1> QED BY <1>2, <1>3, <1>4

\* s and e have k digits in common and then part; s ends with zeros after K
\* digits, e with Base - 1 after L.
Between2(s, e, k, K, L) ==
  /\ k \in 0..NumDigits - 1 /\ Same(s, e, k) /\ s[k + 1] < e[k + 1]
  /\ K \in k + 1..NumDigits /\ \A j \in K + 1..NumDigits : s[j] = 0
  /\ L \in k + 1..NumDigits /\ \A j \in L + 1..NumDigits : e[j] = Base - 1

\* The first l digits of d are one of the groups between s and e.
Grouped(d, l, s, e, k, K, L) ==
  \/ l = K /\ Same(d, s, K)
  \/ l \in k + 2..K /\ Parts(s, d, l)
  \/ l = L /\ Same(d, e, L)
  \/ l \in k + 2..L /\ Parts(d, e, l)
  \/ l = k + 1 /\ Parts(s, d, k + 1) /\ Parts(d, e, k + 1)

\* A row of digits lies between s and e when one of the groups has its first digits, and only one has.
LEMMA GroupedExactly ==
    ASSUME NEW s \in Digits, NEW e \in Digits, NEW d \in Digits, NEW k, NEW K, NEW L, Between2(s, e, k, K, L)
    PROVE  /\ (~Less(d, s) /\ ~Less(e, d)) <=> \E l \in 1..NumDigits : Grouped(d, l, s, e, k, K, L)
           /\ \A l, m \in 1..NumDigits : Grouped(d, l, s, e, k, K, L) /\ Grouped(d, m, s, e, k, K, L) => l = m
<1>1. /\ k \in Nat /\ k + 1 \in 1..NumDigits /\ K \in 1..NumDigits /\ L \in 1..NumDigits /\ NumDigits \in Nat
      /\ k + 1 <= K /\ k + 1 <= L /\ (k + 1) - 1 = k
    BY DigitsAssumption DEF Between2
<1>2. \A q \in 1..NumDigits : s[q] \in Int /\ d[q] \in Int /\ e[q] \in Int
    BY DEF Digits
<1>3. Same(s, e, k) /\ s[k + 1] < e[k + 1]
    BY DEF Between2
<1>4. ~Less(d, s) <=> Same(d, s, K) \/ \E l \in 1..K : Parts(s, d, l)
    BY <1>1, NotBefore DEF Between2
<1>5. ~Less(e, d) <=> Same(d, e, L) \/ \E l \in 1..L : Parts(d, e, l)
    BY <1>1, NotAfter DEF Between2
\* What is grouped agrees with both on k digits, and the next tells the kind of its group.
<1> DEFINE Low(l) == (l = K /\ Same(d, s, K)) \/ (l \in k + 2..K /\ Parts(s, d, l))
           Top(l) == (l = L /\ Same(d, e, L)) \/ (l \in k + 2..L /\ Parts(d, e, l))
           Mid(l) == l = k + 1 /\ Parts(s, d, k + 1) /\ Parts(d, e, k + 1)
<1>6. \A l : Grouped(d, l, s, e, k, K, L) <=> Low(l) \/ Top(l) \/ Mid(l)
    BY DEF Grouped
<1>7. \A l \in 1..NumDigits : Low(l) => Same(d, s, k) /\ d[k + 1] = s[k + 1]
    <2> SUFFICES ASSUME NEW l \in 1..NumDigits, Low(l) PROVE \A i \in 1..k + 1 : d[i] = s[i]
        BY <1>1 DEF Same
    <2>1. CASE l = K /\ Same(d, s, K)
        BY <1>1, <2>1 DEF Same
    <2>2. CASE l \in k + 2..K /\ Parts(s, d, l)
        BY <1>1, <2>2 DEF Same, Parts
    <2> QED BY <2>1, <2>2
<1>8. \A l \in 1..NumDigits : Top(l) => Same(d, s, k) /\ d[k + 1] = e[k + 1]
    <2> SUFFICES ASSUME NEW l \in 1..NumDigits, Top(l) PROVE \A i \in 1..k + 1 : d[i] = e[i]
        BY <1>1, <1>3 DEF Same
    <2>1. CASE l = L /\ Same(d, e, L)
        BY <1>1, <2>1 DEF Same
    <2>2. CASE l \in k + 2..L /\ Parts(d, e, l)
        BY <1>1, <2>2 DEF Same, Parts
    <2> QED BY <2>1, <2>2
<1>9. \A l \in 1..NumDigits : Mid(l) => Same(d, s, k) /\ s[k + 1] < d[k + 1] /\ d[k + 1] < e[k + 1]
    BY <1>1 DEF Same, Parts
<1>10. \A l, m \in 1..NumDigits : Low(l) /\ Low(m) => l = m
    <2> SUFFICES ASSUME NEW l \in 1..NumDigits, NEW m \in 1..NumDigits, Low(l), Low(m), l < m PROVE FALSE
        BY <1>1
    <2>1. l \in k + 2..K /\ Parts(s, d, l) /\ m <= K
        BY <1>1
    <2>2. d[l] = s[l]
        <3>1. l \in 1..K /\ l \in 1..m - 1
            BY <1>1, <2>1
        <3> QED BY <3>1 DEF Same, Parts
    <2> QED BY <1>1, <1>2, <2>1, <2>2 DEF Parts
<1>11. \A l, m \in 1..NumDigits : Top(l) /\ Top(m) => l = m
    <2> SUFFICES ASSUME NEW l \in 1..NumDigits, NEW m \in 1..NumDigits, Top(l), Top(m), l < m PROVE FALSE
        BY <1>1
    <2>1. l \in k + 2..L /\ Parts(d, e, l) /\ m <= L
        BY <1>1
    <2>2. d[l] = e[l]
        <3>1. l \in 1..L /\ l \in 1..m - 1
            BY <1>1, <2>1
        <3> QED BY <3>1 DEF Same, Parts
    <2> QED BY <1>1, <1>2, <2>1, <2>2 DEF Parts
<1>12. \A l, m \in 1..NumDigits : Grouped(d, l, s, e, k, K, L) /\ Grouped(d, m, s, e, k, K, L) => l = m
    <2>1. s[k + 1] \in Int /\ d[k + 1] \in Int /\ e[k + 1] \in Int
        BY <1>1, <1>2
    <2>2. \A l, m \in 1..NumDigits : Mid(l) /\ Mid(m) => l = m
        OBVIOUS
    <2> HIDE DEF Low, Top, Mid
    <2> QED BY <1>3, <1>6, <1>7, <1>8, <1>9, <1>10, <1>11, <2>1, <2>2
\* What is grouped lies between.
<1>13. Same(d, s, k) /\ d[k + 1] < e[k + 1] => ~Less(e, d)
    <2>1. Same(d, s, k) => Same(d, e, k)
        BY <1>3 DEF Same
    <2>2. Same(d, s, k) /\ d[k + 1] < e[k + 1] => Parts(d, e, k + 1)
        BY <1>1, <2>1 DEF Parts
    <2>3. k + 1 \in 1..L
        BY <1>1
    <2> QED BY <1>5, <2>2, <2>3
<1>14. Same(d, s, k) /\ s[k + 1] < d[k + 1] => ~Less(d, s)
    <2>1. Same(d, s, k) => Same(s, d, k)
        BY DEF Same
    <2>2. Same(d, s, k) /\ s[k + 1] < d[k + 1] => Parts(s, d, k + 1)
        BY <1>1, <2>1 DEF Parts
    <2>3. k + 1 \in 1..K
        BY <1>1
    <2> QED BY <1>4, <2>2, <2>3
<1>15. \A l \in 1..NumDigits : Low(l) => ~Less(d, s) /\ ~Less(e, d)
    <2> TAKE l \in 1..NumDigits
    <2>1. Low(l) => ~Less(d, s)
        <3>1. k + 2..K \subseteq 1..K
            BY <1>1
        <3> QED BY <1>4, <3>1
    <2> HIDE DEF Low
    <2> QED BY <1>3, <1>7, <1>13, <2>1
<1>16. \A l \in 1..NumDigits : Top(l) => ~Less(d, s) /\ ~Less(e, d)
    <2> TAKE l \in 1..NumDigits
    <2>1. Top(l) => ~Less(e, d)
        <3>1. k + 2..L \subseteq 1..L
            BY <1>1
        <3> QED BY <1>5, <3>1
    <2> HIDE DEF Top
    <2> QED BY <1>3, <1>8, <1>14, <2>1
<1>17. \A l \in 1..NumDigits : Mid(l) => ~Less(d, s) /\ ~Less(e, d)
    <2> HIDE DEF Mid
    <2> QED BY <1>9, <1>13, <1>14
\* What lies between is grouped.
<1>18. ASSUME ~Less(d, s), ~Less(e, d) PROVE \E l \in 1..NumDigits : Low(l) \/ Top(l) \/ Mid(l)
    <2>1. CASE Same(d, s, K)
        BY <1>1, <2>1
    <2>2. CASE Same(d, e, L)
        BY <1>1, <2>2
    <2>3. CASE ~Same(d, s, K) /\ ~Same(d, e, L)
        <3>1. PICK l \in 1..K : Parts(s, d, l)
            BY <1>4, <1>18, <2>3
        <3>2. PICK m \in 1..L : Parts(d, e, m)
            BY <1>5, <1>18, <2>3
        <3>3. l \in 1..NumDigits /\ m \in 1..NumDigits
            BY <1>1
        <3>4. l \in k + 2..K => Low(l)
            BY <3>1
        <3>5. m \in k + 2..L => Top(m)
            BY <3>2
        <3>6. l <= k => FALSE
            <4> SUFFICES ASSUME l <= k PROVE FALSE
                OBVIOUS
            <4>1. d[l] > s[l] /\ s[l] = e[l] /\ \A i \in 1..l - 1 : d[i] = e[i]
                BY <1>1, <1>2, <1>3, <3>1, <3>3 DEF Parts, Same
            <4>2. m < l => FALSE
                BY <1>2, <3>2, <3>3, <4>1 DEF Parts
            <4>3. m = l => FALSE
                BY <1>2, <3>2, <3>3, <4>1 DEF Parts
            <4>4. l < m => FALSE
                <5>1. l < m => l \in 1..m - 1
                    BY <3>3
                <5> QED BY <1>2, <3>2, <3>3, <4>1, <5>1 DEF Parts, Same
            <4> QED BY <3>3, <4>2, <4>3, <4>4
        <3>7. m <= k => FALSE
            <4> SUFFICES ASSUME m <= k PROVE FALSE
                OBVIOUS
            <4>1. d[m] < s[m] /\ \A i \in 1..m - 1 : d[i] = s[i]
                BY <1>1, <1>2, <1>3, <3>2, <3>3 DEF Parts, Same
            <4>2. l < m => FALSE
                BY <1>2, <3>1, <3>3, <4>1 DEF Parts
            <4>3. m = l => FALSE
                BY <1>2, <3>1, <3>3, <4>1 DEF Parts
            <4>4. m < l => FALSE
                <5>1. m < l => m \in 1..l - 1
                    BY <3>3
                <5> QED BY <1>2, <3>1, <3>3, <4>1, <5>1 DEF Parts, Same
            <4> QED BY <3>3, <4>2, <4>3, <4>4
        <3>8. l = k + 1 /\ m = k + 1 => Mid(k + 1)
            BY <3>1, <3>2
        <3>9. (l \in k + 2..K \/ l = k + 1) /\ (m \in k + 2..L \/ m = k + 1)
            BY <1>1, <3>6, <3>7
        <3> HIDE DEF Low, Top, Mid
        <3> QED BY <1>1, <3>3, <3>4, <3>5, <3>8, <3>9
    <2> QED BY <2>1, <2>2, <2>3
<1> HIDE DEF Low, Top, Mid
<1> QED BY <1>6, <1>12, <1>15, <1>16, <1>17, <1>18
-----------------------------------------------------------------------------
\* Rows of digits as words.
Digit == 0..Base - 1
Word == Seq(Digit)
Prefix(d, l) == SubSeq(d, 1, l)
Spelt(w, d, l) == Len(w) = l /\ \A i \in 1..l : w[i] = d[i]

\* The first digits of a row are a word.
LEMMA PrefixIs ==
    ASSUME NEW d \in Digits, NEW l \in 0..NumDigits
    PROVE  /\ Prefix(d, l) \in Word /\ Spelt(Prefix(d, l), d, l)
           /\ \A w \in Word : Prefix(d, l) = w <=> Spelt(w, d, l)
<1>1. l \in Nat /\ \A i \in 1..l : d[i] \in Digit
    BY DigitsAssumption DEF Digits, Digit
<1>2. SubSeq(d, 1, l) \in Word /\ Len(SubSeq(d, 1, l)) = l /\ \A i \in 1..l : SubSeq(d, 1, l)[i] = d[i]
    <2>1. /\ SubSeq(d, 1, l) \in Seq(Digit) /\ Len(SubSeq(d, 1, l)) = IF 1 <= l THEN l - 1 + 1 ELSE 0
          /\ \A i \in 1..l - 1 + 1 : SubSeq(d, 1, l)[i] = d[1 + i - 1]
        BY <1>1, SubSeqProperties
    <2> QED BY <1>1, <2>1 DEF Word
<1>3. \A w \in Word : Spelt(w, d, l) => Prefix(d, l) = w
    <2> SUFFICES ASSUME NEW w \in Word, Spelt(w, d, l) PROVE SubSeq(d, 1, l) = w
        BY DEF Prefix
    <2>1. Len(SubSeq(d, 1, l)) = Len(w) /\ \A i \in 1..Len(SubSeq(d, 1, l)) : SubSeq(d, 1, l)[i] = w[i]
        BY <1>2 DEF Spelt
    <2> QED BY <1>2, <2>1, SeqEqual DEF Word
<1> QED BY <1>2, <1>3 DEF Prefix, Spelt

\* What is left of a row after k digits.
LEMMA Tails ==
    ASSUME NEW a \in Digits, NEW k \in 0..NumDigits - 1
    PROVE  /\ SubSeq(a, k + 1, NumDigits) \in Word /\ Len(SubSeq(a, k + 1, NumDigits)) = NumDigits - k
           /\ \A i \in 1..NumDigits - k : SubSeq(a, k + 1, NumDigits)[i] = a[k + i]
<1>1. k + 1 \in Int /\ NumDigits \in Int /\ \A i \in k + 1..NumDigits : a[i] \in Digit
    BY DigitsAssumption DEF Digits, Digit
<1>2. /\ SubSeq(a, k + 1, NumDigits) \in Seq(Digit)
      /\ Len(SubSeq(a, k + 1, NumDigits)) = IF k + 1 <= NumDigits THEN NumDigits - (k + 1) + 1 ELSE 0
      /\ \A i \in 1..NumDigits - (k + 1) + 1 : SubSeq(a, k + 1, NumDigits)[i] = a[k + 1 + i - 1]
    BY <1>1, SubSeqProperties
<1> QED BY <1>1, <1>2 DEF Word

\* Two words that follow each other spell a row.
LEMMA Joins ==
    ASSUME NEW u \in Word, NEW v \in Word
    PROVE  /\ u \o v \in Word /\ Len(u \o v) = Len(u) + Len(v) /\ Len(u) \in Nat /\ Len(v) \in Nat
           /\ \A i \in 1..Len(u) : (u \o v)[i] = u[i]
           /\ \A i \in 1..Len(v) : (u \o v)[Len(u) + i] = v[i]
<1>1. Len(u) \in Nat /\ Len(v) \in Nat
    BY LenProperties DEF Word
<1>2. /\ u \o v \in Word /\ Len(u \o v) = Len(u) + Len(v)
      /\ \A i \in 1..Len(u) + Len(v) : (u \o v)[i] = IF i <= Len(u) THEN u[i] ELSE v[i - Len(u)]
    BY ConcatProperties DEF Word
<1> DEFINE m == Len(u)
           n == Len(v)
           c == u \o v
<1>3. m \in Nat /\ n \in Nat /\ \A i \in 1..m + n : c[i] = IF i <= m THEN u[i] ELSE v[i - m]
    BY <1>1, <1>2
<1> HIDE DEF m, n, c
<1>4. \A i \in 1..m : c[i] = u[i]
    BY <1>3
<1>5. \A i \in 1..n : c[m + i] = v[i]
    <2> SUFFICES ASSUME NEW i \in 1..n PROVE c[m + i] = v[i]
        OBVIOUS
    <2>1. m + i \in 1..m + n /\ ~(m + i <= m) /\ (m + i) - m = i
        BY <1>3
    <2> QED BY <1>3, <2>1
<1> QED BY <1>1, <1>2, <1>4, <1>5 DEF m, n, c

\* A word with one more digit.
LEMMA Adds ==
    ASSUME NEW u \in Word, NEW n \in Digit
    PROVE  /\ Append(u, n) \in Word /\ Len(Append(u, n)) = Len(u) + 1 /\ Len(u) \in Nat
           /\ (\A i \in 1..Len(u) : Append(u, n)[i] = u[i]) /\ Append(u, n)[Len(u) + 1] = n
BY AppendProperties, LenProperties DEF Word

\* a prefix of a, and after it digits of a, to position q of what is left
Cut(a, k, q) == Prefix(a, k) \o SubSeq(SubSeq(a, k + 1, NumDigits), 1, q)
\* ... or to the one before and then another digit
Fork(a, k, q, n) == Prefix(a, k) \o Append(SubSeq(SubSeq(a, k + 1, NumDigits), 1, q - 1), n)

\* How a Cut is spelt.
LEMMA CutIs ==
    ASSUME NEW a \in Digits, NEW k \in 0..NumDigits - 1, NEW q \in 0..NumDigits - k
    PROVE  /\ SubSeq(SubSeq(a, k + 1, NumDigits), 1, q) \in Word
           /\ Cut(a, k, q) \in Word /\ Spelt(Cut(a, k, q), a, k + q)
<1> DEFINE t == SubSeq(a, k + 1, NumDigits)
           v == SubSeq(t, 1, q)
           u == Prefix(a, k)
<1>1. k \in Nat /\ q \in Nat /\ k \in 0..NumDigits /\ NumDigits \in Nat
    BY DigitsAssumption
<1>2. t \in Word /\ Len(t) = NumDigits - k /\ \A i \in 1..NumDigits - k : t[i] = a[k + i]
    BY Tails
<1>3. u \in Word /\ Len(u) = k /\ \A i \in 1..k : u[i] = a[i]
    BY <1>1, PrefixIs DEF Spelt
<1> HIDE DEF t, u
<1>4. v \in Word /\ Len(v) = q /\ \A i \in 1..q : v[i] = a[k + i]
    <2>1. \A i \in 1..q : t[i] \in Digit
        <3>1. \A i \in 1..Len(t) : t[i] \in Digit
            BY <1>2, ElementOfSeq DEF Word
        <3> QED BY <1>1, <1>2, <3>1
    <2>2. /\ SubSeq(t, 1, q) \in Seq(Digit) /\ Len(SubSeq(t, 1, q)) = IF 1 <= q THEN q - 1 + 1 ELSE 0
          /\ \A i \in 1..q - 1 + 1 : SubSeq(t, 1, q)[i] = t[1 + i - 1]
        BY <1>1, <2>1, SubSeqProperties
    <2>3. \A i \in 1..q : v[i] = t[i]
        BY <1>1, <2>2
    <2>4. \A i \in 1..q : t[i] = a[k + i]
        BY <1>1, <1>2
    <2> QED BY <1>1, <2>2, <2>3, <2>4 DEF Word
<1> HIDE DEF v
<1>5. /\ u \o v \in Word /\ Len(u \o v) = k + q
      /\ (\A i \in 1..k : (u \o v)[i] = u[i]) /\ \A i \in 1..q : (u \o v)[k + i] = v[i]
    BY <1>3, <1>4, Joins
<1>6. \A i \in 1..k + q : (u \o v)[i] = a[i]
    <2> SUFFICES ASSUME NEW i \in 1..k + q PROVE (u \o v)[i] = a[i]
        OBVIOUS
    <2>1. CASE i <= k
        BY <1>3, <1>5, <2>1
    <2>2. CASE i > k
        <3>1. i - k \in 1..q /\ k + (i - k) = i
            BY <1>1, <2>2
        <3>2. (u \o v)[k + (i - k)] = v[i - k]
            BY <1>5, <3>1
        <3> QED BY <1>4, <3>1, <3>2
    <2>3. i <= k \/ i > k
        BY <1>1
    <2> QED BY <2>1, <2>2, <2>3
<1> QED BY <1>4, <1>5, <1>6 DEF Cut, Spelt, t, u, v

\* How a Fork is spelt.
LEMMA ForkIs ==
    ASSUME NEW a \in Digits, NEW k \in 0..NumDigits - 1, NEW q \in 1..NumDigits - k, NEW n \in Digit
    PROVE  /\ Fork(a, k, q, n) \in Word /\ Len(Fork(a, k, q, n)) = k + q
           /\ (\A i \in 1..k + q - 1 : Fork(a, k, q, n)[i] = a[i]) /\ Fork(a, k, q, n)[k + q] = n
<1> DEFINE t == SubSeq(a, k + 1, NumDigits)
           v == SubSeq(t, 1, q - 1)
           w == Append(v, n)
           u == Prefix(a, k)
<1>1. k \in Nat /\ q \in Nat \ {0} /\ k \in 0..NumDigits /\ q - 1 \in 0..NumDigits - k /\ NumDigits \in Nat
    BY DigitsAssumption
<1>2. u \in Word /\ Len(u) = k
    BY <1>1, PrefixIs DEF Spelt
<1>3. v \in Word
    BY <1>1, CutIs
<1>4. u \o v \in Word /\ Len(u \o v) = k + (q - 1) /\ \A i \in 1..k + (q - 1) : (u \o v)[i] = a[i]
    BY <1>1, CutIs DEF Spelt, Cut
<1> HIDE DEF u, v
<1>5. /\ Len(u \o v) = Len(u) + Len(v) /\ Len(v) \in Nat
      /\ (\A i \in 1..Len(u) : (u \o v)[i] = u[i]) /\ \A i \in 1..Len(v) : (u \o v)[Len(u) + i] = v[i]
    BY <1>2, <1>3, Joins
<1>6. Len(v) = q - 1
    BY <1>1, <1>2, <1>4, <1>5
<1>7. w \in Word /\ Len(w) = q /\ (\A i \in 1..q - 1 : w[i] = v[i]) /\ w[q] = n
    <2>1. Len(v) + 1 = q
        BY <1>1, <1>6
    <2> QED BY <1>3, <1>6, <2>1, Adds
<1> HIDE DEF w
<1>8. /\ u \o w \in Word /\ Len(u \o w) = k + q
      /\ (\A i \in 1..k : (u \o w)[i] = u[i]) /\ \A i \in 1..q : (u \o w)[k + i] = w[i]
    BY <1>2, <1>7, Joins
<1>9. \A i \in 1..k + q - 1 : (u \o w)[i] = a[i]
    <2> SUFFICES ASSUME NEW i \in 1..k + q - 1 PROVE (u \o w)[i] = (u \o v)[i]
        BY <1>1, <1>4
    <2>1. CASE i <= k
        BY <1>1, <1>2, <1>5, <1>8, <2>1
    <2>2. CASE i > k
        <3> DEFINE j == i - k
        <3>1. j \in 1..q - 1 /\ j \in 1..q /\ k + j = i
            BY <1>1, <2>2
        <3> HIDE DEF j
        <3>2. (u \o w)[i] = w[j] /\ (u \o v)[i] = v[j]
            BY <1>2, <1>5, <1>6, <1>8, <3>1
        <3> QED BY <1>7, <3>1, <3>2
    <2>3. i <= k \/ i > k
        BY <1>1
    <2> QED BY <2>1, <2>2, <2>3
<1>10. (u \o w)[k + q] = n
    BY <1>1, <1>7, <1>8
<1> QED BY <1>8, <1>9, <1>10 DEF Fork, t, u, v, w
-----------------------------------------------------------------------------
\* groupByIgnoringDigits.
LEMMA InCommonIs ==
    ASSUME NEW s \in Digits, NEW e \in Digits
    PROVE  LET k == InCommon(s, e)
           IN  k \in 0..NumDigits /\ Same(s, e, k) /\ (k < NumDigits => s[k + 1] # e[k + 1])
<1> DEFINE Is(k) == (\A i \in 1..k : s[i] = e[i]) /\ (k < NumDigits => s[k + 1] # e[k + 1])
<1>1. Len(s) = NumDigits /\ NumDigits \in Nat
    BY DigitsAssumption DEF Digits
<1>2. \E k \in 0..NumDigits : Is(k)
    <2>1. CASE s = e
        BY <1>1, <2>1
    <2>2. CASE s # e
        <3>1. PICK q \in 1..NumDigits : Same(s, e, q - 1) /\ s[q] # e[q]
            BY <2>2, FirstApart
        <3>2. q - 1 \in 0..NumDigits /\ (q - 1) + 1 = q
            BY <1>1
        <3>3. Is(q - 1)
            BY <3>1, <3>2 DEF Same
        <3> HIDE DEF Is
        <3> QED BY <3>2, <3>3
    <2> QED BY <2>1, <2>2
<1>3. InCommon(s, e) = CHOOSE k \in 0..NumDigits : Is(k)
    BY <1>1 DEF InCommon
<1> HIDE DEF Is
<1>4. InCommon(s, e) \in 0..NumDigits /\ Is(InCommon(s, e))
    BY <1>2, <1>3
<1> QED BY <1>4 DEF Is, Same

\* LastNot is the last digit that differs from d, if there is one.
LEMMA LastNotIs ==
    ASSUME NEW w \in Word, NEW c \in Nat, ~All(w, c)
    PROVE  /\ LastNot(w, c) \in 1..Len(w)
           /\ \A q \in LastNot(w, c) + 1..Len(w) : w[q] = c
<1> DEFINE Is(p) == w[p] # c /\ \A q \in p + 1..Len(w) : w[q] = c
           T == {Len(w) - p : p \in {i \in 1..Len(w) : w[i] # c}}
<1>1. Len(w) \in Nat /\ DOMAIN w = 1..Len(w)
    BY LenProperties DEF Word
<1>2. \E p \in 1..Len(w) : Is(p)
    <2>1. T \in SUBSET Nat
        BY <1>1
    <2>2. T # {}
        BY <1>1 DEF All
    <2> HIDE DEF T
    <2>3. PICK n \in T : \A m \in T : n <= m
        BY <2>1, <2>2, Least
    <2>4. PICK p \in 1..Len(w) : w[p] # c /\ n = Len(w) - p
        BY <2>3 DEF T
    <2>5. \A q \in p + 1..Len(w) : w[q] = c
        <3> SUFFICES ASSUME NEW q \in p + 1..Len(w), w[q] # c PROVE FALSE
            OBVIOUS
        <3>1. Len(w) - q \in T
            BY <1>1, <2>4 DEF T
        <3> QED BY <1>1, <2>3, <2>4, <3>1
    <2> QED BY <2>4, <2>5
<1>3. LastNot(w, c) = CHOOSE p \in 1..Len(w) : Is(p)
    BY <1>1 DEF LastNot
<1> HIDE DEF Is
<1>4. LastNot(w, c) \in 1..Len(w) /\ Is(LastNot(w, c))
    BY <1>2, <1>3
<1> QED BY <1>4 DEF Is

\* No digit is below the first.
LEMMA FirstOnly ==
    ASSUME NEW w \in Word, Len(w) >= 1
    PROVE  SubSeq(w, 1, 1) = <<w[1]>>
<1>1. w[1] \in Digit
    BY LenProperties, ElementOfSeq DEF Word
<1>2. \A i \in 1..1 : w[i] \in Digit
    BY <1>1
<1>3. /\ SubSeq(w, 1, 1) \in Seq(Digit) /\ Len(SubSeq(w, 1, 1)) = IF 1 <= 1 THEN 1 - 1 + 1 ELSE 0
      /\ \A i \in 1..1 - 1 + 1 : SubSeq(w, 1, 1)[i] = w[1 + i - 1]
    BY <1>2, SubSeqProperties
<1>4. Len(SubSeq(w, 1, 1)) = 1 /\ SubSeq(w, 1, 1)[1] = w[1]
    BY <1>3
<1>5. <<w[1]>> \in Seq(Digit) /\ Len(<<w[1]>>) = 1 /\ <<w[1]>>[1] = w[1]
    BY <1>1
<1> DEFINE u == SubSeq(w, 1, 1)
           v == <<w[1]>>
<1>6. u \in Seq(Digit) /\ v \in Seq(Digit) /\ Len(u) = Len(v) /\ \A i \in 1..Len(u) : u[i] = v[i]
    BY <1>3, <1>4, <1>5
<1> HIDE DEF u, v
<1>7. u = v
    BY <1>6, SeqEqual
<1> QED BY <1>7 DEF u, v

\* Zeros at the end, or digits that cannot go up, make no groups of their own.
LEMMA FrontIs ==
    ASSUME NEW w \in Word, Len(w) >= 1
    PROVE  \E P \in 1..Len(w) :
             /\ \A q \in P + 1..Len(w) : w[q] = 0
             /\ FrontGroupings(w) =
                  {SubSeq(w, 1, P)} \union UNION {{Append(SubSeq(w, 1, q - 1), n) : n \in w[q] + 1..Base - 1} : q \in 2..P}
<1>1. Len(w) \in Nat /\ DOMAIN w = 1..Len(w)
    BY LenProperties DEF Word
<1>2. CASE All(w, 0)
    <2>1. FrontGroupings(w) = {<<0>>}
        BY <1>2 DEF FrontGroupings
    <2>2. w[1] = 0 /\ \A q \in 2..Len(w) : w[q] = 0
        BY <1>1, <1>2 DEF All
    <2>3. SubSeq(w, 1, 1) = <<w[1]>>
        BY FirstOnly
    <2>4. UNION {{Append(SubSeq(w, 1, q - 1), n) : n \in w[q] + 1..Base - 1} : q \in 2..1} = {}
        OBVIOUS
    <2>5. 1 \in 1..Len(w) /\ 1 + 1 = 2
        BY <1>1
    <2> QED BY <2>1, <2>2, <2>3, <2>4, <2>5
<1>3. CASE ~All(w, 0)
    <2> DEFINE P == LastNot(w, 0)
    <2>1. P \in 1..Len(w) /\ \A q \in P + 1..Len(w) : w[q] = 0
        BY <1>3, LastNotIs
    <2>2. FrontGroupings(w) =
            {SubSeq(w, 1, P)} \union UNION {{Append(SubSeq(w, 1, q - 1), n) : n \in w[q] + 1..Base - 1} : q \in 2..P}
        BY <1>3 DEF FrontGroupings, Beside
    <2> HIDE DEF P
    <2> QED BY <2>1, <2>2
<1> QED BY <1>2, <1>3

\* The same for the end of the range.
LEMMA BackIs ==
    ASSUME NEW w \in Word, Len(w) >= 1
    PROVE  \E P \in 1..Len(w) :
             /\ \A q \in P + 1..Len(w) : w[q] = Base - 1
             /\ BackGroupings(w) =
                  {SubSeq(w, 1, P)} \union UNION {{Append(SubSeq(w, 1, q - 1), n) : n \in 0..w[q] - 1} : q \in 2..P}
<1>1. Len(w) \in Nat /\ DOMAIN w = 1..Len(w)
    BY LenProperties DEF Word
<1>2. CASE All(w, Base - 1)
    <2>1. BackGroupings(w) = {<<Base - 1>>}
        BY <1>2 DEF BackGroupings
    <2>2. w[1] = Base - 1 /\ \A q \in 2..Len(w) : w[q] = Base - 1
        BY <1>1, <1>2 DEF All
    <2>3. SubSeq(w, 1, 1) = <<w[1]>>
        BY FirstOnly
    <2>4. UNION {{Append(SubSeq(w, 1, q - 1), n) : n \in 0..w[q] - 1} : q \in 2..1} = {}
        OBVIOUS
    <2>5. 1 \in 1..Len(w) /\ 1 + 1 = 2
        BY <1>1
    <2> QED BY <2>1, <2>2, <2>3, <2>4, <2>5
<1>3. CASE ~All(w, Base - 1)
    <2> DEFINE P == LastNot(w, Base - 1)
    <2>1. P \in 1..Len(w) /\ \A q \in P + 1..Len(w) : w[q] = Base - 1
        <3>1. Base - 1 \in Nat
            BY DigitsAssumption
        <3> QED BY <1>3, <3>1, LastNotIs
    <2>2. BackGroupings(w) =
            {SubSeq(w, 1, P)} \union UNION {{Append(SubSeq(w, 1, q - 1), n) : n \in 0..w[q] - 1} : q \in 2..P}
        BY <1>3 DEF BackGroupings, Beside
    <2> HIDE DEF P
    <2> QED BY <2>1, <2>2
<1> QED BY <1>2, <1>3

\* The words of G are prefixes of what lies between s and e, and each such row of
\* digits has exactly one.
Exact(G, s, e) ==
  /\ \A w \in G : w \in Word /\ Len(w) \in 1..NumDigits
  /\ \A d \in Digits :
       /\ (~Less(d, s) /\ ~Less(e, d)) <=> \E l \in 1..NumDigits : Prefix(d, l) \in G
       /\ \A l, m \in 1..NumDigits : Prefix(d, l) \in G /\ Prefix(d, m) \in G => l = m

\* What shows that G is such a set.
LEMMA ExactIf ==
    ASSUME NEW s \in Digits, NEW e \in Digits, NEW k, NEW K, NEW L, Between2(s, e, k, K, L), NEW G,
           \A w \in G : w \in Word /\ Len(w) \in 1..NumDigits,
           \A d \in Digits : \A l \in 1..NumDigits : Prefix(d, l) \in G <=> Grouped(d, l, s, e, k, K, L)
    PROVE  Exact(G, s, e)
<1> SUFFICES ASSUME NEW d \in Digits
             PROVE  /\ (~Less(d, s) /\ ~Less(e, d)) <=> \E l \in 1..NumDigits : Prefix(d, l) \in G
                    /\ \A l, m \in 1..NumDigits : Prefix(d, l) \in G /\ Prefix(d, m) \in G => l = m
    BY Zenon DEF Exact
<1>1. /\ (~Less(d, s) /\ ~Less(e, d)) <=> \E l \in 1..NumDigits : Grouped(d, l, s, e, k, K, L)
      /\ \A l, m \in 1..NumDigits : Grouped(d, l, s, e, k, K, L) /\ Grouped(d, m, s, e, k, K, L) => l = m
    BY GroupedExactly
<1> QED BY <1>1

\* One outcome, or all below a prefix.
LEMMA ExactOne ==
    ASSUME NEW s \in Digits
    PROVE  Exact({Prefix(s, NumDigits)}, s, s)
<1>0. NumDigits \in 1..NumDigits /\ NumDigits \in 0..NumDigits
    BY DigitsAssumption
<1>1. Prefix(s, NumDigits) \in Word /\ Spelt(Prefix(s, NumDigits), s, NumDigits)
    BY <1>0, PrefixIs
<1>2. \A d \in Digits : ~Less(d, s) /\ ~Less(s, d) <=> d = s
    BY Ordered
<1>3. \A d \in Digits : \A l \in 1..NumDigits : Prefix(d, l) = Prefix(s, NumDigits) <=> l = NumDigits /\ d = s
    <2> SUFFICES ASSUME NEW d \in Digits, NEW l \in 1..NumDigits, Prefix(d, l) = Prefix(s, NumDigits)
                 PROVE  l = NumDigits /\ d = s
        OBVIOUS
    <2>1. Spelt(Prefix(d, l), d, l)
        BY <1>0, PrefixIs
    <2>2. l = NumDigits /\ \A i \in 1..NumDigits : d[i] = s[i]
        BY <1>1, <2>1 DEF Spelt
    <2>3. d = [i \in 1..NumDigits |-> d[i]] /\ s = [i \in 1..NumDigits |-> s[i]]
        BY DEF Digits
    <2> QED BY <2>2, <2>3
<1> QED BY <1>0, <1>1, <1>2, <1>3 DEF Exact, Spelt

\* All outcomes below a prefix.
LEMMA ExactTree ==
    ASSUME NEW s \in Digits, NEW e \in Digits, NEW k \in 1..NumDigits - 1, Same(s, e, k), s[k + 1] < e[k + 1],
           \A j \in k + 1..NumDigits : s[j] = 0 /\ e[j] = Base - 1
    PROVE  Exact({Prefix(s, k)}, s, e)
<1>0. k \in 0..NumDigits /\ k \in 1..NumDigits /\ k \in Nat
    BY DigitsAssumption
<1>1. Prefix(s, k) \in Word /\ Spelt(Prefix(s, k), s, k)
    BY <1>0, PrefixIs
<1>2. ASSUME NEW d \in Digits PROVE ~Less(d, s) /\ ~Less(e, d) <=> Same(d, s, k)
    <2>1. /\ ~Less(d, s) <=> Same(d, s, k) \/ \E l \in 1..k : Parts(s, d, l)
          /\ ~Less(e, d) <=> Same(d, e, k) \/ \E l \in 1..k : Parts(d, e, l)
        BY <1>0, NotBefore, NotAfter
    <2>2. Same(d, e, k) <=> Same(d, s, k)
        BY DEF Same
    <2>3. ASSUME NEW l \in 1..k, NEW m \in 1..k, Parts(s, d, l), Parts(d, e, m) PROVE FALSE
        <3>1. \A q \in 1..k : s[q] \in Int /\ d[q] \in Int /\ e[q] = s[q]
            BY <1>0, DigitsAssumption DEF Digits, Same
        <3>2. \A i \in 1..l - 1 : s[i] = d[i]
            BY <2>3 DEF Parts, Same
        <3>3. \A i \in 1..m - 1 : d[i] = e[i]
            BY <2>3 DEF Parts, Same
        <3>4. s[l] < d[l] /\ d[m] < e[m]
            BY <2>3 DEF Parts
        <3>5. l < m => l \in 1..m - 1
            OBVIOUS
        <3>6. m < l => m \in 1..l - 1
            OBVIOUS
        <3> QED BY <3>1, <3>2, <3>3, <3>4, <3>5, <3>6
    <2> QED BY <2>1, <2>2, <2>3
<1>3. \A d \in Digits : \A l \in 1..NumDigits : Prefix(d, l) = Prefix(s, k) <=> l = k /\ Same(d, s, k)
    <2> TAKE d \in Digits
    <2> TAKE l \in 1..NumDigits
    <2>1. Prefix(d, l) = Prefix(s, k) <=> Spelt(Prefix(s, k), d, l)
        BY <1>0, <1>1, PrefixIs
    <2>2. Spelt(Prefix(s, k), d, l) <=> l = k /\ Same(d, s, k)
        BY <1>1 DEF Spelt, Same
    <2> QED BY <2>1, <2>2
<1> QED BY <1>0, <1>1, <1>2, <1>3 DEF Exact, Spelt
\* Groups that begin with the k digits s and e have in common.
LEMMA Within3 ==
    ASSUME NEW s \in Digits, NEW e \in Digits, NEW k \in 0..NumDigits - 1, Same(s, e, k), s[k + 1] < e[k + 1]
    PROVE  LET prefix == Prefix(s, k)
               tail == SubSeq(s, k + 1, NumDigits)
               to == SubSeq(e, k + 1, NumDigits)
           IN  Exact({prefix \o g : g \in FrontGroupings(tail) \union BackGroupings(to)
                                            \union MiddleGroupings(tail[1], to[1])}, s, e)
<1> DEFINE prefix == Prefix(s, k)
           tail == SubSeq(s, k + 1, NumDigits)
           to == SubSeq(e, k + 1, NumDigits)
           A == FrontGroupings(tail)
           B == BackGroupings(to)
           C == MiddleGroupings(tail[1], to[1])
           G == {prefix \o g : g \in A \union B \union C}
           M == NumDigits - k
<1>0. /\ k \in Nat /\ M \in Nat \ {0} /\ 1 \in 1..M /\ k + M = NumDigits /\ NumDigits \in Nat \ {0}
      /\ k + 1 \in 1..NumDigits /\ k \in 0..NumDigits
    BY DigitsAssumption
<1>1. /\ tail \in Word /\ Len(tail) = M /\ \A i \in 1..M : tail[i] = s[k + i]
      /\ to \in Word /\ Len(to) = M /\ \A i \in 1..M : to[i] = e[k + i]
    BY Tails
<1>2. prefix = Prefix(e, k)
    <2>1. Prefix(s, k) \in Word /\ Prefix(e, k) \in Word /\ Spelt(Prefix(s, k), s, k) /\ Spelt(Prefix(e, k), e, k)
        BY <1>0, PrefixIs
    <2>2. Len(Prefix(s, k)) = Len(Prefix(e, k)) /\ \A i \in 1..Len(Prefix(s, k)) : Prefix(s, k)[i] = Prefix(e, k)[i]
        BY <2>1 DEF Spelt, Same
    <2> QED BY <2>1, <2>2, SeqEqual DEF Word
<1>3. PICK P \in 1..M :
        /\ \A q \in P + 1..M : tail[q] = 0
        /\ A = {SubSeq(tail, 1, P)} \union UNION {{Append(SubSeq(tail, 1, q - 1), n) : n \in tail[q] + 1..Base - 1} : q \in 2..P}
    <2>1. Len(tail) >= 1
        BY <1>0, <1>1
    <2> HIDE DEF tail, M
    <2> QED BY <1>1, <2>1, FrontIs
<1>4. PICK Q \in 1..M :
        /\ \A q \in Q + 1..M : to[q] = Base - 1
        /\ B = {SubSeq(to, 1, Q)} \union UNION {{Append(SubSeq(to, 1, q - 1), n) : n \in 0..to[q] - 1} : q \in 2..Q}
    <2>1. Len(to) >= 1
        BY <1>0, <1>1
    <2> HIDE DEF to, M
    <2> QED BY <1>1, <2>1, BackIs
<1> DEFINE K == k + P
           L == k + Q
<1>5. Between2(s, e, k, K, L)
    <2>1. K \in k + 1..NumDigits /\ L \in k + 1..NumDigits
        BY <1>0
    <2>2. \A j \in K + 1..NumDigits : s[j] = 0
        <3> SUFFICES ASSUME NEW j \in K + 1..NumDigits PROVE s[j] = 0
            OBVIOUS
        <3>1. j - k \in P + 1..M /\ j - k \in 1..M /\ k + (j - k) = j
            BY <1>0
        <3> QED BY <1>1, <1>3, <3>1
    <2>3. \A j \in L + 1..NumDigits : e[j] = Base - 1
        <3> SUFFICES ASSUME NEW j \in L + 1..NumDigits PROVE e[j] = Base - 1
            OBVIOUS
        <3>1. j - k \in Q + 1..M /\ j - k \in 1..M /\ k + (j - k) = j
            BY <1>0
        <3> QED BY <1>1, <1>4, <3>1
    <2> QED BY <2>1, <2>2, <2>3 DEF Between2
\* The words of the three kinds.
<1> DEFINE InA(w) == w = Cut(s, k, P) \/ \E q \in 2..P : \E n \in s[k + q] + 1..Base - 1 : w = Fork(s, k, q, n)
           InB(w) == w = Cut(e, k, Q) \/ \E q \in 2..Q : \E n \in 0..e[k + q] - 1 : w = Fork(e, k, q, n)
           InC(w) == \E n \in s[k + 1] + 1..e[k + 1] - 1 : w = prefix \o <<n>>
<1>6. \A w : (\E g \in A : w = prefix \o g) <=> InA(w)
    <2>1. \A q \in 2..P : tail[q] = s[k + q]
        BY <1>1, <1>0
    <2>2. \A g : g \in A <=> \/ g = SubSeq(tail, 1, P)
                               \/ \E q \in 2..P : \E n \in s[k + q] + 1..Base - 1 : g = Append(SubSeq(tail, 1, q - 1), n)
        <3> HIDE DEF A, tail
        <3>1. \A g : g \in A <=> \/ g = SubSeq(tail, 1, P)
                                \/ \E q \in 2..P : \E n \in tail[q] + 1..Base - 1 : g = Append(SubSeq(tail, 1, q - 1), n)
            BY <1>3
        <3> QED BY <2>1, <3>1
    <2>3. Cut(s, k, P) = prefix \o SubSeq(tail, 1, P)
        BY DEF Cut
    <2>4. \A q, n : Fork(s, k, q, n) = prefix \o Append(SubSeq(tail, 1, q - 1), n)
        BY DEF Fork
    <2> HIDE DEF A, tail, prefix
    <2> SUFFICES ASSUME NEW w PROVE (\E g \in A : w = prefix \o g) <=> InA(w)
        OBVIOUS
    <2>5. ASSUME NEW g \in A, w = prefix \o g PROVE InA(w)
        <3>1. CASE g = SubSeq(tail, 1, P)
            BY <2>3, <2>5, <3>1
        <3>2. ASSUME NEW q \in 2..P, NEW n \in s[k + q] + 1..Base - 1, g = Append(SubSeq(tail, 1, q - 1), n)
              PROVE  InA(w)
            <4>1. w = Fork(s, k, q, n)
                BY <2>4, <2>5, <3>2
            <4> QED BY <4>1
        <3> QED BY <2>2, <2>5, <3>1, <3>2
    <2>6. CASE w = Cut(s, k, P)
        BY <2>2, <2>3, <2>6
    <2>7. ASSUME NEW q \in 2..P, NEW n \in s[k + q] + 1..Base - 1, w = Fork(s, k, q, n)
          PROVE  \E g \in A : w = prefix \o g
        <3>1. Append(SubSeq(tail, 1, q - 1), n) \in A
            BY <2>2
        <3> QED BY <2>4, <2>7, <3>1
    <2> QED BY <2>5, <2>6, <2>7
<1>7. \A w : (\E g \in B : w = prefix \o g) <=> InB(w)
    <2>1. \A q \in 2..Q : to[q] = e[k + q]
        BY <1>1, <1>0
    <2>2. \A g : g \in B <=> \/ g = SubSeq(to, 1, Q)
                               \/ \E q \in 2..Q : \E n \in 0..e[k + q] - 1 : g = Append(SubSeq(to, 1, q - 1), n)
        <3> HIDE DEF B, to
        <3>1. \A g : g \in B <=> \/ g = SubSeq(to, 1, Q)
                                \/ \E q \in 2..Q : \E n \in 0..to[q] - 1 : g = Append(SubSeq(to, 1, q - 1), n)
            BY <1>4
        <3> QED BY <2>1, <3>1
    <2>3. Cut(e, k, Q) = prefix \o SubSeq(to, 1, Q)
        BY <1>2 DEF Cut
    <2>4. \A q, n : Fork(e, k, q, n) = prefix \o Append(SubSeq(to, 1, q - 1), n)
        BY <1>2 DEF Fork
    <2> HIDE DEF B, to, prefix
    <2> SUFFICES ASSUME NEW w PROVE (\E g \in B : w = prefix \o g) <=> InB(w)
        OBVIOUS
    <2>5. ASSUME NEW g \in B, w = prefix \o g PROVE InB(w)
        <3>1. CASE g = SubSeq(to, 1, Q)
            BY <2>3, <2>5, <3>1
        <3>2. ASSUME NEW q \in 2..Q, NEW n \in 0..e[k + q] - 1, g = Append(SubSeq(to, 1, q - 1), n)
              PROVE  InB(w)
            <4>1. w = Fork(e, k, q, n)
                BY <2>4, <2>5, <3>2
            <4> QED BY <4>1
        <3> QED BY <2>2, <2>5, <3>1, <3>2
    <2>6. CASE w = Cut(e, k, Q)
        BY <2>2, <2>3, <2>6
    <2>7. ASSUME NEW q \in 2..Q, NEW n \in 0..e[k + q] - 1, w = Fork(e, k, q, n)
          PROVE  \E g \in B : w = prefix \o g
        <3>1. Append(SubSeq(to, 1, q - 1), n) \in B
            BY <2>2
        <3> QED BY <2>4, <2>7, <3>1
    <2> QED BY <2>5, <2>6, <2>7
<1>8. \A w : (\E g \in C : w = prefix \o g) <=> InC(w)
    <2>1. tail[1] = s[k + 1] /\ to[1] = e[k + 1]
        BY <1>0, <1>1
    <2>2. C = {<<d>> : d \in s[k + 1] + 1..e[k + 1] - 1}
        BY <2>1 DEF MiddleGroupings
    <2> HIDE DEF C, prefix
    <2> QED BY <2>2
<1>9. \A w : w \in G <=> InA(w) \/ InB(w) \/ InC(w)
    <2> HIDE DEF A, B, C, prefix, InA, InB, InC
    <2> QED BY <1>6, <1>7, <1>8
<1> HIDE DEF G, A, B, C
\* What they are made of.
<1>10. P \in Nat /\ Q \in Nat /\ P \in 0..M /\ Q \in 0..M /\ 2..P \subseteq 1..M /\ 2..Q \subseteq 1..M
    BY <1>0
<1>11. /\ \A i \in 1..NumDigits : s[i] \in Digit /\ e[i] \in Digit /\ s[i] \in Int /\ e[i] \in Int
       /\ Base \in Int
    BY DigitsAssumption DEF Digits, Digit
<1>12. /\ Cut(s, k, P) \in Word /\ Spelt(Cut(s, k, P), s, K)
       /\ Cut(e, k, Q) \in Word /\ Spelt(Cut(e, k, Q), e, L)
    BY <1>10, CutIs
<1>13. \A q \in 1..M, n \in Digit :
         /\ Fork(s, k, q, n) \in Word /\ Len(Fork(s, k, q, n)) = k + q
         /\ (\A i \in 1..k + q - 1 : Fork(s, k, q, n)[i] = s[i]) /\ Fork(s, k, q, n)[k + q] = n
         /\ Fork(e, k, q, n) \in Word /\ Len(Fork(e, k, q, n)) = k + q
         /\ (\A i \in 1..k + q - 1 : Fork(e, k, q, n)[i] = e[i]) /\ Fork(e, k, q, n)[k + q] = n
    BY ForkIs
<1>14. ASSUME NEW n \in Digit
       PROVE  /\ prefix \o <<n>> \in Word /\ Len(prefix \o <<n>>) = k + 1
              /\ (\A i \in 1..k : (prefix \o <<n>>)[i] = s[i]) /\ (prefix \o <<n>>)[k + 1] = n
    <2>1. prefix \in Word /\ Len(prefix) = k /\ \A i \in 1..k : prefix[i] = s[i]
        BY <1>0, PrefixIs DEF Spelt
    <2>2. <<n>> \in Word /\ Len(<<n>>) = 1 /\ <<n>>[1] = n
        BY DEF Word
    <2> HIDE DEF prefix
    <2> DEFINE v == <<n>>
    <2> HIDE DEF v
    <2>3. v \in Word /\ Len(v) = 1 /\ v[1] = n
        BY <2>2 DEF v
    <2>4. /\ prefix \o v \in Word /\ Len(prefix \o v) = k + 1
          /\ (\A i \in 1..k : (prefix \o v)[i] = prefix[i]) /\ \A i \in 1..1 : (prefix \o v)[k + i] = v[i]
        <3>1. /\ prefix \o v \in Word /\ Len(prefix \o v) = Len(prefix) + Len(v)
              /\ (\A i \in 1..Len(prefix) : (prefix \o v)[i] = prefix[i])
              /\ \A i \in 1..Len(v) : (prefix \o v)[Len(prefix) + i] = v[i]
            BY <2>1, <2>3, Joins
        <3> QED BY <2>1, <2>3, <3>1
    <2>5. prefix \o v \in Word /\ Len(prefix \o v) = k + 1 /\ (\A i \in 1..k : (prefix \o v)[i] = s[i]) /\ (prefix \o v)[k + 1] = n
        BY <2>1, <2>3, <2>4
    <2> QED BY <2>5 DEF v
<1>15. \A q \in 1..M : /\ s[k + q] + 1..Base - 1 \subseteq Digit /\ 0..e[k + q] - 1 \subseteq Digit
                       /\ k + q \in 1..NumDigits /\ k + q \in Nat
    BY <1>0, <1>11 DEF Digit
<1>16. s[k + 1] + 1..e[k + 1] - 1 \subseteq Digit
    BY <1>0, <1>11 DEF Digit
<1>17. \A w \in G : w \in Word /\ Len(w) \in 1..NumDigits
    <2> SUFFICES ASSUME NEW w \in G PROVE w \in Word /\ Len(w) \in 1..NumDigits
        OBVIOUS
    <2>1. CASE InA(w)
        <3>1. K \in 1..NumDigits
            BY <1>0
        <3>2. CASE w = Cut(s, k, P)
            <4> HIDE DEF K
            <4> QED BY <1>12, <3>1, <3>2 DEF Spelt
        <3>3. ASSUME NEW q \in 2..P, NEW n \in s[k + q] + 1..Base - 1, w = Fork(s, k, q, n)
              PROVE  w \in Word /\ Len(w) \in 1..NumDigits
            <4>1. q \in 1..M /\ n \in Digit
                BY <1>10, <1>15
            <4>2. k + q \in 1..NumDigits
                BY <1>15, <4>1
            <4> QED BY <1>13, <3>3, <4>1, <4>2
        <3> QED BY <2>1, <3>2, <3>3
    <2>2. CASE InB(w)
        <3>1. L \in 1..NumDigits
            BY <1>0
        <3>2. CASE w = Cut(e, k, Q)
            <4> HIDE DEF L
            <4> QED BY <1>12, <3>1, <3>2 DEF Spelt
        <3>3. ASSUME NEW q \in 2..Q, NEW n \in 0..e[k + q] - 1, w = Fork(e, k, q, n)
              PROVE  w \in Word /\ Len(w) \in 1..NumDigits
            <4>1. q \in 1..M /\ n \in Digit
                BY <1>10, <1>15
            <4>2. k + q \in 1..NumDigits
                BY <1>15, <4>1
            <4> QED BY <1>13, <3>3, <4>1, <4>2
        <3> QED BY <2>2, <3>2, <3>3
    <2>3. CASE InC(w)
        <3>1. PICK n \in Digit : w = prefix \o <<n>>
            BY <1>16, <2>3
        <3> HIDE DEF prefix
        <3>2. w \in Word /\ Len(w) = k + 1
            BY <1>14, <3>1
        <3> QED BY <1>0, <3>2
    <2> QED BY <1>9, <2>1, <2>2, <2>3
<1>18. ASSUME NEW d \in Digits, NEW l \in 1..NumDigits
       PROVE  Prefix(d, l) \in G <=> Grouped(d, l, s, e, k, K, L)
    <2> DEFINE w == Prefix(d, l)
    <2>1. /\ w \in Word /\ Spelt(w, d, l) /\ \A v \in Word : w = v <=> Spelt(v, d, l)
          /\ \A i \in 1..NumDigits : d[i] \in Digit /\ d[i] \in Int
        <3>1. l \in 0..NumDigits
            OBVIOUS
        <3>2. w \in Word /\ Spelt(w, d, l) /\ \A v \in Word : w = v <=> Spelt(v, d, l)
            BY <3>1, PrefixIs
        <3>3. \A i \in 1..NumDigits : d[i] \in 0..Base - 1
            BY DEF Digits
        <3>4. \A i \in 1..NumDigits : d[i] \in Digit /\ d[i] \in Int
            BY <3>3 DEF Digit
        <3> QED BY <3>2, <3>4
    <2> HIDE DEF w
    <2>2. w = Cut(s, k, P) <=> l = K /\ Same(d, s, K)
        <3>1. w = Cut(s, k, P) <=> Spelt(Cut(s, k, P), d, l)
            BY <1>12, <2>1
        <3> HIDE DEF K
        <3> QED BY <1>12, <3>1 DEF Spelt, Same
    <2>3. w = Cut(e, k, Q) <=> l = L /\ Same(d, e, L)
        <3>1. w = Cut(e, k, Q) <=> Spelt(Cut(e, k, Q), d, l)
            BY <1>12, <2>1
        <3> HIDE DEF L
        <3> QED BY <1>12, <3>1 DEF Spelt, Same
    <2>4. \A q \in 1..M, n \in Digit : w = Fork(s, k, q, n) <=> l = k + q /\ Same(s, d, l - 1) /\ d[l] = n
        <3> TAKE q \in 1..M, n \in Digit
        <3> DEFINE v == Fork(s, k, q, n)
                   r == k + q
        <3>1. r \in 1..NumDigits /\ v \in Word /\ Len(v) = r /\ (\A i \in 1..r - 1 : v[i] = s[i]) /\ v[r] = n
            BY <1>13, <1>15
        <3> HIDE DEF v, r
        <3>2. w = v <=> Spelt(v, d, l)
            BY <2>1, <3>1
        <3>3. l = r => 1..l = (1..l - 1) \union {l}
            BY <1>0
        <3>4. Spelt(v, d, l) <=> l = r /\ Same(s, d, l - 1) /\ d[l] = n
            BY <3>1, <3>3 DEF Spelt, Same
        <3> QED BY <3>2, <3>4 DEF v, r
    <2>5. \A q \in 1..M, n \in Digit : w = Fork(e, k, q, n) <=> l = k + q /\ Same(d, e, l - 1) /\ d[l] = n
        <3> TAKE q \in 1..M, n \in Digit
        <3> DEFINE v == Fork(e, k, q, n)
                   r == k + q
        <3>1. r \in 1..NumDigits /\ v \in Word /\ Len(v) = r /\ (\A i \in 1..r - 1 : v[i] = e[i]) /\ v[r] = n
            BY <1>13, <1>15
        <3> HIDE DEF v, r
        <3>2. w = v <=> Spelt(v, d, l)
            BY <2>1, <3>1
        <3>3. l = r => 1..l = (1..l - 1) \union {l}
            BY <1>0
        <3>4. Spelt(v, d, l) <=> l = r /\ Same(d, e, l - 1) /\ d[l] = n
            BY <3>1, <3>3 DEF Spelt, Same
        <3> QED BY <3>2, <3>4 DEF v, r
    <2>6. InA(w) <=> (l = K /\ Same(d, s, K)) \/ (l \in k + 2..K /\ Parts(s, d, l))
        <3>1. (\E q \in 2..P : \E n \in s[k + q] + 1..Base - 1 : w = Fork(s, k, q, n)) => l \in k + 2..K /\ Parts(s, d, l)
            <4> SUFFICES ASSUME NEW q \in 2..P, NEW n \in s[k + q] + 1..Base - 1, w = Fork(s, k, q, n)
                         PROVE  l \in k + 2..K /\ Parts(s, d, l)
                OBVIOUS
            <4>1. q \in 1..M /\ n \in Digit
                BY <1>10, <1>15
            <4>2. l = k + q /\ Same(s, d, l - 1) /\ d[l] = n
                BY <2>4, <4>1
            <4>3. s[l] < d[l] /\ l \in k + 2..K
                BY <1>0, <1>10, <1>11, <2>1, <4>2
            <4> QED BY <4>2, <4>3 DEF Parts
        <3>2. l \in k + 2..K /\ Parts(s, d, l) => \E q \in 2..P : \E n \in s[k + q] + 1..Base - 1 : w = Fork(s, k, q, n)
            <4> SUFFICES ASSUME l \in k + 2..K, Parts(s, d, l)
                         PROVE  \E q \in 2..P : \E n \in s[k + q] + 1..Base - 1 : w = Fork(s, k, q, n)
                OBVIOUS
            <4>1. l - k \in 2..P /\ k + (l - k) = l /\ l - k \in 1..M
                BY <1>0, <1>10
            <4>2. d[l] \in Digit /\ d[l] \in s[l] + 1..Base - 1 /\ Same(s, d, l - 1)
                BY <1>11, <2>1 DEF Parts, Digit
            <4>3. w = Fork(s, k, l - k, d[l])
                BY <2>4, <4>1, <4>2
            <4> QED BY <4>1, <4>2, <4>3
        <3> QED BY <2>2, <3>1, <3>2
    <2>7. InB(w) <=> (l = L /\ Same(d, e, L)) \/ (l \in k + 2..L /\ Parts(d, e, l))
        <3>1. (\E q \in 2..Q : \E n \in 0..e[k + q] - 1 : w = Fork(e, k, q, n)) => l \in k + 2..L /\ Parts(d, e, l)
            <4> SUFFICES ASSUME NEW q \in 2..Q, NEW n \in 0..e[k + q] - 1, w = Fork(e, k, q, n)
                         PROVE  l \in k + 2..L /\ Parts(d, e, l)
                OBVIOUS
            <4>1. q \in 1..M /\ n \in Digit
                BY <1>10, <1>15
            <4>2. l = k + q /\ Same(d, e, l - 1) /\ d[l] = n
                BY <2>5, <4>1
            <4>3. d[l] < e[l] /\ l \in k + 2..L
                BY <1>0, <1>10, <1>11, <2>1, <4>2
            <4> QED BY <4>2, <4>3 DEF Parts
        <3>2. l \in k + 2..L /\ Parts(d, e, l) => \E q \in 2..Q : \E n \in 0..e[k + q] - 1 : w = Fork(e, k, q, n)
            <4> SUFFICES ASSUME l \in k + 2..L, Parts(d, e, l)
                         PROVE  \E q \in 2..Q : \E n \in 0..e[k + q] - 1 : w = Fork(e, k, q, n)
                OBVIOUS
            <4>1. l - k \in 2..Q /\ k + (l - k) = l /\ l - k \in 1..M
                BY <1>0, <1>10
            <4>2. d[l] \in Digit /\ d[l] \in 0..e[l] - 1 /\ Same(d, e, l - 1)
                BY <1>11, <2>1 DEF Parts, Digit
            <4>3. w = Fork(e, k, l - k, d[l])
                BY <2>5, <4>1, <4>2
            <4> QED BY <4>1, <4>2, <4>3
        <3> QED BY <2>3, <3>1, <3>2
    <2>8. InC(w) <=> l = k + 1 /\ Parts(s, d, k + 1) /\ Parts(d, e, k + 1)
        <3>1. \A n \in Digit : w = prefix \o <<n>> <=> l = k + 1 /\ Same(s, d, k) /\ d[k + 1] = n
            <4> TAKE n \in Digit
            <4> DEFINE v == prefix \o <<n>>
                       r == k + 1
            <4>1. r \in 1..NumDigits /\ v \in Word /\ Len(v) = r /\ (\A i \in 1..k : v[i] = s[i]) /\ v[r] = n
                BY <1>0, <1>14
            <4> HIDE DEF v
            <4>2. w = v <=> Spelt(v, d, l)
                BY <2>1, <4>1
            <4>3. 1..k + 1 = (1..k) \union {k + 1}
                BY <1>0
            <4>4. Spelt(v, d, l) <=> l = k + 1 /\ Same(s, d, k) /\ d[k + 1] = n
                BY <4>1, <4>3 DEF Spelt, Same
            <4> QED BY <4>2, <4>4 DEF v
        <3>2. Same(s, d, k) => Same(d, e, k)
            BY DEF Same
        <3>3. (k + 1) - 1 = k
            BY <1>0
        <3>4. Parts(s, d, k + 1) /\ Parts(d, e, k + 1) <=> Same(s, d, k) /\ d[k + 1] \in s[k + 1] + 1..e[k + 1] - 1
            BY <1>0, <1>11, <2>1, <3>2, <3>3 DEF Parts
        <3> HIDE DEF prefix
        <3> QED BY <1>16, <3>1, <3>4
    <2> HIDE DEF InA, InB, InC, K, L
    <2> QED BY <1>9, <2>6, <2>7, <2>8 DEF w, Grouped
<1> HIDE DEF K, L
<1>19. Exact(G, s, e)
    BY <1>5, <1>17, <1>18, ExactIf
<1> QED BY <1>19 DEF G, A, B, C
\* Ranges that differ in the last digit only.
LEMMA ExactLast ==
    ASSUME NEW s \in Digits, NEW e \in Digits, Same(s, e, NumDigits - 1), s[NumDigits] < e[NumDigits]
    PROVE  Exact({Append(Prefix(s, NumDigits - 1), n) : n \in s[NumDigits]..e[NumDigits]}, s, e)
<1> DEFINE k == NumDigits - 1
           u == Prefix(s, k)
           G == {Append(u, n) : n \in s[NumDigits]..e[NumDigits]}
<1>1. /\ k \in 0..NumDigits - 1 /\ k \in 0..NumDigits /\ k + 1 = NumDigits /\ NumDigits \in Nat \ {0}
      /\ NumDigits \in k + 1..NumDigits /\ k \in Nat
    BY DigitsAssumption
<1>2. \A i \in 1..NumDigits : s[i] \in Nat /\ e[i] \in Nat /\ s[i] < Base /\ e[i] < Base
    BY DigitsAssumption DEF Digits
<1> HIDE DEF k
<1>3. Between2(s, e, k, NumDigits, NumDigits)
    BY <1>1 DEF Between2, k
<1>4. s[NumDigits] \in Nat /\ e[NumDigits] \in Nat /\ s[NumDigits]..e[NumDigits] \subseteq Digit
    BY <1>1, <1>2, DigitsAssumption DEF Digit
<1>5. u \in Word /\ Len(u) = k /\ \A i \in 1..k : u[i] = s[i]
    BY <1>1, PrefixIs DEF Spelt
<1>6. \A n \in Digit : /\ Append(u, n) \in Word /\ Len(Append(u, n)) = NumDigits
                       /\ (\A i \in 1..k : Append(u, n)[i] = s[i]) /\ Append(u, n)[NumDigits] = n
    <2> HIDE DEF u
    <2> TAKE n \in Digit
    <2>1. /\ Append(u, n) \in Word /\ Len(Append(u, n)) = Len(u) + 1
          /\ (\A i \in 1..Len(u) : Append(u, n)[i] = u[i]) /\ Append(u, n)[Len(u) + 1] = n
        BY <1>5, Adds
    <2> QED BY <1>1, <1>5, <2>1
<1> HIDE DEF u
<1>7. \A w \in G : w \in Word /\ Len(w) \in 1..NumDigits
    <2>1. NumDigits \in 1..NumDigits
        BY <1>1
    <2> QED BY <1>4, <1>6, <2>1
<1>8. ASSUME NEW d \in Digits, NEW l \in 1..NumDigits
      PROVE  Prefix(d, l) \in G <=> Grouped(d, l, s, e, k, NumDigits, NumDigits)
    <2>1. /\ Prefix(d, l) \in Word /\ \A v \in Word : Prefix(d, l) = v <=> Spelt(v, d, l)
          /\ d[NumDigits] \in Nat /\ d[NumDigits] \in Digit
        <3>1. l \in 0..NumDigits /\ NumDigits \in 1..NumDigits
            BY <1>1
        <3>2. d[NumDigits] \in Digit /\ d[NumDigits] \in Nat
            BY <3>1, DigitsAssumption DEF Digits, Digit
        <3> QED BY <3>1, <3>2, PrefixIs
    <2>2. \A n \in Digit : Prefix(d, l) = Append(u, n) <=> l = NumDigits /\ Same(d, s, k) /\ d[NumDigits] = n
        <3> TAKE n \in Digit
        <3> DEFINE v == Append(u, n)
        <3>1. v \in Word /\ Len(v) = NumDigits /\ (\A i \in 1..k : v[i] = s[i]) /\ v[NumDigits] = n
            BY <1>6
        <3> HIDE DEF v
        <3>2. 1..NumDigits = (1..k) \union {NumDigits}
            BY <1>1
        <3>3. Spelt(v, d, l) <=> l = NumDigits /\ Same(d, s, k) /\ d[NumDigits] = n
            BY <3>1, <3>2 DEF Spelt, Same
        <3> QED BY <2>1, <3>1, <3>3 DEF v
    <2>3. Prefix(d, l) \in G <=> l = NumDigits /\ Same(d, s, k) /\ d[NumDigits] \in s[NumDigits]..e[NumDigits]
        BY <1>4, <2>1, <2>2
    <2>4. Same(s, e, k) /\ (Same(d, s, k) <=> Same(s, d, k)) /\ (Same(d, s, k) <=> Same(d, e, k))
        BY DEF Same, k
    <2>5. 1..NumDigits = (1..k) \union {NumDigits} /\ k + 2..NumDigits = {}
        BY <1>1
    <2>6. /\ Same(d, s, NumDigits) <=> Same(d, s, k) /\ d[NumDigits] = s[NumDigits]
          /\ Same(d, e, NumDigits) <=> Same(d, e, k) /\ d[NumDigits] = e[NumDigits]
        BY <2>5 DEF Same
    <2>7. /\ Parts(s, d, k + 1) <=> Same(d, s, k) /\ s[NumDigits] < d[NumDigits]
          /\ Parts(d, e, k + 1) <=> Same(d, s, k) /\ d[NumDigits] < e[NumDigits]
        <3>1. NumDigits - 1 = k
            BY DEF k
        <3> QED BY <1>1, <2>4, <3>1 DEF Parts
    <2>8. Grouped(d, l, s, e, k, NumDigits, NumDigits)
            <=> l = NumDigits /\ (Same(d, s, NumDigits) \/ Same(d, e, NumDigits) \/ (Parts(s, d, k + 1) /\ Parts(d, e, k + 1)))
        BY <1>1, <2>5 DEF Grouped
    <2> HIDE DEF G
    <2> QED BY <1>4, <2>1, <2>3, <2>4, <2>6, <2>7, <2>8
<1>9. Exact(G, s, e)
    <2> HIDE DEF G
    <2> QED BY <1>3, <1>7, <1>8, ExactIf
<1> QED BY <1>9 DEF G, u, k

\* groupByIgnoringDigits: whatever the base and the number of digits, the
\* prefixes of a range are those of its outcomes and of no other, one each.
LEMMA GroupExact ==
    ASSUME NEW x \in Writable, NEW y \in Writable, x <= y
    PROVE  Exact(GroupByIgnoringDigits(x, y), Decompose(x), Decompose(y))
<1> DEFINE s == Decompose(x)
           e == Decompose(y)
           k == InCommon(s, e)
           prefix == SubSeq(s, 1, k)
           tail == SubSeq(s, k + 1, NumDigits)
           to == SubSeq(e, k + 1, NumDigits)
           G == GroupByIgnoringDigits(x, y)
           tree == All(tail, 0) /\ All(to, Base - 1) /\ k # 0
<1>1. s \in Digits /\ e \in Digits /\ (x = y <=> s = e) /\ ~Less(e, s)
    BY OrderIs
<1>2. G = IF x = y \/ tree
          THEN {prefix}
          ELSE IF k = NumDigits - 1
          THEN {Append(prefix, d) : d \in s[NumDigits]..e[NumDigits]}
          ELSE {prefix \o g : g \in FrontGroupings(tail) \union BackGroupings(to)
                                      \union MiddleGroupings(tail[1], to[1])}
    BY DEF GroupByIgnoringDigits
<1> HIDE DEF s, e, G
<1>3. k \in 0..NumDigits /\ Same(s, e, k) /\ (k < NumDigits => s[k + 1] # e[k + 1])
    BY <1>1, InCommonIs
<1> HIDE DEF k
<1>4. NumDigits \in Nat \ {0} /\ k \in Nat
    BY <1>3, DigitsAssumption
<1>5. CASE x = y
    <2>1. k = NumDigits
        BY <1>1, <1>3, <1>4, <1>5
    <2>2. G = {Prefix(s, NumDigits)}
        BY <1>2, <1>5, <2>1 DEF Prefix
    <2> QED BY <1>1, <1>5, <2>2, ExactOne DEF G, s, e
<1>6. CASE x # y
    <2>1. PICK q \in 1..NumDigits : Parts(s, e, q)
        BY <1>1, <1>6, Ordered DEF Less
    <2>2. q = k + 1
        <3>1. \A i \in 1..NumDigits : s[i] \in Int /\ e[i] \in Int
            BY <1>1 DEF Digits
        <3>2. k < q - 1 => k + 1 \in 1..q - 1
            BY <1>3, <1>4
        <3>3. ~(k < q - 1)
            BY <1>3, <1>4, <2>1, <3>2 DEF Parts, Same
        <3>4. q <= k => q \in 1..k
            BY <1>3, <1>4
        <3>5. ~(q <= k)
            BY <1>3, <1>4, <2>1, <3>1, <3>4 DEF Parts, Same
        <3> QED BY <1>4, <2>1, <3>3, <3>5
    <2>3. k \in 0..NumDigits - 1 /\ s[k + 1] < e[k + 1]
        BY <1>3, <1>4, <2>1, <2>2 DEF Parts
    <2>4. CASE tree
        <3>1. k \in 1..NumDigits - 1
            BY <1>4, <2>3, <2>4
        <3>2. \A j \in k + 1..NumDigits : s[j] = 0 /\ e[j] = Base - 1
            <4> SUFFICES ASSUME NEW j \in k + 1..NumDigits PROVE s[j] = 0 /\ e[j] = Base - 1
                OBVIOUS
            <4>1. j - k \in 1..NumDigits - k /\ k + (j - k) = j
                BY <1>4
            <4>2. /\ tail \in Word /\ Len(tail) = NumDigits - k /\ tail[j - k] = s[j]
                  /\ to \in Word /\ Len(to) = NumDigits - k /\ to[j - k] = e[j]
                BY <1>1, <2>3, <4>1, Tails
            <4> HIDE DEF tail, to
            <4>3. j - k \in DOMAIN tail /\ j - k \in DOMAIN to
                BY <4>1, <4>2, LenProperties DEF Word
            <4> QED BY <2>4, <4>2, <4>3 DEF All
        <3>3. Exact({Prefix(s, k)}, s, e)
            BY <1>1, <1>3, <2>3, <3>1, <3>2, ExactTree
        <3>4. G = {Prefix(s, k)}
            BY <1>2, <2>4 DEF Prefix
        <3> QED BY <3>3, <3>4 DEF G, s, e
    <2>5. CASE ~tree /\ k = NumDigits - 1
        <3>1. k + 1 = NumDigits
            BY <1>4, <2>5
        <3>2. Exact({Append(Prefix(s, NumDigits - 1), d) : d \in s[NumDigits]..e[NumDigits]}, s, e)
            BY <1>1, <1>3, <2>3, <2>5, <3>1, ExactLast
        <3> HIDE DEF tree
        <3>3. G = {Append(Prefix(s, NumDigits - 1), d) : d \in s[NumDigits]..e[NumDigits]}
            BY <1>2, <1>6, <2>5 DEF Prefix
        <3> QED BY <3>2, <3>3 DEF G, s, e
    <2>6. CASE ~tree /\ k # NumDigits - 1
        <3>1. Exact({Prefix(s, k) \o g : g \in FrontGroupings(tail) \union BackGroupings(to)
                                            \union MiddleGroupings(tail[1], to[1])}, s, e)
            BY <1>1, <1>3, <2>3, Within3
        <3>2. Prefix(s, k) = prefix
            BY DEF Prefix
        <3> HIDE DEF tree, tail, to, prefix
        <3>3. G = {prefix \o g : g \in FrontGroupings(tail) \union BackGroupings(to)
                                       \union MiddleGroupings(tail[1], to[1])}
            BY <1>2, <1>6, <2>6
        <3> QED BY <3>1, <3>2, <3>3 DEF G, s, e, tail, to
    <2> QED BY <2>4, <2>5, <2>6
<1> QED BY <1>5, <1>6

\* Matches, for the words GroupByIgnoringDigits returns.
LEMMA MatchesIs ==
    ASSUME NEW x \in Writable, NEW w \in Word, Len(w) \in 1..NumDigits
    PROVE  Matches(w, x) <=> w = Prefix(Decompose(x), Len(w))
<1> DEFINE d == Decompose(x)
           l == Len(w)
<1>1. d \in Digits /\ DOMAIN w = 1..l
    BY OrderIs, LenProperties DEF Word
<1>2. Matches(w, x) <=> l <= NumDigits /\ \A i \in 1..l : w[i] = d[i]
    BY <1>1 DEF Matches
<1>3. l \in 0..NumDigits /\ l <= NumDigits
    BY DigitsAssumption
<1> HIDE DEF d
<1>4. Prefix(d, l) = w <=> Spelt(w, d, l)
    BY <1>1, <1>3, PrefixIs
<1>5. Spelt(w, d, l) <=> \A i \in 1..l : w[i] = d[i]
    BY DEF Spelt
<1> HIDE DEF l
<1>6. w = Prefix(d, l) <=> Prefix(d, l) = w
    OBVIOUS
<1> QED BY <1>2, <1>3, <1>4, <1>5, <1>6 DEF d, l

\* An outcome is in a range when, and only when, it matches a prefix of it: one.
LEMMA MatchOne ==
    ASSUME NEW a \in Writable, NEW b \in Writable, a <= b, NEW x \in Writable
    PROVE  LET G == GroupByIgnoringDigits(a, b)
           IN  /\ x \in a..b <=> \E p \in G : Matches(p, x)
               /\ \A p, q \in G : Matches(p, x) /\ Matches(q, x) => p = q
<1> DEFINE G == GroupByIgnoringDigits(a, b)
           d == Decompose(x)
<1>1. d \in Digits /\ (a <= x <=> ~Less(d, Decompose(a))) /\ (x <= b <=> ~Less(Decompose(b), d))
    BY OrderIs
<1>2. a \in Nat /\ b \in Nat /\ x \in Nat
    BY HighEnds
<1>3. Exact(G, Decompose(a), Decompose(b))
    BY GroupExact
<1> HIDE DEF G, d
<1>4. \A p \in G : p \in Word /\ Len(p) \in 1..NumDigits /\ (Matches(p, x) <=> p = Prefix(d, Len(p)))
    BY <1>3, MatchesIs DEF Exact, d
<1>5. /\ x \in a..b <=> \E l \in 1..NumDigits : Prefix(d, l) \in G
      /\ \A l, m \in 1..NumDigits : Prefix(d, l) \in G /\ Prefix(d, m) \in G => l = m
    BY <1>1, <1>2, <1>3 DEF Exact
<1>6. \A l \in 1..NumDigits : Len(Prefix(d, l)) = l
    <2>1. \A l \in 1..NumDigits : l \in 0..NumDigits
        BY DigitsAssumption
    <2> QED BY <1>1, <2>1, PrefixIs DEF Spelt
<1>7. x \in a..b <=> \E p \in G : Matches(p, x)
    BY <1>4, <1>5, <1>6
<1>8. \A p, q \in G : Matches(p, x) /\ Matches(q, x) => p = q
    BY <1>4, <1>5
<1> QED BY <1>7, <1>8 DEF G

\* Ranges of outcomes that have one each.
Parted(rs, outcomes) ==
  /\ \A k \in DOMAIN rs : rs[k].from \in outcomes /\ rs[k].to \in outcomes /\ rs[k].from <= rs[k].to
  /\ \A x \in outcomes : \E k \in DOMAIN rs : /\ x \in rs[k].from..rs[k].to
                                              /\ \A j \in DOMAIN rs \ {k} : x \notin rs[j].from..rs[j].to

\* Outcomes parted by ranges match exactly one of all prefixes, that of their range.
LEMMA PrefixesPart ==
    ASSUME NEW outcomes \in SUBSET Writable, NEW rs, Parted(rs, outcomes), NEW x \in outcomes
    PROVE  LET signed == UNION {{<<k, p>> : p \in GroupByIgnoringDigits(rs[k].from, rs[k].to)} : k \in DOMAIN rs}
               fits == {s \in signed : Matches(s[2], x)}
           IN  Cardinality(fits) = 1 /\ \A s \in fits : x \in rs[s[1]].from..rs[s[1]].to
<1> DEFINE G(k) == GroupByIgnoringDigits(rs[k].from, rs[k].to)
           signed == UNION {{<<k, p>> : p \in G(k)} : k \in DOMAIN rs}
           fits == {s \in signed : Matches(s[2], x)}
<1>1. \A k \in DOMAIN rs : rs[k].from \in Writable /\ rs[k].to \in Writable /\ rs[k].from <= rs[k].to
    BY DEF Parted
<1>2. \A k \in DOMAIN rs : /\ x \in rs[k].from..rs[k].to <=> \E p \in G(k) : Matches(p, x)
                           /\ \A p, q \in G(k) : Matches(p, x) /\ Matches(q, x) => p = q
    BY <1>1, MatchOne
<1>3. PICK k \in DOMAIN rs : x \in rs[k].from..rs[k].to /\ \A j \in DOMAIN rs \ {k} : x \notin rs[j].from..rs[j].to
    BY DEF Parted
<1> HIDE DEF G
<1>4. PICK p \in G(k) : Matches(p, x)
    BY <1>2, <1>3
<1>5. fits = {<<k, p>>}
    <2>1. <<k, p>> \in fits
        BY <1>4
    <2>2. ASSUME NEW s \in fits PROVE s = <<k, p>>
        <3>0. PICK j \in DOMAIN rs : \E q \in G(j) : s = <<j, q>> /\ Matches(s[2], x)
            OBVIOUS
        <3>1. PICK q \in G(j) : s = <<j, q>> /\ Matches(q, x)
            BY <3>0
        <3>2. j = k
            BY <1>2, <1>3, <3>1
        <3> QED BY <1>2, <1>4, <3>1, <3>2
    <2> HIDE DEF fits
    <2> QED BY <2>1, <2>2
<1> HIDE DEF fits
<1>6. Cardinality(fits) = 1
    BY <1>5, FS_Singleton
<1>7. \A s \in fits : x \in rs[s[1]].from..rs[s[1]].to
    BY <1>3, <1>5
<1> QED BY <1>6, <1>7 DEF fits, G
-----------------------------------------------------------------------------
(***************************************************************************)
(* Ranges that are merged.                                                 *)
(***************************************************************************)
\* The members of a set of numbers, counted.
Count(S, k) == Cardinality({j \in S : j <= k})
Nth(S, h) == CHOOSE k \in S : Count(S, k) = h

\* Counting the members of a finite set up to a number.
LEMMA CountIs ==
    ASSUME NEW n \in Nat, NEW S \in SUBSET (1..n)
    PROVE  /\ IsFiniteSet(S) /\ Cardinality(S) \in Nat /\ Count(S, n) = Cardinality(S)
           /\ \A k \in Nat : Count(S, k) \in 0..Cardinality(S)
           /\ \A k, l \in S : k < l => Count(S, k) < Count(S, l)
<1>1. IsFiniteSet(1..n)
    BY FS_Interval
<1>2. IsFiniteSet(S) /\ Cardinality(S) \in Nat
    BY <1>1, FS_Subset, FS_CardinalityType
<1>0. \A j \in S : j \in 1..n
    OBVIOUS
<1>3. {j \in S : j <= n} = S
    <2>1. \A j \in S : j <= n
        BY <1>0
    <2> QED BY <2>1, Zenon
<1>4. \A k \in Nat : /\ IsFiniteSet({j \in S : j <= k}) /\ Cardinality({j \in S : j <= k}) \in Nat
                     /\ Cardinality({j \in S : j <= k}) <= Cardinality(S)
    <2> TAKE k \in Nat
    <2>1. {j \in S : j <= k} \in SUBSET S
        OBVIOUS
    <2> QED BY <1>2, <2>1, FS_Subset, FS_CardinalityType
<1>5. ASSUME NEW k \in S, NEW l \in S, k < l PROVE Count(S, k) < Count(S, l)
    <2> DEFINE U == {j \in S : j <= k}
               V == {j \in S : j <= l}
    <2>1. U \in SUBSET V /\ l \in V /\ l \notin U /\ k \in Nat /\ l \in Nat
        <3>1. k \in Nat /\ l \in Nat /\ \A j \in S : j <= k => j <= l
            BY <1>0, <1>5
        <3>2. ~(l <= k) /\ l <= l
            BY <1>5, <3>1
        <3> QED BY <3>1, <3>2, Zenon
    <2>2. IsFiniteSet(V) /\ Cardinality(U) \in Nat /\ Cardinality(V) \in Nat
        BY <1>4, <2>1
    <2> HIDE DEF U, V
    <2>3. Cardinality(U) <= Cardinality(V) /\ (Cardinality(U) = Cardinality(V) => U = V)
        BY <2>1, <2>2, FS_Subset
    <2>4. Cardinality(U) < Cardinality(V)
        BY <2>1, <2>2, <2>3
    <2> QED BY <2>4 DEF Count, U, V
<1> QED BY <1>2, <1>3, <1>4, <1>5 DEF Count

\* One member more counts one more.
LEMMA CountAdds ==
    ASSUME NEW n \in Nat, NEW S \in SUBSET (1..n)
    PROVE  /\ Cardinality(S \union {n + 1}) = Cardinality(S) + 1
           /\ \A k \in 1..n : Count(S \union {n + 1}, k) = Count(S, k)
           /\ Count(S \union {n + 1}, n + 1) = Cardinality(S) + 1
<1>1. IsFiniteSet(S) /\ n + 1 \notin S
    BY CountIs
<1>2. Cardinality(S \union {n + 1}) = Cardinality(S) + 1
    BY <1>1, FS_AddElement
<1>0. \A j \in S : j \in 1..n
    OBVIOUS
<1>3. \A k \in 1..n : {j \in S \union {n + 1} : j <= k} = {j \in S : j <= k}
    <2> SUFFICES ASSUME NEW k \in 1..n PROVE {j \in S \union {n + 1} : j <= k} = {j \in S : j <= k}
        OBVIOUS
    <2>1. ~(n + 1 <= k)
        OBVIOUS
    <2> QED BY <2>1
<1>4. {j \in S \union {n + 1} : j <= n + 1} = S \union {n + 1}
    <2>1. \A j \in S \union {n + 1} : j <= n + 1
        BY <1>0
    <2> QED BY <2>1, Zenon
<1> QED BY <1>2, <1>3, <1>4 DEF Count

\* The count takes every value on its way.
LEMMA CountReaches ==
    ASSUME NEW n \in Nat
    PROVE  \A S \in SUBSET (1..n) : \A h \in 1..Cardinality(S) : \E k \in S : Count(S, k) = h
<1> DEFINE Is(m) == \A S \in SUBSET (1..m) : \A h \in 1..Cardinality(S) : \E k \in S : Count(S, k) = h
           T == {m \in Nat : Is(m)}
<1>1. 0 \in T
    <2>1. \A S \in SUBSET (1..0) : S = {}
        OBVIOUS
    <2>2. Cardinality({}) = 0
        BY FS_EmptySet
    <2> QED BY <2>1, <2>2
<1>2. ASSUME NEW m \in Nat, Is(m) PROVE Is(m + 1)
    <2> SUFFICES ASSUME NEW S \in SUBSET (1..m + 1), NEW h \in 1..Cardinality(S) PROVE \E k \in S : Count(S, k) = h
        OBVIOUS
    <2>1. CASE m + 1 \notin S
        <3>1. S \in SUBSET (1..m)
            BY <2>1
        <3> QED BY <1>2, <3>1
    <2>2. CASE m + 1 \in S
        <3> DEFINE U == S \ {m + 1}
        <3>1. U \in SUBSET (1..m) /\ S = U \union {m + 1}
            BY <2>2
        <3> HIDE DEF U
        <3>2. Cardinality(U) \in Nat
            BY <3>1, CountIs
        <3>3. /\ Cardinality(S) = Cardinality(U) + 1 /\ Count(S, m + 1) = Cardinality(U) + 1
              /\ \A k \in 1..m : Count(S, k) = Count(U, k)
            BY <3>1, CountAdds
        <3>4. CASE h = Cardinality(U) + 1
            BY <2>2, <3>3, <3>4
        <3>5. CASE h # Cardinality(U) + 1
            <4>1. h \in 1..Cardinality(U)
                BY <3>2, <3>3, <3>5
            <4>2. PICK k \in U : Count(U, k) = h
                BY <1>2, <3>1, <4>1
            <4> QED BY <3>1, <3>3, <4>2
        <3> QED BY <3>4, <3>5
    <2> QED BY <2>1, <2>2
<1>3. \A m \in Nat : m \in T => m + 1 \in T
    <2> HIDE DEF Is
    <2> QED BY <1>2
<1>4. Nat \subseteq T
    <2> HIDE DEF T
    <2> QED BY <1>1, <1>3, Induct
<1> QED BY <1>4

\* The members of a set of numbers, one by one.
LEMMA NthIs ==
    ASSUME NEW n \in Nat, NEW S \in SUBSET (1..n), NEW h \in 1..Cardinality(S)
    PROVE  /\ Nth(S, h) \in S /\ Count(S, Nth(S, h)) = h
           /\ \A k \in S : Count(S, k) = h => k = Nth(S, h)
<1>1. \E k \in S : Count(S, k) = h
    BY CountReaches
<1>2. Nth(S, h) \in S /\ Count(S, Nth(S, h)) = h
    BY <1>1 DEF Nth
<1>3. \A k, l \in S : k < l => Count(S, k) < Count(S, l)
    BY CountIs
<1>4. \A k \in S : k \in Int /\ Count(S, k) \in Int
    BY CountIs
<1>5. \A k \in S : Count(S, k) = h => k = Nth(S, h)
    <2> SUFFICES ASSUME NEW k \in S, Count(S, k) = h PROVE k = Nth(S, h)
        OBVIOUS
    <2> DEFINE l == Nth(S, h)
    <2>1. l \in S /\ Count(S, l) = h
        BY <1>2
    <2> HIDE DEF l
    <2>2. k < l \/ k = l \/ l < k
        BY <1>4, <2>1
    <2>3. k = l
        BY <1>3, <1>4, <2>1, <2>2
    <2> QED BY <2>3 DEF l
<1> QED BY <1>2, <1>5

Range3 == [from : Int, to : Int, payout : Int]
Heads(rs) == {k \in DOMAIN rs : k = 1 \/ ~Joined(rs, k)}
Block(rs, h) ==
  LET S == Heads(rs)
  IN  CETPayout(rs[Nth(S, h)].from, rs[IF h < Cardinality(S) THEN Nth(S, h + 1) - 1 ELSE Len(rs)].to, rs[Nth(S, h)].payout)

\* MergePayouts, as the blocks of ranges that are joined.
LEMMA MergeIs == \A rs : MergePayouts(rs) = [h \in 1..Cardinality(Heads(rs)) |-> Block(rs, h)]
BY DEF MergePayouts, Block, Heads, Nth, Count

\* The heads are places of ranges, and the first is one.
LEMMA HeadsAre ==
    ASSUME NEW rs \in Seq(Range3), rs # <<>>
    PROVE  /\ Heads(rs) \in SUBSET (1..Len(rs)) /\ Len(rs) \in Nat /\ 1 \in Heads(rs) /\ Cardinality(Heads(rs)) \in Nat \ {0}
           /\ \A h \in 1..Cardinality(Heads(rs)) : Block(rs, h) \in Range3
           /\ MergePayouts(rs) \in Seq(Range3) /\ Len(MergePayouts(rs)) = Cardinality(Heads(rs))
<1> DEFINE S == Heads(rs)
           n == Len(rs)
           c == Cardinality(S)
<1>1. n \in Nat /\ DOMAIN rs = 1..n /\ 1 \in 1..n
    BY EmptySeq, LenProperties
<1>2. S \in SUBSET (1..n) /\ 1 \in S
    BY <1>1 DEF Heads
<1>3. IsFiniteSet(S) /\ c \in Nat
    BY <1>1, <1>2, CountIs
<1>4. c # 0
    BY <1>2, <1>3, FS_EmptySet
<1>5. \A k \in 1..n : rs[k] \in Range3
    BY ElementOfSeq
<1>6. ASSUME NEW h \in 1..c PROVE Block(rs, h) \in Range3
    <2>1. Nth(S, h) \in 1..n
        BY <1>1, <1>2, NthIs
    <2> DEFINE l == IF h < c THEN Nth(S, h + 1) - 1 ELSE n
    <2>2. l \in 1..n
        <3>1. CASE h < c
            <4>1. h + 1 \in 1..c /\ h + 1 > 1
                BY <1>3, <3>1
            <4>2. Nth(S, h + 1) \in S /\ Count(S, Nth(S, h + 1)) = h + 1
                BY <1>1, <1>2, <4>1, NthIs
            <4>3. Count(S, 1) < h + 1
                <5>1. {j \in S : j <= 1} = {1}
                    BY <1>2
                <5>2. Count(S, 1) = 1
                    BY <5>1, FS_Singleton DEF Count
                <5> QED BY <4>1, <5>2
            <4>4. Nth(S, h + 1) # 1
                BY <4>1, <4>2, <4>3
            <4> QED BY <1>1, <1>2, <3>1, <4>2, <4>4
        <3>2. CASE ~(h < c)
            BY <1>1, <3>2
        <3> QED BY <3>1, <3>2
    <2> HIDE DEF l
    <2>3. Block(rs, h) = CETPayout(rs[Nth(S, h)].from, rs[l].to, rs[Nth(S, h)].payout)
        BY DEF Block, l
    <2> QED BY <1>5, <2>1, <2>2, <2>3 DEF CETPayout, Range3
<1>7. MergePayouts(rs) = [h \in 1..c |-> Block(rs, h)]
    BY MergeIs
<1>8. MergePayouts(rs) \in Seq(Range3) /\ Len(MergePayouts(rs)) = c
    <2> HIDE DEF c
    <2>1. MergePayouts(rs) \in [1..c -> Range3]
        BY <1>6, <1>7
    <2> QED BY <1>3, <2>1
<1> QED BY <1>1, <1>2, <1>3, <1>4, <1>6, <1>8
\* One more range goes on where the last one ends, or begins anew.
Extends2(r, last) == last.to \in {r.from, r.from - 1} /\ last.payout = r.payout

\* Merging once a range is added: the last block gets longer, or there is one more.
LEMMA MergeAppend ==
    ASSUME NEW rs \in Seq(Range3), rs # <<>>, NEW r \in Range3
    PROVE  LET M == MergePayouts(rs)
               c == Len(M)
           IN  MergePayouts(Append(rs, r)) =
                 IF Extends2(r, rs[Len(rs)]) THEN [M EXCEPT ![c] = CETPayout(M[c].from, r.to, M[c].payout)]
                 ELSE Append(M, r)
<1> DEFINE n == Len(rs)
           S == Heads(rs)
           M == MergePayouts(rs)
           c == Cardinality(S)
           more == Append(rs, r)
           S2 == Heads(more)
<1>1. n \in Nat /\ n >= 1 /\ DOMAIN rs = 1..n /\ \A k \in 1..n : rs[k] \in Range3
    BY EmptySeq, LenProperties, ElementOfSeq
<1>2. /\ S \in SUBSET (1..n) /\ c \in Nat \ {0} /\ M \in Seq(Range3) /\ Len(M) = c
      /\ M = [h \in 1..c |-> Block(rs, h)]
    BY HeadsAre, MergeIs
<1>3. /\ more \in Seq(Range3) /\ Len(more) = n + 1 /\ DOMAIN more = 1..n + 1 /\ more # <<>>
      /\ more[n + 1] = r /\ \A k \in 1..n : more[k] = rs[k]
    <2>1. /\ more \in Seq(Range3) /\ Len(more) = n + 1
          /\ \A i \in 1..n : more[i] = rs[i]
          /\ more[n + 1] = r
        BY AppendProperties
    <2>2. DOMAIN more = 1..n + 1 /\ more # <<>>
        BY <1>1, <2>1, LenProperties, EmptySeq
    <2> QED BY <2>1, <2>2
<1> HIDE DEF more, M, c, S
<1>4. S2 = IF Extends2(r, rs[n]) THEN S ELSE S \union {n + 1}
    <2>1. \A k \in 1..n : k \in S2 <=> k \in S
        BY <1>1, <1>3 DEF Heads, Joined, S
    <2>2. n + 1 \in S2 <=> ~Extends2(r, rs[n])
        <3>1. (n + 1) - 1 = n /\ n + 1 # 1 /\ n \in 1..n
            BY <1>1
        <3>2. Joined(more, n + 1) <=> Extends2(r, rs[n])
            BY <1>3, <3>1 DEF Joined, Extends2
        <3> QED BY <1>1, <1>3, <3>1, <3>2 DEF Heads
    <2>3. S2 \subseteq 1..n + 1 /\ S \subseteq 1..n
        BY <1>2, <1>3 DEF Heads
    <2>4. \A k \in 1..n + 1 : k \in 1..n \/ k = n + 1
        BY <1>1
    <2>5. n + 1 \notin 1..n
        BY <1>1
    <2> QED
        <3>1. ASSUME Extends2(r, rs[n]) PROVE S2 = S
            BY <2>1, <2>2, <2>3, <2>4, <2>5, <3>1, Zenon
        <3>2. ASSUME ~Extends2(r, rs[n]) PROVE S2 = S \union {n + 1}
            BY <2>1, <2>2, <2>3, <2>4, <2>5, <3>2, Zenon
        <3> QED BY <3>1, <3>2
<1>5. MergePayouts(more) = [h \in 1..Cardinality(S2) |-> Block(more, h)]
    BY MergeIs
<1> HIDE DEF S2
<1>6. \A h \in 1..c : Nth(S, h) \in S /\ Count(S, Nth(S, h)) = h /\ Nth(S, h) \in 1..n
    BY <1>1, <1>2, NthIs DEF c
<1>7. \A h \in 1..c : M[h] = Block(rs, h)
    BY <1>2
<1>8. \A h \in 1..c : h < c => Nth(S, h + 1) - 1 \in 1..n
    <2> SUFFICES ASSUME NEW h \in 1..c, h < c PROVE Nth(S, h + 1) - 1 \in 1..n
        OBVIOUS
    <2>1. h + 1 \in 1..c /\ h \in 1..c
        BY <1>2
    <2>2. Count(S, Nth(S, h)) = h /\ Count(S, Nth(S, h + 1)) = h + 1 /\ Nth(S, h) \in S /\ Nth(S, h + 1) \in S
        BY <1>6, <2>1
    <2>3. ~(Nth(S, h + 1) <= Nth(S, h))
        <3>1. \A k, l \in S : k < l => Count(S, k) < Count(S, l)
            BY <1>1, <1>2, CountIs
        <3> DEFINE k == Nth(S, h + 1)
                   l == Nth(S, h)
        <3>2. k \in S /\ l \in S /\ k \in Int /\ l \in Int /\ Count(S, k) = h + 1 /\ Count(S, l) = h
            BY <1>6, <2>1, <2>2
        <3> HIDE DEF k, l
        <3>3. ~(k < l) /\ k # l
            BY <3>1, <3>2
        <3> QED BY <3>2, <3>3 DEF k, l
    <2>4. Nth(S, h) \in 1..n /\ Nth(S, h + 1) \in 1..n
        BY <1>6, <2>1
    <2> QED BY <1>1, <2>3, <2>4
<1>9. CASE Extends2(r, rs[n])
    <2>1. S2 = S
        BY <1>4, <1>9
    <2>2. \A h \in 1..c : Block(more, h) = IF h = c THEN CETPayout(M[h].from, r.to, M[h].payout) ELSE M[h]
        <3> SUFFICES ASSUME NEW h \in 1..c
                     PROVE  Block(more, h) = IF h = c THEN CETPayout(M[h].from, r.to, M[h].payout) ELSE M[h]
            OBVIOUS
        <3>1. M[h] = CETPayout(rs[Nth(S, h)].from, rs[IF h < c THEN Nth(S, h + 1) - 1 ELSE n].to, rs[Nth(S, h)].payout)
            BY <1>7 DEF Block, S, c
        <3>2. Block(more, h) = CETPayout(more[Nth(S, h)].from, more[IF h < c THEN Nth(S, h + 1) - 1 ELSE n + 1].to,
                                         more[Nth(S, h)].payout)
            BY <1>3, <2>1 DEF Block, c, S2
        <3>3. more[Nth(S, h)] = rs[Nth(S, h)]
            BY <1>3, <1>6
        <3>4. CASE h < c
            <4>1. more[Nth(S, h + 1) - 1] = rs[Nth(S, h + 1) - 1]
                BY <1>3, <1>8, <3>4
            <4> QED BY <1>2, <3>1, <3>2, <3>3, <3>4, <4>1
        <3>5. CASE h = c
            <4>1. ~(h < c)
                BY <1>2, <3>5
            <4> QED BY <1>3, <3>1, <3>2, <3>3, <3>5, <4>1 DEF CETPayout
        <3>6. h < c \/ h = c
            BY <1>2
        <3> QED BY <3>4, <3>5, <3>6
    <2>3. MergePayouts(more) = [h \in 1..c |-> Block(more, h)]
        BY <1>5, <2>1 DEF c
    <2>4. [M EXCEPT ![c] = CETPayout(M[c].from, r.to, M[c].payout)]
             = [h \in 1..c |-> IF h = c THEN CETPayout(M[h].from, r.to, M[h].payout) ELSE M[h]]
        <3>1. DOMAIN M = 1..c
            BY <1>2
        <3> QED BY <3>1
    <2> QED BY <1>2, <1>9, <2>2, <2>3, <2>4 DEF more, M
<1>10. CASE ~Extends2(r, rs[n])
    <2>1. S2 = S \union {n + 1}
        BY <1>4, <1>10
    <2>2. Cardinality(S2) = c + 1 /\ (\A k \in 1..n : Count(S2, k) = Count(S, k)) /\ Count(S2, n + 1) = c + 1
        <3>1. /\ Cardinality(S \union {n + 1}) = Cardinality(S) + 1
              /\ \A k \in 1..n : Count(S \union {n + 1}, k) = Count(S, k)
              /\ Count(S \union {n + 1}, n + 1) = Cardinality(S) + 1
            BY <1>1, <1>2, CountAdds
        <3> QED BY <2>1, <3>1 DEF c
    <2>3. n + 1 \in Nat /\ S2 \in SUBSET (1..n + 1)
        <3>1. 1..n \subseteq 1..n + 1 /\ n + 1 \in 1..n + 1
            BY <1>1
        <3>2. S2 \subseteq 1..n + 1
            BY <1>2, <2>1, <3>1, Zenon
        <3> QED BY <1>1, <3>2
    <2>4. \A h \in 1..c : Nth(S2, h) = Nth(S, h)
        <3> SUFFICES ASSUME NEW h \in 1..c PROVE Nth(S, h) = Nth(S2, h)
            OBVIOUS
        <3>1. Nth(S, h) \in S /\ Count(S, Nth(S, h)) = h
            BY <1>6
        <3>2. Nth(S, h) \in S2 /\ Count(S2, Nth(S, h)) = h
            BY <1>6, <2>1, <2>2, <3>1
        <3>3. h \in 1..Cardinality(S2)
            BY <1>2, <2>2
        <3>4. \A k \in S2 : Count(S2, k) = h => k = Nth(S2, h)
            BY <2>3, <3>3, NthIs
        <3> QED BY <3>2, <3>4
    <2>5. Nth(S2, c + 1) = n + 1
        <3>1. n + 1 \in S2 /\ Count(S2, n + 1) = c + 1 /\ c + 1 \in 1..Cardinality(S2)
            BY <1>2, <2>1, <2>2
        <3> DEFINE h == c + 1
        <3> HIDE DEF h
        <3>2. h \in 1..Cardinality(S2)
            BY <3>1 DEF h
        <3>3. \A k \in S2 : Count(S2, k) = h => k = Nth(S2, h)
            BY <2>3, <3>2, NthIs
        <3> QED BY <3>1, <3>3 DEF h
    <2>6. \A h \in 1..c + 1 : Block(more, h) = IF h = c + 1 THEN r ELSE M[h]
        <3> SUFFICES ASSUME NEW h \in 1..c + 1
                     PROVE  Block(more, h) = IF h = c + 1 THEN r ELSE M[h]
            OBVIOUS
        <3>1. Block(more, h) = CETPayout(more[Nth(S2, h)].from, more[IF h < c + 1 THEN Nth(S2, h + 1) - 1 ELSE n + 1].to,
                                         more[Nth(S2, h)].payout)
            BY <1>3, <2>2 DEF Block, S2
        <3>2. CASE h = c + 1
            <4>1. ~(h < c + 1)
                BY <1>2, <3>2
            <4>2. Block(more, h) = CETPayout(r.from, r.to, r.payout)
                BY <1>3, <2>5, <3>1, <3>2, <4>1
            <4> QED BY <3>2, <4>2 DEF CETPayout, Range3
        <3>3. CASE h # c + 1
            <4>1. h \in 1..c /\ h < c + 1
                BY <1>2, <3>3
            <4>2. Nth(S2, h) = Nth(S, h) /\ more[Nth(S, h)] = rs[Nth(S, h)]
                BY <1>3, <1>6, <2>4, <4>1
            <4>3. M[h] = CETPayout(rs[Nth(S, h)].from, rs[IF h < c THEN Nth(S, h + 1) - 1 ELSE n].to, rs[Nth(S, h)].payout)
                BY <1>7, <4>1 DEF Block, S, c
            <4>4. CASE h < c
                <5>1. h + 1 \in 1..c
                    BY <1>2, <4>1, <4>4
                <5>2. Nth(S2, h + 1) = Nth(S, h + 1) /\ more[Nth(S, h + 1) - 1] = rs[Nth(S, h + 1) - 1]
                    BY <1>3, <1>8, <2>4, <4>1, <4>4, <5>1
                <5> QED BY <3>1, <3>3, <4>1, <4>2, <4>3, <4>4, <5>2
            <4>5. CASE h = c
                <5>1. Nth(S2, h + 1) - 1 = n /\ more[n] = rs[n] /\ ~(h < c)
                    BY <1>1, <1>2, <1>3, <2>5, <4>5
                <5> QED BY <3>1, <3>3, <4>1, <4>2, <4>3, <5>1
            <4>6. h < c \/ h = c
                BY <1>2, <4>1
            <4> QED BY <4>4, <4>5, <4>6
        <3> QED BY <3>2, <3>3
    <2>7. MergePayouts(more) = [h \in 1..c + 1 |-> Block(more, h)]
        BY <1>5, <2>2 DEF S2
    <2>8. Append(M, r) = [h \in 1..c + 1 |-> IF h = c + 1 THEN r ELSE M[h]]
        BY <1>2
    <2> QED BY <1>2, <1>10, <2>6, <2>7, <2>8 DEF more, M
<1> QED BY <1>9, <1>10
\* The ranges of M follow each other from a to b, each pays what f says of it.
Tiles(M, a, b, f) ==
  /\ M \in Seq(Range3) /\ M # <<>> /\ M[1].from = a /\ M[Len(M)].to = b
  /\ \A k \in 1..Len(M) : M[k].from <= M[k].to /\ \A x \in M[k].from..M[k].to : f[x] = M[k].payout
  /\ \A k \in 1..Len(M) - 1 : M[k + 1].from = M[k].to + 1

\* Those of rs do so once they are merged.
Covers(rs, a, b, f) ==
  /\ rs \in Seq(Range3) /\ rs # <<>> /\ rs[Len(rs)].to = b /\ rs[Len(rs)].payout = f[b]
  /\ Tiles(MergePayouts(rs), a, b, f)

\* The last of the ranges.
LEMMA LastTile ==
    ASSUME NEW M, NEW a, NEW b, NEW f, Tiles(M, a, b, f)
    PROVE  Len(M) \in Nat \ {0} /\ M[Len(M)] \in Range3 /\ M[Len(M)].to = b /\ M[Len(M)].payout = f[b] /\ b \in Int
<1>1. Len(M) \in Nat \ {0} /\ M[Len(M)] \in Range3
    BY EmptySeq, ElementOfSeq DEF Tiles
<1>2. Len(M) \in 1..Len(M)
    BY <1>1
<1>3. M[Len(M)].from \in Int /\ M[Len(M)].to \in Int /\ M[Len(M)].from <= M[Len(M)].to
    BY <1>1, <1>2 DEF Tiles, Range3
<1>4. M[Len(M)].to \in M[Len(M)].from..M[Len(M)].to
    BY <1>3
<1>5. M[Len(M)].to = b
    BY DEF Tiles
<1> QED BY <1>1, <1>2, <1>3, <1>4, <1>5 DEF Tiles

\* One range more.
LEMMA TilesOn ==
    ASSUME NEW M, NEW a, NEW b, NEW f, Tiles(M, a, b, f), NEW r \in Range3,
           r.from = b + 1, r.from <= r.to, \A x \in r.from..r.to : f[x] = r.payout
    PROVE  Tiles(Append(M, r), a, r.to, f)
<1> DEFINE n == Len(M)
           more == Append(M, r)
<1>1. n \in Nat \ {0} /\ M \in Seq(Range3) /\ M[n].to = b
    BY LastTile DEF Tiles
<1>2. more \in Seq(Range3) /\ Len(more) = n + 1 /\ more[n + 1] = r /\ \A i \in 1..n : more[i] = M[i]
    BY <1>1, AppendProperties
<1> HIDE DEF more
<1>3. more # <<>>
    BY <1>1, <1>2, EmptySeq
<1>4. more[1].from = a /\ more[Len(more)].to = r.to
    BY <1>1, <1>2 DEF Tiles
<1> HIDE DEF n
<1>5. \A k \in 1..n + 1 : more[k].from <= more[k].to /\ \A x \in more[k].from..more[k].to : f[x] = more[k].payout
    <2>1. \A k \in 1..n : M[k].from <= M[k].to /\ \A x \in M[k].from..M[k].to : f[x] = M[k].payout
        BY DEF Tiles, n
    <2>2. \A k \in 1..n + 1 : k \in 1..n \/ k = n + 1
        BY <1>1
    <2> QED BY <1>2, <2>1, <2>2
<1>6. \A k \in 1..n : more[k + 1].from = more[k].to + 1
    <2> SUFFICES ASSUME NEW k \in 1..n PROVE more[k + 1].from = more[k].to + 1
        OBVIOUS
    <2>1. CASE k = n
        BY <1>1, <1>2, <2>1
    <2>2. CASE k # n
        <3>1. k \in 1..n - 1 /\ k + 1 \in 1..n
            BY <1>1, <2>2
        <3>2. M[k + 1].from = M[k].to + 1
            BY <3>1 DEF Tiles, n
        <3> QED BY <1>2, <3>1, <3>2
    <2> QED BY <2>1, <2>2
<1>7. (n + 1) - 1 = n
    BY <1>1
<1> QED BY <1>2, <1>3, <1>4, <1>5, <1>6, <1>7 DEF Tiles, more, n

\* The last range gets longer.
LEMMA TilesLonger ==
    ASSUME NEW M, NEW a, NEW b, NEW f, Tiles(M, a, b, f), NEW t \in Int, b <= t,
           \A x \in b + 1..t : f[x] = f[b]
    PROVE  Tiles([M EXCEPT ![Len(M)] = CETPayout(M[Len(M)].from, t, M[Len(M)].payout)], a, t, f)
<1> DEFINE n == Len(M)
           r == CETPayout(M[n].from, t, M[n].payout)
           more == [M EXCEPT ![n] = r]
<1>1. n \in Nat \ {0} /\ M \in Seq(Range3) /\ M[n] \in Range3 /\ M[n].to = b /\ M[n].payout = f[b] /\ b \in Int
    BY LastTile DEF Tiles
<1>2. r \in Range3 /\ r.from = M[n].from /\ r.to = t /\ r.payout = f[b] /\ r.from \in Int
    BY <1>1 DEF Range3, CETPayout
<1> HIDE DEF n, r
<1>3. n \in 1..n
    BY <1>1
<1>4. /\ more \in Seq(Range3) /\ Len(more) = n /\ more[n] = r
      /\ \A i \in 1..n : i # n => more[i] = M[i]
    <2>1. /\ more \in Seq(Range3) /\ Len(more) = Len(M) /\ \A i \in 1..Len(M) : more[i] = IF i = n THEN r ELSE M[i]
        BY <1>1, <1>2, <1>3, ExceptSeq DEF n
    <2> QED BY <1>3, <2>1 DEF n
<1> HIDE DEF more
<1>5. more # <<>>
    BY <1>1, <1>4, EmptySeq
<1>6. /\ M[1].from = a /\ (\A k \in 1..n : M[k].from <= M[k].to /\ \A x \in M[k].from..M[k].to : f[x] = M[k].payout)
      /\ \A k \in 1..n - 1 : M[k + 1].from = M[k].to + 1
    BY DEF Tiles, n
<1>7. more[1].from = a /\ more[Len(more)].to = t
    <2>1. 1 \in 1..n
        BY <1>1
    <2> QED BY <1>2, <1>4, <1>6, <2>1
<1>8. \A k \in 1..n : more[k].from <= more[k].to /\ \A x \in more[k].from..more[k].to : f[x] = more[k].payout
    <2> SUFFICES ASSUME NEW k \in 1..n
                 PROVE  more[k].from <= more[k].to /\ \A x \in more[k].from..more[k].to : f[x] = more[k].payout
        OBVIOUS
    <2>1. CASE k # n
        BY <1>4, <1>6, <2>1
    <2>2. CASE k = n
        <3>1. M[n].from <= b /\ \A x \in M[n].from..b : f[x] = f[b]
            BY <1>1, <1>3, <1>6
        <3>2. \A x \in M[n].from..t : x \in M[n].from..b \/ x \in b + 1..t
            BY <1>1, <1>2
        <3>3. r.from <= t
            BY <1>1, <1>2, <3>1
        <3> QED BY <1>2, <1>4, <2>2, <3>1, <3>2, <3>3
    <2> QED BY <2>1, <2>2
<1>9. \A k \in 1..n - 1 : more[k + 1].from = more[k].to + 1
    <2> SUFFICES ASSUME NEW k \in 1..n - 1 PROVE more[k + 1].from = more[k].to + 1
        OBVIOUS
    <2>1. k \in 1..n /\ k # n /\ k + 1 \in 1..n
        BY <1>1
    <2>2. more[k].to = M[k].to /\ more[k + 1].from = M[k + 1].from
        BY <1>2, <1>4, <2>1
    <2> QED BY <1>6, <2>2
<1> QED BY <1>4, <1>5, <1>7, <1>8, <1>9 DEF Tiles, more, n, r

\* A range is added: it begins where the last one ends, or after it.
LEMMA CoversOn ==
    ASSUME NEW rs, NEW a, NEW b, NEW f, Covers(rs, a, b, f), NEW r \in Range3,
           r.from \in {b, b + 1}, r.from <= r.to, \A x \in r.from..r.to : f[x] = r.payout
    PROVE  Covers(Append(rs, r), a, r.to, f)
<1> DEFINE M == MergePayouts(rs)
           more == Append(rs, r)
           last == rs[Len(rs)]
<1>1. /\ rs \in Seq(Range3) /\ rs # <<>> /\ Tiles(M, a, b, f) /\ last.to = b /\ last.payout = f[b]
    BY DEF Covers
<1>2. Len(M) \in Nat \ {0} /\ M[Len(M)] \in Range3 /\ M[Len(M)].to = b /\ M[Len(M)].payout = f[b] /\ b \in Int
    BY <1>1, LastTile
<1>3. r.from \in Int /\ r.to \in Int
    BY DEF Range3
<1>4. more \in Seq(Range3) /\ more # <<>> /\ more[Len(more)].to = r.to /\ more[Len(more)].payout = f[r.to]
    <2>1. more \in Seq(Range3) /\ Len(more) = Len(rs) + 1 /\ more[Len(rs) + 1] = r /\ Len(rs) \in Nat
        BY <1>1, AppendProperties, LenProperties
    <2>2. r.to \in r.from..r.to
        BY <1>3
    <2>3. more # <<>>
        BY <2>1, EmptySeq
    <2> QED BY <2>1, <2>2, <2>3
<1>5. MergePayouts(more) = IF Extends2(r, last) THEN [M EXCEPT ![Len(M)] = CETPayout(M[Len(M)].from, r.to, M[Len(M)].payout)]
                           ELSE Append(M, r)
    BY <1>1, MergeAppend
<1> HIDE DEF M, last
<1>6. Tiles(MergePayouts(more), a, r.to, f)
    <2>1. CASE Extends2(r, last)
        <3>1. b <= r.to /\ \A x \in b + 1..r.to : f[x] = f[b]
            <4>1. f[b] = r.payout
                BY <1>1, <2>1 DEF Extends2
            <4>2. \A x \in b + 1..r.to : x \in r.from..r.to
                BY <1>2, <1>3
            <4> QED BY <1>2, <1>3, <4>1, <4>2
        <3>2. Tiles([M EXCEPT ![Len(M)] = CETPayout(M[Len(M)].from, r.to, M[Len(M)].payout)], a, r.to, f)
            BY <1>1, <1>3, <3>1, TilesLonger
        <3> QED BY <1>5, <2>1, <3>2
    <2>2. CASE ~Extends2(r, last)
        <3>1. r.from # b
            <4>1. r.from = b => f[b] = r.payout
                BY <1>3
            <4> QED BY <1>1, <2>2, <4>1 DEF Extends2
        <3>2. Tiles(Append(M, r), a, r.to, f)
            BY <1>1, <3>1, TilesOn
        <3> QED BY <1>5, <2>2, <3>2
    <2> QED BY <2>1, <2>2
<1> QED BY <1>4, <1>6 DEF Covers
\* A range that is gone on with at once is the same as the two in one.
LEMMA MergeTwice ==
    ASSUME NEW rs \in Seq(Range3), rs # <<>>, NEW r \in Range3, NEW s \in Range3, Extends2(s, r)
    PROVE  MergePayouts(Append(Append(rs, r), s)) = MergePayouts(Append(rs, CETPayout(r.from, s.to, r.payout)))
<1> DEFINE M == MergePayouts(rs)
           c == Len(M)
           last == rs[Len(rs)]
           t == CETPayout(r.from, s.to, r.payout)
           one == Append(rs, r)
           M1 == MergePayouts(one)
           c1 == Len(M1)
<1>1. /\ one \in Seq(Range3) /\ one # <<>> /\ one[Len(one)] = r
      /\ M \in Seq(Range3) /\ c \in Nat \ {0} /\ DOMAIN M = 1..c
    <2>1. one \in Seq(Range3) /\ Len(one) = Len(rs) + 1 /\ one[Len(rs) + 1] = r /\ Len(rs) \in Nat
        BY AppendProperties, LenProperties
    <2>2. one # <<>>
        BY <2>1, EmptySeq
    <2>3. M \in Seq(Range3) /\ c \in Nat \ {0}
        BY HeadsAre
    <2> QED BY <2>1, <2>2, <2>3, LenProperties
<1>2. t \in Range3 /\ t.from = r.from /\ t.to = s.to /\ t.payout = r.payout
    BY DEF CETPayout, Range3
<1>3. M1 = IF Extends2(r, last) THEN [M EXCEPT ![c] = CETPayout(M[c].from, r.to, M[c].payout)] ELSE Append(M, r)
    BY MergeAppend
<1>4. MergePayouts(Append(rs, t)) = IF Extends2(t, last) THEN [M EXCEPT ![c] = CETPayout(M[c].from, t.to, M[c].payout)]
                                    ELSE Append(M, t)
    BY <1>2, MergeAppend
<1>5. MergePayouts(Append(one, s)) = [M1 EXCEPT ![c1] = CETPayout(M1[c1].from, s.to, M1[c1].payout)]
    <2> HIDE DEF one
    <2>1. MergePayouts(Append(one, s)) = IF Extends2(s, one[Len(one)])
                                         THEN [M1 EXCEPT ![c1] = CETPayout(M1[c1].from, s.to, M1[c1].payout)] ELSE Append(M1, s)
        BY <1>1, MergeAppend
    <2> QED BY <1>1, <2>1
<1>6. Extends2(t, last) <=> Extends2(r, last)
    BY <1>2 DEF Extends2
<1> HIDE DEF M, last, t, one, M1, c, c1
<1>7. CASE Extends2(r, last)
    <2>1. M1 = [M EXCEPT ![c] = CETPayout(M[c].from, r.to, M[c].payout)]
        BY <1>3, <1>7
    <2>2. c1 = c /\ M1[c] = CETPayout(M[c].from, r.to, M[c].payout)
        <3>1. M[c] \in Range3 /\ CETPayout(M[c].from, r.to, M[c].payout) \in Range3 /\ c \in 1..c
            <4>1. c \in 1..c
                BY <1>1
            <4>2. M[c] \in Range3
                BY <1>1, <4>1, ElementOfSeq DEF c
            <4> QED BY <4>1, <4>2 DEF Range3, CETPayout
        <3>2. Len(M) = c
            BY DEF c
        <3> DEFINE e == CETPayout(M[c].from, r.to, M[c].payout)
                   w == [M EXCEPT ![c] = e]
        <3>3. e \in Range3 /\ M1 = w
            BY <2>1, <3>1
        <3> HIDE DEF e
        <3>4. Len(w) = c /\ \A i \in 1..c : w[i] = IF i = c THEN e ELSE M[i]
            BY <1>1, <3>1, <3>2, <3>3, ExceptSeq
        <3> QED BY <3>1, <3>3, <3>4 DEF c1, e
    <2>3. [M1 EXCEPT ![c] = CETPayout(M[c].from, s.to, M[c].payout)] = [M EXCEPT ![c] = CETPayout(M[c].from, s.to, M[c].payout)]
        BY <2>1
    <2>4. M1[c].from = M[c].from /\ M1[c].payout = M[c].payout
        BY <2>2 DEF CETPayout
    <2> QED BY <1>2, <1>4, <1>5, <1>6, <1>7, <2>2, <2>3, <2>4 DEF one, t
<1>8. CASE ~Extends2(r, last)
    <2>1. M1 = Append(M, r) /\ c1 = c + 1 /\ M1[c + 1] = r /\ M1 \in Seq(Range3) /\ \A i \in 1..c : M1[i] = M[i]
        <3>1. M1 = Append(M, r)
            BY <1>3, <1>8
        <3>2. /\ Append(M, r) \in Seq(Range3) /\ Len(Append(M, r)) = Len(M) + 1
              /\ Append(M, r)[Len(M) + 1] = r /\ \A i \in 1..Len(M) : Append(M, r)[i] = M[i]
            BY <1>1, AppendProperties
        <3> QED BY <3>1, <3>2 DEF c, c1
    <2> DEFINE u == [M1 EXCEPT ![c + 1] = t]
               v == Append(M, t)
    <2>2. u \in Seq(Range3) /\ Len(u) = c + 1 /\ \A i \in 1..c + 1 : u[i] = IF i = c + 1 THEN t ELSE M1[i]
        <3>1. c + 1 \in 1..Len(M1)
            BY <1>1, <2>1 DEF c1
        <3> DEFINE d == c + 1
        <3> HIDE DEF d
        <3>2. d \in 1..Len(M1) /\ Len(M1) = d
            BY <2>1, <3>1 DEF d, c1
        <3> DEFINE w == [M1 EXCEPT ![d] = t]
        <3>3. w \in Seq(Range3) /\ Len(w) = d /\ \A i \in 1..d : w[i] = IF i = d THEN t ELSE M1[i]
            <4>1. w \in Seq(Range3) /\ Len(w) = Len(M1) /\ \A i \in 1..Len(M1) : w[i] = IF i = d THEN t ELSE M1[i]
                <5>1. M1 \in Seq(Range3) /\ d \in 1..Len(M1) /\ t \in Range3
                    BY <1>2, <2>1, <3>2
                <5>2. \A q \in Seq(Range3) : \A i \in 1..Len(q) : \A e \in Range3 :
                        /\ [q EXCEPT ![i] = e] \in Seq(Range3) /\ Len([q EXCEPT ![i] = e]) = Len(q)
                        /\ \A j \in 1..Len(q) : [q EXCEPT ![i] = e][j] = IF j = i THEN e ELSE q[j]
                    BY ExceptSeq
                <5> QED BY <5>1, <5>2
            <4> QED BY <3>2, <4>1
        <3> QED BY <3>3 DEF d
    <2>3. v \in Seq(Range3) /\ Len(v) = c + 1 /\ v[c + 1] = t /\ \A i \in 1..c : v[i] = M[i]
        BY <1>1, <1>2, AppendProperties DEF c
    <2> HIDE DEF u, v
    <2>4. \A i \in 1..c + 1 : i = c + 1 \/ i \in 1..c
        BY <1>1
    <2>5. u = v
        <3>1. Len(u) = Len(v) /\ \A i \in 1..Len(u) : u[i] = v[i]
            BY <2>1, <2>2, <2>3, <2>4
        <3> QED BY <2>2, <2>3, <3>1, SeqEqual
    <2>6. MergePayouts(Append(one, s)) = u
        BY <1>5, <2>1 DEF u, t
    <2>7. MergePayouts(Append(rs, t)) = v
        BY <1>4, <1>6, <1>8 DEF v
    <2> QED BY <2>5, <2>6, <2>7 DEF one, t
<1> QED BY <1>7, <1>8

\* The first of two may then be empty, or end before it begins.
LEMMA CoversTwo ==
    ASSUME NEW rs, NEW a, NEW b, NEW f, Covers(rs, a, b, f), NEW r \in Range3, NEW s \in Range3,
           r.from \in {b, b + 1}, Extends2(s, r), r.from <= s.to, \A x \in r.from..s.to : f[x] = r.payout
    PROVE  Covers(Append(Append(rs, r), s), a, s.to, f)
<1> DEFINE t == CETPayout(r.from, s.to, r.payout)
           more == Append(Append(rs, r), s)
<1>1. t \in Range3 /\ t.from = r.from /\ t.to = s.to /\ t.payout = r.payout /\ s.to \in r.from..s.to
    BY DEF CETPayout, Range3
<1>2. rs \in Seq(Range3) /\ rs # <<>>
    BY DEF Covers
<1>3. Covers(Append(rs, t), a, s.to, f)
    BY <1>1, CoversOn
<1>4. MergePayouts(more) = MergePayouts(Append(rs, t))
    BY <1>2, MergeTwice
<1>5. more \in Seq(Range3) /\ more # <<>> /\ more[Len(more)] = s
    <2> DEFINE one == Append(rs, r)
    <2>1. one \in Seq(Range3)
        BY <1>2, AppendProperties
    <2> HIDE DEF one
    <2>2. /\ Append(one, s) \in Seq(Range3) /\ Len(Append(one, s)) = Len(one) + 1 /\ Append(one, s)[Len(one) + 1] = s
          /\ Len(one) \in Nat
        BY <2>1, AppendProperties, LenProperties
    <2>3. Append(one, s) # <<>>
        BY <2>2, EmptySeq
    <2> QED BY <2>2, <2>3 DEF one
<1>6. s.payout = f[s.to]
    BY <1>1 DEF Extends2
<1> QED BY <1>3, <1>4, <1>5, <1>6 DEF Covers

\* One range is all there is to merge.
LEMMA CoversOne ==
    ASSUME NEW r \in Range3, NEW f, r.from <= r.to, \A x \in r.from..r.to : f[x] = r.payout
    PROVE  Covers(<<r>>, r.from, r.to, f)
<1> DEFINE rs == <<r>>
<1>1. rs \in Seq(Range3) /\ Len(rs) = 1 /\ rs[1] = r /\ rs # <<>> /\ DOMAIN rs = {1}
    OBVIOUS
<1>2. r.from \in Int /\ r.to \in Int /\ r.to \in r.from..r.to
    BY DEF Range3
<1> HIDE DEF rs
<1>3. Heads(rs) = {1}
    BY <1>1 DEF Heads
<1>4. Cardinality({1}) = 1
    BY FS_Singleton
<1>5. Nth({1}, 1) = 1
    <2>1. {1} \in SUBSET (1..1) /\ 1 \in 1..Cardinality({1}) /\ 1 \in Nat
        BY <1>4
    <2>2. Nth({1}, 1) \in {1}
        BY <2>1, NthIs
    <2> QED BY <2>2
<1>6. Block(rs, 1) = r
    <2>1. Block(rs, 1) = CETPayout(r.from, r.to, r.payout)
        BY <1>1, <1>3, <1>4, <1>5 DEF Block
    <2> QED BY <2>1 DEF CETPayout, Range3
<1>7. MergePayouts(rs) = [h \in 1..1 |-> Block(rs, h)]
    BY <1>3, <1>4, MergeIs
<1>8. MergePayouts(rs) \in Seq(Range3) /\ Len(MergePayouts(rs)) = 1 /\ MergePayouts(rs)[1] = r
    <2>1. MergePayouts(rs) \in Seq(Range3) /\ Len(MergePayouts(rs)) = 1
        BY <1>1, <1>3, <1>4, HeadsAre
    <2> QED BY <1>6, <1>7, <2>1
<1> DEFINE M == MergePayouts(rs)
<1> HIDE DEF M
<1>9. M \in Seq(Range3) /\ Len(M) = 1 /\ M[1] = r
    BY <1>8 DEF M
<1>10. M # <<>> /\ \A k \in 1..1 : k = 1
    BY <1>9, EmptySeq
<1>11. Tiles(M, r.from, r.to, f)
    <2>1. 1..1 - 1 = {}
        OBVIOUS
    <2> QED BY <1>9, <1>10, <2>1 DEF Tiles
<1> QED BY <1>1, <1>2, <1>11 DEF Covers, M, rs

\* A sequence is put after another range by range.
LEMMA ConcatOn ==
    ASSUME NEW A \in Seq(Range3), NEW M \in Seq(Range3), NEW k \in Nat, k < Len(M)
    PROVE  A \o SubSeq(M, 1, k + 1) = Append(A \o SubSeq(M, 1, k), M[k + 1])
<1> DEFINE u == SubSeq(M, 1, k)
           v == SubSeq(M, 1, k + 1)
           e == M[k + 1]
           n == Len(A)
<1>1. n \in Nat /\ Len(M) \in Nat /\ k + 1 \in 1..Len(M) /\ \A i \in 1..k + 1 : i \in 1..Len(M)
    BY LenProperties
<1>2. e \in Range3 /\ \A i \in 1..k + 1 : M[i] \in Range3
    BY <1>1, ElementOfSeq
<1>3. u \in Seq(Range3) /\ Len(u) = k /\ \A i \in 1..k : u[i] = M[i]
    <2>1. /\ SubSeq(M, 1, k) \in Seq(Range3) /\ Len(SubSeq(M, 1, k)) = IF 1 <= k THEN k - 1 + 1 ELSE 0
          /\ \A i \in 1..k - 1 + 1 : SubSeq(M, 1, k)[i] = M[1 + i - 1]
        BY <1>2, SubSeqProperties
    <2> QED BY <2>1
<1>4. v \in Seq(Range3) /\ Len(v) = k + 1 /\ \A i \in 1..k + 1 : v[i] = M[i]
    <2>1. /\ SubSeq(M, 1, k + 1) \in Seq(Range3) /\ Len(SubSeq(M, 1, k + 1)) = IF 1 <= k + 1 THEN k + 1 - 1 + 1 ELSE 0
          /\ \A i \in 1..k + 1 - 1 + 1 : SubSeq(M, 1, k + 1)[i] = M[1 + i - 1]
        BY <1>2, SubSeqProperties
    <2> QED BY <2>1
<1> HIDE DEF u, v, e, n
<1>5. A \o u \in Seq(Range3) /\ Len(A \o u) = n + k
      /\ \A i \in 1..n + k : (A \o u)[i] = IF i <= n THEN A[i] ELSE u[i - n]
    BY <1>3, ConcatProperties DEF n
<1>6. A \o v \in Seq(Range3) /\ Len(A \o v) = n + (k + 1)
      /\ \A i \in 1..n + (k + 1) : (A \o v)[i] = IF i <= n THEN A[i] ELSE v[i - n]
    <2> DEFINE m == k + 1
    <2> HIDE DEF m
    <2>1. v \in Seq(Range3) /\ Len(v) = m
        BY <1>4 DEF m
    <2>2. A \o v \in Seq(Range3) /\ Len(A \o v) = Len(A) + Len(v)
          /\ \A i \in 1..Len(A) + Len(v) : (A \o v)[i] = IF i <= Len(A) THEN A[i] ELSE v[i - Len(A)]
        BY <2>1, ConcatProperties
    <2> QED BY <2>1, <2>2 DEF m, n
<1> DEFINE x == A \o u
           y == A \o v
           z == Append(x, e)
<1>7. /\ x \in Seq(Range3) /\ Len(x) = n + k /\ \A i \in 1..n + k : x[i] = IF i <= n THEN A[i] ELSE u[i - n]
      /\ y \in Seq(Range3) /\ Len(y) = n + (k + 1) /\ \A i \in 1..n + (k + 1) : y[i] = IF i <= n THEN A[i] ELSE v[i - n]
    BY <1>5, <1>6
<1> HIDE DEF x, y
<1>8. z \in Seq(Range3) /\ Len(z) = n + k + 1 /\ z[n + k + 1] = e /\ \A i \in 1..n + k : z[i] = x[i]
    BY <1>2, <1>7, AppendProperties
<1> HIDE DEF z
<1>9. \A i \in 1..n + k + 1 : y[i] = z[i]
    <2> SUFFICES ASSUME NEW i \in 1..n + k + 1 PROVE y[i] = z[i]
        OBVIOUS
    <2>1. CASE i <= n
        <3>1. i \in 1..n + k /\ i \in 1..n + (k + 1)
            BY <1>1, <2>1
        <3>2. x[i] = A[i] /\ y[i] = A[i] /\ z[i] = x[i]
            BY <1>7, <1>8, <2>1, <3>1
        <3> QED BY <3>2
    <2>2. CASE i > n /\ i # n + k + 1
        <3>1. i \in 1..n + k /\ i \in 1..n + (k + 1) /\ i - n \in 1..k /\ i - n \in 1..k + 1 /\ ~(i <= n)
            BY <1>1, <2>2
        <3> QED BY <1>3, <1>4, <1>7, <1>8, <3>1
    <2>3. CASE i = n + k + 1
        <3>1. i \in 1..n + (k + 1) /\ i - n = k + 1 /\ k + 1 \in 1..k + 1 /\ ~(i <= n)
            BY <1>1, <2>3
        <3> QED BY <1>4, <1>7, <1>8, <2>3, <3>1 DEF e
    <2> QED BY <1>1, <2>1, <2>2, <2>3
<1>10. y = z
    <2>1. Len(y) = Len(z) /\ \A i \in 1..Len(y) : y[i] = z[i]
        BY <1>1, <1>7, <1>8, <1>9
    <2> QED BY <1>7, <1>8, <2>1, SeqEqual
<1> QED BY <1>10 DEF x, y, z, u, v, e

\* Ranges that follow those of A, or share the outcome those end with.
LEMMA CoversJoin ==
    ASSUME NEW A \in Seq(Range3), NEW M, NEW a, NEW b, NEW c, NEW f, Tiles(M, b, c, f),
           (A = <<>> /\ a = b) \/ Covers(A, a, b, f)
    PROVE  Covers(A \o M, a, c, f)
<1> DEFINE Is(k) == k < Len(M) => Covers(A \o SubSeq(M, 1, k + 1), a, M[k + 1].to, f)
           T == {k \in Nat : Is(k)}
<1>1. /\ M \in Seq(Range3) /\ M # <<>> /\ M[1].from = b /\ M[Len(M)].to = c
      /\ \A k \in 1..Len(M) : M[k].from <= M[k].to /\ \A x \in M[k].from..M[k].to : f[x] = M[k].payout
      /\ \A k \in 1..Len(M) - 1 : M[k + 1].from = M[k].to + 1
    BY DEF Tiles
<1>2. Len(M) \in Nat \ {0} /\ \A k \in 1..Len(M) : M[k] \in Range3
    BY <1>1, LastTile, ElementOfSeq
<1>3. Is(0)
    <2>1. A \o SubSeq(M, 1, 0 + 1) = Append(A \o SubSeq(M, 1, 0), M[0 + 1])
        BY <1>1, <1>2, ConcatOn
    <2>2. SubSeq(M, 1, 0) = <<>>
        BY SubSeqEmpty
    <2>3. A \o SubSeq(M, 1, 0 + 1) = Append(A, M[1])
        BY <2>1, <2>2, ConcatEmptySeq
    <2>4. 1 \in 1..Len(M)
        BY <1>2
    <2> DEFINE r == M[1]
    <2>5. r \in Range3 /\ r.from = b /\ r.from <= r.to /\ \A x \in r.from..r.to : f[x] = r.payout
        BY <1>1, <1>2, <2>4
    <2> HIDE DEF r
    <2>6. Covers(Append(A, r), a, r.to, f)
        <3>1. CASE A = <<>> /\ a = b
            <4>1. Append(A, r) = <<r>>
                BY <3>1
            <4>2. Covers(<<r>>, r.from, r.to, f)
                BY <2>5, CoversOne
            <4> QED BY <2>5, <3>1, <4>1, <4>2
        <3>2. CASE Covers(A, a, b, f)
            <4>1. r.from \in {b, b + 1}
                BY <2>5
            <4> QED BY <2>5, <3>2, <4>1, CoversOn
        <3> QED BY <3>1, <3>2
    <2>7. Covers(A \o SubSeq(M, 1, 0 + 1), a, M[0 + 1].to, f)
        <3>1. 0 + 1 = 1
            OBVIOUS
        <3> QED BY <2>3, <2>6, <3>1, Zenon DEF r
    <2> QED BY <2>7
<1>4. ASSUME NEW k \in Nat, Is(k) PROVE Is(k + 1)
    <2> SUFFICES ASSUME k + 1 < Len(M) PROVE Covers(A \o SubSeq(M, 1, k + 1 + 1), a, M[k + 1 + 1].to, f)
        OBVIOUS
    <2> DEFINE n == k + 1
               X == A \o SubSeq(M, 1, n)
               r == M[n + 1]
               e == M[n].to
    <2>1. n \in Nat /\ n < Len(M) /\ k < Len(M) /\ n \in 1..Len(M) - 1 /\ n + 1 \in 1..Len(M) /\ n \in 1..Len(M)
        BY <1>2
    <2>2. Covers(X, a, e, f)
        BY <1>4, <2>1
    <2> HIDE DEF n
    <2>3. A \o SubSeq(M, 1, n + 1) = Append(X, r)
        BY <1>1, <2>1, ConcatOn
    <2>4. r \in Range3 /\ r.from = e + 1 /\ r.from <= r.to /\ \A x \in r.from..r.to : f[x] = r.payout
        BY <1>1, <1>2, <2>1
    <2> HIDE DEF X, r, e
    <2>5. Covers(Append(X, r), a, r.to, f)
        BY <2>2, <2>4, CoversOn
    <2> QED BY <2>3, <2>5 DEF r, n
<1>5. \A k \in Nat : k \in T => k + 1 \in T
    <2> HIDE DEF Is
    <2> QED BY <1>4
<1>6. 0 \in T
    <2> HIDE DEF Is
    <2> QED BY <1>3
<1>7. Nat \subseteq T
    <2> HIDE DEF T
    <2> QED BY <1>5, <1>6, Induct
<1>8. Is(Len(M) - 1)
    <2> HIDE DEF Is
    <2>1. Len(M) - 1 \in Nat
        BY <1>2
    <2> QED BY <1>7, <2>1
<1>9. Len(M) - 1 < Len(M) /\ Len(M) - 1 + 1 = Len(M)
    BY <1>2
<1>10. SubSeq(M, 1, Len(M)) = M
    BY <1>1, SubSeqFull
<1> QED BY <1>1, <1>8, <1>9, <1>10

\* Every outcome is in one range.
LEMMA TilesPart ==
    ASSUME NEW M, NEW a, NEW b, NEW f, Tiles(M, a, b, f)
    PROVE  /\ Parted(M, a..b)
           /\ \A x \in a..b : \E k \in DOMAIN M :
                /\ x \in M[k].from..M[k].to /\ M[k].payout = f[x]
                /\ \A j \in DOMAIN M \ {k} : x \notin M[j].from..M[j].to
<1> DEFINE n == Len(M)
           outcomes == a..b
<1> outcomes = a..b
    OBVIOUS
<1> HIDE DEF outcomes
<1>1. n \in Nat \ {0} /\ DOMAIN M = 1..n /\ \A k \in 1..n : M[k].from \in Int /\ M[k].to \in Int
    <2>1. n \in Nat \ {0} /\ DOMAIN M = 1..n /\ \A k \in 1..n : M[k] \in Range3
        BY LastTile, ElementOfSeq, LenProperties DEF Tiles
    <2> QED BY <2>1 DEF Range3
<1>2. /\ M[1].from = a /\ M[n].to = b
      /\ \A k \in 1..n : M[k].from <= M[k].to /\ \A x \in M[k].from..M[k].to : f[x] = M[k].payout
      /\ \A k \in 1..n - 1 : M[k + 1].from = M[k].to + 1
    BY DEF Tiles
<1> HIDE DEF n
<1>3. \A j \in 1..n : \A k \in 1..j - 1 : M[k].to < M[j].from
    <2> DEFINE Is(j) == j \in 1..n => \A k \in 1..j - 1 : M[k].to < M[j].from
               T == {j \in Nat : Is(j)}
    <2>1. Is(0)
        OBVIOUS
    <2>2. ASSUME NEW j \in Nat, Is(j) PROVE Is(j + 1)
        <3> SUFFICES ASSUME j + 1 \in 1..n, NEW k \in 1..j PROVE M[k].to < M[j + 1].from
            OBVIOUS
        <3>1. j \in 1..n /\ j \in 1..n - 1 /\ k \in 1..n
            BY <1>1
        <3>2. M[j + 1].from = M[j].to + 1 /\ M[j].from <= M[j].to
            BY <1>2, <3>1
        <3>3. CASE k = j
            BY <1>1, <3>1, <3>2, <3>3
        <3>4. CASE k # j
            <4>1. k \in 1..j - 1
                BY <3>4
            <4>2. M[k].to < M[j].from
                BY <2>2, <3>1, <4>1
            <4> QED BY <1>1, <3>1, <3>2, <4>2
        <3> QED BY <3>3, <3>4
    <2>3. 0 \in T /\ \A j \in Nat : j \in T => j + 1 \in T
        <3> HIDE DEF Is
        <3> QED BY <2>1, <2>2
    <2>4. Nat \subseteq T
        <3> HIDE DEF T
        <3> QED BY <2>3, Induct
    <2> QED BY <1>1, <2>4
<1>4. \A k \in 1..n : a <= M[k].from /\ M[k].to <= b
    <2> SUFFICES ASSUME NEW k \in 1..n PROVE a <= M[k].from /\ M[k].to <= b
        OBVIOUS
    <2>1. 1 \in 1..n /\ n \in 1..n /\ a \in Int /\ b \in Int
        BY <1>1, <1>2
    <2>2. M[1].from <= M[1].to /\ M[n].from <= M[n].to /\ M[k].from <= M[k].to
        BY <1>2, <2>1
    <2>3. a <= M[k].from
        <3>1. CASE k = 1
            BY <1>2, <2>1, <3>1
        <3>2. CASE k # 1
            <4>1. 1 \in 1..k - 1
                BY <3>2
            <4>2. M[1].to < M[k].from
                BY <1>3, <4>1
            <4> QED BY <1>1, <1>2, <2>1, <2>2, <4>2
        <3> QED BY <3>1, <3>2
    <2>4. M[k].to <= b
        <3>1. CASE k = n
            BY <1>2, <2>1, <3>1
        <3>2. CASE k # n
            <4>1. k \in 1..n - 1
                BY <1>1, <3>2
            <4>2. M[k].to < M[n].from
                BY <1>3, <2>1, <4>1
            <4> QED BY <1>1, <1>2, <2>1, <2>2, <4>2
        <3> QED BY <3>1, <3>2
    <2> QED BY <2>3, <2>4
<1>5. a \in Int /\ b \in Int
    BY <1>1, <1>2
<1>6. ASSUME NEW x \in a..b PROVE \E k \in 1..n : x \in M[k].from..M[k].to
    <2> DEFINE T == {k \in Nat : k \in 1..n /\ x <= M[k].to}
    <2>1. n \in T
        BY <1>1, <1>2
    <2>2. PICK k \in T : \A m \in T : k <= m
        <3> HIDE DEF T
        <3>1. T \in SUBSET Nat /\ T # {}
            BY <2>1 DEF T
        <3> QED BY <3>1, Least
    <2>3. k \in 1..n /\ x <= M[k].to /\ \A m \in 1..n : x <= M[m].to => k <= m
        BY <2>2
    <2>4. M[k].from <= x
        <3>1. CASE k = 1
            BY <1>2, <3>1
        <3>2. CASE k # 1
            <4>1. k - 1 \in 1..n /\ k - 1 \in 1..n - 1
                BY <1>1, <2>3, <3>2
            <4>2. ~(x <= M[k - 1].to)
                BY <2>3, <4>1
            <4>3. M[k - 1 + 1].from = M[k - 1].to + 1 /\ k - 1 + 1 = k
                BY <1>2, <2>3, <4>1
            <4> QED BY <1>1, <1>5, <4>1, <4>2, <4>3
        <3> QED BY <3>1, <3>2
    <2> QED BY <1>1, <1>5, <2>3, <2>4
<1>7. ASSUME NEW x \in a..b, NEW k \in 1..n, x \in M[k].from..M[k].to, NEW j \in 1..n, j # k
      PROVE  x \notin M[j].from..M[j].to
    <2>1. k \in 1..j - 1 \/ j \in 1..k - 1
        BY <1>7
    <2>2. M[k].to < M[j].from \/ M[j].to < M[k].from
        BY <1>3, <2>1
    <2> QED BY <1>1, <1>5, <1>7, <2>2
<1>8. ASSUME NEW x \in a..b
      PROVE  \E k \in 1..n : /\ x \in M[k].from..M[k].to /\ M[k].payout = f[x]
                             /\ \A j \in 1..n \ {k} : x \notin M[j].from..M[j].to
    <2>1. PICK k \in 1..n : x \in M[k].from..M[k].to
        BY <1>6
    <2>2. M[k].payout = f[x]
        BY <1>2, <2>1
    <2>3. \A j \in 1..n \ {k} : x \notin M[j].from..M[j].to
        BY <1>7, <2>1
    <2> QED BY <2>1, <2>2, <2>3
<1>9. \A k \in 1..n : M[k].from \in a..b /\ M[k].to \in a..b /\ M[k].from <= M[k].to
    BY <1>1, <1>2, <1>4, <1>5
<1> QED BY <1>1, <1>8, <1>9 DEF Parted

-----------------------------------------------------------------------------
(***************************************************************************)
(* The curve of a piece.                                                   *)
(***************************************************************************)
\* Multiplication keeps the order.
LEMMA Grows == \A a, b, r \in Int : a < b /\ r > 0 => a * r < b * r
<1> TAKE a, b, r \in Int
<1>1. \A d, e \in Int : d > 0 /\ e > 0 => d * e > 0
    OBVIOUS
<1>2. (b - a) * r = b * r - a * r
    OBVIOUS
<1>3. a * r \in Int /\ b * r \in Int
    OBVIOUS
<1>4. a < b /\ r > 0 => (b - a) * r > 0
    <2>1. b - a \in Int /\ (a < b => b - a > 0)
        OBVIOUS
    <2> QED BY <1>1, <2>1
<1> QED BY <1>2, <1>3, <1>4

\* ... and that of numbers that may be equal.
LEMMA GrowsToo == \A a, b, r \in Int : a <= b /\ r >= 0 => a * r <= b * r
<1> TAKE a, b, r \in Int
<1>1. CASE a = b \/ r = 0
    BY <1>1
<1>2. CASE a # b /\ r # 0
    BY <1>2, Grows
<1> QED BY <1>1, <1>2

Rising(c) == c.kind = "line" /\ Rise(c) > 0

\* What a piece that is not constant follows.
Curve(c, collateral) ==
  \/ c \in HyperbolaCurve
  \/ c \in LineCurve(collateral) /\ c.from.outcome < c.to.outcome /\ c.from.payout # c.to.payout

\* A line is looked at between its points.
OnCurve(c) == IF c.kind = "line" THEN c.from.outcome..c.to.outcome ELSE Int

\* Outcome x is past the one that pays w / 2.
Past(c, x, w) == IF Rising(c) THEN Compare(c, x, w) >= 0 ELSE Compare(c, x, w) = -1

\* The difference that Compare takes the sign of.
Off(c, x, w) ==
  IF c.kind = "line" THEN (2 * Rise(c)) * (x - c.from.outcome) + (2 * c.from.payout - w) * Run(c)
  ELSE 2 * c.k + (2 * c.f - w) * (x - c.t)

\* The sign of a number.
LEMMA SignIs == \A n : /\ Sign(n) \in {-1, 0, 1}
                       /\ n \in Int => (Sign(n) = 1 <=> n > 0) /\ (Sign(n) = 0 <=> n = 0) /\ (Sign(n) = -1 <=> n < 0)
BY DEF Sign

\* The fields of a curve are numbers.
LEMMA CurveIs ==
    ASSUME NEW collateral \in Nat, NEW c, Curve(c, collateral)
    PROVE  /\ c.kind \in {"line", "hyperbola"}
           /\ c.kind = "line" =>
                /\ c.from.outcome \in Nat /\ c.to.outcome \in Nat /\ c.from.outcome < c.to.outcome
                /\ c.from.payout \in 0..collateral /\ c.to.payout \in 0..collateral
                /\ Run(c) \in Nat \ {0} /\ Rise(c) \in Int \ {0}
                /\ Run(c) = c.to.outcome - c.from.outcome /\ Rise(c) = c.to.payout - c.from.payout
           /\ c.kind = "hyperbola" => c.k \in Nat \ {0} /\ c.t \in Int /\ c.f \in Int /\ ~Rising(c)
<1>1. CASE c \in HyperbolaCurve
    BY <1>1 DEF HyperbolaCurve, Rising
<1>2. CASE c \in LineCurve(collateral) /\ c.from.outcome < c.to.outcome /\ c.from.payout # c.to.payout
    <2>1. c.kind = "line" /\ c.from \in PayoutPoint(collateral) /\ c.to \in PayoutPoint(collateral)
        BY <1>2 DEF LineCurve
    <2>2. /\ c.from.outcome \in Nat /\ c.to.outcome \in Nat
          /\ c.from.payout \in 0..collateral /\ c.to.payout \in 0..collateral
        BY <2>1 DEF PayoutPoint
    <2>3. Run(c) \in Nat \ {0} /\ Rise(c) \in Int \ {0}
        BY <1>2, <2>2 DEF Run, Rise
    <2> QED BY <1>2, <2>1, <2>2, <2>3 DEF Run, Rise
<1> QED BY <1>1, <1>2 DEF Curve

\* Compare is the exact sign, unless that is 0.
LEMMA CompareIs ==
    ASSUME NEW collateral \in Nat, NEW c, Curve(c, collateral), NEW x \in Int, NEW w \in Int
    PROVE  /\ Compare(c, x, w) \in {-1, 0, 1} /\ Off(c, x, w) \in Int
           /\ c.kind = "line" => /\ Off(c, x, w) > 0 => Compare(c, x, w) = 1
                                 /\ Off(c, x, w) < 0 => Compare(c, x, w) = -1
           /\ c.kind = "hyperbola" => /\ x <= c.t => Compare(c, x, w) = 1
                                      /\ x > c.t /\ Off(c, x, w) > 0 => Compare(c, x, w) = 1
                                      /\ x > c.t /\ Off(c, x, w) < 0 => Compare(c, x, w) = -1
<1>1. CASE c.kind = "line"
    <2> DEFINE e == 2 * Rise(c) * (x - c.from.outcome) + (2 * c.from.payout - w) * Run(c)
    <2>1. e \in Int /\ e = Off(c, x, w)
        <3>1. Rise(c) \in Int /\ Run(c) \in Int /\ c.from.outcome \in Int /\ c.from.payout \in Int
            BY <1>1, CurveIs
        <3> HIDE DEF e
        <3> QED BY <1>1, <3>1 DEF e, Off
    <2>2. Compare(c, x, w) = IF Sign(e) # 0 THEN Sign(e) ELSE Sign(Excess(Rise(c), Run(c)) * (x - c.from.outcome))
        BY <1>1 DEF Compare, LineCompare
    <2> HIDE DEF e
    <2>3. Compare(c, x, w) \in {-1, 0, 1}
        BY <2>2, SignIs
    <2>4. (e > 0 => Compare(c, x, w) = 1) /\ (e < 0 => Compare(c, x, w) = -1)
        <3>1. (e > 0 => Sign(e) = 1) /\ (e < 0 => Sign(e) = -1)
            BY <2>1, SignIs
        <3> QED BY <2>2, <3>1
    <2> QED BY <1>1, <2>1, <2>3, <2>4
<1>2. CASE c.kind = "hyperbola"
    <2> DEFINE u == x - c.t
               e == 2 * c.k + (2 * c.f - w) * u
    <2>1. e \in Int /\ e = Off(c, x, w) /\ u \in Int /\ (u <= 0 <=> x <= c.t) /\ c.t \in Int
        <3>1. c.k \in Int /\ c.f \in Int /\ c.t \in Int
            BY <1>2, CurveIs
        <3> QED BY <1>2, <3>1 DEF Off
    <2>2. Compare(c, x, w) = IF u <= 0 THEN 1 ELSE IF Sign(e) # 0 THEN Sign(e) ELSE Sign(Excess(c.k, u))
        BY <1>2 DEF Compare, HyperbolaCompare
    <2> HIDE DEF e, u
    <2>3. Compare(c, x, w) \in {-1, 0, 1}
        BY <2>2, SignIs
    <2>4. (e > 0 => Sign(e) = 1) /\ (e < 0 => Sign(e) = -1)
        BY <2>1, SignIs
    <2>5. x > c.t <=> ~(u <= 0)
        BY <2>1
    <2> QED BY <1>2, <2>1, <2>2, <2>3, <2>4, <2>5
<1> QED BY <1>1, <1>2, CurveIs

\* Less is paid by all that pays more.
LEMMA CompareLess ==
    ASSUME NEW collateral \in Nat, NEW c, Curve(c, collateral), NEW x \in Int, NEW w \in Int, NEW v \in Int,
           w < v, Compare(c, x, v) # -1
    PROVE  Compare(c, x, w) = 1
<1>1. Off(c, x, w) \in Int /\ Off(c, x, v) \in Int
    BY CompareIs
<1>2. CASE c.kind = "line"
    <2>1. Off(c, x, v) >= 0
        BY <1>1, <1>2, CompareIs
    <2>2. Off(c, x, w) > Off(c, x, v)
        <3> DEFINE a == (2 * Rise(c)) * (x - c.from.outcome)
                   p == 2 * c.from.payout
                   r == Run(c)
        <3>1. a \in Int /\ p \in Int /\ r \in Int /\ r > 0
            <4>1. Rise(c) \in Int /\ c.from.outcome \in Int /\ c.from.payout \in Int /\ Run(c) \in Int /\ Run(c) > 0
                BY <1>2, CurveIs
            <4> QED BY <4>1
        <3>2. Off(c, x, v) = a + (p - v) * r /\ Off(c, x, w) = a + (p - w) * r
            BY <1>2 DEF Off
        <3> HIDE DEF a, p, r
        <3>3. (p - v) * r < (p - w) * r /\ (p - v) * r \in Int /\ (p - w) * r \in Int
            <4>1. p - v \in Int /\ p - w \in Int /\ p - v < p - w
                BY <3>1
            <4> QED BY <3>1, <4>1, Grows
        <3> QED BY <3>1, <3>2, <3>3
    <2>3. Off(c, x, w) > 0
        BY <1>1, <2>1, <2>2
    <2> QED BY <1>2, <2>3, CompareIs
<1>3. CASE c.kind = "hyperbola" /\ x > c.t
    <2>1. Off(c, x, v) >= 0
        BY <1>1, <1>3, CompareIs
    <2>2. Off(c, x, w) > Off(c, x, v)
        <3> DEFINE a == 2 * c.k
                   p == 2 * c.f
                   r == x - c.t
        <3>1. a \in Int /\ p \in Int /\ r \in Int /\ r > 0
            <4>1. c.k \in Int /\ c.f \in Int /\ c.t \in Int
                BY <1>3, CurveIs
            <4> QED BY <1>3, <4>1
        <3>2. Off(c, x, v) = a + (p - v) * r /\ Off(c, x, w) = a + (p - w) * r
            BY <1>3 DEF Off
        <3> HIDE DEF a, p, r
        <3>3. (p - v) * r < (p - w) * r /\ (p - v) * r \in Int /\ (p - w) * r \in Int
            <4>1. p - v \in Int /\ p - w \in Int /\ p - v < p - w
                BY <3>1
            <4> QED BY <3>1, <4>1, Grows
        <3> QED BY <3>1, <3>2, <3>3
    <2>3. Off(c, x, w) > 0
        BY <1>1, <2>1, <2>2
    <2> QED BY <1>3, <2>3, CompareIs
<1>4. CASE c.kind = "hyperbola" /\ ~(x > c.t)
    <2>1. x <= c.t
        BY <1>4, CurveIs
    <2> QED BY <1>4, <2>1, CompareIs
<1> QED BY <1>2, <1>3, <1>4, CurveIs

\* What is past an outcome stays so.
LEMMA StaysPast ==
    ASSUME NEW collateral \in Nat, NEW c, Curve(c, collateral), NEW x \in Int, NEW y \in Int, NEW w \in Int,
           x <= y, Past(c, x, w)
    PROVE  Past(c, y, w)
<1>1. Off(c, x, w) \in Int /\ Off(c, y, w) \in Int
    BY CompareIs
<1>2. CASE x = y
    BY <1>2
<1>3. CASE x # y /\ c.kind = "line"
    <2> DEFINE s == 2 * Rise(c)
               f == c.from.outcome
               b == (2 * c.from.payout - w) * Run(c)
    <2>1. s \in Int /\ s # 0 /\ f \in Int /\ b \in Int
        <3>1. Rise(c) \in Int /\ Rise(c) # 0 /\ c.from.outcome \in Int /\ c.from.payout \in Int /\ Run(c) \in Int
            BY <1>3, CurveIs
        <3> QED BY <3>1
    <2>2. Off(c, x, w) = s * (x - f) + b /\ Off(c, y, w) = s * (y - f) + b
        BY <1>3 DEF Off
    <2>3. Rising(c) <=> s > 0
        <3>1. Rise(c) \in Int
            BY <1>3, CurveIs
        <3> QED BY <1>3, <3>1 DEF Rising
    <2> HIDE DEF s, f, b
    <2>4. x - f \in Int /\ y - f \in Int /\ x - f < y - f
        BY <1>3, <2>1
    <2>5. CASE s > 0
        <3>1. s * (x - f) < s * (y - f) /\ s * (x - f) \in Int /\ s * (y - f) \in Int
            <4>1. (x - f) * s < (y - f) * s
                BY <2>1, <2>4, <2>5, Grows
            <4>2. \A i, j \in Int : i * j = j * i /\ i * j \in Int
                OBVIOUS
            <4> QED BY <2>1, <2>4, <4>1, <4>2
        <3>2. Off(c, x, w) < Off(c, y, w)
            BY <2>1, <2>2, <3>1
        <3>3. Compare(c, x, w) >= 0
            BY <2>3, <2>5 DEF Past
        <3>4. Off(c, x, w) >= 0
            BY <1>1, <1>3, <3>3, CompareIs
        <3>5. Compare(c, y, w) = 1
            <4>1. Off(c, y, w) > 0
                BY <1>1, <3>2, <3>4
            <4> QED BY <1>3, <4>1, CompareIs
        <3> QED BY <2>3, <2>5, <3>5 DEF Past
    <2>6. CASE s < 0
        <3>1. s * (x - f) > s * (y - f) /\ s * (x - f) \in Int /\ s * (y - f) \in Int
            <4>1. (x - f) * (-s) < (y - f) * (-s)
                BY <2>1, <2>4, <2>6, Grows
            <4>2. \A i, j \in Int : i * (-j) = -(j * i) /\ j * i \in Int
                OBVIOUS
            <4> QED BY <2>1, <2>4, <4>1, <4>2
        <3>2. Off(c, y, w) < Off(c, x, w)
            BY <2>1, <2>2, <3>1
        <3>3. Compare(c, x, w) = -1 /\ ~Rising(c)
            BY <2>1, <2>3, <2>6 DEF Past
        <3>4. Off(c, x, w) <= 0
            <4>1. Off(c, x, w) > 0 => Compare(c, x, w) = 1
                BY <1>3, CompareIs
            <4> QED BY <1>1, <3>3, <4>1
        <3>5. Compare(c, y, w) = -1
            <4>1. Off(c, y, w) < 0
                BY <1>1, <3>2, <3>4
            <4> QED BY <1>3, <4>1, CompareIs
        <3> QED BY <3>3, <3>5 DEF Past
    <2> QED BY <2>1, <2>5, <2>6
<1>4. CASE x # y /\ c.kind = "hyperbola"
    <2> DEFINE a == 2 * c.k
               p == 2 * c.f - w
               t == c.t
    <2>1. a \in Int /\ a > 0 /\ p \in Int /\ t \in Int
        <3>1. c.k \in Int /\ c.k > 0 /\ c.f \in Int /\ c.t \in Int
            BY <1>4, CurveIs
        <3> QED BY <3>1
    <2>2. Off(c, x, w) = a + p * (x - t) /\ Off(c, y, w) = a + p * (y - t)
        BY <1>4 DEF Off
    <2>3. ~Rising(c) /\ Compare(c, x, w) = -1
        BY <1>4, CurveIs DEF Past
    <2>4. x > t /\ Off(c, x, w) <= 0
        <3>1. /\ x <= c.t => Compare(c, x, w) = 1
              /\ x > c.t /\ Off(c, x, w) > 0 => Compare(c, x, w) = 1
            BY <1>4, CompareIs
        <3> QED BY <1>1, <2>1, <2>3, <3>1
    <2> HIDE DEF a, p
    <2>5. p < 0
        <3>1. \A i, j \in Int : i >= 0 /\ j > 0 => i * j >= 0 /\ i * j \in Int
            OBVIOUS
        <3>2. p >= 0 => p * (x - t) >= 0 /\ p * (x - t) \in Int
            <4>1. x - t \in Int /\ x - t > 0
                BY <2>1, <2>4
            <4> QED BY <2>1, <3>1, <4>1
        <3> QED BY <2>1, <2>2, <2>4, <3>2
    <2>6. p * (y - t) < p * (x - t) /\ p * (x - t) \in Int /\ p * (y - t) \in Int
        <3>1. x - t \in Int /\ y - t \in Int /\ x - t < y - t /\ -p \in Int /\ -p > 0
            BY <1>4, <2>1, <2>5
        <3>2. (x - t) * (-p) < (y - t) * (-p)
            BY <3>1, Grows
        <3>3. \A i, j \in Int : i * (-j) = -(j * i) /\ j * i \in Int
            OBVIOUS
        <3> QED BY <2>1, <3>1, <3>2, <3>3
    <2>7. Off(c, y, w) < 0 /\ y > c.t
        BY <1>1, <1>4, <2>1, <2>2, <2>4, <2>6
    <2>8. Compare(c, y, w) = -1
        BY <1>4, <2>7, CompareIs
    <2> QED BY <2>3, <2>8 DEF Past
<1> QED BY <1>2, <1>3, <1>4, CurveIs

\* A line pays no more than the collateral, and no less than nothing.
LEMMA LineWithin ==
    ASSUME NEW collateral \in Nat, NEW c, Curve(c, collateral), c.kind = "line", NEW x \in OnCurve(c), NEW w \in Int
    PROVE  /\ w > 2 * collateral => Compare(c, x, w) = -1
           /\ w < 0 => Compare(c, x, w) = 1
<1> DEFINE p == c.from.payout
           q == c.to.payout
           n == Run(c)
           y == x - c.from.outcome
           e == Off(c, x, w)
<1>1. /\ p \in 0..collateral /\ q \in 0..collateral /\ n \in Nat \ {0} /\ y \in 0..n /\ Rise(c) = q - p
      /\ x \in Int /\ e \in Int
    <2>1. x \in c.from.outcome..c.to.outcome
        BY DEF OnCurve
    <2>2. x \in Int
        BY <2>1
    <2>3. e \in Int
        BY <2>2, CompareIs
    <2> QED BY <2>1, <2>2, <2>3, CurveIs
<1>2. e = (2 * (q - p)) * y + (2 * p - w) * n
    BY <1>1 DEF Off
<1> HIDE DEF p, q, n, y, e
<1>3. e = 2 * (p * (n - y)) + 2 * (q * y) - w * n
    <2>1. \A i, j, k, l, m \in Int : (2 * (i - j)) * k + (2 * j - m) * l = 2 * (j * (l - k)) + 2 * (i * k) - m * l
        OBVIOUS
    <2>2. p \in Int /\ q \in Int /\ n \in Int /\ y \in Int
        BY <1>1
    <2> QED BY <1>2, <2>1, <2>2
<1>4. p * (n - y) \in Int /\ q * y \in Int /\ w * n \in Int /\ collateral * n \in Int /\ collateral * y \in Int
      /\ collateral * (n - y) \in Int /\ collateral * (n - y) = collateral * n - collateral * y
    <2>1. \A i, j, k \in Int : i * j \in Int /\ i * (j - k) = i * j - i * k
        OBVIOUS
    <2>2. p \in Int /\ q \in Int /\ n \in Int /\ y \in Int /\ n - y \in Int /\ collateral \in Int
        BY <1>1
    <2> QED BY <2>1, <2>2
<1>5. 0 <= p * (n - y) /\ p * (n - y) <= collateral * (n - y) /\ 0 <= q * y /\ q * y <= collateral * y
    <2>1. p \in Int /\ q \in Int /\ n - y \in Int /\ y \in Int /\ n - y >= 0 /\ y >= 0 /\ collateral \in Int
          /\ p <= collateral /\ q <= collateral /\ 0 <= p /\ 0 <= q
        BY <1>1
    <2>2. p * (n - y) <= collateral * (n - y) /\ q * y <= collateral * y
        BY <2>1, GrowsToo
    <2>3. 0 * (n - y) <= p * (n - y) /\ 0 * y <= q * y
        BY <2>1, GrowsToo
    <2>4. 0 * (n - y) = 0 /\ 0 * y = 0
        BY <2>1
    <2> QED BY <2>2, <2>3, <2>4
<1>6. ASSUME w > 2 * collateral PROVE e < 0
    <2>1. (2 * collateral) * n < w * n
        BY <1>1, <1>6, Grows
    <2>2. (2 * collateral) * n = 2 * (collateral * n)
        <3>1. \A i, j \in Int : (2 * i) * j = 2 * (i * j)
            OBVIOUS
        <3> QED BY <1>1, <3>1
    <2> QED BY <1>3, <1>4, <1>5, <2>1, <2>2
<1>7. ASSUME w < 0 PROVE e > 0
    <2>1. w * n < 0 * n /\ 0 * n = 0
        BY <1>1, <1>7, Grows
    <2> QED BY <1>3, <1>4, <1>5, <2>1
<1>8. (e > 0 => Compare(c, x, w) = 1) /\ (e < 0 => Compare(c, x, w) = -1)
    BY <1>1, CompareIs DEF e
<1> QED BY <1>6, <1>7, <1>8

\* Nearest is the integer within a half, for a positive denominator.
LEMMA HalfUp ==
    ASSUME NEW n \in Int, NEW d \in Nat, d > 0
    PROVE  /\ Nearest(n, d) \in Int
           /\ 2 * (d * Nearest(n, d)) <= 2 * n + d /\ 2 * n <= 2 * (d * Nearest(n, d)) + d
           /\ n >= 0 => 2 * n < 2 * (d * Nearest(n, d)) + d
<1>0. \A i, j \in Int : (2 * i) * j = 2 * (i * j) /\ i * j \in Int /\ i * (-j) = -(i * j)
    OBVIOUS
<1>1. CASE n >= 0
    <2> DEFINE a == 2 * n + d
               w == 2 * d
               q == a \div w
    <2>1. a \in Nat /\ w \in Nat /\ w > 0
        BY <1>1
    <2>2. q \in Nat /\ (a % w) \in 0..w - 1 /\ a = w * q + (a % w)
        BY <2>1, DivMod
    <2>3. Nearest(n, d) = q
        BY <1>1 DEF Nearest
    <2>4. w * q = 2 * (d * q) /\ d * q \in Int
        BY <1>0, <2>2
    <2> DEFINE r == a % w
               s == d * q
    <2>5. r \in 0..w - 1 /\ a = 2 * s + r /\ s \in Int
        BY <2>2, <2>4
    <2> HIDE DEF r, s, q
    <2>6. 2 * s <= 2 * n + d /\ 2 * n < 2 * s + d
        BY <2>5
    <2> QED BY <2>2, <2>3, <2>6 DEF s
<1>2. CASE n < 0
    <2> DEFINE a == d - 2 * n
               w == 2 * d
               q == a \div w
    <2>1. a \in Nat /\ w \in Nat /\ w > 0
        BY <1>2
    <2>2. q \in Nat /\ (a % w) \in 0..w - 1 /\ a = w * q + (a % w)
        BY <2>1, DivMod
    <2>3. Nearest(n, d) = -q
        BY <1>2 DEF Nearest
    <2>4. w * q = 2 * (d * q) /\ d * q \in Int /\ d * (-q) = -(d * q)
        BY <1>0, <2>2
    <2> DEFINE r == a % w
               s == d * q
    <2>5. r \in 0..w - 1 /\ a = 2 * s + r /\ s \in Int
        BY <2>2, <2>4
    <2> HIDE DEF r, q
    <2>6. d * Nearest(n, d) = -s
        BY <2>3, <2>4
    <2> HIDE DEF s
    <2>7. 2 * (-s) <= 2 * n + d /\ 2 * n <= 2 * (-s) + d
        BY <2>5
    <2> QED BY <1>2, <2>2, <2>3, <2>6, <2>7
<1> QED BY <1>1, <1>2

\* A number is its sign times its absolute value.
LEMMA Signs == \A n \in Int : n # 0 => /\ Abs(n) \in Nat /\ Abs(n) > 0
                                       /\ n > 0 => Sign(n) = 1 /\ Abs(n) = n
                                       /\ n < 0 => Sign(n) = -1 /\ Abs(n) = -n
BY DEF Abs, Sign

\* The outcome that is found for a payout is the first past it, or the one before.
LEMMA LineOutcomeIs ==
    ASSUME NEW collateral \in Nat, NEW c, Curve(c, collateral), c.kind = "line", NEW w \in Int
    PROVE  /\ LineOutcome(c, w) \in OnCurve(c)
           /\ \A x \in OnCurve(c) : /\ x < LineOutcome(c, w) => ~Past(c, x, w)
                                    /\ x > LineOutcome(c, w) => Past(c, x, w)
<1> DEFINE F == c.from.outcome
           T == c.to.outcome
           r == Rise(c)
           z == (w - 2 * c.from.payout) * Run(c)
           n == z * Sign(r)
           d == 2 * Abs(r)
           h == (2 * n) \div d
           short == (2 * n) % d = 0 /\ h % 2 = 1 /\ h * Excess(Abs(r), Run(c)) > Abs(r)
           m == Nearest(n, d)
           v == F + m - (IF short THEN 1 ELSE 0)
           o == LineOutcome(c, w)
<1>1. /\ F \in Nat /\ T \in Nat /\ F < T /\ r \in Int /\ r # 0 /\ z \in Int
      /\ Run(c) \in Int /\ c.from.payout \in Int
    <2>1. /\ F \in Nat /\ T \in Nat /\ F < T /\ r \in Int /\ r # 0 /\ Run(c) \in Int /\ c.from.payout \in Int
        BY CurveIs
    <2> QED BY <2>1
<1>2. Abs(r) \in Nat /\ Abs(r) > 0 /\ (r > 0 => Sign(r) = 1 /\ Abs(r) = r) /\ (r < 0 => Sign(r) = -1 /\ Abs(r) = -r)
    BY <1>1, Signs
<1>3. n \in Int /\ (r > 0 => n = z) /\ (r < 0 => n = -z) /\ d \in Nat /\ d > 0
    <2>1. r > 0 \/ r < 0
        BY <1>1
    <2> HIDE DEF z
    <2>2. (r > 0 => n = z) /\ (r < 0 => n = -z)
        BY <1>1, <1>2
    <2> QED BY <1>1, <1>2, <2>1, <2>2
<1>4. o = Between(F, v, T)
    BY DEF LineOutcome
<1>5. \A x \in Int : /\ Off(c, x, w) = (2 * r) * (x - F) - z
                     /\ r > 0 => (Off(c, x, w) < 0 <=> d * (x - F) < n) /\ (Off(c, x, w) > 0 <=> d * (x - F) > n)
                     /\ r < 0 => (Off(c, x, w) > 0 <=> d * (x - F) < n) /\ (Off(c, x, w) < 0 <=> d * (x - F) > n)
    <2> SUFFICES ASSUME NEW x \in Int
                 PROVE  /\ Off(c, x, w) = (2 * r) * (x - F) - z
                        /\ r > 0 => (Off(c, x, w) < 0 <=> d * (x - F) < n) /\ (Off(c, x, w) > 0 <=> d * (x - F) > n)
                        /\ r < 0 => (Off(c, x, w) > 0 <=> d * (x - F) < n) /\ (Off(c, x, w) < 0 <=> d * (x - F) > n)
        OBVIOUS
    <2> DEFINE a == (2 * r) * (x - F)
    <2>1. (2 * c.from.payout - w) * Run(c) = -z
        <3>1. \A i, j, k \in Int : (i - j) * k = -((j - i) * k)
            OBVIOUS
        <3> QED BY <1>1, <3>1
    <2>2. Off(c, x, w) = a - z /\ a \in Int
        <3>1. a \in Int
            <4>1. x - F \in Int /\ 2 * r \in Int
                BY <1>1
            <4>2. \A i, j \in Int : i * j \in Int
                OBVIOUS
            <4> QED BY <4>1, <4>2
        <3> HIDE DEF z
        <3>2. Off(c, x, w) = a + (2 * c.from.payout - w) * Run(c)
            BY DEF Off
        <3> HIDE DEF a
        <3> QED BY <1>1, <2>1, <3>1, <3>2
    <2>3. (r > 0 => d * (x - F) = a) /\ (r < 0 => d * (x - F) = -a)
        <3>1. \A i, j \in Int : (2 * (-i)) * j = -((2 * i) * j)
            OBVIOUS
        <3>2. x - F \in Int
            BY <1>1
        <3> QED BY <1>1, <1>2, <3>1, <3>2
    <2> HIDE DEF a, d, n, z
    <2>4. r > 0 => (a - z < 0 <=> d * (x - F) < n) /\ (a - z > 0 <=> d * (x - F) > n)
        BY <1>1, <1>3, <2>2, <2>3
    <2>5. r < 0 => (a - z > 0 <=> d * (x - F) < n) /\ (a - z < 0 <=> d * (x - F) > n)
        <3> SUFFICES ASSUME r < 0 PROVE (a - z > 0 <=> d * (x - F) < n) /\ (a - z < 0 <=> d * (x - F) > n)
            OBVIOUS
        <3>1. d * (x - F) = -a /\ n = -z
            BY <1>3, <2>3
        <3> QED BY <1>1, <2>2, <3>1
    <2> QED BY <2>2, <2>4, <2>5 DEF a
<1>6. /\ m \in Int /\ 2 * (d * m) <= 2 * n + d /\ 2 * n <= 2 * (d * m) + d
      /\ n >= 0 => 2 * n < 2 * (d * m) + d
    <2> HIDE DEF n, d
    <2> QED BY <1>3, HalfUp
<1>7. ASSUME short, n >= 0 PROVE 2 * (d * m) >= 2 * n + d
    <2> DEFINE a == 2 * n
    <2>1. a \in Nat /\ h \in Nat /\ a = d * h
        <3> HIDE DEF n, d
        <3>1. a \in Nat
            BY <1>3, <1>7
        <3>2. (a \div d) \in Nat /\ a = d * (a \div d) + (a % d) /\ (a % d) \in 0..d - 1
            BY <1>3, <3>1, DivMod
        <3>3. a % d = 0
            BY <1>7
        <3> QED BY <1>3, <3>1, <3>2, <3>3
    <2>2. \E j \in Nat : h = 2 * j + 1
        <3> HIDE DEF h
        <3>1. h % 2 = 1
            BY <1>7 DEF h
        <3>2. h \div 2 \in Nat /\ h = 2 * (h \div 2) + (h % 2)
            <4>1. 2 \in Nat /\ 2 > 0
                OBVIOUS
            <4> QED BY <2>1, <4>1, DivMod
        <3> QED BY <3>1, <3>2
    <2>3. PICK j \in Nat : h = 2 * j + 1
        BY <2>2
    <2> HIDE DEF h, m, d
    <2>4. a = 2 * (d * j) + d
        <3>1. \A i, k \in Int : i * (2 * k + 1) = 2 * (i * k) + i
            OBVIOUS
        <3> QED BY <1>3, <2>1, <2>3, <3>1
    <2>5. m > j
        <3>1. CASE m <= j
            <4>1. m * d <= j * d /\ m * d = d * m /\ j * d = d * j /\ d * m \in Int /\ d * j \in Int
                <5>1. m * d <= j * d
                    BY <1>3, <1>6, <3>1, GrowsToo
                <5>2. \A i, k \in Int : i * k = k * i /\ i * k \in Int
                    OBVIOUS
                <5> QED BY <1>3, <1>6, <5>1, <5>2
            <4>2. a < 2 * (d * m) + d
                BY <1>6, <1>7
            <4> HIDE DEF a
            <4> QED BY <1>3, <2>1, <2>4, <4>1, <4>2
        <3> QED BY <1>6, <3>1
    <2>6. d * m >= d * j + d
        <3>1. (j + 1) * d <= m * d
            BY <1>3, <1>6, <2>5, GrowsToo
        <3>2. \A i, k \in Int : (i + 1) * k = k * i + k /\ i * k = k * i
            OBVIOUS
        <3> QED BY <1>3, <1>6, <3>1, <3>2
    <2>7. d * m \in Int /\ d * j \in Int
        <3>1. \A i, k \in Int : i * k \in Int
            OBVIOUS
        <3> QED BY <1>3, <1>6, <3>1
    <2> QED BY <1>3, <2>4, <2>6, <2>7
<1>8. v \in Int
    BY <1>1, <1>6
<1>9. o \in F..T /\ (o = v \/ (o = F /\ v < F) \/ (o = T /\ v > T))
    <2> HIDE DEF v, F, T
    <2> QED BY <1>1, <1>4, <1>8 DEF Between
<1>10. ASSUME NEW x \in F..T, x < o PROVE d * (x - F) < n
    <2>1. x - F <= m - 1
        <3>1. x < v
            BY <1>1, <1>8, <1>9, <1>10
        <3> QED BY <1>1, <1>6, <3>1
    <2>2. (x - F) * d <= (m - 1) * d
        <3>1. x - F \in Int /\ m - 1 \in Int /\ d \in Int /\ d >= 0
            BY <1>1, <1>3, <1>6
        <3> QED BY <2>1, <3>1, GrowsToo
    <2> HIDE DEF d, m, n
    <2>3. (x - F) * d = d * (x - F) /\ (m - 1) * d = d * m - d /\ d * m \in Int /\ d * (x - F) \in Int
        <3>1. \A i, k \in Int : i * k = k * i /\ i * k \in Int /\ (i - 1) * k = k * i - k
            OBVIOUS
        <3>2. x - F \in Int
            BY <1>1
        <3> QED BY <1>3, <1>6, <3>1, <3>2
    <2> QED BY <1>3, <1>6, <2>2, <2>3
<1>11. ASSUME NEW x \in F..T, x > o PROVE d * (x - F) > n
    <2> DEFINE k == x - F
    <2>1. k \in Nat /\ (short => k >= m) /\ (~short => k >= m + 1)
        <3>1. x > v
            BY <1>1, <1>8, <1>9, <1>11
        <3> HIDE DEF short, m, F
        <3> QED BY <1>1, <1>6, <3>1
    <2> HIDE DEF k, short, m, d, n
    <2>2. d * k \in Nat /\ d * m \in Int
        <3>1. \A i, j \in Int : i * j \in Int
            OBVIOUS
        <3>2. \A i, j \in Nat : i * j \in Nat
            OBVIOUS
        <3> QED BY <1>3, <1>6, <2>1, <3>1, <3>2
    <2>3. CASE n < 0
        <3>1. d * k > n
            BY <1>3, <2>2, <2>3
        <3> QED BY <3>1 DEF k
    <2>4. CASE n >= 0 /\ short
        <3>1. m * d <= k * d
            BY <1>3, <1>6, <2>1, <2>4, GrowsToo
        <3>2. m * d = d * m /\ k * d = d * k
            <4>1. \A i, j \in Int : i * j = j * i
                OBVIOUS
            <4> QED BY <1>3, <1>6, <2>1, <4>1
        <3>3. 2 * (d * m) >= 2 * n + d
            BY <1>7, <2>4
        <3>4. d * k > n
            BY <1>3, <2>2, <3>1, <3>2, <3>3
        <3> QED BY <3>4 DEF k
    <2>5. CASE n >= 0 /\ ~short
        <3>1. (m + 1) * d <= k * d
            BY <1>3, <1>6, <2>1, <2>5, GrowsToo
        <3>2. (m + 1) * d = d * m + d /\ k * d = d * k
            <4>1. \A i, j \in Int : i * j = j * i /\ (i + 1) * j = j * i + j
                OBVIOUS
            <4> QED BY <1>3, <1>6, <2>1, <4>1
        <3>3. d * k > n
            BY <1>3, <1>6, <2>2, <3>1, <3>2
        <3> QED BY <3>3 DEF k
    <2> QED BY <1>3, <2>3, <2>4, <2>5
<1>12. OnCurve(c) = F..T
    BY DEF OnCurve
<1>13. ASSUME NEW x \in F..T
       PROVE  /\ d * (x - F) < n => ~Past(c, x, w)
              /\ d * (x - F) > n => Past(c, x, w)
    <2>1. x \in Int
        BY <1>1
    <2>2. (Off(c, x, w) > 0 => Compare(c, x, w) = 1) /\ (Off(c, x, w) < 0 => Compare(c, x, w) = -1)
        BY <2>1, CompareIs
    <2>3. Rising(c) <=> r > 0
        BY DEF Rising
    <2> HIDE DEF d, n, F, r
    <2> DEFINE sign == Compare(c, x, w)
    <2>4. Past(c, x, w) <=> IF r > 0 THEN sign >= 0 ELSE sign = -1
        BY <2>3 DEF Past
    <2> HIDE DEF sign
    <2>5. CASE r > 0
        BY <1>5, <2>1, <2>2, <2>4, <2>5 DEF sign
    <2>6. CASE r < 0
        BY <1>1, <1>5, <2>1, <2>2, <2>4, <2>6 DEF sign
    <2> QED BY <1>1, <2>5, <2>6
<1> HIDE DEF d, n, F, T, o
<1>14. o \in OnCurve(c) /\ \A x \in OnCurve(c) : (x < o => ~Past(c, x, w)) /\ (x > o => Past(c, x, w))
    BY <1>9, <1>10, <1>11, <1>12, <1>13
<1> QED BY <1>14 DEF o

\* The same for a hyperbola, which falls.
LEMMA HyperbolaOutcomeIs ==
    ASSUME NEW collateral \in Nat, NEW c, Curve(c, collateral), c.kind = "hyperbola", NEW w \in Int, w > 2 * c.f
    PROVE  /\ HyperbolaOutcome(c, w) \in Int
           /\ \A x \in Int : /\ x < HyperbolaOutcome(c, w) => ~Past(c, x, w)
                             /\ x > HyperbolaOutcome(c, w) => Past(c, x, w)
<1> DEFINE t == c.t
           d == w - 2 * c.f
           n == 2 * c.k - t * (2 * c.f - w)
           o == HyperbolaOutcome(c, w)
<1>1. c.k \in Nat /\ c.k > 0 /\ t \in Int /\ c.f \in Int /\ ~Rising(c)
    BY CurveIs
<1>2. d \in Nat /\ d > 0 /\ Sign(d) = 1 /\ Abs(d) = d
    <2>1. d \in Int /\ d > 0
        BY <1>1
    <2> QED BY <2>1, Signs
<1>3. n \in Int /\ n = 2 * c.k + d * t
    <2>1. \A i, j, k, l \in Int : 2 * i - j * (2 * k - l) = 2 * i + (l - 2 * k) * j /\ 2 * i - j * (2 * k - l) \in Int
        OBVIOUS
    <2> QED BY <1>1, <2>1
<1>4. o = Nearest(n, d)
    <2>1. o = IF d = 0 THEN -1 ELSE Nearest(n * Sign(d), Abs(d))
        BY DEF HyperbolaOutcome
    <2> HIDE DEF n, d, o
    <2>2. n * 1 = n
        BY <1>3
    <2> QED BY <1>2, <2>1, <2>2
<1> HIDE DEF n, d, o
<1>5. o \in Int /\ 2 * (d * o) <= 2 * n + d /\ 2 * n <= 2 * (d * o) + d
    BY <1>2, <1>3, <1>4, HalfUp
<1>6. \A x \in Int : Off(c, x, w) = n - d * x /\ d * x \in Int /\ Off(c, x, w) \in Int /\ (x > t => d * (x - t) > 0)
    <2> SUFFICES ASSUME NEW x \in Int
                 PROVE  Off(c, x, w) = n - d * x /\ d * x \in Int /\ Off(c, x, w) \in Int /\ (x > t => d * (x - t) > 0)
        OBVIOUS
    <2>1. \A i, j, k, l, m \in Int : 2 * i + (2 * k - l) * (m - j) = 2 * i + (l - 2 * k) * j - (l - 2 * k) * m
        OBVIOUS
    <2>2. \A i, j \in Int : i * j \in Int
        OBVIOUS
    <2>3. Off(c, x, w) = 2 * c.k + (2 * c.f - w) * (x - t)
        BY <1>1 DEF Off
    <2>4. Off(c, x, w) = 2 * c.k + d * t - d * x
        BY <1>1, <2>1, <2>3 DEF d
    <2>5. d * x \in Int /\ d * t \in Int
        BY <1>1, <1>2, <2>2
    <2>6. Off(c, x, w) = n - d * x
        <3> HIDE DEF t
        <3> QED BY <1>1, <1>3, <2>4, <2>5
    <2>7. \A i, j \in Int : i > 0 /\ j > 0 => i * j > 0
        OBVIOUS
    <2>8. x > t => d * (x - t) > 0
        <3>1. x - t \in Int /\ (x > t => x - t > 0)
            BY <1>1
        <3> QED BY <1>2, <2>7, <3>1
    <2> QED BY <1>3, <2>5, <2>6, <2>8
<1>7. ASSUME NEW x \in Int, x < o PROVE Compare(c, x, w) = 1
    <2>1. x * d <= (o - 1) * d
        BY <1>2, <1>5, <1>7, GrowsToo
    <2>2. x * d = d * x /\ (o - 1) * d = d * o - d /\ d * x \in Int /\ d * o \in Int
        <3>1. \A i, j \in Int : i * j = j * i /\ (i - 1) * j = j * i - j /\ i * j \in Int
            OBVIOUS
        <3> QED BY <1>2, <1>5, <3>1
    <2>3. Off(c, x, w) > 0
        <3>1. Off(c, x, w) = n - d * x
            BY <1>6
        <3> QED BY <1>2, <1>3, <1>5, <2>1, <2>2, <3>1
    <2>4. x <= t \/ x > t
        BY <1>1
    <2> QED BY <2>3, <2>4, CompareIs
<1>8. ASSUME NEW x \in Int, x > o PROVE Compare(c, x, w) = -1
    <2>1. (o + 1) * d <= x * d
        BY <1>2, <1>5, <1>8, GrowsToo
    <2>2. x * d = d * x /\ (o + 1) * d = d * o + d /\ d * x \in Int /\ d * o \in Int
        <3>1. \A i, j \in Int : i * j = j * i /\ (i + 1) * j = j * i + j /\ i * j \in Int
            OBVIOUS
        <3> QED BY <1>2, <1>5, <3>1
    <2>3. Off(c, x, w) < 0
        <3>1. Off(c, x, w) = n - d * x
            BY <1>6
        <3> QED BY <1>2, <1>3, <1>5, <2>1, <2>2, <3>1
    <2>4. x > t
        <3>1. CASE x <= t
            <4>1. d * x <= d * t /\ d * t \in Int
                <5>1. x * d <= t * d
                    BY <1>1, <1>2, <3>1, GrowsToo
                <5>2. \A i, j \in Int : i * j = j * i /\ i * j \in Int
                    OBVIOUS
                <5> QED BY <1>1, <1>2, <5>1, <5>2
            <4>2. n - d * x >= 2 * c.k
                BY <1>1, <1>3, <2>2, <4>1
            <4> QED BY <1>1, <1>3, <1>6, <2>2, <2>3, <4>2
        <3> QED BY <1>1, <3>1
    <2> QED BY <2>3, <2>4, CompareIs
<1>9. o \in Int /\ \A x \in Int : (x < o => ~Past(c, x, w)) /\ (x > o => Past(c, x, w))
    BY <1>1, <1>5, <1>7, <1>8 DEF Past
<1> QED BY <1>9 DEF o

\* A hyperbola is found where it pays less than w / 2 in the end.
Reaches(c, w) == c.kind = "line" \/ w > 2 * c.f

\* The same for both.
LEMMA OutcomeIs ==
    ASSUME NEW collateral \in Nat, NEW c, Curve(c, collateral), NEW w \in Int, Reaches(c, w)
    PROVE  /\ OutcomeForPayout(c, w) \in OnCurve(c)
           /\ \A x \in OnCurve(c) : /\ x < OutcomeForPayout(c, w) => ~Past(c, x, w)
                                    /\ x > OutcomeForPayout(c, w) => Past(c, x, w)
<1>1. CASE c.kind = "line"
    BY <1>1, LineOutcomeIs DEF OutcomeForPayout
<1>2. CASE c.kind = "hyperbola"
    <2>1. OnCurve(c) = Int /\ w > 2 * c.f /\ OutcomeForPayout(c, w) = HyperbolaOutcome(c, w)
        BY <1>2 DEF OnCurve, Reaches, OutcomeForPayout
    <2> QED BY <1>2, <2>1, HyperbolaOutcomeIs
<1> QED BY <1>1, <1>2, CurveIs

\* The clamped payout of outcome x is w / 2 or more.
Reached(c, collateral, x, w) == w <= 0 \/ (w <= 2 * collateral /\ Compare(c, x, w) >= 0)

Rounded(c, collateral, x, mod) ==
  mod * (CHOOSE j \in 0..collateral \div mod + 1 :
           Reached(c, collateral, x, (2 * j - 1) * mod) /\ ~Reached(c, collateral, x, (2 * j + 1) * mod))

Multiples(mod) == {mod * j : j \in Nat}

\* p is the payout of outcome x, rounded.
Rounds(c, collateral, x, mod, p) ==
  /\ p \in Multiples(mod)
  /\ Reached(c, collateral, x, 2 * p - mod) /\ ~Reached(c, collateral, x, 2 * p + mod)

\* Different multiples are a multiple apart.
LEMMA MultiplesApart ==
    ASSUME NEW mod \in Nat \ {0}, NEW p \in Multiples(mod), NEW q \in Multiples(mod)
    PROVE  /\ p \in Nat /\ q \in Nat /\ (p < q => p + mod <= q) /\ (p # 0 => p >= mod)
<1>1. PICK i \in Nat : p = mod * i
    BY DEF Multiples
<1>2. PICK j \in Nat : q = mod * j
    BY DEF Multiples
<1>3. \A a, b \in Nat : a * b \in Nat /\ a * b = b * a
    OBVIOUS
<1>4. p \in Nat /\ q \in Nat /\ p = i * mod /\ q = j * mod
    BY <1>1, <1>2, <1>3
<1>5. p < q => p + mod <= q
    <2>1. i < j => i * mod + mod <= j * mod
        BY RowsApart
    <2>2. j <= i => j * mod <= i * mod
        BY GrowsToo
    <2> QED BY <1>4, <2>1, <2>2
<1>6. p # 0 => p >= mod
    <2>1. 0 < i => 0 * mod + mod <= i * mod
        BY RowsApart
    <2>2. i = 0 => i * mod = 0
        OBVIOUS
    <2>3. 0 * mod = 0
        OBVIOUS
    <2> QED BY <1>4, <2>1, <2>2, <2>3
<1> QED BY <1>4, <1>5, <1>6

\* Who reaches a payout reaches a lower one.
LEMMA ReachedLess ==
    ASSUME NEW collateral \in Nat, NEW c, Curve(c, collateral), NEW x \in Int, NEW w \in Int, NEW v \in Int,
           w <= v, Reached(c, collateral, x, v)
    PROVE  Reached(c, collateral, x, w)
<1>1. CASE v <= 0 \/ w = v
    BY <1>1 DEF Reached
<1>2. CASE v > 0 /\ w < v
    <2>1. v <= 2 * collateral /\ Compare(c, x, v) >= 0
        BY <1>2 DEF Reached
    <2>2. Compare(c, x, w) = 1
        BY <1>2, <2>1, CompareLess
    <2> QED BY <1>2, <2>1, <2>2 DEF Reached
<1> QED BY <1>1, <1>2

\* A payout is rounded to one multiple only.
LEMMA OneRounding ==
    ASSUME NEW collateral \in Nat, NEW c, Curve(c, collateral), NEW x \in Int, NEW mod \in Nat \ {0},
           NEW p, NEW q, Rounds(c, collateral, x, mod, p), Rounds(c, collateral, x, mod, q)
    PROVE  p = q
<1>1. p \in Multiples(mod) /\ q \in Multiples(mod)
    BY DEF Rounds
<1>2. p \in Nat /\ q \in Nat /\ (p < q => p + mod <= q) /\ (q < p => q + mod <= p)
    BY <1>1, MultiplesApart
<1>3. CASE p < q
    <2>1. 2 * p + mod <= 2 * q - mod /\ 2 * p + mod \in Int /\ 2 * q - mod \in Int
        BY <1>2, <1>3
    <2>2. Reached(c, collateral, x, 2 * p + mod)
        BY <2>1, ReachedLess DEF Rounds
    <2> QED BY <2>2 DEF Rounds
<1>4. CASE q < p
    <2>1. 2 * q + mod <= 2 * p - mod /\ 2 * q + mod \in Int /\ 2 * p - mod \in Int
        BY <1>2, <1>4
    <2>2. Reached(c, collateral, x, 2 * q + mod)
        BY <2>1, ReachedLess DEF Rounds
    <2> QED BY <2>2 DEF Rounds
<1> QED BY <1>2, <1>3, <1>4

\* RoundPayout finds a multiple the payout is rounded to.
LEMMA RoundedIs ==
    ASSUME NEW collateral \in Nat, NEW c, Curve(c, collateral), NEW x \in Int, NEW mod \in Nat \ {0}
    PROVE  Rounds(c, collateral, x, mod, Rounded(c, collateral, x, mod))
<1> DEFINE top == collateral \div mod + 1
           R(w) == Reached(c, collateral, x, w)
           Is(j) == R((2 * j - 1) * mod) /\ ~R((2 * j + 1) * mod)
           T == {j \in Nat : ~R((2 * j + 1) * mod)}
<1>1. top \in Nat /\ top > 0 /\ (2 * top + 1) * mod > 2 * collateral /\ (2 * top + 1) * mod > 0
    <2> DEFINE q == collateral \div mod
               r == collateral % mod
    <2>1. q \in Nat /\ r \in 0..mod - 1 /\ collateral = mod * q + r
        BY DivMod
    <2> HIDE DEF q, r
    <2>2. (2 * (q + 1) + 1) * mod = 2 * (mod * q) + 3 * mod /\ mod * q \in Nat
        <3>1. \A i, j \in Nat : (2 * (i + 1) + 1) * j = 2 * (j * i) + 3 * j /\ j * i \in Nat
            OBVIOUS
        <3> QED BY <2>1, <3>1
    <2>3. (2 * (q + 1) + 1) * mod > 2 * collateral /\ (2 * (q + 1) + 1) * mod > 0
        BY <2>1, <2>2
    <2> QED BY <2>1, <2>3 DEF q
<1>2. top \in T
    <2> DEFINE v == (2 * top + 1) * mod
    <2>1. v > 2 * collateral /\ v > 0 /\ v \in Int
        <3>1. \A i, j \in Nat : (2 * i + 1) * j \in Int
            OBVIOUS
        <3> HIDE DEF top
        <3> QED BY <1>1, <3>1
    <2> HIDE DEF v
    <2>2. ~R(v)
        BY <2>1 DEF Reached
    <2> QED BY <1>1, <2>2 DEF v
<1> HIDE DEF top
<1>3. PICK j \in T : \A k \in T : j <= k
    <2> HIDE DEF T
    <2>1. T \in SUBSET Nat
        BY DEF T
    <2> QED BY <1>2, <2>1, Least
<1>4. j \in 0..top
    BY <1>1, <1>2, <1>3
<1>5. Is(j)
    <2>1. CASE j = 0
        <3>1. (2 * 0 - 1) * mod <= 0
            OBVIOUS
        <3> QED BY <1>3, <2>1, <3>1 DEF Reached
    <2>2. CASE j # 0
        <3>1. j - 1 \in Nat /\ j - 1 \notin T
            BY <1>3, <2>2
        <3>2. (2 * (j - 1) + 1) * mod = (2 * j - 1) * mod
            <4>1. 2 * (j - 1) + 1 = 2 * j - 1
                OBVIOUS
            <4> QED BY <4>1
        <3>3. R((2 * (j - 1) + 1) * mod)
            <4> HIDE DEF R
            <4> QED BY <3>1
        <3> HIDE DEF R
        <3> QED BY <1>3, <3>2, <3>3
    <2> QED BY <2>1, <2>2
<1> DEFINE k == CHOOSE i \in 0..top : Is(i)
<1>6. k \in 0..top /\ Is(k)
    <2> HIDE DEF Is
    <2> QED BY <1>4, <1>5
<1>7. Rounded(c, collateral, x, mod) = mod * k
    BY DEF Rounded, top
<1> HIDE DEF k, R
<1>8. k \in Nat
    BY <1>1, <1>6
<1>9. (2 * k - 1) * mod = 2 * (mod * k) - mod /\ (2 * k + 1) * mod = 2 * (mod * k) + mod
    <2>1. \A i, m \in Nat : (2 * i - 1) * m = 2 * (m * i) - m /\ (2 * i + 1) * m = 2 * (m * i) + m
        OBVIOUS
    <2> QED BY <1>8, <2>1
<1>10. R(2 * (mod * k) - mod) /\ ~R(2 * (mod * k) + mod)
    BY <1>6, <1>9
<1>11. mod * k \in Multiples(mod)
    BY <1>8 DEF Multiples
<1> QED BY <1>7, <1>10, <1>11 DEF R, Rounds

\* A curve that rises pays no less later on, one that falls no more.
LEMMA ReachedLater ==
    ASSUME NEW collateral \in Nat, NEW c, Curve(c, collateral), NEW x \in Int, NEW y \in Int, x <= y, NEW w \in Int
    PROVE  /\ Rising(c) /\ Reached(c, collateral, x, w) => Reached(c, collateral, y, w)
           /\ ~Rising(c) /\ Reached(c, collateral, y, w) => Reached(c, collateral, x, w)
<1>1. Past(c, x, w) => Past(c, y, w)
    BY StaysPast
<1>2. Compare(c, x, w) \in {-1, 0, 1} /\ Compare(c, y, w) \in {-1, 0, 1}
    BY CompareIs
<1> QED BY <1>1, <1>2 DEF Reached, Past

\* So the rounded payouts follow the curve too.
LEMMA RoundedOrder ==
    ASSUME NEW collateral \in Nat, NEW c, Curve(c, collateral), NEW x \in Int, NEW y \in Int, x <= y,
           NEW mod \in Nat \ {0}
    PROVE  LET p == Rounded(c, collateral, x, mod)
               q == Rounded(c, collateral, y, mod)
           IN  /\ p \in Multiples(mod) /\ q \in Multiples(mod) /\ p \in Nat /\ q \in Nat
               /\ Rising(c) => p <= q
               /\ ~Rising(c) => q <= p
<1> DEFINE p == Rounded(c, collateral, x, mod)
           q == Rounded(c, collateral, y, mod)
<1>1. Rounds(c, collateral, x, mod, p) /\ Rounds(c, collateral, y, mod, q)
    BY RoundedIs
<1> HIDE DEF p, q
<1>2. p \in Multiples(mod) /\ q \in Multiples(mod)
    BY <1>1 DEF Rounds
<1>3. p \in Nat /\ q \in Nat /\ (p < q => p + mod <= q) /\ (q < p => q + mod <= p)
    BY <1>2, MultiplesApart
<1>4. ASSUME Rising(c), q < p PROVE FALSE
    <2>1. 2 * q + mod <= 2 * p - mod /\ 2 * q + mod \in Int /\ 2 * p - mod \in Int
        BY <1>3, <1>4
    <2>2. Reached(c, collateral, y, 2 * p - mod)
        BY <1>1, <1>4, <2>1, ReachedLater DEF Rounds
    <2>3. Reached(c, collateral, y, 2 * q + mod)
        BY <2>1, <2>2, ReachedLess
    <2> QED BY <1>1, <2>3 DEF Rounds
<1>5. ASSUME ~Rising(c), p < q PROVE FALSE
    <2>1. 2 * p + mod <= 2 * q - mod /\ 2 * p + mod \in Int /\ 2 * q - mod \in Int
        BY <1>3, <1>5
    <2>2. Reached(c, collateral, x, 2 * q - mod)
        BY <1>1, <1>5, <2>1, ReachedLater DEF Rounds
    <2>3. Reached(c, collateral, x, 2 * p + mod)
        BY <2>1, <2>2, ReachedLess
    <2> QED BY <1>1, <2>3 DEF Rounds
<1>6. (Rising(c) => p <= q) /\ (~Rising(c) => q <= p)
    BY <1>3, <1>4, <1>5
<1> QED BY <1>2, <1>3, <1>6 DEF p, q

\* Where the payout changes next: MidPaid2.
Edge(c, p, mod) == IF Rising(c) THEN 2 * p + mod ELSE 2 * p - mod

\* The payout of a later outcome is another once the edge is past.
LEMMA EdgeIs ==
    ASSUME NEW collateral \in Nat, NEW c, Curve(c, collateral), NEW mod \in Nat \ {0},
           NEW y \in Int, NEW x \in OnCurve(c), y <= x,
           NEW p, p = Rounded(c, collateral, y, mod), Rising(c) \/ p > 0
    PROVE  Rounded(c, collateral, x, mod) # p <=> Past(c, x, Edge(c, p, mod))
<1> DEFINE q == Rounded(c, collateral, x, mod)
           w == Edge(c, p, mod)
<1>1. x \in Int
    BY DEF OnCurve
<1>2. Rounds(c, collateral, y, mod, p) /\ Rounds(c, collateral, x, mod, q)
    BY <1>1, RoundedIs
<1> HIDE DEF q, w
<1>3. p \in Multiples(mod) /\ q \in Multiples(mod)
    BY <1>2 DEF Rounds
<1>4. p \in Nat /\ (p # 0 => p >= mod)
    BY <1>3, MultiplesApart
<1>5. w \in Int /\ w > 0 /\ (Rising(c) => w = 2 * p + mod) /\ (~Rising(c) => w = 2 * p - mod)
    BY <1>4 DEF w, Edge
<1>6. 2 * p - mod \in Int /\ 2 * p + mod \in Int
    BY <1>4
<1>7. Compare(c, x, w) \in {-1, 0, 1}
    BY <1>1, <1>5, CompareIs
<1>8. CASE Rising(c)
    <2>1. Past(c, x, w) <=> Reached(c, collateral, x, w)
        <3>1. c.kind = "line"
            BY <1>8 DEF Rising
        <3>2. w > 2 * collateral => Compare(c, x, w) = -1
            BY <1>5, <3>1, LineWithin
        <3> QED BY <1>5, <1>7, <1>8, <3>2 DEF Past, Reached
    <2>2. Reached(c, collateral, x, w) => q # p
        BY <1>2, <1>5, <1>8 DEF Rounds
    <2>3. ~Reached(c, collateral, x, w) => q = p
        <3>1. Reached(c, collateral, x, 2 * p - mod)
            BY <1>1, <1>2, <1>6, <1>8, ReachedLater DEF Rounds
        <3>2. ~Reached(c, collateral, x, w) => Rounds(c, collateral, x, mod, p)
            BY <1>3, <1>5, <1>8, <3>1 DEF Rounds
        <3> QED BY <1>1, <1>2, <3>2, OneRounding
    <2> QED BY <2>1, <2>2, <2>3 DEF q, w
<1>9. CASE ~Rising(c)
    <2>1. Reached(c, collateral, y, w)
        BY <1>2, <1>5, <1>9 DEF Rounds
    <2>2. w <= 2 * collateral
        BY <1>5, <2>1 DEF Reached
    <2>3. Past(c, x, w) <=> ~Reached(c, collateral, x, w)
        BY <1>5, <1>7, <1>9, <2>2 DEF Past, Reached
    <2>4. ~Reached(c, collateral, x, w) => q # p
        BY <1>2, <1>5, <1>9 DEF Rounds
    <2>5. Reached(c, collateral, x, w) => q = p
        <3>1. ~Reached(c, collateral, x, 2 * p + mod)
            BY <1>1, <1>2, <1>6, <1>9, ReachedLater DEF Rounds
        <3>2. Reached(c, collateral, x, w) => Rounds(c, collateral, x, mod, p)
            BY <1>3, <1>5, <1>9, <3>1 DEF Rounds
        <3> QED BY <1>1, <1>2, <3>2, OneRounding
    <2> QED BY <2>3, <2>4, <2>5 DEF q, w
<1> QED BY <1>8, <1>9

\* The edge is not past where it is looked for, unless nothing is paid there.
LEMMA EdgeAhead ==
    ASSUME NEW collateral \in Nat, NEW c, Curve(c, collateral), NEW mod \in Nat \ {0}, NEW x \in OnCurve(c),
           NEW p, p = Rounded(c, collateral, x, mod), Rising(c) \/ p > 0 \/ c.kind = "line"
    PROVE  ~Past(c, x, Edge(c, p, mod))
<1>1. x \in Int
    BY DEF OnCurve
<1>2. CASE Rising(c) \/ p > 0
    <2>1. x <= x
        BY <1>1
    <2>2. Rounded(c, collateral, x, mod) # p <=> Past(c, x, Edge(c, p, mod))
        BY <1>1, <1>2, <2>1, EdgeIs
    <2> QED BY <2>2
<1>3. CASE ~Rising(c) /\ ~(p > 0)
    <2>1. Rounds(c, collateral, x, mod, p)
        BY <1>1, RoundedIs
    <2>2. p \in Multiples(mod)
        BY <2>1 DEF Rounds
    <2>3. p \in Nat
        BY <2>2, MultiplesApart
    <2>4. Edge(c, p, mod) = -mod /\ -mod < 0 /\ -mod \in Int
        BY <1>3, <2>3 DEF Edge
    <2>5. Compare(c, x, -mod) = 1
        BY <1>3, <2>4, LineWithin
    <2> QED BY <1>3, <2>4, <2>5 DEF Past
<1> QED BY <1>2, <1>3

\* MidOutcome, for outcome x of curve c.
LastBefore(c, x, w) ==
  LET o == OutcomeForPayout(c, w)
      n == IF o < 0 THEN x + 1 ELSE o
  IN  IF ~Past(c, n, w) THEN n ELSE IF n = 0 THEN x ELSE n - 1

\* It is the last outcome before the edge.
LEMMA LastBeforeIs ==
    ASSUME NEW collateral \in Nat, NEW c, Curve(c, collateral), NEW w \in Int, Reaches(c, w),
           NEW x \in OnCurve(c), x \in Nat \ {0}, ~Past(c, x, w)
    PROVE  LET m == LastBefore(c, x, w)
           IN  m \in Int /\ x <= m /\ \A y \in OnCurve(c) : x <= y => (Past(c, y, w) <=> y > m)
<1> DEFINE o == OutcomeForPayout(c, w)
           m == LastBefore(c, x, w)
<1>1. o \in OnCurve(c) /\ o \in Int /\ \A y \in OnCurve(c) : y \in Int /\ (y < o => ~Past(c, y, w)) /\ (y > o => Past(c, y, w))
    <2>1. o \in OnCurve(c) /\ \A y \in OnCurve(c) : (y < o => ~Past(c, y, w)) /\ (y > o => Past(c, y, w))
        BY OutcomeIs
    <2>2. \A y \in OnCurve(c) : y \in Int
        <3>1. c.kind = "line" => c.from.outcome \in Int /\ c.to.outcome \in Int
            BY CurveIs
        <3> QED BY <3>1 DEF OnCurve
    <2> QED BY <2>1, <2>2
<1>2. m = LET n == IF o < 0 THEN x + 1 ELSE o
          IN  IF ~Past(c, n, w) THEN n ELSE IF n = 0 THEN x ELSE n - 1
    BY DEF LastBefore
<1> HIDE DEF o, m
<1>3. x <= o
    BY <1>1
<1>4. m = IF ~Past(c, o, w) THEN o ELSE o - 1
    BY <1>1, <1>2, <1>3
<1>5. CASE ~Past(c, o, w)
    <2>1. m = o
        BY <1>4, <1>5
    <2>2. \A y \in OnCurve(c) : x <= y => (Past(c, y, w) <=> y > m)
        <3> SUFFICES ASSUME NEW y \in OnCurve(c) PROVE Past(c, y, w) <=> y > o
            BY <2>1
        <3>1. y \in Int /\ (y < o \/ y = o \/ y > o)
            BY <1>1
        <3> QED BY <1>1, <1>5, <3>1
    <2> QED BY <1>1, <1>3, <2>1, <2>2 DEF m
<1>6. CASE Past(c, o, w)
    <2>1. m = o - 1 /\ x # o
        BY <1>4, <1>6
    <2>2. \A y \in OnCurve(c) : x <= y => (Past(c, y, w) <=> y > m)
        <3> SUFFICES ASSUME NEW y \in OnCurve(c) PROVE Past(c, y, w) <=> y > o - 1
            BY <2>1
        <3>1. y \in Int /\ (y < o \/ y = o \/ y > o)
            BY <1>1
        <3> QED BY <1>1, <1>6, <3>1
    <2>3. m \in Int /\ x <= m
        BY <1>1, <1>3, <2>1
    <2> QED BY <2>2, <2>3 DEF m
<1> QED BY <1>5, <1>6

\* It is the outcome itself where nothing is paid any more.
LEMMA LastBeforeSunk ==
    ASSUME NEW collateral \in Nat, NEW c, Curve(c, collateral), c.kind = "hyperbola", NEW w \in Int, w > 2 * c.f,
           NEW x \in Nat \ {0}, Past(c, x, w)
    PROVE  LastBefore(c, x, w) \in Int /\ LastBefore(c, x, w) <= x
<1> DEFINE o == OutcomeForPayout(c, w)
           m == LastBefore(c, x, w)
<1>1. o \in Int /\ \A y \in Int : y < o => ~Past(c, y, w)
    <2>1. Reaches(c, w) /\ OnCurve(c) = Int
        BY DEF Reaches, OnCurve
    <2> QED BY <2>1, OutcomeIs
<1>2. m = LET n == IF o < 0 THEN x + 1 ELSE o
          IN  IF ~Past(c, n, w) THEN n ELSE IF n = 0 THEN x ELSE n - 1
    BY DEF LastBefore
<1> HIDE DEF o, m
<1>3. o <= x
    BY <1>1
<1>4. Past(c, x + 1, w)
    BY StaysPast
<1>5. m \in Int /\ m <= x
    BY <1>1, <1>2, <1>3, <1>4
<1> QED BY <1>5 DEF m

-----------------------------------------------------------------------------
(***************************************************************************)
(* A piece of a contract.                                                  *)
(***************************************************************************)
\* The points and the curve of a piece.
LEMMA PieceIs ==
    ASSUME ContractOK(contract), NEW i \in Pieces
    PROVE  /\ contract.collateral \in Nat /\ Len(contract.curves) \in Nat /\ i \in 1..Len(contract.curves)
           /\ From(i).outcome \in Nat /\ To(i).outcome \in Nat /\ From(i).outcome < To(i).outcome
           /\ From(i).payout \in 0..contract.collateral /\ To(i).payout \in 0..contract.collateral
           /\ contract.curves[i].kind = "line" =>
                contract.curves[i].from = From(i) /\ contract.curves[i].to = To(i)
           /\ ~Constant(i) => Curve(contract.curves[i], contract.collateral)
<1> DEFINE n == Len(contract.curves)
           C == contract.collateral
           c == contract.curves[i]
           D == LineCurve(C) \union HyperbolaCurve
<1>1. C \in Nat /\ contract.curves \in Seq(D) /\ contract.curves # <<>>
    BY DEF ContractOK
<1> HIDE DEF D
<1>2. n \in Nat /\ DOMAIN contract.curves = 1..n
    BY <1>1, LenProperties
<1>3. contract.points \in Seq(PayoutPoint(C)) /\ Len(contract.points) = n + 1
    BY DEF ContractOK
<1>4. DOMAIN contract.points = 1..n + 1
    BY <1>3, LenProperties
<1> HIDE DEF n, C
<1>5. i \in 1..n /\ i \in 1..n + 1 /\ i + 1 \in 1..n + 1 /\ i < i + 1
    BY <1>2 DEF Pieces, n
<1>6. From(i) \in PayoutPoint(C) /\ To(i) \in PayoutPoint(C)
    <2>1. \A j \in 1..n + 1 : contract.points[j] \in PayoutPoint(C)
        BY <1>3, ElementOfSeq
    <2> QED BY <1>5, <2>1 DEF From, To
<1>7. From(i).outcome < To(i).outcome
    BY <1>4, <1>5 DEF ContractOK, From, To
<1>8. c \in D /\ (c.kind = "line" => c.from = From(i) /\ c.to = To(i))
    <2>1. c \in D
        BY <1>1, <1>5, ElementOfSeq DEF n
    <2> QED BY <1>2, <1>5, <2>1 DEF ContractOK, From, To
<1>9. ~Constant(i) => Curve(c, C)
    <2> SUFFICES ASSUME ~Constant(i), c \notin HyperbolaCurve PROVE Curve(c, C)
        BY DEF Curve
    <2>1. c \in LineCurve(C)
        BY <1>8 DEF D
    <2>2. c.kind = "line"
        BY <2>1 DEF LineCurve
    <2> QED BY <1>7, <1>8, <2>1, <2>2 DEF Constant, Curve
<1>10. /\ From(i).outcome \in Nat /\ To(i).outcome \in Nat
       /\ From(i).payout \in 0..C /\ To(i).payout \in 0..C
    BY <1>6 DEF PayoutPoint
<1> QED BY <1>1, <1>2, <1>5, <1>7, <1>8, <1>9, <1>10 DEF n, C

\* RoundPayout, without the contract.
LEMMA PayoutIs == \A i, x, mod : RoundPayout(i, x, mod) = Rounded(contract.curves[i], contract.collateral, x, mod)
BY DEF RoundPayout, Rounded, Reached

\* The rounding intervals are in order.
LEMMA IntervalsAre ==
    ASSUME ContractOK(contract)
    PROVE  LET n == Len(contract.rounding)
           IN  /\ n \in Nat /\ DOMAIN contract.rounding = 1..n
               /\ \A k \in 1..n : contract.rounding[k].begin \in Nat /\ contract.rounding[k].mod \in Nat \ {0}
               /\ \A j, k \in 1..n : j < k => contract.rounding[j].begin < contract.rounding[k].begin
               /\ \A x \in Int :
                    /\ IntervalAt(x) \in 0..n /\ Mod(x) \in Nat \ {0}
                    /\ \A k \in 1..n : contract.rounding[k].begin <= x <=> k <= IntervalAt(x)
<1> DEFINE n == Len(contract.rounding)
           B(k) == contract.rounding[k].begin
<1>1. contract.rounding \in Seq(RoundingInterval)
    BY DEF ContractOK
<1>2. n \in Nat /\ DOMAIN contract.rounding = 1..n
    BY <1>1, LenProperties
<1> HIDE DEF n
<1>3. \A k \in 1..n : B(k) \in Nat /\ contract.rounding[k].mod \in Nat \ {0}
    <2>1. \A k \in 1..n : contract.rounding[k] \in RoundingInterval
        BY <1>1, ElementOfSeq DEF n
    <2> QED BY <2>1 DEF RoundingInterval
<1>4. \A j, k \in 1..n : j < k => B(j) < B(k)
    BY <1>2 DEF ContractOK
<1>5. ASSUME NEW x \in Int PROVE IntervalAt(x) \in 0..n /\ \A k \in 1..n : B(k) <= x <=> k <= IntervalAt(x)
    <2> DEFINE begun == {k \in 1..n : B(k) <= x}
    <2>1. IntervalAt(x) = IF begun = {} THEN 0 ELSE CHOOSE k \in begun : \A j \in begun : j <= k
        BY <1>2 DEF IntervalAt
    <2>2. CASE begun = {}
        <3>1. \A k \in 1..n : ~(B(k) <= x)
            BY <2>2
        <3>2. IntervalAt(x) = 0
            BY <2>1, <2>2
        <3> QED BY <1>2, <3>1, <3>2
    <2>3. CASE begun # {}
        <3> DEFINE T == {m \in Nat : \E k \in begun : m = n - k}
        <3>1. T # {} /\ T \in SUBSET Nat
            <4>1. PICK k0 \in begun : TRUE
                BY <2>3
            <4>2. k0 \in 1..n
                OBVIOUS
            <4>3. n - k0 \in Nat
                BY <1>2, <4>2
            <4> QED BY <4>1, <4>3
        <3>2. PICK m \in T : \A l \in T : m <= l
            <4> HIDE DEF T
            <4> QED BY <3>1, Least
        <3>3. PICK k \in begun : m = n - k
            BY <3>2
        <3>4. \A j \in begun : j <= k
            <4> SUFFICES ASSUME NEW j \in begun PROVE j <= k
                OBVIOUS
            <4>1. j \in Nat /\ j <= n /\ n \in Nat
                BY <1>2
            <4>2. n - j \in Nat
                BY <4>1
            <4>3. n - j \in T
                <5> HIDE DEF begun
                <5> QED BY <4>2
            <4>4. m <= n - j
                BY <3>2, <4>3
            <4> QED BY <1>2, <3>3, <4>1, <4>4
        <3> DEFINE I == IntervalAt(x)
        <3>5. I \in begun /\ \A j \in begun : j <= I
            <4> HIDE DEF begun
            <4> QED BY <2>1, <2>3, <3>4
        <3> HIDE DEF I
        <3>6. \A j \in 1..n : B(j) <= x <=> j <= I
            <4> SUFFICES ASSUME NEW j \in 1..n PROVE B(j) <= x <=> j <= I
                OBVIOUS
            <4>1. B(j) <= x => j <= I
                BY <3>5
            <4>2. ASSUME j <= I PROVE B(j) <= x
                <5>1. I \in 1..n /\ B(I) <= x /\ I \in Int
                    BY <1>2, <3>5
                <5>2. j = I \/ j < I
                    BY <4>2, <5>1
                <5>3. j < I => B(j) < B(I)
                    BY <1>4, <5>1
                <5> QED BY <1>3, <5>1, <5>2, <5>3
            <4> QED BY <4>1, <4>2
        <3> QED BY <1>2, <3>5, <3>6 DEF I
    <2> QED BY <2>2, <2>3
<1>6. ASSUME NEW x \in Int PROVE Mod(x) \in Nat \ {0}
    <2>1. CASE IntervalAt(x) = 0
        BY <2>1 DEF Mod
    <2>2. CASE IntervalAt(x) # 0
        <3>1. IntervalAt(x) \in 0..n
            BY <1>5
        <3>2. IntervalAt(x) \in 1..n
            BY <1>2, <2>2, <3>1
        <3> QED BY <1>3, <2>2, <3>2 DEF Mod
    <2> QED BY <2>1, <2>2
<1> HIDE DEF B
<1>7. /\ n \in Nat /\ DOMAIN contract.rounding = 1..n
      /\ \A k \in 1..n : B(k) \in Nat /\ contract.rounding[k].mod \in Nat \ {0}
      /\ \A j, k \in 1..n : j < k => B(j) < B(k)
      /\ \A x \in Int : /\ IntervalAt(x) \in 0..n /\ Mod(x) \in Nat \ {0}
                        /\ \A k \in 1..n : B(k) <= x <=> k <= IntervalAt(x)
    BY <1>2, <1>3, <1>4, <1>5, <1>6
<1> QED BY <1>7 DEF n, B

\* Points are in order, so each outcome of a contract has its payout from any piece it is in.
LEMMA PointsOrder ==
    ASSUME ContractOK(contract), NEW i \in Pieces, NEW j \in Pieces, i < j
    PROVE  To(i).outcome <= From(j).outcome /\ (To(i).outcome = From(j).outcome => j = i + 1 /\ To(i) = From(j))
<1>1. i \in 1..Len(contract.curves) /\ j \in 1..Len(contract.curves) /\ Len(contract.curves) \in Nat
    BY PieceIs
<1>2. Len(contract.points) = Len(contract.curves) + 1 /\ DOMAIN contract.points = 1..Len(contract.curves) + 1
    <2>1. contract.points \in Seq(PayoutPoint(contract.collateral)) /\ Len(contract.points) = Len(contract.curves) + 1
        BY DEF ContractOK
    <2> QED BY <2>1, LenProperties
<1>3. \A k, l \in DOMAIN contract.points : k < l => contract.points[k].outcome < contract.points[l].outcome
    BY DEF ContractOK
<1>4. To(i).outcome \in Nat /\ From(j).outcome \in Nat
    BY PieceIs
<1>5. CASE j = i + 1
    <2>1. To(i) = From(j)
        BY <1>5 DEF To, From
    <2> QED BY <1>4, <1>5, <2>1
<1>6. CASE j # i + 1
    <2>1. i + 1 < j /\ i + 1 \in DOMAIN contract.points /\ j \in DOMAIN contract.points
        BY <1>1, <1>2, <1>6
    <2>2. To(i).outcome < From(j).outcome
        BY <1>3, <2>1 DEF To, From
    <2> QED BY <1>4, <2>2
<1> QED BY <1>5, <1>6

\* What an outcome is owed, from any piece it is in.
LEMMA OwedIs ==
    ASSUME ContractOK(contract), NEW i \in Pieces, NEW x \in From(i).outcome..To(i).outcome
    PROVE  Owed(x) = CASE x = From(i).outcome \/ Constant(i) -> From(i).payout
                       [] x = To(i).outcome -> To(i).payout
                       [] OTHER -> Clamp(RoundPayout(i, x, Mod(x)))
<1> DEFINE Pays(k) == CASE x = From(k).outcome \/ Constant(k) -> From(k).payout
                        [] x = To(k).outcome -> To(k).payout
                        [] OTHER -> Clamp(RoundPayout(k, x, Mod(x)))
           j == CHOOSE k \in Pieces : From(k).outcome <= x /\ x <= To(k).outcome
<1>1. \A k \in Pieces : From(k).outcome \in Int /\ To(k).outcome \in Int /\ k \in Int /\ From(k).outcome < To(k).outcome
    <2>1. \A k \in Pieces : From(k).outcome \in Nat /\ To(k).outcome \in Nat /\ From(k).outcome < To(k).outcome
        BY PieceIs
    <2>2. \A k \in Pieces : k \in Int
        BY DEF Pieces
    <2> QED BY <2>1, <2>2
<1>2. From(i).outcome <= x /\ x <= To(i).outcome /\ x \in Int
    BY <1>1
<1>3. j \in Pieces /\ From(j).outcome <= x /\ x <= To(j).outcome
    BY <1>2
<1>4. Owed(x) = Pays(j)
    BY DEF Owed
<1> HIDE DEF j
<1>5. ASSUME NEW k \in Pieces, NEW l \in Pieces, k < l, x <= To(k).outcome, From(l).outcome <= x
      PROVE  Pays(k) = Pays(l)
    <2>1. To(k).outcome <= From(l).outcome /\ (To(k).outcome = From(l).outcome => To(k) = From(l))
        BY <1>5, PointsOrder
    <2>2. x = To(k).outcome /\ x = From(l).outcome /\ To(k) = From(l)
        BY <1>1, <1>2, <1>5, <2>1
    <2>3. x # From(k).outcome
        BY <1>1, <2>2
    <2>4. Pays(l) = From(l).payout
        <3>1. x # To(l).outcome
            BY <1>1, <2>2
        <3> QED BY <2>2, <3>1
    <2>5. Pays(k) = To(k).payout
        BY <2>2, <2>3 DEF Constant
    <2> QED BY <2>2, <2>4, <2>5
<1> HIDE DEF Pays
<1>6. Pays(j) = Pays(i)
    <2>1. j = i \/ j < i \/ i < j
        BY <1>1, <1>3
    <2> QED BY <1>2, <1>3, <1>5, <2>1
<1> QED BY <1>4, <1>6 DEF Pays

\* A turn of the inner loop: the payout of outcome x of piece i is p, and those
\* before end are rounded to multiples of mod.
OnLeg(i, x, end, mod, p) ==
  /\ x \in From(i).outcome + 1..end /\ end \in Begins(i) \union {To(i).outcome} /\ mod \in Nat \ {0}
  /\ x < end => p = RoundPayout(i, x, mod) /\ \A y \in x..end - 1 : Mod(y) = mod

\* What is known on a leg.
LEMMA LegIs ==
    ASSUME ContractOK(contract), NEW i \in Pieces, ~Constant(i), NEW x, NEW end, NEW mod, NEW p,
           OnLeg(i, x, end, mod, p), x < end
    PROVE  /\ contract.collateral \in Nat /\ Curve(contract.curves[i], contract.collateral)
           /\ From(i).outcome \in Nat /\ To(i).outcome \in Nat /\ To(i).payout \in 0..contract.collateral
           /\ x \in Nat \ {0} /\ end \in Nat /\ From(i).outcome < x /\ x < end /\ end <= To(i).outcome
           /\ \A y \in From(i).outcome..To(i).outcome : y \in Int /\ y \in OnCurve(contract.curves[i])
           /\ \A y \in x..end - 1 : y \in Inside(i) /\ Mod(y) = mod
           /\ mod \in Nat \ {0} /\ p \in Nat /\ p \in Multiples(mod)
           /\ p = Rounded(contract.curves[i], contract.collateral, x, mod)
<1> DEFINE c == contract.curves[i]
           C == contract.collateral
           F == From(i).outcome
           T == To(i).outcome
<1>1. /\ C \in Nat /\ Curve(c, C) /\ F \in Nat /\ T \in Nat /\ To(i).payout \in 0..C
      /\ c.kind = "line" => c.from = From(i) /\ c.to = To(i)
    BY PieceIs
<1>2. /\ x \in F + 1..end /\ end \in Begins(i) \union {T} /\ mod \in Nat \ {0}
      /\ p = RoundPayout(i, x, mod) /\ \A y \in x..end - 1 : Mod(y) = mod
    BY DEF OnLeg
<1>3. end \in Nat /\ end <= T
    <2>1. Begins(i) \subseteq F + 2..T - 1
        BY DEF Begins
    <2> QED BY <1>1, <1>2, <2>1
<1>4. x \in Nat \ {0} /\ F < x
    BY <1>1, <1>2
<1>5. \A y \in F..T : y \in Int /\ y \in OnCurve(c)
    BY <1>1 DEF OnCurve
<1>6. \A y \in x..end - 1 : y \in Inside(i)
    BY <1>1, <1>3, <1>4 DEF Inside
<1>7. p = Rounded(c, C, x, mod)
    BY <1>2, PayoutIs
<1>8. p \in Nat /\ p \in Multiples(mod)
    <2>1. x \in Int /\ x <= x
        BY <1>4
    <2> QED BY <1>1, <1>2, <1>7, <2>1, RoundedOrder
<1> QED BY <1>1, <1>2, <1>3, <1>4, <1>5, <1>6, <1>7, <1>8

\* The edge is found.
LEMMA LegReaches ==
    ASSUME ContractOK(contract), NEW i \in Pieces, ~Constant(i), ~Awkward(i), NEW x, NEW end, NEW mod, NEW p,
           OnLeg(i, x, end, mod, p), x < end
    PROVE  LET c == contract.curves[i]
           IN  /\ Reaches(c, Edge(c, p, mod))
               /\ c.kind = "hyperbola" => 2 * c.f < 2 * RoundPayout(i, end - 1, mod) - mod
<1> DEFINE c == contract.curves[i]
           C == contract.collateral
           q == RoundPayout(i, end - 1, mod)
<1>1. /\ C \in Nat /\ Curve(c, C) /\ x \in Nat \ {0} /\ end \in Nat /\ x < end /\ mod \in Nat \ {0} /\ p \in Nat
      /\ \A y \in x..end - 1 : y \in Inside(i) /\ Mod(y) = mod
      /\ p = Rounded(c, C, x, mod)
    BY LegIs
<1>2. end - 1 \in Inside(i) /\ Mod(end - 1) = mod /\ end - 1 \in Int /\ x <= end - 1 /\ end - 1 + 1 = end
    BY <1>1
<1>3. q = Rounded(c, C, end - 1, mod)
    BY PayoutIs
<1> HIDE DEF c, C, q
<1>4. q \in Nat /\ (~Rising(c) => q <= p)
    <2>1. x \in Int
        BY <1>1
    <2> QED BY <1>1, <1>2, <1>3, <2>1, RoundedOrder
<1>5. ASSUME c.kind = "hyperbola" PROVE 2 * c.f < 2 * q - mod /\ Reaches(c, Edge(c, p, mod))
    <2>1. end \in Begins(i) \union {To(i).outcome}
        BY DEF OnLeg
    <2>2. ~NeverThere(i)
        BY DEF Awkward
    <2>3. ~(2 * c.f >= 2 * q - mod)
        BY <1>2, <1>5, <2>1, <2>2 DEF NeverThere, c, q
    <2>4. c.f \in Int /\ ~Rising(c)
        BY <1>1, <1>5, CurveIs
    <2>5. 2 * c.f < 2 * q - mod
        BY <1>1, <1>4, <2>3, <2>4
    <2>6. 2 * c.f < 2 * p - mod
        BY <1>1, <1>4, <2>4, <2>5
    <2> QED BY <2>4, <2>5, <2>6 DEF Reaches, Edge
<1>6. c.kind = "line" => Reaches(c, Edge(c, p, mod))
    BY DEF Reaches
<1>7. c.kind \in {"line", "hyperbola"}
    BY <1>1, CurveIs
<1> QED BY <1>5, <1>6, <1>7 DEF c, q

\* The payout of an outcome past where the curve is below nothing.
LEMMA SunkPays ==
    ASSUME NEW collateral \in Nat, NEW c, Curve(c, collateral), c.kind = "hyperbola", NEW mod \in Nat \ {0},
           NEW y \in Int, Past(c, y, -mod), NEW m \in Nat \ {0}
    PROVE  Rounded(c, collateral, y, m) = 0 /\ Compare(c, y, 0) = -1
<1>1. Compare(c, y, -mod) = -1
    BY CurveIs DEF Past
<1>2. \A w \in Nat : Compare(c, y, w) = -1
    <2> SUFFICES ASSUME NEW w \in Nat, Compare(c, y, w) # -1 PROVE FALSE
        OBVIOUS
    <2>1. -mod \in Int /\ -mod < w /\ w \in Int
        OBVIOUS
    <2>2. Compare(c, y, -mod) = 1
        BY <2>1, CompareLess
    <2> QED BY <1>1, <2>2
<1>3. Rounds(c, collateral, y, m, 0)
    <2>1. 0 \in Multiples(m)
        <3>1. m * 0 = 0 /\ 0 \in Nat
            OBVIOUS
        <3> QED BY <3>1 DEF Multiples
    <2>2. 2 * 0 - m <= 0 /\ 2 * 0 + m \in Nat /\ 2 * 0 + m > 0
        OBVIOUS
    <2>3. Compare(c, y, 2 * 0 + m) = -1
        BY <1>2, <2>2
    <2> QED BY <2>1, <2>2, <2>3 DEF Rounds, Reached
<1>4. Rounds(c, collateral, y, m, Rounded(c, collateral, y, m))
    BY RoundedIs
<1> QED BY <1>2, <1>3, <1>4, OneRounding

\* Up to the last outcome before the edge the payout stays the same, after it it does not.
LEMMA LegSame ==
    ASSUME ContractOK(contract), NEW i \in Pieces, ~Constant(i), ~Awkward(i), NEW x, NEW end, NEW mod, NEW p,
           OnLeg(i, x, end, mod, p), x < end,
           ~Past(contract.curves[i], x, Edge(contract.curves[i], p, mod))
    PROVE  LET c == contract.curves[i]
               m == LastBefore(c, x, Edge(c, p, mod))
           IN  /\ m \in Int /\ x <= m
               /\ \A y \in x..To(i).outcome :
                    /\ y <= m => RoundPayout(i, y, mod) = p
                    /\ y > m => Past(c, y, Edge(c, p, mod)) /\ (Rising(c) \/ p > 0 => RoundPayout(i, y, mod) # p)
<1> DEFINE c == contract.curves[i]
           C == contract.collateral
           T == To(i).outcome
           w == Edge(c, p, mod)
           m == LastBefore(c, x, w)
           P(y) == RoundPayout(i, y, mod)
<1>1. /\ C \in Nat /\ Curve(c, C) /\ x \in Nat \ {0} /\ mod \in Nat \ {0} /\ p \in Nat /\ T \in Nat
      /\ p = Rounded(c, C, x, mod)
      /\ \A y \in x..T : y \in Int /\ y \in OnCurve(c) /\ x <= y
      /\ x \in OnCurve(c) /\ x \in Int
    <2>1. /\ C \in Nat /\ Curve(c, C) /\ x \in Nat \ {0} /\ mod \in Nat \ {0} /\ p \in Nat /\ T \in Nat
          /\ p = Rounded(c, C, x, mod) /\ From(i).outcome \in Nat /\ From(i).outcome < x /\ x < end /\ end <= T /\ end \in Nat
          /\ \A y \in From(i).outcome..T : y \in Int /\ y \in OnCurve(c)
        BY LegIs
    <2> HIDE DEF c, C, T
    <2>2. x \in x..T /\ \A y \in x..T : y \in From(i).outcome..T /\ x <= y
        BY <2>1
    <2> QED BY <2>1, <2>2
<1>2. Reaches(c, w)
    BY LegReaches
<1>3. \A y : P(y) = Rounded(c, C, y, mod)
    BY PayoutIs
<1> HIDE DEF c, C, T, P, m, w
<1>4. w \in Int /\ ~Past(c, x, w)
    BY <1>1 DEF w, Edge, c
<1>5. m \in Int /\ x <= m /\ \A y \in OnCurve(c) : x <= y => (Past(c, y, w) <=> y > m)
    <2>1. LET k == LastBefore(c, x, w)
          IN  k \in Int /\ x <= k /\ \A y \in OnCurve(c) : x <= y => (Past(c, y, w) <=> y > k)
        BY <1>1, <1>2, <1>4, LastBeforeIs
    <2> QED BY <2>1 DEF m
<1>6. \A y \in x..T : Past(c, y, w) <=> y > m
    BY <1>1, <1>5
<1>7. CASE Rising(c) \/ p > 0
    <2>1. \A y \in x..T : P(y) # p <=> Past(c, y, w)
        <3> SUFFICES ASSUME NEW y \in x..T PROVE Rounded(c, C, y, mod) # p <=> Past(c, y, w)
            BY <1>3
        <3> QED BY <1>1, <1>7, EdgeIs DEF w
    <2>2. \A y \in x..T : /\ y <= m => P(y) = p
                          /\ y > m => Past(c, y, w) /\ P(y) # p
        <3> SUFFICES ASSUME NEW y \in x..T PROVE (y <= m => P(y) = p) /\ (y > m => Past(c, y, w) /\ P(y) # p)
            OBVIOUS
        <3>1. y <= m => ~(y > m)
            BY <1>1, <1>5
        <3> QED BY <1>6, <2>1, <3>1
    <2> QED BY <1>5, <2>2 DEF c, w, m, T, P
<1>8. CASE ~Rising(c) /\ ~(p > 0)
    <2>1. \A y \in x..T : P(y) = p
        <3> SUFFICES ASSUME NEW y \in x..T PROVE P(y) = p
            OBVIOUS
        <3> DEFINE q == Rounded(c, C, y, mod)
        <3>1. q \in Nat /\ q <= p
            BY <1>1, <1>8, RoundedOrder
        <3> HIDE DEF q
        <3>2. q = p
            BY <1>1, <1>8, <3>1
        <3> QED BY <1>3, <3>2 DEF q
    <2>2. \A y \in x..T : y > m => Past(c, y, w)
        BY <1>6
    <2> QED BY <1>5, <1>8, <2>1, <2>2 DEF c, w, m, T, P
<1> QED BY <1>7, <1>8

NextPay(c, p, mod) == IF Rising(c) THEN p + mod ELSE p - mod

\* The payout after it is the next one, and where the leg ends there it is that of the last point.
LEMMA LegNext ==
    ASSUME ContractOK(contract), NEW i \in Pieces, ~Constant(i), ~Awkward(i), NEW x, NEW end, NEW mod, NEW p,
           OnLeg(i, x, end, mod, p), x < end,
           LET c == contract.curves[i] IN Rising(c) \/ p > 0,
           LET c == contract.curves[i] IN LastBefore(c, x, Edge(c, p, mod)) < end
    PROVE  LET c == contract.curves[i]
               m == LastBefore(c, x, Edge(c, p, mod))
               q == NextPay(c, p, mod)
           IN  /\ m \in x..end - 1 /\ RoundPayout(i, m, mod) = p /\ RoundPayout(i, m + 1, mod) = q /\ q \in Nat
               /\ m + 1 = end => end = To(i).outcome /\ To(i).payout = q /\ (c.kind = "hyperbola" => c.f <= q)
<1> DEFINE c == contract.curves[i]
           C == contract.collateral
           T == To(i).outcome
           m == LastBefore(c, x, Edge(c, p, mod))
           q == NextPay(c, p, mod)
           P(y) == RoundPayout(i, y, mod)
           r == P(m + 1)
<1>1. /\ C \in Nat /\ Curve(c, C) /\ x \in Nat \ {0} /\ end \in Nat /\ x < end /\ end <= T /\ mod \in Nat \ {0} /\ p \in Nat
      /\ p \in Multiples(mod) /\ T \in Nat
      /\ p = Rounded(c, C, x, mod)
      /\ \A y \in x..end - 1 : y \in Inside(i) /\ Mod(y) = mod
      /\ From(i).outcome \in Nat /\ From(i).outcome < x
      /\ \A y \in From(i).outcome..T : y \in Int /\ y \in OnCurve(c)
    BY LegIs
<1>2. (Rising(c) \/ p > 0) /\ m < end
    OBVIOUS
<1>3. x \in OnCurve(c)
    <2> HIDE DEF T, c
    <2>1. x \in From(i).outcome..T
        BY <1>1
    <2> QED BY <1>1, <2>1
<1>4. ~Past(c, x, Edge(c, p, mod))
    <2> HIDE DEF c, C
    <2> QED BY <1>1, <1>2, <1>3, EdgeAhead
<1>5. /\ m \in Int /\ x <= m
      /\ \A y \in x..T : /\ y <= m => P(y) = p
                         /\ y > m => (Rising(c) \/ p > 0 => P(y) # p)
    BY <1>4, LegSame
<1>6. \A y : P(y) = Rounded(c, C, y, mod)
    BY PayoutIs
<1> HIDE DEF c, C, T, m, P, q
<1>7. m \in x..end - 1 /\ m \in x..T /\ m + 1 \in x..T /\ m <= m /\ m + 1 > m /\ m \in Int /\ m + 1 \in Int /\ m <= m + 1
    BY <1>1, <1>2, <1>5
<1>8. P(m) = p /\ r # p
    BY <1>2, <1>5, <1>7
<1>9. r \in Nat /\ r \in Multiples(mod) /\ (Rising(c) => p <= r) /\ (~Rising(c) => r <= p)
    <2> DEFINE y == m + 1
    <2>1. m \in Int /\ y \in Int /\ m <= y
        BY <1>7
    <2>2. Rounded(c, C, m, mod) = p /\ Rounded(c, C, y, mod) = P(m + 1)
        BY <1>6, <1>8
    <2> HIDE DEF y
    <2> QED BY <1>1, <2>1, <2>2, RoundedOrder DEF r
<1>10. m \in Inside(i) /\ Mod(m) = mod
    BY <1>1, <1>7
<1> HIDE DEF r
<1>11. Abs(p - r) <= mod
    <2>1. ~Steep(i)
        BY DEF Awkward
    <2>2. ~(Abs(RoundPayout(i, m, Mod(m)) - RoundPayout(i, m + 1, Mod(m))) > Mod(m))
        BY <1>10, <2>1 DEF Steep
    <2>3. ~(Abs(p - r) > mod)
        BY <1>8, <1>10, <2>2 DEF P, r
    <2>4. Abs(p - r) \in Int
        BY <1>1, <1>9 DEF Abs
    <2> QED BY <1>1, <2>3, <2>4
<1>12. r = q
    <2>1. (p < r => p + mod <= r) /\ (r < p => r + mod <= p)
        BY <1>1, <1>9, MultiplesApart
    <2>2. CASE Rising(c)
        <3>1. p < r
            BY <1>1, <1>8, <1>9, <2>2
        <3>2. Abs(p - r) = r - p
            BY <1>1, <1>9, <3>1 DEF Abs
        <3> QED BY <1>1, <1>9, <1>11, <2>1, <2>2, <3>1, <3>2 DEF q, NextPay
    <2>3. CASE ~Rising(c)
        <3>1. r < p
            BY <1>1, <1>8, <1>9, <2>3
        <3>2. Abs(p - r) = p - r
            BY <1>1, <1>9, <3>1 DEF Abs
        <3> QED BY <1>1, <1>9, <1>11, <2>1, <2>3, <3>1, <3>2 DEF q, NextPay
    <2> QED BY <2>2, <2>3
<1>13. ASSUME m + 1 = end PROVE end = T /\ To(i).payout = q /\ (c.kind = "hyperbola" => c.f <= q)
    <2>1. end - 1 = m
        BY <1>7, <1>13
    <2>2. end = T
        <3>1. CASE end \in Begins(i)
            <4>1. ~ChangesAtBegin(i)
                BY DEF Awkward
            <4>2. RoundPayout(i, end - 1, Mod(end - 1)) = RoundPayout(i, end, Mod(end - 1))
                BY <3>1, <4>1 DEF ChangesAtBegin
            <4> QED BY <1>8, <1>10, <1>13, <2>1, <4>2 DEF P, r
        <3>2. end \in Begins(i) \union {T}
            BY DEF OnLeg, T
        <3> QED BY <3>1, <3>2
    <2>3. ~Ragged(i) /\ ~NeverThatLow(i)
        BY DEF Awkward
    <2>4. Mod(T - 1) = mod /\ Inside(i) # {} /\ RoundPayout(i, T, mod) = r /\ RoundPayout(i, T - 1, mod) = p
        BY <1>8, <1>10, <1>13, <2>1, <2>2 DEF P, r
    <2>5. ~(r # To(i).payout \/ (c.kind = "hyperbola" /\ c.f > r))
        BY <1>8, <1>12, <1>9, <2>3, <2>4 DEF Ragged, NeverThatLow, ChangesLast, LastRounded, c, T
    <2>6. c.kind = "hyperbola" => c.f \in Int
        BY <1>1, CurveIs
    <2> QED BY <1>9, <1>12, <2>2, <2>5, <2>6
<1> QED BY <1>7, <1>8, <1>9, <1>12, <1>13 DEF c, m, q, P, r, T

\* Where the payout has fallen to nothing it stays there.
LEMMA LegSinks ==
    ASSUME ContractOK(contract), NEW i \in Pieces, ~Constant(i), ~Awkward(i), NEW x, NEW end, NEW mod, NEW p,
           OnLeg(i, x, end, mod, p), x < end,
           LET c == contract.curves[i] IN ~(Rising(c) \/ p > 0),
           LET c == contract.curves[i] IN LastBefore(c, x, Edge(c, p, mod)) < end
    PROVE  LET c == contract.curves[i]
               m == LastBefore(c, x, Edge(c, p, mod))
           IN  /\ m \in Int /\ p = 0 /\ NextPay(c, p, mod) = -mod
               /\ \A y \in x..To(i).outcome - 1 : RoundPayout(i, y, Mod(y)) = 0
               /\ m \notin From(i).outcome..To(i).outcome => To(i).payout = 0
<1> DEFINE c == contract.curves[i]
           C == contract.collateral
           F == From(i).outcome
           T == To(i).outcome
           w == Edge(c, p, mod)
           m == LastBefore(c, x, w)
<1>1. /\ C \in Nat /\ Curve(c, C) /\ x \in Nat \ {0} /\ end \in Nat /\ x < end /\ end <= T /\ mod \in Nat \ {0} /\ p \in Nat
      /\ T \in Nat /\ F \in Nat /\ F < x
      /\ \A y \in x..end - 1 : Mod(y) = mod
      /\ \A y \in F..T : y \in Int /\ y \in OnCurve(c)
    BY LegIs
<1>2. ~Rising(c) /\ p = 0 /\ m < end
    BY <1>1
<1>3. w = -mod /\ NextPay(c, p, mod) = -mod /\ -mod \in Int /\ -mod < 0
    <2> HIDE DEF c
    <2> QED BY <1>1, <1>2 DEF Edge, NextPay
<1>4. \A y : RoundPayout(i, y, Mod(y)) = Rounded(c, C, y, Mod(y))
    BY PayoutIs
<1>5. Reaches(c, w)
    BY LegReaches
<1>6. ~Past(c, x, w) => LET k == LastBefore(c, x, w)
                        IN /\ k \in Int /\ x <= k
                           /\ \A y \in x..T : /\ y <= k => RoundPayout(i, y, mod) = p
                                              /\ y > k => Past(c, y, w)
    BY LegSame
<1> HIDE DEF c, C, F, T, w, m
<1>7. ~Past(c, x, w) => /\ m \in Int /\ x <= m
                        /\ \A y \in x..T : /\ y <= m => RoundPayout(i, y, mod) = p
                                           /\ y > m => Past(c, y, w)
    BY <1>6 DEF m
<1>8. c.kind = "hyperbola"
    <2>1. CASE c.kind = "line"
        <3>1. x \in F..T /\ T \in F..T /\ T \in x..T
            BY <1>1
        <3>2. Compare(c, x, w) = 1 /\ Compare(c, T, w) = 1
            BY <1>1, <1>3, <2>1, <3>1, LineWithin
        <3>3. ~Past(c, x, w) /\ ~Past(c, T, w)
            BY <1>2, <3>2 DEF Past
        <3>4. ~(T > m) /\ m \in Int
            BY <1>7, <3>1, <3>3
        <3> QED BY <1>1, <1>2, <3>4
    <2> QED BY <1>1, <2>1, CurveIs
<1>9. \A y \in Int : Mod(y) \in Nat \ {0}
    BY IntervalsAre
<1>10. \A y \in x..T : Past(c, y, w) => RoundPayout(i, y, Mod(y)) = 0 /\ Compare(c, y, 0) = -1
    <2> SUFFICES ASSUME NEW y \in x..T, Past(c, y, w) PROVE Rounded(c, C, y, Mod(y)) = 0 /\ Compare(c, y, 0) = -1
        BY <1>4
    <2>1. y \in Int /\ Mod(y) \in Nat \ {0} /\ Past(c, y, -mod)
        BY <1>1, <1>3, <1>9
    <2> QED BY <1>1, <1>8, <2>1, SunkPays
<1>11. CASE Past(c, x, w)
    <2>1. \A y \in x..T : Past(c, y, w)
        <3> SUFFICES ASSUME NEW y \in x..T PROVE Past(c, y, w)
            OBVIOUS
        <3>1. x \in Int /\ y \in Int /\ x <= y /\ w \in Int
            BY <1>1, <1>3
        <3> QED BY <1>1, <1>11, <3>1, StaysPast
    <2>2. m \in Int
        <3>1. w > 2 * c.f /\ w \in Int
            BY <1>3, <1>5, <1>8 DEF Reaches
        <3> QED BY <1>1, <1>8, <1>11, <3>1, LastBeforeSunk DEF m
    <2>3. To(i).payout = 0
        <3>1. T - 1 \in x..T
            BY <1>1
        <3>2. Compare(c, T - 1, 0) = -1
            BY <1>10, <2>1, <3>1
        <3>3. ~Ragged(i)
            BY DEF Awkward
        <3> QED BY <1>8, <3>2, <3>3 DEF Ragged, c, T
    <2>4. \A y \in x..T - 1 : y \in x..T
        BY <1>1
    <2>5. \A y \in x..T - 1 : RoundPayout(i, y, Mod(y)) = 0
        BY <1>10, <2>1, <2>4
    <2> QED BY <1>2, <1>3, <2>2, <2>3, <2>5 DEF c, m, w, T
<1>12. CASE ~Past(c, x, w)
    <2>1. m \in F..T
        BY <1>1, <1>2, <1>7, <1>12
    <2>2. \A y \in x..T - 1 : RoundPayout(i, y, Mod(y)) = 0
        <3> SUFFICES ASSUME NEW y \in x..T - 1 PROVE RoundPayout(i, y, Mod(y)) = 0
            OBVIOUS
        <3>1. y \in x..T
            BY <1>1
        <3>2. CASE y <= m
            <4>1. y \in x..end - 1
                BY <1>1, <1>2, <2>1, <3>2
            <4> QED BY <1>1, <1>2, <1>7, <1>12, <3>1, <3>2, <4>1
        <3>3. CASE y > m
            BY <1>7, <1>10, <1>12, <3>1, <3>3
        <3>4. y \in Int /\ m \in Int
            BY <1>1, <1>7, <1>12
        <3> QED BY <3>2, <3>3, <3>4
    <2> QED BY <1>2, <1>3, <1>7, <1>12, <2>1, <2>2 DEF c, m, w, T, F
<1> QED BY <1>11, <1>12

\* Where the payout changes for the last time in the piece.
LEMMA LegLast ==
    ASSUME ContractOK(contract), NEW i \in Pieces, ~Constant(i), ~Awkward(i), NEW x, NEW end, NEW mod, NEW p,
           OnLeg(i, x, end, mod, p), x < end,
           LET c == contract.curves[i] IN Rising(c) \/ p > 0,
           LET c == contract.curves[i] IN LastBefore(c, x, Edge(c, p, mod)) + 1 < end,
           LET q == NextPay(contract.curves[i], p, mod)
               o == OutcomeForPayout(contract.curves[i], 2 * q)
           IN  q > contract.collateral \/ q < 0 \/ o >= To(i).outcome \/ o < 0
    PROVE  LET c == contract.curves[i]
               m == LastBefore(c, x, Edge(c, p, mod))
               q == NextPay(c, p, mod)
           IN  /\ end = To(i).outcome
               /\ \A y \in m + 1..end - 1 : Clamp(RoundPayout(i, y, mod)) = Clamp(q)
<1> DEFINE c == contract.curves[i]
           C == contract.collateral
           F == From(i).outcome
           T == To(i).outcome
           m == LastBefore(c, x, Edge(c, p, mod))
           q == NextPay(c, p, mod)
           o == OutcomeForPayout(c, 2 * q)
           P(y) == RoundPayout(i, y, mod)
<1>1. /\ C \in Nat /\ Curve(c, C) /\ x \in Nat \ {0} /\ end \in Nat /\ x < end /\ end <= T /\ mod \in Nat \ {0} /\ p \in Nat
      /\ T \in Nat /\ F \in Nat /\ F < x
      /\ p \in Multiples(mod) /\ p = Rounded(c, C, x, mod)
      /\ \A y \in x..end - 1 : Mod(y) = mod /\ y \in Inside(i)
      /\ \A y \in F..T : y \in Int /\ y \in OnCurve(c)
    BY LegIs
<1>2. (Rising(c) \/ p > 0) /\ m + 1 < end /\ (q > C \/ q < 0 \/ o >= T \/ o < 0)
    OBVIOUS
<1>3. m \in x..end - 1 /\ P(m) = p /\ P(m + 1) = q /\ q \in Nat
    <2>1. m < end
        <3>1. m \in Int
            <4>1. x \in OnCurve(c)
                <5> HIDE DEF T, F, c
                <5>1. x \in F..T
                    BY <1>1
                <5> QED BY <1>1, <5>1
            <4>2. ~Past(c, x, Edge(c, p, mod))
                <5> HIDE DEF c, C
                <5> QED BY <1>1, <1>2, <4>1, EdgeAhead
            <4> QED BY <4>2, LegSame
        <3> HIDE DEF m
        <3> QED BY <1>1, <1>2, <3>1
    <2> QED BY <2>1, LegNext
<1>4. c.kind = "hyperbola" => 2 * c.f < 2 * P(end - 1) - mod
    BY LegReaches
<1>5. \A y : P(y) = Rounded(c, C, y, mod)
    BY PayoutIs
<1> HIDE DEF c, C, F, T, m, q, o, P
<1>6. /\ m \in Int /\ m + 1 \in Int /\ m + 1 \in F..T /\ m \in F..T /\ m >= 0 /\ end - 1 \in Int /\ m + 1 <= end - 1
      /\ end - 1 \in x..end - 1 /\ end - 1 \in m + 1..T - 1
    BY <1>1, <1>2, <1>3
<1>7. \A y \in m + 1..T : /\ y \in Int /\ P(y) \in Nat /\ P(y) \in Multiples(mod)
                          /\ Rounds(c, C, y, mod, P(y))
                          /\ (Rising(c) => q <= P(y)) /\ (~Rising(c) => P(y) <= q)
    <2> SUFFICES ASSUME NEW y \in m + 1..T
                 PROVE  /\ y \in Int /\ P(y) \in Nat /\ P(y) \in Multiples(mod)
                        /\ Rounds(c, C, y, mod, P(y))
                        /\ (Rising(c) => q <= P(y)) /\ (~Rising(c) => P(y) <= q)
        OBVIOUS
    <2>1. y \in Int /\ m + 1 <= y
        BY <1>1, <1>6
    <2> DEFINE a == Rounded(c, C, m + 1, mod)
               b == Rounded(c, C, y, mod)
    <2>2. b \in Nat /\ b \in Multiples(mod) /\ (Rising(c) => a <= b) /\ (~Rising(c) => b <= a)
        BY <1>1, <1>6, <2>1, RoundedOrder
    <2>3. Rounds(c, C, y, mod, b)
        BY <1>1, <2>1, RoundedIs
    <2>4. a = q /\ b = P(y)
        BY <1>3, <1>5
    <2> HIDE DEF a, b
    <2> QED BY <2>1, <2>2, <2>3, <2>4
<1>8. ASSUME end # T PROVE LET b == P(end - 1) IN OutcomeForPayout(c, 2 * b) \in 0..T - 1
    <2>1. end \in Begins(i)
        BY <1>8 DEF OnLeg, T
    <2>2. ~ChangesAtBegin(i)
        BY DEF Awkward
    <2>3. Mod(end - 1) = mod
        BY <1>1, <1>6
    <2>4. OutcomeForPayout(contract.curves[i], 2 * RoundPayout(i, end - 1, Mod(end - 1))) \in 0..To(i).outcome - 1
        BY <2>1, <2>2 DEF ChangesAtBegin
    <2> QED BY <2>3, <2>4 DEF c, P, T
<1>9. m + 1 \in m + 1..T /\ T \in m + 1..T /\ end - 1 \in m + 1..T /\ \A y \in m + 1..end - 1 : y \in m + 1..T
    BY <1>1, <1>6
<1>10. CASE q > C
    <2>1. Rising(c)
        <3>1. CASE ~Rising(c)
            <4>1. q = p - mod
                BY <3>1 DEF q, NextPay
            <4>2. Reached(c, C, x, 2 * p - mod)
                <5>1. x \in Int
                    BY <1>1
                <5> QED BY <1>1, <5>1, RoundedIs DEF Rounds
            <4>3. 2 * p - mod > 0 /\ 2 * p - mod > 2 * C
                BY <1>1, <1>10, <4>1
            <4> QED BY <1>1, <4>2, <4>3 DEF Reached
        <3> QED BY <3>1
    <2>2. \A y \in m + 1..T : P(y) > C
        BY <1>1, <1>3, <1>7, <1>10, <2>1
    <2>3. end = T
        <3> SUFFICES ASSUME end # T PROVE FALSE
            OBVIOUS
        <3> DEFINE b == P(end - 1)
                   l == OutcomeForPayout(c, 2 * b)
        <3>1. b > C /\ b \in Nat
            BY <1>7, <1>9, <2>2
        <3>2. c.kind = "line" /\ Reaches(c, 2 * b)
            BY <2>1 DEF Rising, Reaches
        <3>3. l \in 0..T - 1
            BY <1>8
        <3> HIDE DEF b
        <3>4. 2 * b \in Int /\ 2 * b > 2 * C
            BY <1>1, <3>1
        <3> DEFINE v == 2 * b
        <3> HIDE DEF v
        <3>5. v \in Int /\ v > 2 * C /\ Reaches(c, v) /\ OutcomeForPayout(c, v) < T
            BY <1>1, <3>2, <3>3, <3>4 DEF v
        <3>6. T \in OnCurve(c)
            BY <1>1
        <3>7. Past(c, T, v)
            BY <1>1, <3>5, <3>6, OutcomeIs
        <3>8. Compare(c, T, v) = -1
            BY <1>1, <3>2, <3>5, <3>6, LineWithin
        <3> QED BY <2>1, <3>7, <3>8 DEF Past
    <2>4. \A n \in Nat : n > C => Clamp(n) = C
        BY <1>1 DEF Clamp, Between, C
    <2>5. \A y \in m + 1..end - 1 : Clamp(P(y)) = Clamp(q)
        BY <1>3, <1>7, <1>9, <1>10, <2>2, <2>4
    <2> QED BY <2>3, <2>5 DEF c, m, q, T, P
<1>11. CASE ~(q > C)
    <2> DEFINE v == 2 * q
    <2>1. v \in Int /\ o = OutcomeForPayout(c, v) /\ v >= 0 /\ v <= 2 * C
        BY <1>1, <1>3, <1>11 DEF o
    <2>2. Reaches(c, v)
        <3>1. CASE c.kind = "hyperbola"
            <4>1. ~Rising(c) /\ c.f \in Int
                BY <1>1, <3>1, CurveIs
            <4>2. P(end - 1) <= q /\ P(end - 1) \in Nat
                BY <1>7, <1>9, <4>1
            <4> QED BY <1>1, <1>3, <1>4, <3>1, <4>1, <4>2 DEF Reaches
        <3> QED BY <1>1, <3>1, CurveIs DEF Reaches
    <2>3. o \in OnCurve(c) /\ \A y \in OnCurve(c) : (y < o => ~Past(c, y, v)) /\ (y > o => Past(c, y, v))
        BY <1>1, <2>1, <2>2, OutcomeIs
    <2>4. o \in Int
        <3>1. c.kind = "line" => c.from.outcome \in Int /\ c.to.outcome \in Int
            BY <1>1, CurveIs
        <3> QED BY <2>3, <3>1 DEF OnCurve
    <2>5. o >= T
        <3> SUFFICES ASSUME ~(o >= T) PROVE FALSE
            OBVIOUS
        <3>1. o < 0
            BY <1>2, <1>3, <1>11
        <3>2. m \in OnCurve(c) /\ m > o
            BY <1>1, <1>6, <2>4, <3>1
        <3>3. Past(c, m, v)
            BY <2>3, <3>2
        <3>4. ~Rising(c)
            <4>1. c.kind = "line" => c.from.outcome \in Nat /\ c.to.outcome \in Nat
                BY <1>1, CurveIs
            <4>2. c.kind # "line"
                BY <2>3, <3>1, <4>1 DEF OnCurve
            <4> QED BY <4>2 DEF Rising
        <3>5. q = p - mod
            BY <3>4 DEF q, NextPay
        <3>6. Reached(c, C, m, 2 * p - mod)
            <4>1. Rounds(c, C, m, mod, P(m))
                BY <1>1, <1>5, <1>6, RoundedIs
            <4> QED BY <1>3, <4>1 DEF Rounds
        <3>7. Compare(c, m, 2 * p - mod) >= 0
            BY <1>1, <1>3, <3>5, <3>6 DEF Reached
        <3> DEFINE u == 2 * p - mod
        <3>8. u \in Int /\ v < u
            BY <1>1, <3>5
        <3> HIDE DEF u, v
        <3>9. Compare(c, m, v) = 1
            <4>1. Compare(c, m, u) # -1
                BY <3>7 DEF u
            <4> QED BY <1>1, <1>6, <2>1, <3>8, <4>1, CompareLess
        <3> QED BY <3>3, <3>4, <3>9 DEF Past
    <2>6. \A y \in m + 1..T - 1 : P(y) = q
        <3> SUFFICES ASSUME NEW y \in m + 1..T - 1, P(y) # q PROVE FALSE
            OBVIOUS
        <3>1. y \in m + 1..T /\ y \in F..T /\ y < o
            BY <1>1, <1>6, <2>4, <2>5
        <3>2. y \in OnCurve(c) /\ y \in Int /\ ~Past(c, y, v)
            BY <1>1, <2>3, <3>1
        <3>3. /\ P(y) \in Nat /\ P(y) \in Multiples(mod) /\ Rounds(c, C, y, mod, P(y))
              /\ (Rising(c) => q <= P(y)) /\ (~Rising(c) => P(y) <= q)
            BY <1>7, <3>1
        <3>4. q \in Multiples(mod)
            BY <1>3, <1>7, <1>9
        <3>5. (P(y) < q => P(y) + mod <= q) /\ (q < P(y) => q + mod <= P(y))
            BY <1>1, <3>3, <3>4, MultiplesApart
        <3> DEFINE a == 2 * P(y) - mod
                   b == 2 * P(y) + mod
        <3>6. a \in Int /\ b \in Int /\ Reached(c, C, y, a) /\ ~Reached(c, C, y, b)
            BY <1>1, <3>3 DEF Rounds
        <3>7. CASE Rising(c)
            <4>1. a > v /\ a > 0
                BY <1>1, <1>3, <2>1, <3>3, <3>5, <3>7
            <4> HIDE DEF a, v
            <4>2. Compare(c, y, a) # -1
                BY <3>6, <4>1 DEF Reached
            <4>3. Compare(c, y, v) = 1
                BY <1>1, <2>1, <3>2, <3>6, <4>1, <4>2, CompareLess
            <4> QED BY <3>2, <3>7, <4>3 DEF Past
        <3>8. CASE ~Rising(c)
            <4>1. b < v /\ b > 0
                BY <1>1, <1>3, <2>1, <3>3, <3>5, <3>8
            <4> HIDE DEF b, v
            <4>2. Compare(c, y, v) # -1
                BY <3>2, <3>8 DEF Past
            <4>3. Compare(c, y, b) = 1
                BY <1>1, <2>1, <3>2, <3>6, <4>1, <4>2, CompareLess
            <4>4. b <= 2 * C
                BY <1>1, <2>1, <3>6, <4>1
            <4> QED BY <3>6, <4>3, <4>4 DEF Reached
        <3> QED BY <3>7, <3>8
    <2>7. end = T
        <3> SUFFICES ASSUME end # T PROVE FALSE
            OBVIOUS
        <3>1. P(end - 1) = q
            BY <1>6, <2>6
        <3>2. o \in 0..T - 1
            BY <1>8, <3>1 DEF o
        <3> QED BY <1>1, <2>4, <2>5, <3>2
    <2>8. \A y \in m + 1..end - 1 : Clamp(P(y)) = Clamp(q)
        BY <2>6, <2>7
    <2> QED BY <2>7, <2>8 DEF c, m, q, T, P
<1> QED BY <1>10, <1>11

\* Where the payout changes at the end of the piece the loop is told so.
LEMMA LegEnds ==
    ASSUME ContractOK(contract), NEW i \in Pieces, ~Constant(i), ~Awkward(i), NEW x, NEW end, NEW mod, NEW p,
           OnLeg(i, x, end, mod, p), x < end,
           LET c == contract.curves[i] IN Rising(c) \/ p > 0,
           LET c == contract.curves[i] IN LastBefore(c, x, Edge(c, p, mod)) + 1 = end,
           LET c == contract.curves[i] IN LastBefore(c, x, Edge(c, p, mod)) < end,
           LET o == OutcomeForPayout(contract.curves[i], 2 * NextPay(contract.curves[i], p, mod)) IN ~(o < 0)
    PROVE  LET o == OutcomeForPayout(contract.curves[i], 2 * NextPay(contract.curves[i], p, mod))
           IN  end = To(i).outcome /\ o \in Int /\ o + 1 >= To(i).outcome
<1> DEFINE c == contract.curves[i]
           C == contract.collateral
           F == From(i).outcome
           T == To(i).outcome
           m == LastBefore(c, x, Edge(c, p, mod))
           q == NextPay(c, p, mod)
           v == 2 * q
           o == OutcomeForPayout(c, v)
           P(y) == RoundPayout(i, y, mod)
<1>1. /\ C \in Nat /\ Curve(c, C) /\ x \in Nat \ {0} /\ end \in Nat /\ x < end /\ end <= T /\ mod \in Nat \ {0} /\ p \in Nat
      /\ T \in Nat /\ F \in Nat /\ F < x /\ To(i).payout \in 0..C
      /\ \A y \in F..T : y \in Int /\ y \in OnCurve(c)
    BY LegIs
<1>2. (Rising(c) \/ p > 0) /\ m + 1 = end /\ ~(o < 0)
    OBVIOUS
<1>3. m \in x..end - 1 /\ P(m) = p /\ q \in Nat /\ end = T /\ To(i).payout = q /\ (c.kind = "hyperbola" => c.f <= q)
    BY LegNext
<1>4. P(m) = Rounded(c, C, m, mod)
    BY PayoutIs
<1>5. o = IF c.kind = "line" THEN LineOutcome(c, v) ELSE HyperbolaOutcome(c, v)
    BY DEF OutcomeForPayout
<1> HIDE DEF c, C, F, T, m, q, o, P
<1>6. m \in F..T /\ m \in OnCurve(c) /\ m \in Int /\ m = T - 1 /\ v \in Int /\ v <= 2 * C /\ v >= 0
    BY <1>1, <1>2, <1>3
<1>7. Reaches(c, v)
    <2>1. CASE c.kind = "hyperbola"
        <3>1. c.f \in Int /\ c.f <= q
            BY <1>1, <1>3, <2>1, CurveIs
        <3>2. c.f # q
            <4>1. CASE c.f = q
                <5>1. v - 2 * c.f = 0
                    BY <1>3, <4>1
                <5>2. HyperbolaOutcome(c, v) = -1
                    BY <5>1 DEF HyperbolaOutcome
                <5> QED BY <1>2, <1>5, <2>1, <5>2
            <4> QED BY <4>1
        <3> QED BY <1>3, <2>1, <3>1, <3>2 DEF Reaches
    <2> QED BY <1>1, <2>1, CurveIs DEF Reaches
<1>8. o \in OnCurve(c) /\ (m > o => Past(c, m, v))
    <2> HIDE DEF v
    <2> QED BY <1>1, <1>6, <1>7, OutcomeIs DEF o, v
<1>9. o \in Int
    <2>1. c.kind = "line" => c.from.outcome \in Int /\ c.to.outcome \in Int
        BY <1>1, CurveIs
    <2> QED BY <1>8, <2>1 DEF OnCurve
<1>10. ~Past(c, m, v)
    <2>1. Rounds(c, C, m, mod, p)
        BY <1>1, <1>3, <1>4, <1>6, RoundedIs
    <2>2. Compare(c, m, v) \in {-1, 0, 1}
        <3> HIDE DEF v
        <3> QED BY <1>1, <1>6, CompareIs
    <2>3. CASE Rising(c)
        <3> DEFINE u == 2 * p + mod
        <3>1. u \in Int /\ u < v /\ u > 0 /\ u <= 2 * C
            BY <1>1, <1>3, <1>6, <2>3 DEF q, NextPay
        <3>2. ~Reached(c, C, m, u)
            BY <2>1 DEF Rounds
        <3> HIDE DEF u, v
        <3>3. ~(Compare(c, m, u) >= 0)
            BY <3>1, <3>2 DEF Reached
        <3>4. Compare(c, m, v) = -1
            <4>1. Compare(c, m, v) # -1 => Compare(c, m, u) = 1
                BY <1>1, <1>6, <3>1, CompareLess
            <4> QED BY <3>3, <4>1
        <3> QED BY <2>3, <3>4 DEF Past
    <2>4. CASE ~Rising(c)
        <3> DEFINE u == 2 * p - mod
        <3>1. u \in Int /\ v < u /\ u > 0
            BY <1>1, <1>3, <1>6, <2>4 DEF q, NextPay
        <3>2. Reached(c, C, m, u)
            BY <2>1 DEF Rounds
        <3> HIDE DEF u, v
        <3>3. Compare(c, m, u) # -1
            BY <3>1, <3>2 DEF Reached
        <3>4. Compare(c, m, v) = 1
            BY <1>1, <1>6, <3>1, <3>3, CompareLess
        <3> QED BY <2>4, <3>4 DEF Past
    <2> QED BY <2>3, <2>4
<1>11. o >= m
    BY <1>6, <1>8, <1>9, <1>10
<1>12. o + 1 >= T
    BY <1>1, <1>6, <1>9, <1>11
<1> QED BY <1>3, <1>9, <1>12 DEF o, v, q, c, T

\* What the contract owes, outcome by outcome.
Drawn == [x \in Int |-> Owed(x)]

\* The same, outcome by outcome of a piece.
LEMMA DrawnIs ==
    ASSUME ContractOK(contract), NEW i \in Pieces
    PROVE  /\ Drawn[From(i).outcome] = From(i).payout /\ Drawn[To(i).outcome] = To(i).payout
           /\ \A y \in From(i).outcome..To(i).outcome : Constant(i) => Drawn[y] = From(i).payout
           /\ \A y \in Inside(i) : ~Constant(i) => Drawn[y] = Clamp(RoundPayout(i, y, Mod(y)))
<1>1. From(i).outcome \in Nat /\ To(i).outcome \in Nat /\ From(i).outcome < To(i).outcome
    BY PieceIs
<1>2. \A y \in From(i).outcome..To(i).outcome :
        Drawn[y] = CASE y = From(i).outcome \/ Constant(i) -> From(i).payout
                     [] y = To(i).outcome -> To(i).payout
                     [] OTHER -> Clamp(RoundPayout(i, y, Mod(y)))
    <2> SUFFICES ASSUME NEW y \in From(i).outcome..To(i).outcome
                 PROVE  Drawn[y] = CASE y = From(i).outcome \/ Constant(i) -> From(i).payout
                                     [] y = To(i).outcome -> To(i).payout
                                     [] OTHER -> Clamp(RoundPayout(i, y, Mod(y)))
        OBVIOUS
    <2>1. y \in Int
        BY <1>1
    <2>2. Drawn[y] = Owed(y)
        BY <2>1 DEF Drawn
    <2> QED BY <2>2, OwedIs
<1>3. From(i).outcome \in From(i).outcome..To(i).outcome /\ To(i).outcome \in From(i).outcome..To(i).outcome
    BY <1>1
<1>4. Drawn[From(i).outcome] = From(i).payout
    <2>1. From(i).outcome # To(i).outcome
        BY <1>1
    <2> QED BY <1>2, <1>3, <2>1
<1>5. Drawn[To(i).outcome] = To(i).payout
    <2>1. From(i).outcome # To(i).outcome
        BY <1>1
    <2> QED BY <1>2, <1>3, <2>1 DEF Constant
<1>6. \A y \in From(i).outcome..To(i).outcome : Constant(i) => Drawn[y] = From(i).payout
    BY <1>2 DEF Constant
<1>7. \A y \in Inside(i) : ~Constant(i) => Drawn[y] = Clamp(RoundPayout(i, y, Mod(y)))
    <2> SUFFICES ASSUME NEW y \in Inside(i), ~Constant(i) PROVE Drawn[y] = Clamp(RoundPayout(i, y, Mod(y)))
        OBVIOUS
    <2>1. y \in From(i).outcome..To(i).outcome /\ y # From(i).outcome /\ y # To(i).outcome
        BY <1>1 DEF Inside
    <2> QED BY <1>2, <2>1
<1> QED BY <1>4, <1>5, <1>6, <1>7

\* A range after one.
LEMMA OneAfter ==
    ASSUME NEW u \in Seq(Range3), NEW s \in Range3
    PROVE  /\ Append(u, s) \in Seq(Range3) /\ Len(Append(u, s)) = Len(u) + 1 /\ Len(u) \in Nat
           /\ (\A i \in 1..Len(u) : Append(u, s)[i] = u[i]) /\ Append(u, s)[Len(u) + 1] = s
BY AppendProperties, LenProperties

\* Ranges are added one after the other.
LEMMA TwoMore ==
    ASSUME NEW rs \in Seq(Range3), NEW r \in Range3, NEW s \in Range3
    PROVE  rs \o <<r>> = Append(rs, r) /\ rs \o <<r, s>> = Append(Append(rs, r), s)
<1>1. <<r>> \in Seq(Range3) /\ <<s>> \in Seq(Range3) /\ <<r>> \o <<s>> = <<r, s>>
    <2>1. <<r>> \in Seq(Range3) /\ <<s>> \in Seq(Range3)
        OBVIOUS
    <2> DEFINE u == <<r>>
    <2> HIDE DEF u
    <2>2. Append(u, s) = u \o <<s>>
        BY <2>1, AppendIsConcat DEF u
    <2> DEFINE v == Append(u, s)
               z == <<r, s>>
    <2>3. u \in Seq(Range3) /\ Len(u) = 1 /\ u[1] = r
        BY <2>1 DEF u
    <2>4. v \in Seq(Range3) /\ Len(v) = 2 /\ v[1] = r /\ v[2] = s
        <3> DEFINE n == Len(u)
        <3>1. v \in Seq(Range3) /\ Len(v) = n + 1 /\ v[n + 1] = s /\ \A i \in 1..n : v[i] = u[i]
            BY <2>3, OneAfter
        <3>2. n = 1
            BY <2>3
        <3> HIDE DEF v, n
        <3>3. Len(v) = 2 /\ v[2] = s
            BY <3>1, <3>2
        <3>4. v[1] = u[1]
            BY <3>1, <3>2
        <3> QED BY <2>3, <3>1, <3>3, <3>4
    <2>5. z \in Seq(Range3) /\ Len(z) = 2 /\ z[1] = r /\ z[2] = s
        OBVIOUS
    <2> HIDE DEF v, z
    <2>6. \A j \in 1..2 : j = 1 \/ j = 2
        OBVIOUS
    <2>7. Len(v) = Len(z) /\ \A j \in 1..Len(v) : v[j] = z[j]
        BY <2>4, <2>5, <2>6
    <2>8. v = z
        BY <2>4, <2>5, <2>7, SeqEqual
    <2> QED BY <2>1, <2>2, <2>8 DEF u, v, z
<1>2. rs \o <<r>> = Append(rs, r) /\ Append(rs, r) \in Seq(Range3)
    BY AppendIsConcat, AppendProperties
<1> DEFINE u == Append(rs, r)
<1> HIDE DEF u
<1>3. u \in Seq(Range3) /\ u = rs \o <<r>>
    BY <1>2 DEF u
<1>4. u \o <<s>> = Append(u, s)
    BY <1>3, AppendIsConcat
<1>5. (rs \o <<r>>) \o <<s>> = rs \o (<<r>> \o <<s>>)
    BY <1>1, ConcatAssociative
<1> QED BY <1>1, <1>2, <1>3, <1>4, <1>5 DEF u

\* Clamp stays within the collateral.
LEMMA ClampIs == ASSUME contract.collateral \in Nat, NEW n \in Int
                 PROVE  Clamp(n) \in 0..contract.collateral /\ (n \in 0..contract.collateral => Clamp(n) = n) /\ (n < 0 => Clamp(n) = 0)
BY DEF Clamp, Between

\* What a turn of the inner loop adds to the ranges rs.
LegTurn(i, x, end, mod, p, rs) ==
  LET c == contract.curves[i]
      C == contract.collateral
      F == From(i).outcome
      T == To(i).outcome
      m == LastBefore(c, x, Edge(c, p, mod))
      q == NextPay(c, p, mod)
      o == OutcomeForPayout(c, 2 * q)
      last == q > C \/ q < 0 \/ o >= T \/ o < 0
      more == rs \o IF m \in F..T THEN <<CETPayout(x, m, Clamp(p)), CETPayout(m + 1, T - 1, Clamp(q))>>
                                  ELSE <<CETPayout(x, T, Clamp(p))>>
  IN  /\ m >= end => Covers(Append(rs, CETPayout(x, end - 1, Clamp(p))), F, end - 1, Drawn)
      /\ m < end /\ last => Covers(Append(more, CETPayout(T, T, To(i).payout)), F, T, Drawn)
      /\ m < end /\ ~last => /\ Covers(Append(rs, CETPayout(x, m, Clamp(p))), F, m, Drawn)
                             /\ OnLeg(i, m + 1, end, mod, q) /\ x < m + 1
                             /\ m + 1 = end => end = T /\ o + 1 >= T

\* A turn of the inner loop goes on as drawn.
LEMMA LegCovers ==
    ASSUME ContractOK(contract), NEW i \in Pieces, ~Constant(i), ~Awkward(i), NEW x, NEW end, NEW mod, NEW p,
           OnLeg(i, x, end, mod, p), x < end,
           NEW rs, Covers(rs, From(i).outcome, x - 1, Drawn)
    PROVE  LegTurn(i, x, end, mod, p, rs)
<1> DEFINE c == contract.curves[i]
           C == contract.collateral
           F == From(i).outcome
           T == To(i).outcome
           w == Edge(c, p, mod)
           m == LastBefore(c, x, w)
           q == NextPay(c, p, mod)
           o == OutcomeForPayout(c, 2 * q)
           last == q > C \/ q < 0 \/ o >= T \/ o < 0
           P(y) == RoundPayout(i, y, mod)
           e == CETPayout(T, T, To(i).payout)
<1>1. /\ C \in Nat /\ Curve(c, C) /\ x \in Nat \ {0} /\ end \in Nat /\ x < end /\ end <= T /\ mod \in Nat \ {0} /\ p \in Nat
      /\ T \in Nat /\ F \in Nat /\ F < x /\ To(i).payout \in 0..C
      /\ \A y \in x..end - 1 : Mod(y) = mod /\ y \in Inside(i)
      /\ \A y \in F..T : y \in Int /\ y \in OnCurve(c)
    BY LegIs
<1>2. Drawn[T] = To(i).payout /\ \A y \in Inside(i) : Drawn[y] = Clamp(RoundPayout(i, y, Mod(y)))
    BY DrawnIs
<1>3. \A y \in x..end - 1 : Drawn[y] = Clamp(P(y))
    BY <1>1, <1>2
<1>4. ASSUME ~Past(c, x, w)
      PROVE  m \in Int /\ x <= m /\ \A y \in x..T : y <= m => P(y) = p
    BY <1>4, LegSame
<1>5. ASSUME Rising(c) \/ p > 0, m < end
      PROVE  /\ m \in x..end - 1 /\ P(m) = p /\ P(m + 1) = q /\ q \in Nat
             /\ m + 1 = end => end = T /\ To(i).payout = q
    BY <1>5, LegNext
<1>6. ASSUME ~(Rising(c) \/ p > 0), m < end
      PROVE  /\ m \in Int /\ p = 0 /\ q = -mod
             /\ \A y \in x..T - 1 : RoundPayout(i, y, Mod(y)) = 0
             /\ m \notin F..T => To(i).payout = 0
    BY <1>6, LegSinks
<1>7. ASSUME Rising(c) \/ p > 0, m + 1 < end, last
      PROVE  end = T /\ \A y \in m + 1..end - 1 : Clamp(P(y)) = Clamp(q)
    BY <1>7, LegLast
<1>8. ASSUME Rising(c) \/ p > 0, m + 1 = end, m < end, ~(o < 0) PROVE end = T /\ o + 1 >= T
    BY <1>8, LegEnds
<1>9. ASSUME Rising(c) \/ p > 0 PROVE ~Past(c, x, w)
    <2> HIDE DEF c, C, F, T
    <2>1. x \in F..T
        BY <1>1
    <2>2. x \in OnCurve(c)
        BY <1>1, <2>1
    <2>3. p = Rounded(c, C, x, mod)
        BY LegIs DEF c, C
    <2> QED BY <1>1, <1>9, <2>2, <2>3, EdgeAhead
<1>10. rs \in Seq(Range3) /\ Covers(rs, F, x - 1, Drawn)
    BY DEF Covers
<1>11. \A n \in Int : Clamp(n) \in 0..C /\ (n \in 0..C => Clamp(n) = n) /\ (n < 0 => Clamp(n) = 0)
    BY <1>1, ClampIs
<1>12. /\ e \in Range3 /\ e.from = T /\ e.to = T /\ e.payout = To(i).payout
       /\ q \in Int /\ x \in Nat
    <2>1. q \in Int
        BY <1>1 DEF NextPay
    <2> QED BY <1>1, <2>1 DEF Range3, CETPayout
<1>13. ASSUME NEW a \in Int, NEW b \in Int, NEW n \in Int
       PROVE  LET r == CETPayout(a, b, Clamp(n)) IN r \in Range3 /\ r.from = a /\ r.to = b /\ r.payout = Clamp(n)
    BY <1>1, <1>11, <1>13 DEF Range3, CETPayout
<1> HIDE DEF c, C, F, T, w, m, q, o, P, e
<1>14. ASSUME m >= end PROVE Covers(Append(rs, CETPayout(x, end - 1, Clamp(p))), F, end - 1, Drawn)
    <2> DEFINE r == CETPayout(x, end - 1, Clamp(p))
    <2>1. r \in Range3 /\ r.from = x /\ r.to = end - 1 /\ r.payout = Clamp(p)
        <3>1. x \in Int /\ end - 1 \in Int /\ p \in Int
            BY <1>1
        <3> QED BY <1>13, <3>1
    <2> HIDE DEF r
    <2>2. \A y \in x..end - 1 : P(y) = p
        <3>1. CASE ~Past(c, x, w)
            <4>1. \A y \in x..end - 1 : y \in x..T /\ y <= m
                BY <1>1, <1>4, <1>14, <3>1
            <4> QED BY <1>4, <3>1, <4>1
        <3>2. CASE Past(c, x, w)
            <4>1. ~(Rising(c) \/ p > 0)
                BY <1>9, <3>2
            <4>2. \A y \in x..end - 1 : P(y) = p
                <5> SUFFICES ASSUME NEW y \in x..end - 1 PROVE P(y) = p
                    OBVIOUS
                <5> DEFINE z == Rounded(c, C, y, mod)
                <5>1. y \in Int /\ x <= y /\ x \in Int
                    BY <1>1
                <5>2. p = Rounded(c, C, x, mod)
                    BY LegIs DEF c, C
                <5>3. z \in Nat /\ z <= p
                    BY <1>1, <4>1, <5>1, <5>2, RoundedOrder
                <5>4. P(y) = z
                    BY PayoutIs DEF P, c, C
                <5> HIDE DEF z
                <5> QED BY <1>1, <4>1, <5>3, <5>4
            <4> QED BY <4>2
        <3> QED BY <3>1, <3>2
    <2>3. \A y \in r.from..r.to : Drawn[y] = r.payout
        BY <1>3, <2>1, <2>2
    <2>4. r.from \in {x - 1, (x - 1) + 1} /\ r.from <= r.to
        BY <1>1, <2>1
    <2>5. Covers(Append(rs, r), F, r.to, Drawn)
        BY <1>10, <2>1, <2>3, <2>4, CoversOn
    <2> QED BY <2>1, <2>5 DEF r
<1>15. ASSUME m < end, ~last
       PROVE  /\ Covers(Append(rs, CETPayout(x, m, Clamp(p))), F, m, Drawn)
              /\ OnLeg(i, m + 1, end, mod, q) /\ x < m + 1
              /\ m + 1 = end => end = T /\ o + 1 >= T
    <2>1. Rising(c) \/ p > 0
        <3>1. CASE ~(Rising(c) \/ p > 0)
            BY <1>1, <1>6, <1>15, <3>1
        <3> QED BY <3>1
    <2>2. m \in x..end - 1 /\ P(m + 1) = q /\ m \in Int
        BY <1>1, <1>5, <1>15, <2>1
    <2> DEFINE r == CETPayout(x, m, Clamp(p))
    <2>3. r \in Range3 /\ r.from = x /\ r.to = m /\ r.payout = Clamp(p)
        <3>1. x \in Int /\ p \in Int
            BY <1>1
        <3> QED BY <1>13, <2>2, <3>1
    <2> HIDE DEF r
    <2>4. \A y \in r.from..r.to : Drawn[y] = r.payout
        <3>1. \A y \in x..m : y \in x..end - 1 /\ y \in x..T /\ y <= m
            BY <1>1, <2>2
        <3>2. ~Past(c, x, w)
            BY <1>9, <2>1
        <3>3. \A y \in x..m : P(y) = p
            BY <1>4, <3>1, <3>2
        <3> QED BY <1>3, <2>3, <3>1, <3>3
    <2>5. r.from \in {x - 1, (x - 1) + 1} /\ r.from <= r.to
        BY <1>1, <2>2, <2>3
    <2>6. Covers(Append(rs, r), F, r.to, Drawn)
        BY <1>10, <2>3, <2>4, <2>5, CoversOn
    <2>7. OnLeg(i, m + 1, end, mod, q)
        <3>1. m + 1 \in F + 1..end
            BY <1>1, <2>2
        <3>2. end \in Begins(i) \union {T} /\ mod \in Nat \ {0}
            BY DEF OnLeg, T
        <3>3. m + 1 < end => q = RoundPayout(i, m + 1, mod) /\ \A y \in m + 1..end - 1 : Mod(y) = mod
            <4>1. \A y \in m + 1..end - 1 : y \in x..end - 1
                BY <1>1, <2>2
            <4> QED BY <1>1, <2>2, <4>1 DEF P
        <3> QED BY <3>1, <3>2, <3>3 DEF OnLeg, F, T
    <2>8. x < m + 1 /\ (m + 1 = end => end = T /\ o + 1 >= T)
        BY <1>1, <1>8, <1>15, <2>1, <2>2
    <2> QED BY <2>3, <2>6, <2>7, <2>8 DEF r
<1> DEFINE r == CETPayout(x, m, Clamp(p))
           s == CETPayout(m + 1, T - 1, Clamp(q))
           t == CETPayout(x, T, Clamp(p))
           more == rs \o IF m \in F..T THEN <<r, s>> ELSE <<t>>
<1>16. ASSUME m < end, last PROVE Covers(Append(more, e), F, T, Drawn)
    <2>1. m \in Int
        <3>1. (Rising(c) \/ p > 0) => m \in x..end - 1
            BY <1>5, <1>16
        <3>2. ~(Rising(c) \/ p > 0) => m \in Int
            BY <1>6, <1>16
        <3> QED BY <1>1, <3>1, <3>2
    <2>2. /\ r \in Range3 /\ r.from = x /\ r.to = m /\ r.payout = Clamp(p)
          /\ s \in Range3 /\ s.from = m + 1 /\ s.to = T - 1 /\ s.payout = Clamp(q)
          /\ t \in Range3 /\ t.from = x /\ t.to = T /\ t.payout = Clamp(p)
          /\ m + 1 \in Int /\ T - 1 \in Int
        <3>1. m + 1 \in Int /\ T - 1 \in Int /\ T \in Int /\ x \in Int /\ p \in Int /\ q \in Int
            BY <1>1, <1>12, <2>1
        <3> QED BY <1>13, <2>1, <3>1
    <2>3. /\ m \in F..T => Append(more, e) = Append(Append(Append(rs, r), s), e)
          /\ m \notin F..T => Append(more, e) = Append(Append(rs, t), e)
        BY <1>10, <2>2, TwoMore
    <2> HIDE DEF r, s, t, more
    <2>4. \A y \in T..T : Drawn[y] = e.payout
        BY <1>1, <1>2, <1>12 DEF T
    <2>5. Clamp(0) = 0 /\ Clamp(-mod) = 0
        <3>1. 0 \in 0..C /\ -mod \in Int /\ -mod < 0 /\ 0 \in Int
            BY <1>1
        <3> QED BY <1>11, <3>1
    <2>6. CASE ~(Rising(c) \/ p > 0)
        <3>1. /\ p = 0 /\ q = -mod /\ \A y \in x..T - 1 : RoundPayout(i, y, Mod(y)) = 0
              /\ m \notin F..T => To(i).payout = 0
            BY <1>6, <1>16, <2>6
        <3>2. \A y \in x..T - 1 : Drawn[y] = 0
            <4>1. \A y \in x..T - 1 : y \in Inside(i)
                BY <1>1 DEF Inside, F, T
            <4> QED BY <1>2, <2>5, <3>1, <4>1
        <3>3. r.payout = 0 /\ s.payout = 0 /\ t.payout = 0
            BY <2>2, <2>5, <3>1
        <3>4. CASE m \in F..T
            <4>1. Extends2(s, r)
                BY <2>1, <2>2, <3>3 DEF Extends2
            <4>2. r.from \in {x - 1, (x - 1) + 1} /\ r.from <= s.to /\ \A y \in r.from..s.to : Drawn[y] = r.payout
                BY <1>1, <2>2, <3>2, <3>3
            <4> DEFINE u == Append(Append(rs, r), s)
            <4>3. Covers(u, F, T - 1, Drawn)
                BY <1>10, <2>2, <4>1, <4>2, CoversTwo
            <4> HIDE DEF u
            <4>4. e.from \in {T - 1, (T - 1) + 1} /\ e.from <= e.to /\ \A y \in e.from..e.to : Drawn[y] = e.payout
                BY <1>1, <1>12, <2>4
            <4>5. Covers(Append(u, e), F, e.to, Drawn)
                BY <1>12, <4>3, <4>4, CoversOn
            <4> QED BY <1>12, <2>3, <3>4, <4>5 DEF u
        <3>5. CASE m \notin F..T
            <4>1. \A y \in t.from..t.to : Drawn[y] = t.payout
                <5>1. \A y \in x..T : y \in x..T - 1 \/ y \in T..T
                    BY <1>1
                <5> QED BY <1>12, <2>2, <2>4, <3>1, <3>2, <3>3, <3>5, <5>1
            <4>2. t.from \in {x - 1, (x - 1) + 1} /\ t.from <= t.to
                BY <1>1, <2>2
            <4> DEFINE u == Append(rs, t)
            <4>3. Covers(u, F, T, Drawn)
                BY <1>10, <2>2, <4>1, <4>2, CoversOn
            <4> HIDE DEF u
            <4>4. e.from \in {T, T + 1} /\ e.from <= e.to /\ \A y \in e.from..e.to : Drawn[y] = e.payout
                BY <1>1, <1>12, <2>4
            <4>5. Covers(Append(u, e), F, e.to, Drawn)
                BY <1>12, <4>3, <4>4, CoversOn
            <4> QED BY <1>12, <2>3, <3>5, <4>5 DEF u
        <3> QED BY <3>4, <3>5
    <2>7. CASE Rising(c) \/ p > 0
        <3>1. m \in x..end - 1 /\ q \in Nat /\ (m + 1 = end => end = T /\ To(i).payout = q)
            BY <1>5, <1>16, <2>7
        <3>2. m \in F..T
            BY <1>1, <3>1
        <3> DEFINE one == Append(rs, r)
                   two == Append(one, s)
        <3>3. Covers(one, F, m, Drawn)
            <4>1. \A y \in x..m : y \in x..end - 1 /\ y \in x..T /\ y <= m
                BY <1>1, <3>1
            <4>2. ~Past(c, x, w)
                BY <1>9, <2>7
            <4>3. \A y \in x..m : P(y) = p
                BY <1>4, <4>1, <4>2
            <4>4. \A y \in r.from..r.to : Drawn[y] = r.payout
                BY <1>3, <2>2, <4>1, <4>3
            <4>5. r.from \in {x - 1, (x - 1) + 1} /\ r.from <= r.to
                BY <1>1, <2>2, <3>1
            <4> QED BY <1>10, <2>2, <4>4, <4>5, CoversOn
        <3> HIDE DEF one
        <3>4. CASE m + 1 = end
            <4>1. end = T /\ To(i).payout = q
                BY <3>1, <3>4
            <4>2. s.payout = e.payout
                BY <1>1, <1>11, <1>12, <2>2, <4>1
            <4>3. Extends2(e, s)
                BY <1>1, <1>12, <2>2, <4>2 DEF Extends2
            <4>4. s.from \in {m, m + 1} /\ s.from <= e.to
                BY <1>1, <1>12, <2>2, <3>4, <4>1
            <4>5. \A y \in s.from..e.to : Drawn[y] = s.payout
                BY <1>12, <2>2, <2>4, <3>4, <4>1, <4>2
            <4>6. Covers(Append(Append(one, s), e), F, e.to, Drawn)
                BY <1>12, <2>2, <3>3, <4>3, <4>4, <4>5, CoversTwo
            <4> QED BY <1>12, <2>3, <3>2, <4>6 DEF one
        <3>5. CASE m + 1 # end
            <4>1. m + 1 < end
                BY <1>1, <3>1, <3>5
            <4>2. end = T /\ \A y \in m + 1..end - 1 : Clamp(P(y)) = Clamp(q)
                BY <1>7, <1>16, <2>7, <4>1
            <4>3. \A y \in s.from..s.to : Drawn[y] = s.payout
                <5>1. \A y \in m + 1..end - 1 : y \in x..end - 1
                    BY <1>1, <3>1
                <5> QED BY <1>3, <2>2, <4>2, <5>1
            <4>4. s.from \in {m, m + 1} /\ s.from <= s.to
                BY <1>1, <2>2, <3>1, <4>1, <4>2
            <4>5. Covers(two, F, T - 1, Drawn)
                BY <2>2, <3>3, <4>3, <4>4, CoversOn
            <4> HIDE DEF two
            <4>6. e.from \in {T - 1, (T - 1) + 1} /\ e.from <= e.to /\ \A y \in e.from..e.to : Drawn[y] = e.payout
                BY <1>1, <1>12, <2>4
            <4>7. Covers(Append(two, e), F, e.to, Drawn)
                BY <1>12, <4>5, <4>6, CoversOn
            <4> QED BY <1>12, <2>3, <3>2, <4>7 DEF one, two
        <3> QED BY <3>4, <3>5
    <2> QED BY <2>6, <2>7
<1> QED BY <1>14, <1>15, <1>16 DEF c, C, F, T, w, m, q, o, e, LegTurn

\* The outcome found for a payout is a number, though it may be none of the piece.
LEMMA OutcomeInt ==
    ASSUME NEW collateral \in Nat, NEW c, Curve(c, collateral), NEW w \in Int
    PROVE  OutcomeForPayout(c, w) \in Int
<1>1. CASE c.kind = "line"
    <2>1. OutcomeForPayout(c, w) \in OnCurve(c)
        BY <1>1, OutcomeIs DEF Reaches
    <2>2. c.from.outcome \in Int /\ c.to.outcome \in Int
        BY <1>1, CurveIs
    <2> QED BY <1>1, <2>1, <2>2 DEF OnCurve
<1>2. CASE c.kind = "hyperbola"
    <2> DEFINE n == 2 * c.k - c.t * (2 * c.f - w)
               d == w - 2 * c.f
    <2>1. n \in Int /\ d \in Int
        <3>1. \A a, b, e, g \in Int : 2 * a - b * (2 * e - g) \in Int
            OBVIOUS
        <3> QED BY <1>2, <3>1, CurveIs
    <2>2. OutcomeForPayout(c, w) = IF d = 0 THEN -1 ELSE Nearest(n * Sign(d), Abs(d))
        BY <1>2 DEF OutcomeForPayout, HyperbolaOutcome
    <2> HIDE DEF n, d
    <2>3. CASE d = 0
        BY <2>2, <2>3
    <2>4. CASE d # 0
        <3>1. Abs(d) \in Nat /\ Abs(d) > 0 /\ Sign(d) \in {-1, 1}
            BY <2>1, <2>4, Signs
        <3> DEFINE b == n * Sign(d)
        <3>2. b \in Int
            BY <2>1, <3>1
        <3> HIDE DEF b
        <3>3. Nearest(b, Abs(d)) \in Int
            BY <3>1, <3>2, HalfUp
        <3> QED BY <2>2, <2>4, <3>3 DEF b
    <2> QED BY <2>3, <2>4
<1> QED BY <1>1, <1>2, CurveIs

\* A turn of the outer loop.
LEMMA TurnLeg ==
    ASSUME ContractOK(contract), NEW i \in Pieces, ~Constant(i), ~Awkward(i),
           NEW x \in {From(i).outcome + 1} \union Begins(i), x < To(i).outcome
    PROVE  LET c == contract.curves[i]
               end == NextFirst(i, x)
               p == RoundPayout(i, x, Mod(x))
           IN  /\ OnLeg(i, x, end, Mod(x), p) /\ x < end
               /\ (Compare(c, end, 2 * p) = 1) <=> Rising(c)
<1> DEFINE c == contract.curves[i]
           F == From(i).outcome
           T == To(i).outcome
           n == Len(contract.rounding)
           B(k) == contract.rounding[k].begin
           I == IntervalAt(x)
           end == NextFirst(i, x)
           p == RoundPayout(i, x, Mod(x))
<1>1. F \in Nat /\ T \in Nat /\ F < T
    BY PieceIs
<1>2. /\ n \in Nat /\ DOMAIN contract.rounding = 1..n
      /\ \A k \in 1..n : B(k) \in Nat
      /\ \A y \in Int : /\ IntervalAt(y) \in 0..n /\ Mod(y) \in Nat \ {0}
                        /\ \A k \in 1..n : B(k) <= y <=> k <= IntervalAt(y)
    BY IntervalsAre
<1>3. Begins(i) = {B(k) : k \in 1..n} \intersect F + 2..T - 1
    BY <1>2 DEF Begins
<1>4. end = IF I \in 1..n - 1 THEN B(I + 1) ELSE T
    BY DEF NextFirst
<1>5. ~BeginsLater(i) /\ ~PassedOver(i) /\ ~Misjudged(i)
    BY DEF Awkward
<1>6. \A k \in 1..n : ~(B(k) > T)
    BY <1>2, <1>5 DEF BeginsLater
<1>7. Mod(x) \in Nat \ {0} /\ x \in Int /\ x \in F + 1..T - 1 /\ I \in 0..n /\ \A k \in 1..n : B(k) <= x <=> k <= I
    <2>1. x \in F + 1..T - 1
        BY <1>1, <1>3
    <2>2. x \in Int
        BY <1>1, <2>1
    <2>3. Mod(x) \in Nat \ {0} /\ I \in 0..n /\ \A k \in 1..n : B(k) <= x <=> k <= I
        BY <1>2, <2>2
    <2> QED BY <2>1, <2>2, <2>3
<1>8. (PassedOver(i) <=> IntervalAt(F + 1) = 0 /\ Begins(i) # {}) /\ I = IntervalAt(x)
    BY DEF PassedOver
<1> HIDE DEF B, n, I, F, T, end, p
<1>9. CASE I \in 1..n - 1
    <2>1. end = B(I + 1) /\ I + 1 \in 1..n /\ I \in 1..n /\ I \in Int
        <3>1. n \in Nat
            BY <1>2
        <3>2. I \in Int /\ I + 1 \in 1..n /\ I \in 1..n
            BY <1>9, <3>1
        <3> QED BY <1>4, <1>9, <3>2
    <2>2. B(I) \in Nat /\ B(I + 1) \in Nat /\ ~(B(I + 1) <= x) /\ B(I) <= x
        <3>1. B(I) \in Nat /\ B(I + 1) \in Nat
            BY <1>2, <2>1
        <3>2. B(I) <= x <=> I <= I
            BY <1>7, <2>1
        <3>3. B(I + 1) <= x <=> I + 1 <= I
            BY <1>7, <2>1
        <3> QED BY <2>1, <3>1, <3>2, <3>3
    <2>3. x < end /\ end <= T /\ end \in Int
        <3>1. ~(B(I + 1) > T)
            BY <1>6, <2>1
        <3> QED BY <1>1, <1>7, <2>1, <2>2, <3>1
    <2>4. end \in Begins(i) \union {T}
        <3>1. end \in F + 2..T - 1 \/ end = T
            BY <1>1, <1>7, <2>3
        <3>2. end \in {B(k) : k \in 1..n}
            BY <2>1
        <3> QED BY <1>3, <3>1, <3>2
    <2>5. \A y \in x..end - 1 : IntervalAt(y) = I
        <3> SUFFICES ASSUME NEW y \in x..end - 1 PROVE IntervalAt(y) = I
            OBVIOUS
        <3>1. y \in Int /\ y < end /\ x <= y
            BY <1>7, <2>3
        <3>2. B(I) <= y /\ ~(B(I + 1) <= y)
            BY <1>7, <2>1, <2>2, <3>1
        <3>3. IntervalAt(y) \in 0..n /\ \A k \in 1..n : B(k) <= y <=> k <= IntervalAt(y)
            BY <1>2, <3>1
        <3>4. I <= IntervalAt(y) /\ ~(I + 1 <= IntervalAt(y)) /\ IntervalAt(y) \in Int
            <4>1. B(I) <= y <=> I <= IntervalAt(y)
                BY <2>1, <3>3
            <4>2. B(I + 1) <= y <=> I + 1 <= IntervalAt(y)
                BY <2>1, <3>3
            <4>3. n \in Nat
                BY <1>2
            <4> QED BY <3>2, <3>3, <4>1, <4>2, <4>3
        <3> QED BY <2>1, <3>4
    <2> QED
        <3>1. x < end /\ end \in Begins(i) \union {T} /\ end <= T /\ end \in Int /\ \A y \in x..end - 1 : IntervalAt(y) = IntervalAt(x)
            BY <1>8, <2>3, <2>4, <2>5
        <3>2. \A y \in x..end - 1 : Mod(y) = Mod(x)
            BY <3>1 DEF Mod
        <3>3. OnLeg(i, x, end, Mod(x), p) /\ x < end
            <4>1. x \in F + 1..end
                BY <1>1, <1>7, <3>1
            <4> QED BY <1>7, <3>1, <3>2, <4>1 DEF OnLeg, p, F, T
        <3>4. (Compare(c, end, 2 * p) = 1) = (c.kind = "line" /\ Rise(c) > 0)
            BY <1>5, <1>7 DEF Misjudged, p, end, F, T
        <3> QED BY <3>3, <3>4 DEF Rising, end, p
<1>10. CASE I \notin 1..n - 1
    <2>1. end = T /\ x < end /\ T \in {T}
        BY <1>4, <1>7, <1>10, <1>1
    <2>2. \A y \in x..end - 1 : IntervalAt(y) = I
        <3> SUFFICES ASSUME NEW y \in x..T - 1 PROVE IntervalAt(y) = I
            BY <2>1
        <3>1. y \in Int /\ x <= y /\ y <= T - 1
            BY <1>1, <1>7
        <3>2. IntervalAt(y) \in 0..n /\ \A k \in 1..n : B(k) <= y <=> k <= IntervalAt(y)
            BY <1>2, <3>1
        <3>3. n \in Nat /\ IntervalAt(y) \in Int
            BY <1>2, <3>2
        <3>4. CASE I = n
            <4>1. CASE n = 0
                BY <3>2, <3>4, <4>1
            <4>2. CASE n # 0
                <5>1. n \in 1..n
                    BY <3>3, <4>2
                <5>2. B(n) \in Nat
                    BY <1>2, <5>1
                <5>3. B(n) <= x
                    BY <1>7, <3>3, <3>4, <5>1
                <5>4. B(n) <= y
                    BY <1>7, <3>1, <5>2, <5>3
                <5>5. n <= IntervalAt(y)
                    BY <3>2, <5>1, <5>4
                <5> QED BY <3>2, <3>3, <3>4, <5>5
            <4> QED BY <4>1, <4>2
        <3>5. CASE I # n
            <4>1. I = 0 /\ 1 \in 1..n
                BY <1>7, <1>10, <3>3, <3>5
            <4>2. \A k \in 1..n : B(k) # x
                <5>1. ASSUME NEW k \in 1..n, B(k) = x PROVE FALSE
                    <6>1. k \in Int /\ 1 <= k
                        BY <3>3
                    <6>2. k <= I
                        BY <1>7, <5>1
                    <6> QED BY <4>1, <6>1, <6>2
                <5> QED BY <5>1
            <4>3. x = F + 1
                <5>1. x \notin Begins(i)
                    BY <1>3, <4>2
                <5> QED BY <5>1 DEF F
            <4>4. Begins(i) = {}
                BY <1>5, <1>8, <4>1, <4>3
            <4>5. CASE IntervalAt(y) # 0
                <5>1. 1 <= IntervalAt(y)
                    BY <3>2, <3>3, <4>5
                <5>2. B(1) \in Nat
                    BY <1>2, <4>1
                <5>3. B(1) <= y
                    BY <3>2, <4>1, <5>1
                <5>4. ~(B(1) <= x)
                    BY <1>7, <4>1
                <5>5. B(1) \in F + 2..T - 1
                    BY <1>1, <3>1, <4>3, <5>2, <5>3, <5>4
                <5> QED BY <1>3, <4>1, <4>4, <5>5
            <4> QED BY <4>1, <4>5
        <3> QED BY <3>4, <3>5
    <2> QED
        <3>1. x < end /\ end \in Begins(i) \union {T} /\ end <= T /\ end \in Int /\ \A y \in x..end - 1 : IntervalAt(y) = IntervalAt(x)
            BY <1>1, <1>8, <2>1, <2>2
        <3>2. \A y \in x..end - 1 : Mod(y) = Mod(x)
            BY <3>1 DEF Mod
        <3>3. OnLeg(i, x, end, Mod(x), p) /\ x < end
            <4>1. x \in F + 1..end
                BY <1>1, <1>7, <3>1
            <4> QED BY <1>7, <3>1, <3>2, <4>1 DEF OnLeg, p, F, T
        <3>4. (Compare(c, end, 2 * p) = 1) = (c.kind = "line" /\ Rise(c) > 0)
            BY <1>5, <1>7 DEF Misjudged, p, end, F, T
        <3> QED BY <3>3, <3>4 DEF Rising, end, p
<1> QED BY <1>9, <1>10

-----------------------------------------------------------------------------
(***************************************************************************)
(* The loops, unless a piece is one they do not provide for.               *)
(***************************************************************************)
Clear == \A i \in Pieces : ~Awkward(i)

FirstOutcome == contract.points[1].outcome
EndPoint(i) == CETPayout(To(i).outcome, To(i).outcome, To(i).payout)

\* The ranges of the pieces before one.
Begun ==
  {b \in Pieces \X Seq(Range3) : IF b[1] = 1 THEN b[2] = <<>> ELSE Covers(b[2], FirstOutcome, From(b[1]).outcome, Drawn)}

\* A piece, the outcome the outer loop is at, and the ranges of the piece.
TakenUp ==
  {t \in Pieces \X Int \X Seq(Range3) :
     IF Constant(t[1]) THEN t[3] = <<CETPayout(From(t[1]).outcome, From(t[1]).outcome, From(t[1]).payout)>>
     ELSE IF t[2] < To(t[1]).outcome
          THEN /\ t[2] \in {From(t[1]).outcome + 1} \union Begins(t[1])
               /\ Covers(t[3], From(t[1]).outcome, t[2] - 1, Drawn)
          ELSE Covers(Append(t[3], EndPoint(t[1])), From(t[1]).outcome, To(t[1]).outcome, Drawn)}

\* A piece, the outcome, the payout and the leg the inner loop is at, and the ranges of the piece.
Walked ==
  {t \in Pieces \X Int \X Int \X [mod : Int, end : Int, up : BOOLEAN] \X Seq(Range3) :
     /\ ~Constant(t[1]) /\ t[4].up = Rising(contract.curves[t[1]]) /\ OnLeg(t[1], t[2], t[4].end, t[4].mod, t[3])
     /\ Covers(t[5], From(t[1]).outcome, t[2] - 1, Drawn)}

Finished == {rs \in Seq(Range3) : Tiles(rs, FirstOutcome, Last(contract.points).outcome, Drawn)}

SplitInv ==
  /\ ContractOK(contract)
  /\ Clear =>
       /\ pc \in {"outer", "inner", "done"} /\ started \in SUBSET Int
       /\ pc = "outer" => /\ <<piece, ranges>> \in Begun /\ <<piece, cur, result>> \in TakenUp
                          /\ \A s \in started : s < cur \/ cur >= To(piece).outcome
       /\ pc = "inner" => /\ <<piece, ranges>> \in Begun /\ <<piece, mid, paid, leg, result>> \in Walked /\ cur \in Int
                          /\ mid >= leg.end => leg.end = To(piece).outcome /\ cur >= To(piece).outcome
                          /\ \A s \in started : s <= mid
       /\ pc = "done" => ranges \in Finished

\* What the invariant speaks of depends on the contract only.
LEMMA SameContract ==
    contract' = contract => /\ Begun' = Begun /\ TakenUp' = TakenUp /\ Walked' = Walked /\ Finished' = Finished
                            /\ Clear' = Clear /\ ContractOK(contract)' = ContractOK(contract)
                            /\ Drawn' = Drawn /\ Outcomes' = Outcomes
<1> SUFFICES ASSUME contract' = contract
             PROVE  /\ Begun' = Begun /\ TakenUp' = TakenUp /\ Walked' = Walked /\ Finished' = Finished
                    /\ Clear' = Clear /\ ContractOK(contract)' = ContractOK(contract)
                    /\ Drawn' = Drawn /\ Outcomes' = Outcomes
    OBVIOUS
<1>1. Drawn' = Drawn
    BY DEF Drawn, Owed, Pieces, From, To, Constant, Clamp, RoundPayout, Mod, IntervalAt
<1>2. Clear' = Clear
    <2>1. \A i : Steep(i)' = Steep(i)
        BY DEF Steep, Inside, From, To, RoundPayout, Mod, IntervalAt
    <2>2. \A i : BeginsLater(i)' = BeginsLater(i) /\ PassedOver(i)' = PassedOver(i)
        BY DEF BeginsLater, PassedOver, From, To, IntervalAt, Begins
    <2>3. \A i : Misjudged(i)' = Misjudged(i)
        BY DEF Misjudged, From, To, Begins, NextFirst, RoundPayout, Mod, IntervalAt
    <2>4. \A i : ChangesAtBegin(i)' = ChangesAtBegin(i)
        BY DEF ChangesAtBegin, From, To, Begins, RoundPayout, Mod, IntervalAt
    <2>5. \A i : Ragged(i)' = Ragged(i) /\ NeverThatLow(i)' = NeverThatLow(i)
        BY DEF Ragged, NeverThatLow, ChangesLast, LastRounded, Inside, From, To, RoundPayout, Mod, IntervalAt
    <2>6. \A i : NeverThere(i)' = NeverThere(i)
        BY DEF NeverThere, Inside, From, To, Begins, RoundPayout, Mod, IntervalAt
    <2>7. \A i : Constant(i)' = Constant(i)
        BY DEF Constant, From, To
    <2> QED BY <2>1, <2>2, <2>3, <2>4, <2>5, <2>6, <2>7 DEF Clear, Awkward, Pieces
<1>3. Begun' = Begun
    BY <1>1 DEF Begun, Pieces, From, FirstOutcome
<1>4. TakenUp' = TakenUp
    BY <1>1 DEF TakenUp, Pieces, From, To, Constant, Begins, EndPoint
<1>5. Walked' = Walked
    BY <1>1 DEF Walked, Pieces, From, To, Constant, OnLeg, Begins, RoundPayout, Mod, IntervalAt
<1>6. Finished' = Finished
    BY <1>1 DEF Finished, FirstOutcome
<1>7. Outcomes' = Outcomes /\ ContractOK(contract)' = ContractOK(contract)
    BY DEF Outcomes
<1> QED BY <1>1, <1>2, <1>3, <1>4, <1>5, <1>6, <1>7

\* The end point is a range that pays what its outcome is owed.
LEMMA EndPointIs ==
    ASSUME ContractOK(contract), NEW i \in Pieces
    PROVE  LET e == EndPoint(i)
           IN  /\ e \in Range3 /\ e.from = To(i).outcome /\ e.to = To(i).outcome /\ e.payout = To(i).payout
               /\ \A y \in e.from..e.to : Drawn[y] = e.payout
<1>1. To(i).outcome \in Nat /\ To(i).payout \in Int /\ Drawn[To(i).outcome] = To(i).payout
    <2>1. To(i).payout \in 0..contract.collateral /\ contract.collateral \in Nat /\ To(i).outcome \in Nat
        BY PieceIs
    <2> QED BY <2>1, DrawnIs
<1>2. \A y \in To(i).outcome..To(i).outcome : y = To(i).outcome
    BY <1>1
<1> QED BY <1>1, <1>2 DEF EndPoint, CETPayout, Range3

\* The end point is added to ranges up to the outcome before it, or up to it.
LEMMA EndCovers ==
    ASSUME ContractOK(contract), NEW i \in Pieces, NEW rs, NEW b \in {To(i).outcome - 1, To(i).outcome},
           Covers(rs, From(i).outcome, b, Drawn)
    PROVE  Covers(Append(rs, EndPoint(i)), From(i).outcome, To(i).outcome, Drawn)
<1> DEFINE e == EndPoint(i)
<1>1. /\ e \in Range3 /\ e.from = To(i).outcome /\ e.to = To(i).outcome
      /\ \A y \in e.from..e.to : Drawn[y] = e.payout
    BY EndPointIs
<1>2. To(i).outcome \in Nat
    BY PieceIs
<1> HIDE DEF e
<1>3. e.from \in {b, b + 1} /\ e.from <= e.to
    BY <1>1, <1>2
<1>4. Covers(Append(rs, e), From(i).outcome, e.to, Drawn)
    BY <1>1, <1>3, CoversOn
<1> QED BY <1>1, <1>4 DEF e

\* The loops of a piece begin with its first point.
LEMMA PieceBegins ==
    ASSUME ContractOK(contract), NEW i \in Pieces
    PROVE  LET rs == <<CETPayout(From(i).outcome, From(i).outcome, From(i).payout)>>
           IN  <<i, From(i).outcome + 1, rs>> \in TakenUp
<1> DEFINE F == From(i).outcome
           T == To(i).outcome
           r == CETPayout(F, F, From(i).payout)
           rs == <<r>>
<1>1. F \in Nat /\ T \in Nat /\ F < T /\ From(i).payout \in Int /\ Drawn[F] = From(i).payout
    <2>1. From(i).payout \in 0..contract.collateral /\ contract.collateral \in Nat /\ F \in Nat /\ T \in Nat /\ F < T
        BY PieceIs
    <2> QED BY <2>1, DrawnIs
<1>2. r \in Range3 /\ r.from = F /\ r.to = F /\ r.payout = From(i).payout
    BY <1>1 DEF CETPayout, Range3
<1>3. <<r>> \in Seq(Range3)
    <2> HIDE DEF r
    <2> QED BY <1>2
<1>4. Covers(<<r>>, F, F, Drawn)
    <2> HIDE DEF r
    <2>1. r.from <= r.to /\ \A y \in r.from..r.to : Drawn[y] = r.payout
        BY <1>1, <1>2
    <2> QED BY <1>2, <2>1, CoversOne
<1> HIDE DEF rs
<1>5. ~Constant(i) => IF F + 1 < T THEN F + 1 \in {F + 1} \union Begins(i) /\ Covers(rs, F, (F + 1) - 1, Drawn)
                      ELSE Covers(Append(rs, EndPoint(i)), F, T, Drawn)
    <2>1. (F + 1) - 1 = F
        BY <1>1
    <2>2. CASE F + 1 < T
        BY <1>4, <2>1, <2>2 DEF rs
    <2>3. CASE ~(F + 1 < T)
        <3>1. F \in {T - 1, T}
            BY <1>1, <2>3
        <3>2. Covers(Append(rs, EndPoint(i)), F, T, Drawn)
            BY <1>4, <3>1, EndCovers DEF rs
        <3> QED BY <2>3, <3>2
    <2> QED BY <2>2, <2>3
<1>6. F + 1 \in Int
    BY <1>1
<1> HIDE DEF F, T, r
<1>7. rs = <<r>> /\ rs \in Seq(Range3)
    BY <1>3 DEF rs
<1>8. <<i, F + 1, rs>> \in TakenUp
    BY <1>5, <1>6, <1>7 DEF TakenUp, F, T, r
<1> QED BY <1>8 DEF F, r, rs

\* The ranges of a piece are merged with those before it.
LEMMA PieceEnds ==
    ASSUME ContractOK(contract), <<piece, ranges>> \in Begun, NEW rs, contract' = contract, EndPiece(rs),
           Covers(Append(rs, EndPoint(piece)), From(piece).outcome, To(piece).outcome, Drawn)
    PROVE  \/ pc' = "outer" /\ <<piece', ranges'>> \in Begun /\ <<piece', cur', result'>> \in TakenUp
           \/ pc' = "done" /\ ranges' \in Finished
<1> DEFINE stop == To(piece).outcome
           M == MergePayouts(Append(rs, EndPoint(piece)))
           all == ranges \o M
<1>1. piece \in Pieces /\ ranges \in Seq(Range3)
      /\ IF piece = 1 THEN ranges = <<>> ELSE Covers(ranges, FirstOutcome, From(piece).outcome, Drawn)
    BY DEF Begun
<1>2. Len(contract.curves) \in Nat /\ piece \in 1..Len(contract.curves)
    BY <1>1, PieceIs
<1>3. Covers(all, FirstOutcome, stop, Drawn)
    <2>1. Tiles(M, From(piece).outcome, stop, Drawn)
        BY DEF Covers
    <2>2. (ranges = <<>> /\ FirstOutcome = From(piece).outcome) \/ Covers(ranges, FirstOutcome, From(piece).outcome, Drawn)
        BY <1>1 DEF FirstOutcome, From
    <2> HIDE DEF M, stop
    <2> QED BY <1>1, <2>1, <2>2, CoversJoin DEF stop
<1>4. /\ ranges' = IF piece < Len(contract.curves) THEN all ELSE MergePayouts(all)
      /\ pc' = IF piece < Len(contract.curves) THEN "outer" ELSE "done"
      /\ piece' = IF piece < Len(contract.curves) THEN piece + 1 ELSE piece
      /\ cur' = stop + 1
      /\ result' = IF piece < Len(contract.curves) THEN <<EndPoint(piece)>> ELSE <<>>
    BY DEF EndPiece, EndPoint
<1> HIDE DEF M, all
<1>5. CASE piece < Len(contract.curves)
    <2>1. piece + 1 \in Pieces /\ piece + 1 # 1
        BY <1>2, <1>5 DEF Pieces
    <2>2. From(piece + 1) = To(piece)
        BY DEF From, To
    <2> DEFINE j == piece + 1
    <2> HIDE DEF j
    <2>3. j \in Pieces /\ j # 1 /\ From(j) = To(piece) /\ piece' = j
        BY <1>4, <1>5, <2>1, <2>2 DEF j
    <2>4. <<j, From(j).outcome + 1, <<CETPayout(From(j).outcome, From(j).outcome, From(j).payout)>> >> \in TakenUp
        BY <2>3, PieceBegins
    <2>5. all \in Seq(Range3)
        BY <1>3 DEF Covers
    <2>6. <<j, all>> \in Begun
        BY <1>3, <2>3, <2>5 DEF Begun
    <2>7. cur' = From(j).outcome + 1 /\ result' = <<CETPayout(From(j).outcome, From(j).outcome, From(j).payout)>>
          /\ ranges' = all /\ pc' = "outer"
        BY <1>4, <1>5, <2>3 DEF EndPoint
    <2> QED BY <2>3, <2>4, <2>6, <2>7
<1>6. CASE ~(piece < Len(contract.curves))
    <2>1. piece = Len(contract.curves)
        BY <1>2, <1>6
    <2>2. stop = Last(contract.points).outcome
        <3>1. Len(contract.points) = Len(contract.curves) + 1
            BY DEF ContractOK
        <3> QED BY <2>1, <3>1 DEF To, Last
    <2>3. ranges' = MergePayouts(all) /\ pc' = "done"
        BY <1>4, <1>6
    <2>4. Tiles(MergePayouts(all), FirstOutcome, stop, Drawn)
        BY <1>3 DEF Covers
    <2>5. MergePayouts(all) \in Seq(Range3)
        BY <2>4 DEF Tiles
    <2> QED BY <2>2, <2>3, <2>4, <2>5 DEF Finished
<1> QED BY <1>5, <1>6

\* The ranges of a constant piece are its points and one between them.
LEMMA FlatStep ==
    ASSUME ContractOK(contract), <<piece, ranges>> \in Begun, <<piece, cur, result>> \in TakenUp, Flat
    PROVE  \/ pc' = "outer" /\ <<piece', ranges'>> \in Begun /\ <<piece', cur', result'>> \in TakenUp
           \/ pc' = "done" /\ ranges' \in Finished
<1> DEFINE F == From(piece).outcome
           T == To(piece).outcome
           r == CETPayout(F, F, From(piece).payout)
           s == CETPayout(F, T, To(piece).payout)
<1>1. piece \in Pieces /\ Constant(piece) /\ result = <<r>> /\ contract' = contract /\ EndPiece(Append(result, s))
    BY DEF TakenUp, Flat
<1>2. /\ F \in Nat /\ T \in Nat /\ F < T /\ From(piece).payout \in Int /\ To(piece).payout = From(piece).payout
      /\ \A y \in F..T : Drawn[y] = From(piece).payout
    <2>1. From(piece).payout \in 0..contract.collateral /\ contract.collateral \in Nat /\ F \in Nat /\ T \in Nat /\ F < T
        BY <1>1, PieceIs
    <2> QED BY <1>1, <2>1, DrawnIs DEF Constant
<1>3. r \in Range3 /\ r.from = F /\ r.to = F /\ r.payout = From(piece).payout
    BY <1>2 DEF CETPayout, Range3
<1>4. s \in Range3 /\ s.from = F /\ s.to = T /\ s.payout = From(piece).payout
    BY <1>2 DEF CETPayout, Range3
<1> HIDE DEF r, s, F, T
<1>5. Covers(<<r>>, F, F, Drawn)
    <2>1. r.from <= r.to /\ \A y \in r.from..r.to : Drawn[y] = r.payout
        BY <1>2, <1>3
    <2> QED BY <1>3, <2>1, CoversOne
<1>6. Covers(Append(<<r>>, s), F, T, Drawn)
    <2>1. s.from \in {F, F + 1} /\ s.from <= s.to /\ \A y \in s.from..s.to : Drawn[y] = s.payout
        BY <1>2, <1>4
    <2> QED BY <1>4, <1>5, <2>1, CoversOn
<1>7. Covers(Append(Append(result, s), EndPoint(piece)), From(piece).outcome, To(piece).outcome, Drawn)
    <2>1. To(piece).outcome \in {To(piece).outcome - 1, To(piece).outcome}
        OBVIOUS
    <2> QED BY <1>1, <1>6, <2>1, EndCovers DEF F, T
<1> QED BY <1>1, <1>7, PieceEnds

\* The end point is put after the last of the outcomes the loops take.
LEMMA OuterEndsStep ==
    ASSUME ContractOK(contract), <<piece, ranges>> \in Begun, <<piece, cur, result>> \in TakenUp, OuterEnds
    PROVE  \/ pc' = "outer" /\ <<piece', ranges'>> \in Begun /\ <<piece', cur', result'>> \in TakenUp
           \/ pc' = "done" /\ ranges' \in Finished
<1>1. piece \in Pieces /\ cur \in Int /\ ~Constant(piece) /\ cur >= To(piece).outcome /\ EndPiece(result)
      /\ contract' = contract
    BY DEF TakenUp, OuterEnds
<1>2. ~(cur < To(piece).outcome)
    BY <1>1, PieceIs
<1>3. Covers(Append(result, EndPoint(piece)), From(piece).outcome, To(piece).outcome, Drawn)
    BY <1>1, <1>2 DEF TakenUp
<1> QED BY <1>1, <1>3, PieceEnds

\* The outer loop sets the inner one on a leg.
LEMMA OuterStep ==
    ASSUME ContractOK(contract), <<piece, cur, result>> \in TakenUp, ~Awkward(piece), Outer,
           \A s \in started : s < cur \/ cur >= To(piece).outcome
    PROVE  /\ <<piece, mid', paid', leg', result>> \in Walked /\ cur \in Int /\ mid' = cur
           /\ mid' < leg'.end /\ pc' = "inner"
<1> DEFINE i == piece
           end == NextFirst(i, cur)
           p == RoundPayout(i, cur, Mod(cur))
           l == [mod |-> Mod(cur), end |-> end, up |-> Ascending(end, p)]
<1>1. /\ i \in Pieces /\ cur \in Int /\ result \in Seq(Range3) /\ ~Constant(i) /\ cur < To(i).outcome
      /\ cur \in {From(i).outcome + 1} \union Begins(i) /\ Covers(result, From(i).outcome, cur - 1, Drawn)
    BY DEF TakenUp, Outer
<1>2. mid' = cur /\ paid' = p /\ leg' = l /\ pc' = "inner"
    <2>1. ~(cur < cur) /\ ~(cur >= To(i).outcome)
        BY <1>1, PieceIs
    <2>2. cur \notin started
        BY <2>1
    <2> QED BY <2>2 DEF Outer
<1>3. /\ OnLeg(i, cur, end, Mod(cur), p) /\ cur < end
      /\ (Compare(contract.curves[i], end, 2 * p) = 1) <=> Rising(contract.curves[i])
    BY <1>1, TurnLeg
<1>4. Mod(cur) \in Int /\ end \in Int /\ p \in Int
    <2> HIDE DEF end, p
    <2>1. /\ cur \in Nat \ {0} /\ end \in Nat /\ Mod(cur) \in Nat \ {0} /\ p \in Nat
        BY <1>1, <1>3, LegIs
    <2> QED BY <2>1
<1>5. l.up = Rising(contract.curves[i]) /\ l.up \in BOOLEAN /\ l.end = end /\ l.mod = Mod(cur)
    <2>1. l.up = (Compare(contract.curves[i], end, 2 * p) = 1)
        BY DEF Ascending
    <2>2. Rising(contract.curves[i]) \in BOOLEAN
        BY DEF Rising
    <2>3. l.end = end /\ l.mod = Mod(cur)
        OBVIOUS
    <2> HIDE DEF l, end, p
    <2> QED BY <1>3, <2>1, <2>2, <2>3
<1>6. l \in [mod : Int, end : Int, up : BOOLEAN]
    BY <1>4, <1>5
<1> HIDE DEF l, end, p
<1>7. <<i, cur, p, l, result>> \in Walked
    BY <1>1, <1>3, <1>4, <1>5, <1>6 DEF Walked
<1> QED BY <1>1, <1>2, <1>3, <1>5, <1>7

\* The inner loop is done with its leg where the piece ends.
LEMMA InnerEndsStep ==
    ASSUME ContractOK(contract), <<piece, mid, paid, leg, result>> \in Walked, cur \in Int, InnerEnds,
           mid >= leg.end => leg.end = To(piece).outcome /\ cur >= To(piece).outcome
    PROVE  <<piece, cur, result>> \in TakenUp
<1> DEFINE T == To(piece).outcome
<1>1. /\ piece \in Pieces /\ mid \in Int /\ result \in Seq(Range3) /\ ~Constant(piece)
      /\ OnLeg(piece, mid, leg.end, leg.mod, paid) /\ Covers(result, From(piece).outcome, mid - 1, Drawn)
    BY DEF Walked
<1>2. leg.end = T /\ cur >= T /\ mid >= T
    BY DEF InnerEnds
<1>3. T \in Nat /\ From(piece).outcome \in Nat
    BY <1>1, PieceIs
<1>4. mid = T
    <2>1. mid \in From(piece).outcome + 1..leg.end
        BY <1>1 DEF OnLeg
    <2> QED BY <1>2, <1>3, <2>1
<1>5. Covers(Append(result, EndPoint(piece)), From(piece).outcome, T, Drawn)
    <2>1. Covers(result, From(piece).outcome, T - 1, Drawn)
        BY <1>1, <1>4
    <2> QED BY <1>1, <2>1, EndCovers
<1>6. ~(cur < T)
    BY <1>2, <1>3
<1> QED BY <1>1, <1>5, <1>6 DEF TakenUp

\* What a turn of the inner loop looks for.
LEMMA InnerIs ==
    ASSUME leg.up = Rising(contract.curves[piece])
    PROVE  LET c == contract.curves[piece]
           IN  /\ MidOutcome = LastBefore(c, mid, Edge(c, paid, leg.mod))
               /\ NextPaid = NextPay(c, paid, leg.mod)
               /\ NextOutcome = OutcomeForPayout(c, 2 * NextPay(c, paid, leg.mod))
<1> DEFINE c == contract.curves[piece]
<1>1. MidPaid2 = Edge(c, paid, leg.mod)
    BY DEF MidPaid2, Edge
<1>2. \A n, w : Past(c, n, w) = IF leg.up THEN Compare(c, n, w) >= 0 ELSE Compare(c, n, w) = -1
    BY DEF Past
<1>3. MidOutcome = LastBefore(c, mid, Edge(c, paid, leg.mod))
    <2> HIDE DEF c
    <2>1. MidOutcome = LET o == OutcomeForPayout(c, MidPaid2)
                           n == IF o < 0 THEN mid + 1 ELSE o
                       IN  IF ~Past(c, n, MidPaid2) THEN n ELSE IF n = 0 THEN mid ELSE n - 1
        BY <1>2 DEF MidOutcome, c
    <2> QED BY <1>1, <2>1 DEF LastBefore
<1>4. NextPaid = NextPay(c, paid, leg.mod)
    BY DEF NextPaid, NextPay
<1> QED BY <1>3, <1>4 DEF NextOutcome

\* A turn of the inner loop: the interval ends first, the piece does, or the next payout begins.
LEMMA InnerStep ==
    ASSUME ContractOK(contract), <<piece, mid, paid, leg, result>> \in Walked, ~Awkward(piece), Inner
    PROVE  \/ /\ pc' = "outer" /\ <<piece, cur', result'>> \in TakenUp
              /\ mid < cur' \/ cur' >= To(piece).outcome
           \/ /\ pc' = "inner" /\ mid < mid' /\ <<piece, mid', paid', leg, result'>> \in Walked /\ cur' \in Int
              /\ mid' >= leg.end => leg.end = To(piece).outcome /\ cur' >= To(piece).outcome
<1> DEFINE i == piece
           c == contract.curves[i]
           C == contract.collateral
           F == From(i).outcome
           T == To(i).outcome
           end == leg.end
           m == LastBefore(c, mid, Edge(c, paid, leg.mod))
           q == NextPay(c, paid, leg.mod)
           o == OutcomeForPayout(c, 2 * q)
           last == q > C \/ q < 0 \/ o >= T \/ o < 0
           two == IF m \in F..T THEN <<CETPayout(mid, m, Clamp(paid)), CETPayout(m + 1, T - 1, Clamp(q))>>
                                ELSE <<CETPayout(mid, T, Clamp(paid))>>
<1>1. /\ i \in Pieces /\ mid \in Int /\ paid \in Int /\ leg \in [mod : Int, end : Int, up : BOOLEAN] /\ result \in Seq(Range3)
      /\ ~Constant(i) /\ leg.up = Rising(c) /\ OnLeg(i, mid, end, leg.mod, paid) /\ Covers(result, F, mid - 1, Drawn)
    BY DEF Walked
<1>2. mid < end
    BY DEF Inner
<1>3. MidOutcome = m /\ NextPaid = q /\ NextOutcome = o
    BY <1>1, InnerIs
<1>4. /\ m >= end => Covers(Append(result, CETPayout(mid, end - 1, Clamp(paid))), F, end - 1, Drawn)
      /\ m < end /\ last => Covers(Append(result \o two, CETPayout(T, T, To(i).payout)), F, T, Drawn)
      /\ m < end /\ ~last => /\ Covers(Append(result, CETPayout(mid, m, Clamp(paid))), F, m, Drawn)
                             /\ OnLeg(i, m + 1, end, leg.mod, q) /\ mid < m + 1
                             /\ m + 1 = end => end = T /\ o + 1 >= T
    <2>1. LegTurn(i, mid, end, leg.mod, paid, result)
        BY <1>1, <1>2, LegCovers
    <2> QED BY <2>1 DEF LegTurn
<1>5. /\ C \in Nat /\ Curve(c, C) /\ F \in Nat /\ T \in Nat /\ end \in Nat /\ F < mid /\ end <= T /\ leg.mod \in Int
      /\ end \in Begins(i) \union {T}
    <2>1. /\ C \in Nat /\ Curve(c, C) /\ F \in Nat /\ T \in Nat /\ end \in Nat /\ F < mid /\ end <= T /\ leg.mod \in Int
        BY <1>1, <1>2, LegIs
    <2>2. end \in Begins(i) \union {T}
        BY <1>1 DEF OnLeg
    <2> QED BY <2>1, <2>2
<1>6. \/ /\ m >= end /\ result' = Append(result, CETPayout(mid, end - 1, Clamp(paid)))
         /\ cur' = end /\ pc' = "outer"
      \/ /\ m < end /\ last /\ result' = result \o two
         /\ cur' = T /\ pc' = "outer"
      \/ /\ m < end /\ ~last /\ result' = Append(result, CETPayout(mid, m, Clamp(paid)))
         /\ paid' = q /\ mid' = m + 1
         /\ ~(m + 1 <= mid) => cur' = o + 1 /\ pc' = "inner"
    BY <1>3 DEF Inner, LastStep
<1>7. q \in Int
    BY <1>1, <1>5 DEF NextPay
<1>8. o \in Int
    <2>1. 2 * q \in Int
        BY <1>7
    <2> HIDE DEF q, c
    <2> QED BY <1>5, <2>1, OutcomeInt
<1> HIDE DEF m, q, o, last, two, c, end, T, F
<1>9. ASSUME m >= end, result' = Append(result, CETPayout(mid, end - 1, Clamp(paid))), cur' = end, pc' = "outer"
      PROVE  pc' = "outer" /\ <<i, cur', result'>> \in TakenUp /\ mid < cur'
    <2>1. Covers(result', F, end - 1, Drawn)
        BY <1>4, <1>9
    <2>2. result' \in Seq(Range3) /\ cur' \in Int
        BY <1>5, <1>9, <2>1 DEF Covers
    <2>3. CASE end < T
        <3>1. end \in Begins(i)
            BY <1>5, <2>3
        <3> QED BY <1>1, <1>2, <1>9, <2>1, <2>2, <2>3, <3>1 DEF TakenUp, end, T, F
    <2>4. CASE ~(end < T)
        <3>1. end = T
            BY <1>5, <2>4
        <3>2. Covers(Append(result', EndPoint(i)), F, T, Drawn)
            BY <1>1, <2>1, <3>1, EndCovers DEF F, T
        <3> QED BY <1>1, <1>2, <1>9, <2>2, <2>4, <3>2 DEF TakenUp, end, T, F
    <2> QED BY <2>3, <2>4
<1>10. ASSUME m < end, last, result' = result \o two, cur' = T, pc' = "outer"
       PROVE  pc' = "outer" /\ <<i, cur', result'>> \in TakenUp /\ cur' >= T
    <2>1. Covers(Append(result', EndPoint(i)), F, T, Drawn)
        BY <1>4, <1>10 DEF EndPoint, T
    <2>2. ~(cur' < T) /\ cur' \in Int /\ cur' >= T
        BY <1>5, <1>10
    <2>3. result' \in Seq(Range3)
        <3>1. mid \in Int /\ T \in Int /\ T - 1 \in Int /\ Clamp(paid) \in Int /\ Clamp(q) \in Int
            <4>1. Clamp(paid) \in Int /\ Clamp(q) \in Int
                BY <1>1, <1>5, <1>7 DEF Clamp, Between
            <4> QED BY <1>1, <1>5, <4>1
        <3>2. two \in Seq(Range3)
            <4>1. CASE m \in F..T
                <5>1. m \in Int /\ m + 1 \in Int
                    BY <1>5, <4>1
                <5> DEFINE r == CETPayout(mid, m, Clamp(paid))
                           s == CETPayout(m + 1, T - 1, Clamp(q))
                <5>2. r \in Range3 /\ s \in Range3
                    BY <3>1, <5>1 DEF CETPayout, Range3
                <5>3. two = <<r, s>>
                    BY <4>1 DEF two, F, T
                <5> HIDE DEF r, s
                <5> QED BY <5>2, <5>3
            <4>2. CASE m \notin F..T
                <5> DEFINE r == CETPayout(mid, T, Clamp(paid))
                <5>1. r \in Range3
                    BY <3>1 DEF CETPayout, Range3
                <5>2. two = <<r>>
                    BY <4>2 DEF two, F, T
                <5> HIDE DEF r
                <5> QED BY <5>1, <5>2
            <4> QED BY <4>1, <4>2
        <3> QED BY <1>1, <1>10, <3>2
    <2>4. <<i, cur', result'>> \in TakenUp
        BY <1>1, <2>1, <2>2, <2>3 DEF TakenUp, T, F
    <2> QED BY <1>10, <2>2, <2>4
<1>11. ASSUME m < end, ~last, result' = Append(result, CETPayout(mid, m, Clamp(paid))), paid' = q, mid' = m + 1,
              ~(m + 1 <= mid) => cur' = o + 1 /\ pc' = "inner"
       PROVE  /\ pc' = "inner" /\ mid < mid' /\ <<i, mid', paid', leg, result'>> \in Walked /\ cur' \in Int
              /\ mid' >= leg.end => leg.end = T /\ cur' >= T
    <2>1. Covers(result', F, m, Drawn) /\ OnLeg(i, m + 1, end, leg.mod, q) /\ mid < m + 1
          /\ (m + 1 = end => end = T /\ o + 1 >= T)
        BY <1>4, <1>11
    <2>2. m + 1 \in Int /\ m + 1 <= end
        <3>1. m + 1 \in F + 1..end
            BY <2>1 DEF OnLeg, F
        <3> QED BY <1>5, <3>1
    <2>3. m \in Int /\ (m + 1) - 1 = m
        BY <2>1, LastTile DEF Covers
    <2>4. cur' = o + 1 /\ pc' = "inner"
        BY <1>1, <1>11, <2>1, <2>2
    <2>5. result' \in Seq(Range3)
        BY <2>1 DEF Covers
    <2> DEFINE y == m + 1
    <2>6. Covers(result', F, y - 1, Drawn) /\ OnLeg(i, y, end, leg.mod, q) /\ y \in Int
        BY <2>1, <2>2, <2>3
    <2> HIDE DEF y
    <2>7. <<i, y, q, leg, result'>> \in Walked
        BY <1>1, <1>7, <2>5, <2>6 DEF Walked, F, c, end
    <2>8. mid' >= leg.end => leg.end = T /\ cur' >= T
        <3>1. mid' >= end => m + 1 = end
            BY <1>5, <1>11, <2>2
        <3> QED BY <2>1, <2>4, <3>1 DEF end
    <2> QED BY <1>8, <1>11, <2>1, <2>4, <2>7, <2>8 DEF y
<1> QED BY <1>6, <1>9, <1>10, <1>11 DEF T


\* The invariant holds in the beginning.
LEMMA SplitBegins == ContractOK(contract) /\ SplitInit(contract) => SplitInv
<1> SUFFICES ASSUME ContractOK(contract), SplitInit(contract) PROVE SplitInv
    OBVIOUS
<1>1. /\ piece = 1 /\ pc = "outer" /\ cur = From(1).outcome + 1 /\ ranges = <<>>
      /\ result = <<CETPayout(From(1).outcome, From(1).outcome, From(1).payout)>>
    BY DEF SplitInit, From
<1>2. 1 \in Pieces
    <2> DEFINE D == LineCurve(contract.collateral) \union HyperbolaCurve
    <2>1. contract.curves \in Seq(D) /\ contract.curves # <<>>
        BY DEF ContractOK
    <2> HIDE DEF D
    <2>2. Len(contract.curves) \in Nat /\ Len(contract.curves) # 0
        BY <2>1
    <2> QED BY <2>2 DEF Pieces
<1>3. <<piece, ranges>> \in Begun
    <2>1. ranges \in Seq(Range3) /\ piece \in Pieces
        BY <1>1, <1>2
    <2> QED BY <1>1, <2>1 DEF Begun
<1>4. <<piece, cur, result>> \in TakenUp
    BY <1>1, <1>2, PieceBegins
<1>5. started = {}
    BY DEF SplitInit
<1> QED BY <1>1, <1>3, <1>4, <1>5 DEF SplitInv

\* Every turn of the loops keeps it.
LEMMA SplitKeeps == SplitInv /\ [SplitNext]_splitVars => SplitInv'
<1> SUFFICES ASSUME SplitInv, [SplitNext]_splitVars PROVE SplitInv'
    OBVIOUS
<1>1. contract' = contract
    BY DEF SplitNext, Flat, Outer, OuterEnds, Inner, InnerEnds, splitVars
<1>2. /\ Begun' = Begun /\ TakenUp' = TakenUp /\ Walked' = Walked /\ Finished' = Finished
      /\ Clear' = Clear /\ ContractOK(contract)' /\ ContractOK(contract)
      /\ \A i : To(i)' = To(i)
    <2>1. ContractOK(contract)
        BY DEF SplitInv
    <2>2. \A i : To(i)' = To(i)
        BY <1>1 DEF To
    <2> QED BY <1>1, <2>1, <2>2, SameContract
<1>3. CASE ~Clear
    BY <1>2, <1>3 DEF SplitInv
<1>4. CASE Clear
    <2>1. /\ pc \in {"outer", "inner", "done"} /\ started \in SUBSET Int
          /\ pc = "outer" => /\ <<piece, ranges>> \in Begun /\ <<piece, cur, result>> \in TakenUp
                             /\ \A s \in started : s < cur \/ cur >= To(piece).outcome
          /\ pc = "inner" => /\ <<piece, ranges>> \in Begun /\ <<piece, mid, paid, leg, result>> \in Walked /\ cur \in Int
                             /\ mid >= leg.end => leg.end = To(piece).outcome /\ cur >= To(piece).outcome
                             /\ \A s \in started : s <= mid
          /\ pc = "done" => ranges \in Finished
        BY <1>4 DEF SplitInv
    <2>2. \A rs : <<piece, rs>> \in Begun => ~Awkward(piece)
        BY <1>4 DEF Clear, Begun
    <2>3. SUFFICES /\ pc' \in {"outer", "inner", "done"} /\ started' \in SUBSET Int
                   /\ pc' = "outer" => /\ <<piece', ranges'>> \in Begun /\ <<piece', cur', result'>> \in TakenUp
                                       /\ \A s \in started' : s < cur' \/ cur' >= To(piece').outcome
                   /\ pc' = "inner" => /\ <<piece', ranges'>> \in Begun
                                       /\ <<piece', mid', paid', leg', result'>> \in Walked /\ cur' \in Int
                                       /\ mid' >= leg'.end => leg'.end = To(piece').outcome /\ cur' >= To(piece').outcome
                                       /\ \A s \in started' : s <= mid'
                   /\ pc' = "done" => ranges' \in Finished
        <3>1. To(piece)' = To(piece')
            BY <1>1 DEF To
        <3> QED BY <1>2, <2>3, <3>1 DEF SplitInv
    <2>4. CASE Flat
        <3>1. pc = "outer" /\ started' = {}
            BY <2>4 DEF Flat, EndPiece
        <3> QED BY <1>2, <2>1, <2>4, <3>1, FlatStep
    <2>5. CASE OuterEnds
        <3>1. pc = "outer" /\ started' = {}
            BY <2>5 DEF OuterEnds, EndPiece
        <3> QED BY <1>2, <2>1, <2>5, <3>1, OuterEndsStep
    <2>6. CASE Outer
        <3>1. pc = "outer" /\ piece' = piece /\ ranges' = ranges /\ result' = result /\ cur' = cur
              /\ started' = started \union {cur}
            BY <2>6 DEF Outer
        <3>2. ~Awkward(piece)
            BY <2>1, <2>2, <3>1
        <3>3. /\ <<piece, mid', paid', leg', result>> \in Walked /\ cur \in Int /\ mid' = cur
              /\ mid' < leg'.end /\ pc' = "inner"
            BY <1>2, <2>1, <2>6, <3>1, <3>2, OuterStep
        <3>4. ~(mid' >= leg'.end)
            <4>1. mid' \in Int /\ leg'.end \in Int
                BY <3>3 DEF Walked
            <4> QED BY <3>3, <4>1
        <3>5. started' \in SUBSET Int /\ \A s \in started' : s <= mid'
            <4>1. \A s \in started : s \in Int /\ (s < cur \/ cur >= To(piece).outcome)
                BY <2>1, <3>1
            <4>2. ~(cur >= To(piece).outcome)
                <5>1. cur < To(piece).outcome /\ To(piece).outcome \in Nat
                    <6>1. piece \in Pieces
                        BY <3>3 DEF Walked
                    <6> QED BY <1>2, <2>6, <6>1, PieceIs DEF Outer
                <5> QED BY <3>3, <5>1
            <4> QED BY <3>1, <3>3, <4>1, <4>2
        <3> QED BY <2>1, <3>1, <3>3, <3>4, <3>5
    <2>7. CASE Inner
        <3>1. pc = "inner" /\ piece' = piece /\ ranges' = ranges /\ leg' = leg
              /\ started' = started
            BY <2>7 DEF Inner
        <3>2. ~Awkward(piece)
            BY <2>1, <2>2, <3>1
        <3>3. \/ /\ pc' = "outer" /\ <<piece, cur', result'>> \in TakenUp
                 /\ mid < cur' \/ cur' >= To(piece).outcome
              \/ /\ pc' = "inner" /\ mid < mid' /\ <<piece, mid', paid', leg, result'>> \in Walked /\ cur' \in Int
                 /\ mid' >= leg.end => leg.end = To(piece).outcome /\ cur' >= To(piece).outcome
            BY <1>2, <2>1, <2>7, <3>1, <3>2, InnerStep
        <3>4. started \in SUBSET Int /\ mid \in Int /\ \A s \in started : s <= mid
            BY <2>1, <3>1 DEF Walked
        <3>5. CASE pc' = "outer"
            <4>1. <<piece, cur', result'>> \in TakenUp /\ (mid < cur' \/ cur' >= To(piece).outcome) /\ cur' \in Int
                BY <3>3, <3>5 DEF TakenUp
            <4>2. \A s \in started : s < cur' \/ cur' >= To(piece).outcome
                BY <3>4, <4>1
            <4> QED BY <2>1, <3>1, <3>4, <3>5, <4>1, <4>2
        <3>6. CASE pc' = "inner"
            <4>1. /\ <<piece, mid', paid', leg, result'>> \in Walked /\ cur' \in Int /\ mid < mid' /\ mid' \in Int
                  /\ mid' >= leg.end => leg.end = To(piece).outcome /\ cur' >= To(piece).outcome
                BY <3>3, <3>6 DEF Walked
            <4>2. \A s \in started : s <= mid'
                BY <3>4, <4>1
            <4> QED BY <2>1, <3>1, <3>4, <3>6, <4>1, <4>2
        <3> QED BY <3>3, <3>5, <3>6
    <2>8. CASE InnerEnds
        <3>1. pc = "inner" /\ pc' = "outer" /\ piece' = piece /\ ranges' = ranges /\ cur' = cur /\ result' = result
              /\ started' = started /\ mid >= leg.end
            BY <2>8 DEF InnerEnds
        <3>2. <<piece, cur, result>> \in TakenUp
            BY <1>2, <2>1, <2>8, <3>1, InnerEndsStep
        <3> QED BY <2>1, <3>1, <3>2
    <2>9. CASE UNCHANGED splitVars
        <3>1. /\ piece' = piece /\ pc' = pc /\ cur' = cur /\ mid' = mid /\ paid' = paid /\ leg' = leg
              /\ result' = result /\ ranges' = ranges /\ started' = started
            BY <2>9 DEF splitVars
        <3> QED BY <2>1, <3>1
    <2> QED BY <2>4, <2>5, <2>6, <2>7, <2>8, <2>9 DEF SplitNext
<1> QED BY <1>3, <1>4

\* Offers begin so.
LEMMA ContractBegins == OfferInit => SplitInv /\ \E o \in Offers : contract = o[2]
<1> SUFFICES ASSUME NEW o \in Offers, SplitInit(o[2]) PROVE SplitInv /\ contract = o[2]
    BY DEF OfferInit
<1>1. contract = o[2]
    BY DEF SplitInit
<1>2. SplitInit(contract)
    BY <1>1
<1>3. ContractOK(contract)
    BY <1>1, OffersAssumption
<1> QED BY <1>1, <1>2, <1>3, SplitBegins

\* The steps of an offer keep it.
LEMMA ContractKeeps ==
    SplitInv /\ (\E o \in Offers : contract = o[2]) /\ [OfferNext]_offerVars
      => SplitInv' /\ (\E o \in Offers : contract = o[2])'
<1>1. [OfferNext]_offerVars => [SplitNext]_splitVars
    BY DEF OfferNext, Fund, Split, offerVars
<1>2. [SplitNext]_splitVars => contract' = contract
    BY DEF SplitNext, Flat, Outer, OuterEnds, Inner, InnerEnds, splitVars
<1> QED BY <1>1, <1>2, SplitKeeps

\* The ranges the loops end with part the outcomes of the contract.
LEMMA SplitPays ==
    ASSUME SplitInv, pc = "done", Clear
    PROVE  Parted(ranges, Outcomes) /\ \A x \in Outcomes : PaidFor(x, Owed(x))
<1>1. Tiles(ranges, FirstOutcome, Last(contract.points).outcome, Drawn)
    BY DEF SplitInv, Finished
<1>2. Outcomes = FirstOutcome..Last(contract.points).outcome
    BY DEF Outcomes, FirstOutcome
<1>3. /\ Parted(ranges, Outcomes)
      /\ \A x \in Outcomes : \E k \in DOMAIN ranges :
           /\ x \in ranges[k].from..ranges[k].to /\ ranges[k].payout = Drawn[x]
           /\ \A j \in DOMAIN ranges \ {k} : x \notin ranges[j].from..ranges[j].to
    <2> DEFINE a == FirstOutcome
               b == Last(contract.points).outcome
               f == Drawn
    <2>1. Tiles(ranges, a, b, f)
        BY <1>1
    <2>2. Outcomes = a..b
        BY <1>2
    <2> HIDE DEF a, b, f
    <2>3. /\ Parted(ranges, a..b)
          /\ \A x \in a..b : \E k \in DOMAIN ranges :
               /\ x \in ranges[k].from..ranges[k].to /\ ranges[k].payout = f[x]
               /\ \A j \in DOMAIN ranges \ {k} : x \notin ranges[j].from..ranges[j].to
        BY <2>1, TilesPart
    <2> QED BY <2>2, <2>3 DEF f
<1>4. \A x \in Outcomes : Drawn[x] = Owed(x)
    <2>1. \A x \in Outcomes : x \in Int
        BY <1>2
    <2> QED BY <2>1 DEF Drawn
<1> QED BY <1>3, <1>4 DEF PaidFor

\* The invariant says that the payouts are those drawn.
LEMMA InvPaid == SplitInv => PaidAsDrawn
<1> SUFFICES ASSUME SplitInv, pc = "done", \A i \in Pieces : ~Awkward(i)
             PROVE  /\ \A x \in Outcomes : PaidFor(x, Owed(x))
                    /\ \A k \in DOMAIN ranges : ranges[k].from <= ranges[k].to
    BY DEF PaidAsDrawn
<1>1. Parted(ranges, Outcomes) /\ \A x \in Outcomes : PaidFor(x, Owed(x))
    BY SplitPays DEF Clear
<1> QED BY <1>1 DEF Parted

\* ... and that no outcome is signed twice, or not at all.
LEMMA InvOnePrefix == SplitInv /\ (\E o \in Offers : contract = o[2]) => OnePrefix
<1> SUFFICES ASSUME SplitInv, NEW o \in Offers, contract = o[2], pc = "done", \A i \in Pieces : ~Awkward(i),
                    NEW x \in Outcomes
             PROVE  LET signed == UNION {{<<k, p>> : p \in GroupByIgnoringDigits(ranges[k].from, ranges[k].to)} :
                                           k \in DOMAIN ranges}
                        fits == {s \in signed : Matches(s[2], x)}
                    IN  Cardinality(fits) = 1 /\ \A s \in fits : x \in ranges[s[1]].from..ranges[s[1]].to
    BY DEF OnePrefix
<1>1. Parted(ranges, Outcomes)
    BY SplitPays DEF Clear
<1>2. Outcomes \in SUBSET Writable
    <2>0. 1 \in Pieces
        <3> DEFINE D == LineCurve(contract.collateral) \union HyperbolaCurve
        <3>1. contract.curves \in Seq(D) /\ contract.curves # <<>>
            BY DEF ContractOK, SplitInv
        <3> HIDE DEF D
        <3>2. Len(contract.curves) \in Nat /\ Len(contract.curves) # 0
            BY <3>1
        <3> QED BY <3>2 DEF Pieces
    <2>1. contract.points[1].outcome \in Nat
        BY <2>0, PieceIs DEF From, SplitInv
    <2>2. Last(contract.points).outcome < Power[NumDigits] /\ Power[NumDigits] \in Int
        BY DigitsAssumption, PowerIs
    <2>3. \A a, b, c \in Int : a >= 0 /\ b < c => a..b \subseteq 0..c - 1
        OBVIOUS
    <2>4. Last(contract.points).outcome \in Int
        <3>1. Last(contract.points) = To(Len(contract.curves))
            <4>1. Len(contract.points) = Len(contract.curves) + 1
                BY DEF ContractOK, SplitInv
            <4> QED BY <4>1 DEF Last, To
        <3>2. Len(contract.curves) \in Pieces
            BY <2>0, PieceIs DEF Pieces, SplitInv
        <3> QED BY <3>1, <3>2, PieceIs DEF SplitInv
    <2>5. contract.points[1].outcome..Last(contract.points).outcome \subseteq 0..Power[NumDigits] - 1
        <3> DEFINE a == contract.points[1].outcome
                   b == Last(contract.points).outcome
                   c == Power[NumDigits]
        <3>1. a \in Int /\ a >= 0 /\ b \in Int /\ c \in Int /\ b < c
            BY <2>1, <2>2, <2>4
        <3> HIDE DEF a, b, c
        <3>2. a..b \subseteq 0..c - 1
            BY <2>3, <3>1
        <3> QED BY <3>2 DEF a, b, c
    <2> QED BY <2>5 DEF Outcomes, Writable
<1> QED BY <1>1, <1>2, PrefixesPart

(* splitIntoRanges: for every payout function and every rounding, unless a  *)
(* piece is one the loops do not provide for, every outcome of the contract *)
(* is in exactly one range and paid what the rounded curve, or the point it *)
(* is at, says.                                                             *)
THEOREM ContractPaidAsDrawn == OfferSpec => []PaidAsDrawn
<1>1. SplitInv /\ (\E o \in Offers : contract = o[2]) => PaidAsDrawn
    BY InvPaid
<1> QED BY <1>1, ContractBegins, ContractKeeps, PTL DEF OfferSpec

(* groupByIgnoringDigits: and then the digits of every outcome begin with   *)
(* exactly one of the prefixes the CETs are signed with, that of the range  *)
(* it is in; for every base and every number of digits.                     *)
THEOREM ContractOnePrefix == OfferSpec => []OnePrefix
BY InvOnePrefix, ContractBegins, ContractKeeps, PTL DEF OfferSpec

(* splitIntoRanges: for such a payout function currentOutcome is never set  *)
(* back to where a turn has begun before.                                   *)
THEOREM ContractNotSetBack == OfferSpec => []((\A i \in Pieces : ~Awkward(i)) => pc # "looping")
<1>1. SplitInv => ((\A i \in Pieces : ~Awkward(i)) => pc # "looping")
    BY DEF SplitInv, Clear
<1> QED BY <1>1, ContractBegins, ContractKeeps, PTL DEF OfferSpec
=============================================================================
