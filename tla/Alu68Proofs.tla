----------------------------- MODULE Alu68Proofs -----------------------------
(* The results and flags of Alu68 for an int68_t of any width: the sign    *)
(* trick of inl68_arithmetic.h and the shifts of inl68_shifting.h say what *)
(* the numbers say.  Powers of two and what an instruction repeats are     *)
(* recursive functions: that they exist is proved here.                    *)
EXTENDS Alu68, TLAPS, NaturalsInduction, WellFoundedInduction

-----------------------------------------------------------------------------
(* Division.                                                               *)

(* A multiple of m that is closer to 0 than m is 0.                        *)
LEMMA NoMultiple ==
  ASSUME NEW m \in Nat \ {0}, NEW q \in Int, m * q \in (1 - m)..(m - 1)
  PROVE  q = 0
<1>1. CASE q >= 1
  <2>1. m * q >= m  BY <1>1, SMT
  <2> QED BY <2>1
<1>2. CASE q <= -1
  <2>1. m * q <= -m  BY <1>2, SMT
  <2> QED BY <2>1
<1> QED BY <1>1, <1>2

(* Quotient and remainder: that there are, and that no others are.         *)
LEMMA DivMod ==
  ASSUME NEW m \in Nat \ {0}, NEW n \in Int
  PROVE  /\ n = m * (n \div m) + (n % m)
         /\ n % m \in 0..(m - 1) /\ n \div m \in Int
         /\ n >= 0 => n \div m \in Nat
OBVIOUS

LEMMA DivModIs ==
  ASSUME NEW m \in Nat \ {0}, NEW n \in Int, NEW q \in Int, NEW r \in 0..(m - 1),
         n = m * q + r
  PROVE  n \div m = q /\ n % m = r
<1> DEFINE p == n \div m
           t == n % m
<1>1. p \in Int /\ n = m * p + t /\ t \in 0..(m - 1)  BY DivMod
<1> HIDE DEF p, t
<1>2. m * (p - q) = m * p - m * q /\ m * p \in Int /\ m * q \in Int  BY <1>1
<1>3. m * (p - q) = r - t  BY <1>1, <1>2
<1>4. m * (p - q) \in (1 - m)..(m - 1) /\ p - q \in Int  BY <1>1, <1>3
<1>5. p - q = 0  BY <1>4, NoMultiple
<1>6. p = q  BY <1>1, <1>5
<1>7. t = r  BY <1>1, <1>6
<1> QED BY <1>6, <1>7 DEF p, t

(* A product of two positive numbers.                                      *)
LEMMA Times ==
  ASSUME NEW a \in Nat \ {0}, NEW b \in Nat \ {0}
  PROVE  a * b \in Nat \ {0} /\ a * b >= a /\ a * b >= b
OBVIOUS

(* One division after another; numbers that are both scaled up.            *)
LEMMA DivDiv ==
  ASSUME NEW a \in Nat \ {0}, NEW b \in Nat \ {0}, NEW n \in Int
  PROVE  (n \div a) \div b = n \div (a * b)
<1> DEFINE q == n \div a
           p == q \div b
<1>1. q \in Int /\ n = a * q + (n % a) /\ n % a \in 0..(a - 1)  BY DivMod
<1>2. p \in Int /\ q = b * p + (q % b) /\ q % b \in 0..(b - 1)  BY <1>1, DivMod
<1> DEFINE s == n % a
           t == q % b
           r == a * t + s
<1> HIDE DEF q, p, s, t
<1>3. n = a * (b * p + t) + s /\ s \in 0..(a - 1) /\ t \in 0..(b - 1)
  <2>1. q = b * p + t  BY <1>2 DEF t
  <2>2. n = a * q + s  BY <1>1 DEF s
  <2>3. s \in 0..(a - 1) /\ t \in 0..(b - 1)  BY <1>1, <1>2 DEF s, t
  <2> QED BY <2>1, <2>2, <2>3
<1>4. a * (b * p + t) = a * b * p + a * t /\ a * t \in Int  BY <1>2, <1>3
<1>5. a * t <= a * (b - 1) /\ a * t >= 0
  <2>1. t >= 0 /\ t <= b - 1 /\ t \in Int  BY <1>3
  <2> QED BY <2>1
<1>6. a * (b - 1) = a * b - a  OBVIOUS
<1>7. r \in 0..(a * b - 1)  BY <1>3, <1>4, <1>5, <1>6
<1>8. n = a * b * p + r  BY <1>3, <1>4, <1>2
<1> HIDE DEF r
<1>9. a * b \in Nat \ {0}  BY Times
<1>10. n \div (a * b) = p  BY <1>7, <1>8, <1>9, <1>2, DivModIs
<1> QED BY <1>10 DEF p, q

LEMMA Scale ==
  ASSUME NEW c \in Nat \ {0}, NEW m \in Nat \ {0}, NEW n \in Int
  PROVE  /\ (n * c) % (m * c) = (n % m) * c
         /\ (n * c) \div (m * c) = n \div m
<1> DEFINE q == n \div m
           r == n % m
<1>1. q \in Int /\ n = m * q + r /\ r \in 0..(m - 1)  BY DivMod
<1> HIDE DEF q, r
<1>2. n * c = m * c * q + r * c  BY <1>1
<1>3. r * c >= 0 /\ r * c <= (m - 1) * c  BY <1>1
<1>4. (m - 1) * c = m * c - c  OBVIOUS
<1>5. m * c \in Nat \ {0} /\ n * c \in Int  BY Times
<1>6. r * c \in 0..(m * c - 1)  BY <1>1, <1>3, <1>4, <1>5
<1>7. (n * c) \div (m * c) = q /\ (n * c) % (m * c) = r * c  BY <1>1, <1>2, <1>5, <1>6, DivModIs
<1> QED BY <1>7 DEF q, r

(* What is added to or multiplied by a remainder.                          *)
LEMMA ModAdd ==
  ASSUME NEW m \in Nat \ {0}, NEW n \in Int, NEW k \in Int
  PROVE  /\ (n + m * k) % m = n % m
         /\ (n + m * k) \div m = n \div m + k
<1> DEFINE q == n \div m
           r == n % m
<1>1. q \in Int /\ n = m * q + r /\ r \in 0..(m - 1)  BY DivMod
<1> HIDE DEF q, r
<1>2. m * (q + k) = m * q + m * k /\ m * k \in Int /\ m * q \in Int  BY <1>1
<1>3. n + m * k = m * (q + k) + r /\ n + m * k \in Int /\ q + k \in Int  BY <1>1, <1>2
<1>4. (n + m * k) \div m = q + k /\ (n + m * k) % m = r  BY <1>1, <1>3, DivModIs
<1> QED BY <1>4 DEF q, r

LEMMA ModTimes ==
  ASSUME NEW m \in Nat \ {0}, NEW n \in Int, NEW k \in Int
  PROVE  (k * (n % m)) % m = (k * n) % m
<1> DEFINE q == n \div m
           r == n % m
<1>1. q \in Int /\ n = m * q + r /\ r \in 0..(m - 1)  BY DivMod
<1> HIDE DEF q, r
<1>2. k * n = k * r + m * (k * q) /\ k * r \in Int /\ k * q \in Int  BY <1>1
<1> DEFINE R == k * r
           K == k * q
<1>3. k * n = R + m * K /\ R \in Int /\ K \in Int  BY <1>2
<1> HIDE DEF R, K
<1>4. (R + m * K) % m = R % m  BY <1>3, ModAdd
<1> QED BY <1>3, <1>4 DEF r, R

(* Induction and recursion over the naturals, by sets and functions.       *)
Less == {ss \in Nat \X Nat : ss[1] < ss[2]}

LEMMA Smallest == \A T \in SUBSET Nat : T # {} => \E x \in T : \A y \in T : x <= y
<1> SUFFICES ASSUME NEW T \in SUBSET Nat, T # {} PROVE \E x \in T : \A y \in T : x <= y
  OBVIOUS
<1>1. IsWellFoundedOn(Less, Nat)  BY NatLessThanWellFounded DEF OpToRel, Less
<1>2. PICK x \in T : \A y \in T : ~(<<y, x>> \in Less)  BY <1>1, WFMin
<1>3. ASSUME NEW y \in T PROVE x <= y
  <2>1. <<y, x>> \in Nat \X Nat /\ <<y, x>>[1] = y /\ <<y, x>>[2] = x  OBVIOUS
  <2>2. ~(y < x)  BY <1>2, <2>1 DEF Less
  <2> QED BY <2>2
<1> QED BY <1>3

LEMMA NatInd == \A T \in SUBSET Nat : 0 \in T /\ (\A n \in T : n + 1 \in T) => T = Nat
<1> SUFFICES ASSUME NEW T \in SUBSET Nat, 0 \in T, \A n \in T : n + 1 \in T, T # Nat PROVE FALSE
  OBVIOUS
<1> DEFINE U == Nat \ T
<1>1. PICK x \in U : \A y \in U : x <= y
  <2> U \in SUBSET Nat /\ U # {}  OBVIOUS
  <2> HIDE DEF U
  <2> QED BY Smallest
<1>2. x \in Nat /\ x # 0 /\ x - 1 \in Nat  OBVIOUS
<1>3. x - 1 \in T  BY <1>1, <1>2
<1> QED BY <1>2, <1>3

(* Up to a bound.                                                          *)
LEMMA UpTo ==
  ASSUME NEW k \in Nat, NEW T \in SUBSET Nat, 0 \in T, \A n \in T : n < k => n + 1 \in T
  PROVE  \A n \in 0..k : n \in T
<1> DEFINE U == {n \in Nat : n <= k => n \in T}
<1>1. 0 \in U /\ \A n \in U : n + 1 \in U  OBVIOUS
<1>2. U = Nat
  <2>1. U \in SUBSET Nat  OBVIOUS
  <2> HIDE DEF U
  <2> QED BY <1>1, <2>1, NatInd
<1> QED BY <1>2

(* A function that starts at a and takes F[n] from n - 1 to n.             *)
Iterates(f, S, a, F) == f \in [Nat -> S] /\ f[0] = a /\ \A n \in Nat : f[n + 1] = F[n + 1][f[n]]

LEMMA Recursion ==
  ASSUME NEW S, NEW a \in S, NEW F \in [Nat -> [S -> S]]
  PROVE  \E f : Iterates(f, S, a, F)
<1> DEFINE Good(n, g) == g[0] = a /\ \A i \in 0..(n - 1) : g[i + 1] = F[i + 1][g[i]]
           T == {n \in Nat : \E g \in [0..n -> S] : Good(n, g)}
<1>1. 0 \in T
  <2>1. [i \in 0..0 |-> a] \in [0..0 -> S] /\ Good(0, [i \in 0..0 |-> a])  OBVIOUS
  <2> QED BY <2>1
<1>2. ASSUME NEW n \in T PROVE n + 1 \in T
  <2>1. PICK g \in [0..n -> S] : Good(n, g)  OBVIOUS
  <2> DEFINE h == [i \in 0..(n + 1) |-> IF i = n + 1 THEN F[n + 1][g[n]] ELSE g[i]]
  <2>2. n \in Nat /\ n + 1 \in Nat /\ g[n] \in S /\ F[n + 1][g[n]] \in S  OBVIOUS
  <2>3. h \in [0..(n + 1) -> S]  BY <2>2
  <2>4. Good(n + 1, h)
    <3>1. h[0] = a  BY <2>1, <2>2
    <3>2. ASSUME NEW i \in 0..(n + 1 - 1) PROVE h[i + 1] = F[i + 1][h[i]]
      <4>1. CASE i = n  BY <4>1, <2>2
      <4>2. CASE i # n
        <5>1. i \in 0..(n - 1) /\ h[i] = g[i] /\ h[i + 1] = g[i + 1]  BY <4>2, <2>2
        <5> QED BY <5>1, <2>1
      <4> QED BY <4>1, <4>2
    <3> HIDE DEF h
    <3> QED BY <3>1, <3>2
  <2> QED BY <2>2, <2>3, <2>4
<1>3. T = Nat
  <2>1. T \in SUBSET Nat  OBVIOUS
  <2> HIDE DEF T
  <2> QED BY <1>1, <1>2, <2>1, NatInd
<1>4. ASSUME NEW m \in Nat, NEW n \in Nat, m <= n, NEW g, NEW h, Good(m, g), Good(n, h)
      PROVE  g[m] = h[m]
  <2> DEFINE E == {i \in Nat : i <= m => g[i] = h[i]}
  <2>1. 0 \in E /\ \A i \in E : i + 1 \in E
    <3>1. \A i \in Nat : i + 1 <= m => i \in 0..(m - 1) /\ i \in 0..(n - 1)  BY <1>4
    <3>2. g[0] = h[0]  BY <1>4
    <3>3. ASSUME NEW i \in E, i + 1 <= m PROVE g[i + 1] = h[i + 1]
      <4>1. g[i] = h[i]  BY <3>3
      <4>2. g[i + 1] = F[i + 1][g[i]] /\ h[i + 1] = F[i + 1][h[i]]  BY <3>1, <3>3, <1>4
      <4> QED BY <4>1, <4>2
    <3> QED BY <3>2, <3>3
  <2>2. E = Nat
    <3>1. E \in SUBSET Nat  OBVIOUS
    <3> HIDE DEF E
    <3> QED BY <2>1, <3>1, NatInd
  <2> QED BY <2>2
<1> DEFINE G(n) == CHOOSE g \in [0..n -> S] : Good(n, g)
           f == [n \in Nat |-> G(n)[n]]
<1>5. ASSUME NEW n \in Nat PROVE G(n) \in [0..n -> S] /\ Good(n, G(n))
  <2>1. \E g \in [0..n -> S] : Good(n, g)  BY <1>3
  <2> HIDE DEF Good
  <2> QED BY <2>1
<1>6. f \in [Nat -> S]
  <2>1. ASSUME NEW n \in Nat PROVE G(n)[n] \in S  BY <1>5
  <2> HIDE DEF G
  <2> QED BY <2>1
<1>7. f[0] = a  BY <1>5
<1>8. ASSUME NEW n \in Nat PROVE f[n + 1] = F[n + 1][f[n]]
  <2>1. n + 1 \in Nat /\ n <= n + 1  OBVIOUS
  <2>0. Good(n + 1, G(n + 1)) /\ Good(n, G(n))
    <3> HIDE DEF G, Good
    <3> QED BY <1>5, <2>1
  <2> HIDE DEF G
  <2>2. G(n)[n] = G(n + 1)[n]
    <3> HIDE DEF Good
    <3> QED BY <1>4, <2>0, <2>1
  <2>3. G(n + 1)[n + 1] = F[n + 1][G(n + 1)[n]]
    <3>1. n \in 0..(n + 1 - 1)  OBVIOUS
    <3> QED BY <2>0, <3>1
  <2> QED BY <2>1, <2>2, <2>3
<1> HIDE DEF f
<1> QED BY <1>6, <1>7, <1>8 DEF Iterates

(* 1 << n                                                                  *)
LEMMA Pow2Def == Pow2 \in [Nat -> Nat] /\ Pow2[0] = 1 /\ \A n \in Nat : Pow2[n + 1] = 2 * Pow2[n]
<1> DEFINE F == [n \in Nat |-> [v \in Nat |-> 2 * v]]
<1>1. F \in [Nat -> [Nat -> Nat]]  OBVIOUS
<1>2. PICK f : Iterates(f, Nat, 1, F)
  <2> HIDE DEF F
  <2> QED BY <1>1, Recursion
<1>3. \A n \in Nat : f[n + 1] = 2 * f[n]
  <2>1. \A n \in Nat : n + 1 \in Nat /\ f[n] \in Nat  BY <1>2 DEF Iterates
  <2>2. \A n, v \in Nat : F[n][v] = 2 * v  OBVIOUS
  <2> HIDE DEF F
  <2> QED BY <1>2, <2>1, <2>2 DEF Iterates
<1>4. f = [n \in Nat |-> IF n = 0 THEN 1 ELSE 2 * f[n - 1]]
  <2>1. \A n \in Nat : n # 0 => n - 1 \in Nat /\ n = (n - 1) + 1  OBVIOUS
  <2>2. \A n \in Nat : f[n] = IF n = 0 THEN 1 ELSE 2 * f[n - 1]  BY <2>1, <1>2, <1>3 DEF Iterates
  <2> QED BY <2>2, <1>2 DEF Iterates
<1>5. Pow2 = [n \in Nat |-> IF n = 0 THEN 1 ELSE 2 * Pow2[n - 1]]
  <2>1. \E g : g = [n \in Nat |-> IF n = 0 THEN 1 ELSE 2 * g[n - 1]]  BY <1>4
  <2> QED BY <2>1 DEF Pow2
<1>6. \A n \in Nat : Pow2[n] = IF n = 0 THEN 1 ELSE 2 * Pow2[n - 1]  BY <1>5
<1> DEFINE T == {n \in Nat : Pow2[n] = f[n]}
<1>7. 0 \in T /\ \A n \in T : n + 1 \in T
  <2>1. \A n \in Nat : n + 1 \in Nat /\ n + 1 # 0 /\ n + 1 - 1 = n  OBVIOUS
  <2>2. Pow2[0] = f[0]  BY <1>2, <1>6 DEF Iterates
  <2>3. \A n \in Nat : Pow2[n + 1] = 2 * Pow2[n]  BY <2>1, <1>6
  <2> QED BY <2>1, <2>2, <2>3, <1>3
<1>8. T = Nat
  <2>1. T \in SUBSET Nat  OBVIOUS
  <2> HIDE DEF T
  <2> QED BY <1>7, <2>1, NatInd
<1>9. DOMAIN Pow2 = Nat /\ \A n \in Nat : Pow2[n] = f[n]
  <2>1. DOMAIN Pow2 = Nat  BY <1>5
  <2> QED BY <1>8, <2>1
<1>10. Pow2 = [n \in Nat |-> Pow2[n]]  BY <1>5
<1> QED BY <1>2, <1>3, <1>9, <1>10 DEF Iterates

LEMMA Pow2Positive == \A n \in Nat : Pow2[n] \in Nat \ {0}
<1> DEFINE T == {n \in Nat : Pow2[n] \in Nat \ {0}}
<1>1. 0 \in T /\ \A n \in T : n + 1 \in T  BY Pow2Def
<1>2. T \in SUBSET Nat  OBVIOUS
<1> HIDE DEF T
<1>3. T = Nat  BY <1>1, <1>2, NatInd
<1> QED BY <1>3 DEF T

LEMMA Pow2Sum == \A a, b \in Nat : Pow2[a + b] = Pow2[a] * Pow2[b]
<1> SUFFICES ASSUME NEW a \in Nat PROVE \A b \in Nat : Pow2[a + b] = Pow2[a] * Pow2[b]
  OBVIOUS
<1> DEFINE T == {b \in Nat : Pow2[a + b] = Pow2[a] * Pow2[b]}
<1>1. 0 \in T  BY Pow2Def
<1>2. ASSUME NEW b \in T PROVE b + 1 \in T
  <2>1. Pow2[a] \in Nat /\ Pow2[b] \in Nat /\ b \in Nat /\ a + b \in Nat /\ a + (b + 1) = (a + b) + 1
    BY Pow2Def
  <2>2. Pow2[a + (b + 1)] = 2 * (Pow2[a] * Pow2[b])  BY <2>1, Pow2Def
  <2>3. Pow2[b + 1] = 2 * Pow2[b]  BY <2>1, Pow2Def
  <2>4. Pow2[a] * (2 * Pow2[b]) = 2 * (Pow2[a] * Pow2[b])  BY <2>1
  <2> QED BY <2>1, <2>2, <2>3, <2>4
<1>3. T \in SUBSET Nat  OBVIOUS
<1> HIDE DEF T
<1>4. T = Nat  BY <1>1, <1>2, <1>3, NatInd
<1> QED BY <1>4 DEF T
-----------------------------------------------------------------------------
(* Sums.                                                                   *)

Value68 == 0..(M - 1)                    \* what an int68_t holds
Fits(n) == n \in Value68                 \* as an unsigned number
SignedFits(n) == n \in (-HALF)..(HALF - 1)

(* There is room for the X bit below an operand.                           *)
Room(s, x) == IF Msb(s) THEN s + x <= M ELSE s + x <= HALF

LEMMA Halves == HALF \in Nat /\ HALF > 0 /\ M = 2 * HALF /\ M \in Nat \ {0}
BY AluAssumption DEF M

(* What a sum or a difference wraps to, at most once either way.           *)
LEMMA Wraps ==
  ASSUME NEW m \in Nat \ {0}, NEW n \in Int, NEW k \in {-1, 0, 1}, n - k * m \in 0..(m - 1)
  PROVE  n % m = n - k * m
<1> DEFINE q == n \div m
           r == n % m
<1>1. q \in Int /\ n = m * q + r /\ r \in 0..(m - 1)  BY SMT
<1> HIDE DEF q, r
<1>2. m * (q - k) = m * q - m * k  BY <1>1, k \in Int
<1>3. m * k = k * m  BY k \in Int
<1>4. m * (q - k) = (n - k * m) - r /\ k * m \in Int  BY <1>1, <1>2, <1>3
<1>5. q - k \in Int /\ m * (q - k) \in (1 - m)..(m - 1)  BY <1>1, <1>4
<1>6. q - k = 0  BY <1>5, NoMultiple
<1>7. q = k  BY <1>6, <1>1
<1> QED BY <1>7, <1>1, <1>3 DEF r

LEMMA WrapsOnce ==
  ASSUME NEW n \in Int
  PROVE  /\ n \in 0..(M - 1) => n % M = n
         /\ n \in M..(2 * M - 1) => n % M = n - M
         /\ n \in (-M)..(-1) => n % M = n + M
<1> SUFFICES ASSUME NEW k \in {-1, 0, 1}, n - k * M \in 0..(M - 1) PROVE n % M = n - k * M
  <2>1. \A k \in {-1, 0, 1} : n - k * M \in 0..(M - 1) => n % M = n - k * M  OBVIOUS
  <2>2. -1 \in {-1, 0, 1} /\ 0 \in {-1, 0, 1} /\ 1 \in {-1, 0, 1}  OBVIOUS
  <2>3. \A k \in {-1, 0, 1} : k * M = IF k = 0 THEN 0 ELSE IF k = 1 THEN M ELSE -M  BY Halves
  <2> QED BY <2>1, <2>2, <2>3, Halves
<1> QED BY Halves, Wraps

(* The sign of a number.                                                   *)
LEMMA SignOf ==
  ASSUME NEW s \in Value68
  PROVE  /\ s \in Int /\ s >= 0 /\ s < M
         /\ Msb(s) <=> s >= HALF
         /\ Msb(s) => Signed(s) = s - M
         /\ ~Msb(s) => Signed(s) = s
<1>1. s \in Int /\ s >= 0 /\ s < M /\ HALF \in Int  BY Halves DEF Value68
<1>2. Msb(s) <=> s >= HALF  BY DEF Msb
<1>3. Signed(s) = IF s < HALF THEN s ELSE s - M  BY DEF Signed
<1> QED BY <1>1, <1>2, <1>3

(* The terms of carry, borrow and overflow by the three signs.             *)
LEMMA ThreeSigns ==
  ASSUME NEW a \in BOOLEAN, NEW b \in BOOLEAN, NEW r \in BOOLEAN
  PROVE  /\ (r # ((a # r) \/ (b # r))) <=> ((a /\ b) \/ ((a \/ b) /\ ~r))
         /\ (((b = r) /\ (a # r)) # r) <=> ((a /\ ~b) \/ ((a \/ ~b) /\ r))
         /\ (a # r /\ b # r) <=> (a /\ b /\ ~r) \/ (~a /\ ~b /\ r)
         /\ (b # r /\ a = r) <=> (a /\ ~b /\ r) \/ (~a /\ b /\ ~r)
<1>1. CASE a = TRUE /\ b = TRUE /\ r = TRUE  BY <1>1, Zenon
<1>2. CASE a = TRUE /\ b = TRUE /\ r = FALSE  BY <1>2, Zenon
<1>3. CASE a = TRUE /\ b = FALSE /\ r = TRUE  BY <1>3, Zenon
<1>4. CASE a = TRUE /\ b = FALSE /\ r = FALSE  BY <1>4, Zenon
<1>5. CASE a = FALSE /\ b = TRUE /\ r = TRUE  BY <1>5, Zenon
<1>6. CASE a = FALSE /\ b = TRUE /\ r = FALSE  BY <1>6, Zenon
<1>7. CASE a = FALSE /\ b = FALSE /\ r = TRUE  BY <1>7, Zenon
<1>8. CASE a = FALSE /\ b = FALSE /\ r = FALSE  BY <1>8, Zenon
<1> QED BY <1>1, <1>2, <1>3, <1>4, <1>5, <1>6, <1>7, <1>8, Zenon

-----------------------------------------------------------------------------
(* An operand that is a multiple of the unit of its size has room for X,   *)
(* which is worth one unit.                                                *)
THEOREM AlignedHasRoom ==
  ASSUME NEW u \in Nat \ {0}, NEW h \in Nat, HALF = u * h, NEW i \in Nat, u * i \in Value68
  PROVE  Room(u * i, u)
<1>1. u * (i + 1) = u * i + u /\ u * i \in Int /\ u * h \in Int  BY SMT
<1>2. \A k \in Nat : u * i < u * k => u * (i + 1) <= u * k
  <2> SUFFICES ASSUME NEW k \in Nat, u * i < u * k PROVE u * (i + 1) <= u * k  OBVIOUS
  <2>1. CASE i < k
    <3>1. i + 1 <= k  BY <2>1
    <3> QED BY <3>1, SMT
  <2>2. CASE k <= i
    <3>1. u * k <= u * i  BY <2>2, SMT
    <3>2. u * k \in Int  BY SMT
    <3> QED BY <3>1, <3>2, <1>1
  <2> QED BY <2>1, <2>2
<1>3. u * (2 * h) = M  BY Halves
<1>4. u * i < u * (2 * h) /\ 2 * h \in Nat  BY <1>1, <1>3, Halves DEF Value68
<1>5. u * (i + 1) <= u * (2 * h)  BY <1>2, <1>4
<1>6. Msb(u * i) \/ u * i < u * h  BY <1>1, Halves DEF Msb
<1>7. ~Msb(u * i) => u * (i + 1) <= u * h  BY <1>2, <1>6
<1> QED BY <1>1, <1>3, <1>5, <1>7 DEF Room

(* inl_add68(), for ADD and ADDX: C and X are set when the unsigned sum    *)
(* does not fit, V when the signed one does not; if it fits it is the      *)
(* result.                                                                 *)
THEOREM AddExact ==
  ASSUME NEW s \in Value68, NEW d \in Value68, NEW x \in Nat, Room(s, x)
  PROVE  LET a == Add68(s, d, x)
         IN  /\ a.f.c <=> ~Fits(s + d + x)
             /\ a.f.x <=> ~Fits(s + d + x)
             /\ a.f.v <=> ~SignedFits(Signed(s) + Signed(d) + x)
             /\ ~a.f.c => a.r = s + d + x
             /\ ~a.f.v => Signed(a.r) = Signed(s) + Signed(d) + x
<1> DEFINE n == s + d + x
           a == Add68(s, d, x)
<1>1. n \in Nat /\ HALF \in Nat /\ HALF > 0 /\ M = 2 * HALF  BY Halves, SignOf
<1>2. /\ s \in Int /\ s >= 0 /\ s < M /\ (Msb(s) <=> s >= HALF)
      /\ Signed(s) = IF s >= HALF THEN s - M ELSE s
      /\ d \in Int /\ d >= 0 /\ d < M /\ (Msb(d) <=> d >= HALF)
      /\ Signed(d) = IF d >= HALF THEN d - M ELSE d
  BY SignOf
<1>3. n < 2 * M /\ (s < HALF /\ d < HALF => n < M)  BY <1>1, <1>2 DEF Room
<1>4. a.r = IF n < M THEN n ELSE n - M
  <2>1. a.r = n % M  BY DEF Add68
  <2> QED BY <2>1, <1>1, <1>3, WrapsOnce
<1>5. a.r \in Value68 /\ a.r \in Int  BY <1>1, <1>3, <1>4 DEF Value68
<1>6. (Msb(a.r) <=> a.r >= HALF) /\ Signed(a.r) = IF a.r >= HALF THEN a.r - M ELSE a.r
  BY <1>5, SignOf
<1>7. Msb(s) \in BOOLEAN /\ Msb(d) \in BOOLEAN /\ Msb(a.r) \in BOOLEAN  BY DEF Msb
<1>8. /\ a.f.c = (Msb(a.r) # ((Msb(s) # Msb(a.r)) \/ (Msb(d) # Msb(a.r))))
      /\ a.f.x = a.f.c
      /\ a.f.v = (Msb(s) # Msb(a.r) /\ Msb(d) # Msb(a.r))
  BY DEF Add68
<1> HIDE DEF a
<1>9. /\ a.f.c <=> ((Msb(s) /\ Msb(d)) \/ ((Msb(s) \/ Msb(d)) /\ ~Msb(a.r)))
      /\ a.f.v <=> ((Msb(s) /\ Msb(d) /\ ~Msb(a.r)) \/ (~Msb(s) /\ ~Msb(d) /\ Msb(a.r)))
  BY <1>7, <1>8, ThreeSigns, Zenon
<1>10. a.f.c <=> n >= M
  <2>1. ((s >= HALF /\ d >= HALF) \/ ((s >= HALF \/ d >= HALF) /\ ~(a.r >= HALF))) <=> n >= M
    BY <1>1, <1>2, <1>3, <1>4, <1>5 DEF Room
  <2> QED BY <2>1, <1>2, <1>6, <1>9, Zenon
<1>11. a.f.v <=> ~SignedFits(Signed(s) + Signed(d) + x)
  <2>1. ((s >= HALF /\ d >= HALF /\ ~(a.r >= HALF)) \/ (~(s >= HALF) /\ ~(d >= HALF) /\ a.r >= HALF))
          <=> ~SignedFits(Signed(s) + Signed(d) + x)
    BY <1>1, <1>2, <1>3, <1>4, <1>5 DEF SignedFits, Room
  <2> QED BY <2>1, <1>2, <1>6, <1>9, Zenon
<1>12. SignedFits(Signed(s) + Signed(d) + x) => Signed(a.r) = Signed(s) + Signed(d) + x
  BY <1>1, <1>2, <1>3, <1>4, <1>6 DEF SignedFits
<1>13. n >= M <=> ~Fits(n)  BY <1>1 DEF Fits, Value68
<1> QED BY <1>4, <1>8, <1>10, <1>11, <1>12, <1>13, <1>1 DEF a

(* inl_sub68(), for SUB and SUBX: C and X are set when the unsigned        *)
(* difference is negative, V when the signed one does not fit.             *)
THEOREM SubExact ==
  ASSUME NEW s \in Value68, NEW d \in Value68, NEW x \in Nat, Room(s, x)
  PROVE  LET a == Sub68(s, d, x)
         IN  /\ a.f.c <=> ~Fits(d - s - x)
             /\ a.f.x <=> ~Fits(d - s - x)
             /\ a.f.v <=> ~SignedFits(Signed(d) - Signed(s) - x)
             /\ ~a.f.c => a.r = d - s - x
             /\ ~a.f.v => Signed(a.r) = Signed(d) - Signed(s) - x
<1> DEFINE n == d - s - x
           a == Sub68(s, d, x)
<1>1. n \in Int /\ HALF \in Nat /\ HALF > 0 /\ M = 2 * HALF  BY Halves, SignOf
<1>2. /\ s \in Int /\ s >= 0 /\ s < M /\ (Msb(s) <=> s >= HALF)
      /\ Signed(s) = IF s >= HALF THEN s - M ELSE s
      /\ d \in Int /\ d >= 0 /\ d < M /\ (Msb(d) <=> d >= HALF)
      /\ Signed(d) = IF d >= HALF THEN d - M ELSE d
  BY SignOf
<1>3. n >= -M /\ n < M /\ (s < HALF /\ d >= HALF => n >= 0)  BY <1>1, <1>2 DEF Room
<1>4. a.r = IF n >= 0 THEN n ELSE n + M
  <2>1. a.r = n % M  BY DEF Sub68
  <2> QED BY <2>1, <1>1, <1>3, WrapsOnce
<1>5. a.r \in Value68 /\ a.r \in Int  BY <1>1, <1>3, <1>4 DEF Value68
<1>6. (Msb(a.r) <=> a.r >= HALF) /\ Signed(a.r) = IF a.r >= HALF THEN a.r - M ELSE a.r
  BY <1>5, SignOf
<1>7. Msb(s) \in BOOLEAN /\ Msb(d) \in BOOLEAN /\ Msb(a.r) \in BOOLEAN  BY DEF Msb
<1>8. /\ a.f.c = (((Msb(d) = Msb(a.r)) /\ (Msb(s) # Msb(a.r))) # Msb(a.r))
      /\ a.f.x = a.f.c
      /\ a.f.v = (Msb(d) # Msb(a.r) /\ Msb(s) = Msb(a.r))
  BY DEF Sub68
<1> HIDE DEF a
<1>9. /\ a.f.c <=> ((Msb(s) /\ ~Msb(d)) \/ ((Msb(s) \/ ~Msb(d)) /\ Msb(a.r)))
      /\ a.f.v <=> ((Msb(s) /\ ~Msb(d) /\ Msb(a.r)) \/ (~Msb(s) /\ Msb(d) /\ ~Msb(a.r)))
  BY <1>7, <1>8, ThreeSigns, Zenon
<1>10. a.f.c <=> ~(n >= 0)
  <2>1. ((s >= HALF /\ ~(d >= HALF)) \/ ((s >= HALF \/ ~(d >= HALF)) /\ a.r >= HALF)) <=> ~(n >= 0)
    BY <1>1, <1>2, <1>3, <1>4, <1>5 DEF Room
  <2> QED BY <2>1, <1>2, <1>6, <1>9, Zenon
<1>11. a.f.v <=> ~SignedFits(Signed(d) - Signed(s) - x)
  <2>1. ((s >= HALF /\ ~(d >= HALF) /\ a.r >= HALF) \/ (~(s >= HALF) /\ d >= HALF /\ ~(a.r >= HALF)))
          <=> ~SignedFits(Signed(d) - Signed(s) - x)
    BY <1>1, <1>2, <1>3, <1>4, <1>5 DEF SignedFits, Room
  <2> QED BY <2>1, <1>2, <1>6, <1>9, Zenon
<1>12. SignedFits(Signed(d) - Signed(s) - x) => Signed(a.r) = Signed(d) - Signed(s) - x
  BY <1>1, <1>2, <1>3, <1>4, <1>6 DEF SignedFits
<1>13. ~(n >= 0) <=> ~Fits(n)  BY <1>1, <1>3 DEF Fits, Value68
<1> QED BY <1>4, <1>8, <1>10, <1>11, <1>12, <1>13, <1>1 DEF a

(* inl_neg68(), for NEG and NEGX.                                          *)
THEOREM NegExact ==
  ASSUME NEW d \in Value68, NEW x \in Nat, Room(d, x)
  PROVE  LET a == Neg68(d, x)
         IN  /\ a.f.c <=> ~Fits(-d - x)
             /\ a.f.x <=> ~Fits(-d - x)
             /\ a.f.v <=> ~SignedFits(-Signed(d) - x)
             /\ ~a.f.v => Signed(a.r) = -Signed(d) - x
<1> DEFINE n == -d - x
           a == Neg68(d, x)
<1>1. n \in Int /\ HALF \in Nat /\ HALF > 0 /\ M = 2 * HALF  BY Halves, SignOf
<1>2. /\ d \in Int /\ d >= 0 /\ d < M /\ (Msb(d) <=> d >= HALF)
      /\ Signed(d) = IF d >= HALF THEN d - M ELSE d
  BY SignOf
<1>3. n >= -M /\ n <= 0  BY <1>1, <1>2 DEF Room
<1>4. a.r = IF n = 0 THEN 0 ELSE n + M
  <2>1. a.r = n % M  BY DEF Neg68
  <2> QED BY <2>1, <1>1, <1>3, WrapsOnce
<1>5. a.r \in Value68 /\ a.r \in Int  BY <1>1, <1>3, <1>4 DEF Value68
<1>6. (Msb(a.r) <=> a.r >= HALF) /\ Signed(a.r) = IF a.r >= HALF THEN a.r - M ELSE a.r
  BY <1>5, SignOf
<1>7. /\ a.f.c <=> Msb(d) \/ Msb(a.r)
      /\ a.f.x <=> Msb(d) \/ Msb(a.r)
      /\ a.f.v <=> Msb(d) /\ Msb(a.r)
  BY DEF Neg68
<1> HIDE DEF a
<1>8. (d >= HALF \/ a.r >= HALF) <=> ~Fits(n)
  BY <1>1, <1>2, <1>3, <1>4, <1>5 DEF Fits, Value68, Room
<1>9. (d >= HALF /\ a.r >= HALF) <=> ~SignedFits(-Signed(d) - x)
  BY <1>1, <1>2, <1>3, <1>4, <1>5 DEF SignedFits, Room
<1>10. SignedFits(-Signed(d) - x) => Signed(a.r) = -Signed(d) - x
  BY <1>1, <1>2, <1>3, <1>4, <1>6 DEF SignedFits, Room
<1>11. /\ a.f.c <=> ~Fits(n)
       /\ a.f.x <=> ~Fits(n)
       /\ a.f.v <=> ~SignedFits(-Signed(d) - x)
  BY <1>2, <1>6, <1>7, <1>8, <1>9, Zenon
<1> QED BY <1>10, <1>11 DEF a

-----------------------------------------------------------------------------
(* inl_cmp68() with the conditions of cc68.h: Bcc, Scc and DBcc after CMP  *)
(* decide by the order of the destination and the source, unsigned and     *)
(* signed, whatever the flags were before.                                 *)
THEOREM CompareOrders ==
  ASSUME NEW s \in Value68, NEW d \in Value68, NEW f
  PROVE  LET g == Cmp68(s, d, f).f
         IN  /\ Holds("hi", g) <=> d > s
             /\ Holds("ls", g) <=> d <= s
             /\ Holds("cc", g) <=> d >= s
             /\ Holds("cs", g) <=> d < s
             /\ Holds("eq", g) <=> d = s
             /\ Holds("ne", g) <=> d # s
             /\ Holds("ge", g) <=> Signed(d) >= Signed(s)
             /\ Holds("lt", g) <=> Signed(d) < Signed(s)
             /\ Holds("gt", g) <=> Signed(d) > Signed(s)
             /\ Holds("le", g) <=> Signed(d) <= Signed(s)
<1> DEFINE a == Sub68(s, d, 0)
           g == Cmp68(s, d, f).f
<1>1. s \in Int /\ d \in Int /\ s < M /\ d < M /\ s >= 0 /\ d >= 0 /\ M = 2 * HALF /\ HALF \in Nat
  BY SignOf, Halves
<1>2. Room(s, 0)  BY <1>1, SignOf DEF Room
<1>3. /\ Signed(s) = IF s >= HALF THEN s - M ELSE s
      /\ Signed(d) = IF d >= HALF THEN d - M ELSE d
  BY SignOf
<1>4. /\ a.f.c <=> d < s
      /\ a.f.v <=> ~SignedFits(Signed(d) - Signed(s))
      /\ ~a.f.v => Signed(a.r) = Signed(d) - Signed(s)
  <2>1. d - s - 0 = d - s /\ Signed(d) - Signed(s) - 0 = Signed(d) - Signed(s)  BY <1>1, <1>3
  <2>2. ~Fits(d - s) <=> d < s  BY <1>1 DEF Fits, Value68
  <2> QED BY <1>2, <2>1, <2>2, SubExact
<1>5. /\ g.c = a.f.c /\ g.v = a.f.v /\ g.n = a.f.n /\ g.z = a.f.z
      /\ a.f.n = Msb(a.r) /\ a.f.z = (a.r = 0) /\ a.r = (d - s) % M
  <2>1. a.f.n = Msb(a.r) /\ a.f.z = (a.r = 0) /\ a.r = (d - s - 0) % M  BY DEF Sub68
  <2>2. DOMAIN a.f = {"x", "n", "z", "v", "c"}  BY DEF Sub68
  <2>3. g = [a.f EXCEPT !.x = f.x]  BY DEF Cmp68
  <2>4. d - s - 0 = d - s  BY <1>1
  <2> HIDE DEF a, g
  <2>5. g.c = a.f.c /\ g.v = a.f.v /\ g.n = a.f.n /\ g.z = a.f.z  BY <2>2, <2>3
  <2> QED BY <2>1, <2>4, <2>5
<1> HIDE DEF g, a
<1>6. a.r = (IF d >= s THEN d - s ELSE d - s + M)  BY <1>1, <1>5, WrapsOnce
<1>7. (a.r = 0) <=> d = s  BY <1>1, <1>6
<1>8. ((a.r >= HALF /\ SignedFits(Signed(d) - Signed(s)))
         \/ (~(a.r >= HALF) /\ ~SignedFits(Signed(d) - Signed(s)))) <=> Signed(d) < Signed(s)
  <2> DEFINE i == Signed(d) - Signed(s)
  <2>1. SignedFits(i) <=> (i >= -HALF /\ i < HALF)  BY <1>1, <1>3 DEF SignedFits
  <2>2. a.r \in Int /\ i \in Int /\ Signed(d) \in Int /\ Signed(s) \in Int  BY <1>1, <1>3, <1>6
  <2>3. (i < 0) <=> Signed(d) < Signed(s)  BY <2>2
  <2>4. ((a.r >= HALF /\ i >= -HALF /\ i < HALF)
          \/ (~(a.r >= HALF) /\ ~(i >= -HALF /\ i < HALF))) <=> i < 0
    BY <1>1, <1>3, <1>6, <2>2
  <2> QED BY <2>1, <2>3, <2>4, Zenon
<1>9. Msb(a.r) <=> a.r >= HALF  BY DEF Msb
<1>10. /\ g.c \in BOOLEAN /\ g.z \in BOOLEAN /\ g.n \in BOOLEAN /\ g.v \in BOOLEAN
  <2>1. a.f.c \in BOOLEAN /\ a.f.v \in BOOLEAN  BY DEF a, Sub68
  <2>2. a.f.n \in BOOLEAN /\ a.f.z \in BOOLEAN  BY <1>5 DEF Msb
  <2> QED BY <1>5, <2>1, <2>2
<1>11. /\ g.c <=> d < s
       /\ g.z <=> d = s
       /\ (g.n # g.v) <=> Signed(d) < Signed(s)
  <2>1. (g.n # g.v) <=> ((g.n /\ ~g.v) \/ (~g.n /\ g.v))
    <3>1. CASE g.n = TRUE /\ g.v = TRUE  BY <3>1, Zenon
    <3>2. CASE g.n = TRUE /\ g.v = FALSE  BY <3>2, Zenon
    <3>3. CASE g.n = FALSE /\ g.v = TRUE  BY <3>3, Zenon
    <3>4. CASE g.n = FALSE /\ g.v = FALSE  BY <3>4, Zenon
    <3> QED BY <1>10, <3>1, <3>2, <3>3, <3>4, Zenon
  <2>2. (g.n <=> Msb(a.r)) /\ (g.v <=> ~SignedFits(Signed(d) - Signed(s)))  BY <1>4, <1>5, Zenon
  <2>3. (g.n # g.v) <=> Signed(d) < Signed(s)  BY <2>1, <2>2, <1>8, <1>9, Zenon
  <2> QED BY <1>4, <1>5, <1>7, <2>3, Zenon
<1>12. (g.n = g.v) <=> ~(g.n # g.v)  OBVIOUS
<1>13. /\ Holds("hi", g) <=> ~(g.c \/ g.z)
       /\ Holds("ls", g) <=> (g.c \/ g.z)
       /\ Holds("cc", g) <=> ~g.c
       /\ Holds("cs", g) <=> g.c
       /\ Holds("eq", g) <=> g.z
       /\ Holds("ne", g) <=> ~g.z
       /\ Holds("ge", g) <=> g.n = g.v
       /\ Holds("lt", g) <=> g.n # g.v
       /\ Holds("gt", g) <=> ~(g.z \/ g.n # g.v)
       /\ Holds("le", g) <=> (g.z \/ g.n # g.v)
  BY DEF Holds
<1>14. /\ d > s <=> ~(d < s \/ d = s)
       /\ d <= s <=> (d < s \/ d = s)
       /\ d >= s <=> ~(d < s)
       /\ Signed(d) >= Signed(s) <=> ~(Signed(d) < Signed(s))
       /\ Signed(d) > Signed(s) <=> ~(d = s \/ Signed(d) < Signed(s))
       /\ Signed(d) <= Signed(s) <=> (d = s \/ Signed(d) < Signed(s))
  BY <1>1, <1>3
<1> QED BY <1>11, <1>12, <1>13, <1>14, Zenon DEF g

-----------------------------------------------------------------------------
(* Operands: a value v of size z is v units of its size.                   *)

LEMMA ScaledOrder ==
  ASSUME NEW u \in Nat \ {0}, NEW a \in Int, NEW b \in Int
  PROVE  /\ a * u \in Int
         /\ a * u < b * u <=> a < b
         /\ a * u <= b * u <=> a <= b
         /\ a * u = b * u <=> a = b
<1>0. a * u \in Int /\ b * u \in Int  OBVIOUS
<1>1. ASSUME NEW k \in Int, NEW l \in Int, k < l PROVE k * u < l * u
  <2>1. l - k \in Nat \ {0}  BY <1>1
  <2>2. (l - k) * u \in Nat \ {0}  BY <2>1, Times
  <2>3. (l - k) * u = l * u - k * u  OBVIOUS
  <2> QED BY <2>2, <2>3
<1>2. CASE a < b  BY <1>0, <1>1, <1>2
<1>3. CASE b < a  BY <1>0, <1>1, <1>3
<1>4. CASE a = b  BY <1>0, <1>4
<1> QED BY <1>2, <1>3, <1>4

LEMMA Widths ==
  ASSUME NEW z \in Size
  PROVE  /\ Bits[z] \in 1..(SIGN_BIT + 1) /\ SIGN_BIT \in Nat
         /\ Full(z) \in Nat \ {0} /\ Unit(z) \in Nat \ {0} /\ Full(z) * Unit(z) = M
         /\ Pow2[Bits[z] - 1] \in Nat \ {0} /\ Full(z) = 2 * Pow2[Bits[z] - 1]
         /\ HALF = Pow2[Bits[z] - 1] * Unit(z)
         /\ M = Pow2[SIGN_BIT + 1]
<1>1. Bits[z] \in 1..(SIGN_BIT + 1) /\ SIGN_BIT \in Nat  BY AluAssumption
<1>2. Bits[z] \in Nat /\ SIGN_BIT + 1 - Bits[z] \in Nat /\ Bits[z] - 1 \in Nat  BY <1>1
<1>3. Full(z) \in Nat \ {0} /\ Unit(z) \in Nat \ {0} /\ Pow2[Bits[z] - 1] \in Nat \ {0}
  BY <1>2, Pow2Positive DEF Full, Unit
<1>4. Full(z) = 2 * Pow2[Bits[z] - 1]
  <2>1. Bits[z] = (Bits[z] - 1) + 1  BY <1>2
  <2> QED BY <2>1, <1>2, Pow2Def DEF Full
<1>5. HALF = Pow2[Bits[z] - 1] * Unit(z)
  <2>1. SIGN_BIT = (Bits[z] - 1) + (SIGN_BIT + 1 - Bits[z])  BY <1>2, <1>1
  <2>2. Pow2[SIGN_BIT] = Pow2[Bits[z] - 1] * Pow2[SIGN_BIT + 1 - Bits[z]]  BY <2>1, <1>2, Pow2Sum
  <2> QED BY <2>2, AluAssumption DEF Unit
<1>6. Full(z) * Unit(z) = M  BY <1>3, <1>4, <1>5, Halves
<1>7. M = Pow2[SIGN_BIT + 1]  BY <1>1, Pow2Def, Halves, AluAssumption
<1> QED BY <1>1, <1>3, <1>4, <1>5, <1>6, <1>7

LEMMA Scaled ==
  ASSUME NEW z \in Size, NEW v \in Int
  PROVE  /\ v * Unit(z) \in Int
         /\ Down(v * Unit(z), z) = v
         /\ (v * Unit(z)) % M = (v % Full(z)) * Unit(z)
         /\ v % Full(z) \in 0..(Full(z) - 1)
         /\ v \in 0..(Full(z) - 1) => v % Full(z) = v
         /\ v * Unit(z) \in Value68 <=> v \in 0..(Full(z) - 1)
<1> DEFINE n == Full(z)
           u == Unit(z)
<1>1. n \in Nat \ {0} /\ u \in Nat \ {0} /\ n * u = M  BY Widths
<1>2. Down(v * u, z) = (v * u) \div u  BY DEF Down
<1> HIDE DEF n, u
<1>3. v * u \in Int /\ (v * u) \div u = v
  <2>1. v * u \in Int /\ v * u = u * v + 0 /\ 0 \in 0..(u - 1)  BY <1>1
  <2> QED BY <1>1, <2>1, DivModIs
<1>4. (v * u) % (n * u) = (v % n) * u  BY <1>1, Scale
<1>5. v % n \in 0..(n - 1)  BY <1>1, DivMod
<1>6. v \in 0..(n - 1) => v % n = v
  <2>1. v = n * 0 + v  BY <1>1
  <2> QED BY <2>1, <1>1, DivModIs
<1>7. v * u \in Value68 <=> v \in 0..(n - 1)
  <2>1. v * u \in Value68 <=> (0 * u <= v * u /\ v * u < n * u)  BY <1>1, <1>3 DEF Value68
  <2>2. (0 * u <= v * u <=> 0 <= v) /\ (v * u < n * u <=> v < n)  BY <1>1, ScaledOrder
  <2> QED BY <2>1, <2>2, <1>1
<1> QED BY <1>1, <1>2, <1>3, <1>4, <1>5, <1>6, <1>7 DEF n, u

LEMMA ScaledSign ==
  ASSUME NEW z \in Size, NEW v \in 0..(Full(z) - 1)
  PROVE  /\ Msb(v * Unit(z)) <=> 2 * v >= Full(z)
         /\ Signed(v * Unit(z)) = SignedOf(v, z) * Unit(z)
         /\ SignedOf(v, z) = IF 2 * v >= Full(z) THEN v - Full(z) ELSE v
<1> DEFINE h == Pow2[Bits[z] - 1]
           n == Full(z)
           u == Unit(z)
<1>1. /\ h \in Nat \ {0} /\ n = 2 * h /\ HALF = h * u /\ u \in Nat \ {0} /\ n * u = M
      /\ n \in Nat \ {0}
  BY Widths
<1> HIDE DEF n, u, h
<1>2. v \in Int /\ v * u \in Int  BY <1>1 DEF n
<1>3. v * u < h * u <=> v < h  BY <1>1, <1>2, ScaledOrder
<1>4. Msb(v * u) <=> 2 * v >= n  BY <1>1, <1>2, <1>3 DEF Msb
<1>5. SignedOf(v, z) = IF 2 * v >= n THEN v - n ELSE v  BY <1>1, <1>2 DEF SignedOf, n
<1>6. (v - n) * u = v * u - n * u  BY <1>1, <1>2
<1>7. Signed(v * u) = IF 2 * v >= n THEN v * u - M ELSE v * u
  BY <1>1, <1>2, <1>3 DEF Signed
<1>8. Signed(v * u) = SignedOf(v, z) * u  BY <1>1, <1>5, <1>6, <1>7
<1> QED BY <1>4, <1>5, <1>8 DEF n, u

(* What reaches the operations of the ALU.                                 *)
LEMMA UpIs ==
  ASSUME NEW z \in Size, NEW v \in Int
  PROVE  Up(v, z) = (v % Full(z)) * Unit(z) /\ Up(v, z) \in Value68 /\ Up(v, z) \in Int
<1>1. v % Full(z) \in 0..(Full(z) - 1) /\ v % Full(z) \in Int  BY Scaled
<1> QED BY <1>1, Scaled DEF Up

(* Whether a number fits its size.                                         *)
LEMMA ScaledFits ==
  ASSUME NEW z \in Size, NEW i \in Int
  PROVE  /\ Fits(i * Unit(z)) <=> i \in 0..(Full(z) - 1)
         /\ SignedFits(i * Unit(z)) <=> 2 * i \in (-Full(z))..(Full(z) - 1)
<1> DEFINE h == Pow2[Bits[z] - 1]
           n == Full(z)
           u == Unit(z)
<1>1. /\ h \in Nat \ {0} /\ n = 2 * h /\ HALF = h * u /\ u \in Nat \ {0} /\ n * u = M
      /\ n \in Nat \ {0}
  BY Widths
<1>2. Fits(i * u) <=> i \in 0..(n - 1)  BY Scaled DEF Fits
<1> HIDE DEF n, u, h
<1>3. i * u \in Int /\ (i * u < h * u <=> i < h) /\ ((-h) * u <= i * u <=> -h <= i)
  BY <1>1, ScaledOrder
<1>4. (-h) * u = -(h * u) /\ h * u \in Int  BY <1>1
<1>5. SignedFits(i * u) <=> (-h <= i /\ i < h)  BY <1>1, <1>3, <1>4 DEF SignedFits
<1> QED BY <1>1, <1>2, <1>5 DEF n, u

-----------------------------------------------------------------------------
(* The sums and differences of operands of a size, X worth 0 or 1 of it.   *)

(* r is what u wraps to, the flags f say whether u and the signed i fit.   *)
SumOf(z, r, f, u, i) ==
  /\ r = u % Full(z)
  /\ f.c <=> u \notin 0..(Full(z) - 1)
  /\ f.x <=> u \notin 0..(Full(z) - 1)
  /\ f.v <=> 2 * i \notin (-Full(z))..(Full(z) - 1)
  /\ f.n <=> 2 * r >= Full(z)
  /\ f.z <=> r = 0
  /\ f \in Flags

LEMMA ScaledRoom ==
  ASSUME NEW z \in Size, NEW s \in 0..(Full(z) - 1), NEW x \in {0, 1}
  PROVE  s * Unit(z) \in Value68 /\ x * Unit(z) \in Nat /\ Room(s * Unit(z), x * Unit(z))
<1> DEFINE h == Pow2[Bits[z] - 1]
           n == Full(z)
           u == Unit(z)
<1>1. h \in Nat \ {0} /\ n = 2 * h /\ HALF = h * u /\ u \in Nat \ {0} /\ n \in Nat \ {0}  BY Widths
<1>2. s * u \in Value68 /\ s * u \in Int  BY <1>1, Scaled
<1> HIDE DEF n, u, h
<1>3. u * s \in Value68 /\ HALF = u * h /\ u * s = s * u  BY <1>1, <1>2 DEF n
<1>4. Room(u * s, u)
  <2>1. s \in Nat /\ h \in Nat  BY <1>1 DEF n
  <2> QED BY <1>1, <1>3, <2>1, AlignedHasRoom
<1>5. Room(s * u, u) /\ s * u \in Int  BY <1>2, <1>3, <1>4
<1>6. Room(s * u, 0)  BY <1>1, <1>5, Halves DEF Room
<1>7. 0 * u = 0 /\ 1 * u = u  BY <1>1
<1>8. CASE x = 0  BY <1>1, <1>2, <1>6, <1>7, <1>8 DEF u
<1>9. CASE x = 1  BY <1>1, <1>2, <1>5, <1>7, <1>9 DEF u
<1> QED BY <1>8, <1>9

(* A result r u of the ALU, its sign and whether it is 0.                  *)
LEMMA ScaledResult ==
  ASSUME NEW z \in Size, NEW r \in 0..(Full(z) - 1)
  PROVE  /\ Down(r * Unit(z), z) = r
         /\ Msb(r * Unit(z)) <=> 2 * r >= Full(z)
         /\ r * Unit(z) = 0 <=> r = 0
         /\ r * Unit(z) \in Value68
<1>1. r \in Int /\ 0 * Unit(z) = 0 /\ Unit(z) \in Nat \ {0} /\ Full(z) \in Nat \ {0}  BY Widths
<1>2. r * Unit(z) = 0 * Unit(z) <=> r = 0  BY <1>1, ScaledOrder
<1> QED BY <1>1, <1>2, Scaled, ScaledSign

(* What add68() makes of a sum.                                            *)
AddedUp(a, i) ==
  /\ a.r = i % M /\ a.f.n = Msb(a.r) /\ a.f.z = (a.r = 0)
  /\ a.f.x = a.f.c /\ a.f \in Flags

LEMMA AddsUp ==
  ASSUME NEW s, NEW d, NEW x
  PROVE  AddedUp(Add68(s, d, x), s + d + x)
<1> DEFINE i == s + d + x
           r == i % M
           carry == Msb(r) # ((Msb(s) # Msb(r)) \/ (Msb(d) # Msb(r)))
           v == Msb(s) # Msb(r) /\ Msb(d) # Msb(r)
           N == Msb(r)
           Z == r = 0
           a == [r |-> r, f |-> [x |-> carry, n |-> N, z |-> Z, v |-> v, c |-> carry]]
<1>1. Add68(s, d, x) = a  BY Zenon DEF Add68
<1>2. carry \in BOOLEAN /\ v \in BOOLEAN /\ Z \in BOOLEAN  OBVIOUS
<1>3. N \in BOOLEAN  BY DEF Msb
<1>4. r = i % M /\ N = Msb(r) /\ Z = (r = 0)  OBVIOUS
<1> HIDE DEF i, r, carry, v, N, Z
<1>5. a.r = r /\ a.f.n = N /\ a.f.z = Z /\ a.f.x = carry /\ a.f.c = carry  OBVIOUS
<1>6. a.f \in Flags  BY <1>2, <1>3 DEF Flags
<1> HIDE DEF a
<1>7. AddedUp(a, i)  BY <1>4, <1>5, <1>6, Zenon DEF AddedUp
<1> QED BY <1>1, <1>7, Zenon DEF i

LEMMA AddAtSize ==
  ASSUME NEW z \in Size, NEW s \in 0..(Full(z) - 1), NEW d \in 0..(Full(z) - 1), NEW x \in {0, 1}
  PROVE  LET a == Add68(s * Unit(z), d * Unit(z), x * Unit(z))
         IN  SumOf(z, Down(a.r, z), a.f, s + d + x, SignedOf(s, z) + SignedOf(d, z) + x)
<1> DEFINE n == Full(z)
           u == Unit(z)
           S == s * u
           D == d * u
           X == x * u
           a == Add68(S, D, X)
           t == s + d + x
           i == SignedOf(s, z) + SignedOf(d, z) + x
<1>1. n \in Nat \ {0} /\ u \in Nat \ {0} /\ t \in Int  BY Widths
<1>2. S \in Value68 /\ D \in Value68 /\ X \in Nat /\ Room(S, X)  BY ScaledRoom
<1>3. S + D + X = t * u
  <2> HIDE DEF u
  <2> QED BY <1>1
<1>4. SignedOf(s, z) \in Int /\ SignedOf(d, z) \in Int /\ i \in Int
  <2> HIDE DEF u
  <2> QED BY <1>1, ScaledSign
<1>5. Signed(S) + Signed(D) + X = i * u
  <2>1. Signed(S) = SignedOf(s, z) * u /\ Signed(D) = SignedOf(d, z) * u  BY ScaledSign
  <2> HIDE DEF u, S, D
  <2> QED BY <1>1, <1>4, <2>1
<1>6. a.r = (S + D + X) % M /\ a.f.n = Msb(a.r) /\ a.f.z = (a.r = 0) /\ a.f.x = a.f.c /\ a.f \in Flags
  <2>1. AddedUp(a, S + D + X)  BY AddsUp, Zenon
  <2> HIDE DEF a, S, D, X
  <2> QED BY <2>1, Zenon DEF AddedUp
<1>7. /\ a.f.c <=> ~Fits(S + D + X)
      /\ a.f.v <=> ~SignedFits(Signed(S) + Signed(D) + X)
  BY <1>2, AddExact
<1> HIDE DEF a, S, D, X, t, i
<1>8. a.r = (t % n) * u /\ t % n \in 0..(n - 1)  BY <1>1, <1>3, <1>6, Scaled
<1>9. /\ a.f.c <=> ~(t \in 0..(n - 1))
      /\ a.f.v <=> ~(2 * i \in (-n)..(n - 1))
  BY <1>1, <1>3, <1>4, <1>5, <1>7, ScaledFits
<1> HIDE DEF n, u
<1>10. Down(a.r, z) = t % n /\ (Msb(a.r) <=> 2 * (t % n) >= n) /\ (a.r = 0 <=> t % n = 0)
  BY <1>8, ScaledResult DEF n, u
<1>11. SumOf(z, Down(a.r, z), a.f, t, i)  BY <1>6, <1>9, <1>10, Zenon DEF SumOf, n
<1> QED BY <1>11 DEF a, S, D, X, t, i, u

LEMMA SubAtSize ==
  ASSUME NEW z \in Size, NEW s \in 0..(Full(z) - 1), NEW d \in 0..(Full(z) - 1), NEW x \in {0, 1}
  PROVE  LET a == Sub68(s * Unit(z), d * Unit(z), x * Unit(z))
         IN  SumOf(z, Down(a.r, z), a.f, d - s - x, SignedOf(d, z) - SignedOf(s, z) - x)
<1> DEFINE n == Full(z)
           u == Unit(z)
           S == s * u
           D == d * u
           X == x * u
           a == Sub68(S, D, X)
           t == d - s - x
           i == SignedOf(d, z) - SignedOf(s, z) - x
<1>1. n \in Nat \ {0} /\ u \in Nat \ {0} /\ t \in Int  BY Widths
<1>2. S \in Value68 /\ D \in Value68 /\ X \in Nat /\ Room(S, X)  BY ScaledRoom
<1>3. D - S - X = t * u
  <2> HIDE DEF u
  <2> QED BY <1>1
<1>4. SignedOf(s, z) \in Int /\ SignedOf(d, z) \in Int /\ i \in Int
  <2> HIDE DEF u
  <2> QED BY <1>1, ScaledSign
<1>5. Signed(D) - Signed(S) - X = i * u
  <2>1. Signed(S) = SignedOf(s, z) * u /\ Signed(D) = SignedOf(d, z) * u  BY ScaledSign
  <2> HIDE DEF u, S, D
  <2> QED BY <1>1, <1>4, <2>1
<1>6. a.r = (D - S - X) % M /\ a.f.n = Msb(a.r) /\ a.f.z = (a.r = 0) /\ a.f.x = a.f.c /\ a.f \in Flags
  BY DEF Sub68, Flags, Msb
<1>7. /\ a.f.c <=> ~Fits(D - S - X)
      /\ a.f.v <=> ~SignedFits(Signed(D) - Signed(S) - X)
  BY <1>2, SubExact
<1> HIDE DEF a, S, D, X, t, i
<1>8. a.r = (t % n) * u /\ t % n \in 0..(n - 1)  BY <1>1, <1>3, <1>6, Scaled
<1>9. /\ a.f.c <=> ~(t \in 0..(n - 1))
      /\ a.f.v <=> ~(2 * i \in (-n)..(n - 1))
  BY <1>1, <1>3, <1>4, <1>5, <1>7, ScaledFits
<1> HIDE DEF n, u
<1>10. Down(a.r, z) = t % n /\ (Msb(a.r) <=> 2 * (t % n) >= n) /\ (a.r = 0 <=> t % n = 0)
  BY <1>8, ScaledResult DEF n, u
<1>11. SumOf(z, Down(a.r, z), a.f, t, i)  BY <1>6, <1>9, <1>10, Zenon DEF SumOf, n
<1> QED BY <1>11 DEF a, S, D, X, t, i, u

LEMMA NegAtSize ==
  ASSUME NEW z \in Size, NEW d \in 0..(Full(z) - 1), NEW x \in {0, 1}
  PROVE  LET a == Neg68(d * Unit(z), x * Unit(z))
         IN  SumOf(z, Down(a.r, z), a.f, -d - x, -SignedOf(d, z) - x)
<1> DEFINE n == Full(z)
           u == Unit(z)
           D == d * u
           X == x * u
           a == Neg68(D, X)
           t == -d - x
           i == -SignedOf(d, z) - x
<1>1. n \in Nat \ {0} /\ u \in Nat \ {0} /\ t \in Int  BY Widths
<1>2. D \in Value68 /\ X \in Nat /\ Room(D, X)  BY ScaledRoom
<1>3. -D - X = t * u
  <2> HIDE DEF u
  <2> QED BY <1>1
<1>4. SignedOf(d, z) \in Int /\ i \in Int
  <2> HIDE DEF u
  <2> QED BY <1>1, ScaledSign
<1>5. -Signed(D) - X = i * u
  <2>1. Signed(D) = SignedOf(d, z) * u  BY ScaledSign
  <2> HIDE DEF u, D
  <2> QED BY <1>1, <1>4, <2>1
<1>6. a.r = (-D - X) % M /\ a.f.n = Msb(a.r) /\ a.f.z = (a.r = 0) /\ a.f.x = a.f.c /\ a.f \in Flags
  BY DEF Neg68, Flags, Msb
<1>7. /\ a.f.c <=> ~Fits(-D - X)
      /\ a.f.v <=> ~SignedFits(-Signed(D) - X)
  BY <1>2, NegExact
<1> HIDE DEF a, D, X, t, i
<1>8. a.r = (t % n) * u /\ t % n \in 0..(n - 1)  BY <1>1, <1>3, <1>6, Scaled
<1>9. /\ a.f.c <=> ~(t \in 0..(n - 1))
      /\ a.f.v <=> ~(2 * i \in (-n)..(n - 1))
  BY <1>1, <1>3, <1>4, <1>5, <1>7, ScaledFits
<1> HIDE DEF n, u
<1>10. Down(a.r, z) = t % n /\ (Msb(a.r) <=> 2 * (t % n) >= n) /\ (a.r = 0 <=> t % n = 0)
  BY <1>8, ScaledResult DEF n, u
<1>11. SumOf(z, Down(a.r, z), a.f, t, i)  BY <1>6, <1>9, <1>10, Zenon DEF SumOf, n
<1> QED BY <1>11 DEF a, D, X, t, i, u

-----------------------------------------------------------------------------
(* Divisions.                                                              *)

(* d by s is a with the remainder b: smaller than s, with the sign of d.   *)
DividesInto(d, s, a, b) ==
  /\ a * s + b = d /\ Magnitude(b) < Magnitude(s)
  /\ b < 0 => d < 0
  /\ b > 0 => d > 0

Truncated(d, s) ==
  IF (d < 0) = (s < 0) THEN Magnitude(d) \div Magnitude(s) ELSE -(Magnitude(d) \div Magnitude(s))

LEMMA TruncatedIs ==
  ASSUME NEW d \in Int, NEW s \in Int \ {0}
  PROVE  /\ Truncated(d, s) \in Int /\ d - s * Truncated(d, s) \in Int
         /\ DividesInto(d, s, Truncated(d, s), d - s * Truncated(d, s))
         /\ \A a, b \in Int : DividesInto(d, s, a, b) => a = Truncated(d, s)
<1> DEFINE D == Magnitude(d)
           S == Magnitude(s)
           q == D \div S
           r == D % S
           t == Truncated(d, s)
           b0 == d - s * t
<1>1. /\ D \in Nat /\ S \in Nat \ {0}
      /\ D = IF d < 0 THEN -d ELSE d
      /\ S = IF s < 0 THEN -s ELSE s
  BY DEF Magnitude
<1> HIDE DEF D, S
<1>2. q \in Nat /\ D = S * q + r /\ r \in 0..(S - 1)
  <2>1. D \in Int /\ D >= 0  BY <1>1
  <2> QED BY <1>1, <2>1, DivMod
<1>3. t = IF (d < 0 /\ s < 0) \/ (~(d < 0) /\ ~(s < 0)) THEN q ELSE -q
  <2>1. CASE d < 0 /\ s < 0
    <3>1. (d < 0) = (s < 0)  BY <2>1
    <3> QED BY <2>1, <3>1 DEF Truncated, D, S
  <2>2. CASE ~(d < 0) /\ ~(s < 0)
    <3>1. (d < 0) = (s < 0)  BY <2>2
    <3> QED BY <2>2, <3>1 DEF Truncated, D, S
  <2>3. CASE d < 0 /\ ~(s < 0)
    <3>1. (d < 0) # (s < 0)  BY <2>3
    <3> QED BY <2>3, <3>1 DEF Truncated, D, S
  <2>4. CASE ~(d < 0) /\ s < 0
    <3>1. (d < 0) # (s < 0)  BY <2>4
    <3> QED BY <2>4, <3>1 DEF Truncated, D, S
  <2> QED BY <2>1, <2>2, <2>3, <2>4
<1> HIDE DEF q, r, t
<1>4. t \in Int /\ b0 \in Int /\ b0 = IF d < 0 THEN -r ELSE r
  <2>1. t \in Int /\ s * t \in Int  BY <1>2, <1>3
  <2>2. s * t = IF d < 0 THEN -(S * q) ELSE S * q
    <3>1. CASE d < 0 /\ s < 0
      <4>1. t = q  BY <1>3, <3>1
      <4>2. S = -s  BY <1>1, <3>1
      <4> QED BY <1>2, <3>1, <4>1, <4>2
    <3>2. CASE ~(d < 0) /\ ~(s < 0)
      <4>1. t = q /\ S = s  BY <1>1, <1>3, <3>2
      <4> QED BY <1>2, <3>2, <4>1
    <3>3. CASE d < 0 /\ ~(s < 0)
      <4>1. t = -q /\ S = s  BY <1>1, <1>3, <3>3
      <4> QED BY <1>2, <3>3, <4>1
    <3>4. CASE ~(d < 0) /\ s < 0
      <4>1. t = -q /\ S = -s  BY <1>1, <1>3, <3>4
      <4> QED BY <1>2, <3>4, <4>1
    <3> QED BY <3>1, <3>2, <3>3, <3>4
  <2>3. S * q \in Int  BY <1>1, <1>2
  <2> QED BY <1>1, <1>2, <2>1, <2>2, <2>3
<1> HIDE DEF b0
<1>5. Magnitude(b0) < S /\ (b0 < 0 => d < 0) /\ (b0 > 0 => d > 0)
  <2>1. d > 0 \/ d < 0 \/ r = 0
    <3>1. CASE d = 0
      <4>1. D = 0  BY <1>1, <3>1
      <4>2. S * q >= 0 /\ S * q \in Int  BY <1>1, <1>2
      <4> QED BY <1>2, <4>1, <4>2
    <3> QED BY <3>1
  <2> QED BY <1>1, <1>2, <1>4, <2>1 DEF Magnitude
<1>6. t * s + b0 = d
  <2>1. t * s = s * t /\ s * t \in Int  BY <1>4
  <2> QED BY <2>1 DEF b0
<1>7. ASSUME NEW a \in Int, NEW b \in Int, DividesInto(d, s, a, b) PROVE a = t
  <2>1. a * s + b = d /\ Magnitude(b) < S /\ (b < 0 => d < 0) /\ (b > 0 => d > 0)
    BY <1>7 DEF DividesInto, S
  <2>2. b - b0 \in (1 - S)..(S - 1)  BY <1>1, <1>4, <1>5, <2>1 DEF Magnitude
  <2>3. (t - a) * s = b - b0
    <3>1. (t - a) * s = t * s - a * s /\ t * s \in Int /\ a * s \in Int  BY <1>4
    <3> QED BY <1>4, <1>6, <2>1, <3>1
  <2>4. S * (t - a) = b - b0 \/ S * (a - t) = b - b0
    <3>1. CASE s < 0
      <4>1. S = -s  BY <1>1, <3>1
      <4>2. (-s) * (a - t) = (t - a) * s  BY <1>4
      <4> QED BY <2>3, <4>1, <4>2
    <3>2. CASE ~(s < 0)
      <4>1. S = s  BY <1>1, <3>2
      <4>2. s * (t - a) = (t - a) * s  BY <1>4
      <4> QED BY <2>3, <4>1, <4>2
    <3> QED BY <3>1, <3>2
  <2>5. t - a = 0 \/ a - t = 0
    <3>1. t - a \in Int /\ a - t \in Int  BY <1>4
    <3> QED BY <1>1, <2>2, <2>4, <3>1, NoMultiple
  <2> QED BY <1>4, <2>5
<1>8. DividesInto(d, s, t, b0)  BY <1>5, <1>6 DEF DividesInto, S
<1> QED BY <1>4, <1>7, <1>8 DEF t, b0

LEMMA LongIsWords ==
  /\ Full("w") \in Nat \ {0} /\ Full("l") = Full("w") * Full("w") /\ Full("w") = Full("b") * Full("b")
  /\ Full("b") \in Nat \ {0} /\ Full("l") \in Nat \ {0}
<1>1. "b" \in Size /\ "w" \in Size /\ "l" \in Size  BY DEF Size
<1>2. Bits["b"] \in Nat /\ Bits["w"] = Bits["b"] + Bits["b"] /\ Bits["l"] = Bits["w"] + Bits["w"]
  BY <1>1, Widths, AluAssumption
<1>3. Bits["w"] \in Nat  BY <1>2
<1>4. Full("b") \in Nat \ {0} /\ Full("w") \in Nat \ {0} /\ Full("l") \in Nat \ {0}  BY <1>1, Widths
<1>5. Full("w") = Full("b") * Full("b")
  <2>1. Pow2[Bits["b"] + Bits["b"]] = Pow2[Bits["b"]] * Pow2[Bits["b"]]  BY <1>2, Pow2Sum
  <2> QED BY <1>2, <2>1, Zenon DEF Full
<1>6. Full("l") = Full("w") * Full("w")
  <2>1. Pow2[Bits["w"] + Bits["w"]] = Pow2[Bits["w"]] * Pow2[Bits["w"]]  BY <1>3, Pow2Sum
  <2> QED BY <1>2, <2>1, Zenon DEF Full
<1> QED BY <1>4, <1>5, <1>6

(* Two words make a long.                                                  *)
LEMMA TwoWords ==
  ASSUME NEW h \in 0..(Full("w") - 1), NEW v \in 0..(Full("w") - 1)
  PROVE  /\ h * Full("w") + v \in 0..(Full("l") - 1)
         /\ (h * Full("w") + v) % Full("w") = v
         /\ (h * Full("w") + v) \div Full("w") = h
<1> DEFINE W == Full("w")
           t == h * W + v
<1>1. W \in Nat \ {0} /\ Full("l") = W * W  BY LongIsWords
<1> HIDE DEF W
<1>2. h \in Nat /\ v \in 0..(W - 1) /\ h <= W - 1 /\ h * W = W * h  BY <1>1 DEF W
<1>3. W * h <= W * (W - 1)  BY <1>1, <1>2
<1>4. W * (W - 1) = W * W - W /\ W * W \in Int /\ W * h \in Nat  BY <1>1, <1>2
<1>5. t \in Int /\ t = W * h + v  BY <1>2, <1>4
<1>6. t \in 0..(Full("l") - 1)  BY <1>1, <1>2, <1>3, <1>4, <1>5
<1> HIDE DEF t
<1>7. t % W = v /\ t \div W = h
  <2>1. W \in Nat \ {0} /\ t \in Int /\ h \in Int /\ v \in 0..(W - 1) /\ t = W * h + v
    BY <1>1, <1>2, <1>5
  <2> QED BY <2>1, DivModIs, Zenon
<1> QED BY <1>6, <1>7 DEF W, t

(* inl_divu68() and inl_divs68(): the result, if it fits.                  *)
LEMMA QuotientIs ==
  ASSUME NEW d \in 0..(Full("l") - 1), NEW rem \in Int, NEW res \in Int, NEW fits \in BOOLEAN,
         NEW f \in Flags
  PROVE  LET q == Quotient(Up(d, "l"), rem, res, fits, f)
             r == Down(q.r, "l")
         IN  /\ r \in 0..(Full("l") - 1) /\ q.f \in Flags /\ q.f.x = f.x
             /\ q.f.v <=> ~fits
             /\ fits => /\ r % Full("w") = res % Full("w")
                        /\ r \div Full("w") = rem % Full("w")
             /\ ~fits => r = d
             /\ q.f.z <=> res = 0
             /\ q.f.n <=> 2 * (res % Full("w")) >= Full("w")
<1> DEFINE W == Full("w")
           L == Full("l")
           q == Quotient(Up(d, "l"), rem, res, fits, f)
           both == (rem % W) * W + (res % W)
           neg == 2 * (res % W) >= W
           nil == (res = 0)
           over == ~fits
<1>1. "l" \in Size /\ W \in Nat \ {0} /\ L \in Nat \ {0}  BY LongIsWords DEF Size
<1>2. rem % W \in 0..(W - 1) /\ res % W \in 0..(W - 1)  BY <1>1, DivMod
<1>3. both \in 0..(L - 1) /\ both % W = res % W /\ both \div W = rem % W  BY <1>2, TwoWords
<1>4. q.f = [x |-> f.x, n |-> neg, z |-> nil, v |-> over, c |-> FALSE]
  BY DEF Quotient
<1>0. over \in BOOLEAN /\ neg \in BOOLEAN /\ nil \in BOOLEAN /\ f.x \in BOOLEAN  BY DEF Flags
<1>6. q.r = IF fits THEN Up(both, "l") ELSE Up(d, "l")  BY DEF Quotient
<1> HIDE DEF q, both, neg, nil, over
<1>5. q.f \in Flags  BY <1>0, <1>4 DEF Flags
<1>7. \A v \in 0..(L - 1) : Down(Up(v, "l"), "l") = v
  <2> TAKE v \in 0..(L - 1)
  <2>1. v \in Int /\ v % L = v  BY <1>1, Scaled
  <2>2. Up(v, "l") = v * Unit("l")  BY <1>1, <2>1, UpIs
  <2> QED BY <1>1, <2>1, <2>2, Scaled
<1>8. Down(q.r, "l") = IF fits THEN both ELSE d  BY <1>3, <1>6, <1>7
<1>9. d \in 0..(L - 1)  OBVIOUS
<1>10. q.f.v = over /\ q.f.z = nil /\ q.f.n = neg /\ q.f.x = f.x
  BY <1>4
<1> HIDE DEF W, L
<1> QED BY <1>3, <1>5, <1>8, <1>9, <1>10, Zenon DEF q, W, L, neg, nil, over

(* The signed number of a value and back.                                  *)
LEMMA SignedRange ==
  ASSUME NEW z \in Size, NEW v \in 0..(Full(z) - 1)
  PROVE  /\ SignedOf(v, z) \in Int
         /\ 2 * SignedOf(v, z) \in (-Full(z))..(Full(z) - 1)
         /\ SignedOf(v, z) % Full(z) = v
         /\ SignedOf(v, z) = 0 <=> v = 0
<1> DEFINE n == Full(z)
           h == Pow2[Bits[z] - 1]
<1>1. n \in Nat \ {0} /\ n = 2 * h /\ h \in Nat \ {0}  BY Widths
<1>2. SignedOf(v, z) = IF 2 * v >= n THEN v - n ELSE v  BY ScaledSign
<1> HIDE DEF n, h
<1>3. v \in 0..(n - 1)  BY DEF n
<1>4. SignedOf(v, z) \in Int /\ 2 * SignedOf(v, z) \in (-n)..(n - 1) /\ (SignedOf(v, z) = 0 <=> v = 0)
  BY <1>1, <1>2, <1>3
<1>5. SignedOf(v, z) % n = v
  <2>1. v = n * 0 + v /\ v - n = n * (-1) + v /\ v \in Int  BY <1>1, <1>3
  <2>2. v % n = v /\ (v - n) % n = v
    <3>1. v - n \in Int /\ -1 \in Int /\ 0 \in Int  BY <1>1, <2>1
    <3> QED BY <1>1, <1>3, <2>1, <3>1, DivModIs
  <2> QED BY <1>2, <2>2
<1> QED BY <1>4, <1>5 DEF n

LEMMA SignedMod ==
  ASSUME NEW z \in Size, NEW i \in Int, 2 * i \in (-Full(z))..(Full(z) - 1)
  PROVE  SignedOf(i % Full(z), z) = i
<1> DEFINE n == Full(z)
<1>1. n \in Nat \ {0}  BY Widths
<1>2. i % n \in 0..(n - 1)  BY <1>1, DivMod
<1>3. SignedOf(i % n, z) = IF 2 * (i % n) >= n THEN (i % n) - n ELSE i % n  BY <1>2, ScaledSign
<1> HIDE DEF n
<1>4. 2 * i \in (-n)..(n - 1)  BY DEF n
<1>5. CASE i >= 0
  <2>1. i = n * 0 + i /\ i \in 0..(n - 1)  BY <1>1, <1>4, <1>5
  <2>2. i % n = i  BY <1>1, <2>1, DivModIs
  <2> QED BY <1>1, <1>3, <1>4, <2>2 DEF n
<1>6. CASE i < 0
  <2>1. i = n * (-1) + (i + n) /\ i + n \in 0..(n - 1)  BY <1>1, <1>4, <1>6
  <2>2. i % n = i + n
    <3> DEFINE q == -1
               r == i + n
    <3>1. q \in Int /\ r \in 0..(n - 1) /\ i = n * q + r  BY <2>1
    <3> HIDE DEF q, r
    <3>2. i % n = r  BY <1>1, <3>1, DivModIs
    <3> QED BY <3>2 DEF r
  <2> QED BY <1>1, <1>3, <1>4, <1>6, <2>2 DEF n
<1> QED BY <1>5, <1>6

(* inl_divu68(): V is set when the quotient is no word, and the            *)
(* destination is kept; if not, the result holds the quotient and the      *)
(* remainder, Z and N are those of the quotient.                           *)
THEOREM DivuExact ==
  ASSUME NEW s \in 1..(Full("w") - 1), NEW d \in 0..(Full("l") - 1), NEW f \in Flags
  PROVE  LET a == Divu68(Up(s, "w"), Up(d, "l"), f)
             r == Down(a.r, "l")
         IN  /\ r \in 0..(Full("l") - 1) /\ a.f \in Flags /\ a.f.x = f.x
             /\ a.f.v => r = d /\ \A p \in 0..(Full("w") - 1) : ~DividesInto(d, s, p, d - p * s)
             /\ ~a.f.v => /\ DividesInto(d, s, r % Full("w"), r \div Full("w"))
                          /\ a.f.z <=> r % Full("w") = 0
                          /\ a.f.n <=> 2 * (r % Full("w")) >= Full("w")
<1> DEFINE W == Full("w")
           L == Full("l")
           a == Divu68(Up(s, "w"), Up(d, "l"), f)
           r == Down(a.r, "l")
           q == d \div s
           rem == d % s
           fits == q < W
<1>1. "l" \in Size /\ "w" \in Size /\ W \in Nat \ {0} /\ L \in Nat \ {0}  BY LongIsWords DEF Size
<1>2. s \in Int \ {0} /\ s \in Nat \ {0} /\ d \in Int /\ d >= 0 /\ s \in 0..(W - 1)  BY <1>1
<1>3. Down(Up(d, "l"), "l") = d /\ Down(Up(s, "w"), "w") = s  BY <1>1, <1>2, Scaled, UpIs
<1>4. a = Quotient(Up(d, "l"), rem, q, fits, f)  BY <1>3, Zenon DEF Divu68
<1>5. q \in Nat /\ d = s * q + rem /\ rem \in 0..(s - 1)  BY <1>2, DivMod
<1>6. fits \in BOOLEAN  OBVIOUS
<1> HIDE DEF a, fits, q, rem
<1>7. /\ r \in 0..(L - 1) /\ a.f \in Flags /\ a.f.x = f.x
      /\ a.f.v <=> ~fits
      /\ fits => r % W = q % W /\ r \div W = rem % W
      /\ ~fits => r = d
      /\ a.f.z <=> q = 0
      /\ a.f.n <=> 2 * (q % W) >= W
  BY <1>4, <1>5, <1>6, QuotientIs
<1> HIDE DEF r, W, L
<1>8. fits => q % W = q /\ rem % W = rem
  <2>1. fits => q \in 0..(W - 1)  BY <1>1, <1>5 DEF fits
  <2>2. rem \in 0..(W - 1)  BY <1>1, <1>2, <1>5
  <2> QED BY <1>1, <1>5, <2>1, <2>2, Scaled DEF W
<1>9. Truncated(d, s) = q
  <2>1. Magnitude(d) = d /\ Magnitude(s) = s /\ (d < 0) = (s < 0)  BY <1>2 DEF Magnitude
  <2> QED BY <2>1 DEF Truncated, q
<1>10. d - s * q = rem
  <2>1. s * q \in Int  BY <1>2, <1>5
  <2> QED BY <1>5, <2>1
<1>11. DividesInto(d, s, q, rem) /\ \A p, b \in Int : DividesInto(d, s, p, b) => p = q
  BY <1>2, <1>9, <1>10, TruncatedIs
<1>12. ~fits => \A p \in 0..(W - 1) : ~DividesInto(d, s, p, d - p * s)
  <2> SUFFICES ASSUME ~fits, NEW p \in 0..(W - 1), DividesInto(d, s, p, d - p * s) PROVE FALSE
    OBVIOUS
  <2>1. p \in Int /\ d - p * s \in Int /\ p < W  BY <1>1, <1>2
  <2> QED BY <1>11, <2>1 DEF fits
<1>13. fits => r % W = q /\ r \div W = rem  BY <1>7, <1>8
<1> QED BY <1>7, <1>11, <1>12, <1>13, Zenon DEF r, a, W, L

(* inl_divs68(): the same of signed numbers, the remainder with the sign   *)
(* of the dividend.                                                        *)
THEOREM DivsExact ==
  ASSUME NEW s \in 1..(Full("w") - 1), NEW d \in 0..(Full("l") - 1), NEW f \in Flags
  PROVE  LET a == Divs68(Up(s, "w"), Up(d, "l"), f)
             r == Down(a.r, "l")
             D == SignedOf(d, "l")
             S == SignedOf(s, "w")
             Q == SignedOf(r % Full("w"), "w")
         IN  /\ r \in 0..(Full("l") - 1) /\ a.f \in Flags /\ a.f.x = f.x
             /\ a.f.v => /\ r = d
                         /\ \A v \in 0..(Full("w") - 1) :
                              ~DividesInto(D, S, SignedOf(v, "w"), D - SignedOf(v, "w") * S)
             /\ ~a.f.v => /\ DividesInto(D, S, Q, SignedOf(r \div Full("w"), "w"))
                          /\ a.f.z <=> Q = 0
                          /\ a.f.n <=> 2 * (r % Full("w")) >= Full("w")
<1> DEFINE W == Full("w")
           L == Full("l")
           a == Divs68(Up(s, "w"), Up(d, "l"), f)
           r == Down(a.r, "l")
           D == SignedOf(d, "l")
           S == SignedOf(s, "w")
           q == Truncated(D, S)
           rem == D - S * q
           fits == 2 * q \in (-W)..(W - 1)
<1>1. "l" \in Size /\ "w" \in Size /\ W \in Nat \ {0} /\ L \in Nat \ {0}  BY LongIsWords DEF Size
<1>2. s \in Int /\ s # 0 /\ d \in Int /\ s \in 0..(W - 1)  BY <1>1
<1>3. D \in Int /\ S \in Int \ {0} /\ 2 * S \in (-W)..(W - 1)
  <2>1. s = 0 <=> S = 0  BY <1>1, <1>2, SignedRange
  <2> QED BY <1>1, <1>2, <2>1, SignedRange
<1>4. Down(Up(d, "l"), "l") = d /\ Down(Up(s, "w"), "w") = s  BY <1>1, <1>2, Scaled, UpIs
<1>5. a = Quotient(Up(d, "l"), rem, q, fits, f)  BY <1>4, Zenon DEF Divs68, Truncated
<1> HIDE DEF D, S
<1>6. /\ q \in Int /\ rem \in Int /\ DividesInto(D, S, q, rem)
      /\ \A p, b \in Int : DividesInto(D, S, p, b) => p = q
  BY <1>3, TruncatedIs
<1>7. fits \in BOOLEAN  OBVIOUS
<1> HIDE DEF a, fits, q, rem
<1>8. /\ r \in 0..(L - 1) /\ a.f \in Flags /\ a.f.x = f.x
      /\ a.f.v <=> ~fits
      /\ fits => r % W = q % W /\ r \div W = rem % W
      /\ ~fits => r = d
      /\ a.f.z <=> q = 0
      /\ a.f.n <=> 2 * (q % W) >= W
  BY <1>5, <1>6, <1>7, QuotientIs
<1> HIDE DEF r, W, L
<1>9. fits => SignedOf(q % W, "w") = q  BY <1>1, <1>6, SignedMod DEF fits, W
<1>10. SignedOf(rem % W, "w") = rem
  <2>1. Magnitude(rem) < Magnitude(S)  BY <1>6 DEF DividesInto
  <2>2. 2 * rem \in (-W)..(W - 1)  BY <1>1, <1>3, <1>6, <2>1 DEF Magnitude
  <2> QED BY <1>1, <1>6, <2>2, SignedMod DEF W
<1>11. ~fits => \A v \in 0..(W - 1) :
         ~DividesInto(D, S, SignedOf(v, "w"), D - SignedOf(v, "w") * S)
  <2> SUFFICES ASSUME ~fits, NEW v \in 0..(W - 1),
                      DividesInto(D, S, SignedOf(v, "w"), D - SignedOf(v, "w") * S)
               PROVE  FALSE
    OBVIOUS
  <2> DEFINE p == SignedOf(v, "w")
  <2>1. p \in Int /\ 2 * p \in (-W)..(W - 1)  BY <1>1, SignedRange DEF W
  <2> HIDE DEF p
  <2>2. D - p * S \in Int  BY <1>3, <2>1
  <2>3. p = q
    <3>1. DividesInto(D, S, p, D - p * S)  BY DEF p
    <3> QED BY <1>6, <2>1, <2>2, <3>1
  <2> QED BY <2>1, <2>3 DEF fits
<1>12. fits => SignedOf(r % W, "w") = q /\ SignedOf(r \div W, "w") = rem /\ r % W = q % W
  BY <1>8, <1>9, <1>10
<1> QED BY <1>6, <1>8, <1>11, <1>12, Zenon DEF r, a, W, L, D, S

-----------------------------------------------------------------------------
(* Shifts of values, and what the shifts of operands make of them.         *)

LEMMA Powers ==
  ASSUME NEW k \in Nat
  PROVE  /\ Pow2[k] \in Nat \ {0} /\ Pow2[k + 1] = 2 * Pow2[k] /\ Pow2[0] = 1
         /\ k >= 1 => k - 1 \in Nat /\ Pow2[k] = 2 * Pow2[k - 1] /\ Pow2[k - 1] \in Nat \ {0}
<1>1. k >= 1 => k - 1 \in Nat /\ k = (k - 1) + 1  OBVIOUS
<1> QED BY <1>1, Pow2Def, Pow2Positive

(* All bits are shifted out.                                               *)
LEMMA ShiftedOut ==
  ASSUME NEW z \in Size, NEW d \in 0..(Full(z) - 1), NEW k \in Nat, k >= Bits[z]
  PROVE  (d * Pow2[k]) % Full(z) = 0 /\ d \div Pow2[k] = 0
<1> DEFINE n == Full(z)
           p == Pow2[k - Bits[z]]
<1>1. k - Bits[z] \in Nat /\ Bits[z] \in Nat /\ k = Bits[z] + (k - Bits[z]) /\ n \in Nat \ {0}
  BY Widths
<1>2. Pow2[k] = n * p /\ p \in Nat \ {0}  BY <1>1, Pow2Sum, Pow2Positive DEF Full
<1> HIDE DEF n, p
<1>3. d \in Nat /\ d < n  BY <1>1 DEF n
<1>4. (d * (n * p)) % n = 0
  <2>1. d * (n * p) = n * (d * p) + 0 /\ 0 \in 0..(n - 1) /\ d * p \in Int /\ d * (n * p) \in Int
    BY <1>1, <1>2, <1>3
  <2> QED BY <1>1, <2>1, DivModIs
<1>5. d \div (n * p) = 0
  <2>1. n * p \in Nat \ {0} /\ n * p >= n  BY <1>1, <1>2, Times
  <2>2. d = (n * p) * 0 + d /\ d \in 0..(n * p - 1)  BY <1>1, <1>3, <2>1
  <2> QED BY <1>3, <2>1, <2>2, DivModIs
<1> QED BY <1>2, <1>4, <1>5 DEF n

(* An operand of d units shifted to the left and to the right by p.        *)
LEMMA ScaledLeft ==
  ASSUME NEW z \in Size, NEW d \in Int, NEW p \in Int
  PROVE  /\ (d * Unit(z) * p) % M = ((d * p) % Full(z)) * Unit(z)
         /\ (d * p) % Full(z) \in 0..(Full(z) - 1)
<1> DEFINE u == Unit(z)
<1>1. u \in Nat \ {0} /\ d * p \in Int  BY Widths
<1> HIDE DEF u
<1>2. d * u * p = (d * p) * u  BY <1>1
<1> QED BY <1>1, <1>2, Scaled DEF u

LEMMA ScaledRight ==
  ASSUME NEW z \in Size, NEW d \in Int, NEW p \in Nat \ {0}
  PROVE  /\ Down((d * Unit(z)) \div p, z) = d \div p
         /\ Aligned((d * Unit(z)) \div p, z) = (d \div p) * Unit(z)
         /\ d \div p \in Int /\ (d * Unit(z)) \div p \in Int
<1> DEFINE u == Unit(z)
<1>1. u \in Nat \ {0} /\ d * u \in Int  BY Widths
<1> HIDE DEF u
<1>2. ((d * u) \div p) \div u = (d * u) \div (p * u)  BY <1>1, DivDiv
<1>3. (d * u) \div (p * u) = d \div p  BY <1>1, Scale
<1>4. ((d * u) \div p) \div u = d \div p  BY <1>2, <1>3
<1>5. d \div p \in Int /\ (d * u) \div p \in Int  BY <1>1, DivMod
<1> QED BY <1>4, <1>5 DEF u, Down, Aligned

(* Twice the remainder.                                                    *)
LEMMA TwiceMod ==
  ASSUME NEW n \in Nat \ {0}, NEW r \in 0..(n - 1)
  PROVE  (2 * r) % n = IF 2 * r >= n THEN 2 * r - n ELSE 2 * r
<1>1. CASE 2 * r >= n
  <2>1. 2 * r = n * 1 + (2 * r - n) /\ 2 * r - n \in 0..(n - 1)  BY <1>1
  <2> QED BY <1>1, <2>1, DivModIs
<1>2. CASE ~(2 * r >= n)
  <2>1. 2 * r = n * 0 + 2 * r /\ 2 * r \in 0..(n - 1)  BY <1>2
  <2> QED BY <1>2, <2>1, DivModIs
<1> QED BY <1>1, <1>2

(* One bit more to the left, and to the right.                             *)
LEMMA OneMoreLeft ==
  ASSUME NEW n \in Nat \ {0}, NEW d \in Int, NEW k \in Nat
  PROVE  (2 * ((d * Pow2[k]) % n)) % n = (d * Pow2[k + 1]) % n
<1>1. Pow2[k] \in Nat /\ Pow2[k + 1] = 2 * Pow2[k]  BY Powers
<1> DEFINE p == Pow2[k]
<1> HIDE DEF p
<1>2. p \in Nat /\ d * p \in Int /\ d * (2 * p) = 2 * (d * p)  BY <1>1 DEF p
<1>3. (2 * ((d * p) % n)) % n = (2 * (d * p)) % n
  <2> DEFINE e == d * p
  <2>1. e \in Int /\ 2 \in Int  BY <1>2
  <2> HIDE DEF e
  <2>2. (2 * (e % n)) % n = (2 * e) % n  BY <2>1, ModTimes
  <2> QED BY <2>2 DEF e
<1> QED BY <1>1, <1>2, <1>3 DEF p

LEMMA OneMoreRight ==
  ASSUME NEW d \in Int, NEW k \in Nat
  PROVE  (d \div Pow2[k]) \div 2 = d \div Pow2[k + 1]
<1>1. Pow2[k] \in Nat \ {0} /\ Pow2[k + 1] = 2 * Pow2[k]  BY Powers
<1>2. Pow2[k] * 2 = 2 * Pow2[k] /\ 2 \in Nat \ {0}  BY <1>1
<1>3. (d \div Pow2[k]) \div 2 = d \div (Pow2[k] * 2)  BY <1>1, <1>2, DivDiv
<1> QED BY <1>1, <1>2, <1>3

-----------------------------------------------------------------------------
(* Rotations of n values by one bit, and of d by the bits of P where n is  *)
(* P times Q.                                                              *)
Rot1Left(n, r) == ((2 * r) % n) + (IF 2 * r >= n THEN 1 ELSE 0)
Rot1Right(n, r) == (r \div 2) + (r % 2) * (n \div 2)
Rotated(n, d, P, Q) == ((d * P) % n) + (d \div Q)

LEMMA RotatedIs ==
  ASSUME NEW P \in Nat \ {0}, NEW Q \in Nat \ {0}, NEW d \in 0..(P * Q - 1)
  PROVE  /\ (d * P) % (P * Q) = P * (d % Q) /\ d \div Q \in 0..(P - 1)
         /\ Rotated(P * Q, d, P, Q) = P * (d % Q) + (d \div Q)
         /\ Rotated(P * Q, d, P, Q) \in 0..(P * Q - 1)
<1> DEFINE n == P * Q
           a == d \div Q
           b == d % Q
<1>1. n \in Nat \ {0} /\ n >= P  BY Times
<1>2. d \in Int /\ d >= 0 /\ d < n  BY <1>1
<1>3. a \in Nat /\ b \in 0..(Q - 1) /\ d = Q * a + b  BY <1>2, DivMod
<1> HIDE DEF a, b
<1>4. P * b >= 0 /\ P * b <= P * (Q - 1) /\ P * (Q - 1) = n - P /\ P * b \in Int  BY <1>3
<1>5. a <= P - 1
  <2> SUFFICES ASSUME a >= P PROVE FALSE  BY <1>3
  <2>1. Q * a >= Q * P /\ Q * P = n /\ Q * a \in Int  BY <1>3
  <2> QED BY <1>2, <1>3, <2>1
<1> HIDE DEF n
<1>6. d * P = n * a + P * b /\ d * P \in Int
  <2>1. d * P = Q * a * P + b * P  BY <1>3
  <2>2. Q * a * P = P * Q * a /\ b * P = P * b  BY <1>3
  <2> QED BY <1>2, <1>3, <2>1, <2>2 DEF n
<1>7. P * b \in 0..(n - 1)  BY <1>1, <1>4
<1>8. (d * P) % n = P * b
  <2> DEFINE e == d * P
             f == P * b
  <2>1. e \in Int /\ a \in Int /\ f \in 0..(n - 1) /\ e = n * a + f  BY <1>3, <1>6, <1>7
  <2> HIDE DEF e, f
  <2>2. e % n = f  BY <1>1, <2>1, DivModIs
  <2> QED BY <2>2 DEF e, f
<1>9. P * b + a \in 0..(n - 1)  BY <1>1, <1>3, <1>4, <1>5
<1> QED BY <1>3, <1>5, <1>8, <1>9 DEF n, a, b, Rotated

LEMMA Rot1LeftOf ==
  ASSUME NEW P \in Nat \ {0}, NEW Q \in Nat \ {0}, NEW d \in 0..(P * (2 * Q) - 1)
  PROVE  Rot1Left(P * (2 * Q), Rotated(P * (2 * Q), d, P, 2 * Q))
           = Rotated(P * (2 * Q), d, 2 * P, Q)
<1> DEFINE n == P * (2 * Q)
           a == d \div (2 * Q)
           b == d % (2 * Q)
           c == b \div Q
           e == b % Q
<1>1. n \in Nat \ {0} /\ 2 * Q \in Nat \ {0} /\ 2 * P \in Nat \ {0} /\ n = (2 * P) * Q  BY Times
<1>2. d \in Int /\ d >= 0 /\ d < n  BY <1>1
<1>3. a \in 0..(P - 1) /\ Rotated(n, d, P, 2 * Q) = P * b + a  BY <1>1, RotatedIs
<1>4. d = (2 * Q) * a + b /\ b \in 0..(2 * Q - 1)  BY <1>1, <1>2, DivMod
<1>5. Rotated(n, d, 2 * P, Q) = (2 * P) * (d % Q) + (d \div Q)
  <2> DEFINE PP == 2 * P
  <2>1. PP \in Nat \ {0} /\ d \in 0..(PP * Q - 1) /\ n = PP * Q  BY <1>1
  <2> HIDE DEF PP, n
  <2>2. Rotated(PP * Q, d, PP, Q) = PP * (d % Q) + (d \div Q)  BY <2>1, RotatedIs
  <2> QED BY <2>1, <2>2 DEF PP
<1> HIDE DEF a, b
<1>6. b = Q * c + e /\ e \in 0..(Q - 1) /\ c \in Nat
  <2>1. b \in Int /\ b >= 0  BY <1>4
  <2> QED BY <2>1, DivMod
<1> HIDE DEF c, e
<1>7. c \in {0, 1}
  <2> SUFFICES ASSUME c >= 2 PROVE FALSE  BY <1>6
  <2>1. Q * c >= Q * 2 /\ Q * c \in Int  BY <1>6
  <2> QED BY <1>4, <1>6, <2>1
<1>8. d \div Q = 2 * a + c /\ d % Q = e
  <2>1. d = Q * (2 * a + c) + e /\ 2 * a + c \in Int
    <3>1. Q * (2 * a + c) = (2 * Q) * a + Q * c /\ Q * c \in Int /\ (2 * Q) * a \in Int
      BY <1>3, <1>6
    <3> QED BY <1>3, <1>4, <1>6, <3>1
  <2> QED BY <1>2, <1>6, <2>1, DivModIs
<1>9. Rotated(n, d, 2 * P, Q) = (2 * P) * e + 2 * a + c  BY <1>3, <1>5, <1>6, <1>7, <1>8
<1>10. (2 * P) * e + 2 * a \in 0..(n - 1) /\ (2 * P) * e \in Int
  <2>1. (2 * P) * e >= 0 /\ (2 * P) * e <= (2 * P) * (Q - 1) /\ (2 * P) * e \in Int  BY <1>6
  <2>2. (2 * P) * (Q - 1) = n - 2 * P  BY <1>1
  <2> QED BY <1>1, <1>3, <2>1, <2>2
<1> DEFINE r == P * b + a
           s == (2 * P) * e + 2 * a
<1>11. r \in Int /\ 2 * r = n * c + s
  <2>1. P * b = P * (Q * c) + P * e /\ P * b \in Int  BY <1>6
  <2>2. 2 * (P * (Q * c)) = n * c /\ 2 * (P * e) = (2 * P) * e  BY <1>6
  <2>3. P * (Q * c) \in Int /\ P * e \in Int  BY <1>6
  <2> QED BY <1>3, <2>1, <2>2, <2>3
<1> HIDE DEF n, r, s
<1>12. (2 * r) % n = s /\ (2 * r >= n <=> c = 1)
  <2>1. s \in 0..(n - 1)  BY <1>10 DEF s
  <2>2. (2 * r) % n = s  BY <1>1, <1>7, <1>11, <2>1, DivModIs
  <2>3. n * c = IF c = 1 THEN n ELSE 0  BY <1>1, <1>7
  <2> QED BY <1>1, <1>7, <1>11, <2>1, <2>2, <2>3
<1>13. Rot1Left(n, r) = s + c  BY <1>7, <1>12 DEF Rot1Left
<1> QED BY <1>3, <1>9, <1>13 DEF n, r, s

(* To the right is back.                                                   *)
LEMMA RightUndoesLeft ==
  ASSUME NEW h \in Nat \ {0}, NEW r \in 0..(2 * h - 1)
  PROVE  Rot1Right(2 * h, Rot1Left(2 * h, r)) = r
<1> DEFINE n == 2 * h
           b == IF 2 * r >= n THEN 1 ELSE 0
           t == IF 2 * r >= n THEN 2 * r - n ELSE 2 * r
           q == IF 2 * r >= n THEN r - h ELSE r
<1>1. (2 * r) % n = t
  <2>1. n \in Nat \ {0} /\ r \in 0..(n - 1)  OBVIOUS
  <2> HIDE DEF n
  <2>2. (2 * r) % n = IF 2 * r >= n THEN 2 * r - n ELSE 2 * r  BY <2>1, TwiceMod
  <2> QED BY <2>2
<1>2. Rot1Left(n, r) = t + b  BY <1>1 DEF Rot1Left
<1>3. t + b = 2 * q + b /\ b \in 0..1 /\ q \in Int /\ t + b \in Int  OBVIOUS
<1> HIDE DEF t, q
<1>4. (t + b) \div 2 = q /\ (t + b) % 2 = b
  <2>1. b \in 0..(2 - 1) /\ 2 \in Nat \ {0}  BY <1>3
  <2> HIDE DEF b
  <2> QED BY <1>3, <2>1, DivModIs
<1>5. n \div 2 = h
  <2>1. n = 2 * h + 0 /\ 0 \in 0..(2 - 1)  OBVIOUS
  <2> QED BY <2>1, DivModIs
<1>6. Rot1Right(n, t + b) = q + b * h  BY <1>4, <1>5 DEF Rot1Right
<1>7. q + b * h = r  BY DEF q
<1> QED BY <1>2, <1>6, <1>7

-----------------------------------------------------------------------------
(* What a shift of one bit after another does.                             *)
ShiftState == [r : Int, x : BOOLEAN, c : BOOLEAN, v : BOOLEAN]

(* The state s that follows t.                                             *)
StepTo(op, n, t, s) ==
  /\ s.c = IF op \in ToLeft THEN 2 * t.r >= n ELSE t.r % 2 = 1
  /\ s.x = IF op \in {"rol", "ror"} THEN t.x ELSE s.c
  /\ s.v = (t.v \/ (op = "asl" /\ s.c # (2 * s.r >= n)))
  /\ op \in {"asl", "lsl"} => s.r = (2 * t.r) % n
  /\ op = "lsr" => s.r = t.r \div 2
  /\ op = "asr" => s.r = (t.r \div 2) + (IF 2 * t.r >= n THEN n \div 2 ELSE 0)
  /\ op = "rol" => s.r = Rot1Left(n, t.r)
  /\ op = "ror" => s.r = (t.r \div 2) + (IF t.r % 2 = 1 THEN n \div 2 ELSE 0)
  /\ op = "roxl" => s.r = ((2 * t.r) % n) + (IF t.x THEN 1 ELSE 0)
  /\ op = "roxr" => s.r = (t.r \div 2) + (IF t.x THEN n \div 2 ELSE 0)

LEMMA OneBitIs ==
  ASSUME NEW op \in ToLeft \cup ToRight, NEW n \in Nat \ {0}, NEW t \in ShiftState
  PROVE  ByOneBit(op, n, t) \in ShiftState /\ StepTo(op, n, t, ByOneBit(op, n, t))
<1> DEFINE s == ByOneBit(op, n, t)
<1> DEFINE left == op \in ToLeft
           out == IF left THEN 2 * t.r >= n ELSE t.r % 2 = 1
           in == CASE op \in {"asl", "lsl", "lsr"} -> FALSE
                   [] op = "asr" -> 2 * t.r >= n
                   [] op \in {"rol", "ror"} -> out
                   [] op \in {"roxl", "roxr"} -> t.x
           bit == IF in THEN 1 ELSE 0
           r == IF left THEN ((2 * t.r) % n) + bit ELSE (t.r \div 2) + bit * (n \div 2)
           x == IF op \in {"rol", "ror"} THEN t.x ELSE out
           v == t.v \/ (op = "asl" /\ out # (2 * r >= n))
<1>1. s = [r |-> r, x |-> x, c |-> out, v |-> v]  BY Zenon DEF ByOneBit
<1> HIDE DEF s
<1>2. t.r \in Int /\ t.x \in BOOLEAN /\ t.c \in BOOLEAN /\ t.v \in BOOLEAN  BY DEF ShiftState
<1>3. (2 * t.r) % n \in Int /\ t.r \div 2 \in Int /\ n \div 2 \in Int
  <2>1. 2 * t.r \in Int /\ n \in Int /\ 2 \in Nat \ {0}  BY <1>2
  <2> QED BY <1>2, <2>1, DivMod
<1>4. left <=> op \in {"asl", "lsl", "roxl", "rol"}  BY DEF ToLeft
<1>5. op \in {"asl", "lsl", "roxl", "rol", "asr", "lsr", "roxr", "ror"}  BY DEF ToLeft, ToRight
<1>6. out \in BOOLEAN /\ x \in BOOLEAN /\ v \in BOOLEAN
  <2>1. out \in BOOLEAN
    <3> DEFINE big == 2 * t.r >= n
               odd == t.r % 2 = 1
    <3>1. big \in BOOLEAN /\ odd \in BOOLEAN  OBVIOUS
    <3>2. out = IF left THEN big ELSE odd  OBVIOUS
    <3> HIDE DEF big, odd, out, left
    <3> QED BY <3>1, <3>2
  <2>2. v \in BOOLEAN  BY Zenon
  <2> HIDE DEF out
  <2> QED BY <1>2, <2>1, <2>2, Zenon
<1>7. s.r = r /\ s.x = x /\ s.c = out /\ s.v = v
  <2> HIDE DEF r, x, v, out
  <2> QED BY <1>1
<1>8. bit = IF in THEN 1 ELSE 0  OBVIOUS
<1>9. /\ op \in {"asl", "lsl", "lsr"} => bit = 0
      /\ op = "asr" => bit = IF 2 * t.r >= n THEN 1 ELSE 0
      /\ op \in {"roxl", "roxr"} => bit = IF t.x THEN 1 ELSE 0
      /\ op \in {"rol", "ror"} => bit = IF out THEN 1 ELSE 0
  <2>1. op \in {"asl", "lsl", "lsr"} => ~in  BY <1>5
  <2>2. op = "asr" => in = (2 * t.r >= n)  BY <1>5
  <2>3. op \in {"roxl", "roxr"} => in = t.x  BY <1>5, <1>2
  <2>4. op \in {"rol", "ror"} => in = out  BY <1>5, <1>6
  <2> HIDE DEF in, out
  <2>5. op \in {"asl", "lsl", "lsr"} => bit = 0  BY <2>1, Zenon
  <2>6. op = "asr" => bit = IF 2 * t.r >= n THEN 1 ELSE 0  BY <2>2, Zenon
  <2>7. op \in {"roxl", "roxr"} => bit = IF t.x THEN 1 ELSE 0  BY <2>3, Zenon
  <2>8. op \in {"rol", "ror"} => bit = IF out THEN 1 ELSE 0
    <3>1. op \in {"rol", "ror"} => (in <=> out)  BY <2>4
    <3> QED BY <3>1
  <2> QED BY <2>5, <2>6, <2>7, <2>8
<1>10. bit \in {0, 1}  OBVIOUS
<1> DEFINE l2 == (2 * t.r) % n
           r2 == t.r \div 2
           n2 == n \div 2
<1>11. r = IF left THEN l2 + bit ELSE r2 + bit * n2  OBVIOUS
<1> HIDE DEF in, bit, r
<1>12. r \in Int
  <2> l2 \in Int /\ r2 \in Int /\ n2 \in Int  BY <1>3
  <2> HIDE DEF l2, r2, n2
  <2> QED BY <1>10, <1>11
<1>13. s \in ShiftState  BY <1>1, <1>6, <1>12 DEF ShiftState
<1>14. /\ op \in {"asl", "lsl"} => r = l2
       /\ op = "lsr" => r = r2
       /\ op = "asr" => r = r2 + (IF 2 * t.r >= n THEN n2 ELSE 0)
       /\ op = "rol" => r = l2 + (IF 2 * t.r >= n THEN 1 ELSE 0)
       /\ op = "ror" => r = r2 + (IF t.r % 2 = 1 THEN n2 ELSE 0)
       /\ op = "roxl" => r = l2 + (IF t.x THEN 1 ELSE 0)
       /\ op = "roxr" => r = r2 + (IF t.x THEN n2 ELSE 0)
  <2>1. l2 \in Int /\ r2 \in Int /\ n2 \in Int  BY <1>3
  <2>2. (op = "rol" => out = (2 * t.r >= n)) /\ (op = "ror" => out = (t.r % 2 = 1))  BY <1>4
  <2>3. bit = 0 => r = IF left THEN l2 ELSE r2
    <3> HIDE DEF l2, r2, n2, left
    <3> QED BY <2>1, <1>11
  <2>4. bit = 1 => r = IF left THEN l2 + 1 ELSE r2 + n2
    <3> HIDE DEF l2, r2, n2, left
    <3> QED BY <2>1, <1>11
  <2>5. (0 = 1) = FALSE /\ l2 + 0 = l2 /\ r2 + 0 = r2
    <3> HIDE DEF l2, r2
    <3> QED BY <2>1
  <2> HIDE DEF l2, r2, n2, out, left
  <2>6. op \in {"asl", "lsl"} => r = l2  BY <2>3, <1>4, <1>9
  <2>7. op = "lsr" => r = r2  BY <2>3, <1>4, <1>9
  <2>8. op = "asr" => r = r2 + (IF 2 * t.r >= n THEN n2 ELSE 0)  BY <2>3, <2>4, <2>5, <1>4, <1>9
  <2>9. op = "rol" => r = l2 + (IF 2 * t.r >= n THEN 1 ELSE 0)
    <3> SUFFICES ASSUME op = "rol" PROVE r = l2 + (IF 2 * t.r >= n THEN 1 ELSE 0)  OBVIOUS
    <3>1. bit = IF 2 * t.r >= n THEN 1 ELSE 0  BY <2>2, <1>9, Zenon
    <3> QED BY <3>1, <2>3, <2>4, <2>5, <1>4
  <2>10. op = "ror" => r = r2 + (IF t.r % 2 = 1 THEN n2 ELSE 0)
    <3> SUFFICES ASSUME op = "ror" PROVE r = r2 + (IF t.r % 2 = 1 THEN n2 ELSE 0)  OBVIOUS
    <3>1. bit = IF t.r % 2 = 1 THEN 1 ELSE 0  BY <2>2, <1>9, Zenon
    <3> QED BY <3>1, <2>3, <2>4, <2>5, <1>4
  <2>11. op = "roxl" => r = l2 + (IF t.x THEN 1 ELSE 0)  BY <2>3, <2>4, <2>5, <1>4, <1>9
  <2>12. op = "roxr" => r = r2 + (IF t.x THEN n2 ELSE 0)  BY <2>3, <2>4, <2>5, <1>4, <1>9
  <2> QED BY <2>6, <2>7, <2>8, <2>9, <2>10, <2>11, <2>12
<1>15. /\ s.c = IF op \in ToLeft THEN 2 * t.r >= n ELSE t.r % 2 = 1
       /\ s.x = IF op \in {"rol", "ror"} THEN t.x ELSE s.c
       /\ s.v = (t.v \/ (op = "asl" /\ s.c # (2 * s.r >= n)))
  <2> HIDE DEF r
  <2> QED BY <1>7, Zenon
<1> HIDE DEF s
<1> QED BY <1>7, <1>13, <1>14, <1>15 DEF Rot1Left, StepTo, s

LEMMA BitByBitIs ==
  ASSUME NEW op \in ToLeft \cup ToRight, NEW n \in Nat \ {0}, NEW d \in Int, NEW f \in Flags,
         NEW t, t = BitByBit(op, n, d, f)
  PROVE  /\ t[0] = ShiftStart(d, f)
         /\ \A k \in Nat : t[k] \in ShiftState /\ t[k + 1] = ByOneBit(op, n, t[k])
<1> DEFINE F == [k \in Nat |-> [s \in ShiftState |-> ByOneBit(op, n, s)]]
           a == ShiftStart(d, f)
<1>1. F \in [Nat -> [ShiftState -> ShiftState]]  BY OneBitIs
<1>2. a \in ShiftState
  <2>1. f.x \in BOOLEAN  BY DEF Flags
  <2> QED BY <2>1 DEF ShiftStart, ShiftState
<1>3. PICK g : Iterates(g, ShiftState, a, F)
  <2> HIDE DEF F, a
  <2> QED BY <1>1, <1>2, Recursion
<1>4. \A k, s : k \in Nat /\ s \in ShiftState => F[k][s] = ByOneBit(op, n, s)  OBVIOUS
<1> HIDE DEF F, a
<1>5. \A k \in Nat : k + 1 \in Nat /\ g[k] \in ShiftState  BY <1>3 DEF Iterates
<1>6. \A k \in Nat : g[k + 1] = ByOneBit(op, n, g[k])
  BY <1>3, <1>4, <1>5 DEF Iterates
<1>7. g = [k \in Nat |-> IF k = 0 THEN a ELSE ByOneBit(op, n, g[k - 1])]
  <2>1. \A k \in Nat : k # 0 => k - 1 \in Nat /\ k = (k - 1) + 1  OBVIOUS
  <2>2. \A k \in Nat : g[k] = IF k = 0 THEN a ELSE ByOneBit(op, n, g[k - 1])
    BY <2>1, <1>3, <1>6 DEF Iterates
  <2> QED BY <2>2, <1>3 DEF Iterates
<1>8. t = CHOOSE u : u = [k \in Nat |-> IF k = 0 THEN a ELSE ByOneBit(op, n, u[k - 1])]
  BY DEF BitByBit, a
<1>9. t = [k \in Nat |-> IF k = 0 THEN a ELSE ByOneBit(op, n, t[k - 1])]
  <2>1. \E u : u = [k \in Nat |-> IF k = 0 THEN a ELSE ByOneBit(op, n, u[k - 1])]  BY <1>7
  <2> QED BY <2>1, <1>8
<1>10. \A k \in Nat : t[k] = IF k = 0 THEN a ELSE ByOneBit(op, n, t[k - 1])  BY <1>9
<1>11. t[0] = a /\ \A k \in Nat : t[k + 1] = ByOneBit(op, n, t[k])
  <2>1. \A k \in Nat : k + 1 \in Nat /\ k + 1 # 0 /\ k + 1 - 1 = k  OBVIOUS
  <2> QED BY <2>1, <1>10
<1> DEFINE T == {k \in Nat : t[k] \in ShiftState}
<1>12. 0 \in T /\ \A k \in T : k + 1 \in T
  <2>1. \A k \in T : k \in Nat /\ k + 1 \in Nat  OBVIOUS
  <2> QED BY <2>1, <1>2, <1>11, OneBitIs
<1>13. T = Nat
  <2>1. T \in SUBSET Nat  OBVIOUS
  <2> HIDE DEF T
  <2> QED BY <1>12, <2>1, NatInd
<1> QED BY <1>11, <1>13 DEF a

(* The record a shift gives, when its result is r units.                   *)
Leaves(z, r, x, v, c, s) ==
  /\ s.r = r * Unit(z) /\ s.f \in Flags
  /\ s.f.x = x /\ s.f.v = v /\ s.f.c = c
  /\ s.f.n = (2 * r >= Full(z)) /\ s.f.z = (r = 0)

LEMMA ShiftedIs ==
  ASSUME NEW z \in Size, NEW r \in 0..(Full(z) - 1), NEW x \in BOOLEAN, NEW v \in BOOLEAN,
         NEW c \in BOOLEAN
  PROVE  Leaves(z, r, x, v, c, Shifted(r * Unit(z), x, v, c))
<1> DEFINE s == Shifted(r * Unit(z), x, v, c)
           e == r * Unit(z)
           neg == Msb(e)
           nil == e = 0
<1>1. s = [r |-> e, f |-> [x |-> x, n |-> neg, z |-> nil, v |-> v, c |-> c]]  BY DEF Shifted
<1>2. neg \in BOOLEAN /\ nil \in BOOLEAN  BY DEF Msb
<1>3. neg = (2 * r >= Full(z))
  <2>1. neg <=> 2 * r >= Full(z)  BY ScaledSign
  <2> QED BY <1>2, <2>1
<1>4. nil = (r = 0)
  <2>1. Unit(z) \in Nat \ {0} /\ r \in Int  BY Widths
  <2>2. e = 0 * Unit(z) <=> r = 0  BY <2>1, ScaledOrder
  <2>3. 0 * Unit(z) = 0  BY <2>1
  <2> QED BY <2>2, <2>3
<1> HIDE DEF e, neg, nil
<1> HIDE DEF s
<1>5. s.r = e /\ s.f.x = x /\ s.f.v = v /\ s.f.c = c /\ s.f.n = neg /\ s.f.z = nil  BY <1>1
<1>6. s.f \in Flags  BY <1>1, <1>2 DEF Flags
<1>7. s.f.n = (2 * r >= Full(z)) /\ s.f.z = (r = 0)  BY <1>3, <1>4, <1>5, Zenon
<1>8. Leaves(z, r, x, v, c, s)  BY <1>5, <1>6, <1>7, Zenon DEF e, Leaves
<1> QED BY <1>8 DEF s

(* The states from d and f on.                                             *)
StepsOf(op, n, d, f, t) ==
  /\ t[0].r = d /\ t[0].x = f.x /\ t[0].c = FALSE /\ t[0].v = FALSE
  /\ \A k \in Nat : k + 1 \in Nat /\ t[k] \in ShiftState /\ StepTo(op, n, t[k], t[k + 1])
  /\ op # "asl" => \A k \in Nat : t[k].v = FALSE

LEMMA ByBits ==
  ASSUME NEW op \in ToLeft \cup ToRight, NEW n \in Nat \ {0}, NEW d \in Int, NEW f \in Flags
  PROVE  StepsOf(op, n, d, f, BitByBit(op, n, d, f))
<1> DEFINE t == BitByBit(op, n, d, f)
<1>1. t[0] = ShiftStart(d, f)  BY BitByBitIs
<1>2. \A k \in Nat : t[k] \in ShiftState /\ t[k + 1] = ByOneBit(op, n, t[k])  BY BitByBitIs
<1> HIDE DEF t
<1>3. t[0].r = d /\ t[0].x = f.x /\ t[0].c = FALSE /\ t[0].v = FALSE  BY <1>1 DEF ShiftStart
<1>4. \A k \in Nat : k + 1 \in Nat /\ t[k] \in ShiftState /\ StepTo(op, n, t[k], t[k + 1])
  BY <1>2, OneBitIs
<1>5. ASSUME op # "asl" PROVE \A k \in Nat : t[k].v = FALSE
  <2> DEFINE T == {k \in Nat : t[k].v = FALSE}
  <2>1. 0 \in T  BY <1>3
  <2>2. ASSUME NEW k \in T PROVE k + 1 \in T
    <3> DEFINE s == t[k + 1]
    <3>1. k + 1 \in Nat /\ StepTo(op, n, t[k], s) /\ t[k].v = FALSE  BY <1>4
    <3> HIDE DEF s
    <3>2. s.v = (t[k].v \/ (op = "asl" /\ s.c # (2 * s.r >= n)))  BY <3>1 DEF StepTo
    <3>3. s.v = FALSE  BY <3>1, <3>2, <1>5, Zenon
    <3> QED BY <3>1, <3>3 DEF s
  <2>3. T = Nat
    <3>1. T \in SUBSET Nat  OBVIOUS
    <3> HIDE DEF T
    <3> QED BY <2>1, <2>2, <3>1, NatInd
  <2> QED BY <2>3
<1> QED BY <1>3, <1>4, <1>5 DEF StepsOf, t

(* To the left, 0 follows.                                                 *)
LEMMA LeftBits ==
  ASSUME NEW op \in {"asl", "lsl"}, NEW n \in Nat \ {0}, NEW d \in 0..(n - 1), NEW f,
         NEW t, StepsOf(op, n, d, f, t)
  PROVE  \A k \in Nat : t[k].r = (d * Pow2[k]) % n
<1> DEFINE T == {k \in Nat : t[k].r = (d * Pow2[k]) % n}
<1>0. d \in Int  OBVIOUS
<1>1. 0 \in T
  <2>1. t[0].r = d  BY DEF StepsOf
  <2>2. Pow2[0] = 1 /\ d * 1 = d  BY Pow2Def
  <2>3. d = n * 0 + d  OBVIOUS
  <2>4. d % n = d  BY <2>3, <1>0, DivModIs
  <2> QED BY <2>1, <2>2, <2>4
<1>2. ASSUME NEW k \in T PROVE k + 1 \in T
  <2>0. StepTo(op, n, t[k], t[k + 1]) /\ k + 1 \in Nat  BY DEF StepsOf
  <2>1. t[k + 1].r = (2 * t[k].r) % n  BY <2>0 DEF StepTo
  <2>2. (2 * ((d * Pow2[k]) % n)) % n = (d * Pow2[k + 1]) % n  BY <1>0, OneMoreLeft
  <2> QED BY <2>0, <2>1, <2>2
<1>3. T \in SUBSET Nat  OBVIOUS
<1> HIDE DEF T
<1>4. T = Nat  BY <1>1, <1>2, <1>3, NatInd
<1> QED BY <1>4 DEF T

(* To the right, 0 or the sign follows.                                    *)
LEMMA RightBits ==
  ASSUME NEW n \in Nat \ {0}, NEW d \in 0..(n - 1), NEW f, NEW t, StepsOf("lsr", n, d, f, t)
  PROVE  \A k \in Nat : t[k].r = d \div Pow2[k]
<1> DEFINE T == {k \in Nat : t[k].r = d \div Pow2[k]}
<1>0. d \in Int  OBVIOUS
<1>1. 0 \in T
  <2>1. t[0].r = d  BY DEF StepsOf
  <2>2. Pow2[0] = 1 /\ d = 1 * d + 0  BY Pow2Def
  <2>3. d \div 1 = d  BY <2>2, <1>0, DivModIs
  <2> QED BY <2>1, <2>2, <2>3
<1>2. ASSUME NEW k \in T PROVE k + 1 \in T
  <2>0. StepTo("lsr", n, t[k], t[k + 1]) /\ k + 1 \in Nat  BY DEF StepsOf
  <2>1. t[k + 1].r = t[k].r \div 2  BY <2>0 DEF StepTo
  <2>2. (d \div Pow2[k]) \div 2 = d \div Pow2[k + 1]  BY <1>0, OneMoreRight
  <2> QED BY <2>0, <2>1, <2>2
<1>3. T \in SUBSET Nat  OBVIOUS
<1> HIDE DEF T
<1>4. T = Nat  BY <1>1, <1>2, <1>3, NatInd
<1> QED BY <1>4 DEF T

(* The half of a number, and of n less than that.                          *)
LEMMA HalfMod ==
  ASSUME NEW h \in Nat \ {0}, NEW i \in Int, 2 * i \in (-(2 * h))..(2 * h - 1),
         NEW r, r = i % (2 * h)
  PROVE  /\ (r \div 2) + (IF 2 * r >= 2 * h THEN h ELSE 0) = (i \div 2) % (2 * h)
         /\ r % 2 = i % 2 /\ i \div 2 \in Int
         /\ 2 * (i \div 2) \in (-(2 * h))..(2 * h - 1)
<1> DEFINE n == 2 * h
           q == i \div 2
           b == i % 2
<1>1. i = 2 * q + b /\ b \in 0..1 /\ q \in Int
  <2>1. 2 \in Nat \ {0} /\ i \in Int  OBVIOUS
  <2> QED BY <2>1, DivMod
<1> HIDE DEF q, b
<1>2. n \in Nat \ {0} /\ 2 * i \in (-n)..(n - 1)  OBVIOUS
<1>3. CASE i >= 0
  <2>1. i = n * 0 + i /\ i \in 0..(n - 1)  BY <1>2, <1>3
  <2>2. r = i  BY <1>2, <2>1, DivModIs
  <2>3. q = n * 0 + q /\ q \in 0..(n - 1)  BY <1>1, <1>2, <1>3
  <2>4. q % n = q  BY <1>1, <1>2, <2>3, DivModIs
  <2>5. ~(2 * r >= n)  BY <1>2, <2>2
  <2> QED BY <1>1, <1>2, <1>3, <2>2, <2>4, <2>5 DEF q, b
<1>4. CASE i < 0
  <2>1. i = n * (-1) + (i + n) /\ i + n \in 0..(n - 1)  BY <1>2, <1>4
  <2>2. r = i + n  BY <1>2, <2>1, DivModIs
  <2>3. q = n * (-1) + (q + n) /\ q + n \in 0..(n - 1)  BY <1>1, <1>2, <1>4
  <2>4. q % n = q + n  BY <1>1, <1>2, <2>3, DivModIs
  <2>5. 2 * r >= n  BY <1>2, <2>2
  <2>6. r = 2 * (q + h) + b /\ q + h \in Int /\ r \in Int  BY <1>1, <2>2
  <2>7. r \div 2 = q + h /\ r % 2 = b
    <3>1. b \in 0..(2 - 1) /\ 2 \in Nat \ {0}  BY <1>1
    <3> QED BY <2>6, <3>1, DivModIs
  <2>8. 2 * q \in (-n)..(n - 1)  BY <1>1, <1>2, <1>4
  <2>9. (r \div 2) + h = q + n  BY <1>1, <2>7
  <2> QED BY <2>4, <2>5, <2>7, <2>8, <2>9, <1>1 DEF q, b
<1> QED BY <1>3, <1>4

LEMMA SignBits ==
  ASSUME NEW z \in Size, NEW d \in 0..(Full(z) - 1), NEW f, NEW t, StepsOf("asr", Full(z), d, f, t)
  PROVE  \A k \in Nat : /\ t[k].r = (SignedOf(d, z) \div Pow2[k]) % Full(z)
                        /\ SignedOf(d, z) \div Pow2[k] \in Int
                        /\ 2 * (SignedOf(d, z) \div Pow2[k]) \in (-Full(z))..(Full(z) - 1)
<1> DEFINE n == Full(z)
           h == Pow2[Bits[z] - 1]
           D == SignedOf(d, z)
           S(k) == D \div Pow2[k]
           T == {k \in Nat : t[k].r = S(k) % n /\ S(k) \in Int /\ 2 * S(k) \in (-n)..(n - 1)}
<1>0. d \in Int  OBVIOUS
<1>1. n \in Nat \ {0} /\ n = 2 * h /\ h \in Nat \ {0}  BY Widths
<1>2. D \in Int /\ 2 * D \in (-n)..(n - 1) /\ D % n = d  BY SignedRange
<1> HIDE DEF D, n, h
<1>3. 0 \in T
  <2>1. t[0].r = d  BY DEF StepsOf
  <2>2. Pow2[0] = 1 /\ D = 1 * D + 0  BY Pow2Def, <1>2
  <2>3. D \div 1 = D  BY <2>2, <1>2, DivModIs
  <2> QED BY <2>1, <2>2, <2>3, <1>2
<1>4. ASSUME NEW k \in T PROVE k + 1 \in T
  <2> DEFINE i == S(k)
             r == t[k].r
  <2>1. k \in Nat /\ i \in Int /\ r = i % n /\ 2 * i \in (-n)..(n - 1)  OBVIOUS
  <2>0. StepTo("asr", n, t[k], t[k + 1]) /\ k + 1 \in Nat  BY DEF StepsOf, n
  <2>2. t[k + 1].r = (r \div 2) + (IF 2 * r >= n THEN n \div 2 ELSE 0)  BY <2>0 DEF StepTo
  <2>3. i \div 2 = S(k + 1)  BY <2>1, <1>2, OneMoreRight
  <2> HIDE DEF i, r, S
  <2>4. /\ (r \div 2) + (IF 2 * r >= 2 * h THEN h ELSE 0) = (i \div 2) % (2 * h)
        /\ i \div 2 \in Int /\ 2 * (i \div 2) \in (-(2 * h))..(2 * h - 1)
    BY <1>1, <2>1, HalfMod
  <2>5. n \div 2 = h
    <3>1. n = 2 * h + 0 /\ 0 \in 0..(2 - 1) /\ 2 \in Nat \ {0}  BY <1>1
    <3> QED BY <1>1, <3>1, DivModIs
  <2> QED BY <1>1, <2>0, <2>2, <2>3, <2>4, <2>5
<1>5. T \in SUBSET Nat  OBVIOUS
<1> HIDE DEF T
<1>6. T = Nat  BY <1>3, <1>4, <1>5, NatInd
<1> QED BY <1>6 DEF T, n, D

(* A result and flags that a state says too.                               *)
SameAs(op, z, t, res) ==
  /\ t.r \in 0..(Full(z) - 1) /\ Down(res.r, z) = t.r /\ res.f \in Flags
  /\ res.f.n = (2 * t.r >= Full(z)) /\ res.f.z = (t.r = 0)
  /\ res.f.c = IF op \in {"roxl", "roxr"} THEN t.x ELSE t.c
  /\ res.f.v = t.v
  /\ op # "lsl" => res.f.x = t.x

LEMMA Agrees ==
  ASSUME NEW z \in Size, NEW op, NEW t \in ShiftState, t.r \in 0..(Full(z) - 1),
         NEW x \in BOOLEAN, NEW v \in BOOLEAN, NEW c \in BOOLEAN, NEW r,
         r = t.r * Unit(z), v = t.v, c = IF op \in {"roxl", "roxr"} THEN t.x ELSE t.c,
         op # "lsl" => x = t.x
  PROVE  SameAs(op, z, t, Shifted(r, x, v, c))
<1> DEFINE s == Shifted(r, x, v, c)
<1>1. /\ s.r = t.r * Unit(z) /\ s.f \in Flags /\ s.f.x = x /\ s.f.v = v /\ s.f.c = c
      /\ s.f.n = (2 * t.r >= Full(z)) /\ s.f.z = (t.r = 0)
  <2> DEFINE w == Shifted(t.r * Unit(z), x, v, c)
  <2>1. s = w  OBVIOUS
  <2>2. Leaves(z, t.r, x, v, c, w)  BY ShiftedIs
  <2> HIDE DEF s, w
  <2> QED BY <2>1, <2>2, Zenon DEF Leaves
<1> HIDE DEF s
<1>0. Down(s.r, z) = t.r
  <2>1. t.r \in Int  OBVIOUS
  <2>2. Down(t.r * Unit(z), z) = t.r  BY <2>1, Scaled
  <2> QED BY <1>1, <2>2
<1>2. SameAs(op, z, t, s)  BY <1>0, <1>1, Zenon DEF SameAs
<1> QED BY <1>2 DEF s

(* No bit is shifted.                                                      *)
LEMMA NoShift ==
  ASSUME NEW z \in Size, NEW op, NEW d \in 0..(Full(z) - 1), NEW f \in Flags,
         NEW t, StepsOf(op, Full(z), d, f, t)
  PROVE  /\ op \notin {"roxl", "roxr"} => SameAs(op, z, t[0], Shifted(d * Unit(z), f.x, FALSE, FALSE))
         /\ op \in {"roxl", "roxr"} => SameAs(op, z, t[0], Shifted(d * Unit(z), f.x, FALSE, f.x))
<1> DEFINE s == t[0]
<1>1. s \in ShiftState /\ s.r = d /\ s.x = f.x /\ s.c = FALSE /\ s.v = FALSE /\ f.x \in BOOLEAN
  BY DEF StepsOf, Flags
<1> HIDE DEF s
<1>2. s.r \in 0..(Full(z) - 1) /\ d * Unit(z) = s.r * Unit(z)  BY <1>1
<1>3. ASSUME op \notin {"roxl", "roxr"}
      PROVE  SameAs(op, z, s, Shifted(d * Unit(z), f.x, FALSE, FALSE))
  <2>1. FALSE \in BOOLEAN /\ FALSE = IF op \in {"roxl", "roxr"} THEN s.x ELSE s.c  BY <1>1, <1>3
  <2> QED BY <1>1, <1>2, <2>1, Agrees
<1>4. ASSUME op \in {"roxl", "roxr"}
      PROVE  SameAs(op, z, s, Shifted(d * Unit(z), f.x, FALSE, f.x))
  <2>1. FALSE \in BOOLEAN /\ f.x = IF op \in {"roxl", "roxr"} THEN s.x ELSE s.c  BY <1>1, <1>4
  <2> QED BY <1>1, <1>2, <2>1, Agrees
<1> QED BY <1>3, <1>4 DEF s

(* The last bit to the left, of e.                                         *)
LeftOf(z, k, s, e) ==
  /\ s \in ShiftState /\ s.r \in 0..(Full(z) - 1) /\ s.x = s.c
  /\ e \in Int /\ (Msb(e) <=> s.c) /\ (2 * e) % M = s.r * Unit(z)
  /\ k - 1 >= Bits[z] => s.r = 0 /\ s.c = FALSE

LEMMA LastLeft ==
  ASSUME NEW op \in {"asl", "lsl"}, NEW z \in Size, NEW d \in 0..(Full(z) - 1), NEW f \in Flags,
         NEW t, StepsOf(op, Full(z), d, f, t), NEW k \in Nat \ {0}
  PROVE  LeftOf(z, k, t[k], (d * Unit(z) * Pow2[k - 1]) % M)
<1> DEFINE e == (d * Unit(z) * Pow2[k - 1]) % M
           n == Full(z)
           u == Unit(z)
           p == Pow2[k - 1]
           q == t[k - 1]
           s == t[k]
<1>1. k - 1 \in Nat /\ (k - 1) + 1 = k /\ p \in Nat \ {0}  BY Pow2Positive
<1>2. n \in Nat \ {0} /\ u \in Nat \ {0} /\ n * u = M /\ d \in Int  BY Widths
<1>3. q \in ShiftState /\ s \in ShiftState /\ StepTo(op, n, q, s)  BY <1>1 DEF StepsOf
<1>4. q.r = (d * p) % n
  <2>1. n \in Nat \ {0} /\ d \in 0..(n - 1) /\ StepsOf(op, n, d, f, t)  BY <1>2
  <2> HIDE DEF n
  <2>2. \A i \in Nat : t[i].r = (d * Pow2[i]) % n  BY <2>1, LeftBits
  <2> QED BY <1>1, <2>2
<1>5. (d * u * p) % M = ((d * p) % n) * u /\ (d * p) % n \in 0..(n - 1)
  <2>1. p \in Int /\ d \in Int  BY <1>1
  <2> HIDE DEF p
  <2> QED BY <2>1, ScaledLeft
<1>6. k - 1 >= Bits[z] => (d * p) % n = 0  BY <1>1, ShiftedOut
<1> HIDE DEF p, q, s
<1>7. e = q.r * u /\ q.r \in 0..(n - 1)  BY <1>4, <1>5 DEF p
<1> HIDE DEF e
<1>8. e \in Int /\ (Msb(e) <=> 2 * q.r >= n)
  <2>1. Msb(q.r * u) <=> 2 * q.r >= n  BY <1>7, ScaledSign
  <2>2. q.r * u \in Int  BY <1>7, <1>2
  <2> QED BY <1>7, <2>1, <2>2
<1> HIDE DEF n, u
<1>9. s.c = (2 * q.r >= n) /\ s.x = s.c /\ s.r = (2 * q.r) % n
  BY <1>3 DEF StepTo, ToLeft
<1>10. s.c \in BOOLEAN  BY <1>3 DEF ShiftState
<1>11. 2 * q.r \in Int /\ s.r \in 0..(n - 1)
  <2>1. 2 * q.r \in Int  BY <1>2, <1>7
  <2> QED BY <1>2, <1>9, <2>1, DivMod
<1>12. (2 * e) % M = s.r * u
  <2> DEFINE w == 2 * q.r
  <2>1. 2 * e = w * u  BY <1>2, <1>7
  <2>2. w \in Int  BY <1>11
  <2> HIDE DEF w
  <2>3. (w * u) % M = (w % n) * u  BY <2>2, Scaled DEF n, u
  <2> QED BY <2>1, <2>3, <1>9 DEF w
<1>13. k - 1 >= Bits[z] => s.r = 0 /\ s.c = FALSE
  <2> SUFFICES ASSUME k - 1 >= Bits[z] PROVE s.r = 0 /\ s.c = FALSE  OBVIOUS
  <2>1. q.r = 0  BY <1>4, <1>6
  <2>2. 0 = n * 0 + 0 /\ 0 \in 0..(n - 1)  BY <1>2
  <2>3. 0 % n = 0  BY <1>2, <2>2, DivModIs
  <2>4. 2 * q.r = 0 /\ ~(0 >= n)  BY <2>1, <1>2
  <2>5. ~(2 * q.r >= n) /\ s.r = 0  BY <1>9, <2>3, <2>4
  <2>6. s.c = FALSE  BY <1>9, <1>10, <2>5
  <2> QED BY <2>5, <2>6
<1>14. Msb(e) <=> s.c  BY <1>8, <1>9, <1>10
<1>15. LeftOf(z, k, s, e)  BY <1>3, <1>8, <1>9, <1>11, <1>12, <1>13, <1>14, Zenon DEF LeftOf, n, u
<1> QED BY <1>15 DEF s, e

LEMMA LslBits ==
  ASSUME NEW z \in Size, NEW d \in 0..(Full(z) - 1), NEW f \in Flags,
         NEW t, StepsOf("lsl", Full(z), d, f, t), NEW k \in Nat
  PROVE  SameAs("lsl", z, t[k], Lsl68(d * Unit(z), k, z, f))
<1>1. CASE k = 0
  <2>0. ~(k - 1 > SIGN_BIT)  BY <1>1, AluAssumption
  <2>1. Lsl68(d * Unit(z), k, z, f) = Shifted(d * Unit(z), f.x, FALSE, FALSE)
    BY <1>1, <2>0, Zenon DEF Lsl68
  <2>2. SameAs("lsl", z, t[0], Shifted(d * Unit(z), f.x, FALSE, FALSE))  BY NoShift
  <2> QED BY <1>1, <2>1, <2>2
<1>2. CASE k # 0
  <2> DEFINE e == (d * Unit(z) * Pow2[k - 1]) % M
             s == t[k]
  <2>1. k \in Nat \ {0}  BY <1>2
  <2>2. /\ s \in ShiftState /\ s.r \in 0..(Full(z) - 1)
        /\ e \in Int /\ (Msb(e) <=> s.c) /\ (2 * e) % M = s.r * Unit(z)
        /\ k - 1 >= Bits[z] => s.r = 0 /\ s.c = FALSE
    <3>1. LeftOf(z, k, s, e)  BY <2>1, LastLeft
    <3> QED BY <3>1, Zenon DEF LeftOf
  <2>3. s.v = FALSE /\ s.c \in BOOLEAN /\ Msb(e) \in BOOLEAN /\ Bits[z] \in 1..(SIGN_BIT + 1) /\ SIGN_BIT \in Nat
    BY <2>2, Widths DEF StepsOf, ShiftState, Msb
  <2>4. CASE k - 1 > SIGN_BIT
    <3>1. Lsl68(d * Unit(z), k, z, f) = Shifted(0, FALSE, FALSE, FALSE)  BY <1>2, <2>4 DEF Lsl68
    <3>2. s.r = 0 /\ s.c = FALSE  BY <2>2, <2>3, <2>4
    <3>3. 0 = s.r * Unit(z)  BY <3>2, Widths
    <3> HIDE DEF s
    <3>4. FALSE \in BOOLEAN /\ FALSE = IF "lsl" \in {"roxl", "roxr"} THEN s.x ELSE s.c  BY <3>2
    <3>5. SameAs("lsl", z, s, Shifted(0, FALSE, FALSE, FALSE))
      BY <2>2, <2>3, <3>3, <3>4, Agrees
    <3> QED BY <3>1, <3>5 DEF s
  <2>5. CASE ~(k - 1 > SIGN_BIT)
    <3>1. Lsl68(d * Unit(z), k, z, f) = Shifted((2 * e) % M, FALSE, FALSE, Msb(e))
      BY <1>2, <2>5 DEF Lsl68
    <3> HIDE DEF s, e
    <3>2. Msb(e) = s.c  BY <2>2, <2>3
    <3>3. FALSE \in BOOLEAN /\ s.c = IF "lsl" \in {"roxl", "roxr"} THEN s.x ELSE s.c  OBVIOUS
    <3>4. SameAs("lsl", z, s, Shifted(s.r * Unit(z), FALSE, FALSE, s.c))
      BY <2>2, <2>3, <3>3, Agrees
    <3> QED BY <2>2, <3>1, <3>2, <3>4 DEF s
  <2> QED BY <2>4, <2>5
<1> QED BY <1>1, <1>2

(* The last bit to the right, of i units.                                  *)
RightOf(z, k, i, e) ==
  /\ e \in Int /\ (Lsb(e, z) <=> (i \div Pow2[k - 1]) % 2 = 1)
  /\ Aligned(e \div 2, z) = (i \div Pow2[k]) * Unit(z)

LEMMA LastRight ==
  ASSUME NEW z \in Size, NEW i \in Int, NEW k \in Nat \ {0}
  PROVE  RightOf(z, k, i, (i * Unit(z)) \div Pow2[k - 1])
<1> DEFINE p == Pow2[k - 1]
           e == (i * Unit(z)) \div p
<1>1. k - 1 \in Nat /\ p \in Nat \ {0} /\ Pow2[k] = 2 * p /\ Pow2[k] \in Nat \ {0}  BY Powers
<1> HIDE DEF p
<1>2. Down(e, z) = i \div p /\ e \in Int  BY <1>1, ScaledRight
<1>3. i * Unit(z) \in Int /\ p * 2 = Pow2[k] /\ 2 \in Nat \ {0}  BY <1>1, Scaled
<1>4. e \div 2 = (i * Unit(z)) \div Pow2[k]
  <2> DEFINE j == i * Unit(z)
  <2>1. j \in Int  BY <1>3
  <2> HIDE DEF j
  <2>2. (j \div p) \div 2 = j \div (p * 2)  BY <1>1, <1>3, <2>1, DivDiv
  <2> QED BY <1>3, <2>2 DEF j
<1>5. Aligned((i * Unit(z)) \div Pow2[k], z) = (i \div Pow2[k]) * Unit(z)  BY <1>1, ScaledRight
<1>6. Lsb(e, z) <=> (i \div p) % 2 = 1  BY <1>2 DEF Lsb
<1>7. Aligned(e \div 2, z) = (i \div Pow2[k]) * Unit(z)  BY <1>4, <1>5
<1> HIDE DEF e
<1>8. RightOf(z, k, i, e)  BY <1>2, <1>6, <1>7 DEF RightOf, p
<1> QED BY <1>8 DEF e, p

LEMMA NoMore ==
  ASSUME NEW n \in Nat \ {0}, NEW d \in 0..(n - 1), NEW p \in Nat \ {0}
  PROVE  d \div p \in 0..(n - 1)
<1>1. d \in Int /\ d >= 0 /\ d < n  OBVIOUS
<1> DEFINE q == d \div p
           r == d % p
<1>2. d = p * q + r /\ r \in 0..(p - 1) /\ q \in Nat  BY <1>1, DivMod
<1> HIDE DEF q, r
<1>3. q <= d
  <2>1. CASE q = 0  BY <2>1, <1>1
  <2>2. CASE q # 0
    <3>1. p * q >= q /\ p * q \in Int  BY <1>2, <2>2, Times
    <3> QED BY <1>1, <1>2, <3>1
  <2> QED BY <2>1, <2>2
<1> QED BY <1>1, <1>2, <1>3 DEF q

LEMMA LsrBits ==
  ASSUME NEW z \in Size, NEW d \in 0..(Full(z) - 1), NEW f \in Flags,
         NEW t, StepsOf("lsr", Full(z), d, f, t), NEW k \in Nat
  PROVE  SameAs("lsr", z, t[k], Lsr68(d * Unit(z), k, z, f))
<1>1. CASE k = 0
  <2>0. ~(k - 1 > SIGN_BIT)  BY <1>1, AluAssumption
  <2>1. Lsr68(d * Unit(z), k, z, f) = Shifted(d * Unit(z), f.x, FALSE, FALSE)
    BY <1>1, <2>0, Zenon DEF Lsr68
  <2>2. SameAs("lsr", z, t[0], Shifted(d * Unit(z), f.x, FALSE, FALSE))  BY NoShift
  <2> QED BY <1>1, <2>1, <2>2
<1>2. CASE k # 0
  <2> DEFINE e == (d * Unit(z)) \div Pow2[k - 1]
             n == Full(z)
             q == t[k - 1]
             s == t[k]
  <2>1. k \in Nat \ {0} /\ k - 1 \in Nat /\ (k - 1) + 1 = k /\ d \in Int  BY <1>2
  <2>2. e \in Int /\ (Lsb(e, z) <=> (d \div Pow2[k - 1]) % 2 = 1)
        /\ Aligned(e \div 2, z) = (d \div Pow2[k]) * Unit(z)
    <3>1. RightOf(z, k, d, e)  BY <2>1, LastRight
    <3> HIDE DEF e
    <3> QED BY <3>1 DEF RightOf
  <2>3. q.r = d \div Pow2[k - 1] /\ s.r = d \div Pow2[k]
    <3>1. n \in Nat \ {0} /\ d \in 0..(n - 1) /\ StepsOf("lsr", n, d, f, t)  BY Widths
    <3> HIDE DEF n
    <3>2. \A j \in Nat : t[j].r = d \div Pow2[j]  BY <3>1, RightBits
    <3> QED BY <2>1, <3>2
  <2>4. s \in ShiftState /\ StepTo("lsr", n, q, s) /\ s.v = FALSE  BY <2>1 DEF StepsOf
  <2>5. Bits[z] \in 1..(SIGN_BIT + 1) /\ SIGN_BIT \in Nat  BY Widths
  <2>6. s.r \in 0..(n - 1)
    <3>1. Pow2[k] \in Nat \ {0} /\ n \in Nat \ {0}  BY Pow2Positive, Widths
    <3> HIDE DEF n
    <3> QED BY <2>3, <3>1, NoMore DEF n
  <2>7. s.c = (q.r % 2 = 1) /\ s.x = s.c /\ s.c \in BOOLEAN
    <3> HIDE DEF q, s, n
    <3> QED BY <2>4 DEF StepTo, ToLeft, ShiftState
  <2>8. k - 1 > SIGN_BIT => q.r = 0 /\ s.r = 0
    <3> SUFFICES ASSUME k - 1 > SIGN_BIT PROVE q.r = 0 /\ s.r = 0  OBVIOUS
    <3>1. k - 1 >= Bits[z] /\ k >= Bits[z]  BY <2>1, <2>5
    <3>2. d \div Pow2[k - 1] = 0 /\ d \div Pow2[k] = 0  BY <2>1, <3>1, ShiftedOut
    <3> QED BY <2>3, <3>2
  <2>9. Lsb(e, z) = s.c
    <3>1. Lsb(e, z) \in BOOLEAN  BY DEF Lsb
    <3> HIDE DEF e, q, s
    <3> QED BY <2>2, <2>3, <2>7, <3>1
  <2>10. CASE k - 1 > SIGN_BIT
    <3>1. Lsr68(d * Unit(z), k, z, f) = Shifted(0, FALSE, FALSE, FALSE)
      BY <1>2, <2>10, Zenon DEF Lsr68
    <3> HIDE DEF s, q
    <3>2. 0 = s.r * Unit(z)  BY <2>8, <2>10, Widths
    <3>3. s.c = FALSE
      <4>1. q.r = 0 /\ ~(0 % 2 = 1)  BY <2>8, <2>10
      <4> QED BY <2>7, <4>1
    <3>4. FALSE \in BOOLEAN /\ FALSE = IF "lsr" \in {"roxl", "roxr"} THEN s.x ELSE s.c  BY <3>3
    <3>5. s.r \in 0..(Full(z) - 1)  BY <2>6
    <3>6. SameAs("lsr", z, s, Shifted(0, FALSE, FALSE, FALSE))
      BY <2>4, <3>5, <2>7, <3>2, <3>3, <3>4, Agrees
    <3> QED BY <3>1, <3>6 DEF s
  <2>11. CASE ~(k - 1 > SIGN_BIT)
    <3>1. Lsr68(d * Unit(z), k, z, f) = Shifted(Aligned(e \div 2, z), Lsb(e, z), FALSE, Lsb(e, z))
      BY <1>2, <2>11, Zenon DEF Lsr68
    <3> HIDE DEF s, e
    <3>2. FALSE \in BOOLEAN /\ s.c = IF "lsr" \in {"roxl", "roxr"} THEN s.x ELSE s.c  OBVIOUS
    <3>3. s.r \in 0..(Full(z) - 1)  BY <2>6
    <3>4. SameAs("lsr", z, s, Shifted(s.r * Unit(z), s.c, FALSE, s.c))
      BY <2>4, <2>7, <3>2, <3>3, Agrees
    <3>5. Aligned(e \div 2, z) = s.r * Unit(z)  BY <2>2, <2>3
    <3> QED BY <2>9, <3>1, <3>4, <3>5 DEF s
  <2> QED BY <2>10, <2>11
<1> QED BY <1>1, <1>2

(* All bits of a signed number go out: its sign is left.                   *)
LEMMA SignLeft ==
  ASSUME NEW z \in Size, NEW i \in Int, 2 * i \in (-Full(z))..(Full(z) - 1),
         NEW k \in Nat, k >= Bits[z]
  PROVE  i \div Pow2[k] = IF i < 0 THEN -1 ELSE 0
<1> DEFINE n == Full(z)
           p == Pow2[k]
<1>1. k - Bits[z] \in Nat /\ Bits[z] \in Nat /\ k = Bits[z] + (k - Bits[z]) /\ n \in Nat \ {0}
  BY Widths
<1>2. p = n * Pow2[k - Bits[z]] /\ Pow2[k - Bits[z]] \in Nat \ {0}  BY <1>1, Pow2Sum, Pow2Positive DEF Full
<1>3. p \in Nat \ {0} /\ p >= n  BY <1>1, <1>2, Times
<1>4. 2 * i \in (-n)..(n - 1)  OBVIOUS
<1> HIDE DEF n, p
<1>5. CASE i < 0
  <2>1. i = p * (-1) + (i + p) /\ i + p \in 0..(p - 1)  BY <1>1, <1>3, <1>4, <1>5
  <2>2. i \div p = -1  BY <1>3, <2>1, DivModIs
  <2> QED BY <1>5, <2>2 DEF p
<1>6. CASE i >= 0
  <2>1. i = p * 0 + i /\ i \in 0..(p - 1)  BY <1>1, <1>3, <1>4, <1>6
  <2>2. i \div p = 0
    <3>1. 0 \in Int /\ i \in Int  OBVIOUS
    <3> QED BY <1>3, <2>1, <3>1, DivModIs
  <2> QED BY <1>6, <2>2 DEF p
<1> QED BY <1>5, <1>6

LEMMA MinusOne == ASSUME NEW n \in Nat \ {0} PROVE (-1) % n = n - 1 /\ 0 % n = 0
<1> DEFINE i == -1
<1>1. i \in Int /\ i = n * i + (n - 1) /\ n - 1 \in 0..(n - 1)  OBVIOUS
<1>2. 0 \in Int /\ 0 = n * 0 + 0 /\ 0 \in 0..(n - 1)  OBVIOUS
<1> HIDE DEF i
<1>3. i % n = n - 1  BY <1>1, DivModIs
<1>4. 0 % n = 0  BY <1>2, DivModIs
<1> QED BY <1>3, <1>4 DEF i

LEMMA AsrBits ==
  ASSUME NEW z \in Size, NEW d \in 0..(Full(z) - 1), NEW f \in Flags,
         NEW t, StepsOf("asr", Full(z), d, f, t), NEW k \in Nat
  PROVE  SameAs("asr", z, t[k], Asr68(d * Unit(z), k, z, f))
<1>1. CASE k = 0
  <2>0. ~(k > Bits[z])  BY <1>1, Widths
  <2>1. Asr68(d * Unit(z), k, z, f) = Shifted(d * Unit(z), f.x, FALSE, FALSE)
    BY <1>1, <2>0, Zenon DEF Asr68
  <2>2. SameAs("asr", z, t[0], Shifted(d * Unit(z), f.x, FALSE, FALSE))  BY NoShift
  <2> QED BY <1>1, <2>1, <2>2
<1>2. CASE k # 0
  <2> DEFINE D == SignedOf(d, z)
             e == (D * Unit(z)) \div Pow2[k - 1]
             S(j) == D \div Pow2[j]
             n == Full(z)
             h == Pow2[Bits[z] - 1]
             q == t[k - 1]
             s == t[k]
  <2>1. k \in Nat \ {0} /\ k - 1 \in Nat /\ (k - 1) + 1 = k /\ D \in Int
    BY <1>2, SignedRange
  <2>2. e \in Int /\ (Lsb(e, z) <=> S(k - 1) % 2 = 1) /\ Aligned(e \div 2, z) = S(k) * Unit(z)
    <3> HIDE DEF D
    <3>1. RightOf(z, k, D, e)  BY <2>1, LastRight
    <3> HIDE DEF e
    <3> QED BY <3>1 DEF RightOf
  <2>3. /\ q.r = S(k - 1) % n /\ S(k - 1) \in Int /\ 2 * S(k - 1) \in (-n)..(n - 1)
        /\ s.r = S(k) % n /\ S(k) \in Int
    <3>1. \A j \in Nat : t[j].r = S(j) % n /\ S(j) \in Int /\ 2 * S(j) \in (-n)..(n - 1)
      BY SignBits
    <3> HIDE DEF n, D, S
    <3> QED BY <2>1, <3>1
  <2>4. s \in ShiftState /\ StepTo("asr", n, q, s) /\ s.v = FALSE  BY <2>1 DEF StepsOf
  <2>5. n = 2 * h /\ h \in Nat \ {0} /\ n \in Nat \ {0} /\ Bits[z] \in Nat /\ n * Unit(z) = M
        /\ Unit(z) \in Nat \ {0} /\ M \in Nat \ {0}
    BY Widths, Halves
  <2>6. s.r \in 0..(n - 1)
    <3> DEFINE i == S(k)
    <3>1. s.r = i % n /\ i \in Int  BY <2>3
    <3> HIDE DEF n, S, i, s
    <3>2. i % n \in 0..(n - 1)  BY <2>5, <3>1, DivMod
    <3> QED BY <3>1, <3>2
  <2>7. s.c = (q.r % 2 = 1) /\ s.x = s.c /\ s.c \in BOOLEAN
    <3> HIDE DEF q, s, n
    <3> QED BY <2>4 DEF StepTo, ToLeft, ShiftState
  <2>8. q.r % 2 = S(k - 1) % 2
    <3> HIDE DEF n, S, h
    <3> DEFINE y == S(k - 1)
               g == q.r
    <3>1. y \in Int /\ 2 * y \in (-(2 * h))..(2 * h - 1) /\ g = y % (2 * h)  BY <2>3, <2>5
    <3> HIDE DEF q, y, g
    <3>2. g % 2 = y % 2  BY <2>5, <3>1, HalfMod
    <3> QED BY <3>2 DEF y, g
  <2>9. Lsb(e, z) = s.c
    <3>1. Lsb(e, z) \in BOOLEAN  BY DEF Lsb
    <3> HIDE DEF e, q, s, S
    <3> QED BY <2>2, <2>7, <2>8, <3>1
  <2>10. CASE k > Bits[z]
    <3> DEFINE neg == Msb(d * Unit(z))
    <3>1. neg \in BOOLEAN /\ (neg <=> D < 0)
      <4>1. neg <=> 2 * d >= n  BY ScaledSign
      <4>2. D = IF 2 * d >= n THEN d - n ELSE d  BY ScaledSign
      <4>3. d < n /\ d >= 0 /\ d \in Int  BY <2>5
      <4>4. neg \in BOOLEAN  BY DEF Msb
      <4> HIDE DEF D, n, neg
      <4> QED BY <2>5, <4>1, <4>2, <4>3, <4>4
    <3> DEFINE res == Asr68(d * Unit(z), k, z, f)
               r == IF neg THEN M - 1 ELSE 0
    <3>2. res = Shifted(r, neg, FALSE, neg)
      BY <1>2, <2>10, Zenon DEF Asr68
    <3>3. S(k - 1) = (IF D < 0 THEN -1 ELSE 0) /\ S(k) = IF D < 0 THEN -1 ELSE 0
      <4>1. k - 1 >= Bits[z] /\ k >= Bits[z]  BY <2>1, <2>5, <2>10
      <4>2. 2 * D \in (-Full(z))..(Full(z) - 1)  BY SignedRange
      <4> HIDE DEF D
      <4> QED BY <2>1, <4>1, <4>2, SignLeft
    <3>4. s.r = IF neg THEN n - 1 ELSE 0
      <4> HIDE DEF n, D, S, neg
      <4>1. CASE neg
        <5>2. (-1) % n = n - 1  BY <2>5, MinusOne
        <5> QED BY <2>3, <3>1, <3>3, <4>1, <5>2
      <4>2. CASE ~neg
        <5>1. 0 = n * 0 + 0 /\ 0 \in 0..(n - 1)  BY <2>5
        <5>2. 0 % n = 0  BY <2>5, <5>1, DivModIs
        <5> QED BY <2>3, <3>1, <3>3, <4>2, <5>2
      <4> QED BY <4>1, <4>2
    <3>5. s.c = neg
      <4>1. S(k - 1) % 2 = 1 <=> neg
        <5> HIDE DEF D, S, neg
        <5>1. (-1) % 2 = 1 /\ 0 % 2 = 0
          <6>1. 2 \in Nat \ {0} /\ 2 - 1 = 1  OBVIOUS
          <6>2. (-1) % 2 = 2 - 1 /\ 0 % 2 = 0  BY <6>1, MinusOne
          <6> QED BY <6>1, <6>2
        <5> QED BY <3>1, <3>3, <5>1
      <4> HIDE DEF s, q, S, neg
      <4> QED BY <2>7, <2>8, <3>1, <4>1
    <3>6. Down(r, z) = s.r
      <4> DEFINE u == Unit(z)
      <4>1. M - 1 = u * (n - 1) + (u - 1) /\ u - 1 \in 0..(u - 1) /\ u \in Nat \ {0}
        <5> HIDE DEF n
        <5>1. u * (n - 1) = n * u - u  BY <2>5
        <5> QED BY <2>5, <5>1
      <4>2. 0 = u * 0 + 0 /\ 0 \in 0..(u - 1)  BY <4>1
      <4> HIDE DEF u, n
      <4>3. (M - 1) \div u = n - 1 /\ 0 \div u = 0
        <5>1. M - 1 \in Int /\ n - 1 \in Int /\ 0 \in Int  BY <2>5
        <5> QED BY <4>1, <4>2, <5>1, DivModIs
      <4> HIDE DEF neg, s
      <4> QED BY <3>4, <4>3 DEF Down, u
    <3>7. Msb(r) = neg /\ (r = 0) = ~neg /\ (2 * s.r >= n) = neg /\ (s.r = 0) = ~neg
      <4>1. HALF \in Nat /\ HALF > 0 /\ M = 2 * HALF  BY Halves
      <4> HIDE DEF neg, s, n
      <4>2. CASE neg
        <5>1. Msb(r) /\ r # 0 /\ 2 * s.r >= n /\ s.r # 0  BY <2>5, <3>4, <4>1, <4>2 DEF Msb
        <5>2. Msb(r) \in BOOLEAN /\ (2 * s.r >= n) \in BOOLEAN  BY DEF Msb
        <5> HIDE DEF r
        <5> QED BY <3>1, <4>2, <5>1, <5>2
      <4>3. CASE ~neg
        <5>1. ~Msb(r) /\ r = 0 /\ ~(2 * s.r >= n) /\ s.r = 0  BY <2>5, <3>4, <4>1, <4>3 DEF Msb
        <5>2. Msb(r) \in BOOLEAN /\ (2 * s.r >= n) \in BOOLEAN  BY DEF Msb
        <5> HIDE DEF r
        <5> QED BY <3>1, <4>3, <5>1, <5>2
      <4> QED BY <4>2, <4>3
    <3> HIDE DEF r, neg, res
    <3>8. res = [r |-> r, f |-> [x |-> neg, n |-> neg, z |-> ~neg, v |-> FALSE, c |-> neg]]
      <4>1. res = [r |-> r, f |-> [x |-> neg, n |-> Msb(r), z |-> r = 0, v |-> FALSE, c |-> neg]]
        BY <3>2 DEF Shifted
      <4> QED BY <3>7, <4>1, Zenon
    <3>9. res.r = r /\ res.f.x = neg /\ res.f.n = neg /\ res.f.z = ~neg /\ res.f.v = FALSE
          /\ res.f.c = neg /\ res.f \in Flags
      <4> DEFINE zero == ~neg
      <4>1. zero \in BOOLEAN  OBVIOUS
      <4>2. zero = ~neg  OBVIOUS
      <4> HIDE DEF zero
      <4>3. res = [r |-> r, f |-> [x |-> neg, n |-> neg, z |-> zero, v |-> FALSE, c |-> neg]]
        BY <3>8, <4>2, Zenon
      <4> QED BY <3>1, <4>1, <4>2, <4>3 DEF Flags
    <3> HIDE DEF s
    <3>10. SameAs("asr", z, s, res)
      <4>1. "asr" \notin {"roxl", "roxr"} /\ s.r \in 0..(Full(z) - 1)  BY <2>6
      <4> QED BY <2>4, <2>7, <3>5, <3>6, <3>7, <3>9, <4>1, Zenon DEF SameAs
    <3> QED BY <3>10 DEF s, res
  <2>11. CASE ~(k > Bits[z])
    <3>1. Asr68(d * Unit(z), k, z, f)
            = Shifted(Aligned(e \div 2, z) % M, Lsb(e, z), FALSE, Lsb(e, z))
      <4>1. Signed(d * Unit(z)) = D * Unit(z)  BY ScaledSign
      <4> QED BY <1>2, <2>11, <4>1, Zenon DEF Asr68
    <3>2. Aligned(e \div 2, z) % M = s.r * Unit(z)
      <4> DEFINE i == S(k)
      <4>1. i \in Int  BY <2>3
      <4> HIDE DEF S, e, i
      <4>2. (i * Unit(z)) % M = (i % Full(z)) * Unit(z)  BY <4>1, Scaled
      <4> QED BY <2>2, <2>3, <4>2 DEF i
    <3> HIDE DEF s, e, S
    <3>3. FALSE \in BOOLEAN /\ s.c = IF "asr" \in {"roxl", "roxr"} THEN s.x ELSE s.c  OBVIOUS
    <3>4. s.r \in 0..(Full(z) - 1)  BY <2>6
    <3>5. SameAs("asr", z, s, Shifted(s.r * Unit(z), s.c, FALSE, s.c))
      BY <2>4, <2>7, <3>3, <3>4, Agrees
    <3> QED BY <2>9, <3>1, <3>2, <3>5 DEF s
  <2> QED BY <2>10, <2>11
<1> QED BY <1>1, <1>2

(* No sign bit was lost so far if the result is the number.                *)
LEMMA Overflow ==
  ASSUME NEW z \in Size, NEW d \in 0..(Full(z) - 1), NEW f, NEW t, StepsOf("asl", Full(z), d, f, t)
  PROVE  \A k \in Nat : /\ t[k].r = (SignedOf(d, z) * Pow2[k]) % Full(z)
                        /\ ~t[k].v <=> SignedOf(t[k].r, z) = SignedOf(d, z) * Pow2[k]
<1> DEFINE n == Full(z)
           D == SignedOf(d, z)
           G(k) == SignedOf(t[k].r, z)
           T == {k \in Nat : ~t[k].v <=> G(k) = D * Pow2[k]}
<1>1. n \in Nat \ {0} /\ D \in Int /\ D % n = d /\ d \in Int  BY Widths, SignedRange
<1>2. ASSUME NEW k \in Nat PROVE t[k].r = (D * Pow2[k]) % n /\ t[k].r \in 0..(n - 1)
  <2> DEFINE p == Pow2[k]
  <2>1. t[k].r = (d * p) % n
    <3>1. n \in Nat \ {0} /\ d \in 0..(n - 1) /\ StepsOf("asl", n, d, f, t)  BY <1>1
    <3> HIDE DEF n
    <3>2. \A j \in Nat : t[j].r = (d * Pow2[j]) % n  BY <3>1, LeftBits
    <3> QED BY <3>2
  <2>2. p \in Nat \ {0} /\ p \in Int  BY Pow2Positive
  <2> HIDE DEF D, n, p
  <2>3. (p * (D % n)) % n = (p * D) % n  BY <1>1, <2>2, ModTimes
  <2>4. p * d = d * p /\ p * D = D * p /\ d * p \in Int  BY <1>1, <2>2
  <2>5. (d * p) % n \in 0..(n - 1)
    <3> DEFINE i == d * p
    <3>1. i \in Int  BY <2>4
    <3> HIDE DEF i
    <3>2. i % n \in 0..(n - 1)  BY <1>1, <3>1, DivMod
    <3> QED BY <3>2 DEF i
  <2> QED BY <1>1, <2>1, <2>3, <2>4, <2>5 DEF p
<1>3. 0 \in T
  <2>1. t[0].r = d /\ ~t[0].v  BY DEF StepsOf
  <2>2. Pow2[0] = 1 /\ D * 1 = D  BY Pow2Def, <1>1
  <2> HIDE DEF D
  <2> QED BY <2>1, <2>2 DEF D
<1>4. ASSUME NEW k \in T PROVE k + 1 \in T
  <2> DEFINE a == t[k]
             b == t[k + 1]
             p == Pow2[k]
             out == 2 * a.r >= n
             neg == 2 * b.r >= n
  <2>0. k \in Nat /\ StepTo("asl", n, a, b) /\ k + 1 \in Nat /\ a \in ShiftState /\ b \in ShiftState
    BY DEF StepsOf
  <2>1. b.r = (2 * a.r) % n /\ a.r \in 0..(n - 1) /\ b.r \in 0..(n - 1) /\ a.r = (D * p) % n
    <3>1. b.r = (2 * a.r) % n  BY <2>0 DEF StepTo
    <3> HIDE DEF n, D
    <3> QED BY <2>0, <3>1, <1>2
  <2>2. G(k) = (IF out THEN a.r - n ELSE a.r) /\ G(k + 1) = IF neg THEN b.r - n ELSE b.r
    BY <2>1, ScaledSign
  <2>3. b.r = IF out THEN 2 * a.r - n ELSE 2 * a.r
    <3> HIDE DEF n
    <3> QED BY <1>1, <2>1, TwiceMod
  <2>4. b.v = (a.v \/ (b.c # neg)) /\ b.c = out
    <3>1. "asl" \in ToLeft  BY DEF ToLeft
    <3> QED BY <2>0, <3>1, Zenon DEF StepTo
  <2>5. out \in BOOLEAN /\ neg \in BOOLEAN  OBVIOUS
  <2>6. (out = neg) <=> G(k + 1) = 2 * G(k)
    <3> HIDE DEF G, a, b, n
    <3>1. CASE out /\ neg  BY <1>1, <2>1, <2>2, <2>3, <3>1
    <3>2. CASE out /\ ~neg  BY <1>1, <2>1, <2>2, <2>3, <3>2
    <3>3. CASE ~out /\ neg  BY <1>1, <2>1, <2>2, <2>3, <3>3
    <3>4. CASE ~out /\ ~neg  BY <1>1, <2>1, <2>2, <2>3, <3>4
    <3> QED BY <3>1, <3>2, <3>3, <3>4
  <2>7. ~b.v <=> ~a.v /\ (out = neg)  BY <2>4, <2>5, Zenon
  <2>8. ~a.v <=> G(k) = D * p  OBVIOUS
  <2>9. p \in Nat \ {0} /\ Pow2[k + 1] = 2 * p  BY <2>0, Powers
  <2>10. G(k) \in Int /\ G(k + 1) \in Int /\ 2 * G(k + 1) \in (-n)..(n - 1)
    <3> HIDE DEF n, a, b, D
    <3> QED BY <2>1, SignedRange DEF n, a, b
  <2>11. D * p \in Int /\ D * (2 * p) = 2 * (D * p)
    <3> HIDE DEF D, p
    <3> QED BY <1>1, <2>9
  <2> DEFINE i == D * p
  <2>12. G(k + 1) = 2 * i => G(k) = i
    <3> SUFFICES ASSUME G(k + 1) = 2 * i PROVE G(k) = i  OBVIOUS
    <3>1. i \in Int /\ 2 * i \in (-n)..(n - 1)
      <4> HIDE DEF G, i, n
      <4> QED BY <2>10, <2>11, <1>1 DEF i
    <3>2. G(k) = SignedOf(i % n, z)  BY <2>1
    <3>3. SignedOf(i % n, z) = i
      <4> HIDE DEF i
      <4> QED BY <3>1, SignedMod
    <3> QED BY <3>2, <3>3
  <2>13. ~b.v <=> G(k + 1) = 2 * i
    <3> HIDE DEF G, i, a, b, out, neg
    <3>1. ~a.v <=> G(k) = i  BY <2>8 DEF i
    <3> QED BY <2>6, <2>7, <2>12, <3>1
  <2>14. 2 * i = D * Pow2[k + 1]  BY <2>9, <2>11
  <2> HIDE DEF G, i, D
  <2> QED BY <2>0, <2>13, <2>14
<1>5. T = Nat
  <2>1. T \in SUBSET Nat  OBVIOUS
  <2> HIDE DEF T
  <2> QED BY <1>3, <1>4, <2>1, NatInd
<1>6. \A k \in Nat : ~t[k].v <=> G(k) = D * Pow2[k]
  <2> HIDE DEF G, D
  <2> QED BY <1>5
<1> QED BY <1>2, <1>6

(* Shifting back gives d if and only if nothing was lost.                  *)
LEMMA ShiftBack ==
  ASSUME NEW z \in Size, NEW k \in Nat, k <= Bits[z], NEW D \in Int, NEW g \in Int,
         g % Full(z) = (D * Pow2[k]) % Full(z)
  PROVE  (g * Unit(z)) \div Pow2[k] = D * Unit(z) <=> g = D * Pow2[k]
<1> DEFINE n == Full(z)
           u == Unit(z)
           p == Pow2[k]
           i == D * p
           w == Pow2[Bits[z] - k]
<1>1. n \in Nat \ {0} /\ u \in Nat \ {0} /\ p \in Nat \ {0}  BY Widths, Pow2Positive
<1>2. n >= p
  <2>1. Bits[z] - k \in Nat /\ Bits[z] = k + (Bits[z] - k)  BY Widths
  <2>2. n = p * w /\ w \in Nat \ {0}  BY <2>1, Pow2Sum, Pow2Positive DEF Full
  <2> HIDE DEF n, p, w
  <2> QED BY <1>1, <2>2, Times
<1>3. i \in Int /\ D * u \in Int /\ g * u \in Int /\ i * u = p * (D * u)
  <2> HIDE DEF p, u
  <2> QED BY <1>1
<1>4. g % n = i % n  OBVIOUS
<1> HIDE DEF n, u, i
<1>5. ASSUME (g * u) \div p = D * u PROVE g = i
  <2> DEFINE e == (g * u) % p
             j == (g \div n) - (i \div n)
             m == j * u
  <2>1. g * u = p * (D * u) + e /\ e \in 0..(p - 1)
    <3> DEFINE x == g * u
    <3>1. x \in Int  BY <1>3
    <3> HIDE DEF x, p
    <3>2. x = p * (x \div p) + (x % p) /\ x % p \in 0..(p - 1)  BY <1>1, <3>1, DivMod
    <3> QED BY <1>5, <3>2 DEF x
  <2>2. g = n * (g \div n) + (g % n) /\ i = n * (i \div n) + (i % n) /\ g \div n \in Int /\ i \div n \in Int
        /\ i % n \in Int
    BY <1>1, <1>3, DivMod
  <2>3. g - i = n * j /\ j \in Int
    <3> DEFINE a == g \div n
               b == i \div n
               c == i % n
    <3>1. g = n * a + c /\ i = n * b + c /\ a \in Int /\ b \in Int /\ c \in Int /\ j = a - b
      BY <1>4, <2>2
    <3> HIDE DEF a, b, c, j
    <3>2. n * (a - b) = n * a - n * b  BY <1>1, <3>1
    <3> QED BY <1>1, <3>1, <3>2
  <2> HIDE DEF e, j, p
  <2>4. (g - i) * u = e
    <3>1. (g - i) * u = g * u - i * u  BY <1>1, <1>3
    <3>2. e \in Int /\ p * (D * u) \in Int  BY <1>1, <1>3, <2>1
    <3> QED BY <1>3, <2>1, <3>1, <3>2
  <2>5. n * m = e /\ m \in Int
    <3>1. n * (j * u) = (n * j) * u /\ j * u \in Int  BY <1>1, <2>3
    <3> QED BY <2>3, <2>4, <3>1
  <2> HIDE DEF m
  <2>6. n * m \in (1 - n)..(n - 1)  BY <1>1, <1>2, <2>1, <2>5
  <2>7. m = 0  BY <1>1, <2>5, <2>6, NoMultiple
  <2>8. j * u = 0 * u  BY <1>1, <2>7 DEF m
  <2>9. j = 0  BY <1>1, <2>3, <2>8, ScaledOrder
  <2> QED BY <1>1, <1>3, <2>3, <2>9
<1>6. ASSUME g = i PROVE (g * u) \div p = D * u
  <2> DEFINE x == D * u
             y == g * u
  <2>1. y = p * x + 0 /\ 0 \in 0..(p - 1) /\ x \in Int /\ y \in Int  BY <1>1, <1>3, <1>6
  <2> HIDE DEF x, y, p
  <2>2. y \div p = x  BY <1>1, <2>1, DivModIs
  <2> QED BY <2>2 DEF x, y
<1> QED BY <1>5, <1>6 DEF u, i

LEMMA AslBits ==
  ASSUME NEW z \in Size, NEW d \in 0..(Full(z) - 1), NEW f \in Flags,
         NEW t, StepsOf("asl", Full(z), d, f, t), NEW k \in Nat
  PROVE  SameAs("asl", z, t[k], Asl68(d * Unit(z), k, z, f))
<1>1. CASE k = 0
  <2>0. ~(k > Bits[z])  BY <1>1, Widths
  <2>1. Asl68(d * Unit(z), k, z, f) = Shifted(d * Unit(z), f.x, FALSE, FALSE)
    BY <1>1, <2>0, Zenon DEF Asl68
  <2>2. SameAs("asl", z, t[0], Shifted(d * Unit(z), f.x, FALSE, FALSE))  BY NoShift
  <2> QED BY <1>1, <2>1, <2>2
<1>2. CASE k # 0
  <2> DEFINE e == (d * Unit(z) * Pow2[k - 1]) % M
             r == (2 * e) % M
             s == t[k]
             D == SignedOf(d, z)
             g == SignedOf(s.r, z)
             lost == (Signed(r) \div Pow2[k - 1]) \div 2 # Signed(d * Unit(z))
  <2>1. k \in Nat \ {0} /\ k - 1 \in Nat /\ (k - 1) + 1 = k  BY <1>2
  <2>2. /\ s \in ShiftState /\ s.r \in 0..(Full(z) - 1) /\ s.x = s.c
        /\ e \in Int /\ (Msb(e) <=> s.c) /\ r = s.r * Unit(z)
        /\ k - 1 >= Bits[z] => s.r = 0 /\ s.c = FALSE
    <3>1. LeftOf(z, k, s, e)  BY <2>1, LastLeft
    <3> QED BY <3>1, Zenon DEF LeftOf
  <2>3. s.v \in BOOLEAN /\ s.c \in BOOLEAN /\ Msb(e) \in BOOLEAN /\ Bits[z] \in 1..(SIGN_BIT + 1) /\ SIGN_BIT \in Nat
    BY <2>2, Widths DEF ShiftState, Msb
  <2>4. s.r = (D * Pow2[k]) % Full(z) /\ (~s.v <=> g = D * Pow2[k])
    <3>1. \A j \in Nat : /\ t[j].r = (D * Pow2[j]) % Full(z)
                         /\ ~t[j].v <=> SignedOf(t[j].r, z) = D * Pow2[j]
      BY Overflow
    <3> HIDE DEF D
    <3> QED BY <3>1
  <2>5. /\ D \in Int /\ g \in Int /\ g % Full(z) = s.r /\ (D = 0 <=> d = 0)
        /\ (s.r = 0 => g = 0)
    BY <2>2, SignedRange
  <2>6. Pow2[k] \in Nat \ {0}  BY Pow2Positive
  <2>7. CASE k > Bits[z]
    <3>1. Asl68(d * Unit(z), k, z, f) = Shifted(0, FALSE, d * Unit(z) # 0, FALSE)
      BY <1>2, <2>7, Zenon DEF Asl68
    <3>2. s.r = 0 /\ s.c = FALSE
      <4>1. k - 1 >= Bits[z]  BY <2>1, <2>3, <2>7
      <4> QED BY <2>2, <4>1
    <3>3. ~s.v <=> D = 0
      <4> DEFINE p == Pow2[k]
      <4>1. p \in Nat \ {0}  BY <2>6
      <4>2. ~s.v <=> 0 = D * p  BY <2>4, <2>5, <3>2
      <4> HIDE DEF D, p, s, g
      <4>3. 0 * p = 0 /\ 0 \in Int  BY <4>1
      <4>4. D * p = 0 * p <=> D = 0  BY <2>5, <4>1, <4>3, ScaledOrder
      <4> QED BY <4>2, <4>3, <4>4
    <3>4. d * Unit(z) = 0 <=> d = 0
      <4> DEFINE u == Unit(z)
      <4>1. u \in Nat \ {0} /\ d \in Int /\ 0 \in Int  BY Widths
      <4> HIDE DEF u
      <4>2. d * u = 0 * u <=> d = 0  BY <4>1, ScaledOrder
      <4>3. 0 * u = 0  BY <4>1
      <4> QED BY <4>2, <4>3 DEF u
    <3>5. (d * Unit(z) # 0) = s.v  BY <2>3, <2>5, <3>3, <3>4
    <3>6. 0 = s.r * Unit(z)  BY <3>2, Widths
    <3> HIDE DEF s
    <3>7. FALSE \in BOOLEAN /\ FALSE = (IF "asl" \in {"roxl", "roxr"} THEN s.x ELSE s.c) /\ FALSE = s.x
      BY <2>2, <3>2
    <3>8. SameAs("asl", z, s, Shifted(0, FALSE, s.v, FALSE))
      BY <2>2, <2>3, <3>6, <3>7, Agrees
    <3> QED BY <3>1, <3>5, <3>8 DEF s
  <2>8. CASE ~(k > Bits[z])
    <3>1. Asl68(d * Unit(z), k, z, f) = Shifted(r, Msb(e), lost, Msb(e))
      BY <1>2, <2>8, Zenon DEF Asl68
    <3>2. Signed(r) = g * Unit(z) /\ Signed(d * Unit(z)) = D * Unit(z) /\ g * Unit(z) \in Int
      <4>1. Signed(d * Unit(z)) = D * Unit(z)  BY ScaledSign
      <4>2. Signed(s.r * Unit(z)) = g * Unit(z)
        <5> HIDE DEF s
        <5> QED BY <2>2, ScaledSign
      <4>3. g * Unit(z) \in Int
        <5> HIDE DEF g
        <5> QED BY <2>5, Widths
      <4> HIDE DEF r, g, D
      <4> QED BY <2>2, <4>1, <4>2, <4>3
    <3>3. (Signed(r) \div Pow2[k - 1]) \div 2 = (g * Unit(z)) \div Pow2[k]
      <4> DEFINE y == g * Unit(z)
      <4>1. Signed(r) = y /\ y \in Int  BY <3>2
      <4> HIDE DEF y, r
      <4>2. (y \div Pow2[k - 1]) \div 2 = y \div Pow2[k]  BY <2>1, <4>1, OneMoreRight
      <4> QED BY <4>1, <4>2 DEF y
    <3>4. (g * Unit(z)) \div Pow2[k] = D * Unit(z) <=> g = D * Pow2[k]
      <4>1. k <= Bits[z]  BY <2>3, <2>8
      <4>2. g % Full(z) = (D * Pow2[k]) % Full(z)  BY <2>4, <2>5
      <4> HIDE DEF g, D
      <4> QED BY <2>5, <4>1, <4>2, ShiftBack
    <3>5. lost = s.v
      <4>1. lost <=> (g * Unit(z)) \div Pow2[k] # D * Unit(z)
        <5> HIDE DEF g, D, r
        <5> QED BY <3>2, <3>3
      <4>2. lost \in BOOLEAN  OBVIOUS
      <4> HIDE DEF lost, g, D, s
      <4> QED BY <2>3, <2>4, <3>4, <4>1, <4>2
    <3> HIDE DEF s, e, r, lost
    <3>6. FALSE \in BOOLEAN /\ s.c = IF "asl" \in {"roxl", "roxr"} THEN s.x ELSE s.c  OBVIOUS
    <3>7. SameAs("asl", z, s, Shifted(s.r * Unit(z), s.c, s.v, s.c))
      BY <2>2, <2>3, <3>6, Agrees
    <3>8. Msb(e) = s.c  BY <2>2, <2>3
    <3> QED BY <2>2, <3>1, <3>5, <3>7, <3>8 DEF s
  <2> QED BY <2>7, <2>8
<1> QED BY <1>1, <1>2

-----------------------------------------------------------------------------
(* Rotations by any number of bits.                                        *)
Turn(B, d, j) == Rotated(Pow2[B], d, Pow2[j], Pow2[B - j])

LEMMA Turns ==
  ASSUME NEW B \in Nat \ {0}, NEW d \in 0..(Pow2[B] - 1), NEW j \in 0..B
  PROVE  /\ Turn(B, d, j) \in 0..(Pow2[B] - 1)
         /\ Turn(B, d, 0) = d /\ Turn(B, d, B) = d
         /\ j < B => /\ Rot1Left(Pow2[B], Turn(B, d, j)) = Turn(B, d, j + 1)
                     /\ Rot1Right(Pow2[B], Turn(B, d, j + 1)) = Turn(B, d, j)
<1> DEFINE N == Pow2[B]
           P == Pow2[j]
           Q == Pow2[B - j]
<1>1. j \in Nat /\ B \in Nat /\ B - j \in Nat /\ B = j + (B - j) /\ B - B = 0 /\ B - 0 = B  OBVIOUS
<1>2. N = P * Q /\ P \in Nat \ {0} /\ Q \in Nat \ {0} /\ N \in Nat \ {0} /\ Pow2[0] = 1
  <2>1. Pow2[j + (B - j)] = P * Q  BY <1>1, Pow2Sum
  <2>2. P \in Nat \ {0} /\ Q \in Nat \ {0} /\ N \in Nat \ {0}  BY <1>1, Pow2Positive
  <2>3. N = P * Q  BY <1>1, <2>1, Zenon
  <2> QED BY <2>2, <2>3, Pow2Def
<1>3. Turn(B, d, j) = Rotated(N, d, P, Q)  BY DEF Turn
<1>4. d \in 0..(N - 1)  OBVIOUS
<1>5. Turn(B, d, 0) = Rotated(N, d, 1, N) /\ Turn(B, d, B) = Rotated(N, d, N, 1)
  BY <1>1, <1>2 DEF Turn
<1>6. Turn(B, d, j) \in 0..(N - 1)
  <2> HIDE DEF N, P, Q
  <2>1. d \in 0..(P * Q - 1)  BY <1>2, <1>4
  <2>2. Rotated(P * Q, d, P, Q) \in 0..(P * Q - 1)  BY <1>2, <2>1, RotatedIs
  <2> QED BY <1>2, <1>3, <2>2
<1>7. Rotated(N, d, 1, N) = d /\ Rotated(N, d, N, 1) = d
  <2> HIDE DEF N
  <2>1. d = N * 0 + d /\ d \in Int /\ d * 1 = d /\ 0 \in Int  BY <1>2, <1>4
  <2>2. d % N = d /\ d \div N = 0
    <3> DEFINE q == 0
    <3>1. N \in Nat \ {0} /\ q \in Int /\ d = N * q + d /\ d \in Int /\ d \in 0..(N - 1)
      BY <1>2, <1>4, <2>1
    <3> HIDE DEF q
    <3>2. d % N = d /\ d \div N = q  BY <3>1, DivModIs
    <3> QED BY <3>2 DEF q
  <2>3. d * N = N * d + 0 /\ 0 \in 0..(N - 1) /\ d * N \in Int  BY <1>2, <2>1
  <2>4. (d * N) % N = 0  BY <1>2, <2>1, <2>3, DivModIs
  <2>5. d = 1 * d + 0 /\ 0 \in 0..(1 - 1) /\ 1 \in Nat \ {0}  BY <2>1
  <2>6. d \div 1 = d  BY <2>1, <2>5, DivModIs
  <2> QED BY <2>1, <2>2, <2>4, <2>6 DEF Rotated
<1>8. ASSUME j < B PROVE /\ Rot1Left(N, Turn(B, d, j)) = Turn(B, d, j + 1)
                         /\ Rot1Right(N, Turn(B, d, j + 1)) = Turn(B, d, j)
  <2> DEFINE R == Pow2[B - (j + 1)]
             h == Pow2[B - 1]
             r == Turn(B, d, j)
  <2>1. B - (j + 1) \in Nat /\ B - j = (B - (j + 1)) + 1 /\ B - 1 \in Nat /\ B = (B - 1) + 1
    BY <1>1, <1>8
  <2>2. Q = 2 * R /\ R \in Nat \ {0} /\ Pow2[j + 1] = 2 * P /\ N = 2 * h /\ h \in Nat \ {0}
    BY <1>1, <2>1, Pow2Def, Pow2Positive
  <2>3. Turn(B, d, j + 1) = Rotated(N, d, 2 * P, R)  BY <2>2 DEF Turn
  <2> HIDE DEF N, P, Q, R, h
  <2>4. Rot1Left(N, r) = Turn(B, d, j + 1)
    <3>1. d \in 0..(P * (2 * R) - 1) /\ N = P * (2 * R)  BY <1>2, <1>4, <2>2
    <3>2. Rot1Left(P * (2 * R), Rotated(P * (2 * R), d, P, 2 * R))
            = Rotated(P * (2 * R), d, 2 * P, R)
      BY <1>2, <2>2, <3>1, Rot1LeftOf
    <3> QED BY <1>3, <2>2, <2>3, <3>1, <3>2
  <2>5. Rot1Right(N, Rot1Left(N, r)) = r
    <3>1. r \in 0..(2 * h - 1)  BY <1>6, <2>2
    <3> HIDE DEF r
    <3> QED BY <2>2, <3>1, RightUndoesLeft
  <2> QED BY <2>4, <2>5
<1> QED BY <1>5, <1>6, <1>7, <1>8

(* The number of bits is counted round B.                                  *)
LEMMA NextMod ==
  ASSUME NEW B \in Nat \ {0}, NEW k \in Int
  PROVE  /\ k % B \in 0..(B - 1) /\ (k + 1) % B = IF (k % B) + 1 = B THEN 0 ELSE (k % B) + 1
         /\ (k - 1) % B = IF k % B = 0 THEN B - 1 ELSE (k % B) - 1
<1> DEFINE q == k \div B
           r == k % B
<1>1. q \in Int /\ k = B * q + r /\ r \in 0..(B - 1)  BY DivMod
<1> HIDE DEF q, r
<1>2. B * (q + 1) = B * q + B /\ B * (q - 1) = B * q - B /\ B * q \in Int  BY <1>1
<1>3. (k + 1) % B = IF r + 1 = B THEN 0 ELSE r + 1
  <2>1. CASE r + 1 = B
    <3>1. k + 1 = B * (q + 1) + 0 /\ 0 \in 0..(B - 1) /\ q + 1 \in Int /\ k + 1 \in Int
      BY <1>1, <1>2, <2>1
    <3>2. (k + 1) % B = 0  BY <3>1, DivModIs
    <3> QED BY <2>1, <3>2
  <2>2. CASE r + 1 # B
    <3>1. k + 1 = B * q + (r + 1) /\ r + 1 \in 0..(B - 1) /\ k + 1 \in Int  BY <1>1, <1>2, <2>2
    <3>2. (k + 1) % B = r + 1  BY <1>1, <3>1, DivModIs
    <3> QED BY <2>2, <3>2
  <2> QED BY <2>1, <2>2
<1>4. (k - 1) % B = IF r = 0 THEN B - 1 ELSE r - 1
  <2>1. CASE r = 0
    <3>1. k - 1 = B * (q - 1) + (B - 1) /\ B - 1 \in 0..(B - 1) /\ q - 1 \in Int /\ k - 1 \in Int
      BY <1>1, <1>2, <2>1
    <3>2. (k - 1) % B = B - 1  BY <3>1, DivModIs
    <3> QED BY <2>1, <3>2
  <2>2. CASE r # 0
    <3>1. k - 1 = B * q + (r - 1) /\ r - 1 \in 0..(B - 1) /\ k - 1 \in Int  BY <1>1, <1>2, <2>2
    <3>2. (k - 1) % B = r - 1  BY <1>1, <3>1, DivModIs
    <3> QED BY <2>2, <3>2
  <2> QED BY <2>1, <2>2
<1> QED BY <1>1, <1>3, <1>4 DEF r

(* One rotation, as its quotient and remainder.                            *)
RotatesTo(P, Q, d) ==
  /\ Rotated(P * Q, d, P, Q) = P * (d % Q) + (d \div Q)
  /\ d \div Q \in 0..(P - 1)

LEMMA RotatesAs ==
  ASSUME NEW P \in Nat \ {0}, NEW Q \in Nat \ {0}, NEW d \in 0..(P * Q - 1)
  PROVE  RotatesTo(P, Q, d)
BY RotatedIs, Zenon DEF RotatesTo

LEMMA TurnsLeft ==
  ASSUME NEW B \in Nat \ {0}, NEW d \in 0..(Pow2[B] - 1), NEW w, w[0] = d,
         \A k \in Nat : w[k + 1] = Rot1Left(Pow2[B], w[k])
  PROVE  \A k \in Nat : w[k] = Turn(B, d, k % B)
<1> DEFINE T == {k \in Nat : w[k] = Turn(B, d, k % B)}
<1>1. 0 \in T
  <2>1. Turn(B, d, 0) = d
    <3>1. 0 \in 0..B  OBVIOUS
    <3> QED BY <3>1, Turns
  <2>2. 0 % B = 0  BY MinusOne
  <2> QED BY <2>1, <2>2
<1>2. ASSUME NEW k \in T PROVE k + 1 \in T
  <2> DEFINE j == k % B
  <2>1. k \in Nat /\ k + 1 \in Nat /\ k \in Int /\ w[k] = Turn(B, d, j)  OBVIOUS
  <2>2. j \in 0..(B - 1) /\ (k + 1) % B = IF j + 1 = B THEN 0 ELSE j + 1  BY <2>1, NextMod
  <2> HIDE DEF j
  <2>3. j \in 0..B /\ j < B  BY <2>2
  <2>4. Rot1Left(Pow2[B], Turn(B, d, j)) = Turn(B, d, j + 1) /\ Turn(B, d, 0) = Turn(B, d, B)
    BY <2>3, Turns
  <2>5. w[k + 1] = Rot1Left(Pow2[B], w[k])  BY <2>1
  <2>6. w[k + 1] = Turn(B, d, j + 1)  BY <2>1, <2>4, <2>5
  <2>7. w[k + 1] = Turn(B, d, (k + 1) % B)  BY <2>2, <2>4, <2>6
  <2> QED BY <2>1, <2>7
<1>3. T \in SUBSET Nat  OBVIOUS
<1> HIDE DEF T
<1>4. T = Nat  BY <1>1, <1>2, <1>3, NatInd
<1> QED BY <1>4 DEF T

LEMMA TurnsRight ==
  ASSUME NEW B \in Nat \ {0}, NEW d \in 0..(Pow2[B] - 1), NEW w, w[0] = d,
         \A k \in Nat : w[k + 1] = Rot1Right(Pow2[B], w[k])
  PROVE  \A k \in Nat : w[k] = Turn(B, d, (-k) % B)
<1> DEFINE T == {k \in Nat : w[k] = Turn(B, d, (-k) % B)}
<1>1. 0 \in T
  <2>1. Turn(B, d, 0) = d
    <3>1. 0 \in 0..B  OBVIOUS
    <3> QED BY <3>1, Turns
  <2>2. ASSUME NEW k \in Nat, k = 0 PROVE w[k] = Turn(B, d, (-k) % B)
    <3>1. -k = 0
      <4> DEFINE i == -k
      <4>1. i \in Int /\ i + k = 0  OBVIOUS
      <4> HIDE DEF i
      <4>2. i = 0  BY <2>2, <4>1
      <4> QED BY <4>2 DEF i
    <3>2. 0 % B = 0  BY MinusOne
    <3> QED BY <2>1, <2>2, <3>1, <3>2
  <2> QED BY <2>2
<1>2. ASSUME NEW k \in T PROVE k + 1 \in T
  <2> DEFINE j == (-k) % B
             i == IF j = 0 THEN B - 1 ELSE j - 1
  <2>1. k \in Nat /\ k + 1 \in Nat /\ -k \in Int /\ w[k] = Turn(B, d, j) /\ -(k + 1) = (-k) - 1
    OBVIOUS
  <2>2. j \in 0..(B - 1) /\ (-(k + 1)) % B = i
    <3> DEFINE m == -k
    <3>1. m \in Int /\ -(k + 1) = m - 1  BY <2>1
    <3> HIDE DEF m
    <3>2. m % B \in 0..(B - 1) /\ (m - 1) % B = IF m % B = 0 THEN B - 1 ELSE (m % B) - 1
      BY <3>1, NextMod
    <3> QED BY <3>1, <3>2 DEF m
  <2> HIDE DEF j
  <2>3. i \in 0..B /\ i < B /\ (i + 1 = B <=> j = 0) /\ (j # 0 => i + 1 = j)  BY <2>2
  <2> HIDE DEF i
  <2>4. /\ Rot1Right(Pow2[B], Turn(B, d, i + 1)) = Turn(B, d, i)
        /\ Turn(B, d, 0) = Turn(B, d, B)
    BY <2>3, Turns
  <2>5. Turn(B, d, j) = Turn(B, d, i + 1)
    <3>1. CASE j = 0  BY <2>3, <2>4, <3>1
    <3>2. CASE j # 0  BY <2>3, <3>2
    <3> QED BY <3>1, <3>2
  <2>6. w[k + 1] = Rot1Right(Pow2[B], w[k])  BY <2>1
  <2>7. w[k + 1] = Turn(B, d, i)  BY <2>1, <2>4, <2>5, <2>6
  <2>8. w[k + 1] = Turn(B, d, (-(k + 1)) % B)  BY <2>2, <2>7
  <2> QED BY <2>1, <2>8
<1>3. T \in SUBSET Nat  OBVIOUS
<1> HIDE DEF T
<1>4. T = Nat  BY <1>1, <1>2, <1>3, NatInd
<1> QED BY <1>4 DEF T

(* Bits that go round: the one that comes in is the one that went out.     *)
LEMMA Rot1Bits ==
  ASSUME NEW h \in Nat \ {0}, NEW r \in 0..(2 * h - 1)
  PROVE  /\ Rot1Left(2 * h, r) \in 0..(2 * h - 1)
         /\ Rot1Left(2 * h, r) % 2 = 1 <=> 2 * r >= 2 * h
         /\ Rot1Right(2 * h, r) = (r \div 2) + (IF r % 2 = 1 THEN (2 * h) \div 2 ELSE 0)
         /\ Rot1Right(2 * h, r) \in 0..(2 * h - 1)
         /\ 2 * Rot1Right(2 * h, r) >= 2 * h <=> r % 2 = 1
<1> DEFINE n == 2 * h
           l == Rot1Left(n, r)
           m == Rot1Right(n, r)
           q == r \div 2
           b == r % 2
           bit == IF 2 * r >= n THEN 1 ELSE 0
           s == IF 2 * r >= n THEN r - h ELSE r
<1>1. n \in Nat \ {0} /\ r \in 0..(n - 1) /\ r \in Int /\ 2 \in Nat \ {0}  OBVIOUS
<1>2. l = 2 * s + bit /\ s \in Int /\ bit \in 0..(2 - 1) /\ l \in 0..(n - 1)
  <2>1. (2 * r) % n = IF 2 * r >= n THEN 2 * r - n ELSE 2 * r
    <3> HIDE DEF n
    <3> QED BY <1>1, TwiceMod
  <2>2. l = ((2 * r) % n) + bit  BY DEF Rot1Left
  <2> QED BY <2>1, <2>2
<1>3. l % 2 = bit
  <2>1. l \in Int  BY <1>2
  <2> HIDE DEF l, s, bit
  <2> QED BY <1>1, <1>2, <2>1, DivModIs
<1>4. r = 2 * q + b /\ b \in 0..1 /\ q \in Int
  <2>1. r \in Int /\ 2 \in Nat \ {0}  OBVIOUS
  <2> QED BY <2>1, DivMod
<1>5. n \div 2 = h
  <2>1. n = 2 * h + 0 /\ 0 \in 0..(2 - 1) /\ h \in Int /\ n \in Int  OBVIOUS
  <2> HIDE DEF n
  <2> QED BY <1>1, <2>1, DivModIs
<1>6. m = q + b * h  BY <1>5 DEF Rot1Right
<1> HIDE DEF q, b, m, l
<1>7. b * h = IF b = 1 THEN h ELSE 0  BY <1>4
<1>8. m \in 0..(n - 1) /\ (2 * m >= n <=> b = 1)  BY <1>1, <1>4, <1>6, <1>7
<1>9. m = q + (IF b = 1 THEN n \div 2 ELSE 0)  BY <1>4, <1>5, <1>6, <1>7
<1>10. l % 2 = 1 <=> 2 * r >= n  BY <1>3
<1> QED BY <1>2, <1>8, <1>9, <1>10 DEF l, m, q, b

(* ROL and ROR keep X.                                                     *)
LEMMA RotationKeepsX ==
  ASSUME NEW op \in {"rol", "ror"}, NEW n, NEW d, NEW f, NEW t, StepsOf(op, n, d, f, t)
  PROVE  \A k \in Nat : t[k].x = f.x
<1> DEFINE T == {k \in Nat : t[k].x = f.x}
<1>1. 0 \in T  BY DEF StepsOf
<1>2. ASSUME NEW k \in T PROVE k + 1 \in T
  <2>1. StepTo(op, n, t[k], t[k + 1]) /\ k + 1 \in Nat  BY DEF StepsOf
  <2>2. t[k + 1].x = t[k].x  BY <2>1, Zenon DEF StepTo
  <2> QED BY <2>1, <2>2
<1>3. T \in SUBSET Nat  OBVIOUS
<1> HIDE DEF T
<1>4. T = Nat  BY <1>1, <1>2, <1>3, NatInd
<1> QED BY <1>4 DEF T

(* All bits at once.                                                       *)
LEMMA AroundIs ==
  ASSUME NEW z \in Size, NEW d \in 0..(Full(z) - 1), NEW j \in 0..(Bits[z] - 1)
  PROVE  /\ Around(d * Unit(z), j, z) = Turn(Bits[z], d, j) * Unit(z)
         /\ Turn(Bits[z], d, j) \in 0..(Full(z) - 1)
<1> DEFINE n == Full(z)
           u == Unit(z)
           B == Bits[z]
           T == Turn(B, d, j)
<1>1. /\ B \in Nat \ {0} /\ n = Pow2[B] /\ u \in Nat \ {0} /\ j \in 0..B /\ j < B
      /\ d \in 0..(Pow2[B] - 1) /\ d \in Int
  BY Widths DEF Full
<1>2. T \in 0..(n - 1) /\ Turn(B, d, 0) = d
  <2> HIDE DEF B, n
  <2> QED BY <1>1, Turns
<1>3. CASE j = 0  BY <1>2, <1>3, Zenon DEF Around
<1>4. CASE j # 0
  <2> DEFINE p == Pow2[j]
             q == Pow2[B - j]
             a == (d * p) % n
             b == d \div q
  <2>1. p \in Nat \ {0} /\ q \in Nat \ {0}
    <3>1. j \in Nat /\ B - j \in Nat  BY <1>1
    <3> QED BY <3>1, Pow2Positive
  <2>2. (d * u * p) % M = a * u /\ a \in Int
    <3> HIDE DEF p
    <3>1. p \in Int  BY <2>1
    <3>2. (d * Unit(z) * p) % M = ((d * p) % Full(z)) * Unit(z) /\ (d * p) % Full(z) \in 0..(Full(z) - 1)
      BY <1>1, <3>1, ScaledLeft
    <3>3. a \in 0..(n - 1)  BY <3>2
    <3>4. a \in Int
      <4> HIDE DEF a
      <4> QED BY <3>3
    <3> QED BY <3>2, <3>4
  <2>3. Aligned((d * u) \div q, z) = b * u /\ b \in Int
    <3> HIDE DEF q
    <3> QED BY <1>1, <2>1, ScaledRight
  <2>4. Around(d * u, j, z) = a * u + b * u
    <3>1. Around(d * u, j, z) = ((d * u * p) % M) + Aligned((d * u) \div q, z)
      BY <1>4, Zenon DEF Around
    <3> QED BY <2>2, <2>3, <3>1
  <2>5. T = a + b  BY <1>1 DEF Turn, Rotated
  <2> HIDE DEF a, b, u, T
  <2>6. a * u + b * u = (a + b) * u  BY <1>1, <2>2, <2>3
  <2> QED BY <2>4, <2>5, <2>6, <1>2 DEF T, u, n, B
<1> QED BY <1>2, <1>3, <1>4

LEMMA RolBits ==
  ASSUME NEW z \in Size, NEW d \in 0..(Full(z) - 1), NEW f \in Flags,
         NEW t, StepsOf("rol", Full(z), d, f, t), NEW k \in Nat
  PROVE  SameAs("rol", z, t[k], Rol68(d * Unit(z), k, z, f))
<1> DEFINE n == Full(z)
           B == Bits[z]
           h == Pow2[B - 1]
           j == k % B
           s == t[k]
           c == k # 0 /\ Lsb(s.r * Unit(z), z)
<1>1. B \in Nat \ {0} /\ n = Pow2[B] /\ n = 2 * h /\ h \in Nat \ {0}  BY Widths DEF Full
<1>2. \A i \in Nat : t[i].r = Turn(B, d, i % B)
  <2> DEFINE w == [i \in Nat |-> t[i].r]
  <2>1. w[0] = d  BY DEF StepsOf
  <2>2. \A i \in Nat : w[i + 1] = Rot1Left(n, w[i])
    <3> SUFFICES ASSUME NEW i \in Nat PROVE w[i + 1] = Rot1Left(n, w[i])  OBVIOUS
    <3>1. StepTo("rol", n, t[i], t[i + 1]) /\ i + 1 \in Nat  BY DEF StepsOf
    <3>2. t[i + 1].r = Rot1Left(n, t[i].r)  BY <3>1 DEF StepTo
    <3> QED BY <3>1, <3>2
  <2>3. \A i \in Nat : w[i] = Turn(B, d, i % B)
    <3>1. d \in 0..(Pow2[B] - 1) /\ \A i \in Nat : w[i + 1] = Rot1Left(Pow2[B], w[i])
      BY <1>1, <2>2
    <3> HIDE DEF w, B
    <3>2. B \in Nat \ {0}  BY <1>1
    <3> QED BY <2>1, <3>1, <3>2, TurnsLeft, Zenon
  <2> QED BY <2>3
<1>3. ASSUME NEW i \in Nat
      PROVE  Around(d * Unit(z), i % B, z) = t[i].r * Unit(z) /\ t[i].r \in 0..(n - 1)
  <2>1. i % B \in 0..(B - 1)
    <3>1. i \in Int  OBVIOUS
    <3> HIDE DEF B
    <3> QED BY <1>1, <3>1, DivMod
  <2> HIDE DEF n
  <2> QED BY <1>2, <2>1, AroundIs DEF n
<1>4. s.r \in 0..(n - 1) /\ Rol68(d * Unit(z), k, z, f) = Shifted(s.r * Unit(z), f.x, FALSE, c)
  BY <1>3, Zenon DEF Rol68
<1>5. s \in ShiftState /\ s.v = FALSE /\ s.x = f.x /\ f.x \in BOOLEAN /\ s.c \in BOOLEAN
  <2>1. \A i \in Nat : t[i].x = f.x  BY RotationKeepsX
  <2>2. s \in ShiftState /\ s.v = FALSE /\ f.x \in BOOLEAN  BY DEF StepsOf, Flags
  <2> QED BY <2>1, <2>2 DEF ShiftState
<1>6. c = s.c
  <2>1. CASE k = 0
    <3>1. s.c = FALSE  BY <2>1 DEF StepsOf
    <3> QED BY <2>1, <3>1
  <2>2. CASE k # 0
    <3> DEFINE q == t[k - 1]
    <3>1. k - 1 \in Nat /\ (k - 1) + 1 = k  BY <2>2
    <3>2. StepTo("rol", n, q, s)  BY <3>1 DEF StepsOf
    <3>3. q.r \in 0..(n - 1)  BY <1>3, <3>1
    <3>4. s.c = (2 * q.r >= n) /\ s.r = Rot1Left(n, q.r)
      <4> HIDE DEF q, s, n
      <4> QED BY <3>2 DEF StepTo, ToLeft
    <3>5. s.r % 2 = 1 <=> 2 * q.r >= n
      <4> HIDE DEF q, s, n, h
      <4>1. Rot1Left(2 * h, q.r) % 2 = 1 <=> 2 * q.r >= 2 * h  BY <1>1, <3>3, Rot1Bits
      <4> QED BY <1>1, <3>4, <4>1
    <3>6. Down(s.r * Unit(z), z) = s.r
      <4>1. s.r \in Int  BY <1>4
      <4> HIDE DEF s
      <4> QED BY <4>1, Scaled
    <3>7. Lsb(s.r * Unit(z), z) <=> s.r % 2 = 1  BY <3>6 DEF Lsb
    <3>8. c \in BOOLEAN /\ (c <=> s.r % 2 = 1)  BY <2>2, <3>7
    <3> HIDE DEF c, s, q
    <3> QED BY <1>5, <3>4, <3>5, <3>8
  <2> QED BY <2>1, <2>2
<1> HIDE DEF c, s
<1>7. SameAs("rol", z, s, Shifted(s.r * Unit(z), f.x, FALSE, s.c))
  <2>1. FALSE \in BOOLEAN /\ s.c = (IF "rol" \in {"roxl", "roxr"} THEN s.x ELSE s.c)
        /\ s.r \in 0..(Full(z) - 1)
    BY <1>4
  <2> QED BY <1>5, <2>1, Agrees
<1> QED BY <1>4, <1>6, <1>7 DEF s

LEMMA RorBits ==
  ASSUME NEW z \in Size, NEW d \in 0..(Full(z) - 1), NEW f \in Flags,
         NEW t, StepsOf("ror", Full(z), d, f, t), NEW k \in Nat
  PROVE  SameAs("ror", z, t[k], Ror68(d * Unit(z), k, z, f))
<1> DEFINE n == Full(z)
           B == Bits[z]
           h == Pow2[B - 1]
           s == t[k]
           c == k # 0 /\ Msb(s.r * Unit(z))
<1>1. B \in Nat \ {0} /\ n = Pow2[B] /\ n = 2 * h /\ h \in Nat \ {0}  BY Widths DEF Full
<1>2. ASSUME NEW i \in Nat, t[i].r \in 0..(n - 1)
      PROVE  /\ t[i + 1].r = Rot1Right(n, t[i].r) /\ t[i + 1].r \in 0..(n - 1)
             /\ 2 * t[i + 1].r >= n <=> t[i].r % 2 = 1
             /\ t[i + 1].c = (t[i].r % 2 = 1)
  <2> DEFINE a == t[i]
             b == t[i + 1]
  <2>1. StepTo("ror", n, a, b)  BY DEF StepsOf
  <2> HIDE DEF a, b, n, h
  <2>2. b.r = (a.r \div 2) + (IF a.r % 2 = 1 THEN n \div 2 ELSE 0) /\ b.c = (a.r % 2 = 1)
    BY <2>1 DEF StepTo, ToLeft
  <2>3. a.r \in 0..(2 * h - 1)  BY <1>1, <1>2 DEF a
  <2>4. /\ Rot1Right(2 * h, a.r) = (a.r \div 2) + (IF a.r % 2 = 1 THEN (2 * h) \div 2 ELSE 0)
        /\ Rot1Right(2 * h, a.r) \in 0..(2 * h - 1)
        /\ 2 * Rot1Right(2 * h, a.r) >= 2 * h <=> a.r % 2 = 1
    BY <1>1, <2>3, Rot1Bits
  <2>5. b.r = Rot1Right(n, a.r) /\ b.r \in 0..(n - 1) /\ (2 * b.r >= n <=> a.r % 2 = 1)
    BY <1>1, <2>2, <2>4
  <2> QED BY <2>2, <2>5 DEF a, b
<1>3. \A i \in Nat : t[i].r \in 0..(n - 1)
  <2> DEFINE T == {i \in Nat : t[i].r \in 0..(n - 1)}
  <2>1. 0 \in T  BY DEF StepsOf
  <2>2. \A i \in T : i + 1 \in T  BY <1>2
  <2>3. T = Nat
    <3>1. T \in SUBSET Nat  OBVIOUS
    <3> HIDE DEF T
    <3> QED BY <2>1, <2>2, <3>1, NatInd
  <2> QED BY <2>3
<1>4. \A i \in Nat : t[i].r = Turn(B, d, (-i) % B)
  <2> DEFINE w == [i \in Nat |-> t[i].r]
  <2>1. w[0] = d  BY DEF StepsOf
  <2>2. \A i \in Nat : w[i + 1] = Rot1Right(n, w[i])
    <3> SUFFICES ASSUME NEW i \in Nat PROVE w[i + 1] = Rot1Right(n, w[i])  OBVIOUS
    <3>1. i + 1 \in Nat /\ t[i].r \in 0..(n - 1)  BY <1>3
    <3> HIDE DEF n
    <3>2. t[i + 1].r = Rot1Right(n, t[i].r)  BY <1>2, <3>1
    <3> QED BY <3>1, <3>2
  <2>3. \A i \in Nat : w[i] = Turn(B, d, (-i) % B)
    <3>1. d \in 0..(Pow2[B] - 1) /\ \A i \in Nat : w[i + 1] = Rot1Right(Pow2[B], w[i])
      BY <1>1, <2>2
    <3> HIDE DEF w, B
    <3>2. B \in Nat \ {0}  BY <1>1
    <3> QED BY <2>1, <3>1, <3>2, TurnsRight, Zenon
  <2> QED BY <2>3
<1>5. Around(d * Unit(z), (-k) % B, z) = s.r * Unit(z)
  <2>1. (-k) % B \in 0..(B - 1)
    <3>1. -k \in Int  OBVIOUS
    <3> HIDE DEF B
    <3> QED BY <1>1, <3>1, DivMod
  <2> QED BY <1>4, <2>1, AroundIs
<1>6. s.r \in 0..(n - 1) /\ Ror68(d * Unit(z), k, z, f) = Shifted(s.r * Unit(z), f.x, FALSE, c)
  BY <1>3, <1>5, Zenon DEF Ror68
<1>7. s \in ShiftState /\ s.v = FALSE /\ s.x = f.x /\ f.x \in BOOLEAN /\ s.c \in BOOLEAN
  <2>1. \A i \in Nat : t[i].x = f.x  BY RotationKeepsX
  <2>2. s \in ShiftState /\ s.v = FALSE /\ f.x \in BOOLEAN  BY DEF StepsOf, Flags
  <2> QED BY <2>1, <2>2 DEF ShiftState
<1>8. c = s.c
  <2>1. CASE k = 0
    <3>1. s.c = FALSE  BY <2>1 DEF StepsOf
    <3> QED BY <2>1, <3>1
  <2>2. CASE k # 0
    <3> DEFINE q == t[k - 1]
    <3>1. k - 1 \in Nat /\ (k - 1) + 1 = k  BY <2>2
    <3>2. q.r \in 0..(n - 1)  BY <1>3, <3>1
    <3>3. (2 * s.r >= n <=> q.r % 2 = 1) /\ s.c = (q.r % 2 = 1)
      <4>1. (2 * t[(k - 1) + 1].r >= n <=> q.r % 2 = 1) /\ t[(k - 1) + 1].c = (q.r % 2 = 1)
        <5> HIDE DEF n
        <5> QED BY <1>2, <3>1, <3>2
      <4> QED BY <3>1, <4>1
    <3>4. Msb(s.r * Unit(z)) <=> 2 * s.r >= n
      <4> HIDE DEF s
      <4> QED BY <1>6, ScaledSign
    <3>5. c \in BOOLEAN /\ (c <=> 2 * s.r >= n)  BY <2>2, <3>4
    <3> HIDE DEF c, s, q
    <3> QED BY <1>7, <3>3, <3>5
  <2> QED BY <2>1, <2>2
<1> HIDE DEF c, s
<1>9. SameAs("ror", z, s, Shifted(s.r * Unit(z), f.x, FALSE, s.c))
  <2>1. FALSE \in BOOLEAN /\ s.c = (IF "ror" \in {"roxl", "roxr"} THEN s.x ELSE s.c)
        /\ s.r \in 0..(Full(z) - 1)
    BY <1>6
  <2> QED BY <1>7, <2>1, Agrees
<1> QED BY <1>6, <1>8, <1>9 DEF s

-----------------------------------------------------------------------------
(* Rotations through X: one bit more, X at the top.                        *)
Worth(x, n) == IF x THEN n ELSE 0

LEMMA RoxLeft1 ==
  ASSUME NEW h \in Nat \ {0}, NEW r \in 0..(2 * h - 1), NEW x \in BOOLEAN,
         NEW s, s = ((2 * r) % (2 * h)) + Worth(x, 1)
  PROVE  /\ s \in 0..(2 * h - 1)
         /\ Worth(2 * r >= 2 * h, 2 * h) + s = Rot1Left(2 * (2 * h), Worth(x, 2 * h) + r)
<1> DEFINE n == 2 * h
           w == Worth(x, n) + r
           N == 2 * n
           t == IF 2 * r >= n THEN 2 * r - n ELSE 2 * r
<1>1. n \in Nat \ {0} /\ N \in Nat \ {0} /\ r \in 0..(n - 1) /\ N = 2 * n  OBVIOUS
<1>2. (2 * r) % n = t
  <2> HIDE DEF n
  <2> QED BY <1>1, TwiceMod
<1>3. w \in 0..(N - 1) /\ (2 * w >= N <=> x)  BY DEF Worth
<1>4. (2 * w) % N = IF 2 * w >= N THEN 2 * w - N ELSE 2 * w
  <2> HIDE DEF N, w
  <2> QED BY <1>1, <1>3, TwiceMod
<1>5. Rot1Left(N, w) = ((2 * w) % N) + (IF 2 * w >= N THEN 1 ELSE 0)  BY DEF Rot1Left
<1>6. Rot1Left(N, w) = 2 * r + Worth(x, 1)
  <2>1. CASE x
    <3>1. 2 * w >= N /\ w = n + r  BY <1>3, <2>1 DEF Worth
    <3>2. Rot1Left(N, w) = (2 * w - N) + 1  BY <1>4, <1>5, <3>1, Zenon
    <3> QED BY <2>1, <3>1, <3>2 DEF Worth
  <2>2. CASE ~x
    <3>1. ~(2 * w >= N) /\ w = r  BY <1>3, <2>2 DEF Worth
    <3>2. Rot1Left(N, w) = (2 * w) + 0  BY <1>4, <1>5, <3>1, Zenon
    <3> QED BY <2>2, <3>1, <3>2 DEF Worth
  <2> QED BY <2>1, <2>2
<1>7. s = t + Worth(x, 1)  BY <1>2
<1>8. Worth(x, 1) \in {0, 1}  BY DEF Worth
<1> HIDE DEF N, w
<1>9. s \in 0..(n - 1)  BY <1>7, <1>8
<1>10. Worth(2 * r >= n, n) = IF 2 * r >= n THEN n ELSE 0  BY DEF Worth
<1>11. Worth(2 * r >= n, n) + s = 2 * r + Worth(x, 1)  BY <1>7, <1>8, <1>10
<1> QED BY <1>6, <1>9, <1>11 DEF N, w

(* One bit of roxr: what is rotated is X above the value.                   *)
RoxedRight(h, r, x, s) ==
  /\ s \in 0..(2 * h - 1)
  /\ Worth(r % 2 = 1, 2 * h) + s = Rot1Right(2 * (2 * h), Worth(x, 2 * h) + r)

LEMMA RoxRight1 ==
  ASSUME NEW h \in Nat \ {0}, NEW r \in 0..(2 * h - 1), NEW x \in BOOLEAN,
         NEW s, s = (r \div 2) + Worth(x, (2 * h) \div 2)
  PROVE  RoxedRight(h, r, x, s)
<1> DEFINE n == 2 * h
           w == Worth(x, n) + r
           N == 2 * n
           q == r \div 2
           b == r % 2
<1>1. n \in Nat \ {0} /\ N \in Nat \ {0} /\ r \in 0..(n - 1) /\ N = 2 * n /\ r \in Int /\ 2 \in Nat \ {0}
      /\ n \in Int /\ h \in Int
  OBVIOUS
<1>2. r = 2 * q + b /\ b \in 0..1 /\ q \in Int
  <2>1. r \in Int /\ 2 \in Nat \ {0}  OBVIOUS
  <2> QED BY <2>1, DivMod
<1>3. n \div 2 = h /\ N \div 2 = n
  <2>1. n = 2 * h + 0 /\ N = 2 * n + 0 /\ 0 \in 0..(2 - 1) /\ N \in Int  OBVIOUS
  <2> HIDE DEF n, N
  <2> QED BY <1>1, <2>1, DivModIs
<1>4. s = q + Worth(x, h)  BY <1>3
<1> HIDE DEF q, b
<1> DEFINE i == Worth(x, h) + q
<1>5. w = 2 * i + b /\ i \in Int /\ b \in 0..(2 - 1) /\ w \in Int  BY <1>2 DEF Worth
<1>6. w \div 2 = i /\ w % 2 = b
  <2> HIDE DEF w, i
  <2> QED BY <1>1, <1>5, DivModIs
<1>7. Rot1Right(N, w) = i + b * n  BY <1>3, <1>6 DEF Rot1Right
<1>8. b * n = Worth(b = 1, n)  BY <1>2 DEF Worth
<1>9. s \in 0..(n - 1)  BY <1>2, <1>4 DEF Worth
<1>10. Worth(b = 1, n) + s = i + b * n
  <2>1. s = i  BY <1>2, <1>4 DEF Worth
  <2>2. Worth(b = 1, n) \in Int  BY DEF Worth
  <2> HIDE DEF i
  <2> QED BY <1>5, <1>8, <2>1, <2>2
<1>11. s \in 0..(n - 1) /\ Worth(r % 2 = 1, n) + s = Rot1Right(N, w)
  BY <1>7, <1>9, <1>10 DEF b
<1> QED BY <1>11, Zenon DEF RoxedRight

(* What i bits, 1 to B, do to X and d, and which bit is the last.          *)
LEMMA RoxSplit ==
  ASSUME NEW B \in Nat \ {0}, NEW x \in BOOLEAN, NEW d \in 0..(Pow2[B] - 1), NEW i \in 1..B
  PROVE  LET e == (d * Pow2[i - 1]) % Pow2[B]
             r == ((2 * e) % Pow2[B]) + Worth(x, Pow2[i - 1]) + (d \div Pow2[B + 1 - i])
         IN  /\ r \in 0..(Pow2[B] - 1) /\ e \in 0..(Pow2[B] - 1)
             /\ Turn(B + 1, Worth(x, Pow2[B]) + d, i) = Worth(2 * e >= Pow2[B], Pow2[B]) + r
             /\ 2 * e >= Pow2[B] <=> (d \div Pow2[B - i]) % 2 = 1
<1> DEFINE n == Pow2[B]
           P == Pow2[i]
           p == Pow2[i - 1]
           Q == Pow2[B + 1 - i]
           R == Pow2[B - i]
           D == Worth(x, n) + d
           e == (d * p) % n
           a == Worth(x, p) + (d \div Q)
           b == d % Q
           r == ((2 * e) % n) + Worth(x, p) + (d \div Q)
<1>1. /\ i \in Nat /\ i - 1 \in Nat /\ B - i \in Nat /\ B + 1 - i \in Nat /\ B \in Nat /\ B + 1 \in Nat
      /\ i = (i - 1) + 1 /\ B + 1 - i = (B - i) + 1 /\ i + (B - i) = B /\ (B + 1) - i = B + 1 - i
      /\ i \in 0..(B + 1)
  OBVIOUS
<1>2. /\ p \in Nat \ {0} /\ P = 2 * p /\ P \in Nat \ {0} /\ R \in Nat \ {0} /\ Q = 2 * R
      /\ Q \in Nat \ {0} /\ n \in Nat \ {0} /\ Pow2[B + 1] = 2 * n
  BY <1>1, Pow2Positive, Pow2Def
<1>3. n = P * R
  <2>1. Pow2[i + (B - i)] = P * R  BY <1>1, Pow2Sum
  <2> QED BY <1>1, <2>1, Zenon
<1>4. d \in 0..(n - 1) /\ d \in Int  OBVIOUS
<1>5. Turn(B + 1, D, i) = Rotated(2 * n, D, P, Q)  BY <1>1, <1>2, Zenon DEF Turn
<1> HIDE DEF n, P, p, Q, R
<1>6. n = p * Q /\ 2 * n = P * Q /\ n = Q * p
  <2>1. P * R = (2 * p) * R  BY <1>2
  <2>2. (2 * p) * R = p * (2 * R) /\ 2 * ((2 * p) * R) = (2 * p) * (2 * R) /\ p * (2 * R) = (2 * R) * p
    BY <1>2
  <2> QED BY <1>2, <1>3, <2>1, <2>2
<1>7. D \in 0..(P * Q - 1)  BY <1>2, <1>4, <1>6 DEF Worth
<1>8. D % Q = b /\ D \div Q = a /\ b \in 0..(Q - 1) /\ d \div Q \in Int
  <2>1. b \in 0..(Q - 1) /\ d \div Q \in Int  BY <1>2, <1>4, DivMod
  <2>2. CASE x
    <3>1. D = d + Q * p /\ p \in Int  BY <1>2, <1>4, <1>6, <2>2 DEF Worth
    <3>2. (d + Q * p) % Q = d % Q /\ (d + Q * p) \div Q = (d \div Q) + p
      BY <1>2, <1>4, <3>1, ModAdd
    <3>3. a = p + (d \div Q)  BY <2>2 DEF Worth
    <3> QED BY <2>1, <3>1, <3>2, <3>3
  <2>3. CASE ~x
    <3>1. D = d /\ a = d \div Q
      <4>1. Worth(x, n) = 0 /\ Worth(x, p) = 0  BY <2>3 DEF Worth
      <4> DEFINE v == d \div Q
      <4>2. v \in Int  BY <2>1
      <4> HIDE DEF v
      <4>3. 0 + d = d /\ 0 + v = v  BY <1>4, <4>2
      <4>4. D = d  BY <4>1, <4>3, Zenon
      <4>5. a = v  BY <4>1, <4>3, Zenon DEF v
      <4> QED BY <4>4, <4>5 DEF v
    <3> QED BY <2>1, <3>1
  <2> QED BY <2>2, <2>3
<1>9. Rotated(P * Q, D, P, Q) = P * (D % Q) + (D \div Q) /\ D \div Q \in 0..(P - 1)
  <2> HIDE DEF D
  <2>1. P \in Nat \ {0} /\ Q \in Nat \ {0}  BY <1>2
  <2>2. RotatesTo(P, Q, D)  BY <1>7, <2>1, RotatesAs, Zenon
  <2> QED BY <2>2, Zenon DEF RotatesTo
<1>10. e = b * p
  <2>1. (d * p) % (Q * p) = (d % Q) * p  BY <1>2, <1>4, Scale
  <2> QED BY <1>6, <2>1
<1> DEFINE v == d \div Q
<1>11. a \in 0..(P - 1) /\ a = Worth(x, p) + v /\ v \in Int /\ r = ((2 * e) % n) + Worth(x, p) + v
  BY <1>8, <1>9
<1> HIDE DEF D, b, e, v, r, a
<1>12. 2 * e = P * b /\ e \in Int /\ P * b \in Int
  <2>1. 2 * (b * p) = (2 * p) * b  BY <1>2, <1>8
  <2> QED BY <1>2, <1>8, <1>10, <2>1
<1>13. Turn(B + 1, D, i) = 2 * e + a  BY <1>5, <1>6, <1>8, <1>9, <1>12
<1>14. 2 * e >= n <=> b >= R
  <2>1. P * b >= P * R <=> b >= R
    <3>1. P * b = b * P /\ P * R = R * P /\ b \in Int /\ R \in Int  BY <1>2, <1>8
    <3>2. R * P <= b * P <=> R <= b  BY <1>2, <3>1, ScaledOrder
    <3> QED BY <1>2, <3>1, <3>2
  <2> QED BY <1>3, <1>12, <2>1
<1>15. e \in 0..(n - 1)
  <2>1. b * p <= (Q - 1) * p /\ b * p >= 0 /\ b * p \in Int
    <3>1. b \in Int /\ Q - 1 \in Int /\ b <= Q - 1 /\ b \in Nat /\ p \in Int  BY <1>2, <1>8
    <3>2. b * p <= (Q - 1) * p <=> b <= Q - 1  BY <1>2, <3>1, ScaledOrder
    <3> QED BY <1>2, <3>1, <3>2
  <2>2. (Q - 1) * p = n - p  BY <1>2, <1>6
  <2> QED BY <1>2, <1>10, <2>1, <2>2
<1>16. (2 * e) % n = IF 2 * e >= n THEN 2 * e - n ELSE 2 * e  BY <1>2, <1>15, TwiceMod
<1>17. r = (IF 2 * e >= n THEN 2 * e - n ELSE 2 * e) + a
  <2>1. Worth(x, p) \in Int /\ (2 * e) % n \in Int  BY <1>2, <1>12, <1>16 DEF Worth
  <2> QED BY <1>11, <1>16, <2>1
<1>18. r \in 0..(n - 1)
  <2>1. CASE 2 * e >= n
    <3>1. r = P * b - P * R + a  BY <1>3, <1>12, <1>17, <2>1
    <3>2. P * b - P * R = P * (b - R) /\ b - R \in 0..(R - 1)  BY <1>2, <1>8, <1>14, <2>1
    <3>3. P * (b - R) <= P * (R - 1) /\ P * (b - R) >= 0 /\ P * (b - R) \in Int
      <4> DEFINE c == b - R
      <4>1. c \in Nat /\ c <= R - 1 /\ R - 1 \in Int /\ c \in Int  BY <1>2, <3>2
      <4> HIDE DEF c
      <4>2. c * P <= (R - 1) * P <=> c <= R - 1  BY <1>2, <4>1, ScaledOrder
      <4>3. P * c = c * P /\ P * (R - 1) = (R - 1) * P /\ P * c \in Nat  BY <1>2, <4>1
      <4>4. (R - 1) * P \in Int  BY <1>2
      <4>5. P * c <= P * (R - 1) /\ P * c >= 0 /\ P * c \in Int  BY <4>1, <4>2, <4>3, <4>4
      <4> QED BY <4>5 DEF c
    <3>4. P * (R - 1) = n - P  BY <1>2, <1>3
    <3> QED BY <1>2, <1>11, <3>1, <3>2, <3>3, <3>4
  <2>2. CASE ~(2 * e >= n)
    <3>1. r = P * b + a  BY <1>12, <1>17, <2>2
    <3>2. b <= R - 1 /\ b \in Nat  BY <1>2, <1>8, <1>14, <2>2
    <3>3. P * b <= P * (R - 1) /\ P * b >= 0
      <4>1. b \in Int /\ R - 1 \in Int  BY <1>2, <3>2
      <4>2. b * P <= (R - 1) * P <=> b <= R - 1  BY <1>2, <4>1, ScaledOrder
      <4>3. P * b = b * P /\ P * (R - 1) = (R - 1) * P /\ P * b \in Nat /\ (R - 1) * P \in Int
        BY <1>2, <3>2, <4>1
      <4> QED BY <3>2, <4>2, <4>3
    <3>4. P * (R - 1) = n - P  BY <1>2, <1>3
    <3> QED BY <1>2, <1>11, <1>12, <3>1, <3>3, <3>4
  <2> QED BY <2>1, <2>2
<1>19. Turn(B + 1, D, i) = Worth(2 * e >= n, n) + r
  <2>1. CASE 2 * e >= n
    <3>1. Worth(2 * e >= n, n) = n  BY <2>1, Zenon DEF Worth
    <3> QED BY <1>2, <1>11, <1>12, <1>13, <1>17, <2>1, <3>1
  <2>2. CASE ~(2 * e >= n)
    <3>1. Worth(2 * e >= n, n) = 0  BY <2>2, Zenon DEF Worth
    <3> QED BY <1>2, <1>11, <1>12, <1>13, <1>17, <2>2, <3>1
  <2> QED BY <2>1, <2>2
<1>20. 2 * e >= n <=> (d \div R) % 2 = 1
  <2> DEFINE c == IF b >= R THEN 1 ELSE 0
             g == IF b >= R THEN b - R ELSE b
  <2>1. d = Q * v + b /\ v \in Int
    <3>1. d = Q * (d \div Q) + (d % Q)  BY <1>2, <1>4, DivMod
    <3> QED BY <1>11, <3>1 DEF v, b
  <2>2. c \in 0..(2 - 1) /\ g \in 0..(R - 1) /\ b = R * c + g  BY <1>2, <1>8
  <2>3. (2 * e >= n) <=> c = 1  BY <1>14
  <2> HIDE DEF c, g
  <2>4. d = R * (2 * v + c) + g /\ 2 * v + c \in Int
    <3>1. Q * v = R * (2 * v) /\ R * (2 * v + c) = R * (2 * v) + R * c /\ R * c \in Int /\ R * (2 * v) \in Int
      BY <1>2, <2>1, <2>2
    <3> QED BY <1>2, <2>1, <2>2, <3>1
  <2> DEFINE m == 2 * v + c
  <2>5. d \div R = m
    <3> HIDE DEF m
    <3>1. d = R * m + g /\ m \in Int  BY <2>4 DEF m
    <3> QED BY <1>2, <1>4, <2>2, <3>1, DivModIs
  <2>6. m % 2 = c
    <3>1. m \in Int /\ 2 \in Nat \ {0} /\ v \in Int /\ m = 2 * v + c  BY <2>1, <2>4
    <3> HIDE DEF m
    <3> QED BY <2>2, <3>1, DivModIs
  <2> HIDE DEF m
  <2> QED BY <2>3, <2>5, <2>6
<1> QED BY <1>15, <1>18, <1>19, <1>20 DEF r, e, D, n, p, Q, R, v

LEMMA WorthIs ==
  ASSUME NEW n \in Nat \ {0}, NEW x \in BOOLEAN, NEW y \in BOOLEAN, NEW r \in 0..(n - 1),
         NEW s \in 0..(n - 1), Worth(x, n) + r = Worth(y, n) + s
  PROVE  x = y /\ r = s
<1>1. /\ x => Worth(x, n) = n
      /\ ~x => Worth(x, n) = 0
      /\ y => Worth(y, n) = n
      /\ ~y => Worth(y, n) = 0
  BY Zenon DEF Worth
<1>2. (x <=> y) /\ r = s  BY <1>1
<1> QED BY <1>2

LEMMA RoxlTurns ==
  ASSUME NEW z \in Size, NEW d \in 0..(Full(z) - 1), NEW f \in Flags,
         NEW t, StepsOf("roxl", Full(z), d, f, t)
  PROVE  \A k \in Nat :
           /\ t[k].r \in 0..(Full(z) - 1) /\ t[k].x \in BOOLEAN
           /\ Worth(t[k].x, Full(z)) + t[k].r
                = Turn(Bits[z] + 1, Worth(f.x, Full(z)) + d, k % (Bits[z] + 1))
<1> DEFINE n == Full(z)
           B == Bits[z]
           h == Pow2[B - 1]
           w == [i \in Nat |-> Worth(t[i].x, n) + t[i].r]
<1>1. B \in Nat \ {0} /\ n = 2 * h /\ h \in Nat \ {0} /\ n = Pow2[B]
      /\ B + 1 \in Nat \ {0} /\ Pow2[B + 1] = 2 * n
  <2>1. B \in Nat \ {0} /\ n = 2 * h /\ h \in Nat \ {0} /\ n = Pow2[B]  BY Widths DEF Full
  <2>2. Pow2[B + 1] = 2 * Pow2[B]  BY <2>1, Pow2Def
  <2> QED BY <2>1, <2>2
<1>2. ASSUME NEW i \in Nat, t[i].r \in 0..(n - 1)
      PROVE  t[i + 1].r \in 0..(n - 1)
             /\ Worth(t[i + 1].x, n) + t[i + 1].r = Rot1Left(2 * n, Worth(t[i].x, n) + t[i].r)
  <2> DEFINE a == t[i]
             b == t[i + 1]
             c == 2 * a.r >= n
  <2>1. StepTo("roxl", n, a, b) /\ a \in ShiftState  BY DEF StepsOf
  <2> HIDE DEF a, b
  <2>2. b.x = c /\ b.r = ((2 * a.r) % n) + Worth(a.x, 1)
    <3> HIDE DEF n
    <3> QED BY <2>1 DEF StepTo, ToLeft, Worth
  <2>3. a.r \in 0..(n - 1) /\ a.x \in BOOLEAN  BY <1>2, <2>1 DEF a, ShiftState
  <2>4. b.r \in 0..(2 * h - 1)
        /\ Worth(2 * a.r >= 2 * h, 2 * h) + b.r = Rot1Left(2 * (2 * h), Worth(a.x, 2 * h) + a.r)
    <3>1. h \in Nat \ {0} /\ a.r \in 0..(2 * h - 1) /\ b.r = ((2 * a.r) % (2 * h)) + Worth(a.x, 1)
      BY <1>1, <2>2, <2>3
    <3> HIDE DEF h
    <3> QED BY <2>3, <3>1, RoxLeft1
  <2>5. b.r \in 0..(n - 1) /\ Worth(b.x, n) + b.r = Rot1Left(2 * n, Worth(a.x, n) + a.r)
    BY <1>1, <2>2, <2>4, Zenon
  <2> QED BY <2>5 DEF a, b
<1>3. \A i \in Nat : t[i].r \in 0..(n - 1)
  <2> DEFINE T == {i \in Nat : t[i].r \in 0..(n - 1)}
  <2>1. 0 \in T  BY DEF StepsOf
  <2>2. \A i \in T : i + 1 \in T  BY <1>2
  <2>3. T = Nat
    <3>1. T \in SUBSET Nat  OBVIOUS
    <3> HIDE DEF T
    <3> QED BY <2>1, <2>2, <3>1, NatInd
  <2> QED BY <2>3
<1>4. w[0] = Worth(f.x, n) + d  BY DEF StepsOf
<1>5. \A i \in Nat : w[i + 1] = Rot1Left(Pow2[B + 1], w[i])
  <2> SUFFICES ASSUME NEW i \in Nat PROVE w[i + 1] = Rot1Left(Pow2[B + 1], w[i])  OBVIOUS
  <2>1. i + 1 \in Nat /\ t[i].r \in 0..(n - 1)  BY <1>3
  <2>2. Worth(t[i + 1].x, n) + t[i + 1].r = Rot1Left(2 * n, Worth(t[i].x, n) + t[i].r)
    BY <1>2, <2>1
  <2> HIDE DEF n, B
  <2> QED BY <1>1, <2>1, <2>2
<1>6. Worth(f.x, n) + d \in 0..(Pow2[B + 1] - 1)
  <2>1. Worth(f.x, n) \in {0, n}  BY DEF Worth
  <2>2. d \in 0..(n - 1)  OBVIOUS
  <2> HIDE DEF n, B
  <2> QED BY <1>1, <2>1, <2>2
<1>7. \A i \in Nat : w[i] = Turn(B + 1, Worth(f.x, n) + d, i % (B + 1))
  <2> DEFINE C == B + 1
             D == Worth(f.x, n) + d
  <2>1. C \in Nat \ {0} /\ D \in 0..(Pow2[C] - 1) /\ w[0] = D
        /\ \A i \in Nat : w[i + 1] = Rot1Left(Pow2[C], w[i])
    BY <1>1, <1>4, <1>5, <1>6, Zenon
  <2> HIDE DEF w, B, n, C, D
  <2>2. \A i \in Nat : w[i] = Turn(C, D, i % C)  BY <2>1, TurnsLeft, Zenon
  <2> QED BY <2>2, Zenon DEF C, D
<1>8. \A i \in Nat : t[i].x \in BOOLEAN  BY DEF StepsOf, ShiftState
<1> QED BY <1>3, <1>7, <1>8

LEMMA RoxrTurns ==
  ASSUME NEW z \in Size, NEW d \in 0..(Full(z) - 1), NEW f \in Flags,
         NEW t, StepsOf("roxr", Full(z), d, f, t)
  PROVE  \A k \in Nat :
           /\ t[k].r \in 0..(Full(z) - 1) /\ t[k].x \in BOOLEAN
           /\ Worth(t[k].x, Full(z)) + t[k].r
                = Turn(Bits[z] + 1, Worth(f.x, Full(z)) + d, (-k) % (Bits[z] + 1))
<1> DEFINE n == Full(z)
           B == Bits[z]
           h == Pow2[B - 1]
           w == [i \in Nat |-> Worth(t[i].x, n) + t[i].r]
<1>1. B \in Nat \ {0} /\ n = 2 * h /\ h \in Nat \ {0} /\ n = Pow2[B]
      /\ B + 1 \in Nat \ {0} /\ Pow2[B + 1] = 2 * n
  <2>1. B \in Nat \ {0} /\ n = 2 * h /\ h \in Nat \ {0} /\ n = Pow2[B]  BY Widths DEF Full
  <2>2. Pow2[B + 1] = 2 * Pow2[B]  BY <2>1, Pow2Def
  <2> QED BY <2>1, <2>2
<1>2. ASSUME NEW i \in Nat, t[i].r \in 0..(n - 1)
      PROVE  t[i + 1].r \in 0..(n - 1)
             /\ Worth(t[i + 1].x, n) + t[i + 1].r = Rot1Right(2 * n, Worth(t[i].x, n) + t[i].r)
  <2> DEFINE a == t[i]
             b == t[i + 1]
             c == a.r % 2 = 1
  <2>1. StepTo("roxr", n, a, b) /\ a \in ShiftState  BY DEF StepsOf
  <2> HIDE DEF a, b
  <2>2. b.x = c /\ b.r = (a.r \div 2) + Worth(a.x, n \div 2)
    <3> HIDE DEF n
    <3> QED BY <2>1 DEF StepTo, ToLeft, Worth
  <2>3. a.r \in 0..(n - 1) /\ a.x \in BOOLEAN  BY <1>2, <2>1 DEF a, ShiftState
  <2>4. b.r \in 0..(2 * h - 1)
        /\ Worth(a.r % 2 = 1, 2 * h) + b.r = Rot1Right(2 * (2 * h), Worth(a.x, 2 * h) + a.r)
    <3>1. h \in Nat \ {0} /\ a.r \in 0..(2 * h - 1)
          /\ b.r = (a.r \div 2) + Worth(a.x, (2 * h) \div 2)
      BY <1>1, <2>2, <2>3
    <3> DEFINE g == a.r
               y == a.x
               s == b.r
    <3>2. h \in Nat \ {0} /\ g \in 0..(2 * h - 1) /\ y \in BOOLEAN
          /\ s = (g \div 2) + Worth(y, (2 * h) \div 2)
      BY <2>3, <3>1
    <3> HIDE DEF h, g, y, s
    <3>3. RoxedRight(h, g, y, s)  BY <3>2, RoxRight1, Zenon
    <3>4. /\ s \in 0..(2 * h - 1)
          /\ Worth(g % 2 = 1, 2 * h) + s = Rot1Right(2 * (2 * h), Worth(y, 2 * h) + g)
      BY <3>3, Zenon DEF RoxedRight
    <3> QED BY <3>4 DEF g, y, s
  <2>5. b.r \in 0..(n - 1) /\ Worth(b.x, n) + b.r = Rot1Right(2 * n, Worth(a.x, n) + a.r)
    BY <1>1, <2>2, <2>4, Zenon
  <2> QED BY <2>5 DEF a, b
<1>3. \A i \in Nat : t[i].r \in 0..(n - 1)
  <2> DEFINE T == {i \in Nat : t[i].r \in 0..(n - 1)}
  <2>1. 0 \in T  BY DEF StepsOf
  <2>2. \A i \in T : i + 1 \in T  BY <1>2
  <2>3. T = Nat
    <3>1. T \in SUBSET Nat  OBVIOUS
    <3> HIDE DEF T
    <3> QED BY <2>1, <2>2, <3>1, NatInd
  <2> QED BY <2>3
<1>4. w[0] = Worth(f.x, n) + d  BY DEF StepsOf
<1>5. \A i \in Nat : w[i + 1] = Rot1Right(Pow2[B + 1], w[i])
  <2> SUFFICES ASSUME NEW i \in Nat PROVE w[i + 1] = Rot1Right(Pow2[B + 1], w[i])  OBVIOUS
  <2>1. i + 1 \in Nat /\ t[i].r \in 0..(n - 1)  BY <1>3
  <2>2. Worth(t[i + 1].x, n) + t[i + 1].r = Rot1Right(2 * n, Worth(t[i].x, n) + t[i].r)
    BY <1>2, <2>1
  <2> HIDE DEF n, B
  <2> QED BY <1>1, <2>1, <2>2
<1>6. Worth(f.x, n) + d \in 0..(Pow2[B + 1] - 1)
  <2>1. Worth(f.x, n) \in {0, n}  BY DEF Worth
  <2>2. d \in 0..(n - 1)  OBVIOUS
  <2> HIDE DEF n, B
  <2> QED BY <1>1, <2>1, <2>2
<1>7. \A i \in Nat : w[i] = Turn(B + 1, Worth(f.x, n) + d, (-i) % (B + 1))
  <2> DEFINE C == B + 1
             D == Worth(f.x, n) + d
  <2>1. C \in Nat \ {0} /\ D \in 0..(Pow2[C] - 1) /\ w[0] = D
        /\ \A i \in Nat : w[i + 1] = Rot1Right(Pow2[C], w[i])
    BY <1>1, <1>4, <1>5, <1>6, Zenon
  <2> HIDE DEF w, B, n, C, D
  <2>2. \A i \in Nat : w[i] = Turn(C, D, (-i) % C)  BY <2>1, TurnsRight, Zenon
  <2> QED BY <2>2, Zenon DEF C, D
<1>8. \A i \in Nat : t[i].x \in BOOLEAN  BY DEF StepsOf, ShiftState
<1> QED BY <1>3, <1>7, <1>8

(* No bits or a whole turn: the operand and X are left, C is X.            *)
LEMMA RoxNone ==
  ASSUME NEW op \in {"roxl", "roxr"}, NEW z \in Size, NEW d \in 0..(Full(z) - 1), NEW f \in Flags,
         NEW s \in ShiftState, s.r \in 0..(Full(z) - 1), s.v = FALSE,
         Worth(s.x, Full(z)) + s.r = Turn(Bits[z] + 1, Worth(f.x, Full(z)) + d, 0)
  PROVE  SameAs(op, z, s, Shifted(d * Unit(z), f.x, FALSE, f.x))
<1> DEFINE n == Full(z)
           B == Bits[z]
<1>1. B \in Nat \ {0} /\ n \in Nat \ {0} /\ n = Pow2[B] /\ Pow2[B + 1] = 2 * n /\ B + 1 \in Nat \ {0}
  <2>1. B \in Nat \ {0} /\ n \in Nat \ {0} /\ n = Pow2[B]  BY Widths DEF Full
  <2>2. Pow2[B + 1] = 2 * Pow2[B]  BY <2>1, Pow2Def
  <2> QED BY <2>1, <2>2
<1>2. f.x \in BOOLEAN /\ s.x \in BOOLEAN /\ FALSE \in BOOLEAN  BY DEF Flags, ShiftState
<1>3. Worth(f.x, n) + d \in 0..(Pow2[B + 1] - 1)
  <2>1. Worth(f.x, n) \in {0, n}  BY DEF Worth
  <2>2. d \in 0..(n - 1)  OBVIOUS
  <2> HIDE DEF n, B
  <2> QED BY <1>1, <2>1, <2>2
<1>4. Turn(B + 1, Worth(f.x, n) + d, 0) = Worth(f.x, n) + d
  <2>1. 0 \in 0..(B + 1)  BY <1>1
  <2> DEFINE w == Worth(f.x, n) + d
  <2> HIDE DEF w, B
  <2> QED BY <1>1, <1>3, <2>1, Turns DEF w
<1>5. s.x = f.x /\ s.r = d
  <2>1. d \in 0..(n - 1) /\ s.r \in 0..(n - 1)  OBVIOUS
  <2>2. Worth(s.x, n) + s.r = Worth(f.x, n) + d  BY <1>4
  <2> HIDE DEF n
  <2> QED BY <1>1, <1>2, <2>1, <2>2, WorthIs
<1>6. SameAs(op, z, s, Shifted(d * Unit(z), f.x, FALSE, f.x))
  <2>1. d * Unit(z) = s.r * Unit(z) /\ s.v = FALSE  BY <1>5
  <2>2. f.x = IF op \in {"roxl", "roxr"} THEN s.x ELSE s.c  BY <1>5
  <2> QED BY <1>2, <1>5, <2>1, <2>2, Agrees
<1> QED BY <1>6

(* What the code puts together for ROXL by 1 to B bits.                    *)
LEMMA RoxlParts ==
  ASSUME NEW z \in Size, NEW d \in 0..(Full(z) - 1), NEW f \in Flags, NEW j \in 1..Bits[z],
         NEW e, e = (d * Unit(z) * Pow2[j - 1]) % M,
         NEW g, g = (d * Pow2[j - 1]) % Full(z)
  PROVE  /\ (Msb(e) <=> 2 * g >= Full(z))
         /\ ((2 * e) % M) + Extend(f, z) * Pow2[j - 1]
              + Aligned(((d * Unit(z)) \div 2) \div Pow2[Bits[z] - j], z)
            = (((2 * g) % Full(z)) + Worth(f.x, Pow2[j - 1]) + (d \div Pow2[Bits[z] + 1 - j])) * Unit(z)
<1> DEFINE p == Pow2[j - 1]
           B == Bits[z]
           R == Pow2[B - j]
           Q == Pow2[B + 1 - j]
           u == Unit(z)
           n == Full(z)
<1>1. B \in Nat \ {0} /\ u \in Nat \ {0} /\ n \in Nat \ {0} /\ d \in Int  BY Widths
<1>2. p \in Nat \ {0} /\ R \in Nat \ {0} /\ Q = 2 * R /\ Q \in Nat \ {0} /\ p \in Int
  <2>1. j - 1 \in Nat /\ B - j \in Nat /\ B + 1 - j = (B - j) + 1  BY <1>1
  <2> QED BY <2>1, Pow2Positive, Pow2Def
<1> HIDE DEF p, R, Q, B
<1>3. e = g * u /\ g \in 0..(n - 1) /\ g \in Int
  <2>1. (d * u * p) % M = ((d * p) % n) * u /\ (d * p) % n \in 0..(n - 1)  BY <1>1, <1>2, ScaledLeft
  <2>2. e = (d * u * p) % M /\ g = (d * p) % n  BY DEF p
  <2> QED BY <2>1, <2>2, <1>1
<1>4. Msb(e) <=> 2 * g >= n  BY <1>3, ScaledSign
<1>5. (2 * e) % M = ((2 * g) % n) * u /\ (2 * g) % n \in Int
  <2>0. 2 \in Int  OBVIOUS
  <2>1. (g * u * 2) % M = ((g * 2) % n) * u /\ (g * 2) % n \in 0..(n - 1)
    BY <1>3, <2>0, ScaledLeft, Zenon
  <2>2. g * u * 2 = 2 * e /\ g * 2 = 2 * g  BY <1>1, <1>3
  <2> HIDE DEF n
  <2> QED BY <1>1, <2>1, <2>2
<1>6. Extend(f, z) * p = Worth(f.x, p) * u /\ Worth(f.x, p) \in Int
  <2>1. CASE f.x
    <3>1. Extend(f, z) = u /\ Worth(f.x, p) = p  BY <2>1, Zenon DEF Extend, Worth
    <3> QED BY <1>1, <1>2, <3>1
  <2>2. CASE ~f.x
    <3>1. Extend(f, z) = 0 /\ Worth(f.x, p) = 0  BY <2>2, Zenon DEF Extend, Worth
    <3> QED BY <1>1, <1>2, <3>1
  <2> QED BY <2>1, <2>2
<1>7. Aligned(((d * u) \div 2) \div R, z) = (d \div Q) * u /\ d \div Q \in Int
  <2> DEFINE v == d * u
  <2>1. v \in Int /\ 2 \in Nat \ {0}  BY <1>1
  <2>2. Aligned(v \div Q, z) = (d \div Q) * u /\ d \div Q \in Int  BY <1>1, <1>2, ScaledRight
  <2> HIDE DEF v
  <2>3. (v \div 2) \div R = v \div (2 * R)  BY <1>2, <2>1, DivDiv
  <2>4. (v \div 2) \div R = v \div Q  BY <1>2, <2>3
  <2> QED BY <2>2, <2>4 DEF v
<1> DEFINE a == (2 * g) % n
           b == Worth(f.x, p)
           c == d \div Q
<1>8. a * u + b * u + c * u = (a + b + c) * u
  <2>1. a \in Int /\ b \in Int /\ c \in Int /\ u \in Int  BY <1>1, <1>5, <1>6, <1>7
  <2> HIDE DEF a, b, c, u
  <2> QED BY <2>1
<1> HIDE DEF a, b, c
<1>9. ((2 * e) % M) + Extend(f, z) * p + Aligned(((d * u) \div 2) \div R, z) = (a + b + c) * u
  <2>1. (2 * e) % M = a * u /\ Extend(f, z) * p = b * u /\ Aligned(((d * u) \div 2) \div R, z) = c * u
    BY <1>5, <1>6, <1>7 DEF a, b, c
  <2> QED BY <1>8, <2>1, Zenon
<1> QED BY <1>4, <1>9 DEF a, b, c, p, R, Q, B

LEMMA RoxlBits ==
  ASSUME NEW z \in Size, NEW d \in 0..(Full(z) - 1), NEW f \in Flags,
         NEW t, StepsOf("roxl", Full(z), d, f, t), NEW k \in Nat
  PROVE  SameAs("roxl", z, t[k], Roxl68(d * Unit(z), k, z, f))
<1> DEFINE n == Full(z)
           B == Bits[z]
           j == k % (B + 1)
           e == (d * Unit(z) * Pow2[j - 1]) % M
           g == (d * Pow2[j - 1]) % n
           s == t[k]
           res == Roxl68(d * Unit(z), k, z, f)
           cc == Msb(e)
           sum == ((2 * e) % M) + Extend(f, z) * Pow2[j - 1]
                    + Aligned(((d * Unit(z)) \div 2) \div Pow2[B - j], z)
           r == ((2 * g) % n) + Worth(f.x, Pow2[j - 1]) + (d \div Pow2[B + 1 - j])
<1>1. s.r \in 0..(n - 1) /\ s.x \in BOOLEAN
      /\ Worth(s.x, n) + s.r = Turn(B + 1, Worth(f.x, n) + d, j)
  BY RoxlTurns
<1>2. s \in ShiftState /\ s.v = FALSE /\ f.x \in BOOLEAN  BY DEF StepsOf, Flags
<1>3. B \in Nat \ {0} /\ n \in Nat \ {0} /\ n = Pow2[B]  BY Widths DEF Full
<1>4. j \in 0..B
  <2>1. B + 1 \in Nat \ {0} /\ k \in Int /\ (B + 1) - 1 = B  BY <1>3
  <2> HIDE DEF B
  <2>2. k % (B + 1) \in 0..((B + 1) - 1)  BY <2>1, DivMod
  <2> QED BY <2>1, <2>2
<1>5. CASE j = 0
  <2>1. res = Shifted(d * Unit(z), f.x, FALSE, f.x)  BY <1>5, Zenon DEF Roxl68
  <2>2. Worth(s.x, n) + s.r = Turn(B + 1, Worth(f.x, n) + d, 0)  BY <1>1, <1>5
  <2> HIDE DEF s, res
  <2>3. SameAs("roxl", z, s, Shifted(d * Unit(z), f.x, FALSE, f.x))
    BY <1>1, <1>2, <2>2, RoxNone
  <2> QED BY <2>1, <2>3 DEF s, res
<1>6. CASE j # 0
  <2>1. j \in 1..B  BY <1>3, <1>4, <1>6
  <2>2. res = Shifted(sum, cc, FALSE, cc)  BY <1>6, Zenon DEF Roxl68
  <2> HIDE DEF j, s, res
  <2>3. (Msb(e) <=> 2 * g >= n) /\ sum = r * Unit(z)  BY <2>1, RoxlParts
  <2>4. r \in 0..(n - 1) /\ Turn(B + 1, Worth(f.x, n) + d, j) = Worth(2 * g >= n, n) + r
    <3>1. d \in 0..(Pow2[B] - 1)  BY <1>3
    <3> HIDE DEF B, n
    <3>2. LET E == (d * Pow2[j - 1]) % Pow2[B]
              R == ((2 * E) % Pow2[B]) + Worth(f.x, Pow2[j - 1]) + (d \div Pow2[B + 1 - j])
          IN  /\ R \in 0..(Pow2[B] - 1) /\ E \in 0..(Pow2[B] - 1)
              /\ Turn(B + 1, Worth(f.x, Pow2[B]) + d, j) = Worth(2 * E >= Pow2[B], Pow2[B]) + R
      BY <1>2, <1>3, <2>1, <3>1, RoxSplit
    <3> QED BY <1>3, <3>2, Zenon
  <2> HIDE DEF g, sum, r
  <2>5. s.x = (2 * g >= n) /\ s.r = r
    <3>1. (2 * g >= n) \in BOOLEAN  OBVIOUS
    <3>2. Worth(s.x, n) + s.r = Worth(2 * g >= n, n) + r  BY <1>1, <2>4
    <3> DEFINE y == 2 * g >= n
    <3> HIDE DEF y, n
    <3>3. y \in BOOLEAN /\ Worth(s.x, n) + s.r = Worth(y, n) + r  BY <3>1, <3>2 DEF y
    <3>4. s.x = y /\ s.r = r  BY <1>1, <1>3, <2>4, <3>3, WorthIs
    <3> QED BY <3>4 DEF y
  <2>6. cc = s.x
    <3>1. cc \in BOOLEAN  BY DEF Msb
    <3>2. cc <=> s.x  BY <2>3, <2>5
    <3> HIDE DEF cc
    <3> QED BY <1>1, <3>1, <3>2
  <2> HIDE DEF cc
  <2>7. SameAs("roxl", z, s, Shifted(sum, cc, FALSE, cc))
    <3>1. FALSE \in BOOLEAN /\ cc \in BOOLEAN /\ s.r \in 0..(Full(z) - 1)  BY <1>1, <2>6
    <3>2. cc = IF "roxl" \in {"roxl", "roxr"} THEN s.x ELSE s.c  BY <2>6
    <3>3. sum = s.r * Unit(z) /\ s.v = FALSE /\ cc = s.x  BY <1>2, <2>3, <2>5, <2>6
    <3> QED BY <1>2, <3>1, <3>2, <3>3, Agrees
  <2> QED BY <2>2, <2>7 DEF s, res
<1> QED BY <1>5, <1>6

(* What the code puts together for ROXR by 1 to B bits.                    *)
LEMMA RoxrParts ==
  ASSUME NEW z \in Size, NEW d \in 0..(Full(z) - 1), NEW f \in Flags, NEW j \in 1..Bits[z],
         NEW e, e = (d * Unit(z)) \div Pow2[j - 1],
         NEW g, g = (d * Pow2[Bits[z] - j]) % Full(z)
  PROVE  /\ (Lsb(e, z) <=> (d \div Pow2[j - 1]) % 2 = 1)
         /\ (IF f.x THEN Pow2[SIGN_BIT + 1 - j] ELSE 0) + Aligned(e \div 2, z)
              + ((((2 * (d * Unit(z))) % M) * Pow2[Bits[z] - j]) % M)
            = (((2 * g) % Full(z)) + Worth(f.x, Pow2[Bits[z] - j]) + (d \div Pow2[j])) * Unit(z)
<1> DEFINE B == Bits[z]
           P == Pow2[B - j]
           u == Unit(z)
           n == Full(z)
<1>1. /\ B \in Nat \ {0} /\ u \in Nat \ {0} /\ n \in Nat \ {0} /\ d \in Int
      /\ u = Pow2[SIGN_BIT + 1 - B] /\ j \in Nat \ {0} /\ j \in Nat
      /\ B - j \in Nat /\ SIGN_BIT + 1 - B \in Nat
      /\ (B - j) + (SIGN_BIT + 1 - B) = SIGN_BIT + 1 - j
  BY Widths DEF Unit
<1>2. P \in Nat \ {0} /\ P \in Int  BY <1>1, Pow2Positive
<1>3. Pow2[SIGN_BIT + 1 - j] = P * u
  <2>1. Pow2[(B - j) + (SIGN_BIT + 1 - B)] = P * u  BY <1>1, Pow2Sum
  <2> QED BY <1>1, <2>1, Zenon
<1>4. (Lsb(e, z) <=> (d \div Pow2[j - 1]) % 2 = 1) /\ Aligned(e \div 2, z) = (d \div Pow2[j]) * u
  <2>1. RightOf(z, j, d, e)  BY <1>1, LastRight
  <2> QED BY <2>1 DEF RightOf
<1>5. d \div Pow2[j] \in Int
  <2>1. Pow2[j] \in Nat \ {0}  BY <1>1, Pow2Positive
  <2> QED BY <1>1, <2>1, DivMod
<1> HIDE DEF P, B, n
<1> DEFINE q == (2 * d) % n
<1>6. (2 * (d * u)) % M = q * u /\ q \in Int
  <2>0. 2 \in Int  OBVIOUS
  <2>1. (d * u * 2) % M = ((d * 2) % n) * u /\ (d * 2) % n \in 0..(n - 1)
    BY <1>1, <2>0, ScaledLeft, Zenon DEF n
  <2>2. d * u * 2 = 2 * (d * u) /\ d * 2 = 2 * d  BY <1>1
  <2> QED BY <1>1, <2>1, <2>2
<1>7. ((q * u) * P) % M = ((2 * g) % n) * u /\ (2 * g) % n \in Int
  <2> DEFINE m == 2 * d
             a == d * P
  <2>1. m \in Int /\ a \in Int /\ 2 \in Int /\ P * m = 2 * a  BY <1>1, <1>2
  <2>2. g = a % n  BY DEF n, P, B
  <2> HIDE DEF m, a
  <2>3. (P * (m % n)) % n = (P * m) % n /\ (2 * (a % n)) % n = (2 * a) % n
    BY <1>1, <1>2, <2>1, ModTimes
  <2>4. q = m % n  BY DEF m
  <2> HIDE DEF q
  <2>5. (q * u * P) % M = ((q * P) % n) * u /\ (q * P) % n \in 0..(n - 1)
    BY <1>2, <1>6, ScaledLeft DEF n
  <2>6. q * P = P * q  BY <1>2, <1>6
  <2>7. (q * P) % n = (2 * g) % n
    <3>1. (q * P) % n = (P * (m % n)) % n  BY <2>4, <2>6
    <3>2. (2 * g) % n = (2 * (a % n)) % n  BY <2>2
    <3> QED BY <2>1, <2>3, <3>1, <3>2, Zenon
  <2>8. ((2 * g) % n) \in 0..(n - 1)  BY <2>5, <2>7
  <2>9. ((q * u) * P) % M = ((2 * g) % n) * u  BY <2>5, <2>7
  <2> QED BY <1>1, <2>8, <2>9
<1>8. (IF f.x THEN P * u ELSE 0) = Worth(f.x, P) * u /\ Worth(f.x, P) \in Int
  <2>1. CASE f.x
    <3>1. Worth(f.x, P) = P  BY <2>1, Zenon DEF Worth
    <3> QED BY <1>1, <1>2, <2>1, <3>1
  <2>2. CASE ~f.x
    <3>1. Worth(f.x, P) = 0  BY <2>2, Zenon DEF Worth
    <3> QED BY <1>1, <1>2, <2>2, <3>1
  <2> QED BY <2>1, <2>2
<1> HIDE DEF q
<1> DEFINE a == (2 * g) % n
           b == Worth(f.x, P)
           c == d \div Pow2[j]
<1>9. b * u + c * u + a * u = (a + b + c) * u
  <2>1. a \in Int /\ b \in Int /\ c \in Int /\ u \in Int  BY <1>1, <1>5, <1>7, <1>8
  <2> HIDE DEF a, b, c, u
  <2> QED BY <2>1
<1> HIDE DEF a, b, c
<1>10. (IF f.x THEN Pow2[SIGN_BIT + 1 - j] ELSE 0) + Aligned(e \div 2, z)
         + ((((2 * (d * u)) % M) * P) % M) = (a + b + c) * u
  <2>1. /\ (IF f.x THEN Pow2[SIGN_BIT + 1 - j] ELSE 0) = b * u
        /\ Aligned(e \div 2, z) = c * u
        /\ (((2 * (d * u)) % M) * P) % M = a * u
    <3>1. (IF f.x THEN Pow2[SIGN_BIT + 1 - j] ELSE 0) = b * u  BY <1>3, <1>8, Zenon DEF b
    <3>2. (((2 * (d * u)) % M) * P) % M = a * u  BY <1>6, <1>7, Zenon DEF a
    <3> QED BY <1>4, <3>1, <3>2, Zenon DEF c
  <2> QED BY <1>9, <2>1, Zenon
<1> QED BY <1>4, <1>10 DEF a, b, c, P, B, n

LEMMA RoxrBits ==
  ASSUME NEW z \in Size, NEW d \in 0..(Full(z) - 1), NEW f \in Flags,
         NEW t, StepsOf("roxr", Full(z), d, f, t), NEW k \in Nat
  PROVE  SameAs("roxr", z, t[k], Roxr68(d * Unit(z), k, z, f))
<1> DEFINE n == Full(z)
           B == Bits[z]
           j == k % (B + 1)
           i == (-k) % (B + 1)
           e == (d * Unit(z)) \div Pow2[j - 1]
           g == (d * Pow2[B - j]) % n
           s == t[k]
           res == Roxr68(d * Unit(z), k, z, f)
           cc == Lsb(e, z)
           sum == (IF f.x THEN Pow2[SIGN_BIT + 1 - j] ELSE 0) + Aligned(e \div 2, z)
                    + ((((2 * (d * Unit(z))) % M) * Pow2[B - j]) % M)
           r == ((2 * g) % n) + Worth(f.x, Pow2[B - j]) + (d \div Pow2[j])
<1>1. s.r \in 0..(n - 1) /\ s.x \in BOOLEAN
      /\ Worth(s.x, n) + s.r = Turn(B + 1, Worth(f.x, n) + d, i)
  BY RoxrTurns
<1>2. s \in ShiftState /\ s.v = FALSE /\ f.x \in BOOLEAN  BY DEF StepsOf, Flags
<1>3. B \in Nat \ {0} /\ n \in Nat \ {0} /\ n = Pow2[B]  BY Widths DEF Full
<1>4. j \in 0..B /\ i = IF j = 0 THEN 0 ELSE B + 1 - j
  <2> DEFINE N == B + 1
             q == k \div N
             v == -k
  <2>1. N \in Nat \ {0} /\ k \in Int /\ N - 1 = B /\ v \in Int /\ v = -k  BY <1>3
  <2> HIDE DEF N, v
  <2>2. k = N * q + j /\ j \in 0..(N - 1) /\ q \in Int
    <3>1. k = N * (k \div N) + (k % N) /\ k % N \in 0..(N - 1) /\ k \div N \in Int
      BY <2>1, DivMod
    <3> QED BY <3>1 DEF N
  <2>3. i = v % N  BY DEF N, v
  <2> HIDE DEF q, j, i
  <2>4. CASE j = 0
    <3> DEFINE a == -q
    <3>1. N * a = -(N * q) /\ a \in Int  BY <2>1, <2>2
    <3> HIDE DEF a
    <3>2. v = N * a + 0 /\ 0 \in 0..(N - 1)  BY <2>1, <2>2, <2>4, <3>1
    <3> DEFINE o == 0
    <3>3. o \in 0..(N - 1) /\ v = N * a + o  BY <3>2
    <3> HIDE DEF o
    <3>4. v % N = o  BY <2>1, <3>1, <3>3, DivModIs
    <3> QED BY <2>1, <2>2, <2>3, <2>4, <3>4 DEF o
  <2>5. CASE j # 0
    <3> DEFINE a == -q - 1
               o == N - j
    <3>1. N * a = -(N * q) - N /\ a \in Int /\ o \in 0..(N - 1)  BY <2>1, <2>2, <2>5
    <3> HIDE DEF a
    <3>2. v = N * a + o  BY <2>1, <2>2, <3>1
    <3> HIDE DEF o
    <3>3. v % N = o  BY <2>1, <3>1, <3>2, DivModIs
    <3>4. o = N - j  BY DEF o
    <3>5. i = N - j  BY <2>3, <3>3, <3>4
    <3> QED BY <2>1, <2>2, <2>5, <3>5 DEF N
  <2> QED BY <2>4, <2>5
<1>5. CASE j = 0
  <2>1. res = Shifted(d * Unit(z), f.x, FALSE, f.x)  BY <1>5, Zenon DEF Roxr68
  <2>2. Worth(s.x, n) + s.r = Turn(B + 1, Worth(f.x, n) + d, 0)
    <3> HIDE DEF i, j
    <3> QED BY <1>1, <1>4, <1>5
  <2> HIDE DEF s, res
  <2>3. SameAs("roxr", z, s, Shifted(d * Unit(z), f.x, FALSE, f.x))
    BY <1>1, <1>2, <2>2, RoxNone
  <2> QED BY <2>1, <2>3 DEF s, res
<1>6. CASE j # 0
  <2>2. res = Shifted(sum, cc, FALSE, cc)  BY <1>6, Zenon DEF Roxr68
  <2> HIDE DEF j, i, s, res
  <2>1. /\ j \in 1..B /\ i \in 1..B /\ i = B + 1 - j /\ i - 1 = B - j /\ B + 1 - i = j
        /\ B - i = j - 1
    BY <1>3, <1>4, <1>6
  <2>3. (Lsb(e, z) <=> (d \div Pow2[j - 1]) % 2 = 1) /\ sum = r * Unit(z)  BY <2>1, RoxrParts
  <2>4. /\ r \in 0..(n - 1) /\ Turn(B + 1, Worth(f.x, n) + d, i) = Worth(2 * g >= n, n) + r
        /\ 2 * g >= n <=> (d \div Pow2[j - 1]) % 2 = 1
    <3>1. d \in 0..(Pow2[B] - 1)  BY <1>3
    <3> HIDE DEF B, n
    <3>2. LET E == (d * Pow2[i - 1]) % Pow2[B]
              R == ((2 * E) % Pow2[B]) + Worth(f.x, Pow2[i - 1]) + (d \div Pow2[B + 1 - i])
          IN  /\ R \in 0..(Pow2[B] - 1) /\ E \in 0..(Pow2[B] - 1)
              /\ Turn(B + 1, Worth(f.x, Pow2[B]) + d, i) = Worth(2 * E >= Pow2[B], Pow2[B]) + R
              /\ 2 * E >= Pow2[B] <=> (d \div Pow2[B - i]) % 2 = 1
      BY <1>2, <1>3, <2>1, <3>1, RoxSplit
    <3> QED BY <1>3, <2>1, <3>2, Zenon
  <2> HIDE DEF g, sum, r
  <2>5. s.x = (2 * g >= n) /\ s.r = r
    <3>1. (2 * g >= n) \in BOOLEAN  OBVIOUS
    <3>2. Worth(s.x, n) + s.r = Worth(2 * g >= n, n) + r  BY <1>1, <2>4
    <3> DEFINE y == 2 * g >= n
    <3> HIDE DEF y, n
    <3>3. y \in BOOLEAN /\ Worth(s.x, n) + s.r = Worth(y, n) + r  BY <3>1, <3>2 DEF y
    <3>4. s.x = y /\ s.r = r  BY <1>1, <1>3, <2>4, <3>3, WorthIs
    <3> QED BY <3>4 DEF y
  <2>6. cc = s.x
    <3>1. cc \in BOOLEAN  BY DEF Lsb
    <3>2. cc <=> s.x  BY <2>3, <2>4, <2>5, Zenon
    <3> HIDE DEF cc
    <3> QED BY <1>1, <3>1, <3>2
  <2> HIDE DEF cc
  <2>7. SameAs("roxr", z, s, Shifted(sum, cc, FALSE, cc))
    <3>1. FALSE \in BOOLEAN /\ cc \in BOOLEAN /\ s.r \in 0..(Full(z) - 1)  BY <1>1, <2>6
    <3>2. cc = IF "roxr" \in {"roxl", "roxr"} THEN s.x ELSE s.c  BY <2>6
    <3>3. sum = s.r * Unit(z) /\ s.v = FALSE /\ cc = s.x  BY <1>2, <2>3, <2>5, <2>6
    <3> QED BY <1>2, <3>1, <3>2, <3>3, Agrees
  <2> QED BY <2>2, <2>7 DEF s, res
<1> QED BY <1>5, <1>6

(* A shift by its name.                                                    *)
Shift68(op, d, k, z, f) ==
  CASE op = "asl"  -> Asl68(d, k, z, f)
    [] op = "asr"  -> Asr68(d, k, z, f)
    [] op = "lsl"  -> Lsl68(d, k, z, f)
    [] op = "lsr"  -> Lsr68(d, k, z, f)
    [] op = "rol"  -> Rol68(d, k, z, f)
    [] op = "ror"  -> Ror68(d, k, z, f)
    [] op = "roxl" -> Roxl68(d, k, z, f)
    [] op = "roxr" -> Roxr68(d, k, z, f)

(* The shifts of inl68_shifting.h, which do all bits at once on operands   *)
(* moved up to the sign of an int68_t and treat counts of 0, of the size   *)
(* and beyond it apart, leave what as many shifts by one bit leave: the    *)
(* result and all flags but the X of LSL, whatever the width of int68_t.   *)
THEOREM ShiftsAreBits ==
  ASSUME NEW op \in ToLeft \cup ToRight, NEW z \in Size, NEW d \in 0..(Full(z) - 1),
         NEW f \in Flags, NEW k \in Nat
  PROVE  SameAs(op, z, BitByBit(op, Full(z), d, f)[k], Shift68(op, d * Unit(z), k, z, f))
<1> DEFINE t == BitByBit(op, Full(z), d, f)
           D == d * Unit(z)
<1>1. StepsOf(op, Full(z), d, f, t)
  <2>1. d \in Int /\ Full(z) \in Nat \ {0}  BY Widths
  <2> QED BY <2>1, ByBits
<1> HIDE DEF t
<1>2. CASE op = "asl"  BY <1>1, <1>2, AslBits, Zenon DEF Shift68, t
<1>3. CASE op = "asr"  BY <1>1, <1>3, AsrBits, Zenon DEF Shift68, t
<1>4. CASE op = "lsl"  BY <1>1, <1>4, LslBits, Zenon DEF Shift68, t
<1>5. CASE op = "lsr"  BY <1>1, <1>5, LsrBits, Zenon DEF Shift68, t
<1>6. CASE op = "rol"  BY <1>1, <1>6, RolBits, Zenon DEF Shift68, t
<1>7. CASE op = "ror"  BY <1>1, <1>7, RorBits, Zenon DEF Shift68, t
<1>8. CASE op = "roxl"  BY <1>1, <1>8, RoxlBits, Zenon DEF Shift68, t
<1>9. CASE op = "roxr"  BY <1>1, <1>9, RoxrBits, Zenon DEF Shift68, t
<1> QED BY <1>2, <1>3, <1>4, <1>5, <1>6, <1>7, <1>8, <1>9 DEF ToLeft, ToRight

-----------------------------------------------------------------------------
(* What the other operations leave: a value of the size, and X.            *)
LEMMA DownIs ==
  ASSUME NEW z \in Size, NEW v \in Value68
  PROVE  Down(v, z) \in 0..(Full(z) - 1)
<1> DEFINE u == Unit(z)
           n == Full(z)
           q == v \div u
           r == v % u
<1>1. u \in Nat \ {0} /\ n \in Nat \ {0} /\ n * u = M  BY Widths
<1>2. v \in Int /\ v >= 0 /\ v < M  BY Halves DEF Value68
<1> HIDE DEF u, n
<1>3. v = u * q + r /\ r \in 0..(u - 1) /\ q \in Nat  BY <1>1, <1>2, DivMod
<1> HIDE DEF q, r
<1>4. q < n
  <2>1. u * q = q * u /\ q * u \in Int /\ n * u \in Int  BY <1>1, <1>3
  <2>2. n * u <= q * u <=> n <= q
    <3>1. n \in Int /\ q \in Int  BY <1>1, <1>3
    <3> QED BY <1>1, <3>1, ScaledOrder
  <2> QED BY <1>1, <1>2, <1>3, <2>1, <2>2
<1>5. q \in 0..(n - 1)  BY <1>1, <1>3, <1>4
<1> QED BY <1>5 DEF q, n, u, Down

LEMMA TestedIs ==
  ASSUME NEW z \in Size, NEW r \in Value68, NEW f \in Flags
  PROVE  /\ Down(Tested(r, f).r, z) \in 0..(Full(z) - 1)
         /\ Tested(r, f).f \in Flags /\ Tested(r, f).f.x = f.x
<1>1. Tested(r, f).r = r  BY DEF Tested
<1>2. Tested(r, f).f \in Flags /\ Tested(r, f).f.x = f.x  BY DEF Tested, Tst68, Flags, Msb
<1> QED BY <1>1, <1>2, DownIs

(* The worth of a set of bits.                                             *)
LEMMA BelowIs ==
  ASSUME NEW b
  PROVE  \A n \in Nat : Below(b)[n] \in 0..(Pow2[n] - 1)
<1> DEFINE G(n, v) == v + (IF n - 1 \in b THEN Pow2[n - 1] ELSE 0)
           F == [n \in Nat |-> [v \in Int |-> IF n = 0 THEN v ELSE G(n, v)]]
           P(t) == t = [n \in Nat |-> IF n = 0 THEN 0 ELSE G(n, t[n - 1])]
           t == CHOOSE g : P(g)
<1>1. F \in [Nat -> [Int -> Int]]
  <2>1. ASSUME NEW n \in Nat, NEW v \in Int, n # 0 PROVE G(n, v) \in Int
    <3>1. Pow2[n - 1] \in Nat  BY <2>1, Pow2Def
    <3> QED BY <3>1
  <2> HIDE DEF G
  <2> QED BY <2>1
<1>2. PICK g : Iterates(g, Int, 0, F)
  <2> HIDE DEF F
  <2>1. 0 \in Int  OBVIOUS
  <2> QED BY <1>1, <2>1, Recursion
<1>3. P(g)
  <2>1. \A n \in Nat : n # 0 => n - 1 \in Nat /\ n = (n - 1) + 1 /\ n \in Nat  OBVIOUS
  <2>2. \A n \in Nat : \A v \in Int : n # 0 => F[n][v] = G(n, v)  OBVIOUS
  <2> HIDE DEF F, G
  <2>3. \A n \in Nat : g[n] = IF n = 0 THEN 0 ELSE G(n, g[n - 1])
    BY <1>2, <2>1, <2>2 DEF Iterates
  <2>4. g = [n \in Nat |-> g[n]]  BY <1>2 DEF Iterates
  <2> QED BY <2>3, <2>4
<1>4. P(t)
  <2>1. \E x : P(x)  BY <1>3
  <2> HIDE DEF P
  <2> QED BY <2>1
<1>5. t = Below(b)  BY DEF Below
<1> HIDE DEF t
<1>6. t[0] = 0 /\ \A n \in Nat : t[n + 1] = t[n] + (IF n \in b THEN Pow2[n] ELSE 0)
  <2>1. t[0] = 0  BY <1>4
  <2>2. ASSUME NEW n \in Nat PROVE t[n + 1] = t[n] + (IF n \in b THEN Pow2[n] ELSE 0)
    <3>1. n + 1 \in Nat /\ n + 1 # 0 /\ (n + 1) - 1 = n  OBVIOUS
    <3>2. t[n + 1] = G(n + 1, t[(n + 1) - 1])
      <4> HIDE DEF G
      <4> QED BY <1>4, <3>1
    <3> QED BY <3>1, <3>2
  <2> QED BY <2>1, <2>2
<1> DEFINE T == {n \in Nat : t[n] \in 0..(Pow2[n] - 1)}
<1>7. 0 \in T  BY <1>6, Pow2Def
<1>8. ASSUME NEW n \in T PROVE n + 1 \in T
  <2>1. n \in Nat /\ n + 1 \in Nat /\ Pow2[n] \in Nat /\ Pow2[n + 1] = 2 * Pow2[n]  BY Pow2Def
  <2> QED BY <1>6, <2>1
<1>9. T = Nat
  <2>1. T \in SUBSET Nat  OBVIOUS
  <2> HIDE DEF T
  <2> QED BY <1>7, <1>8, <2>1, NatInd
<1> QED BY <1>5, <1>9

LEMMA ValueIs ==
  ASSUME NEW b \in SUBSET Index
  PROVE  Value[b] \in Value68
<1>1. SIGN_BIT + 1 \in Nat /\ M = Pow2[SIGN_BIT + 1]
  <2>1. "b" \in Size  BY DEF Size
  <2> QED BY <2>1, Widths
<1>2. Below(b)[SIGN_BIT + 1] \in 0..(Pow2[SIGN_BIT + 1] - 1)  BY <1>1, BelowIs
<1>3. Value[b] = Below(b)[SIGN_BIT + 1]  BY DEF Value
<1> QED BY <1>1, <1>2, <1>3 DEF Value68

(* AND, OR, EOR and NOT of operands.                                       *)
LEMMA LogicIs ==
  ASSUME NEW z \in Size, NEW s \in Value68, NEW d \in Value68, NEW f \in Flags,
         NEW res \in {And68(s, d, f), Orr68(s, d, f), Eor68(s, d, f), Not68(d, z, f)}
  PROVE  /\ Down(res.r, z) \in 0..(Full(z) - 1)
         /\ res.f \in Flags /\ res.f.x = f.x
<1>1. Ones[s] \in SUBSET Index /\ Ones[d] \in SUBSET Index  BY DEF Ones, Value68
<1>2. CASE res = And68(s, d, f)
  <2>1. Value[Ones[s] \cap Ones[d]] \in Value68  BY <1>1, ValueIs
  <2> QED BY <1>2, <2>1, TestedIs DEF And68
<1>3. CASE res = Orr68(s, d, f)
  <2>1. Value[Ones[s] \cup Ones[d]] \in Value68  BY <1>1, ValueIs
  <2> QED BY <1>3, <2>1, TestedIs DEF Orr68
<1>4. CASE res = Eor68(s, d, f)
  <2>1. Value[(Ones[s] \ Ones[d]) \cup (Ones[d] \ Ones[s])] \in Value68  BY <1>1, ValueIs
  <2> QED BY <1>4, <2>1, TestedIs DEF Eor68
<1>5. CASE res = Not68(d, z, f)
  <2> DEFINE v == M - 1 - d
             q == Down(v, z)
  <2>1. v \in Value68  BY Halves DEF Value68
  <2> HIDE DEF v
  <2>2. q \in 0..(Full(z) - 1)  BY <2>1, DownIs
  <2> HIDE DEF q
  <2>3. q * Unit(z) \in Value68  BY <2>2, ScaledResult
  <2>4. Aligned(v, z) = q * Unit(z)  BY DEF Aligned, q
  <2>5. res = Tested(Aligned(v, z), f)  BY <1>5 DEF Not68, v
  <2> QED BY <2>3, <2>4, <2>5, TestedIs
<1> QED BY <1>2, <1>3, <1>4, <1>5

-----------------------------------------------------------------------------
(* CMP of operands of a size.                                              *)
LEMMA CmpAtSize ==
  ASSUME NEW z \in Size, NEW s \in 0..(Full(z) - 1), NEW d \in 0..(Full(z) - 1), NEW f \in Flags,
         NEW a, a = Cmp68(s * Unit(z), d * Unit(z), f)
  PROVE  /\ a.f \in Flags /\ a.f.x = f.x /\ Down(a.r, z) = d
         /\ a.f.c <=> d - s \notin 0..(Full(z) - 1)
         /\ a.f.v <=> 2 * (SignedOf(d, z) - SignedOf(s, z)) \notin (-Full(z))..(Full(z) - 1)
         /\ a.f.n <=> 2 * ((d - s) % Full(z)) >= Full(z)
         /\ a.f.z <=> (d - s) % Full(z) = 0
<1> DEFINE b == Sub68(s * Unit(z), d * Unit(z), 0)
<1>1. a = [r |-> d * Unit(z), f |-> [b.f EXCEPT !.x = f.x]]  BY DEF Cmp68
<1>2. SumOf(z, Down(b.r, z), b.f, d - s - 0, SignedOf(d, z) - SignedOf(s, z) - 0)
  <2>1. 0 \in {0, 1} /\ 0 * Unit(z) = 0  BY Widths
  <2> DEFINE o == 0
  <2>2. o \in {0, 1} /\ o * Unit(z) = 0  BY <2>1
  <2> HIDE DEF o
  <2>3. LET e == Sub68(s * Unit(z), d * Unit(z), o * Unit(z))
        IN  SumOf(z, Down(e.r, z), e.f, d - s - o, SignedOf(d, z) - SignedOf(s, z) - o)
    BY <2>2, SubAtSize
  <2> QED BY <2>2, <2>3, Zenon DEF o
<1>3. Down(d * Unit(z), z) = d  BY ScaledResult
<1>4. d - s - 0 = d - s /\ SignedOf(d, z) - SignedOf(s, z) - 0 = SignedOf(d, z) - SignedOf(s, z)
  <2>1. SignedOf(d, z) \in Int /\ SignedOf(s, z) \in Int /\ d \in Int /\ s \in Int
    <3>1. Full(z) \in Nat \ {0}  BY Widths
    <3> QED BY <3>1 DEF SignedOf
  <2> QED BY <2>1
<1> HIDE DEF b
<1>5. b.f \in Flags /\ f.x \in BOOLEAN  BY <1>2 DEF SumOf, Flags
<1>6. /\ a.f \in Flags /\ a.f.x = f.x /\ a.f.c = b.f.c /\ a.f.v = b.f.v /\ a.f.n = b.f.n
      /\ a.f.z = b.f.z /\ a.r = d * Unit(z)
  BY <1>1, <1>5 DEF Flags
<1> QED BY <1>2, <1>3, <1>4, <1>6, Zenon DEF SumOf

LEMMA OrderAtSize ==
  ASSUME NEW z \in Size, NEW s \in 0..(Full(z) - 1), NEW d \in 0..(Full(z) - 1), NEW f \in Flags,
         NEW g, g = Cmp68(s * Unit(z), d * Unit(z), f).f
  PROVE  /\ Holds("hi", g) <=> d > s
         /\ Holds("ls", g) <=> d <= s
         /\ Holds("cc", g) <=> d >= s
         /\ Holds("cs", g) <=> d < s
         /\ Holds("eq", g) <=> d = s
         /\ Holds("ne", g) <=> d # s
         /\ Holds("ge", g) <=> SignedOf(d, z) >= SignedOf(s, z)
         /\ Holds("lt", g) <=> SignedOf(d, z) < SignedOf(s, z)
         /\ Holds("gt", g) <=> SignedOf(d, z) > SignedOf(s, z)
         /\ Holds("le", g) <=> SignedOf(d, z) <= SignedOf(s, z)
<1> DEFINE u == Unit(z)
           D == d * u
           S == s * u
           i == SignedOf(d, z)
           j == SignedOf(s, z)
<1>1. u \in Nat \ {0} /\ d \in Int /\ s \in Int /\ Full(z) \in Nat \ {0}  BY Widths
<1>2. D \in Value68 /\ S \in Value68  BY ScaledResult
<1>3. Signed(D) = i * u /\ Signed(S) = j * u  BY ScaledSign
<1>4. i \in Int /\ j \in Int  BY <1>1 DEF SignedOf
<1>5. /\ Holds("hi", g) <=> D > S
      /\ Holds("ls", g) <=> D <= S
      /\ Holds("cc", g) <=> D >= S
      /\ Holds("cs", g) <=> D < S
      /\ Holds("eq", g) <=> D = S
      /\ Holds("ne", g) <=> D # S
      /\ Holds("ge", g) <=> Signed(D) >= Signed(S)
      /\ Holds("lt", g) <=> Signed(D) < Signed(S)
      /\ Holds("gt", g) <=> Signed(D) > Signed(S)
      /\ Holds("le", g) <=> Signed(D) <= Signed(S)
  BY <1>2, CompareOrders
<1> HIDE DEF u, i, j
<1>6. /\ D > S <=> d > s
      /\ D <= S <=> d <= s
      /\ D >= S <=> d >= s
      /\ D < S <=> d < s
      /\ D = S <=> d = s
  <2>1. d * u < s * u <=> d < s  BY <1>1, ScaledOrder
  <2>2. d * u = s * u <=> d = s  BY <1>1, ScaledOrder
  <2>3. D \in Int /\ S \in Int  BY <1>1
  <2> HIDE DEF D, S
  <2> QED BY <1>1, <2>1, <2>2, <2>3 DEF D, S
<1>7. /\ i * u >= j * u <=> i >= j
      /\ i * u < j * u <=> i < j
      /\ i * u > j * u <=> i > j
      /\ i * u <= j * u <=> i <= j
  <2>1. i * u < j * u <=> i < j  BY <1>1, <1>4, ScaledOrder
  <2>2. i * u <= j * u <=> i <= j  BY <1>1, <1>4, ScaledOrder
  <2>3. i * u \in Int /\ j * u \in Int  BY <1>1, <1>4
  <2> QED BY <1>4, <2>1, <2>2, <2>3
<1> HIDE DEF D, S
<1> QED BY <1>3, <1>5, <1>6, <1>7, Zenon DEF i, j
=============================================================================
