------------------------------- MODULE Alu68 -------------------------------
(* What the instructions compute and the condition codes they leave: the   *)
(* inl68_*.h headers and cc68.h of src/libsc68/emu68.                      *)
(*                                                                         *)
(* Operands of any size are shifted up so that their sign is the sign of   *)
(* an int68_t, the bits below them 0: here a natural number below M whose  *)
(* sign bit is worth HALF and whose unit is Unit(z).  Sums wrap, as the    *)
(* builds do.  The cycles that shifts add are left out, and so are ABCD,   *)
(* SBCD and NBCD, which need digits.                                       *)
EXTENDS Integers

CONSTANTS
  SIGN_BIT,        \* of an int68_t
  HALF,            \* its worth
  Bits,            \* bits of a byte, a word and a long
  SHIFTS           \* shift counts are modulo this

Size == {"b", "w", "l"}

Pow2[n \in Nat] == IF n = 0 THEN 1 ELSE 2 * Pow2[n - 1]     \* 1 << n

(* Of a byte, a word and a long each has twice the bits of the one before. *)
ASSUME AluAssumption ==
  /\ HALF \in Nat \ {0}
  /\ SIGN_BIT \in Nat /\ HALF = Pow2[SIGN_BIT]
  /\ Bits \in [Size -> 1..(SIGN_BIT + 1)] /\ SHIFTS \in Nat \ {0}
  /\ Bits["w"] = 2 * Bits["b"] /\ Bits["l"] = 2 * Bits["w"]

M == 2 * HALF
Full(z) == Pow2[Bits[z]]
Unit(z) == Pow2[SIGN_BIT + 1 - Bits[z]]
Up(v, z) == (v % Full(z)) * Unit(z)      \* << BYTE_FIX, WORD_FIX, LONG_FIX
Down(v, z) == v \div Unit(z)             \* >> the same
Aligned(v, z) == Down(v, z) * Unit(z)    \* & NRM_MSK

Msb(v) == v >= HALF
Signed(v) == IF v < HALF THEN v ELSE v - M
SignedOf(v, z) == IF 2 * v < Full(z) THEN v ELSE v - Full(z)
Lsb(v, z) == Down(v, z) % 2 = 1

Flags == [x : BOOLEAN, n : BOOLEAN, z : BOOLEAN, v : BOOLEAN, c : BOOLEAN]
Extend(f, z) == IF f.x THEN Unit(z) ELSE 0         \* BYTE_SR_X, ...

-----------------------------------------------------------------------------
(* Arithmetic: s and d are the source and the destination, c what X is     *)
(* worth, r the result.                                                    *)
Add68Bug(s, d, c) ==
  LET r == (s + d + c) % M
      carry == Msb(r) # ((Msb(s) # Msb(r)) /\ (Msb(d) # Msb(r)))
  IN  [r |-> r, f |-> [x |-> carry, n |-> Msb(r), z |-> r = 0,
                       v |-> Msb(s) # Msb(r) /\ Msb(d) # Msb(r), c |-> carry]]
Add68(s, d, c) ==
  LET r == (s + d + c) % M
      carry == Msb(r) # ((Msb(s) # Msb(r)) \/ (Msb(d) # Msb(r)))
  IN  [r |-> r, f |-> [x |-> carry, n |-> Msb(r), z |-> r = 0,
                       v |-> Msb(s) # Msb(r) /\ Msb(d) # Msb(r), c |-> carry]]

Sub68(s, d, c) ==
  LET r == (d - s - c) % M
      borrow == ((Msb(d) = Msb(r)) /\ (Msb(s) # Msb(r))) # Msb(r)
  IN  [r |-> r, f |-> [x |-> borrow, n |-> Msb(r), z |-> r = 0,
                       v |-> Msb(d) # Msb(r) /\ Msb(s) = Msb(r), c |-> borrow]]

(* The result is dropped; what is given back is the destination.           *)
Cmp68(s, d, f) == [r |-> d, f |-> [Sub68(s, d, 0).f EXCEPT !.x = f.x]]

Neg68(d, c) ==
  LET r == (-d - c) % M
      borrow == Msb(d) \/ Msb(r)
  IN  [r |-> r, f |-> [x |-> borrow, n |-> Msb(r), z |-> r = 0,
                       v |-> Msb(d) /\ Msb(r), c |-> borrow]]

Tst68(a, f) == [x |-> f.x, n |-> Msb(a), z |-> a = 0, v |-> FALSE, c |-> FALSE]
Tested(r, f) == [r |-> r, f |-> Tst68(r, f)]
Clr68(f) == Tested(0, f)

(* Words to a long; the words are the top of s and d.                      *)
Mulu68(s, d, f) == Tested(Up(Down(s, "w") * Down(d, "w"), "l"), f)
Muls68(s, d, f) ==
  Tested(Up(SignedOf(Down(s, "w"), "w") * SignedOf(Down(d, "w"), "w"), "l"), f)

(* A long d by a word s # 0: the quotient below the remainder, unless the  *)
(* quotient is no word; Z and N are of the quotient.                       *)
Quotient(d, rem, res, fits, f) ==
  [r |-> IF fits THEN Up((rem % Full("w")) * Full("w") + (res % Full("w")), "l") ELSE d,
   f |-> [x |-> f.x, n |-> 2 * (res % Full("w")) >= Full("w"), z |-> res = 0,
          v |-> ~fits, c |-> FALSE]]

Divu68(s, d, f) ==
  LET a == Down(d, "l") b == Down(s, "w")
  IN  Quotient(d, a % b, a \div b, a \div b < Full("w"), f)

(* C divides towards 0.                                                    *)
Magnitude(n) == IF n < 0 THEN -n ELSE n
Divs68(s, d, f) ==
  LET a == SignedOf(Down(d, "l"), "l")
      b == SignedOf(Down(s, "w"), "w")
      q == Magnitude(a) \div Magnitude(b)
      res == IF (a < 0) = (b < 0) THEN q ELSE -q
  IN  Quotient(d, a - b * res, res, 2 * res \in (-Full("w"))..(Full("w") - 1), f)

-----------------------------------------------------------------------------
(* Logic, by the set of bits that are set.                                 *)
Index == 0..SIGN_BIT
Ones == [v \in 0..(M - 1) |-> {i \in Index : (v \div Pow2[i]) % 2 = 1}]
Below(b) == LET v[n \in Nat] ==              \* the worth of the bits below n
                  IF n = 0 THEN 0
                  ELSE v[n - 1] + (IF n - 1 \in b THEN Pow2[n - 1] ELSE 0)
            IN  v
Value == [b \in SUBSET Index |-> Below(b)[SIGN_BIT + 1]]

And68(s, d, f) == Tested(Value[Ones[s] \cap Ones[d]], f)
Orr68(s, d, f) == Tested(Value[Ones[s] \cup Ones[d]], f)
Eor68(s, d, f) == Tested(Value[(Ones[s] \ Ones[d]) \cup (Ones[d] \ Ones[s])], f)
Not68(d, z, f) == Tested(Aligned(M - 1 - d, z), f)

(* Bit number b of a register or a byte v, not aligned; Z only.            *)
HasBit(v, b) == (v \div Pow2[b]) % 2 = 1
Btst68(v, b, f) == [r |-> v, f |-> [f EXCEPT !.z = ~HasBit(v, b)]]
With(v, b, set, f) ==
  [r |-> CASE set /\ ~HasBit(v, b) -> v + Pow2[b]
           [] ~set /\ HasBit(v, b) -> v - Pow2[b]
           [] OTHER -> v,
   f |-> Btst68(v, b, f).f]
Bset68(v, b, f) == With(v, b, TRUE, f)
Bclr68(v, b, f) == With(v, b, FALSE, f)
Bchg68(v, b, f) == With(v, b, ~HasBit(v, b), f)

-----------------------------------------------------------------------------
(* Shifts of d by k < SHIFTS bits.                                         *)
ToRight == {"asr", "lsr", "roxr", "ror"}
ToLeft == {"asl", "lsl", "roxl", "rol"}
Shifted(r, x, v, c) == [r |-> r, f |-> [x |-> x, n |-> Msb(r), z |-> r = 0, v |-> v, c |-> c]]

(* Only C survives the mask: X is cleared by every shift.                  *)
Lsl68(d, k, z, f) ==
  LET e == (d * Pow2[k - 1]) % M
  IN  CASE k = 0 -> Shifted(d, f.x, FALSE, FALSE)
        [] k - 1 > SIGN_BIT -> Shifted(0, FALSE, FALSE, FALSE)
        [] OTHER -> Shifted((2 * e) % M, FALSE, FALSE, Msb(e))

Lsr68(d, k, z, f) ==
  LET e == d \div Pow2[k - 1]
  IN  CASE k = 0 -> Shifted(d, f.x, FALSE, FALSE)
        [] k - 1 > SIGN_BIT -> Shifted(0, FALSE, FALSE, FALSE)
        [] OTHER -> Shifted(Aligned(e \div 2, z), Lsb(e, z), FALSE, Lsb(e, z))

(* V if shifting back does not give d.                                     *)
Asl68(d, k, z, f) ==
  LET e == (d * Pow2[k - 1]) % M
      r == (2 * e) % M
  IN  CASE k = 0 -> Shifted(d, f.x, FALSE, FALSE)
        [] k > Bits[z] -> Shifted(0, FALSE, d # 0, FALSE)
        [] OTHER -> Shifted(r, Msb(e), (Signed(r) \div Pow2[k - 1]) \div 2 # Signed(d), Msb(e))

Asr68(d, k, z, f) ==
  LET e == Signed(d) \div Pow2[k - 1]
  IN  CASE k = 0 -> Shifted(d, f.x, FALSE, FALSE)
        [] k > Bits[z] -> Shifted(IF Msb(d) THEN M - 1 ELSE 0, Msb(d), FALSE, Msb(d))
        [] OTHER -> Shifted(Aligned(e \div 2, z) % M, Lsb(e, z), FALSE, Lsb(e, z))

(* j bits leave at the top and enter at the bottom.                        *)
Around(d, j, z) ==
  IF j = 0 THEN d ELSE ((d * Pow2[j]) % M) + Aligned(d \div Pow2[Bits[z] - j], z)
Rol68(d, k, z, f) ==
  LET r == Around(d, k % Bits[z], z)
  IN  Shifted(r, f.x, FALSE, k # 0 /\ Lsb(r, z))
Ror68(d, k, z, f) ==
  LET r == Around(d, (-k) % Bits[z], z)
  IN  Shifted(r, f.x, FALSE, k # 0 /\ Msb(r))

(* Through X: modulo one bit more than the size; C is X in any case.       *)
Roxl68Bug(d, k, z, f) ==
  LET j == k % Bits[z]
      e == (d * Pow2[j - 1]) % M
      r == ((2 * e) % M) + Extend(f, z) * Pow2[j - 1] + Aligned((d \div 2) \div Pow2[Bits[z] - j], z)
  IN  IF j = 0 THEN Shifted(d, f.x, FALSE, f.x) ELSE Shifted(r, Msb(e), FALSE, Msb(e))
Roxl68(d, k, z, f) ==
  LET j == k % (Bits[z] + 1)
      e == (d * Pow2[j - 1]) % M
      r == ((2 * e) % M) + Extend(f, z) * Pow2[j - 1] + Aligned((d \div 2) \div Pow2[Bits[z] - j], z)
  IN  IF j = 0 THEN Shifted(d, f.x, FALSE, f.x) ELSE Shifted(r, Msb(e), FALSE, Msb(e))

Roxr68(d, k, z, f) ==
  LET j == k % (Bits[z] + 1)
      e == d \div Pow2[j - 1]
  IN  IF j = 0 THEN Shifted(d, f.x, FALSE, f.x)
      ELSE Shifted((IF f.x THEN Pow2[SIGN_BIT + 1 - j] ELSE 0) + Aligned(e \div 2, z)
                     + ((((2 * d) % M) * Pow2[Bits[z] - j]) % M),
                   Lsb(e, z), FALSE, Lsb(e, z))

(* A shift as the processor does it, one bit at a time on n values.        *)
ShiftStart(d, f) == [r |-> d, x |-> f.x, c |-> FALSE, v |-> FALSE]
ByOneBit(op, n, t) ==
  LET left == op \in ToLeft
      out == IF left THEN 2 * t.r >= n ELSE t.r % 2 = 1
      in == CASE op \in {"asl", "lsl", "lsr"} -> FALSE
              [] op = "asr" -> 2 * t.r >= n
              [] op \in {"rol", "ror"} -> out
              [] op \in {"roxl", "roxr"} -> t.x
      bit == IF in THEN 1 ELSE 0
      r == IF left THEN ((2 * t.r) % n) + bit ELSE (t.r \div 2) + bit * (n \div 2)
  IN  [r |-> r, x |-> IF op \in {"rol", "ror"} THEN t.x ELSE out, c |-> out,
       v |-> t.v \/ (op = "asl" /\ out # (2 * r >= n))]
BitByBit(op, n, d, f) ==
  LET t[k \in Nat] == IF k = 0 THEN ShiftStart(d, f) ELSE ByOneBit(op, n, t[k - 1])
  IN  t

-----------------------------------------------------------------------------
(* The condition of Bcc, Scc and DBcc.                                     *)
Conditions == {"t", "f", "hi", "ls", "cc", "cs", "ne", "eq", "vc", "vs", "pl", "mi",
               "ge", "lt", "gt", "le"}
Even == {"t", "hi", "cc", "ne", "vc", "pl", "ge", "gt"}
Odd == Conditions \ Even
Holds(cc, f) ==
  CASE cc = "t"  -> TRUE                  [] cc = "f"  -> FALSE
    [] cc = "hi" -> ~(f.c \/ f.z)         [] cc = "ls" -> f.c \/ f.z
    [] cc = "cc" -> ~f.c                  [] cc = "cs" -> f.c
    [] cc = "ne" -> ~f.z                  [] cc = "eq" -> f.z
    [] cc = "vc" -> ~f.v                  [] cc = "vs" -> f.v
    [] cc = "pl" -> ~f.n                  [] cc = "mi" -> f.n
    [] cc = "ge" -> f.n = f.v             [] cc = "lt" -> f.n # f.v
    [] cc = "gt" -> ~(f.z \/ f.n # f.v)   [] cc = "le" -> f.z \/ f.n # f.v
=============================================================================
