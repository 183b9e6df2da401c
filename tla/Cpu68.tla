-------------------------------- MODULE Cpu68 --------------------------------
(* The processor the 68000 instructions work on: its registers and memory  *)
(* (mem68.c), the effective addresses (getea68.c), the operations of the   *)
(* ALU by name, and what MOVEM and the instructions on the stack do.       *)
(*                                                                         *)
(* c is the processor: reg, usp, mem, pc, the flags f and exc, the         *)
(* exception it met.  Memory is RAM, the chips are behind IoPlug.          *)
EXTENDS Alu68, Sequences, FiniteSets, SequencesExt

CONSTANTS
  DReg, AReg, SP,       \* data and address registers; A7
  Order,                \* all of them as MOVEM goes through them
  MEM,                  \* bytes of memory
  Disp, Abs,            \* displacements, absolute addresses
  IndexBy               \* index registers with the size that counts

Register == DReg \cup AReg
Long == 0..(Full("l") - 1)
Cell == 0..(MEM + 2)    \* a long at the last address runs over
Bytes == [b |-> 1, w |-> 2, l |-> 4]

ASSUME CpuAssumption ==
  /\ SP \in AReg /\ DReg \cap AReg = {} /\ Order \in Seq(Register) /\ ToSet(Order) = Register
  /\ MEM \in Long \ {0} /\ Full("l") % MEM = 0     \* powers of two
  /\ 4 * Len(Order) <= MEM                          \* room for all registers
  /\ Disp \subseteq Long /\ Abs \subseteq Long
  /\ IndexBy \subseteq Register \X {"w", "l"}

-----------------------------------------------------------------------------
(* Memory, big endian, and the registers.                                  *)
ByteOf(v, z, i) == (v \div Pow2[Bits["b"] * (Bytes[z] - 1 - i)]) % Full("b")
Signs(v, z) == SignedOf(v % Full(z), z) % Full("l")

Read(c, z, a) ==
  LET m(i) == c.mem[(a % MEM) + i]
      B == Full("b")
  IN  CASE z = "b" -> m(0)
        [] z = "w" -> m(0) * B + m(1)
        [] z = "l" -> ((m(0) * B + m(1)) * B + m(2)) * B + m(3)

Write(c, z, a, v) ==
  LET p == a % MEM
  IN  [c EXCEPT !.mem = [i \in Cell |->
         IF i \in p..(p + Bytes[z] - 1) THEN ByteOf(v, z, i - p) ELSE @[i]]]

(* A data register keeps what is above the size, an address register is    *)
(* written as a whole.                                                     *)
SetDBug(c, z, r, v) == [c EXCEPT !.reg[r] = Signs(v, z)]
SetD(c, z, r, v) == [c EXCEPT !.reg[r] = (@ - (@ % Full(z))) + (v % Full(z))]
SetA(c, r, v) == [c EXCEPT !.reg[r] = v % Full("l")]
Raise(c, e) == [c EXCEPT !.exc = e]

PushL(c, v) == LET b == SetA(c, SP, c.reg[SP] - 4) IN Write(b, "l", b.reg[SP], v)
PopL(c) == [c |-> SetA(c, SP, c.reg[SP] + 4), v |-> Read(c, "l", c.reg[SP])]

-----------------------------------------------------------------------------
(* Operands: a mode, its register and what the words after the opcode say. *)
Operand(ms, rs, ws, xs) == [m : ms, r : rs, w : ws, x : xs]
NoIndex == {<<SP, "l">>}
Dn  == Operand({"dn"}, DReg, {0}, NoIndex)
An  == Operand({"an"}, AReg, {0}, NoIndex)
Ind == Operand({"ind"}, AReg, {0}, NoIndex)
Inc == Operand({"inc"}, AReg, {0}, NoIndex)
Dec == Operand({"dec"}, AReg, {0}, NoIndex)
DispAn == Operand({"disp"}, AReg, Disp, NoIndex)
IndexAn == Operand({"index"}, AReg, Disp, IndexBy)
Ae == Operand({"abs"}, {SP}, Abs, NoIndex)     \* also (PC) modes and immediate data
Mem == Ind \cup Inc \cup Dec \cup DispAn \cup IndexAn \cup Ae
Data == Dn \cup Mem
Every == An \cup Data

Stride68(z, r) == IF z = "b" /\ r = SP THEN 2 ELSE Bytes[z]
Indexed(c, x) == IF x[2] = "l" THEN c.reg[x[1]] ELSE Signs(c.reg[x[1]], "w")

(* get_eab68, get_eaw68 and get_eal68: the address, and what computing it  *)
(* does.                                                                   *)
EaBug(c, z, o) ==
  LET a == c.reg[o.r]
      up == SetA(c, o.r, a + Stride68(z, o.r))
      down == SetA(c, o.r, a - Stride68(z, o.r))
  IN  CASE o.m = "ind"   -> [c |-> c, at |-> a]
        [] o.m = "inc"   -> [c |-> up, at |-> up.reg[o.r]]
        [] o.m = "dec"   -> [c |-> down, at |-> down.reg[o.r]]
        [] o.m = "disp"  -> [c |-> c, at |-> (a + o.w) % Full("l")]
        [] o.m = "index" -> [c |-> c, at |-> (a + o.w + Indexed(c, o.x)) % Full("l")]
        [] o.m = "abs"   -> [c |-> c, at |-> o.w]
        [] o.m \in {"dn", "an"} -> [c |-> Raise(c, "adrerr"), at |-> 0]
Ea(c, z, o) ==
  LET a == c.reg[o.r]
      up == SetA(c, o.r, a + Stride68(z, o.r))
      down == SetA(c, o.r, a - Stride68(z, o.r))
  IN  CASE o.m = "ind"   -> [c |-> c, at |-> a]
        [] o.m = "inc"   -> [c |-> up, at |-> a]
        [] o.m = "dec"   -> [c |-> down, at |-> down.reg[o.r]]
        [] o.m = "disp"  -> [c |-> c, at |-> (a + o.w) % Full("l")]
        [] o.m = "index" -> [c |-> c, at |-> (a + o.w + Indexed(c, o.x)) % Full("l")]
        [] o.m = "abs"   -> [c |-> c, at |-> o.w]
        [] o.m \in {"dn", "an"} -> [c |-> Raise(c, "adrerr"), at |-> 0]

(* The value of a source, after what computing its address does.           *)
Source(c, z, o) ==
  LET e == Ea(c, z, o)
  IN  IF o.m \in {"dn", "an"} THEN [c |-> c, v |-> c.reg[o.r]]
      ELSE [c |-> e.c, v |-> Read(e.c, z, e.at)]

(* An operation on s and d, values of size z (s is the count of a shift).  *)
Operate(op, z, s, d, f) ==
  LET S == Up(s, z)  D == Up(d, z)  k == s % SHIFTS
  IN  CASE op = "add"  -> Add68(S, D, 0)
        [] op = "addx" -> Add68(S, D, Extend(f, z))
        [] op = "sub"  -> Sub68(S, D, 0)
        [] op = "subx" -> Sub68(S, D, Extend(f, z))
        [] op = "cmp"  -> Cmp68(S, D, f)
        [] op = "neg"  -> Neg68(D, 0)
        [] op = "negx" -> Neg68(D, Extend(f, z))
        [] op = "clr"  -> Clr68(f)
        [] op = "tst"  -> Tested(D, f)
        [] op = "and"  -> And68(S, D, f)
        [] op = "or"   -> Orr68(S, D, f)
        [] op = "eor"  -> Eor68(S, D, f)
        [] op = "not"  -> Not68(D, z, f)
        [] op = "asl"  -> Asl68(D, k, z, f)
        [] op = "asr"  -> Asr68(D, k, z, f)
        [] op = "lsl"  -> Lsl68(D, k, z, f)
        [] op = "lsr"  -> Lsr68(D, k, z, f)
        [] op = "rol"  -> Rol68(D, k, z, f)
        [] op = "ror"  -> Ror68(D, k, z, f)
        [] op = "roxl" -> Roxl68(D, k, z, f)
        [] op = "roxr" -> Roxr68(D, k, z, f)

(* The other operations by name: words by words or a long by a word, bits, *)
(* and what a long does to an address register.                            *)
ByWord(op, s, d, f) ==
  CASE op = "mulu" -> Mulu68(s, d, f)
    [] op = "muls" -> Muls68(s, d, f)
    [] op = "divu" -> Divu68(s, d, f)
    [] op = "divs" -> Divs68(s, d, f)
BitOf(op, v, b, f) ==
  CASE op = "btst" -> Btst68(v, b, f)
    [] op = "bchg" -> Bchg68(v, b, f)
    [] op = "bclr" -> Bclr68(v, b, f)
    [] op = "bset" -> Bset68(v, b, f)
IntoAddress(op, s, a) ==
  CASE op = "movea" -> s [] op = "adda" -> a + s [] op = "suba" -> a - s

-----------------------------------------------------------------------------
(* MOVEM.  With -(An) the registers are stored from A7 down, and the       *)
(* address is taken as that of (An)+, which has moved An when it is stored.*)
StoreEach(z, e, list) ==
  LET t[i \in 0..Len(Order)] ==
        IF i = 0 THEN e
        ELSE LET p == t[i - 1]
             IN  IF Order[i] \notin list THEN p
                 ELSE [c |-> Write(p.c, z, p.at, p.c.reg[Order[i]]), at |-> p.at + Bytes[z]]
  IN  t[Len(Order)].c
StoreDown(z, e, list) ==
  LET t[i \in 0..Len(Order)] ==
        IF i = 0 THEN e
        ELSE LET p == t[i - 1]
                 r == Order[Len(Order) + 1 - i]
             IN  IF r \notin list THEN p
                 ELSE [c |-> Write(p.c, z, p.at - Bytes[z], p.c.reg[r]), at |-> p.at - Bytes[z]]
  IN  t[Len(Order)]
MovemToMem(c, z, list, o) ==
  LET down == StoreDown(z, Ea(c, z, [o EXCEPT !.m = "inc"]), list)
  IN  IF o.m = "dec" THEN SetA(down.c, o.r, down.at) ELSE StoreEach(z, Ea(c, z, o), list)

(* Words are not extended to longs.                                        *)
LoadEach(z, e, list) ==
  LET t[i \in 0..Len(Order)] ==
        IF i = 0 THEN e
        ELSE LET p == t[i - 1]
             IN  IF Order[i] \notin list THEN p
                 ELSE [c |-> [p.c EXCEPT !.reg[Order[i]] = Read(p.c, z, p.at)],
                       at |-> p.at + Bytes[z]]
  IN  t[Len(Order)]
MovemToReg(c, z, list, o) ==
  LET up == LoadEach(z, Ea(c, z, o), list)
  IN  IF o.m = "inc" THEN SetA(up.c, o.r, up.at) ELSE up.c

(* Every other byte from a, for MOVEP.                                     *)
EveryOther(z, a) == [i \in 0..(Bytes[z] - 1) |-> a + 2 * i]

(* Program control, the stack and exchanges.                               *)
Jump(c, a) == [c EXCEPT !.pc = a]
Call(c, a) == Jump(PushL(c, c.pc), a)
Returned(c) == LET p == PopL(c) IN Jump(p.c, p.v)
Link(c, r, w) ==
  LET b == PushL(c, c.reg[r])
      l == SetA(b, r, b.reg[SP])
  IN  SetA(l, SP, l.reg[SP] + w)
Unlk(c, r) == LET p == PopL(SetA(c, SP, c.reg[r])) IN SetA(p.c, r, p.v)
Exg(c, x, y) == [c EXCEPT !.reg[x] = c.reg[y], !.reg[y] = c.reg[x]]
Swap(c, n) ==
  LET v == (c.reg[n] \div Full("w")) + (c.reg[n] % Full("w")) * Full("w")
  IN  SetD([c EXCEPT !.f = Tst68(Up(v, "l"), c.f)], "l", n, v)
=============================================================================
