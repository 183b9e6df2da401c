------------------------------- MODULE Inst68 -------------------------------
(* The 68000 instructions: src/libsc68/emu68/lines/line0.c to lineF.c with *)
(* the effective addresses of getea68.c and the memory of mem68.c.         *)
(*                                                                         *)
(* An action is a group of these generated functions: an operation on an   *)
(* operand size with every operand it takes.  The words that follow an     *)
(* opcode are choices; pc is the address of the next instruction and only  *)
(* moves when one jumps.  Memory is RAM: the chips are behind IoPlug.      *)
(* What an exception does is in Emu68Run, here it ends the run; so are     *)
(* RESET, STOP, RTE and the system byte of SR.  A condition code register  *)
(* that is loaded is a choice.                                             *)
EXTENDS Cpu68

CONSTANTS
  Registers, Memories,  \* what registers and memory hold at first
  Imm,                  \* immediate data
  Ccrs,                 \* condition codes at first and when loaded
  MaxInst               \* bound on the instructions of a run

ASSUME InstAssumption ==
  /\ Registers # {} /\ Registers \subseteq [Register -> Long]
  /\ Memories # {} /\ Memories \subseteq [Cell -> 0..(Full("b") - 1)]
  /\ Imm \subseteq Long /\ Ccrs # {} /\ Ccrs \subseteq Flags /\ MaxInst \in Nat

VARIABLES
  cpu,      \* registers, memory, flags, and the exception that ended the run
  alu,      \* the last operation of the ALU and what it took and gave
  done      \* instructions executed

instVars == <<cpu, alu, done>>
NoAlu == [op |-> "none"]

InstInit ==
  /\ cpu \in [reg : Registers, usp : {0}, mem : Memories, pc : {MEM}, f : Ccrs, exc : {"none"}]
  /\ alu = NoAlu /\ done = 0

-----------------------------------------------------------------------------
(* One instruction: the processor after it, and what its ALU did.          *)
Execute68(c, a) ==
  /\ cpu' = c /\ alu' = a /\ done' = done + 1

Does(c) == Execute68(c, NoAlu)
Illegal == Does(Raise(cpu, "illegal"))

(* The destination of op is data register r of c, or at its address a.     *)
Trace(op, z, s, d, res) ==
  [op |-> op, z |-> z, s |-> s, d |-> d % Full(z), f |-> cpu.f,
   r |-> Down(res.r, z), g |-> res.f]
ResultToD(c, op, z, s, r, res) ==
  Execute68(SetD([c EXCEPT !.f = res.f], z, r, Down(res.r, z)), Trace(op, z, s, c.reg[r], res))
ResultToMem(c, op, z, s, a, res) ==
  Execute68(Write([c EXCEPT !.f = res.f], z, a, Down(res.r, z)),
            Trace(op, z, s, Read(c, z, a), res))
IntoD(c, op, z, s, r) == ResultToD(c, op, z, s, r, Operate(op, z, s, c.reg[r], cpu.f))
IntoMem(c, op, z, s, a) == ResultToMem(c, op, z, s, a, Operate(op, z, s, Read(c, z, a), cpu.f))
Into(op, z, s, o) ==
  IF o.m = "dn" THEN IntoD(cpu, op, z, s, o.r)
  ELSE LET e == Ea(cpu, z, o) IN IntoMem(e.c, op, z, s, e.at)

EaToDn(op, z, os) ==
  \E o \in os, n \in DReg :
    LET s == Source(cpu, z, o) IN IntoD(s.c, op, z, s.v, n)
DnToEa(op, z, os) == \E o \in os, n \in DReg : Into(op, z, cpu.reg[n], o)
ImmToEa(op, z, os) == \E o \in os, i \in Imm : Into(op, z, i, o)
OnEa(op, z, os) == \E o \in os : Into(op, z, 0, o)

(* The source is extended to a long, the flags are left alone.             *)
EaToAn(op, z) ==
  \E o \in Every, n \in AReg :
    LET s == Source(cpu, z, o)
    IN  Does(SetA(s.c, n, IntoAddress(op, Signs(s.v, z), s.c.reg[n])))
CmpToAn(z) ==
  \E o \in Every, n \in AReg :
    LET s == Source(cpu, z, o)
        res == Operate("cmp", "l", Signs(s.v, z), s.c.reg[n], cpu.f)
    IN  Execute68([s.c EXCEPT !.f = res.f],
                  Trace("cmp", "l", Signs(s.v, z), s.c.reg[n], res))

(* ADDX and SUBX: two data registers, or both operands pushed past A7 as   *)
(* past any other.                                                         *)
DyToDx(op, z) == \E y, x \in DReg : IntoD(cpu, op, z, cpu.reg[y], x)
MemToMem(op, z) ==
  \E y, x \in AReg :
    LET b == SetA(cpu, y, cpu.reg[y] - Bytes[z])
        c == SetA(b, x, b.reg[x] - Bytes[z])
    IN  IntoMem(c, op, z, Read(b, z, b.reg[y]), c.reg[x])

(* MOVE: the flags are those of the value, whatever the destination.       *)
Move(z, os) ==
  \E src \in Every, dst \in os :
    LET s == Source(cpu, z, src)
        c == [s.c EXCEPT !.f = Tst68(Up(s.v, z), cpu.f)]
        e == Ea(c, z, dst)
    IN  Does(IF dst.m = "dn" THEN SetD(c, z, dst.r, s.v) ELSE Write(e.c, z, e.at, s.v))

Moveq(is) ==
  \E i \in is, n \in DReg :
    Does(SetD([cpu EXCEPT !.f = Tst68(Up(Signs(i, "b"), "l"), cpu.f)], "l", n, Signs(i, "b")))

(* Multiplications take words and give a long.                             *)
Multiply(op) ==
  \E o \in Data, n \in DReg :
    LET s == Source(cpu, "w", o)
        res == ByWord(op, Up(s.v, "w"), Up(s.c.reg[n], "w"), cpu.f)
    IN  Does(SetD([s.c EXCEPT !.f = res.f], "l", n, Down(res.r, "l")))
Divide(op) ==
  \E o \in Data, n \in DReg :
    LET s == Source(cpu, "w", o)
        d == s.c.reg[n]
        res == ByWord(op, Up(s.v, "w"), Up(d, "l"), cpu.f)
        none == [x |-> cpu.f.x, n |-> FALSE, z |-> FALSE, v |-> FALSE, c |-> FALSE]
    IN  IF s.v % Full("w") = 0 THEN Does(Raise([s.c EXCEPT !.f = none], "divide"))
        ELSE Execute68(SetD([s.c EXCEPT !.f = res.f], "l", n, Down(res.r, "l")),
                       Trace(op, "l", s.v % Full("w"), d, res))

(* Bit operations: a data register as a long, memory as a byte.            *)
OnBit(op, b, o) ==
  LET e == Ea(cpu, "b", o)
      z == IF o.m = "dn" THEN "l" ELSE "b"
      v == IF o.m = "dn" THEN cpu.reg[o.r] ELSE Read(e.c, "b", e.at)
      res == BitOf(op, v, b % Bits[z], cpu.f)
  IN  IF o.m = "dn" THEN Does(SetD([cpu EXCEPT !.f = res.f], "l", o.r, res.r))
      ELSE Does(Write([e.c EXCEPT !.f = res.f], "b", e.at, res.r))
StaticBit(op, os) == \E o \in os, i \in Imm : OnBit(op, i, o)
DynamicBit(op, os) == \E o \in os, n \in DReg : OnBit(op, cpu.reg[n], o)

(* MOVEP: every other byte of memory.                                      *)
MovepToDn(z) ==
  \E n \in DReg, r \in AReg, w \in Disp :
    LET at == EveryOther(z, cpu.reg[r] + w)
        v[i \in 0..Bytes[z]] ==
          IF i = 0 THEN 0 ELSE v[i - 1] * Full("b") + Read(cpu, "b", at[i - 1])
    IN  Does(SetD(cpu, z, n, v[Bytes[z]]))
MovepToMem(z) ==
  \E n \in DReg, r \in AReg, w \in Disp :
    LET at == EveryOther(z, cpu.reg[r] + w)
        c[i \in 0..Bytes[z]] ==
          IF i = 0 THEN cpu ELSE Write(c[i - 1], "b", at[i - 1], ByteOf(cpu.reg[n], z, i - 1))
    IN  Does(c[Bytes[z]])

(* Program control.                                                        *)
Branch(ccs) ==
  \E cc \in ccs, a \in Abs :
    IF cc = "f" THEN Does(Call(cpu, a))
    ELSE Does(IF Holds(cc, cpu.f) THEN Jump(cpu, a) ELSE cpu)
Dbcc(ccs) ==
  \E cc \in ccs, n \in DReg, a \in Abs :
    LET c == SetD(cpu, "w", n, cpu.reg[n] - 1)
    IN  Does(CASE Holds(cc, cpu.f) -> cpu
               [] ~Holds(cc, cpu.f) /\ cpu.reg[n] % Full("w") = 0 -> c
               [] OTHER -> Jump(c, a))
Scc(ccs) ==
  \E cc \in ccs, o \in Data :
    LET e == Ea(cpu, "b", o)
        v == IF Holds(cc, cpu.f) THEN Full("b") - 1 ELSE 0
    IN  Does(IF o.m = "dn" THEN SetD(cpu, "b", o.r, v) ELSE Write(e.c, "b", e.at, v))
-----------------------------------------------------------------------------

(* Line 0: immediate operations, bits and MOVEP.                           *)
ImmTo(os) ==
  \E op \in {"or", "and", "eor", "add", "sub", "cmp"}, z \in Size : ImmToEa(op, z, os)
LoadCcr(c) == \E f \in Ccrs : Does([c EXCEPT !.f = f])
ImmDn == ImmTo(Dn)
ImmInd == ImmTo(Ind)
ImmInc == ImmTo(Inc)
ImmDec == ImmTo(Dec)
ImmDisp == ImmTo(DispAn)
ImmIndex == ImmTo(IndexAn)
ImmAe == ImmTo(Ae) \/ LoadCcr(cpu)
ImmIllegal == Illegal
BtstImm == Illegal \/ StaticBit("btst", Data)
BchgImm == Illegal \/ StaticBit("bchg", Data)
BclrImm == Illegal \/ StaticBit("bclr", Data)
BsetImm == Illegal \/ StaticBit("bset", Data)
BtstDn == DynamicBit("btst", Data)
BchgDn == DynamicBit("bchg", Data)
BclrDn == DynamicBit("bclr", Data)
BsetDn == DynamicBit("bset", Data)
MovepWToDn == MovepToDn("w")
MovepLToDn == MovepToDn("l")
MovepWToMem == MovepToMem("w")
MovepLToMem == MovepToMem("l")

(* Lines 1, 2 and 3: MOVE and MOVEA.                                       *)
MoveBDn == Move("b", Dn)
MoveBInd == Move("b", Ind)
MoveBInc == Move("b", Inc)
MoveBDec == Move("b", Dec)
MoveBDisp == Move("b", DispAn)
MoveBIndex == Move("b", IndexAn)
MoveBAe == Move("b", Ae)
MoveaB == Illegal
MoveLDn == Move("l", Dn)
MoveLInd == Move("l", Ind)
MoveLInc == Move("l", Inc)
MoveLDec == Move("l", Dec)
MoveLDisp == Move("l", DispAn)
MoveLIndex == Move("l", IndexAn)
MoveLAe == Move("l", Ae)
MoveaL == EaToAn("movea", "l")
MoveWDn == Move("w", Dn)
MoveWInd == Move("w", Ind)
MoveWInc == Move("w", Inc)
MoveWDec == Move("w", Dec)
MoveWDisp == Move("w", DispAn)
MoveWIndex == Move("w", IndexAn)
MoveWAe == Move("w", Ae)
MoveaW == EaToAn("movea", "w")

(* Line 4: one operand, MOVEM, LEA, CHK, the stack and program control.    *)
(* TAS of an address register takes the data register of the same number.  *)
NegxB == OnEa("negx", "b", Every)
NegxW == OnEa("negx", "w", Every)
NegxL == OnEa("negx", "l", Every)
ClrB == OnEa("clr", "b", Every)
ClrW == OnEa("clr", "w", Every)
ClrL == OnEa("clr", "l", Every)
NegB == OnEa("neg", "b", Every)
NegW == OnEa("neg", "w", Every)
NegL == OnEa("neg", "l", Every)
NotB == OnEa("not", "b", Every)
NotW == OnEa("not", "w", Every)
NotL == OnEa("not", "l", Every)
TstB == OnEa("tst", "b", Every)
TstW == OnEa("tst", "w", Every)
TstL == OnEa("tst", "l", Every)
MoveFromSr == \E i \in Imm, o \in Data :
  LET e == Ea(cpu, "w", o)
  IN  Does(IF o.m = "dn" THEN SetD(cpu, "w", o.r, i) ELSE Write(e.c, "w", e.at, i))
MoveToCcr == \E o \in Data : LoadCcr(Source(cpu, "w", o).c)
MoveToSr == \E o \in Data : LoadCcr(Source(cpu, "w", o).c)
SwapDn == \E n \in DReg : Does(Swap(cpu, n))
Pea == \E o \in An \cup Mem : LET e == Ea(cpu, "l", o) IN Does(PushL(e.c, e.at))
ExtW == \E n \in DReg :
  LET v == Signs(cpu.reg[n], "b")
  IN  Does(SetD([cpu EXCEPT !.f = Tst68(Up(v, "w"), cpu.f)], "w", n, v))
ExtL == \E n \in DReg :
  LET v == Signs(cpu.reg[n], "w")
  IN  Does(SetD([cpu EXCEPT !.f = Tst68(Up(v, "l"), cpu.f)], "l", n, v))
MovemWToMem == \E list \in SUBSET Register, o \in An \cup Mem : Does(MovemToMem(cpu, "w", list, o))
MovemLToMem == \E list \in SUBSET Register, o \in An \cup Mem : Does(MovemToMem(cpu, "l", list, o))
MovemWToReg == \E list \in SUBSET Register, o \in Every : Does(MovemToReg(cpu, "w", list, o))
MovemLToReg == \E list \in SUBSET Register, o \in Every : Does(MovemToReg(cpu, "l", list, o))
Tas == \/ Illegal
       \/ \E o \in Data :
            LET e == Ea(cpu, "b", o)
                dn == o.m = "dn"
                v == IF dn THEN cpu.reg[o.r] ELSE Read(e.c, "b", e.at)
                f == Tst68(Up(v, "b"), cpu.f)
                s == With(v, Bits["b"] - 1, TRUE, f).r
            IN  Does(IF dn THEN SetD([cpu EXCEPT !.f = f], "l", o.r, s)
                     ELSE Write([e.c EXCEPT !.f = f], "b", e.at, s))
Jsr == \E o \in Every : LET e == Ea(cpu, "l", o) IN Does(Call(e.c, e.at))
Jmp == \E o \in Every : LET e == Ea(cpu, "l", o) IN Does(Jump(e.c, e.at))
TrapN == Does(Raise(cpu, "trap"))
LinkAn == \E r \in AReg, w \in Disp : Does(Link(cpu, r, w))
UnlkAn == \E r \in AReg : Does(Unlk(cpu, r))
MoveToUsp == \E r \in AReg : Does([cpu EXCEPT !.usp = cpu.reg[r]])
MoveFromUsp == \E r \in AReg : Does(SetA(cpu, r, cpu.usp))
Nop == Does(cpu)
RtsPc == Does(Returned(cpu))
Trapv == Does(IF cpu.f.v THEN Raise(cpu, "trapv") ELSE cpu)
Rtr == \E f \in Ccrs :
  Does([Returned(SetA(cpu, SP, cpu.reg[SP] + 2)) EXCEPT !.f = f])
Line4Illegal == Illegal
ChkW == \/ Illegal
        \/ \E o \in Data, n \in DReg :
             LET s == Source(cpu, "w", o)
                 a == SignedOf(s.v % Full("w"), "w")
                 b == SignedOf(s.c.reg[n] % Full("w"), "w")
                 c == [s.c EXCEPT !.f = [@ EXCEPT !.z = (b = 0), !.v = FALSE, !.c = FALSE]]
             IN  Does(IF b \in 0..a THEN c
                      ELSE Raise([c EXCEPT !.f.n = (b < 0)], "chk"))
Lea == \/ Illegal
       \/ \E o \in Mem \ (Inc \cup Dec), n \in AReg : Does(SetA(cpu, n, Ea(cpu, "l", o).at))

(* Line 5: ADDQ, SUBQ, Scc and DBcc.                                       *)
Quick(op, z, os) == \E o \in os, q \in {1, 8} : Into(op, z, q, o)
QuickToAn(sign) == \E r \in AReg, q \in {1, 8} : Does(SetA(cpu, r, cpu.reg[r] + sign * q))
AddqB == Quick("add", "b", Data) \/ Illegal
AddqW == Quick("add", "w", Data) \/ QuickToAn(1)
AddqL == Quick("add", "l", Data) \/ QuickToAn(1)
SubqB == Quick("sub", "b", Data) \/ Illegal
SubqW == Quick("sub", "w", Data) \/ QuickToAn(-1)
SubqL == Quick("sub", "l", Data) \/ QuickToAn(-1)
SccEven == Scc(Even)
DbccEven == Dbcc(Even)
SccOdd == Scc(Odd)
DbccOdd == Dbcc(Odd)

(* Lines 6 and 7: Bcc with BSR, MOVEQ.                                     *)
BccEven == Branch(Even)
BccOdd == Branch(Odd)
MoveqPositive == Moveq({i \in Imm : 2 * (i % Full("b")) < Full("b")})
MoveqNegative == Moveq({i \in Imm : 2 * (i % Full("b")) >= Full("b")})
Line7Illegal == Illegal

(* Lines 8 and C: OR and AND, divisions and multiplications, EXG.          *)
OrBEaDn == Illegal \/ EaToDn("or", "b", Data)
OrWEaDn == Illegal \/ EaToDn("or", "w", Data)
OrLEaDn == Illegal \/ EaToDn("or", "l", Data)
OrBDnEa == DnToEa("or", "b", Mem)
OrWDnEa == DnToEa("or", "w", Mem)
OrLDnEa == DnToEa("or", "l", Mem) \/ DnToEa("or", "l", Dn)
AndBEaDn == Illegal \/ EaToDn("and", "b", Data)
AndWEaDn == Illegal \/ EaToDn("and", "w", Data)
AndLEaDn == Illegal \/ EaToDn("and", "l", Data)
AndBDnEa == DnToEa("and", "b", Mem)
AndWDnEa == DnToEa("and", "w", Mem)
AndLDnEa == DnToEa("and", "l", Mem) \/ DnToEa("and", "l", Dn)
Divu == Illegal \/ Divide("divu")
Divs == Illegal \/ Divide("divs")
Mulu == Illegal \/ Multiply("mulu")
Muls == Illegal \/ Multiply("muls")
ExgDxDy == \E x, y \in DReg : Does(Exg(cpu, x, y))
ExgAxAy == \E x, y \in AReg : Does(Exg(cpu, x, y))
ExgDxAy == \E x \in DReg, y \in AReg : Does(Exg(cpu, x, y))

(* Lines 9 and D: SUB and ADD with their A and X forms.                    *)
SubBEaDn == EaToDn("sub", "b", Every)
SubWEaDn == EaToDn("sub", "w", Every)
SubLEaDn == EaToDn("sub", "l", Every)
SubBDnEa == DnToEa("sub", "b", Mem)
SubWDnEa == DnToEa("sub", "w", Mem)
SubLDnEa == DnToEa("sub", "l", Mem)
SubxB == DyToDx("subx", "b") \/ MemToMem("subx", "b")
SubxW == DyToDx("subx", "w") \/ MemToMem("subx", "w")
SubxL == DyToDx("subx", "l") \/ MemToMem("subx", "l")
SubaW == EaToAn("suba", "w")
SubaL == EaToAn("suba", "l")
AddBEaDn == EaToDn("add", "b", Every)
AddWEaDn == EaToDn("add", "w", Every)
AddLEaDn == EaToDn("add", "l", Every)
AddBDnEa == DnToEa("add", "b", Mem)
AddWDnEa == DnToEa("add", "w", Mem)
AddLDnEa == DnToEa("add", "l", Mem)
AddxB == DyToDx("addx", "b") \/ MemToMem("addx", "b")
AddxW == DyToDx("addx", "w") \/ MemToMem("addx", "w")
AddxL == DyToDx("addx", "l") \/ MemToMem("addx", "l")
AddaW == EaToAn("adda", "w")
AddaL == EaToAn("adda", "l")

(* Line B: CMP, CMPA, CMPM and EOR.                                        *)
CmpM(z) ==
  \E y, x \in AReg :
    LET b == SetA(cpu, y, cpu.reg[y] + Bytes[z])
        c == SetA(b, x, b.reg[x] + Bytes[z])
    IN  IntoMem(c, "cmp", z, Read(b, z, cpu.reg[y]), b.reg[x])
CmpBEaDn == EaToDn("cmp", "b", Every)
CmpWEaDn == EaToDn("cmp", "w", Every)
CmpLEaDn == EaToDn("cmp", "l", Every)
CmpaW == CmpToAn("w")
CmpaL == CmpToAn("l")
EorB == DnToEa("eor", "b", Data)
EorW == DnToEa("eor", "w", Data)
EorL == DnToEa("eor", "l", Data)
CmpmB == CmpM("b")
CmpmW == CmpM("w")
CmpmL == CmpM("l")

(* Line E: shifts by 1 to 8 or by a register, and of a word of memory by 1. *)
ShiftDn(ops, z) ==
  \E op \in ops, n, m \in DReg :
    \/ \E q \in 1..8 : IntoD(cpu, op, z, q, n)
    \/ IntoD(cpu, op, z, cpu.reg[m], n)
ShiftMem(ops) ==
  \E op \in ops, o \in Every : LET e == Ea(cpu, "w", o) IN IntoMem(e.c, op, "w", 1, e.at)
RightB == ShiftDn(ToRight, "b")
RightW == ShiftDn(ToRight, "w")
RightL == ShiftDn(ToRight, "l")
RightMem == ShiftMem(ToRight)
LeftB == ShiftDn(ToLeft, "b")
LeftW == ShiftDn(ToLeft, "w")
LeftL == ShiftDn(ToLeft, "l")
LeftMem == ShiftMem(ToLeft)

(* Lines A and F are exceptions.                                           *)
LineA == Does(Raise(cpu, "linea"))
LineF == Does(Raise(cpu, "linef"))

Ready == done < MaxInst /\ cpu.exc = "none"
Instruction68 ==
  \/ ImmDn \/ ImmInd \/ ImmInc \/ ImmDec \/ ImmDisp \/ ImmIndex \/ ImmAe \/ ImmIllegal
  \/ BtstImm \/ BchgImm \/ BclrImm \/ BsetImm \/ BtstDn \/ BchgDn \/ BclrDn \/ BsetDn
  \/ MovepWToDn \/ MovepLToDn \/ MovepWToMem \/ MovepLToMem
  \/ MoveBDn \/ MoveBInd \/ MoveBInc \/ MoveBDec \/ MoveBDisp \/ MoveBIndex \/ MoveBAe
  \/ MoveaB
  \/ MoveLDn \/ MoveLInd \/ MoveLInc \/ MoveLDec \/ MoveLDisp \/ MoveLIndex \/ MoveLAe
  \/ MoveaL
  \/ MoveWDn \/ MoveWInd \/ MoveWInc \/ MoveWDec \/ MoveWDisp \/ MoveWIndex \/ MoveWAe
  \/ MoveaW
  \/ NegxB \/ NegxW \/ NegxL \/ ClrB \/ ClrW \/ ClrL \/ NegB \/ NegW \/ NegL \/ NotB
  \/ NotW \/ NotL \/ TstB \/ TstW \/ TstL \/ MoveFromSr \/ MoveToCcr \/ MoveToSr
  \/ SwapDn \/ Pea \/ ExtW \/ ExtL \/ MovemWToMem \/ MovemLToMem \/ MovemWToReg
  \/ MovemLToReg \/ Tas \/ Jsr \/ Jmp \/ TrapN \/ LinkAn \/ UnlkAn \/ MoveToUsp
  \/ MoveFromUsp \/ Nop \/ RtsPc \/ Trapv \/ Rtr \/ Line4Illegal \/ ChkW \/ Lea
  \/ AddqB \/ AddqW \/ AddqL \/ SubqB \/ SubqW \/ SubqL \/ SccEven \/ DbccEven \/ SccOdd
  \/ DbccOdd
  \/ BccEven \/ BccOdd
  \/ MoveqPositive \/ MoveqNegative \/ Line7Illegal
  \/ OrBEaDn \/ OrWEaDn \/ OrLEaDn \/ OrBDnEa \/ OrWDnEa \/ OrLDnEa \/ Divu \/ Divs
  \/ SubBEaDn \/ SubWEaDn \/ SubLEaDn \/ SubBDnEa \/ SubWDnEa \/ SubLDnEa \/ SubxB
  \/ SubxW \/ SubxL \/ SubaW \/ SubaL
  \/ LineA
  \/ CmpBEaDn \/ CmpWEaDn \/ CmpLEaDn \/ CmpaW \/ CmpaL \/ EorB \/ EorW \/ EorL \/ CmpmB
  \/ CmpmW \/ CmpmL
  \/ AndBEaDn \/ AndWEaDn \/ AndLEaDn \/ AndBDnEa \/ AndWDnEa \/ AndLDnEa \/ Mulu
  \/ Muls \/ ExgDxDy \/ ExgAxAy \/ ExgDxAy
  \/ AddBEaDn \/ AddWEaDn \/ AddLEaDn \/ AddBDnEa \/ AddWDnEa \/ AddLDnEa \/ AddxB
  \/ AddxW \/ AddxL \/ AddaW \/ AddaL
  \/ RightB \/ RightW \/ RightL \/ RightMem \/ LeftB \/ LeftW \/ LeftL \/ LeftMem
  \/ LineF

InstNext == Ready /\ Instruction68

-----------------------------------------------------------------------------
(* Every register, byte and flag keeps its width, and so does the trace of *)
(* the ALU.                                                                *)
InstTypeOK ==
  /\ cpu.reg \in [Register -> Long] /\ cpu.usp \in Long /\ cpu.pc \in Long
  /\ cpu.mem \in [Cell -> 0..(Full("b") - 1)] /\ cpu.f \in Flags /\ done \in 0..MaxInst
  /\ cpu.exc \in {"none", "illegal", "adrerr", "divide", "chk", "trap", "trapv", "linea", "linef"}
  /\ alu.op # "none" => /\ alu.z \in Size /\ {alu.d, alu.r} \subseteq 0..(Full(alu.z) - 1)
                        /\ {alu.f, alu.g} \subseteq Flags

(* The sign trick of inl_add68(), inl_sub68(), inl_cmp68() and inl_neg68() *)
(* against numbers: the unsigned sum or difference u and the signed one i. *)
(* C is "u does not fit", V "i does not fit", and X is C except for CMP.   *)
Sums == {"add", "addx", "sub", "subx", "cmp", "neg", "negx"}
SumExact(n, u, i) ==
  LET r == IF alu.op = "cmp" THEN u % n ELSE alu.r
  IN  /\ r = u % n
      /\ alu.g.c = (u \notin 0..(n - 1))
      /\ alu.g.v = (2 * i \notin (-n)..(n - 1))
      /\ alu.g.n = (2 * r >= n) /\ alu.g.z = (r = 0)
      /\ alu.g.x = IF alu.op = "cmp" THEN alu.f.x ELSE alu.g.c
SumsExact ==
  LET n == Full(alu.z)
      s == alu.s % n
      S == SignedOf(s, alu.z)  D == SignedOf(alu.d, alu.z)
      x == IF alu.f.x THEN 1 ELSE 0
  IN  CASE alu.op = "add"  -> SumExact(n, alu.d + s, D + S)
        [] alu.op = "addx" -> SumExact(n, alu.d + s + x, D + S + x)
        [] alu.op \in {"sub", "cmp"} -> SumExact(n, alu.d - s, D - S)
        [] alu.op = "subx" -> SumExact(n, alu.d - s - x, D - S - x)
        [] alu.op = "neg"  -> SumExact(n, -alu.d, -D)
        [] alu.op = "negx" -> SumExact(n, -alu.d - x, -D - x)

(* The conditions of cc68.h after CMP are the orders of the numbers.       *)
Compares ==
  LET n == Full(alu.z)
      s == alu.s % n
      S == SignedOf(s, alu.z)  D == SignedOf(alu.d, alu.z)
  IN  \A cc \in Conditions \ {"t", "f", "vc", "vs", "pl", "mi"} :
        Holds(cc, alu.g) = CASE cc = "hi" -> alu.d > s   [] cc = "ls" -> alu.d <= s
                             [] cc = "cc" -> alu.d >= s  [] cc = "cs" -> alu.d < s
                             [] cc = "ne" -> alu.d # s   [] cc = "eq" -> alu.d = s
                             [] cc = "ge" -> D >= S      [] cc = "lt" -> D < S
                             [] cc = "gt" -> D > S       [] cc = "le" -> D <= S

(* DIVU and DIVS: quotient and remainder give the dividend back, the       *)
(* remainder is smaller than the divisor and has the dividend's sign; V    *)
(* says that no quotient fits, and then the destination is kept.           *)
DivisionExact ==
  LET signed == alu.op = "divs"
      Number(v, z) == IF signed THEN SignedOf(v, z) ELSE v
      fits == IF signed THEN {SignedOf(v, "w") : v \in 0..(Full("w") - 1)} ELSE 0..(Full("w") - 1)
      s == Number(alu.s, "w")  d == Number(alu.d, "l")
      q == Number(alu.r % Full("w"), "w")
      rem == Number(alu.r \div Full("w"), "w")
      Divides(a, b) == /\ a * s + b = d /\ Magnitude(b) < Magnitude(s)
                       /\ (b < 0 => d < 0) /\ (b > 0 => d > 0)
  IN  IF alu.g.v
        THEN /\ alu.r = alu.d
             /\ \A a \in fits : ~Divides(a, d - a * s)
        ELSE Divides(q, rem) /\ alu.g.z = (q = 0) /\ alu.g.n = (2 * (alu.r % Full("w")) >= Full("w"))

(* Flags and results of arithmetic, whatever the size, the operands and    *)
(* where they come from: inl68_arithmetic.h.                               *)
ArithmeticExact ==
  /\ alu.op \in Sums => SumsExact
  /\ alu.op = "cmp" => Compares
  /\ alu.op \in {"divu", "divs"} => DivisionExact

(* The same shift one bit at a time.                                       *)
Slowly == BitByBit(alu.op, Full(alu.z), alu.d, alu.f)[alu.s % SHIFTS]

(* The shifts of inl68_shifting.h, which do all bits at once and treat     *)
(* counts of 0, of the size and beyond it apart, are so many shifts by one *)
(* bit: result and all flags, but that LSL by any count clears X, where    *)
(* lsl_ref() of tools/insttest68.c leaves the last bit out in it.          *)
ShiftsByBits ==
  alu.op \in ToLeft \cup ToRight =>
    LET t == Slowly
        rox == alu.op \in {"roxl", "roxr"}
    IN  /\ alu.r = t.r /\ alu.g.n = (2 * t.r >= Full(alu.z)) /\ alu.g.z = (t.r = 0)
        /\ alu.g.c = IF rox THEN t.x ELSE t.c
        /\ alu.g.v = t.v
        /\ alu.g.x = IF alu.op = "lsl" THEN alu.f.x /\ alu.s % SHIFTS = 0 ELSE t.x

(* What an operation of the ALU leaves alone, for any instruction and any  *)
(* addressing mode: the rest of the data register and all others, or all   *)
(* memory but the operand and all data registers; X, if it is neither a    *)
(* sum nor a shift.                                                        *)
KeepsX == {"cmp", "clr", "tst", "and", "or", "eor", "not", "rol", "ror", "divu", "divs"}
Contained ==
  [][/\ alu'.op # "none" =>
          LET z == alu'.z
              regs == {n \in DReg : cpu'.reg[n] # cpu.reg[n]}
              cells == {i \in Cell : cpu'.mem[i] # cpu.mem[i]}
          IN  /\ \A n \in DReg : cpu'.reg[n] \div Full(z) = cpu.reg[n] \div Full(z)
              /\ Cardinality(regs) <= 1 /\ (regs # {} => cells = {})
              /\ \A i, j \in cells : i - j < Bytes[z]
     /\ alu'.op \in KeepsX => cpu'.f.x = cpu.f.x]_instVars

(* What is saved is restored, in any state of the registers and the stack: *)
(* MOVEM.L to -(SP) and from (SP)+ with the same list, a push and a pop of *)
(* any size, LINK and UNLK, a call and a return, EXG and SWAP done twice.  *)
Cleared(c, list) == [c EXCEPT !.reg = [r \in Register |-> IF r \in list THEN 0 ELSE @[r]]]
StackAs(mode) == [m |-> mode, r |-> SP, w |-> 0, x |-> <<SP, "l">>]
RestoresRegisters ==
  cpu.exc = "none" =>
    /\ \A list \in SUBSET (Register \ {SP}) :
         LET saved == Cleared(MovemToMem(cpu, "l", list, StackAs("dec")), list)
         IN  MovemToReg(saved, "l", list, StackAs("inc")).reg = cpu.reg
    /\ \A z \in Size, n \in DReg :
         LET e == Ea(cpu, z, StackAs("dec"))
             s == Source(Write(e.c, z, e.at, cpu.reg[n]), z, StackAs("inc"))
         IN  s.c.reg = cpu.reg /\ s.v = cpu.reg[n] % Full(z)
    /\ \A r \in AReg \ {SP}, w \in Disp : Unlk(Link(cpu, r, w), r).reg = cpu.reg
    /\ \A a \in Abs :
         LET c == Returned(Call(cpu, a)) IN c.reg = cpu.reg /\ c.pc = cpu.pc
    /\ \A x, y \in Register : Exg(Exg(cpu, x, y), x, y) = cpu
    /\ \A n \in DReg : Swap(Swap(cpu, n), n).reg = cpu.reg
=============================================================================
