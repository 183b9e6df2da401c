-------------------------------- MODULE CpuMC --------------------------------
(* The 68000 on small instances: a behaviour either runs code, with the    *)
(* instructions reduced to what they do to the run, or executes one        *)
(* instruction in full from one of the states below.                       *)
EXTENDS Emu68Run, Inst68

VARIABLE part

(* Bytes of 2 bits, words of 4 and longs of 8 in an int68_t of 9.          *)
MCBits == [b |-> 2, w |-> 4, l |-> 8]
MCOrder == <<"d0", "d1", "a0", "a7">>

(* Data registers at the boundaries of the three sizes; A0 and A7 odd and  *)
(* even, apart and with the same memory in reach.                          *)
MCRegisters ==
  {[d0 |-> p[1], d1 |-> p[2], a0 |-> p[3], a7 |-> p[4]] :
     p \in {<<0, 255, 4, 14>>, <<128, 127, 5, 6>>, <<255, 1, 4, 8>>,
            <<37, 250, 130, 3>>, <<130, 3, 8, 8>>}}
(* Longs of 0, the least number, -1, the greatest, and what lies across them. *)
MCMemories == {[i \in Cell |-> <<0, 0, 0, 0, 2, 0, 0, 0, 3, 3, 3, 3, 1, 3, 3, 3, 0, 1, 2>>[i + 1]]}
MCIndexBy == {<<"d1", "w">>, <<"a0", "l">>}
MCCcrs == {[x |-> b, n |-> FALSE, z |-> b, v |-> ~b, c |-> FALSE] : b \in BOOLEAN}

CpuInit ==
  /\ part \in {"run", "inst"}
  /\ Init
  /\ IF part = "inst" THEN InstInit
     ELSE /\ cpu = CHOOSE c \in [reg : Registers, usp : {0}, mem : Memories, pc : {MEM},
                                 f : Ccrs, exc : {"trap"}] : TRUE
          /\ alu = NoAlu /\ done = 0

Over == part = "inst" /\ ~Ready /\ UNCHANGED <<vars, instVars>>

CpuNext ==
  /\ UNCHANGED part
  /\ \/ part = "run" /\ Next /\ UNCHANGED instVars
     \/ part = "inst" /\ InstNext /\ UNCHANGED vars
     \/ Over

(* As FairSpec of Emu68Run.                                                *)
CpuSpec == /\ CpuInit /\ [][CpuNext]_<<part, vars, instVars>>
           /\ WF_vars(part = "run" /\ Instruction) /\ WF_vars(part = "run" /\ Return)

(* The types of both parts.                                                *)
CpuTypeOK == TypeOK /\ InstTypeOK
=============================================================================
