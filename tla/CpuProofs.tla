------------------------------ MODULE CpuProofs ------------------------------
(* The 68000: running code, for any code and counts; and the instructions  *)
(* of Inst68 for any widths, registers and memory: each keeps the types    *)
(* and writes no more than its operand, what the ALU leaves is what the    *)
(* numbers say, and what is saved is restored.                             *)
EXTENDS CpuMC, Alu68Proofs, SequenceTheorems, FiniteSetTheorems

-----------------------------------------------------------------------------
(* Running 68000 code: for all instruction counts, pass lengths and codes  *)
(* the time of a track is counted once; and if handlers behave, a pass     *)
(* that the player takes for a good one ran all its interrupts and no      *)
(* assertion on the status fails.                                          *)
Entry == Ipl \cup {Word}

LEMMA Constants ==
  /\ Play = 3 /\ Irq = 6 /\ Word = 0 /\ Ipl = {3, 6} /\ Entry = {0, 3, 6}
  /\ TrapMax \in Nat /\ InitMax \in Nat /\ PlayMax \in Nat /\ CPP \in Nat /\ CPP > 0
  BY RunAssumption DEF RunAssumption, Play, Irq, Word, Ipl, Entry

LEMMA Pushed ==
  ASSUME NEW s \in Seq(Entry), NEW e \in Entry
  PROVE  /\ Append(s, e) \in Seq(Entry) /\ Len(Append(s, e)) = Len(s) + 1
         /\ \A k \in 1..Len(s) : Append(s, e)[k] = s[k]
         /\ Append(s, e)[Len(s) + 1] = e
  BY AppendProperties

LEMMA Fronts ==
  ASSUME NEW s, NEW n \in Nat, \A k \in 1..n : s[k] \in Entry
  PROVE  /\ SubSeq(s, 1, n) \in Seq(Entry) /\ Len(SubSeq(s, 1, n)) = n
         /\ \A k \in 1..n : SubSeq(s, 1, n)[k] = s[k]
<1>1. /\ SubSeq(s, 1, n) \in Seq(Entry)
      /\ Len(SubSeq(s, 1, n)) = IF 1 <= n THEN n - 1 + 1 ELSE 0
      /\ \A k \in 1..(n - 1 + 1) : SubSeq(s, 1, n)[k] = s[1 + k - 1]
  BY SubSeqProperties
<1>2. Len(SubSeq(s, 1, n)) = n
  BY <1>1
<1>3. \A k \in 1..n : SubSeq(s, 1, n)[k] = s[k]
  BY <1>1
<1> QED BY <1>1, <1>2, <1>3

LEMMA Popped ==
  ASSUME NEW s \in Seq(Entry), s # <<>>
  PROVE  /\ Pop(s) \in Seq(Entry) /\ Len(Pop(s)) = Len(s) - 1
         /\ \A k \in 1..(Len(s) - 1) : Pop(s)[k] = s[k]
         /\ Top(s) \in Entry /\ Len(s) \in Nat /\ Len(s) > 0
<1>1. Len(s) \in Nat /\ Len(s) > 0 /\ \A k \in 1..Len(s) : s[k] \in Entry
  BY EmptySeq, LenProperties, ElementOfSeq
<1>2. Len(s) - 1 \in Nat /\ \A k \in 1..(Len(s) - 1) : s[k] \in Entry
  BY <1>1
<1>3. Pop(s) = SubSeq(s, 1, Len(s) - 1) /\ Top(s) = s[Len(s)] /\ Len(s) \in 1..Len(s)
  BY <1>1 DEF Pop, Top
<1> HIDE DEF Entry
<1>4. /\ Pop(s) \in Seq(Entry) /\ Len(Pop(s)) = Len(s) - 1
      /\ \A k \in 1..(Len(s) - 1) : Pop(s)[k] = s[k]
  BY <1>2, <1>3, Fronts
<1> QED BY <1>1, <1>3, <1>4

(* Whatever the instruction, it leaves a stack, a mask and a status.       *)
LEMMA AnyInstruction ==
  ASSUME TypeOK, Instruction
  PROVE  \E s \in Seq(Entry), m \in Ipl, r \in Statuses : \E i : Execute(i, s, m, r)
<1> USE DEF TypeOK, Entry
<1>1. /\ stack \in Seq(Entry) /\ ipl \in Entry /\ Word \in Entry /\ Ipl \subseteq Entry
      /\ "STP" \in Statuses /\ "HLT" \in Statuses
  BY DEF Statuses
<1>2. CASE Op \/ MoveSR \/ Stop \/ Reset
  BY <1>1, <1>2 DEF Op, MoveSR, Stop, Reset
<1>3. CASE Push \/ Trap
  <2>1. Append(stack, Word) \in Seq(Entry) /\ Append(stack, ipl) \in Seq(Entry)
    BY <1>1, Pushed
  <2> QED BY <2>1, <1>3 DEF Push, Trap, Frame
<1>4. CASE Drop \/ Rts
  <2>1. stack # <<>>
    BY <1>4 DEF Drop, Rts
  <2>2. Pop(stack) \in Seq(Entry)
    BY <1>1, <2>1, Popped
  <2> QED BY <2>2, <1>4 DEF Drop, Rts
<1>5. CASE Rte
  <2>1. stack # <<>> /\ Top(stack) # Word
    BY <1>5 DEF Rte
  <2>2. Pop(stack) \in Seq(Entry) /\ Top(stack) \in Ipl
    BY <1>1, <2>1, Popped
  <2> QED BY <2>2, <1>5 DEF Rte
<1> QED BY <1>2, <1>3, <1>4, <1>5 DEF Instruction

-----------------------------------------------------------------------------
LEMMA TypesStart == Init => TypeOK
  BY Constants DEF Init, TypeOK, Statuses, Entry, Play, Irq, Ipl

LEMMA TypesStep == TypeOK /\ [Next]_vars => TypeOK'
<1> SUFFICES ASSUME TypeOK, [Next]_vars PROVE TypeOK'
  OBVIOUS
<1>1. /\ <<Word>> \in Seq(Entry) /\ Play \in Ipl /\ Irq \in Ipl
      /\ "NRM" \in Statuses /\ "BRK" \in Statuses
      /\ stack \in Seq(Entry) /\ Len(stack) \in Nat
      /\ TrapMax \in Nat /\ InitMax \in Nat /\ PlayMax \in Nat
      /\ 0 \in 0..CPP /\ CPP \in 0..CPP /\ 0..(CPP - 1) \subseteq 0..CPP
  <2>1. <<Word>> \in Seq(Entry)
    BY DEF Entry
  <2>2. stack \in Seq(Entry) /\ Len(stack) \in Nat
    BY LenProperties DEF TypeOK, Entry
  <2>3. Play \in Ipl /\ Irq \in Ipl /\ "NRM" \in Statuses /\ "BRK" \in Statuses
    BY DEF Ipl, Statuses
  <2> QED BY <2>1, <2>2, <2>3, Constants
<1>2. CASE StartAtari \/ StartAmiga
  <2>1. stack' = <<Word>> /\ ipl' = Play /\ status' = "NRM"
    BY <1>2 DEF StartAtari, StartAmiga, StartTrack
  <2>2. stack' \in Seq(Ipl \cup {Word}) /\ ipl' \in Ipl /\ status' \in Statuses
    BY <1>1, <2>1 DEF Entry
  <2>3. call' \in {"trap", "init"} /\ at' = "loop"
    BY <1>2 DEF StartAtari, StartAmiga, StartTrack
  <2>4. /\ finish_sp' \in Nat /\ cycle' \in 0..CPP /\ instructions' \in Nat
        /\ chips' \in Nat /\ passes' \in Nat /\ given' \in Nat /\ ran' \in Nat
    BY <1>1, <1>2 DEF StartAtari, StartAmiga, StartTrack
  <2>5. floor' \in Nat /\ fault' \in {"none", "status"}
    BY <1>2 DEF StartAtari, StartAmiga, StartTrack, TypeOK
  <2> QED BY <2>2, <2>3, <2>4, <2>5 DEF TypeOK
<1>3. CASE PlayPass \/ TrapReturns
  <2>1. chips + cycle \in Nat
    BY DEF TypeOK
  <2>2. stack' = <<Word>> /\ ipl' = Play /\ status' = "NRM"
    BY <1>3 DEF PlayPass, TrapReturns, Finish
  <2>3. stack' \in Seq(Ipl \cup {Word}) /\ ipl' \in Ipl /\ status' \in Statuses
    BY <1>1, <2>2 DEF Entry
  <2>4. /\ call' \in {"init", "play"} /\ at' = "loop" /\ finish_sp' = 1
        /\ instructions' \in Nat /\ cycle' = 0 /\ chips' = chips + cycle
        /\ UNCHANGED <<passes, given, ran, floor, fault>>
    BY <1>1, <1>3 DEF PlayPass, TrapReturns, Finish, Adjust
  <2> QED BY <1>1, <2>1, <2>3, <2>4 DEF TypeOK
<1>4. CASE Instruction
  <2>1. PICK s \in Seq(Entry), m \in Ipl, r \in Statuses : \E i : Execute(i, s, m, r)
    BY <1>4, AnyInstruction
  <2> QED BY <1>1, <2>1 DEF Execute, CountDown, Counted, ghosts, TypeOK, Entry
<1>5. CASE Continue \/ InitReturns \/ StartFails \/ PlayFails
  BY <1>1, <1>5, SMTT(30)
     DEF Continue, InitReturns, StartFails, PlayFails, Adjust, emu, ghosts, TypeOK, Entry
<1>6. CASE PlayReturns \/ EndOfPass
  BY <1>1, <1>6, SMTT(30) DEF PlayReturns, EndOfPass, PlaySR, PassCycle, TypeOK, Entry
<1>7. ASSUME NEW t \in 0..(CPP - 1), Interrupt(t)
      PROVE  TypeOK'
  <2>1. Append(stack, ipl) \in Seq(Entry) /\ Len(Append(stack, ipl)) \in Nat
    BY <1>1, Pushed, LenProperties DEF TypeOK, Entry
  <2>2. Resumed(status) \in Statuses
    BY <1>1 DEF Resumed, TypeOK
  <2>3. /\ cycle' \in 0..CPP /\ given' \in Nat
        /\ UNCHANGED <<call, instructions, chips, passes, floor>>
    BY <1>1, <1>7 DEF Interrupt, TypeOK
  <2>4. CASE Irq > ipl
    <3>1. /\ stack' = Append(stack, ipl) /\ ipl' = Irq /\ status' = Resumed(status)
          /\ finish_sp' = Len(stack') /\ fault' \in {fault, "status"}
          /\ ran' = ran + 1 /\ at' = "loop"
      BY <1>7, <2>4 DEF Interrupt, Frame, Masked
    <3> QED BY <1>1, <2>1, <2>2, <2>3, <3>1 DEF TypeOK, Entry
  <2>5. CASE ~(Irq > ipl)
    <3>1. UNCHANGED <<stack, ipl, status, finish_sp, fault, ran, at>>
      BY <1>7, <2>5 DEF Interrupt
    <3> QED BY <2>3, <3>1 DEF TypeOK
  <2> QED BY <2>4, <2>5
<1>8. CASE UNCHANGED vars
  BY <1>8 DEF vars, emu, ghosts, TypeOK
<1> QED BY <1>2, <1>3, <1>4, <1>5, <1>6, <1>7, <1>8 DEF Next, Return

(* Every value stays in its range, for any code and any counts.            *)
THEOREM RunTypes == Spec => []TypeOK
<1> QED BY TypesStart, TypesStep, PTL DEF Spec

-----------------------------------------------------------------------------
(* Between passes the processor still owes the chips the cycles of the     *)
(* last one; while code runs outside an interrupt it owes none.            *)
Clock ==
  /\ at = "idle" => chips + cycle = passes * CPP
  /\ at # "idle" => chips = passes * CPP
  /\ at # "idle" /\ call # "irq" => cycle = 0

LEMMA ClockStep == TypeOK /\ Clock /\ [Next]_vars => Clock'
<1> SUFFICES ASSUME TypeOK, Clock, [Next]_vars PROVE Clock'
  OBVIOUS
<1>1. /\ CPP \in Nat /\ passes \in Nat /\ chips \in Nat /\ cycle \in Nat
      /\ passes * CPP \in Nat /\ (passes + 1) * CPP = passes * CPP + CPP /\ 0 * CPP = 0
  BY Constants DEF TypeOK
<1>2. CASE StartAtari \/ StartAmiga
  BY <1>1, <1>2 DEF StartAtari, StartAmiga, StartTrack, Clock
<1>3. CASE PlayPass \/ TrapReturns
  BY <1>1, <1>3 DEF PlayPass, TrapReturns, Returns, Finish, Adjust, Clock
<1>4. CASE Instruction
  <2>1. PICK s \in Seq(Entry), m \in Ipl, r \in Statuses : \E i : Execute(i, s, m, r)
    BY <1>4, AnyInstruction
  <2> QED BY <1>1, <2>1 DEF Execute, ghosts, Clock
<1>5. CASE Continue \/ InitReturns \/ StartFails \/ PlayFails
  BY <1>1, <1>5
     DEF Continue, InitReturns, StartFails, PlayFails, Returns, Adjust, emu, ghosts, Clock
<1>6. CASE PlayReturns \/ EndOfPass
  BY <1>1, <1>6 DEF PlayReturns, EndOfPass, PassCycle, Returns, Clock
<1>7. ASSUME NEW t \in 0..(CPP - 1), Interrupt(t)
      PROVE  Clock'
  BY <1>1, <1>7 DEF Interrupt, Returns, Clock
<1>8. CASE UNCHANGED vars
  BY <1>8 DEF vars, emu, ghosts, Clock
<1> QED BY <1>2, <1>3, <1>4, <1>5, <1>6, <1>7, <1>8 DEF Next, Return

(* The chips are told of every cycle of every pass exactly once, whatever  *)
(* passes fail and whatever runs are continued after a STOP.               *)
THEOREM ChipsKeepTime == Spec => []ChipClock
<1>1. Init => Clock
  BY Constants DEF Init, Clock
<1>2. Clock => ChipClock
  BY DEF Clock, ChipClock
<1> QED BY <1>1, <1>2, ClockStep, RunTypes, PTL DEF Spec

-----------------------------------------------------------------------------
(* A handler that behaves works above its own frame: it does not drop it,  *)
(* does not lower the mask, nor stop or reset the processor.               *)
Behaved == IrqCode \cap {"move_sr", "drop", "stop", "reset"} = {}

(* The stack of a handler that runs: the frame of the interrupt, which     *)
(* restores the mask of the play code, and above it entries that do not.   *)
Nested ==
  /\ finish_sp = floor + 1 /\ finish_sp <= Len(stack)
  /\ stack[finish_sp] = Play
  /\ \A k \in (finish_sp + 1)..Len(stack) : stack[k] # Play

(* All handlers so far have returned.                                      *)
Clean == ipl = Play /\ Len(stack) = floor /\ ran = given

Handlers ==
  /\ fault = "none"
  /\ at = "loop" => status = "NRM"
  /\ call = "irq" /\ at = "loop" => ipl = Irq /\ ran = given /\ Nested
  /\ call = "irq" /\ at # "loop" =>
       \/ status \in {"NRM", "BRK"} /\ Clean
       \/ status = "BRK" /\ ipl = Irq

(* An instruction that leaves the status alone.                            *)
LEMMA Counting ==
  ASSUME status = "NRM", NEW i, NEW s, NEW m, Execute(i, s, m, status)
  PROVE  /\ stack' = s /\ ipl' = m /\ status' \in {"NRM", "BRK"}
         /\ at' \in {"loop", "out"} /\ (at' = "loop" => status' = "NRM" /\ finish_sp <= Len(s))
         /\ (at' = "out" /\ status' = "NRM" => ~(finish_sp <= Len(s)))
         /\ UNCHANGED <<call, finish_sp, given, ran, floor, fault>>
  BY DEF Execute, Counted, GoesOn, ghosts

LEMMA HandlerInstruction ==
  ASSUME TypeOK, Handlers, Behaved, call = "irq", at = "loop", Instruction
  PROVE  Handlers'
<1>1. /\ stack \in Seq(Entry) /\ Len(stack) \in Nat /\ finish_sp \in Nat /\ floor \in Nat
      /\ ipl = Irq /\ status = "NRM" /\ Nested /\ ran = given /\ Irq \in Entry
      /\ Word \in Entry /\ Word # Play /\ Irq # Play
  BY LenProperties DEF TypeOK, Entry, Handlers, Ipl, Play, Irq, Word
<1>2. ~(MoveSR \/ Drop \/ Stop \/ Reset)
  BY DEF Behaved, MoveSR, Drop, Stop, Reset, Execute, Code
<1>3. CASE Op
  <2>1. Execute("op", stack, ipl, status)
    BY <1>3 DEF Op
  <2> QED BY <1>1, <2>1, Counting DEF Handlers, Nested
<1>4. ASSUME NEW i, NEW e \in Entry, e # Play, Execute(i, Append(stack, e), ipl, status)
      PROVE  Handlers'
  <2>1. /\ Len(Append(stack, e)) = Len(stack) + 1 /\ Append(stack, e)[Len(stack) + 1] = e
        /\ \A k \in 1..Len(stack) : Append(stack, e)[k] = stack[k]
    BY <1>1, Pushed
  <2>2. Nested /\ stack' = Append(stack, e) /\ UNCHANGED <<finish_sp, floor>> => Nested'
    BY <1>1, <1>4, <2>1 DEF Nested
  <2>3. finish_sp <= Len(Append(stack, e))
    BY <1>1, <2>1 DEF Nested
  <2> QED BY <1>1, <1>4, <2>2, <2>3, Counting DEF Handlers
<1>5. CASE Push \/ Trap
  BY <1>1, <1>4, <1>5 DEF Push, Trap, Frame
<1>6. ASSUME stack # <<>>
      PROVE  /\ Len(Pop(stack)) = Len(stack) - 1 /\ Len(stack) > 0
             /\ \A k \in 1..(Len(stack) - 1) : Pop(stack)[k] = stack[k]
             /\ Top(stack) = stack[Len(stack)]
  BY <1>1, <1>6, Popped DEF Top
<1>7. CASE Rts
  <2>1. stack # <<>> /\ Top(stack) = Word /\ Execute("rts", Pop(stack), ipl, status)
    BY <1>7 DEF Rts
  <2>2. Len(stack) > finish_sp
    BY <1>1, <1>6, <2>1 DEF Nested
  <2>3. Nested /\ stack' = Pop(stack) /\ UNCHANGED <<finish_sp, floor>> => Nested'
    BY <1>1, <1>6, <2>1, <2>2 DEF Nested
  <2>4. finish_sp <= Len(Pop(stack))
    BY <1>1, <1>6, <2>1, <2>2
  <2> QED BY <1>1, <2>1, <2>3, <2>4, Counting DEF Handlers
<1>8. CASE Rte
  <2>1. stack # <<>> /\ Top(stack) # Word /\ Execute("rte", Pop(stack), Top(stack), status)
    BY <1>8 DEF Rte
  <2>2. CASE Len(stack) = finish_sp
    <3>1. Top(stack) = Play /\ Len(Pop(stack)) = floor
      BY <1>1, <1>6, <2>1, <2>2 DEF Nested
    <3>2. ~(finish_sp <= Len(Pop(stack)))
      BY <1>1, <3>1 DEF Nested
    <3> QED BY <1>1, <2>1, <3>1, <3>2, Counting DEF Handlers, Clean
  <2>3. CASE Len(stack) # finish_sp
    <3>1. Len(stack) > finish_sp
      BY <1>1, <2>3 DEF Nested
    <3>2. Top(stack) = Irq
      <4>1. Top(stack) # Play
        BY <1>1, <1>6, <2>1, <3>1 DEF Nested
      <4> QED BY <1>1, <2>1, <4>1, Popped DEF Entry, Ipl
    <3>3. Nested /\ stack' = Pop(stack) /\ UNCHANGED <<finish_sp, floor>> => Nested'
      BY <1>1, <1>6, <2>1, <3>1 DEF Nested
    <3>4. finish_sp <= Len(Pop(stack))
      BY <1>1, <1>6, <2>1, <3>1
    <3> QED BY <1>1, <2>1, <3>2, <3>3, <3>4, Counting DEF Handlers
  <2> QED BY <2>2, <2>3
<1> QED BY <1>2, <1>3, <1>5, <1>7, <1>8 DEF Instruction

LEMMA HandlersStep == Behaved /\ TypeOK /\ Handlers /\ [Next]_vars => Handlers'
<1> SUFFICES ASSUME Behaved, TypeOK, Handlers, [Next]_vars PROVE Handlers'
  OBVIOUS
<1>1. CASE StartAtari \/ StartAmiga \/ PlayPass \/ TrapReturns
  BY <1>1 DEF StartAtari, StartAmiga, StartTrack, PlayPass, TrapReturns, Finish, Handlers
<1>2. CASE Instruction
  <2>1. CASE call = "irq"
    <3>1. at = "loop"
      BY <1>2 DEF Instruction, Op, MoveSR, Push, Drop, Rts, Rte, Stop, Reset, Trap, Execute
    <3> QED BY <1>2, <2>1, <3>1, HandlerInstruction
  <2>2. CASE call # "irq"
    <3>1. PICK s \in Seq(Entry), m \in Ipl, r \in Statuses : \E i : Execute(i, s, m, r)
      BY <1>2, AnyInstruction
    <3> QED BY <2>2, <3>1 DEF Execute, GoesOn, ghosts, Handlers
  <2> QED BY <2>1, <2>2
<1>3. CASE Continue \/ InitReturns \/ StartFails \/ PlayFails
  BY <1>3 DEF Continue, InitReturns, StartFails, PlayFails, Returns, Adjust, emu, ghosts,
              Handlers, Clean
<1>4. CASE PlayReturns \/ EndOfPass
  BY <1>4 DEF PlayReturns, EndOfPass, PlaySR, Returns, Handlers, Clean
<1>5. ASSUME NEW t \in 0..(CPP - 1), Interrupt(t)
      PROVE  Handlers'
  <2>1. call = "irq" /\ at = "out" /\ call' = "irq" /\ given' = given + 1 /\ floor' = floor
    BY <1>5 DEF Interrupt, Returns
  <2>2. CASE ipl = Irq
    <3>1. ~(Irq > ipl)
      BY <2>2 DEF Irq
    <3>2. status = "BRK"
      BY <2>1, <2>2 DEF Handlers, Clean, Play, Irq
    <3> QED BY <1>5, <2>1, <2>2, <3>1, <3>2 DEF Interrupt, Handlers
  <2>3. CASE ipl # Irq
    <3>1. status \in {"NRM", "BRK"} /\ Clean /\ Irq > ipl
      BY <2>1, <2>3 DEF Handlers, Clean, Play, Irq
    <3>2. /\ stack' = Append(stack, Play) /\ ipl' = Irq /\ status' = "NRM" /\ at' = "loop"
          /\ finish_sp' = Len(stack') /\ ran' = given' /\ fault' = fault
      BY <1>5, <3>1 DEF Interrupt, Frame, Masked, Resumed, Clean
    <3>3. /\ stack \in Seq(Entry) /\ Play \in Entry /\ Len(stack) \in Nat
      BY LenProperties DEF TypeOK, Entry, Ipl, Play
    <3>4. Len(stack') = floor + 1 /\ stack'[floor + 1] = Play
      BY <3>1, <3>2, <3>3, Pushed DEF Clean
    <3>5. Nested'
      BY <2>1, <3>2, <3>3, <3>4 DEF Nested, TypeOK
    <3> QED BY <2>1, <3>2, <3>5 DEF Handlers
  <2> QED BY <2>2, <2>3
<1>6. CASE UNCHANGED vars
  BY <1>6 DEF vars, emu, ghosts, Handlers, Clean, Nested
<1> QED BY <1>1, <1>2, <1>3, <1>4, <1>5, <1>6 DEF Next, Return

LEMMA HandlersAlways == ASSUME Behaved PROVE Spec => [](TypeOK /\ Handlers)
<1>1. Init => Handlers
  BY DEF Init, Handlers
<1>2. TypeOK /\ Handlers /\ [Next]_vars => Handlers'
  BY HandlersStep
<1> QED BY <1>1, <1>2, RunTypes, PTL DEF Spec

(* A pass that the player takes for a good one left no handler unfinished. *)
THEOREM HandlersDoReturn == ASSUME Behaved PROVE Spec => []HandlersReturn
<1>1. TypeOK /\ Handlers => HandlersReturn
  BY DEF Handlers, HandlersReturn, GoodPass, Clean
<1> QED BY <1>1, HandlersAlways, PTL

(* ... and ran the handler of every interrupt the chip gave.               *)
THEOREM InterruptsDoRun == ASSUME Behaved PROVE Spec => []EveryInterruptRuns
<1>1. TypeOK /\ Handlers => EveryInterruptRuns
  BY DEF Handlers, EveryInterruptRuns, GoodPass, Clean
<1> QED BY <1>1, HandlersAlways, PTL

(* The assertions of loop68() on the status hold: what breaks them is code *)
(* that stops or resets the processor under interrupt.                     *)
THEOREM NeverStopped == ASSUME Behaved PROVE Spec => []NotStopped
<1>1. TypeOK /\ Handlers => NotStopped
  BY DEF Handlers, NotStopped
<1> QED BY <1>1, HandlersAlways, PTL

-----------------------------------------------------------------------------
(* The instructions.                                                       *)
Byte == 0..(Full("b") - 1)
Exceptions == {"none", "illegal", "adrerr", "divide", "chk", "trap", "trapv", "linea", "linef"}
CpuSet == [reg : [Register -> Long], usp : Long, mem : [Cell -> Byte], pc : Long, f : Flags,
           exc : Exceptions]

-----------------------------------------------------------------------------
(* Sizes, registers and memory.                                            *)
LEMMA Sizes ==
  /\ "b" \in Size /\ "w" \in Size /\ "l" \in Size
  /\ Full("w") = Full("b") * Full("b") /\ Full("l") = Full("w") * Full("w")
  /\ \A z \in Size : Full(z) \in Nat \ {0}
  /\ \A z \in Size : \E k \in Nat \ {0} : Full("l") = Full(z) * k
<1>1. "b" \in Size /\ "w" \in Size /\ "l" \in Size  BY DEF Size
<1>2. \A z \in Size : Bits[z] \in Nat /\ Full(z) \in Nat \ {0}  BY Widths
<1>3. Bits["w"] = Bits["b"] + Bits["b"] /\ Bits["l"] = Bits["w"] + Bits["w"]
  BY <1>1, <1>2, AluAssumption
<1>4. Full("w") = Full("b") * Full("b") /\ Full("l") = Full("w") * Full("w")
  BY <1>1, <1>2, <1>3, Pow2Sum DEF Full
<1>5. ASSUME NEW z \in Size PROVE \E k \in Nat \ {0} : Full("l") = Full(z) * k
  <2> DEFINE B == Full("b")
             W == Full("w")
             L == Full("l")
  <2>1. B \in Nat \ {0} /\ W \in Nat \ {0} /\ L \in Nat \ {0} /\ W = B * B /\ L = W * W
    BY <1>1, <1>2, <1>4
  <2> HIDE DEF B, W, L
  <2>2. L = B * (B * W) /\ B * W \in Nat \ {0}
    <3>1. B * W \in Nat \ {0}  BY <2>1, Times
    <3>2. (B * B) * W = B * (B * W)  BY <2>1
    <3> QED BY <2>1, <3>1, <3>2
  <2>3. L = L * 1  BY <2>1
  <2> QED BY <2>1, <2>2, <2>3 DEF Size, B, W, L
<1> QED BY <1>1, <1>2, <1>4, <1>5

LEMMA Processor ==
  /\ SP \in AReg /\ DReg \cap AReg = {} /\ AReg \subseteq Register /\ DReg \subseteq Register
  /\ MEM \in Nat \ {0} /\ MEM \in Long /\ Long \subseteq Nat /\ 0 \in Long
  /\ \A a \in Int : (a % MEM) \in 0..(MEM - 1)
  /\ \A v \in Int : (v % Full("l")) \in Long
  /\ \A v \in Long : v % Full("l") = v
<1>1. Full("l") \in Nat \ {0} /\ "l" \in Size  BY Sizes
<1> DEFINE L == Full("l")
<1>2. Long = 0..(L - 1)  BY DEF Long
<1> HIDE DEF L
<1>3. L \in Nat \ {0}  BY <1>1 DEF L
<1>4. MEM \in Nat \ {0} /\ MEM \in Long /\ Long \subseteq Nat /\ 0 \in Long
  BY <1>2, <1>3, CpuAssumption
<1>5. \A a \in Int : (a % MEM) \in 0..(MEM - 1)  BY <1>4, DivMod
<1>6. \A v \in Int : (v % L) \in Long  BY <1>2, <1>3, DivMod
<1>7. \A v \in Long : v % L = v  BY <1>1, <1>2, Scaled DEF L
<1> QED BY <1>4, <1>5, <1>6, <1>7, CpuAssumption DEF Register, L

LEMMA Longs == 0 \in Long /\ MEM \in Long /\ \A v \in Long : v \in Int /\ v \in Nat
<1>1. Long \subseteq Nat  BY Processor
<1> QED BY <1>1, Processor

LEMMA Kinds ==
  /\ SP \in AReg /\ SP \in Register /\ DReg \cap AReg = {}
  /\ AReg \subseteq Register /\ DReg \subseteq Register
BY Processor

(* Two digits of base n and m.                                             *)
LEMMA Digits ==
  ASSUME NEW n \in Nat \ {0}, NEW m \in Nat \ {0}, NEW a \in 0..(n - 1), NEW b \in 0..(m - 1)
  PROVE  /\ a * m + b \in 0..(n * m - 1)
         /\ (a * m + b) \div m = a /\ (a * m + b) % m = b
<1>1. a * m \in Nat /\ n * m \in Nat /\ (n - 1) * m = n * m - m /\ a * m = m * a  BY SMT
<1>2. a * m <= (n - 1) * m
  <2>1. a \in Int /\ n - 1 \in Int /\ a <= n - 1  OBVIOUS
  <2> QED BY <2>1, ScaledOrder
<1>3. a * m + b \in 0..(n * m - 1)  BY <1>1, <1>2
<1> DEFINE v == a * m + b
<1>4. v \in Int /\ v = m * a + b /\ a \in Int  BY <1>1
<1> HIDE DEF v
<1>5. v \div m = a /\ v % m = b  BY <1>4, DivModIs
<1> QED BY <1>3, <1>5 DEF v

(* What is below the size is replaced.                                     *)
LEMMA Merge ==
  ASSUME NEW n \in Nat \ {0}, NEW k \in Nat \ {0}, NEW x \in 0..(n * k - 1), NEW v \in Int
  PROVE  /\ (x - (x % n)) + (v % n) \in 0..(n * k - 1)
         /\ ((x - (x % n)) + (v % n)) \div n = x \div n
         /\ ((x - (x % n)) + (v % n)) % n = v % n
<1> DEFINE q == x \div n
           r == x % n
           p == v % n
           y == (x - (x % n)) + (v % n)
<1>1. n * k \in Nat \ {0} /\ x \in Int /\ x >= 0 /\ n * k = k * n  BY Times
<1>2. x = n * q + r /\ r \in 0..(n - 1) /\ q \in Nat /\ p \in 0..(n - 1)
  <2>1. x = n * (x \div n) + (x % n) /\ x % n \in 0..(n - 1) /\ x \div n \in Nat
    BY <1>1, DivMod
  <2>2. v % n \in 0..(n - 1)  BY DivMod
  <2> QED BY <2>1, <2>2
<1>4. y = (x - r) + p  OBVIOUS
<1> HIDE DEF q, r, p, y
<1>5. n * q = q * n /\ n * q \in Nat  BY <1>2
<1>6. y = q * n + p  BY <1>1, <1>2, <1>4, <1>5
<1>7. q \in 0..(k - 1)
  <2>1. ~(k <= q)
    <3>1. k \in Int /\ q \in Int  BY <1>2
    <3>2. k * n <= q * n <=> k <= q  BY <3>1, ScaledOrder
    <3> QED BY <1>1, <1>2, <1>5, <3>2
  <2> QED BY <1>2, <2>1
<1>8. y \in 0..(k * n - 1) /\ y \div n = q /\ y % n = p  BY <1>2, <1>6, <1>7, Digits
<1> QED BY <1>1, <1>8 DEF y, q, p

-----------------------------------------------------------------------------
(* What the helpers leave of a processor.                                  *)

(* Data registers, memory and flags are those of b.                        *)
Like(c, b) ==
  /\ c \in CpuSet /\ c.mem = b.mem /\ c.f = b.f
  /\ \A n \in DReg : c.reg[n] = b.reg[n]

LEMMA Fields ==
  ASSUME NEW c \in CpuSet
  PROVE  /\ c.reg \in [Register -> Long] /\ c.usp \in Long /\ c.mem \in [Cell -> Byte]
         /\ c.pc \in Long /\ c.f \in Flags /\ c.exc \in Exceptions /\ Like(c, c)
         /\ \A r \in Register : c.reg[r] \in Long /\ c.reg[r] \in Int
<1>1. Long \subseteq Int
  <2>1. Long \subseteq Nat  BY Processor
  <2> QED BY <2>1
<1>2. /\ c.reg \in [Register -> Long] /\ c.usp \in Long /\ c.mem \in [Cell -> Byte]
      /\ c.pc \in Long /\ c.f \in Flags /\ c.exc \in Exceptions
  BY DEF CpuSet
<1>3. \A r \in Register : c.reg[r] \in Long  BY <1>2
<1>4. Like(c, c)  BY DEF Like
<1>5. \A r \in Register : c.reg[r] \in Int  BY <1>1, <1>3, Zenon
<1> QED BY <1>2, <1>3, <1>4, <1>5, Zenon

LEMMA SetAIs ==
  ASSUME NEW c \in CpuSet, NEW r \in Register, NEW v \in Int
  PROVE  /\ SetA(c, r, v) \in CpuSet
         /\ SetA(c, r, v) = [c EXCEPT !.reg = SetA(c, r, v).reg]
         /\ SetA(c, r, v).reg[r] = v % Full("l") /\ v % Full("l") \in Long
         /\ \A x \in Register \ {r} : SetA(c, r, v).reg[x] = c.reg[x]
         /\ SetA(c, r, v).mem = c.mem /\ SetA(c, r, v).f = c.f /\ SetA(c, r, v).pc = c.pc
         /\ SetA(c, r, v).reg \in [Register -> Long] /\ SetA(c, r, v).usp = c.usp
         /\ SetA(c, r, v).exc = c.exc
         /\ r \in AReg => Like(SetA(c, r, v), c)
<1>1. v % Full("l") \in Long  BY Processor
<1> DEFINE w == v % Full("l")
           d == [c EXCEPT !.reg[r] = w]
<1>2. SetA(c, r, v) = d  BY DEF SetA
<1>3. w \in Long  BY <1>1
<1> HIDE DEF w
<1>4. /\ d \in CpuSet /\ d = [c EXCEPT !.reg = d.reg] /\ d.reg[r] = w
      /\ \A x \in Register \ {r} : d.reg[x] = c.reg[x]
      /\ d.mem = c.mem /\ d.f = c.f /\ d.pc = c.pc /\ d.usp = c.usp /\ d.exc = c.exc
      /\ d.reg \in [Register -> Long]
  BY <1>3 DEF CpuSet
<1>5. r \in AReg => \A n \in DReg : n \in Register \ {r}  BY Processor
<1>6. r \in AReg => Like(d, c)
  <2> HIDE DEF d
  <2> QED BY <1>4, <1>5 DEF Like
<1> QED BY <1>1, <1>2, <1>4, <1>6 DEF w

LEMMA ReadIs ==
  ASSUME NEW c \in CpuSet, NEW z \in Size, NEW a \in Int
  PROVE  Read(c, z, a) \in 0..(Full(z) - 1) /\ Read(c, z, a) \in Long
<1> DEFINE p == a % MEM
           B == Full("b")
           m(i) == c.mem[p + i]
<1>1. p \in 0..(MEM - 1) /\ MEM \in Nat  BY Processor
<1>2. p + 0 \in Cell /\ p + 1 \in Cell /\ p + 2 \in Cell /\ p + 3 \in Cell
  <2> HIDE DEF p
  <2> QED BY <1>1 DEF Cell
<1>3. c.mem \in [Cell -> Byte]  BY Fields
<1>4. m(0) \in Byte /\ m(1) \in Byte /\ m(2) \in Byte /\ m(3) \in Byte
  <2> HIDE DEF p
  <2> QED BY <1>2, <1>3
<1> DEFINE x0 == m(0)  x1 == m(1)  x2 == m(2)  x3 == m(3)
<1>5. /\ z = "b" => Read(c, z, a) = x0
      /\ z = "w" => Read(c, z, a) = x0 * B + x1
      /\ z = "l" => Read(c, z, a) = ((x0 * B + x1) * B + x2) * B + x3
  BY Zenon DEF Read
<1>6. B \in Nat \ {0} /\ Full("w") = B * B /\ Full("l") = ((B * B) * B) * B
      /\ B * B \in Nat \ {0} /\ (B * B) * B \in Nat \ {0}
  <2>1. B \in Nat \ {0} /\ Full("w") = B * B /\ Full("l") = (B * B) * (B * B)  BY LongIsWords
  <2> HIDE DEF B
  <2>2. B * B \in Nat \ {0}  BY <2>1, Times
  <2>3. (B * B) * B \in Nat \ {0}  BY <2>1, <2>2, Times
  <2>4. (B * B) * (B * B) = ((B * B) * B) * B  BY <2>1
  <2> QED BY <2>1, <2>2, <2>3, <2>4
<1>7. x0 \in 0..(B - 1) /\ x1 \in 0..(B - 1) /\ x2 \in 0..(B - 1) /\ x3 \in 0..(B - 1)
  BY <1>4 DEF Byte
<1> HIDE DEF B, x0, x1, x2, x3, m, p
<1>8. x0 * B + x1 \in 0..(B * B - 1)  BY <1>6, <1>7, Digits
<1>9. (x0 * B + x1) * B + x2 \in 0..((B * B) * B - 1)  BY <1>6, <1>7, <1>8, Digits
<1>10. ((x0 * B + x1) * B + x2) * B + x3 \in 0..(((B * B) * B) * B - 1)
  BY <1>6, <1>7, <1>9, Digits
<1>11. Read(c, z, a) \in 0..(Full(z) - 1)
  <2>1. CASE z = "b"  BY <1>5, <1>7, <2>1 DEF B
  <2>2. CASE z = "w"  BY <1>5, <1>6, <1>8, <2>2
  <2>3. CASE z = "l"  BY <1>5, <1>6, <1>10, <2>3
  <2> QED BY <2>1, <2>2, <2>3 DEF Size
<1>12. Full(z) <= Full("l") /\ Full(z) \in Nat /\ Full("l") \in Nat
  <2>1. PICK k \in Nat \ {0} : Full("l") = Full(z) * k  BY Sizes
  <2>2. Full(z) \in Nat \ {0}  BY Sizes
  <2> QED BY <2>1, <2>2, Times
<1> HIDE DEF B
<1> QED BY <1>11, <1>12 DEF Long

LEMMA ByteIs ==
  ASSUME NEW v \in Int, NEW z \in Size, NEW i \in 0..(Bytes[z] - 1)
  PROVE  ByteOf(v, z, i) \in Byte
<1> DEFINE k == Bytes[z] - 1 - i
           e == Bits["b"] * k
<1>1. Bytes[z] \in Nat  BY DEF Bytes, Size
<1>2. k \in Nat /\ Bits["b"] \in Nat /\ "b" \in Size
  <2>1. "b" \in Size  BY Sizes
  <2> QED BY <1>1, <2>1, Widths
<1>3. e \in Nat
  <2> HIDE DEF k
  <2> QED BY <1>2
<1> HIDE DEF e
<1>4. Pow2[e] \in Nat \ {0}  BY <1>3, Pow2Positive
<1>5. v \div Pow2[e] \in Int  BY <1>4, DivMod
<1> DEFINE q == v \div Pow2[e]
<1>6. q \in Int /\ Full("b") \in Nat \ {0}  BY <1>5, Sizes
<1> HIDE DEF q
<1>7. q % Full("b") \in Byte  BY <1>6, DivMod DEF Byte
<1> QED BY <1>7 DEF q, e, ByteOf

(* Memory after a write at p.                                              *)
Written(e, c, z, p, v) ==
  /\ e \in CpuSet /\ e = [c EXCEPT !.mem = e.mem]
  /\ e.reg = c.reg /\ e.f = c.f /\ e.pc = c.pc /\ e.usp = c.usp /\ e.exc = c.exc
  /\ \A i \in Cell : /\ i \notin p..(p + Bytes[z] - 1) => e.mem[i] = c.mem[i]
                     /\ i \in p..(p + Bytes[z] - 1) => e.mem[i] = ByteOf(v, z, i - p)

LEMMA WriteIs ==
  ASSUME NEW c \in CpuSet, NEW z \in Size, NEW a \in Int, NEW v \in Int
  PROVE  /\ Written(Write(c, z, a, v), c, z, a % MEM, v)
         /\ a % MEM \in 0..(MEM - 1) /\ a % MEM \in Int
<1> DEFINE p == a % MEM
           m == [i \in Cell |-> IF i \in p..(p + Bytes[z] - 1) THEN ByteOf(v, z, i - p) ELSE c.mem[i]]
           d == [c EXCEPT !.mem = m]
<1>1. Write(c, z, a, v) = d  BY DEF Write
<1>2. p \in Int /\ Bytes[z] \in Nat
  <2>1. p \in 0..(MEM - 1) /\ MEM \in Nat  BY Processor
  <2> QED BY <2>1 DEF Bytes, Size
<1>3. m \in [Cell -> Byte]
  <2>1. ASSUME NEW i \in Cell
        PROVE  (IF i \in p..(p + Bytes[z] - 1) THEN ByteOf(v, z, i - p) ELSE c.mem[i]) \in Byte
    <3>1. CASE i \in p..(p + Bytes[z] - 1)
      <4>1. i - p \in 0..(Bytes[z] - 1)  BY <1>2, <3>1
      <4> QED BY <3>1, <4>1, ByteIs
    <3>2. CASE i \notin p..(p + Bytes[z] - 1)  BY <3>2, Fields
    <3> QED BY <3>1, <3>2
  <2> QED BY <2>1
<1>4. \A i \in Cell : m[i] = IF i \in p..(p + Bytes[z] - 1) THEN ByteOf(v, z, i - p) ELSE c.mem[i]
  OBVIOUS
<1> HIDE DEF m
<1>5. /\ d \in CpuSet /\ d.mem = m
      /\ d.reg = c.reg /\ d.f = c.f /\ d.pc = c.pc /\ d.usp = c.usp /\ d.exc = c.exc
  BY <1>3 DEF CpuSet
<1>6. d = [c EXCEPT !.mem = d.mem]  BY <1>5
<1> HIDE DEF d
<1>7. Written(d, c, z, p, v)  BY <1>4, <1>5, <1>6, Zenon DEF Written
<1>8. p \in 0..(MEM - 1)  BY Processor
<1> QED BY <1>1, <1>2, <1>7, <1>8, Zenon

(* A register after its low part was replaced.                             *)
Replaced(e, c, z, r, v) ==
  /\ e \in CpuSet /\ e = [c EXCEPT !.reg = e.reg]
  /\ e.mem = c.mem /\ e.f = c.f /\ e.pc = c.pc /\ e.usp = c.usp /\ e.exc = c.exc
  /\ \A x \in Register \ {r} : e.reg[x] = c.reg[x]
  /\ e.reg[r] \div Full(z) = c.reg[r] \div Full(z)
  /\ e.reg[r] % Full(z) = v % Full(z)

LEMMA SetDIs ==
  ASSUME NEW c \in CpuSet, NEW z \in Size, NEW r \in Register, NEW v \in Int
  PROVE  Replaced(SetD(c, z, r, v), c, z, r, v)
<1> DEFINE n == Full(z)
           x == c.reg[r]
           y == (x - (x % n)) + (v % n)
           d == [c EXCEPT !.reg[r] = y]
<1>1. SetD(c, z, r, v) = d
  <2>1. c.reg \in [Register -> Long]  BY Fields
  <2> QED BY <2>1 DEF SetD, CpuSet
<1>2. PICK k \in Nat \ {0} : Full("l") = n * k  BY Sizes
<1>3. n \in Nat \ {0} /\ x \in 0..(n * k - 1)
  <2>1. x \in Long  BY Fields
  <2> QED BY <1>2, <2>1, Sizes DEF Long
<1> HIDE DEF n, x
<1>4. y \in 0..(n * k - 1) /\ y \div n = x \div n /\ y % n = v % n  BY <1>3, Merge
<1>5. y \in Long  BY <1>2, <1>4 DEF Long
<1> HIDE DEF y
<1>6. /\ d \in CpuSet /\ d = [c EXCEPT !.reg = d.reg] /\ d.reg[r] = y
      /\ d.mem = c.mem /\ d.f = c.f /\ d.pc = c.pc /\ d.usp = c.usp /\ d.exc = c.exc
      /\ \A q \in Register \ {r} : d.reg[q] = c.reg[q]
  BY <1>5 DEF CpuSet
<1> HIDE DEF d
<1>7. d.reg[r] \div n = x \div n /\ d.reg[r] % n = v % n  BY <1>4, <1>6
<1>8. Replaced(d, c, z, r, v)  BY <1>6, <1>7, Zenon DEF Replaced, n, x
<1> QED BY <1>1, <1>8

-----------------------------------------------------------------------------
(* Operands.                                                               *)
Modes == {"dn", "an", "ind", "inc", "dec", "disp", "index", "abs"}
OperandOK(o) ==
  /\ o.m \in Modes /\ o.r \in Register /\ o.w \in Long /\ o.x[1] \in Register
  /\ o.m = "dn" => o.r \in DReg
  /\ o.m # "dn" => o.r \in AReg

LEMMA Operands ==
  /\ \A o \in Every : OperandOK(o)
  /\ Dn \subseteq Data /\ Ind \subseteq Mem /\ Inc \subseteq Mem /\ Dec \subseteq Mem
  /\ DispAn \subseteq Mem /\ IndexAn \subseteq Mem /\ Ae \subseteq Mem
  /\ Mem \subseteq Data /\ Data \subseteq Every /\ An \subseteq Every
  /\ \A o \in Dn : o.m = "dn"
  /\ \A o \in An \cup Mem : o.m # "dn"
  /\ \A o \in Data : o.m # "an"
<1>1. /\ Dn \subseteq Data /\ Ind \subseteq Mem /\ Inc \subseteq Mem /\ Dec \subseteq Mem
      /\ DispAn \subseteq Mem /\ IndexAn \subseteq Mem /\ Ae \subseteq Mem
      /\ Mem \subseteq Data /\ Data \subseteq Every /\ An \subseteq Every
  BY Zenon DEF Mem, Data, Every
<1>2. SP \in AReg /\ AReg \subseteq Register /\ DReg \subseteq Register /\ 0 \in Long
      /\ Disp \subseteq Long /\ Abs \subseteq Long
      /\ NoIndex \subseteq Register \X {"w", "l"} /\ IndexBy \subseteq Register \X {"w", "l"}
  <2>1. Disp \subseteq Long /\ Abs \subseteq Long /\ IndexBy \subseteq Register \X {"w", "l"}
    BY CpuAssumption, Zenon
  <2>2. NoIndex \subseteq Register \X {"w", "l"}  BY Kinds DEF NoIndex
  <2> QED BY <2>1, <2>2, Kinds, Longs, Zenon
<1>3. ASSUME NEW ms \in SUBSET Modes, NEW rs \in SUBSET Register, NEW ws \in SUBSET Long,
             NEW xs \in SUBSET (Register \X {"w", "l"}), NEW o \in Operand(ms, rs, ws, xs)
      PROVE  o.m \in ms /\ o.r \in rs /\ o.w \in Long /\ o.x[1] \in Register /\ o.r \in Register
             /\ o.m \in Modes
  <2>1. o.m \in ms /\ o.r \in rs /\ o.w \in ws /\ o.x \in xs  BY DEF Operand
  <2>2. o.x \in Register \X {"w", "l"}  BY <2>1
  <2>3. o.x[1] \in Register  BY <2>2
  <2> QED BY <2>1, <2>3, Zenon
<1>4. \A o \in Dn : OperandOK(o) /\ o.m = "dn"
  <2> SUFFICES ASSUME NEW o \in Dn PROVE OperandOK(o) /\ o.m = "dn"  OBVIOUS
  <2>1. /\ {"dn"} \in SUBSET Modes /\ DReg \in SUBSET Register /\ {0} \in SUBSET Long
        /\ NoIndex \in SUBSET (Register \X {"w", "l"})
    BY <1>2 DEF Modes
  <2>2. o.m \in {"dn"} /\ o.r \in DReg /\ o.w \in Long /\ o.x[1] \in Register /\ o.r \in Register
        /\ o.m \in Modes
    BY <2>1, <1>3, Zenon DEF Dn
  <2> QED BY <2>2 DEF OperandOK
<1>5. ASSUME NEW m \in Modes \ {"dn"}, NEW rs \in SUBSET AReg, NEW ws \in SUBSET Long,
             NEW xs \in SUBSET (Register \X {"w", "l"}), NEW o \in Operand({m}, rs, ws, xs)
      PROVE  OperandOK(o) /\ o.m = m
  <2>1. {m} \in SUBSET Modes /\ rs \in SUBSET Register  BY <1>2
  <2>2. o.m \in {m} /\ o.r \in rs /\ o.w \in Long /\ o.x[1] \in Register /\ o.r \in Register
        /\ o.m \in Modes
    BY <2>1, <1>3, Zenon
  <2>3. o.r \in AReg  BY <2>2
  <2> QED BY <2>2, <2>3 DEF OperandOK
<1>6. /\ AReg \in SUBSET AReg /\ {SP} \in SUBSET AReg /\ {0} \in SUBSET Long
      /\ Disp \in SUBSET Long /\ Abs \in SUBSET Long
      /\ NoIndex \in SUBSET (Register \X {"w", "l"}) /\ IndexBy \in SUBSET (Register \X {"w", "l"})
      /\ "an" \in Modes \ {"dn"} /\ "ind" \in Modes \ {"dn"} /\ "inc" \in Modes \ {"dn"}
      /\ "dec" \in Modes \ {"dn"} /\ "disp" \in Modes \ {"dn"} /\ "index" \in Modes \ {"dn"}
      /\ "abs" \in Modes \ {"dn"}
  BY <1>2 DEF Modes
<1>7. \A o \in An : OperandOK(o) /\ o.m = "an"  BY <1>5, <1>6, Zenon DEF An
<1>8. \A o \in Ind : OperandOK(o) /\ o.m = "ind"  BY <1>5, <1>6, Zenon DEF Ind
<1>9. \A o \in Inc : OperandOK(o) /\ o.m = "inc"  BY <1>5, <1>6, Zenon DEF Inc
<1>10. \A o \in Dec : OperandOK(o) /\ o.m = "dec"  BY <1>5, <1>6, Zenon DEF Dec
<1>11. \A o \in DispAn : OperandOK(o) /\ o.m = "disp"  BY <1>5, <1>6, Zenon DEF DispAn
<1>12. \A o \in IndexAn : OperandOK(o) /\ o.m = "index"  BY <1>5, <1>6, Zenon DEF IndexAn
<1>13. \A o \in Ae : OperandOK(o) /\ o.m = "abs"  BY <1>5, <1>6, Zenon DEF Ae
<1>14. \A o \in Mem : OperandOK(o) /\ o.m # "dn" /\ o.m # "an"
  BY <1>8, <1>9, <1>10, <1>11, <1>12, <1>13 DEF Mem
<1>15. \A o \in Every : OperandOK(o)  BY <1>4, <1>7, <1>14 DEF Every, Data
<1>16. \A o \in An \cup Mem : o.m # "dn"  BY <1>7, <1>14
<1>17. \A o \in Data : o.m # "an"  BY <1>4, <1>14 DEF Data
<1> QED BY <1>1, <1>4, <1>15, <1>16, <1>17

LEMMA SignsIs ==
  ASSUME NEW v \in Int, NEW z \in Size
  PROVE  Signs(v, z) \in Long /\ Signs(v, z) \in Int
<1> DEFINE w == v % Full(z)
<1>1. w \in 0..(Full(z) - 1)
  <2>1. Full(z) \in Nat \ {0}  BY Sizes
  <2> QED BY <2>1, DivMod
<1> HIDE DEF w
<1>2. SignedOf(w, z) \in Int
  <2>1. Full(z) \in Nat \ {0} /\ w \in Int  BY <1>1, Sizes
  <2> QED BY <2>1 DEF SignedOf
<1> DEFINE s == SignedOf(w, z)
<1>3. s \in Int  BY <1>2
<1> HIDE DEF s
<1>4. s % Full("l") \in Long  BY <1>3, Processor
<1>5. Signs(v, z) \in Long  BY <1>4 DEF Signs, s, w
<1> QED BY <1>5, Longs

(* Every address computed is a long; computing it moves at most an address *)
(* register.                                                               *)
LEMMA EaIs ==
  ASSUME NEW c \in CpuSet, NEW z \in Size, NEW o, OperandOK(o)
  PROVE  Like(Ea(c, z, o).c, c) /\ Ea(c, z, o).at \in Long
<1> DEFINE a == c.reg[o.r]
           S == Stride68(z, o.r)
           up == SetA(c, o.r, a + S)
           down == SetA(c, o.r, a - S)
           e == Ea(c, z, o)
<1>1. a \in Long /\ a \in Int /\ S \in Int /\ a + S \in Int /\ a - S \in Int /\ o.w \in Int
      /\ o.r \in Register
  <2>1. a \in Long /\ a \in Int /\ o.r \in Register  BY Fields DEF OperandOK
  <2>2. o.w \in Long  BY DEF OperandOK
  <2>3. S \in Int  BY DEF Stride68, Bytes, Size
  <2> HIDE DEF a, S
  <2>4. o.w \in Int  BY <2>2, Longs
  <2>5. a + S \in Int /\ a - S \in Int  BY <2>1, <2>3
  <2> QED BY <2>1, <2>3, <2>4, <2>5
<1>2. CASE o.m \in {"ind", "abs"}
  <2>1. e.c = c /\ e.at \in {a, o.w}  BY <1>2 DEF Ea
  <2> QED BY <1>1, <2>1, Fields DEF OperandOK
<1>3. CASE o.m \in {"inc", "dec"}
  <2>1. o.r \in AReg  BY <1>3 DEF OperandOK
  <2>2. /\ o.m = "inc" => e = [c |-> up, at |-> a]
        /\ o.m = "dec" => e = [c |-> down, at |-> down.reg[o.r]]
    BY <1>3, Zenon DEF Ea
  <2> HIDE DEF a, S
  <2>3. Like(up, c) /\ Like(down, c) /\ down \in CpuSet  BY <1>1, <2>1, SetAIs
  <2>4. down.reg[o.r] \in Long  BY <1>1, <2>3, Fields
  <2> QED BY <1>1, <1>3, <2>2, <2>3, <2>4 DEF a
<1>4. CASE o.m = "disp"
  <2>1. e = [c |-> c, at |-> (a + o.w) % Full("l")]  BY <1>4, Zenon DEF Ea
  <2>2. a + o.w \in Int
    <3> HIDE DEF a
    <3> QED BY <1>1
  <2>3. (a + o.w) % Full("l") \in Long
    <3> DEFINE v == a + o.w
    <3> HIDE DEF v
    <3> QED BY <2>2, Processor DEF v
  <2> QED BY <2>1, <2>3, Fields
<1>5. CASE o.m = "index"
  <2> DEFINE v == a + o.w + Indexed(c, o.x)
  <2>1. e = [c |-> c, at |-> v % Full("l")]  BY <1>5, Zenon DEF Ea
  <2>2. Indexed(c, o.x) \in Int
    <3>1. c.reg[o.x[1]] \in Int  BY Fields DEF OperandOK
    <3>2. Signs(c.reg[o.x[1]], "w") \in Int  BY <3>1, SignsIs, Sizes
    <3> QED BY <3>1, <3>2 DEF Indexed
  <2>3. v \in Int
    <3> HIDE DEF a
    <3> QED BY <1>1, <2>2
  <2> HIDE DEF v
  <2>4. v % Full("l") \in Long  BY <2>3, Processor
  <2> QED BY <2>1, <2>4, Fields
<1>6. CASE o.m \in {"dn", "an"}
  <2>1. e = [c |-> Raise(c, "adrerr"), at |-> 0]  BY <1>6, Zenon DEF Ea
  <2>2. Like(Raise(c, "adrerr"), c)  BY DEF Raise, Like, CpuSet, Exceptions
  <2> QED BY <2>1, <2>2, Processor
<1> QED BY <1>2, <1>3, <1>4, <1>5, <1>6 DEF OperandOK, Modes

LEMMA LikeIs ==
  ASSUME NEW a, NEW b, NEW c, Like(a, b), Like(b, c)
  PROVE  Like(a, c)
BY DEF Like

LEMMA SourceIs ==
  ASSUME NEW c \in CpuSet, NEW z \in Size, NEW o, OperandOK(o)
  PROVE  Like(Source(c, z, o).c, c) /\ Source(c, z, o).v \in Long
<1> DEFINE e == Ea(c, z, o)
<1>1. Like(e.c, c) /\ e.at \in Long  BY EaIs
<1>2. CASE o.m \in {"dn", "an"}
  <2>1. Source(c, z, o) = [c |-> c, v |-> c.reg[o.r]]  BY <1>2, Zenon DEF Source
  <2> QED BY <2>1, Fields DEF OperandOK
<1>3. CASE o.m \notin {"dn", "an"}
  <2>1. Source(c, z, o) = [c |-> e.c, v |-> Read(e.c, z, e.at)]  BY <1>3, Zenon DEF Source
  <2>2. e.c \in CpuSet /\ e.at \in Int  BY <1>1, Longs DEF Like
  <2> HIDE DEF e
  <2>3. Read(e.c, z, e.at) \in Long  BY <2>2, ReadIs
  <2> QED BY <1>1, <2>1, <2>3
<1> QED BY <1>2, <1>3

-----------------------------------------------------------------------------
(* The ALU: what an operation is given and what it gives.                  *)
Unary == {"clr", "tst", "not"}
Logical == {"and", "or", "eor"}
Shifts == ToLeft \cup ToRight
Operations == Sums \cup Unary \cup Logical \cup Shifts

TraceOf(op, z, s, d, f) ==
  LET res == Operate(op, z, s, d, f)
  IN  [op |-> op, z |-> z, s |-> s, d |-> d % Full(z), f |-> f, r |-> Down(res.r, z), g |-> res.f]
DivTraceOf(op, s, d, f) ==
  LET res == ByWord(op, Up(s, "w"), Up(d, "l"), f)
  IN  [op |-> op, z |-> "l", s |-> s, d |-> d, f |-> f, r |-> Down(res.r, "l"), g |-> res.f]

AluOK(a) ==
  \/ a = NoAlu
  \/ \E op \in Operations, z \in Size, s \in Nat, d \in Nat, f \in Flags : a = TraceOf(op, z, s, d, f)
  \/ \E op \in {"divu", "divs"}, s \in 1..(Full("w") - 1), d \in Long, f \in Flags :
       a = DivTraceOf(op, s, d, f)

LEMMA Aligning ==
  ASSUME NEW z \in Size, NEW s \in Nat
  PROVE  /\ s % Full(z) \in 0..(Full(z) - 1)
         /\ Up(s, z) = (s % Full(z)) * Unit(z) /\ Up(s, z) \in Value68
<1>1. Full(z) \in Nat \ {0} /\ s \in Int  BY Sizes
<1>2. s % Full(z) \in 0..(Full(z) - 1)  BY <1>1, DivMod
<1> QED BY <1>1, <1>2, UpIs

(* The sums and differences, by name.                                      *)
LEMMA SumsAre ==
  ASSUME NEW op \in Sums \ {"cmp"}, NEW z \in Size, NEW s \in Nat, NEW d \in Nat, NEW f \in Flags,
         NEW S, S = s % Full(z), NEW D, D = d % Full(z), NEW x, x = IF f.x THEN 1 ELSE 0,
         NEW i, i = SignedOf(S, z), NEW j, j = SignedOf(D, z),
         NEW res, res = Operate(op, z, s, d, f)
  PROVE  /\ op = "add" => SumOf(z, Down(res.r, z), res.f, D + S, j + i)
         /\ op = "addx" => SumOf(z, Down(res.r, z), res.f, D + S + x, j + i + x)
         /\ op = "sub" => SumOf(z, Down(res.r, z), res.f, D - S, j - i)
         /\ op = "subx" => SumOf(z, Down(res.r, z), res.f, D - S - x, j - i - x)
         /\ op = "neg" => SumOf(z, Down(res.r, z), res.f, -D, -j)
         /\ op = "negx" => SumOf(z, Down(res.r, z), res.f, -D - x, -j - x)
<1> DEFINE u == Unit(z)
           o == 0
<1>1. /\ S \in 0..(Full(z) - 1) /\ D \in 0..(Full(z) - 1)
      /\ Up(s, z) = S * u /\ Up(d, z) = D * u
  BY Aligning
<1>2. x \in {0, 1} /\ o \in {0, 1} /\ o * u = 0 /\ Extend(f, z) = x * u
  <2>1. u \in Nat \ {0}  BY Widths
  <2>2. f.x => x = 1 /\ Extend(f, z) = u
    BY Zenon DEF Extend
  <2>3. ~f.x => x = 0 /\ Extend(f, z) = 0
    BY Zenon DEF Extend
  <2> HIDE DEF u
  <2>4. 1 * u = u /\ 0 * u = 0  BY <2>1
  <2>5. Extend(f, z) = x * u
    <3>1. CASE f.x  BY <2>2, <2>4, <3>1, Zenon
    <3>2. CASE ~f.x  BY <2>3, <2>4, <3>2, Zenon
    <3> QED BY <3>1, <3>2
  <2> QED BY <2>4, <2>5
<1>3. S \in Int /\ D \in Int /\ i \in Int /\ j \in Int /\ x \in Int
  <2>1. Full(z) \in Nat \ {0}  BY Sizes
  <2> QED BY <1>1, <1>2, <2>1 DEF SignedOf
<1>4. /\ op = "add" => res = Add68(S * u, D * u, o * u)
      /\ op = "addx" => res = Add68(S * u, D * u, x * u)
      /\ op = "sub" => res = Sub68(S * u, D * u, o * u)
      /\ op = "subx" => res = Sub68(S * u, D * u, x * u)
      /\ op = "neg" => res = Neg68(D * u, o * u)
      /\ op = "negx" => res = Neg68(D * u, x * u)
  <2> HIDE DEF u, o
  <2>0. o * u = 0  BY <1>2
  <2>1. CASE op = "add"  BY <1>1, <2>0, <2>1, Zenon DEF Operate
  <2>2. CASE op = "addx"  BY <1>1, <1>2, <2>2, Zenon DEF Operate
  <2>3. CASE op = "sub"  BY <1>1, <2>0, <2>3, Zenon DEF Operate
  <2>4. CASE op = "subx"  BY <1>1, <1>2, <2>4, Zenon DEF Operate
  <2>5. CASE op = "neg"  BY <1>1, <2>0, <2>5, Zenon DEF Operate
  <2>6. CASE op = "negx"  BY <1>1, <1>2, <2>6, Zenon DEF Operate
  <2> QED BY <2>1, <2>2, <2>3, <2>4, <2>5, <2>6, Zenon DEF Sums
<1> HIDE DEF o
<1>5. \A y \in {o, x} :
        LET a == Add68(S * u, D * u, y * u)
            b == Sub68(S * u, D * u, y * u)
            c == Neg68(D * u, y * u)
        IN  /\ SumOf(z, Down(a.r, z), a.f, S + D + y, i + j + y)
            /\ SumOf(z, Down(b.r, z), b.f, D - S - y, j - i - y)
            /\ SumOf(z, Down(c.r, z), c.f, -D - y, -j - y)
  <2> SUFFICES ASSUME NEW y \in {0, 1}
               PROVE  LET a == Add68(S * u, D * u, y * u)
                          b == Sub68(S * u, D * u, y * u)
                          c == Neg68(D * u, y * u)
                      IN  /\ SumOf(z, Down(a.r, z), a.f, S + D + y, i + j + y)
                          /\ SumOf(z, Down(b.r, z), b.f, D - S - y, j - i - y)
                          /\ SumOf(z, Down(c.r, z), c.f, -D - y, -j - y)
    BY <1>2
  <2> QED BY <1>1, AddAtSize, SubAtSize, NegAtSize
<1>6. /\ S + D + o = D + S /\ i + j + o = j + i /\ S + D + x = D + S + x /\ i + j + x = j + i + x
      /\ D - S - o = D - S /\ j - i - o = j - i /\ -D - o = -D /\ -j - o = -j
  <2>1. o = 0  BY DEF o
  <2> QED BY <1>3, <2>1
<1> HIDE DEF u
<1> DEFINE T(e, a, b) == SumOf(z, Down(e.r, z), e.f, a, b)
<1>7. /\ T(Add68(S * u, D * u, o * u), S + D + o, i + j + o)
      /\ T(Add68(S * u, D * u, x * u), S + D + x, i + j + x)
      /\ T(Sub68(S * u, D * u, o * u), D - S - o, j - i - o)
      /\ T(Sub68(S * u, D * u, x * u), D - S - x, j - i - x)
      /\ T(Neg68(D * u, o * u), -D - o, -j - o)
      /\ T(Neg68(D * u, x * u), -D - x, -j - x)
  <2>1. o \in {o, x} /\ x \in {o, x}  OBVIOUS
  <2> QED BY <1>5, <2>1, Zenon
<1> HIDE DEF T
<1>8. /\ op = "add" => T(res, D + S, j + i)
      /\ op = "addx" => T(res, D + S + x, j + i + x)
      /\ op = "sub" => T(res, D - S, j - i)
      /\ op = "subx" => T(res, D - S - x, j - i - x)
      /\ op = "neg" => T(res, -D, -j)
      /\ op = "negx" => T(res, -D - x, -j - x)
  BY <1>4, <1>6, <1>7, Zenon
<1> QED BY <1>8 DEF T

(* All operations leave a value of their size and flags, and those that    *)
(* are to keep X do.                                                       *)
LEMMA OperateIs ==
  ASSUME NEW op \in Operations, NEW z \in Size, NEW s \in Nat, NEW d \in Nat, NEW f \in Flags,
         NEW res, res = Operate(op, z, s, d, f)
  PROVE  /\ Down(res.r, z) \in 0..(Full(z) - 1) /\ res.f \in Flags
         /\ op \in KeepsX => res.f.x = f.x
<1> DEFINE S == s % Full(z)
           D == d % Full(z)
           u == Unit(z)
           k == s % SHIFTS
<1>1. /\ S \in 0..(Full(z) - 1) /\ D \in 0..(Full(z) - 1)
      /\ Up(s, z) = S * u /\ Up(d, z) = D * u /\ Up(s, z) \in Value68 /\ Up(d, z) \in Value68
  BY Aligning
<1>2. CASE op \in Sums \ {"cmp"}
  <2> DEFINE x == IF f.x THEN 1 ELSE 0
             i == SignedOf(S, z)
             j == SignedOf(D, z)
  <2>1. \E t, v : SumOf(z, Down(res.r, z), res.f, t, v) /\ t \in Int
    <3>1. /\ op = "add" => SumOf(z, Down(res.r, z), res.f, D + S, j + i)
          /\ op = "addx" => SumOf(z, Down(res.r, z), res.f, D + S + x, j + i + x)
          /\ op = "sub" => SumOf(z, Down(res.r, z), res.f, D - S, j - i)
          /\ op = "subx" => SumOf(z, Down(res.r, z), res.f, D - S - x, j - i - x)
          /\ op = "neg" => SumOf(z, Down(res.r, z), res.f, -D, -j)
          /\ op = "negx" => SumOf(z, Down(res.r, z), res.f, -D - x, -j - x)
      BY <1>2, SumsAre
    <3>2. S \in Int /\ D \in Int /\ x \in Int  BY <1>1
    <3> HIDE DEF S, D, x, i, j
    <3>3. D + S \in Int /\ D + S + x \in Int /\ D - S \in Int /\ D - S - x \in Int /\ -D \in Int
          /\ -D - x \in Int
      BY <3>2
    <3> QED BY <1>2, <3>1, <3>3 DEF Sums
  <2>2. PICK t \in Int : \E v : SumOf(z, Down(res.r, z), res.f, t, v)  BY <2>1
  <2>3. Down(res.r, z) = t % Full(z) /\ res.f \in Flags  BY <2>2 DEF SumOf
  <2>4. t % Full(z) \in 0..(Full(z) - 1)
    <3>1. Full(z) \in Nat \ {0}  BY Sizes
    <3> QED BY <3>1, DivMod
  <2>5. op \notin KeepsX  BY <1>2 DEF Sums, KeepsX
  <2> QED BY <2>3, <2>4, <2>5
<1>3. CASE op = "cmp"
  <2>1. res = Cmp68(S * u, D * u, f)  BY <1>1, <1>3, Zenon DEF Operate
  <2> HIDE DEF S, D
  <2>2. res.f \in Flags /\ res.f.x = f.x /\ Down(res.r, z) = D  BY <1>1, <2>1, CmpAtSize
  <2> QED BY <1>1, <2>2
<1>4. CASE op \in Unary \cup Logical
  <2>1. 0 \in Value68  BY Halves DEF Value68
  <2>2. \/ res = Tested(0, f) \/ res = Tested(Up(d, z), f)
        \/ res \in {And68(Up(s, z), Up(d, z), f), Orr68(Up(s, z), Up(d, z), f),
                    Eor68(Up(s, z), Up(d, z), f), Not68(Up(d, z), z, f)}
    <3>1. CASE op = "clr"  BY <3>1, Zenon DEF Operate, Clr68
    <3>2. CASE op = "tst"  BY <3>2, Zenon DEF Operate
    <3>3. CASE op = "not"  BY <3>3, Zenon DEF Operate
    <3>4. CASE op = "and"  BY <3>4, Zenon DEF Operate
    <3>5. CASE op = "or"  BY <3>5, Zenon DEF Operate
    <3>6. CASE op = "eor"  BY <3>6, Zenon DEF Operate
    <3> QED BY <1>4, <3>1, <3>2, <3>3, <3>4, <3>5, <3>6 DEF Unary, Logical
  <2> DEFINE A == Up(s, z)
             B == Up(d, z)
  <2>3. A \in Value68 /\ B \in Value68  BY <1>1
  <2>4. \/ res = Tested(0, f) \/ res = Tested(B, f)
        \/ res \in {And68(A, B, f), Orr68(A, B, f), Eor68(A, B, f), Not68(B, z, f)}
    BY <2>2
  <2> HIDE DEF A, B
  <2>5. Down(res.r, z) \in 0..(Full(z) - 1) /\ res.f \in Flags /\ res.f.x = f.x
    <3>1. CASE res = Tested(0, f) \/ res = Tested(B, f)  BY <2>1, <2>3, <3>1, TestedIs
    <3>2. CASE res \in {And68(A, B, f), Orr68(A, B, f), Eor68(A, B, f), Not68(B, z, f)}
      BY <2>3, <3>2, LogicIs
    <3> QED BY <2>4, <3>1, <3>2
  <2> QED BY <2>5
<1>5. CASE op \in Shifts
  <2>1. k \in Nat
    <3>1. SHIFTS \in Nat \ {0} /\ s \in Int  BY AluAssumption
    <3> QED BY <3>1, DivMod
  <2> HIDE DEF k
  <2>2. res = Shift68(op, Up(d, z), k, z, f)
    <3>1. CASE op = "asl"  BY <3>1, Zenon DEF Operate, Shift68, k
    <3>2. CASE op = "asr"  BY <3>2, Zenon DEF Operate, Shift68, k
    <3>3. CASE op = "lsl"  BY <3>3, Zenon DEF Operate, Shift68, k
    <3>4. CASE op = "lsr"  BY <3>4, Zenon DEF Operate, Shift68, k
    <3>5. CASE op = "rol"  BY <3>5, Zenon DEF Operate, Shift68, k
    <3>6. CASE op = "ror"  BY <3>6, Zenon DEF Operate, Shift68, k
    <3>7. CASE op = "roxl"  BY <3>7, Zenon DEF Operate, Shift68, k
    <3>8. CASE op = "roxr"  BY <3>8, Zenon DEF Operate, Shift68, k
    <3> QED BY <1>5, <3>1, <3>2, <3>3, <3>4, <3>5, <3>6, <3>7, <3>8 DEF Shifts, ToLeft, ToRight
  <2> HIDE DEF D
  <2>3. SameAs(op, z, BitByBit(op, Full(z), D, f)[k], res)
    BY <1>1, <1>5, <2>1, <2>2, ShiftsAreBits DEF Shifts
  <2>4. Down(res.r, z) \in 0..(Full(z) - 1) /\ res.f \in Flags
    <3> DEFINE t == BitByBit(op, Full(z), D, f)[k]
    <3> HIDE DEF t
    <3>1. SameAs(op, z, t, res)  BY <2>3 DEF t
    <3> QED BY <3>1 DEF SameAs
  <2>5. op \in KeepsX => res.f.x = f.x
    <3>1. CASE op = "rol"
      <4>1. res = Rol68(Up(d, z), k, z, f)  BY <2>2, <3>1, Zenon DEF Shift68
      <4> QED BY <4>1 DEF Rol68, Shifted
    <3>2. CASE op = "ror"
      <4>1. res = Ror68(Up(d, z), k, z, f)  BY <2>2, <3>2, Zenon DEF Shift68
      <4> QED BY <4>1 DEF Ror68, Shifted
    <3>3. op \in KeepsX => op = "rol" \/ op = "ror"
      BY <1>5 DEF Shifts, ToLeft, ToRight, KeepsX
    <3> QED BY <3>1, <3>2, <3>3
  <2> QED BY <2>4, <2>5
<1> QED BY <1>2, <1>3, <1>4, <1>5 DEF Operations

-----------------------------------------------------------------------------
(* What the traces of the ALU satisfy.                                     *)
LEMMA TraceIs ==
  ASSUME NEW op, NEW z, NEW s, NEW d, NEW f, alu = TraceOf(op, z, s, d, f)
  PROVE  /\ alu.op = op /\ alu.z = z /\ alu.s = s /\ alu.d = d % Full(z) /\ alu.f = f
         /\ alu.r = Down(Operate(op, z, s, d, f).r, z) /\ alu.g = Operate(op, z, s, d, f).f
BY Zenon DEF TraceOf

LEMMA FlagsAre ==
  ASSUME NEW f \in Flags
  PROVE  f.x \in BOOLEAN /\ f.n \in BOOLEAN /\ f.z \in BOOLEAN /\ f.v \in BOOLEAN /\ f.c \in BOOLEAN
BY DEF Flags

LEMMA SumTraced ==
  ASSUME NEW z \in Size, NEW u \in Int, NEW i, alu.op # "cmp", SumOf(z, alu.r, alu.g, u, i)
  PROVE  SumExact(Full(z), u, i)
<1> DEFINE n == Full(z)
           c == u \notin 0..(n - 1)
           v == 2 * i \notin (-n)..(n - 1)
           m == 2 * alu.r >= n
<1>1. alu.g \in Flags  BY DEF SumOf
<1>2. /\ alu.g.x \in BOOLEAN /\ alu.g.n \in BOOLEAN /\ alu.g.z \in BOOLEAN /\ alu.g.v \in BOOLEAN
      /\ alu.g.c \in BOOLEAN
  BY <1>1, FlagsAre
<1>3. c \in BOOLEAN /\ v \in BOOLEAN
  <2>1. \A p, q : (p \notin q) \in BOOLEAN  OBVIOUS
  <2> QED BY <2>1
<1>4. /\ alu.r = u % n /\ (alu.g.c <=> c) /\ (alu.g.x <=> c) /\ (alu.g.v <=> v) /\ (alu.g.n <=> m)
      /\ (alu.g.z <=> alu.r = 0)
  BY Zenon DEF SumOf
<1>5. m \in BOOLEAN
  <2>1. n \in Nat \ {0}  BY Sizes
  <2> HIDE DEF n
  <2>2. u % n \in 0..(n - 1)  BY <2>1, DivMod
  <2>3. 2 * alu.r \in Int /\ n \in Int  BY <1>4, <2>1, <2>2
  <2>4. \A p, q \in Int : (p >= q) \in BOOLEAN  OBVIOUS
  <2> QED BY <2>3, <2>4, Zenon
<1> HIDE DEF c, v, m
<1>6. alu.g.c = c /\ alu.g.v = v /\ alu.g.n = m /\ alu.g.z = (alu.r = 0) /\ alu.g.x = alu.g.c
  BY <1>2, <1>3, <1>4, <1>5
<1> QED BY <1>4, <1>6, Zenon DEF SumExact, c, v, m

LEMMA SumsTraced ==
  ASSUME NEW op \in Sums, NEW z \in Size, NEW s \in Nat, NEW d \in Nat, NEW f \in Flags,
         alu = TraceOf(op, z, s, d, f)
  PROVE  SumsExact
<1> DEFINE S == s % Full(z)
           D == d % Full(z)
           x == IF f.x THEN 1 ELSE 0
           i == SignedOf(S, z)
           j == SignedOf(D, z)
           res == Operate(op, z, s, d, f)
<1>1. /\ alu.op = op /\ alu.z = z /\ alu.s = s /\ alu.d = D /\ alu.f = f
      /\ alu.r = Down(res.r, z) /\ alu.g = res.f
  BY TraceIs
<1>2. CASE op = "cmp"
  <2> DEFINE n == Full(z)
             c == D - S \notin 0..(n - 1)
             v == 2 * (j - i) \notin (-n)..(n - 1)
             m == 2 * ((D - S) % n) >= n
             e == (D - S) % n = 0
  <2>1. /\ S \in 0..(Full(z) - 1) /\ D \in 0..(Full(z) - 1)
        /\ Up(s, z) = S * Unit(z) /\ Up(d, z) = D * Unit(z)
    BY Aligning
  <2>2. res = Cmp68(S * Unit(z), D * Unit(z), f)  BY <1>2, <2>1, Zenon DEF Operate
  <2> HIDE DEF S, D, res
  <2>3. /\ res.f \in Flags /\ res.f.x = f.x /\ (res.f.c <=> c) /\ (res.f.v <=> v)
        /\ (res.f.n <=> m) /\ (res.f.z <=> e)
    BY <2>1, <2>2, CmpAtSize
  <2>4. /\ res.f.x \in BOOLEAN /\ res.f.n \in BOOLEAN /\ res.f.z \in BOOLEAN /\ res.f.v \in BOOLEAN
        /\ res.f.c \in BOOLEAN
    BY <2>3, FlagsAre
  <2>5. c \in BOOLEAN /\ v \in BOOLEAN /\ e \in BOOLEAN /\ m \in BOOLEAN
    <3>1. \A p, q : (p \notin q) \in BOOLEAN /\ (p = q) \in BOOLEAN  OBVIOUS
    <3>2. c \in BOOLEAN /\ v \in BOOLEAN /\ e \in BOOLEAN  BY <3>1
    <3>3. n \in Nat \ {0} /\ D - S \in Int  BY <2>1, Sizes
    <3> HIDE DEF n
    <3>4. (D - S) % n \in 0..(n - 1)  BY <3>3, DivMod
    <3>5. 2 * ((D - S) % n) \in Int /\ n \in Int  BY <3>3, <3>4
    <3>6. \A p, q \in Int : (p >= q) \in BOOLEAN  OBVIOUS
    <3> QED BY <3>2, <3>5, <3>6, Zenon
  <2> HIDE DEF c, v, m, e, i, j
  <2>6. res.f.c = c /\ res.f.v = v /\ res.f.n = m /\ res.f.z = e  BY <2>3, <2>4, <2>5
  <2>7. SumExact(n, D - S, j - i)
    BY <1>1, <1>2, <2>3, <2>6, Zenon DEF SumExact, c, v, m, e
  <2> QED BY <1>1, <1>2, <2>7, Zenon DEF SumsExact, S, i, j
<1>3. CASE op \in Sums \ {"cmp"}
  <2>1. /\ op = "add" => SumOf(z, Down(res.r, z), res.f, D + S, j + i)
        /\ op = "addx" => SumOf(z, Down(res.r, z), res.f, D + S + x, j + i + x)
        /\ op = "sub" => SumOf(z, Down(res.r, z), res.f, D - S, j - i)
        /\ op = "subx" => SumOf(z, Down(res.r, z), res.f, D - S - x, j - i - x)
        /\ op = "neg" => SumOf(z, Down(res.r, z), res.f, -D, -j)
        /\ op = "negx" => SumOf(z, Down(res.r, z), res.f, -D - x, -j - x)
    BY <1>3, SumsAre
  <2>0. S \in Int /\ D \in Int /\ x \in Int  BY Aligning
  <2> HIDE DEF S, D, x, i, j, res
  <2>2. alu.op # "cmp"  BY <1>1, <1>3
  <2>11. D + S \in Int /\ D + S + x \in Int /\ D - S \in Int /\ D - S - x \in Int /\ -D \in Int
         /\ -D - x \in Int
    BY <2>0
  <2>3. \A u \in Int : \A t : SumOf(z, Down(res.r, z), res.f, u, t) => SumExact(Full(z), u, t)
    BY <1>1, <2>2, SumTraced
  <2>4. /\ op = "add" => SumExact(Full(z), D + S, j + i)
        /\ op = "addx" => SumExact(Full(z), D + S + x, j + i + x)
        /\ op = "sub" => SumExact(Full(z), D - S, j - i)
        /\ op = "subx" => SumExact(Full(z), D - S - x, j - i - x)
        /\ op = "neg" => SumExact(Full(z), -D, -j)
        /\ op = "negx" => SumExact(Full(z), -D - x, -j - x)
    BY <2>1, <2>3, <2>11, Zenon
  <2>5. CASE op = "add"  BY <1>1, <2>4, <2>5, Zenon DEF SumsExact, S, i, j
  <2>6. CASE op = "addx"  BY <1>1, <2>4, <2>6, Zenon DEF SumsExact, S, i, j, x
  <2>7. CASE op = "sub"  BY <1>1, <2>4, <2>7, Zenon DEF SumsExact, S, i, j
  <2>8. CASE op = "subx"  BY <1>1, <2>4, <2>8, Zenon DEF SumsExact, S, i, j, x
  <2>9. CASE op = "neg"  BY <1>1, <2>4, <2>9, Zenon DEF SumsExact, S, i, j
  <2>10. CASE op = "negx"  BY <1>1, <2>4, <2>10, Zenon DEF SumsExact, S, i, j, x
  <2> QED BY <1>3, <2>5, <2>6, <2>7, <2>8, <2>9, <2>10 DEF Sums
<1> QED BY <1>2, <1>3

LEMMA HoldsIs ==
  ASSUME NEW f \in Flags, NEW cc \in Conditions
  PROVE  Holds(cc, f) \in BOOLEAN
<1>1. /\ f.x \in BOOLEAN /\ f.n \in BOOLEAN /\ f.z \in BOOLEAN /\ f.v \in BOOLEAN
      /\ f.c \in BOOLEAN
  BY FlagsAre
<1> QED BY <1>1 DEF Holds, Conditions

LEMMA ComparesTraced ==
  ASSUME NEW z \in Size, NEW s \in Nat, NEW d \in Nat, NEW f \in Flags,
         alu = TraceOf("cmp", z, s, d, f)
  PROVE  Compares
<1> DEFINE S == s % Full(z)
           D == d % Full(z)
           i == SignedOf(S, z)
           j == SignedOf(D, z)
           res == Operate("cmp", z, s, d, f)
           g == res.f
           Order10(cc) == CASE cc = "hi" -> D > S   [] cc = "ls" -> D <= S
                           [] cc = "cc" -> D >= S  [] cc = "cs" -> D < S
                           [] cc = "ne" -> D # S   [] cc = "eq" -> D = S
                           [] cc = "ge" -> j >= i  [] cc = "lt" -> j < i
                           [] cc = "gt" -> j > i   [] cc = "le" -> j <= i
<1>1. alu.z = z /\ alu.s = s /\ alu.d = D /\ alu.g = g  BY TraceIs
<1>2. /\ S \in 0..(Full(z) - 1) /\ D \in 0..(Full(z) - 1)
      /\ Up(s, z) = S * Unit(z) /\ Up(d, z) = D * Unit(z)
  BY Aligning
<1>3. res = Cmp68(S * Unit(z), D * Unit(z), f)  BY <1>2, Zenon DEF Operate
<1>4. S \in Int /\ D \in Int /\ i \in Int /\ j \in Int
  <2>1. Full(z) \in Nat \ {0}  BY Sizes
  <2> QED BY <1>2, <2>1 DEF SignedOf
<1> HIDE DEF S, D, res
<1>5. g \in Flags  BY <1>2, <1>3, CmpAtSize
<1>6. /\ Holds("hi", g) <=> D > S
      /\ Holds("ls", g) <=> D <= S
      /\ Holds("cc", g) <=> D >= S
      /\ Holds("cs", g) <=> D < S
      /\ Holds("eq", g) <=> D = S
      /\ Holds("ne", g) <=> D # S
      /\ Holds("ge", g) <=> j >= i
      /\ Holds("lt", g) <=> j < i
      /\ Holds("gt", g) <=> j > i
      /\ Holds("le", g) <=> j <= i
  BY <1>2, <1>3, OrderAtSize
<1> HIDE DEF g, i, j
<1>8. \A cc \in {"hi", "ls", "cc", "cs", "ne", "eq", "ge", "lt", "gt", "le"} : Holds(cc, g) \in BOOLEAN
  BY <1>5, HoldsIs DEF Conditions
<1>9. /\ Holds("hi", g) = (D > S)
      /\ Holds("ls", g) = (D <= S)
      /\ Holds("cc", g) = (D >= S)
      /\ Holds("cs", g) = (D < S)
      /\ Holds("eq", g) = (D = S)
      /\ Holds("ne", g) = (D # S)
      /\ Holds("ge", g) = (j >= i)
      /\ Holds("lt", g) = (j < i)
      /\ Holds("gt", g) = (j > i)
      /\ Holds("le", g) = (j <= i)
  <2>1. \A p, q \in Int : /\ (p > q) \in BOOLEAN /\ (p >= q) \in BOOLEAN /\ (p < q) \in BOOLEAN
                          /\ (p <= q) \in BOOLEAN /\ (p = q) \in BOOLEAN /\ (p # q) \in BOOLEAN
    OBVIOUS
  <2>2. /\ (D > S) \in BOOLEAN /\ (D <= S) \in BOOLEAN /\ (D >= S) \in BOOLEAN
        /\ (D < S) \in BOOLEAN /\ (D = S) \in BOOLEAN /\ (D # S) \in BOOLEAN
        /\ (j >= i) \in BOOLEAN /\ (j < i) \in BOOLEAN /\ (j > i) \in BOOLEAN
        /\ (j <= i) \in BOOLEAN
    BY <1>4, <2>1, Zenon
  <2>3. Holds("hi", g) \in BOOLEAN  BY <1>8, SMT
  <2>4. Holds("ls", g) \in BOOLEAN  BY <1>8, SMT
  <2>5. Holds("cc", g) \in BOOLEAN  BY <1>8, SMT
  <2>6. Holds("cs", g) \in BOOLEAN  BY <1>8, SMT
  <2>7. Holds("eq", g) \in BOOLEAN  BY <1>8, SMT
  <2>8. Holds("ne", g) \in BOOLEAN  BY <1>8, SMT
  <2>9. Holds("ge", g) \in BOOLEAN  BY <1>8, SMT
  <2>10. Holds("lt", g) \in BOOLEAN  BY <1>8, SMT
  <2>11. Holds("gt", g) \in BOOLEAN  BY <1>8, SMT
  <2>12. Holds("le", g) \in BOOLEAN  BY <1>8, SMT
  <2>13. Holds("hi", g) = (D > S)  BY <1>6, <2>2, <2>3
  <2>14. Holds("ls", g) = (D <= S)  BY <1>6, <2>2, <2>4
  <2>15. Holds("cc", g) = (D >= S)  BY <1>6, <2>2, <2>5
  <2>16. Holds("cs", g) = (D < S)  BY <1>6, <2>2, <2>6
  <2>17. Holds("eq", g) = (D = S)  BY <1>6, <2>2, <2>7
  <2>18. Holds("ne", g) = (D # S)  BY <1>6, <2>2, <2>8
  <2>19. Holds("ge", g) = (j >= i)  BY <1>6, <2>2, <2>9
  <2>20. Holds("lt", g) = (j < i)  BY <1>6, <2>2, <2>10
  <2>21. Holds("gt", g) = (j > i)  BY <1>6, <2>2, <2>11
  <2>22. Holds("le", g) = (j <= i)  BY <1>6, <2>2, <2>12
  <2> QED BY <2>13, <2>14, <2>15, <2>16, <2>17, <2>18, <2>19, <2>20, <2>21, <2>22, Zenon
<1>7. ASSUME NEW cc \in Conditions \ {"t", "f", "vc", "vs", "pl", "mi"}
      PROVE  Holds(cc, g) = Order10(cc)
  <2>1. cc \in {"hi", "ls", "cc", "cs", "ne", "eq", "ge", "lt", "gt", "le"}  BY DEF Conditions
  <2>2. CASE cc = "hi"  BY <1>9, <2>2, Zenon
  <2>3. CASE cc = "ls"  BY <1>9, <2>3, Zenon
  <2>4. CASE cc = "cc"  BY <1>9, <2>4, Zenon
  <2>5. CASE cc = "cs"  BY <1>9, <2>5, Zenon
  <2>6. CASE cc = "eq"  BY <1>9, <2>6, Zenon
  <2>7. CASE cc = "ne"  BY <1>9, <2>7, Zenon
  <2>8. CASE cc = "ge"  BY <1>9, <2>8, Zenon
  <2>9. CASE cc = "lt"  BY <1>9, <2>9, Zenon
  <2>10. CASE cc = "gt"  BY <1>9, <2>10, Zenon
  <2>11. CASE cc = "le"  BY <1>9, <2>11, Zenon
  <2> HIDE DEF Order10
  <2> QED BY <2>1, <2>2, <2>3, <2>4, <2>5, <2>6, <2>7, <2>8, <2>9, <2>10, <2>11
<1> QED BY <1>1, <1>7, Zenon DEF Compares, S, i, j

LEMMA DivTraceIs ==
  ASSUME NEW op, NEW s, NEW d, NEW f, alu = DivTraceOf(op, s, d, f)
  PROVE  /\ alu.op = op /\ alu.z = "l" /\ alu.s = s /\ alu.d = d /\ alu.f = f
         /\ alu.r = Down(ByWord(op, Up(s, "w"), Up(d, "l"), f).r, "l")
         /\ alu.g = ByWord(op, Up(s, "w"), Up(d, "l"), f).f
BY Zenon DEF DivTraceOf

LEMMA DivTraced ==
  ASSUME NEW op \in {"divu", "divs"}, NEW s \in 1..(Full("w") - 1), NEW d \in Long,
         NEW f \in Flags, alu = DivTraceOf(op, s, d, f)
  PROVE  /\ DivisionExact
         /\ alu.r \in 0..(Full("l") - 1) /\ alu.g \in Flags /\ alu.g.x = f.x
<1> DEFINE W == Full("w")
           res == ByWord(op, Up(s, "w"), Up(d, "l"), f)
           r == Down(res.r, "l")
           q == r % W
           h == r \div W
           two == 2 * q
<1>1. /\ alu.op = op /\ alu.s = s /\ alu.d = d /\ alu.f = f /\ alu.r = r /\ alu.g = res.f
  BY DivTraceIs
<1>2. d \in 0..(Full("l") - 1)  BY DEF Long
<1>3. W \in Nat \ {0} /\ "w" \in Size  BY Sizes
<1>4. CASE op = "divu"
  <2>1. res = Divu68(Up(s, "w"), Up(d, "l"), f)  BY <1>4, Zenon DEF ByWord
  <2>2. /\ r \in 0..(Full("l") - 1) /\ res.f \in Flags /\ res.f.x = f.x
        /\ res.f.v => r = d /\ \A p \in 0..(W - 1) : ~DividesInto(d, s, p, d - p * s)
        /\ ~res.f.v => /\ DividesInto(d, s, q, h)
                       /\ res.f.z <=> q = 0
                       /\ res.f.n <=> two >= W
    BY <1>2, <2>1, DivuExact
  <2> HIDE DEF W, res, r
  <2>3. r \in Int  BY <2>2
  <2>4. q \in 0..(W - 1)  BY <1>3, <2>3, DivMod
  <2>5. (two >= W) \in BOOLEAN /\ (q = 0) \in BOOLEAN
    <3>1. two \in Int /\ W \in Int  BY <1>3, <2>4
    <3>2. \A x, y \in Int : (x >= y) \in BOOLEAN /\ (x = y) \in BOOLEAN  OBVIOUS
    <3>3. q \in Int /\ 0 \in Int  BY <2>4
    <3> HIDE DEF two, q
    <3> QED BY <3>1, <3>2, <3>3, Zenon
  <2> HIDE DEF q, two, h
  <2>6. ~res.f.v => res.f.z = (q = 0) /\ res.f.n = (two >= W)
    <3>1. res.f.z \in BOOLEAN /\ res.f.n \in BOOLEAN  BY <2>2, FlagsAre
    <3> QED BY <2>2, <2>5, <3>1
  <2>7. op # "divs"  BY <1>4
  <2>8. DivisionExact
    BY <1>1, <2>2, <2>6, <2>7, Zenon DEF DivisionExact, DividesInto, q, h, two, W
  <2> QED BY <1>1, <2>2, <2>8
<1>5. CASE op = "divs"
  <2> DEFINE D == SignedOf(d, "l")
             S == SignedOf(s, "w")
             Q == SignedOf(q, "w")
             R == SignedOf(h, "w")
  <2>1. res = Divs68(Up(s, "w"), Up(d, "l"), f)  BY <1>5, Zenon DEF ByWord
  <2>2. /\ r \in 0..(Full("l") - 1) /\ res.f \in Flags /\ res.f.x = f.x
        /\ res.f.v => /\ r = d
                      /\ \A v \in 0..(W - 1) :
                           ~DividesInto(D, S, SignedOf(v, "w"), D - SignedOf(v, "w") * S)
        /\ ~res.f.v => /\ DividesInto(D, S, Q, R)
                       /\ res.f.z <=> Q = 0
                       /\ res.f.n <=> two >= W
    BY <1>2, <2>1, DivsExact
  <2> HIDE DEF W, res, r
  <2>3. r \in Int  BY <2>2
  <2>4. q \in 0..(W - 1)  BY <1>3, <2>3, DivMod
  <2>5. (two >= W) \in BOOLEAN /\ (Q = 0) \in BOOLEAN
    <3>1. two \in Int /\ W \in Int  BY <1>3, <2>4
    <3>2. \A x, y \in Int : (x >= y) \in BOOLEAN /\ (x = y) \in BOOLEAN  OBVIOUS
    <3>3. \A x, y : (x = y) \in BOOLEAN  OBVIOUS
    <3> HIDE DEF two, Q
    <3> QED BY <3>1, <3>2, <3>3, Zenon
  <2> HIDE DEF q, two, h, Q, R, D, S
  <2>6. ~res.f.v => res.f.z = (Q = 0) /\ res.f.n = (two >= W)
    <3>1. res.f.z \in BOOLEAN /\ res.f.n \in BOOLEAN  BY <2>2, FlagsAre
    <3> QED BY <2>2, <2>5, <3>1
  <2>7. DivisionExact
    <3>1. CASE res.f.v
      <4>1. \A a \in {SignedOf(v, "w") : v \in 0..(W - 1)} : ~DividesInto(D, S, a, D - a * S)
        BY <2>2, <3>1
      <4> QED BY <1>1, <1>5, <2>2, <3>1, <4>1, Zenon DEF DivisionExact, DividesInto, D, S, W
    <3>2. CASE ~res.f.v
      BY <1>1, <1>5, <2>2, <2>6, <3>2, Zenon
         DEF DivisionExact, DividesInto, D, S, Q, R, q, h, two, W
    <3> QED BY <3>1, <3>2
  <2> QED BY <1>1, <2>2, <2>7
<1> QED BY <1>4, <1>5

(* LSL by any count clears X, as only C survives its mask.                 *)
LEMMA LslClearsX ==
  ASSUME NEW d, NEW k \in Nat, NEW z, NEW f \in Flags
  PROVE  Lsl68(d, k, z, f).f.x = (f.x /\ k = 0)
<1> DEFINE e == (d * Pow2[k - 1]) % M
           res == Lsl68(d, k, z, f)
<1>1. \A r, x, v, c : Shifted(r, x, v, c).f.x = x  BY DEF Shifted
<1>2. f.x \in BOOLEAN  BY DEF Flags
<1>3. CASE k = 0
  <2>1. ~(k - 1 > SIGN_BIT)  BY <1>3, AluAssumption
  <2>2. res = Shifted(d, f.x, FALSE, FALSE)  BY <1>3, <2>1, Zenon DEF Lsl68
  <2>3. f.x = (f.x /\ k = 0)  BY <1>2, <1>3
  <2> HIDE DEF res
  <2>4. Shifted(d, f.x, FALSE, FALSE).f.x = f.x  BY DEF Shifted
  <2>5. res.f.x = (f.x /\ k = 0)  BY <2>2, <2>3, <2>4, Zenon
  <2> QED BY <2>5 DEF res
<1>4. CASE k # 0
  <2>1. CASE k - 1 > SIGN_BIT
    <3>1. res = Shifted(0, FALSE, FALSE, FALSE)  BY <1>4, <2>1 DEF Lsl68
    <3> HIDE DEF res
    <3>2. res.f.x = FALSE  BY <1>1, <3>1, Zenon
    <3>3. res.f.x = (f.x /\ k = 0)  BY <1>4, <3>2, Zenon
    <3> QED BY <3>3 DEF res
  <2>2. CASE ~(k - 1 > SIGN_BIT)
    <3>1. res = Shifted((2 * e) % M, FALSE, FALSE, Msb(e))  BY <1>4, <2>2 DEF Lsl68
    <3> HIDE DEF res
    <3>2. res.f.x = FALSE  BY <1>1, <3>1, Zenon
    <3>3. res.f.x = (f.x /\ k = 0)  BY <1>4, <3>2, Zenon
    <3> QED BY <3>3 DEF res
  <2> QED BY <2>1, <2>2
<1> QED BY <1>3, <1>4

LEMMA ShiftTraced ==
  ASSUME NEW op \in Shifts, NEW z \in Size, NEW s \in Nat, NEW d \in Nat, NEW f \in Flags,
         alu = TraceOf(op, z, s, d, f)
  PROVE  ShiftsByBits
<1> DEFINE D == d % Full(z)
           k == s % SHIFTS
           res == Operate(op, z, s, d, f)
           t == BitByBit(op, Full(z), D, f)[k]
<1>1. /\ alu.op = op /\ alu.z = z /\ alu.s = s /\ alu.d = D /\ alu.f = f
      /\ alu.r = Down(res.r, z) /\ alu.g = res.f
  BY TraceIs
<1>2. D \in 0..(Full(z) - 1) /\ Up(d, z) = D * Unit(z)  BY Aligning
<1>3. k \in Nat
  <2>1. SHIFTS \in Nat \ {0} /\ s \in Int  BY AluAssumption
  <2> QED BY <2>1, DivMod
<1>4. res = Shift68(op, Up(d, z), k, z, f)
  <2> HIDE DEF D, t
  <2>1. CASE op = "asl"  BY <2>1, Zenon DEF Operate, Shift68, k
  <2>2. CASE op = "asr"  BY <2>2, Zenon DEF Operate, Shift68, k
  <2>3. CASE op = "lsl"  BY <2>3, Zenon DEF Operate, Shift68, k
  <2>4. CASE op = "lsr"  BY <2>4, Zenon DEF Operate, Shift68, k
  <2>5. CASE op = "rol"  BY <2>5, Zenon DEF Operate, Shift68, k
  <2>6. CASE op = "ror"  BY <2>6, Zenon DEF Operate, Shift68, k
  <2>7. CASE op = "roxl"  BY <2>7, Zenon DEF Operate, Shift68, k
  <2>8. CASE op = "roxr"  BY <2>8, Zenon DEF Operate, Shift68, k
  <2> QED BY <2>1, <2>2, <2>3, <2>4, <2>5, <2>6, <2>7, <2>8 DEF Shifts, ToLeft, ToRight
<1>7. op = "lsl" => res.f.x = (f.x /\ k = 0)
  <2> SUFFICES ASSUME op = "lsl" PROVE res.f.x = (f.x /\ k = 0)  OBVIOUS
  <2> HIDE DEF D, t, k, res
  <2>1. res = Lsl68(Up(d, z), k, z, f)  BY <1>4, Zenon DEF Shift68
  <2>2. Lsl68(Up(d, z), k, z, f).f.x = (f.x /\ k = 0)  BY <1>3, LslClearsX
  <2> QED BY <2>1, <2>2, Zenon
<1> HIDE DEF D, k, res
<1>5. SameAs(op, z, t, res)  BY <1>2, <1>3, <1>4, ShiftsAreBits DEF Shifts
<1>6. Slowly = t  BY <1>1, Zenon DEF Slowly, k
<1> HIDE DEF t
<1>8. alu.s % SHIFTS = k  BY <1>1 DEF k
<1> QED BY <1>1, <1>5, <1>6, <1>7, <1>8, Zenon DEF ShiftsByBits, SameAs

(* Whatever the ALU was given, its trace has the types and is what the     *)
(* numbers and the shifts by one bit say.                                  *)
LEMMA AluExact ==
  ASSUME AluOK(alu)
  PROVE  /\ ArithmeticExact /\ ShiftsByBits
         /\ alu.op # "none" => /\ alu.z \in Size /\ {alu.d, alu.r} \subseteq 0..(Full(alu.z) - 1)
                               /\ {alu.f, alu.g} \subseteq Flags
         /\ alu.op \in KeepsX => alu.g.x = alu.f.x
<1>1. CASE alu = NoAlu
  <2>1. alu.op = "none"  BY <1>1 DEF NoAlu
  <2> QED BY <2>1 DEF ArithmeticExact, ShiftsByBits, Sums, ToLeft, ToRight, KeepsX
<1>2. ASSUME NEW op \in Operations, NEW z \in Size, NEW s \in Nat, NEW d \in Nat, NEW f \in Flags,
             alu = TraceOf(op, z, s, d, f)
      PROVE  /\ ArithmeticExact /\ ShiftsByBits
             /\ alu.z \in Size /\ {alu.d, alu.r} \subseteq 0..(Full(alu.z) - 1)
             /\ {alu.f, alu.g} \subseteq Flags
             /\ alu.op \in KeepsX => alu.g.x = alu.f.x
  <2>1. /\ alu.op = op /\ alu.z = z /\ alu.d = d % Full(z) /\ alu.f = f
        /\ alu.r = Down(Operate(op, z, s, d, f).r, z) /\ alu.g = Operate(op, z, s, d, f).f
    BY <1>2, TraceIs
  <2>2. d % Full(z) \in 0..(Full(z) - 1)  BY Aligning
  <2>3. /\ alu.r \in 0..(Full(z) - 1) /\ alu.g \in Flags
        /\ op \in KeepsX => alu.g.x = f.x
    BY <2>1, OperateIs
  <2>4. op \in Sums => SumsExact  BY <1>2, SumsTraced
  <2>5. op = "cmp" => Compares  BY <1>2, ComparesTraced
  <2>6. op \notin {"divu", "divs"}
    BY DEF Operations, Sums, Unary, Logical, Shifts, ToLeft, ToRight
  <2>7. ShiftsByBits
    <3>1. CASE op \in Shifts  BY <1>2, <3>1, ShiftTraced
    <3>2. CASE op \notin Shifts  BY <2>1, <3>2, Zenon DEF ShiftsByBits, Shifts
    <3> QED BY <3>1, <3>2
  <2>8. ArithmeticExact  BY <2>1, <2>4, <2>5, <2>6, Zenon DEF ArithmeticExact
  <2> QED BY <2>1, <2>2, <2>3, <2>7, <2>8
<1>3. ASSUME NEW op \in {"divu", "divs"}, NEW s \in 1..(Full("w") - 1), NEW d \in Long,
             NEW f \in Flags, alu = DivTraceOf(op, s, d, f)
      PROVE  /\ ArithmeticExact /\ ShiftsByBits
             /\ alu.z \in Size /\ {alu.d, alu.r} \subseteq 0..(Full(alu.z) - 1)
             /\ {alu.f, alu.g} \subseteq Flags
             /\ alu.op \in KeepsX => alu.g.x = alu.f.x
  <2>1. alu.op = op /\ alu.z = "l" /\ alu.d = d /\ alu.f = f  BY <1>3, DivTraceIs
  <2>2. /\ DivisionExact /\ alu.r \in 0..(Full("l") - 1) /\ alu.g \in Flags /\ alu.g.x = f.x
    BY <1>3, DivTraced
  <2>3. op \notin Sums /\ op # "cmp" /\ op \notin ToLeft \cup ToRight
    BY DEF Sums, ToLeft, ToRight
  <2>4. "l" \in Size /\ d \in 0..(Full("l") - 1)  BY Sizes DEF Long
  <2>5. ArithmeticExact  BY <2>1, <2>2, <2>3, Zenon DEF ArithmeticExact
  <2>6. ShiftsByBits  BY <2>1, <2>3, Zenon DEF ShiftsByBits
  <2> QED BY <2>1, <2>2, <2>4, <2>5, <2>6
<1>4. alu.op \in KeepsX => alu.op # "none"  BY DEF KeepsX
<1> QED BY <1>1, <1>2, <1>3, <1>4 DEF AluOK

-----------------------------------------------------------------------------
(* What one instruction does to the processor: c is the processor after it *)
(* and b before, z the size of its operand.                                *)
Within(z, c, b) ==
  /\ z \in Size
  /\ \A n \in DReg : c.reg[n] \div Full(z) = b.reg[n] \div Full(z)
  /\ \/ c.mem = b.mem /\ \E r \in DReg : \A n \in DReg \ {r} : c.reg[n] = b.reg[n]
     \/ /\ \A n \in DReg : c.reg[n] = b.reg[n]
        /\ \E p \in Int : \A i \in Cell : i \notin p..(p + Bytes[z] - 1) => c.mem[i] = b.mem[i]

ContainedStep ==
  /\ alu'.op # "none" =>
       LET z == alu'.z
           regs == {n \in DReg : cpu'.reg[n] # cpu.reg[n]}
           cells == {i \in Cell : cpu'.mem[i] # cpu.mem[i]}
       IN  /\ \A n \in DReg : cpu'.reg[n] \div Full(z) = cpu.reg[n] \div Full(z)
           /\ Cardinality(regs) <= 1 /\ (regs # {} => cells = {})
           /\ \A i, j \in cells : i - j < Bytes[z]
  /\ alu'.op \in KeepsX => cpu'.f.x = cpu.f.x

Stepped ==
  /\ cpu' \in CpuSet /\ AluOK(alu') /\ done' = done + 1
  /\ alu'.op # "none" => Within(alu'.z, cpu', cpu)
  /\ alu'.op \in KeepsX => cpu'.f.x = cpu.f.x

LEMMA WithinIs ==
  ASSUME Stepped PROVE ContainedStep
<1> DEFINE z == alu'.z
           regs == {n \in DReg : cpu'.reg[n] # cpu.reg[n]}
           cells == {i \in Cell : cpu'.mem[i] # cpu.mem[i]}
<1>1. CASE alu'.op = "none"  BY <1>1 DEF Stepped, ContainedStep
<1>2. CASE alu'.op # "none"
  <2>1. Within(z, cpu', cpu)  BY <1>2 DEF Stepped
  <2>2. z \in Size /\ \A n \in DReg : cpu'.reg[n] \div Full(z) = cpu.reg[n] \div Full(z)
    BY <2>1, Zenon DEF Within
  <2>3. Bytes[z] \in Nat \ {0}  BY <2>2 DEF Size, Bytes
  <2>4. Cell \subseteq Int  BY DEF Cell
  <2> HIDE DEF z
  <2>5. CASE cpu'.mem = cpu.mem /\ \E r \in DReg : \A n \in DReg \ {r} : cpu'.reg[n] = cpu.reg[n]
    <3>1. PICK r \in DReg : \A n \in DReg \ {r} : cpu'.reg[n] = cpu.reg[n]  BY <2>5
    <3>2. cells = {}  BY <2>5
    <3>3. regs = {} \/ regs = {r}  BY <3>1
    <3>4. Cardinality({}) = 0 /\ Cardinality({r}) = 1  BY FS_EmptySet, FS_Singleton
    <3>5. Cardinality(regs) <= 1  BY <3>3, <3>4
    <3> HIDE DEF cells, regs
    <3>6. Cardinality(regs) <= 1 /\ (regs # {} => cells = {}) /\ \A i, j \in cells : i - j < Bytes[z]
      BY <3>2, <3>5
    <3> QED BY <1>2, <2>2, <3>6, Zenon DEF ContainedStep, Stepped, z, cells, regs
  <2>6. CASE /\ \A n \in DReg : cpu'.reg[n] = cpu.reg[n]
             /\ \E p \in Int : \A i \in Cell : i \notin p..(p + Bytes[z] - 1) => cpu'.mem[i] = cpu.mem[i]
    <3>1. PICK p \in Int : \A i \in Cell : i \notin p..(p + Bytes[z] - 1) => cpu'.mem[i] = cpu.mem[i]
      BY <2>6
    <3>2. \A i \in cells : i \in p..(p + Bytes[z] - 1)  BY <3>1
    <3>3. regs = {}  BY <2>6
    <3>4. Cardinality(regs) <= 1  BY <3>3, FS_EmptySet
    <3> HIDE DEF cells, regs
    <3>5. \A i, j \in cells : i - j < Bytes[z]  BY <2>3, <3>2
    <3> QED BY <1>2, <2>2, <3>3, <3>4, <3>5, Zenon DEF ContainedStep, Stepped, z, cells, regs
  <2> QED BY <2>1, <2>5, <2>6, Zenon DEF Within
<1> QED BY <1>1, <1>2

LEMMA DoesIs ==
  ASSUME NEW c \in CpuSet, Does(c)
  PROVE  Stepped
<1>1. cpu' = c /\ alu' = NoAlu /\ done' = done + 1  BY DEF Does, Execute68
<1>2. alu'.op = "none"  BY <1>1 DEF NoAlu
<1>3. alu'.op \notin KeepsX  BY <1>2 DEF KeepsX
<1> QED BY <1>1, <1>2, <1>3 DEF Stepped, AluOK

LEMMA SetFIs ==
  ASSUME NEW c \in CpuSet, NEW f \in Flags
  PROVE  LET b == [c EXCEPT !.f = f]
         IN  /\ b \in CpuSet /\ b.reg = c.reg /\ b.mem = c.mem /\ b.f = f
             /\ b.pc = c.pc /\ b.usp = c.usp /\ b.exc = c.exc
BY DEF CpuSet

LEMMA TracesOf ==
  ASSUME NEW op, NEW z, NEW s, NEW d, NEW res, res = Operate(op, z, s, d, cpu.f)
  PROVE  Trace(op, z, s, d, res) = TraceOf(op, z, s, d, cpu.f)
BY Zenon DEF Trace, TraceOf

LEMMA IntoDIs ==
  ASSUME cpu \in CpuSet, NEW c, Like(c, cpu), NEW op \in Operations, NEW z \in Size, NEW s \in Nat,
         NEW r \in DReg, IntoD(c, op, z, s, r)
  PROVE  Stepped
<1> DEFINE d == c.reg[r]
           res == Operate(op, z, s, d, cpu.f)
           b == [c EXCEPT !.f = res.f]
           v == Down(res.r, z)
           e == SetD(b, z, r, v)
<1>1. c \in CpuSet /\ c.mem = cpu.mem /\ c.f = cpu.f /\ \A n \in DReg : c.reg[n] = cpu.reg[n]
  BY DEF Like
<1>2. r \in Register /\ DReg \subseteq Register  BY Kinds
<1>3. d \in Nat /\ cpu.f \in Flags
  <2>1. d \in Long  BY <1>1, <1>2, Fields
  <2> QED BY <1>1, <2>1, Longs, Fields
<1>4. cpu' = e /\ alu' = Trace(op, z, s, d, res) /\ done' = done + 1
  BY Zenon DEF IntoD, ResultToD, Execute68
<1>5. Trace(op, z, s, d, res) = TraceOf(op, z, s, d, cpu.f)  BY TracesOf
<1> HIDE DEF d, e
<1>6. v \in 0..(Full(z) - 1) /\ res.f \in Flags /\ (op \in KeepsX => res.f.x = cpu.f.x)
  <2>1. res = Operate(op, z, s, d, cpu.f)  OBVIOUS
  <2> HIDE DEF res
  <2> QED BY <1>3, <2>1, OperateIs
<1> HIDE DEF res, v
<1>7. b \in CpuSet /\ b.reg = c.reg /\ b.mem = c.mem /\ b.f = res.f  BY <1>1, <1>6, SetFIs
<1> HIDE DEF b
<1>8. v \in Int  BY <1>6
<1>9. /\ e \in CpuSet /\ e.mem = b.mem /\ e.f = b.f
      /\ \A x \in Register \ {r} : e.reg[x] = b.reg[x]
      /\ e.reg[r] \div Full(z) = b.reg[r] \div Full(z)
  <2>1. Replaced(e, b, z, r, v)  BY <1>2, <1>7, <1>8, SetDIs, Zenon DEF e
  <2> QED BY <2>1, Zenon DEF Replaced
<1>10. Within(z, e, cpu)
  <2>1. e.mem = cpu.mem  BY <1>1, <1>7, <1>9
  <2>2. \A n \in DReg \ {r} : e.reg[n] = cpu.reg[n]  BY <1>1, <1>2, <1>7, <1>9
  <2>3. e.reg[r] \div Full(z) = cpu.reg[r] \div Full(z)  BY <1>1, <1>7, <1>9, Zenon
  <2>4. \A n \in DReg : e.reg[n] \div Full(z) = cpu.reg[n] \div Full(z)  BY <2>2, <2>3, Zenon
  <2> QED BY <2>1, <2>2, <2>4, Zenon DEF Within
<1>11. alu'.op = op /\ alu'.z = z  BY <1>4, <1>5 DEF TraceOf
<1>12. AluOK(alu')  BY <1>3, <1>4, <1>5 DEF AluOK
<1> QED BY <1>4, <1>6, <1>7, <1>9, <1>10, <1>11, <1>12, Zenon DEF Stepped

LEMMA IntoMemIs ==
  ASSUME cpu \in CpuSet, NEW c, Like(c, cpu), NEW op \in Operations, NEW z \in Size, NEW s \in Nat,
         NEW a \in Int, IntoMem(c, op, z, s, a)
  PROVE  Stepped
<1> DEFINE d == Read(c, z, a)
           res == Operate(op, z, s, d, cpu.f)
           b == [c EXCEPT !.f = res.f]
           v == Down(res.r, z)
           e == Write(b, z, a, v)
           p == a % MEM
<1>1. c \in CpuSet /\ c.mem = cpu.mem /\ c.f = cpu.f /\ \A n \in DReg : c.reg[n] = cpu.reg[n]
  BY DEF Like
<1>3. d \in Nat /\ cpu.f \in Flags
  <2>1. d \in Long  BY <1>1, ReadIs
  <2> QED BY <1>1, <2>1, Longs, Fields
<1>4. cpu' = e /\ alu' = Trace(op, z, s, d, res) /\ done' = done + 1
  BY Zenon DEF IntoMem, ResultToMem, Execute68
<1>5. Trace(op, z, s, d, res) = TraceOf(op, z, s, d, cpu.f)  BY TracesOf
<1> HIDE DEF d, e
<1>6. v \in 0..(Full(z) - 1) /\ res.f \in Flags /\ (op \in KeepsX => res.f.x = cpu.f.x)
  <2>1. res = Operate(op, z, s, d, cpu.f)  OBVIOUS
  <2> HIDE DEF res
  <2> QED BY <1>3, <2>1, OperateIs
<1> HIDE DEF res, v
<1>7. b \in CpuSet /\ b.reg = c.reg /\ b.mem = c.mem /\ b.f = res.f  BY <1>1, <1>6, SetFIs
<1> HIDE DEF b
<1>8. v \in Int  BY <1>6
<1>9. /\ e \in CpuSet /\ e.reg = b.reg /\ e.f = b.f
      /\ \A i \in Cell : i \notin p..(p + Bytes[z] - 1) => e.mem[i] = b.mem[i]
  <2>1. Written(e, b, z, p, v)  BY <1>7, <1>8, WriteIs, Zenon DEF e
  <2> QED BY <2>1, Zenon DEF Written
<1>2. p \in Int  BY <1>7, <1>8, WriteIs, Zenon
<1> HIDE DEF p
<1>10. Within(z, e, cpu)
  <2>1. \A n \in DReg : e.reg[n] = cpu.reg[n]  BY <1>1, <1>7, <1>9
  <2>2. \A n \in DReg : e.reg[n] \div Full(z) = cpu.reg[n] \div Full(z)  BY <2>1, Zenon
  <2>3. \A i \in Cell : i \notin p..(p + Bytes[z] - 1) => e.mem[i] = cpu.mem[i]
    BY <1>1, <1>7, <1>9, Zenon
  <2> QED BY <1>2, <2>1, <2>2, <2>3, Zenon DEF Within
<1>11. alu'.op = op /\ alu'.z = z  BY <1>4, <1>5 DEF TraceOf
<1>12. AluOK(alu')  BY <1>3, <1>4, <1>5 DEF AluOK
<1> QED BY <1>4, <1>6, <1>7, <1>9, <1>10, <1>11, <1>12, Zenon DEF Stepped

-----------------------------------------------------------------------------
(* What is repeated: a walk of N steps in S from a, F[i] being step i.     *)
Walks(t, S, N, a, F) ==
  t \in [0..N -> S] /\ t[0] = a /\ \A i \in 1..N : t[i] = F[i][t[i - 1]]

LEMMA WalkIs ==
  ASSUME NEW S, NEW a \in S, NEW N \in Nat, NEW F \in [1..N -> [S -> S]]
  PROVE  \E t : Walks(t, S, N, a, F)
<1> DEFINE H == [n \in Nat |-> IF n \in 1..N THEN F[n] ELSE [x \in S |-> x]]
<1>1. H \in [Nat -> [S -> S]]  OBVIOUS
<1>2. \A i \in 1..N : H[i] = F[i] /\ i - 1 \in Nat /\ i = (i - 1) + 1  OBVIOUS
<1> HIDE DEF H
<1>3. PICK g : Iterates(g, S, a, H)  BY <1>1, Recursion
<1> DEFINE t == [i \in 0..N |-> g[i]]
<1>4. t \in [0..N -> S]  BY <1>3 DEF Iterates
<1>5. t[0] = a  BY <1>3 DEF Iterates
<1>6. ASSUME NEW i \in 1..N PROVE t[i] = F[i][t[i - 1]]
  <2>1. i \in 0..N /\ i - 1 \in 0..N  OBVIOUS
  <2>2. g[(i - 1) + 1] = H[(i - 1) + 1][g[i - 1]]  BY <1>2, <1>3 DEF Iterates
  <2>3. g[i] = F[i][g[i - 1]]  BY <1>2, <2>2
  <2> QED BY <2>1, <2>3
<1> HIDE DEF t
<1> QED BY <1>4, <1>5, <1>6 DEF Walks

LEMMA Stays ==
  ASSUME NEW S, NEW N \in Nat, NEW v, v[0] \in S, \A i \in 1..N : v[i - 1] \in S => v[i] \in S
  PROVE  \A i \in 0..N : v[i] \in S
<1> DEFINE T == {n \in Nat : v[n] \in S}
<1>1. 0 \in T  OBVIOUS
<1>2. ASSUME NEW n \in T, n < N PROVE n + 1 \in T
  <2>1. n + 1 \in 1..N /\ (n + 1) - 1 = n  BY <1>2
  <2> QED BY <2>1
<1>3. T \in SUBSET Nat  OBVIOUS
<1>4. \A i \in 0..N : i \in T
  <2> HIDE DEF T
  <2> QED BY <1>1, <1>2, <1>3, UpTo
<1> QED BY <1>4

LEMMA Ordered ==
  /\ Len(Order) \in Nat /\ \A i \in 1..Len(Order) : Order[i] \in Register
  /\ \A i \in 1..Len(Order) : /\ Len(Order) + 1 - i \in 1..Len(Order)
                              /\ Order[Len(Order) + 1 - i] \in Register
<1>1. Order \in Seq(Register)  BY CpuAssumption
<1>2. Len(Order) \in Nat /\ \A i \in 1..Len(Order) : Order[i] \in Register  BY <1>1
<1>3. \A i \in 1..Len(Order) : Len(Order) + 1 - i \in 1..Len(Order)  BY <1>2
<1> QED BY <1>2, <1>3, Zenon

(* One register of MOVEM: stored upwards, downwards, and loaded.           *)
Stage == [c : CpuSet, at : Int]
UpNext(z, list, r, p) ==
  IF r \notin list THEN p
  ELSE [c |-> Write(p.c, z, p.at, p.c.reg[r]), at |-> p.at + Bytes[z]]
DownNext(z, list, r, p) ==
  IF r \notin list THEN p
  ELSE [c |-> Write(p.c, z, p.at - Bytes[z], p.c.reg[r]), at |-> p.at - Bytes[z]]
LoadNext(z, list, r, p) ==
  IF r \notin list THEN p
  ELSE [c |-> [p.c EXCEPT !.reg[r] = Read(p.c, z, p.at)], at |-> p.at + Bytes[z]]

LEMMA Stages ==
  ASSUME NEW z \in Size, NEW list \in SUBSET Register, NEW r \in Register, NEW p \in Stage
  PROVE  /\ UpNext(z, list, r, p) \in Stage /\ DownNext(z, list, r, p) \in Stage
         /\ LoadNext(z, list, r, p) \in Stage
<1>1. p.c \in CpuSet /\ p.at \in Int /\ p = [c |-> p.c, at |-> p.at]  BY DEF Stage
<1>2. Bytes[z] \in Int  BY DEF Bytes, Size
<1>3. p.at + Bytes[z] \in Int /\ p.at - Bytes[z] \in Int  BY <1>1, <1>2
<1>4. p.c.reg[r] \in Int  BY <1>1, Fields
<1>5. Write(p.c, z, p.at, p.c.reg[r]) \in CpuSet
  BY <1>1, <1>4, WriteIs, Zenon DEF Written
<1>6. Write(p.c, z, p.at - Bytes[z], p.c.reg[r]) \in CpuSet
  BY <1>1, <1>3, <1>4, WriteIs, Zenon DEF Written
<1>7. [p.c EXCEPT !.reg[r] = Read(p.c, z, p.at)] \in CpuSet
  <2>1. Read(p.c, z, p.at) \in Long  BY <1>1, ReadIs
  <2> QED BY <1>1, <2>1 DEF CpuSet
<1>8. \A c \in CpuSet, a \in Int : [c |-> c, at |-> a] \in Stage  BY DEF Stage
<1> HIDE DEF Stage
<1> QED BY <1>1, <1>3, <1>5, <1>6, <1>7, <1>8, Zenon DEF UpNext, DownNext, LoadNext

LEMMA StoreEachIs ==
  ASSUME NEW z \in Size, NEW list \in SUBSET Register, NEW e \in Stage
  PROVE  \E t \in [0..Len(Order) -> Stage] :
           /\ t[0] = e
           /\ \A i \in 1..Len(Order) : t[i] = UpNext(z, list, Order[i], t[i - 1])
           /\ StoreEach(z, e, list) = t[Len(Order)].c
<1> DEFINE N == Len(Order)
           G(i, p) == UpNext(z, list, Order[i], p)
           F == [i \in 1..N |-> [p \in Stage |-> G(i, p)]]
           P(t) == t = [i \in 0..N |-> IF i = 0 THEN e ELSE G(i, t[i - 1])]
           u == CHOOSE t : P(t)
<1>1. N \in Nat /\ \A i \in 1..N : \A p \in Stage : G(i, p) \in Stage  BY Ordered, Stages
<1>2. StoreEach(z, e, list) = u[N].c  BY Zenon DEF StoreEach, UpNext
<1> HIDE DEF G, N
<1>3. F \in [1..N -> [Stage -> Stage]]  BY <1>1
<1>4. \E g : Walks(g, Stage, N, e, F)
  <2> HIDE DEF F
  <2> QED BY <1>1, <1>3, WalkIs
<1>5. PICK g : g \in [0..N -> Stage] /\ g[0] = e /\ \A i \in 1..N : g[i] = F[i][g[i - 1]]
  <2> HIDE DEF F
  <2> QED BY <1>4 DEF Walks
<1>6. P(g)
  <2>1. \A i \in 0..N : i # 0 => i \in 1..N /\ i - 1 \in 0..N  BY <1>1
  <2>2. \A i \in 1..N : g[i - 1] \in Stage  BY <1>1, <1>5
  <2>3. \A i \in 1..N : g[i] = G(i, g[i - 1])  BY <1>5, <2>2
  <2>4. g = [i \in 0..N |-> g[i]]  BY <1>5
  <2> QED BY <1>5, <2>1, <2>3, <2>4
<1>7. P(u)
  <2>1. \E x : P(x)  BY <1>6
  <2> HIDE DEF P
  <2> QED BY <2>1
<1> HIDE DEF u
<1>8. u[0] = e /\ \A i \in 1..N : u[i] = G(i, u[i - 1])  BY <1>1, <1>7
<1>9. \A i \in 0..N : u[i] \in Stage
  <2>1. \A i \in 1..N : u[i - 1] \in Stage => u[i] \in Stage  BY <1>1, <1>8
  <2> QED BY <1>1, <1>8, <2>1, Stays
<1>10. u = [i \in 0..N |-> u[i]]
  <2>1. u = [i \in 0..N |-> IF i = 0 THEN e ELSE G(i, u[i - 1])]  BY <1>7
  <2> QED BY <2>1
<1>11. u \in [0..N -> Stage]  BY <1>9, <1>10
<1> QED BY <1>2, <1>8, <1>11, Zenon DEF G, N

LEMMA StoreDownIs ==
  ASSUME NEW z \in Size, NEW list \in SUBSET Register, NEW e \in Stage
  PROVE  \E t \in [0..Len(Order) -> Stage] :
           /\ t[0] = e
           /\ \A i \in 1..Len(Order) : t[i] = DownNext(z, list, Order[Len(Order) + 1 - i], t[i - 1])
           /\ StoreDown(z, e, list) = t[Len(Order)]
<1> DEFINE N == Len(Order)
           G(i, p) == DownNext(z, list, Order[Len(Order) + 1 - i], p)
           F == [i \in 1..N |-> [p \in Stage |-> G(i, p)]]
           P(t) == t = [i \in 0..N |-> IF i = 0 THEN e ELSE G(i, t[i - 1])]
           u == CHOOSE t : P(t)
<1>1. N \in Nat /\ \A i \in 1..N : \A p \in Stage : G(i, p) \in Stage  BY Ordered, Stages
<1>2. StoreDown(z, e, list) = u[N]  BY Zenon DEF StoreDown, DownNext
<1> HIDE DEF G, N
<1>3. F \in [1..N -> [Stage -> Stage]]  BY <1>1
<1>4. \E g : Walks(g, Stage, N, e, F)
  <2> HIDE DEF F
  <2> QED BY <1>1, <1>3, WalkIs
<1>5. PICK g : g \in [0..N -> Stage] /\ g[0] = e /\ \A i \in 1..N : g[i] = F[i][g[i - 1]]
  <2> HIDE DEF F
  <2> QED BY <1>4 DEF Walks
<1>6. P(g)
  <2>1. \A i \in 0..N : i # 0 => i \in 1..N /\ i - 1 \in 0..N  BY <1>1
  <2>2. \A i \in 1..N : g[i - 1] \in Stage  BY <1>1, <1>5
  <2>3. \A i \in 1..N : g[i] = G(i, g[i - 1])  BY <1>5, <2>2
  <2>4. g = [i \in 0..N |-> g[i]]  BY <1>5
  <2> QED BY <1>5, <2>1, <2>3, <2>4
<1>7. P(u)
  <2>1. \E x : P(x)  BY <1>6
  <2> HIDE DEF P
  <2> QED BY <2>1
<1> HIDE DEF u
<1>8. u[0] = e /\ \A i \in 1..N : u[i] = G(i, u[i - 1])  BY <1>1, <1>7
<1>9. \A i \in 0..N : u[i] \in Stage
  <2>1. \A i \in 1..N : u[i - 1] \in Stage => u[i] \in Stage  BY <1>1, <1>8
  <2> QED BY <1>1, <1>8, <2>1, Stays
<1>10. u = [i \in 0..N |-> u[i]]
  <2>1. u = [i \in 0..N |-> IF i = 0 THEN e ELSE G(i, u[i - 1])]  BY <1>7
  <2> QED BY <2>1
<1>11. u \in [0..N -> Stage]  BY <1>9, <1>10
<1> QED BY <1>2, <1>8, <1>11, Zenon DEF G, N

LEMMA LoadEachIs ==
  ASSUME NEW z \in Size, NEW list \in SUBSET Register, NEW e \in Stage
  PROVE  \E t \in [0..Len(Order) -> Stage] :
           /\ t[0] = e
           /\ \A i \in 1..Len(Order) : t[i] = LoadNext(z, list, Order[i], t[i - 1])
           /\ LoadEach(z, e, list) = t[Len(Order)]
<1> DEFINE N == Len(Order)
           G(i, p) == LoadNext(z, list, Order[i], p)
           F == [i \in 1..N |-> [p \in Stage |-> G(i, p)]]
           P(t) == t = [i \in 0..N |-> IF i = 0 THEN e ELSE G(i, t[i - 1])]
           u == CHOOSE t : P(t)
<1>1. N \in Nat /\ \A i \in 1..N : \A p \in Stage : G(i, p) \in Stage  BY Ordered, Stages
<1>2. LoadEach(z, e, list) = u[N]  BY Zenon DEF LoadEach, LoadNext
<1> HIDE DEF G, N
<1>3. F \in [1..N -> [Stage -> Stage]]  BY <1>1
<1>4. \E g : Walks(g, Stage, N, e, F)
  <2> HIDE DEF F
  <2> QED BY <1>1, <1>3, WalkIs
<1>5. PICK g : g \in [0..N -> Stage] /\ g[0] = e /\ \A i \in 1..N : g[i] = F[i][g[i - 1]]
  <2> HIDE DEF F
  <2> QED BY <1>4 DEF Walks
<1>6. P(g)
  <2>1. \A i \in 0..N : i # 0 => i \in 1..N /\ i - 1 \in 0..N  BY <1>1
  <2>2. \A i \in 1..N : g[i - 1] \in Stage  BY <1>1, <1>5
  <2>3. \A i \in 1..N : g[i] = G(i, g[i - 1])  BY <1>5, <2>2
  <2>4. g = [i \in 0..N |-> g[i]]  BY <1>5
  <2> QED BY <1>5, <2>1, <2>3, <2>4
<1>7. P(u)
  <2>1. \E x : P(x)  BY <1>6
  <2> HIDE DEF P
  <2> QED BY <2>1
<1> HIDE DEF u
<1>8. u[0] = e /\ \A i \in 1..N : u[i] = G(i, u[i - 1])  BY <1>1, <1>7
<1>9. \A i \in 0..N : u[i] \in Stage
  <2>1. \A i \in 1..N : u[i - 1] \in Stage => u[i] \in Stage  BY <1>1, <1>8
  <2> QED BY <1>1, <1>8, <2>1, Stays
<1>10. u = [i \in 0..N |-> u[i]]
  <2>1. u = [i \in 0..N |-> IF i = 0 THEN e ELSE G(i, u[i - 1])]  BY <1>7
  <2> QED BY <2>1
<1>11. u \in [0..N -> Stage]  BY <1>9, <1>10
<1> QED BY <1>2, <1>8, <1>11, Zenon DEF G, N

LEMMA Places ==
  ASSUME NEW z \in Size, NEW a \in Int
  PROVE  /\ Bytes[z] \in Nat \ {0}
         /\ \A i \in 1..Bytes[z] : EveryOther(z, a)[i - 1] \in Int /\ i - 1 \in 0..(Bytes[z] - 1)
<1>1. Bytes[z] \in Nat \ {0}  BY DEF Bytes, Size
<1>2. \A i \in 1..Bytes[z] : i - 1 \in 0..(Bytes[z] - 1)  BY <1>1
<1>3. \A i \in 0..(Bytes[z] - 1) : EveryOther(z, a)[i] = a + 2 * i  BY DEF EveryOther
<1>4. \A i \in 0..(Bytes[z] - 1) : a + 2 * i \in Int  BY <1>1
<1> QED BY <1>1, <1>2, <1>3, <1>4, Zenon

LEMMA MovepToDnIs ==
  ASSUME cpu \in CpuSet, NEW z \in Size, MovepToDn(z)
  PROVE  Stepped
<1> DEFINE N == Bytes[z]
           Next1(a, i, x) == x * Full("b") + Read(cpu, "b", EveryOther(z, a)[i - 1])
           P(a, t) == t = [i \in 0..N |-> IF i = 0 THEN 0 ELSE Next1(a, i, t[i - 1])]
           V(a) == CHOOSE t : P(a, t)
<1>1. PICK n \in DReg, r \in AReg, w \in Disp : Does(SetD(cpu, z, n, V(cpu.reg[r] + w)[N]))
  BY Zenon DEF MovepToDn
<1> DEFINE a == cpu.reg[r] + w
           G(i, x) == Next1(a, i, x)
           F == [i \in 1..N |-> [x \in Nat |-> G(i, x)]]
           u == V(a)
<1>2. a \in Int
  <2>1. cpu.reg[r] \in Int  BY Fields, Kinds
  <2>2. w \in Int  BY CpuAssumption, Longs
  <2> QED BY <2>1, <2>2
<1> HIDE DEF a
<1>3. N \in Nat /\ \A i \in 1..N : \A x \in Nat : G(i, x) \in Nat
  <2>1. N \in Nat  BY Places
  <2>2. ASSUME NEW i \in 1..N, NEW x \in Nat PROVE G(i, x) \in Nat
    <3>1. EveryOther(z, a)[i - 1] \in Int  BY <1>2, Places
    <3> DEFINE p == EveryOther(z, a)[i - 1]
    <3>2. p \in Int  BY <3>1
    <3> HIDE DEF p
    <3>3. Read(cpu, "b", p) \in Nat  BY <3>2, ReadIs, Sizes, Longs
    <3>4. x * Full("b") \in Nat  BY Sizes
    <3>5. x * Full("b") + Read(cpu, "b", p) \in Nat  BY <3>3, <3>4
    <3> QED BY <3>5 DEF p
  <2> QED BY <2>1, <2>2
<1>4. P(a, u) <=> u = [i \in 0..N |-> IF i = 0 THEN 0 ELSE G(i, u[i - 1])]  OBVIOUS
<1> HIDE DEF N, G, Next1
<1>5. F \in [1..N -> [Nat -> Nat]] /\ 0 \in Nat  BY <1>3
<1>6. \E g : Walks(g, Nat, N, 0, F)
  <2> HIDE DEF F
  <2> QED BY <1>3, <1>5, WalkIs
<1>7. PICK g : g \in [0..N -> Nat] /\ g[0] = 0 /\ \A i \in 1..N : g[i] = F[i][g[i - 1]]
  <2> HIDE DEF F
  <2> QED BY <1>6 DEF Walks
<1>8. P(a, g)
  <2>1. \A i \in 0..N : i # 0 => i \in 1..N /\ i - 1 \in 0..N  BY <1>3
  <2>2. \A i \in 1..N : g[i - 1] \in Nat  BY <1>3, <1>7
  <2>3. \A i \in 1..N : g[i] = G(i, g[i - 1])  BY <1>7, <2>2
  <2>4. g = [i \in 0..N |-> g[i]]  BY <1>7
  <2>5. g = [i \in 0..N |-> IF i = 0 THEN 0 ELSE G(i, g[i - 1])]  BY <1>7, <2>1, <2>3, <2>4
  <2> QED BY <2>5 DEF G
<1>9. P(a, u)
  <2>1. \E x : P(a, x)  BY <1>8
  <2> HIDE DEF P
  <2> QED BY <2>1
<1> HIDE DEF u
<1>10. u[0] = 0 /\ \A i \in 1..N : u[i] = G(i, u[i - 1])
  <2>1. u = [i \in 0..N |-> IF i = 0 THEN 0 ELSE G(i, u[i - 1])]  BY <1>4, <1>9
  <2>2. \A i \in 0..N : u[i] = IF i = 0 THEN 0 ELSE G(i, u[i - 1])  BY <2>1, Zenon
  <2>3. 0 \in 0..N /\ \A i \in 1..N : i \in 0..N /\ i # 0  BY <1>3
  <2>4. u[0] = 0  BY <2>2, <2>3, Zenon
  <2> QED BY <2>2, <2>3, <2>4, Zenon
<1>11. \A i \in 0..N : u[i] \in Nat
  <2>1. \A i \in 1..N : u[i - 1] \in Nat => u[i] \in Nat  BY <1>3, <1>10
  <2>2. u[0] \in Nat  BY <1>10
  <2> QED BY <1>3, <2>1, <2>2, Stays
<1>12. u[N] \in Int /\ n \in Register  BY <1>3, <1>11, Kinds
<1>13. SetD(cpu, z, n, u[N]) \in CpuSet  BY <1>12, SetDIs, Zenon DEF Replaced
<1>14. Does(SetD(cpu, z, n, u[N]))  BY <1>1, Zenon DEF u, a
<1> QED BY <1>13, <1>14, DoesIs

LEMMA MovepToMemIs ==
  ASSUME cpu \in CpuSet, NEW z \in Size, MovepToMem(z)
  PROVE  Stepped
<1> DEFINE N == Bytes[z]
           Next1(v, a, i, c) == Write(c, "b", EveryOther(z, a)[i - 1], ByteOf(v, z, i - 1))
           P(v, a, t) == t = [i \in 0..N |-> IF i = 0 THEN cpu ELSE Next1(v, a, i, t[i - 1])]
           V(v, a) == CHOOSE t : P(v, a, t)
<1>1. PICK n \in DReg, r \in AReg, w \in Disp : Does(V(cpu.reg[n], cpu.reg[r] + w)[N])
  BY Zenon DEF MovepToMem
<1> DEFINE a == cpu.reg[r] + w
           v == cpu.reg[n]
           G(i, x) == Next1(v, a, i, x)
           F == [i \in 1..N |-> [x \in CpuSet |-> G(i, x)]]
           u == V(v, a)
<1>2. a \in Int /\ v \in Int
  <2>1. cpu.reg[r] \in Int /\ cpu.reg[n] \in Int  BY Fields, Kinds
  <2>2. w \in Int  BY CpuAssumption, Longs
  <2> QED BY <2>1, <2>2
<1> HIDE DEF a, v
<1>3. N \in Nat /\ \A i \in 1..N : \A x \in CpuSet : G(i, x) \in CpuSet
  <2>1. N \in Nat  BY Places
  <2>2. ASSUME NEW i \in 1..N, NEW x \in CpuSet PROVE G(i, x) \in CpuSet
    <3> DEFINE p == EveryOther(z, a)[i - 1]
               b == ByteOf(v, z, i - 1)
    <3>1. p \in Int /\ i - 1 \in 0..(Bytes[z] - 1)  BY <1>2, Places
    <3>2. b \in Int
      <4>1. b \in Byte  BY <1>2, <3>1, ByteIs
      <4>2. Full("b") \in Nat  BY Sizes
      <4> HIDE DEF b
      <4> QED BY <4>1, <4>2 DEF Byte
    <3> HIDE DEF p, b
    <3>3. Write(x, "b", p, b) \in CpuSet  BY <3>1, <3>2, WriteIs, Sizes, Zenon DEF Written
    <3> QED BY <3>3 DEF p, b
  <2> QED BY <2>1, <2>2
<1>4. P(v, a, u) <=> u = [i \in 0..N |-> IF i = 0 THEN cpu ELSE G(i, u[i - 1])]  OBVIOUS
<1> HIDE DEF N, G, Next1
<1>5. F \in [1..N -> [CpuSet -> CpuSet]]  BY <1>3
<1>6. \E g : Walks(g, CpuSet, N, cpu, F)
  <2> HIDE DEF F
  <2> QED BY <1>3, <1>5, WalkIs
<1>7. PICK g : g \in [0..N -> CpuSet] /\ g[0] = cpu /\ \A i \in 1..N : g[i] = F[i][g[i - 1]]
  <2> HIDE DEF F
  <2> QED BY <1>6 DEF Walks
<1>8. P(v, a, g)
  <2>1. \A i \in 0..N : i # 0 => i \in 1..N /\ i - 1 \in 0..N  BY <1>3
  <2>2. \A i \in 1..N : g[i - 1] \in CpuSet  BY <1>3, <1>7
  <2>3. \A i \in 1..N : g[i] = G(i, g[i - 1])  BY <1>7, <2>2
  <2>4. g = [i \in 0..N |-> g[i]]  BY <1>7
  <2>5. g = [i \in 0..N |-> IF i = 0 THEN cpu ELSE G(i, g[i - 1])]  BY <1>7, <2>1, <2>3, <2>4
  <2> QED BY <2>5 DEF G
<1>9. P(v, a, u)
  <2>1. \E x : P(v, a, x)  BY <1>8
  <2> HIDE DEF P
  <2> QED BY <2>1
<1> HIDE DEF u
<1>10. u[0] = cpu /\ \A i \in 1..N : u[i] = G(i, u[i - 1])
  <2>1. u = [i \in 0..N |-> IF i = 0 THEN cpu ELSE G(i, u[i - 1])]  BY <1>4, <1>9
  <2> QED BY <1>3, <2>1
<1>11. \A i \in 0..N : u[i] \in CpuSet
  <2>1. \A i \in 1..N : u[i - 1] \in CpuSet => u[i] \in CpuSet  BY <1>3, <1>10
  <2>2. u[0] \in CpuSet  BY <1>10
  <2> QED BY <1>3, <2>1, <2>2, Stays
<1>12. u[N] \in CpuSet  BY <1>3, <1>11
<1>13. Does(u[N])  BY <1>1, Zenon DEF u, a, v
<1> QED BY <1>12, <1>13, DoesIs

-----------------------------------------------------------------------------
(* Every instruction: what is computed has its type, and what the ALU is   *)
(* given and gives is its trace.                                           *)
LEMMA Widthed ==
  /\ Imm \subseteq Nat /\ Imm \subseteq Int /\ Abs \subseteq Long /\ Abs \subseteq Int
  /\ Disp \subseteq Int /\ Ccrs \subseteq Flags /\ MEM \in Long
<1>1. Imm \subseteq Long /\ Ccrs \subseteq Flags  BY InstAssumption
<1>2. Abs \subseteq Long /\ Disp \subseteq Long  BY CpuAssumption
<1> QED BY <1>1, <1>2, Longs

LEMMA Keeps ==
  /\ \A c \in CpuSet, z \in Size, r \in Register, v \in Int : SetD(c, z, r, v) \in CpuSet
  /\ \A c \in CpuSet, r \in Register, v \in Int : SetA(c, r, v) \in CpuSet
  /\ \A c \in CpuSet, z \in Size, a \in Int, v \in Int : Write(c, z, a, v) \in CpuSet
  /\ \A c \in CpuSet, e \in Exceptions : Raise(c, e) \in CpuSet
  /\ \A c \in CpuSet, g \in Flags : [c EXCEPT !.f = g] \in CpuSet
  /\ \A c \in CpuSet, a \in Long : Jump(c, a) \in CpuSet
  /\ \A c \in CpuSet, v \in Int : PushL(c, v) \in CpuSet
  /\ \A c \in CpuSet : PopL(c).c \in CpuSet /\ PopL(c).v \in Long
<1>1. \A c \in CpuSet, z \in Size, r \in Register, v \in Int : SetD(c, z, r, v) \in CpuSet
  BY SetDIs, Zenon DEF Replaced
<1>2. \A c \in CpuSet, r \in Register, v \in Int : SetA(c, r, v) \in CpuSet  BY SetAIs
<1>3. \A c \in CpuSet, z \in Size, a \in Int, v \in Int : Write(c, z, a, v) \in CpuSet
  BY WriteIs, Zenon DEF Written
<1>4. \A c \in CpuSet, e \in Exceptions : Raise(c, e) \in CpuSet  BY DEF Raise, CpuSet
<1>5. \A c \in CpuSet, g \in Flags : [c EXCEPT !.f = g] \in CpuSet  BY SetFIs
<1>6. \A c \in CpuSet, a \in Long : Jump(c, a) \in CpuSet  BY DEF Jump, CpuSet
<1>7. ASSUME NEW c \in CpuSet
      PROVE  /\ \A v \in Int : PushL(c, v) \in CpuSet
             /\ PopL(c).c \in CpuSet /\ PopL(c).v \in Long
  <2>1. SP \in Register /\ c.reg[SP] \in Int  BY Fields, Kinds
  <2> DEFINE s == c.reg[SP]
  <2>2. s \in Int  BY <2>1
  <2> HIDE DEF s
  <2>3. s - 4 \in Int /\ s + 4 \in Int  BY <2>2
  <2>4. SetA(c, SP, s - 4) \in CpuSet /\ SetA(c, SP, s + 4) \in CpuSet  BY <1>2, <2>1, <2>3
  <2>5. SetA(c, SP, s - 4).reg[SP] \in Int  BY <2>1, <2>4, Fields
  <2>6. Read(c, "l", s) \in Long  BY <2>2, ReadIs, Sizes
  <2> DEFINE b == SetA(c, SP, s - 4)
  <2>7. PopL(c) = [c |-> SetA(c, SP, s + 4), v |-> Read(c, "l", s)]  BY Zenon DEF PopL, s
  <2>8. \A v : PushL(c, v) = Write(b, "l", b.reg[SP], v)  BY Zenon DEF PushL, s
  <2> HIDE DEF b
  <2>9. b \in CpuSet /\ b.reg[SP] \in Int  BY <2>4, <2>5 DEF b
  <2>10. \A v \in Int : PushL(c, v) \in CpuSet  BY <1>3, <2>8, <2>9, Sizes, Zenon
  <2> QED BY <2>4, <2>6, <2>7, <2>10
<1> QED BY <1>1, <1>2, <1>3, <1>4, <1>5, <1>6, <1>7, Zenon

LEMMA TstFlags ==
  ASSUME NEW a, NEW f \in Flags
  PROVE  Tst68(a, f) \in Flags
BY DEF Tst68, Flags, Msb

LEMMA Given ==
  ASSUME cpu \in CpuSet
  PROVE  /\ Like(cpu, cpu) /\ cpu.f \in Flags /\ cpu.pc \in Long /\ cpu.usp \in Long
         /\ \A n \in DReg : cpu.reg[n] \in Nat /\ cpu.reg[n] \in Int /\ n \in Register
         /\ \A r \in AReg : cpu.reg[r] \in Nat /\ cpu.reg[r] \in Int /\ r \in Register
<1>1. \A r \in Register : cpu.reg[r] \in Nat /\ cpu.reg[r] \in Int
  <2>1. \A r \in Register : cpu.reg[r] \in Long  BY Fields
  <2> QED BY <2>1, Longs
<1>2. DReg \subseteq Register /\ AReg \subseteq Register  BY Kinds
<1> QED BY <1>1, <1>2, Fields

LEMMA IntoIs ==
  ASSUME cpu \in CpuSet, NEW op \in Operations, NEW z \in Size, NEW s \in Nat,
         NEW o, OperandOK(o), Into(op, z, s, o)
  PROVE  Stepped
<1>1. CASE o.m = "dn"
  <2>1. o.r \in DReg  BY <1>1 DEF OperandOK
  <2>2. IntoD(cpu, op, z, s, o.r)  BY <1>1, Zenon DEF Into
  <2>3. Like(cpu, cpu)  BY Given
  <2> QED BY <2>1, <2>2, <2>3, IntoDIs
<1>2. CASE o.m # "dn"
  <2> DEFINE e == Ea(cpu, z, o)
  <2>1. IntoMem(e.c, op, z, s, e.at)  BY <1>2, Zenon DEF Into
  <2>2. Like(e.c, cpu) /\ e.at \in Long  BY EaIs
  <2> HIDE DEF e
  <2>3. e.at \in Int  BY <2>2, Longs
  <2> QED BY <2>1, <2>2, <2>3, IntoMemIs
<1> QED BY <1>1, <1>2

LEMMA EaToDnIs ==
  ASSUME cpu \in CpuSet, NEW op \in Operations, NEW z \in Size, NEW os \in SUBSET Every,
         EaToDn(op, z, os)
  PROVE  Stepped
<1>1. PICK o \in os, n \in DReg :
        IntoD(Source(cpu, z, o).c, op, z, Source(cpu, z, o).v, n)
  BY Zenon DEF EaToDn
<1>2. OperandOK(o)  BY Operands
<1>3. Like(Source(cpu, z, o).c, cpu) /\ Source(cpu, z, o).v \in Nat  BY <1>2, SourceIs, Longs
<1> QED BY <1>1, <1>3, IntoDIs

LEMMA ToEaIs ==
  ASSUME cpu \in CpuSet, NEW op \in Operations, NEW z \in Size, NEW os \in SUBSET Every
  PROVE  /\ DnToEa(op, z, os) => Stepped
         /\ ImmToEa(op, z, os) => Stepped
         /\ OnEa(op, z, os) => Stepped
         /\ Quick(op, z, os) => Stepped
<1>1. \A o \in os : OperandOK(o)  BY Operands
<1>2. \A o \in os, s \in Nat : Into(op, z, s, o) => Stepped  BY <1>1, IntoIs
<1>3. (\A n \in DReg : cpu.reg[n] \in Nat) /\ (\A i \in Imm : i \in Nat) /\ 0 \in Nat
      /\ (\A q \in {1, 8} : q \in Nat)
  BY Given, Widthed
<1> QED BY <1>2, <1>3, Zenon DEF DnToEa, ImmToEa, OnEa, Quick

LEMMA EaToAnIs ==
  ASSUME cpu \in CpuSet, NEW op \in {"movea", "adda", "suba"}, NEW z \in Size, EaToAn(op, z)
  PROVE  Stepped
<1>1. PICK o \in Every, n \in AReg :
        LET s == Source(cpu, z, o)
        IN  Does(SetA(s.c, n, IntoAddress(op, Signs(s.v, z), s.c.reg[n])))
  BY Zenon DEF EaToAn
<1> DEFINE s == Source(cpu, z, o)
           a == s.c.reg[n]
           v == Signs(s.v, z)
           w == IntoAddress(op, v, a)
<1>2. OperandOK(o)  BY Operands
<1>3. s.c \in CpuSet /\ s.v \in Int /\ n \in Register
  BY <1>2, SourceIs, Longs, Kinds DEF Like
<1>4. Does(SetA(s.c, n, w))  BY <1>1
<1> HIDE DEF s
<1>5. v \in Int /\ a \in Int  BY <1>3, SignsIs, Fields
<1> HIDE DEF v, a
<1>6. w \in Int
  <2>1. op = "movea" => w = v  BY Zenon DEF IntoAddress
  <2>2. op = "adda" => w = a + v
    BY Zenon DEF IntoAddress
  <2>3. op = "suba" => w = a - v
    BY Zenon DEF IntoAddress
  <2> HIDE DEF w
  <2> QED BY <1>5, <2>1, <2>2, <2>3
<1> HIDE DEF w
<1>7. SetA(s.c, n, w) \in CpuSet  BY <1>3, <1>6, Keeps, Zenon
<1> QED BY <1>4, <1>7, DoesIs

LEMMA CmpToAnIs ==
  ASSUME cpu \in CpuSet, NEW z \in Size, CmpToAn(z)
  PROVE  Stepped
<1> DEFINE S(o) == Source(cpu, z, o)
           V(o) == Signs(S(o).v, z)
           D(o, n) == S(o).c.reg[n]
           R(o, n) == Operate("cmp", "l", V(o), D(o, n), cpu.f)
<1>1. PICK o \in Every, n \in AReg :
        Execute68([S(o).c EXCEPT !.f = R(o, n).f], Trace("cmp", "l", V(o), D(o, n), R(o, n)))
  BY Zenon DEF CmpToAn
<1> DEFINE s == S(o)
           v == V(o)
           d == D(o, n)
           res == R(o, n)
           e == [s.c EXCEPT !.f = res.f]
<1>2. OperandOK(o)  BY Operands
<1>3. Like(s.c, cpu) /\ s.c \in CpuSet /\ s.v \in Int /\ n \in Register
  BY <1>2, SourceIs, Longs, Kinds DEF Like
<1>4. cpu' = e /\ alu' = Trace("cmp", "l", v, d, res) /\ done' = done + 1
  BY <1>1, Zenon DEF Execute68
<1>5. v = Signs(s.v, z) /\ d = s.c.reg[n] /\ res = Operate("cmp", "l", v, d, cpu.f)  OBVIOUS
<1> HIDE DEF s, v, d, res, S, V, D, R
<1>6. v \in Nat /\ d \in Nat /\ cpu.f \in Flags
  <2>1. v \in Long  BY <1>3, <1>5, SignsIs
  <2>2. d \in Long  BY <1>3, <1>5, Fields
  <2> QED BY <2>1, <2>2, Longs, Given
<1>7. "cmp" \in Operations /\ "cmp" \in KeepsX /\ "l" \in Size
  BY Sizes DEF Operations, Sums, KeepsX
<1>8. res.f \in Flags /\ res.f.x = cpu.f.x  BY <1>5, <1>6, <1>7, OperateIs
<1>9. e \in CpuSet /\ e.reg = s.c.reg /\ e.mem = s.c.mem /\ e.f = res.f  BY <1>3, <1>8, SetFIs
<1> HIDE DEF e
<1>10. alu' = TraceOf("cmp", "l", v, d, cpu.f)  BY <1>4, <1>5, TracesOf, Zenon
<1>11. alu'.op = "cmp" /\ alu'.z = "l"  BY <1>10 DEF TraceOf
<1>12. AluOK(alu')  BY <1>6, <1>7, <1>10 DEF AluOK
<1>13. Within("l", e, cpu)
  <2>1. e.mem = cpu.mem /\ \A x \in DReg : e.reg[x] = cpu.reg[x]  BY <1>3, <1>9 DEF Like
  <2>2. \A i \in Cell : e.mem[i] = cpu.mem[i]  BY <2>1
  <2>3. \A x \in DReg : e.reg[x] \div Full("l") = cpu.reg[x] \div Full("l")  BY <2>1, Zenon
  <2>4. 0 \in Int  OBVIOUS
  <2> QED BY <1>7, <2>1, <2>2, <2>3, <2>4, Zenon DEF Within
<1> QED BY <1>4, <1>8, <1>9, <1>11, <1>12, <1>13, Zenon DEF Stepped

LEMMA DyToDxIs ==
  ASSUME cpu \in CpuSet, NEW op \in Operations, NEW z \in Size, DyToDx(op, z)
  PROVE  Stepped
<1>1. PICK y \in DReg, x \in DReg : IntoD(cpu, op, z, cpu.reg[y], x)  BY Zenon DEF DyToDx
<1>2. Like(cpu, cpu) /\ cpu.reg[y] \in Nat  BY Given
<1> QED BY <1>1, <1>2, IntoDIs

(* Two address registers moved.                                            *)
LEMMA MovedTwice ==
  ASSUME cpu \in CpuSet, NEW y \in AReg, NEW x \in AReg, NEW j \in Int,
         NEW b, b = SetA(cpu, y, cpu.reg[y] + j), NEW c, c = SetA(b, x, b.reg[x] + j)
  PROVE  /\ b \in CpuSet /\ Like(c, cpu)
         /\ b.reg[y] \in Int /\ b.reg[x] \in Int /\ c.reg[x] \in Int
<1>1. x \in Register /\ y \in Register /\ cpu.reg[y] \in Int  BY Given
<1> DEFINE i == cpu.reg[y] + j
           k == b.reg[x] + j
<1>2. i \in Int  BY <1>1
<1> HIDE DEF i
<1>3. b = SetA(cpu, y, i)  BY DEF i
<1>4. b \in CpuSet /\ Like(b, cpu)  BY <1>1, <1>2, <1>3, SetAIs
<1>5. b.reg[x] \in Int /\ b.reg[y] \in Int  BY <1>1, <1>4, Fields
<1>6. k \in Int /\ c = SetA(b, x, k)  BY <1>5
<1> HIDE DEF k
<1>7. c \in CpuSet /\ Like(c, b)  BY <1>1, <1>4, <1>6, SetAIs
<1>8. Like(c, cpu)  BY <1>4, <1>7, LikeIs
<1>9. c.reg[x] \in Int  BY <1>1, <1>7, Fields
<1> QED BY <1>4, <1>5, <1>8, <1>9

LEMMA MemToMemIs ==
  ASSUME cpu \in CpuSet, NEW op \in Operations, NEW z \in Size, MemToMem(op, z)
  PROVE  Stepped
<1> DEFINE B(y) == SetA(cpu, y, cpu.reg[y] - Bytes[z])
           C(y, x) == SetA(B(y), x, B(y).reg[x] - Bytes[z])
<1>1. PICK y \in AReg, x \in AReg :
        IntoMem(C(y, x), op, z, Read(B(y), z, B(y).reg[y]), C(y, x).reg[x])
  BY Zenon DEF MemToMem
<1> DEFINE b == B(y)
           c == C(y, x)
           j == -Bytes[z]
<1>2. Bytes[z] \in Int /\ j \in Int  BY DEF Bytes, Size
<1>3. cpu.reg[y] \in Int  BY Given
<1>4. \A i \in Int : i - Bytes[z] = i + j  BY <1>2
<1>5. b = SetA(cpu, y, cpu.reg[y] - Bytes[z]) /\ c = SetA(b, x, b.reg[x] - Bytes[z])  OBVIOUS
<1> HIDE DEF b, c, j, B, C
<1>6. b = SetA(cpu, y, cpu.reg[y] + j)  BY <1>3, <1>4, <1>5
<1>7. b.reg[x] \in Int
  <2> DEFINE i == cpu.reg[y] + j
  <2>1. i \in Int  BY <1>2, <1>3
  <2>2. b = SetA(cpu, y, i)  BY <1>6
  <2> HIDE DEF i
  <2>3. b \in CpuSet /\ x \in Register  BY <2>1, <2>2, Keeps, Given, Zenon
  <2> QED BY <2>3, Fields
<1>8. c = SetA(b, x, b.reg[x] + j)  BY <1>4, <1>5, <1>7
<1>9. b \in CpuSet /\ Like(c, cpu) /\ b.reg[y] \in Int /\ c.reg[x] \in Int
  BY <1>2, <1>6, <1>8, MovedTwice
<1>10. Read(b, z, b.reg[y]) \in Nat  BY <1>9, ReadIs, Longs
<1>11. IntoMem(c, op, z, Read(b, z, b.reg[y]), c.reg[x])  BY <1>1, Zenon DEF b, c
<1> QED BY <1>9, <1>10, <1>11, IntoMemIs

LEMMA CmpMIs ==
  ASSUME cpu \in CpuSet, NEW z \in Size, CmpM(z)
  PROVE  Stepped
<1> DEFINE B(y) == SetA(cpu, y, cpu.reg[y] + Bytes[z])
           C(y, x) == SetA(B(y), x, B(y).reg[x] + Bytes[z])
<1>1. PICK y \in AReg, x \in AReg :
        IntoMem(C(y, x), "cmp", z, Read(B(y), z, cpu.reg[y]), B(y).reg[x])
  BY Zenon DEF CmpM
<1> DEFINE b == B(y)
           c == C(y, x)
<1>2. Bytes[z] \in Int  BY DEF Bytes, Size
<1>3. cpu.reg[y] \in Int  BY Given
<1>4. b = SetA(cpu, y, cpu.reg[y] + Bytes[z]) /\ c = SetA(b, x, b.reg[x] + Bytes[z])  OBVIOUS
<1>5. IntoMem(c, "cmp", z, Read(b, z, cpu.reg[y]), b.reg[x])  BY <1>1, Zenon
<1> HIDE DEF b, c, B, C
<1>6. b \in CpuSet /\ Like(c, cpu) /\ b.reg[x] \in Int  BY <1>2, <1>4, MovedTwice
<1>7. Read(b, z, cpu.reg[y]) \in Nat  BY <1>3, <1>6, ReadIs, Longs
<1>8. "cmp" \in Operations  BY DEF Operations, Sums
<1> QED BY <1>5, <1>6, <1>7, <1>8, IntoMemIs

LEMMA MoveIs ==
  ASSUME cpu \in CpuSet, NEW z \in Size, NEW os \in SUBSET Every, Move(z, os)
  PROVE  Stepped
<1> DEFINE S(o) == Source(cpu, z, o)
           C(o) == [S(o).c EXCEPT !.f = Tst68(Up(S(o).v, z), cpu.f)]
           E(o, x) == Ea(C(o), z, x)
<1>1. PICK src \in Every, dst \in os :
        Does(IF dst.m = "dn" THEN SetD(C(src), z, dst.r, S(src).v)
             ELSE Write(E(src, dst).c, z, E(src, dst).at, S(src).v))
  BY Zenon DEF Move
<1> DEFINE s == S(src)
           c == C(src)
           e == E(src, dst)
           g == Tst68(Up(s.v, z), cpu.f)
<1>2. OperandOK(src) /\ OperandOK(dst)  BY Operands
<1>3. s.c \in CpuSet /\ s.v \in Int  BY <1>2, SourceIs, Longs DEF Like
<1>4. g \in Flags  BY Given, TstFlags
<1>5. c = [s.c EXCEPT !.f = g] /\ e = Ea(c, z, dst)  OBVIOUS
<1>6. \/ dst.m = "dn" /\ Does(SetD(c, z, dst.r, s.v))
      \/ Does(Write(e.c, z, e.at, s.v))
  BY <1>1, Zenon
<1> HIDE DEF s, c, e, g, S, C, E
<1>7. c \in CpuSet  BY <1>3, <1>4, <1>5, Keeps, Zenon
<1>8. e.c \in CpuSet /\ e.at \in Int  BY <1>2, <1>5, <1>7, EaIs, Longs DEF Like
<1>9. SetD(c, z, dst.r, s.v) \in CpuSet
  <2>1. dst.r \in Register  BY <1>2 DEF OperandOK
  <2> QED BY <1>3, <1>7, <2>1, Keeps, Zenon
<1>10. Write(e.c, z, e.at, s.v) \in CpuSet  BY <1>3, <1>8, Keeps, Zenon
<1> QED BY <1>6, <1>9, <1>10, DoesIs

LEMMA MoveqIs ==
  ASSUME cpu \in CpuSet, NEW is \in SUBSET Imm, Moveq(is)
  PROVE  Stepped
<1> DEFINE g(i) == Tst68(Up(Signs(i, "b"), "l"), cpu.f)
<1>1. PICK i \in is, n \in DReg : Does(SetD([cpu EXCEPT !.f = g(i)], "l", n, Signs(i, "b")))
  BY Zenon DEF Moveq
<1>2. g(i) \in Flags  BY Given, TstFlags
<1> HIDE DEF g
<1>3. Signs(i, "b") \in Int /\ n \in Register /\ "l" \in Size
  <2>1. i \in Int  BY Widthed
  <2> QED BY <2>1, SignsIs, Sizes, Given
<1>4. [cpu EXCEPT !.f = g(i)] \in CpuSet  BY <1>2, Keeps, Zenon
<1>5. SetD([cpu EXCEPT !.f = g(i)], "l", n, Signs(i, "b")) \in CpuSet
  BY <1>3, <1>4, Keeps, Zenon
<1> QED BY <1>1, <1>5, DoesIs

(* A product is a long.                                                    *)
LEMMA ProductIs ==
  ASSUME NEW op \in {"mulu", "muls"}, NEW s \in Int, NEW d \in Int, NEW f \in Flags,
         NEW res, res = ByWord(op, Up(s, "w"), Up(d, "w"), f)
  PROVE  res.f \in Flags /\ Down(res.r, "l") \in Int
<1>0. "w" \in Size /\ "l" \in Size  BY Sizes
<1>1. \A v \in Int : Up(v, "w") \in Value68  BY <1>0, UpIs
<1>2. \A v \in Value68 : Down(v, "w") \in Nat
  <2>1. Full("w") \in Nat  BY <1>0, Sizes
  <2> QED BY <1>0, <2>1, DownIs
<1> DEFINE a == Down(Up(s, "w"), "w")
           b == Down(Up(d, "w"), "w")
           i == SignedOf(a, "w")
           j == SignedOf(b, "w")
<1>3. a \in Int /\ b \in Int  BY <1>1, <1>2
<1>4. /\ op = "mulu" => res = Tested(Up(a * b, "l"), f)
      /\ op = "muls" => res = Tested(Up(i * j, "l"), f)
  BY Zenon DEF ByWord, Mulu68, Muls68
<1> HIDE DEF a, b
<1>5. i \in Int /\ j \in Int
  <2>1. Full("w") \in Nat  BY <1>0, Sizes
  <2> QED BY <1>3, <2>1 DEF SignedOf
<1> HIDE DEF i, j
<1>6. a * b \in Int /\ i * j \in Int  BY <1>3, <1>5
<1>7. \A v \in Int : Tested(Up(v, "l"), f).f \in Flags /\ Down(Tested(Up(v, "l"), f).r, "l") \in Int
  <2> SUFFICES ASSUME NEW v \in Int
               PROVE Tested(Up(v, "l"), f).f \in Flags /\ Down(Tested(Up(v, "l"), f).r, "l") \in Int
    OBVIOUS
  <2>1. Up(v, "l") \in Value68  BY <1>0, UpIs
  <2>2. Full("l") \in Nat  BY <1>0, Sizes
  <2>3. Down(Tested(Up(v, "l"), f).r, "l") \in 0..(Full("l") - 1) /\ Tested(Up(v, "l"), f).f \in Flags
    BY <1>0, <2>1, TestedIs
  <2> QED BY <2>2, <2>3
<1> QED BY <1>4, <1>6, <1>7, Zenon

LEMMA MultiplyIs ==
  ASSUME cpu \in CpuSet, NEW op \in {"mulu", "muls"}, Multiply(op)
  PROVE  Stepped
<1> DEFINE S(o) == Source(cpu, "w", o)
           R(o, n) == ByWord(op, Up(S(o).v, "w"), Up(S(o).c.reg[n], "w"), cpu.f)
<1>1. PICK o \in Data, n \in DReg :
        Does(SetD([S(o).c EXCEPT !.f = R(o, n).f], "l", n, Down(R(o, n).r, "l")))
  BY Zenon DEF Multiply
<1> DEFINE s == S(o)
           res == R(o, n)
<1>2. OperandOK(o) /\ "w" \in Size /\ "l" \in Size  BY Operands, Sizes
<1>3. s.c \in CpuSet /\ s.v \in Int /\ n \in Register /\ cpu.f \in Flags
  BY <1>2, SourceIs, Longs, Given DEF Like
<1>4. res = ByWord(op, Up(s.v, "w"), Up(s.c.reg[n], "w"), cpu.f)  OBVIOUS
<1>5. Does(SetD([s.c EXCEPT !.f = res.f], "l", n, Down(res.r, "l")))  BY <1>1
<1> HIDE DEF s, res, S, R
<1>6. s.c.reg[n] \in Int  BY <1>3, Fields
<1>7. res.f \in Flags /\ Down(res.r, "l") \in Int  BY <1>3, <1>4, <1>6, ProductIs
<1>8. [s.c EXCEPT !.f = res.f] \in CpuSet  BY <1>3, <1>7, Keeps, Zenon
<1>9. SetD([s.c EXCEPT !.f = res.f], "l", n, Down(res.r, "l")) \in CpuSet
  BY <1>2, <1>3, <1>7, <1>8, Keeps, Zenon
<1> QED BY <1>5, <1>9, DoesIs

LEMMA DivideIs ==
  ASSUME cpu \in CpuSet, NEW op \in {"divu", "divs"}, Divide(op)
  PROVE  Stepped
<1> DEFINE S(o) == Source(cpu, "w", o)
           D(o, n) == S(o).c.reg[n]
           R(o, n) == ByWord(op, Up(S(o).v, "w"), Up(D(o, n), "l"), cpu.f)
           none == [x |-> cpu.f.x, n |-> FALSE, z |-> FALSE, v |-> FALSE, c |-> FALSE]
           T(o, n) == [op |-> op, z |-> "l", s |-> S(o).v % Full("w"), d |-> D(o, n) % Full("l"),
                       f |-> cpu.f, r |-> Down(R(o, n).r, "l"), g |-> R(o, n).f]
<1>1. PICK o \in Data, n \in DReg :
        IF S(o).v % Full("w") = 0 THEN Does(Raise([S(o).c EXCEPT !.f = none], "divide"))
        ELSE Execute68(SetD([S(o).c EXCEPT !.f = R(o, n).f], "l", n, Down(R(o, n).r, "l")), T(o, n))
  BY Zenon DEF Divide, Trace
<1> DEFINE s == S(o)
           d == D(o, n)
           res == R(o, n)
           v == s.v % Full("w")
           t == T(o, n)
           b == [s.c EXCEPT !.f = res.f]
           r == Down(res.r, "l")
           e == SetD(b, "l", n, r)
<1>2. OperandOK(o) /\ "w" \in Size /\ "l" \in Size  BY Operands, Sizes
<1>3. Like(s.c, cpu) /\ s.c \in CpuSet /\ s.v \in Nat /\ n \in Register /\ cpu.f \in Flags
  BY <1>2, SourceIs, Longs, Given DEF Like
<1>4. /\ d = s.c.reg[n] /\ res = ByWord(op, Up(s.v, "w"), Up(d, "l"), cpu.f)
      /\ v = s.v % Full("w")
      /\ t = [op |-> op, z |-> "l", s |-> v, d |-> d % Full("l"), f |-> cpu.f, r |-> r, g |-> res.f]
  OBVIOUS
<1>5. IF v = 0 THEN Does(Raise([s.c EXCEPT !.f = none], "divide")) ELSE Execute68(e, t)
  BY <1>1, Zenon
<1> HIDE DEF s, d, res, v, t, S, D, R, T
<1>6. CASE v = 0
  <2>1. none \in Flags
    <3>1. cpu.f.x \in BOOLEAN  BY <1>3, FlagsAre
    <3> QED BY <3>1 DEF Flags
  <2> HIDE DEF none
  <2>2. "divide" \in Exceptions  BY DEF Exceptions
  <2>3. Raise([s.c EXCEPT !.f = none], "divide") \in CpuSet  BY <1>3, <2>1, <2>2, Keeps, Zenon
  <2> QED BY <1>5, <1>6, <2>3, DoesIs
<1>7. CASE v # 0
  <2>1. cpu' = e /\ alu' = t /\ done' = done + 1  BY <1>5, <1>7, Zenon DEF Execute68
  <2>2. v \in 1..(Full("w") - 1) /\ Up(s.v, "w") = Up(v, "w")
    <3>1. v \in 0..(Full("w") - 1) /\ Full("w") \in Nat  BY <1>2, <1>3, <1>4, Aligning, Sizes
    <3>2. v % Full("w") = v  BY <1>2, <3>1, Scaled
    <3>3. Up(s.v, "w") = Up(v, "w")  BY <1>4, <3>2, Zenon DEF Up
    <3> QED BY <1>7, <3>1, <3>3
  <2>3. d \in Long  BY <1>3, <1>4, Fields
  <2>4. d % Full("l") = d  BY <2>3, Processor
  <2>5. res = ByWord(op, Up(v, "w"), Up(d, "l"), cpu.f)  BY <1>4, <2>2, Zenon
  <2>6. t = DivTraceOf(op, v, d, cpu.f)  BY <1>4, <2>4, <2>5, Zenon DEF DivTraceOf
  <2>7. AluOK(alu')  BY <1>3, <2>1, <2>2, <2>3, <2>6 DEF AluOK
  <2>8. r \in 0..(Full("l") - 1) /\ res.f \in Flags /\ res.f.x = cpu.f.x
    <3>1. d \in 0..(Full("l") - 1)  BY <2>3 DEF Long
    <3>2. CASE op = "divu"
      <4>1. res = Divu68(Up(v, "w"), Up(d, "l"), cpu.f)  BY <2>5, <3>2, Zenon DEF ByWord
      <4> QED BY <1>3, <2>2, <3>1, <4>1, DivuExact
    <3>3. CASE op = "divs"
      <4>1. res = Divs68(Up(v, "w"), Up(d, "l"), cpu.f)  BY <2>5, <3>3, Zenon DEF ByWord
      <4> QED BY <1>3, <2>2, <3>1, <4>1, DivsExact
    <3> QED BY <3>2, <3>3
  <2>9. b \in CpuSet /\ b.reg = s.c.reg /\ b.mem = s.c.mem /\ b.f = res.f  BY <1>3, <2>8, SetFIs
  <2>10. r \in Int
    <3>1. Full("l") \in Nat  BY Sizes
    <3> HIDE DEF r
    <3> QED BY <2>8, <3>1
  <2> HIDE DEF b, r, e
  <2>11. /\ e \in CpuSet /\ e.mem = b.mem /\ e.f = b.f
         /\ \A x \in Register \ {n} : e.reg[x] = b.reg[x]
         /\ e.reg[n] \div Full("l") = b.reg[n] \div Full("l")
    <3>1. Replaced(e, b, "l", n, r)  BY <1>2, <1>3, <2>9, <2>10, SetDIs, Zenon DEF e
    <3> QED BY <3>1, Zenon DEF Replaced
  <2>12. s.c.mem = cpu.mem /\ \A x \in DReg : s.c.reg[x] = cpu.reg[x]  BY <1>3 DEF Like
  <2>13. Within("l", e, cpu)
    <3>1. e.mem = cpu.mem  BY <2>9, <2>11, <2>12
    <3>2. \A x \in DReg \ {n} : e.reg[x] = cpu.reg[x]  BY <2>9, <2>11, <2>12, Kinds
    <3>3. e.reg[n] \div Full("l") = cpu.reg[n] \div Full("l")  BY <2>9, <2>11, <2>12, Zenon
    <3>4. \A x \in DReg : e.reg[x] \div Full("l") = cpu.reg[x] \div Full("l")  BY <3>2, <3>3, Zenon
    <3> QED BY <1>2, <3>1, <3>2, <3>4, Zenon DEF Within
  <2>14. alu'.z = "l"  BY <2>1, <1>4
  <2>15. cpu'.f.x = cpu.f.x  BY <2>1, <2>8, <2>9, <2>11
  <2> QED BY <2>1, <2>7, <2>11, <2>13, <2>14, <2>15, Zenon DEF Stepped
<1> QED BY <1>6, <1>7

(* Bits of a register or a byte.                                           *)
LEMMA BitIs ==
  ASSUME NEW v \in Int, NEW b \in Nat, NEW f \in Flags, NEW op \in {"btst", "bchg", "bclr", "bset"}
  PROVE  BitOf(op, v, b, f).r \in Int /\ BitOf(op, v, b, f).f \in Flags
<1> DEFINE g == [f EXCEPT !.z = ~HasBit(v, b)]
           q == Pow2[b]
<1>1. g \in Flags
  <2>1. HasBit(v, b) \in BOOLEAN  BY DEF HasBit
  <2> QED BY <2>1 DEF Flags
<1>2. Btst68(v, b, f) = [r |-> v, f |-> g]  BY DEF Btst68
<1> HIDE DEF g
<1>3. q \in Int  BY Pow2Positive
<1> HIDE DEF q
<1>4. v + q \in Int /\ v - q \in Int  BY <1>3
<1>5. \A set : With(v, b, set, f).r \in {v, v + q, v - q} /\ With(v, b, set, f).f = g
  BY <1>2 DEF With, q
<1>6. \A set : With(v, b, set, f).r \in Int /\ With(v, b, set, f).f \in Flags
  BY <1>1, <1>4, <1>5
<1>7. BitOf(op, v, b, f) = Btst68(v, b, f) \/ \E set : BitOf(op, v, b, f) = With(v, b, set, f)
  <2>1. op = "btst" => BitOf(op, v, b, f) = Btst68(v, b, f)  BY Zenon DEF BitOf
  <2>2. op = "bchg" => BitOf(op, v, b, f) = With(v, b, ~HasBit(v, b), f)
    BY Zenon DEF BitOf, Bchg68
  <2>3. op = "bclr" => BitOf(op, v, b, f) = With(v, b, FALSE, f)
    BY Zenon DEF BitOf, Bclr68
  <2>4. op = "bset" => BitOf(op, v, b, f) = With(v, b, TRUE, f)
    BY Zenon DEF BitOf, Bset68
  <2> QED BY <2>1, <2>2, <2>3, <2>4, Zenon
<1> QED BY <1>1, <1>2, <1>6, <1>7

LEMMA OnBitIs ==
  ASSUME cpu \in CpuSet, NEW op \in {"btst", "bchg", "bclr", "bset"}, NEW b \in Int,
         NEW o, OperandOK(o), OnBit(op, b, o)
  PROVE  Stepped
<1> DEFINE e == Ea(cpu, "b", o)
           z == IF o.m = "dn" THEN "l" ELSE "b"
           v == IF o.m = "dn" THEN cpu.reg[o.r] ELSE Read(e.c, "b", e.at)
           i == b % Bits[z]
           res == BitOf(op, v, i, cpu.f)
<1>1. IF o.m = "dn" THEN Does(SetD([cpu EXCEPT !.f = res.f], "l", o.r, res.r))
      ELSE Does(Write([e.c EXCEPT !.f = res.f], "b", e.at, res.r))
  BY Zenon DEF OnBit
<1>2. "l" \in Size /\ "b" \in Size /\ z \in Size  BY Sizes
<1>3. e.c \in CpuSet /\ e.at \in Int /\ cpu.f \in Flags
  BY <1>2, EaIs, Longs, Given DEF Like
<1> HIDE DEF e
<1>4. cpu.reg[o.r] \in Int /\ o.r \in Register  BY Fields DEF OperandOK
<1>5. v \in Int
  <2>1. Read(e.c, "b", e.at) \in Int  BY <1>2, <1>3, ReadIs, Longs
  <2> QED BY <1>4, <2>1
<1> HIDE DEF v
<1>6. i \in Nat
  <2> DEFINE k == Bits[z]
  <2>1. k \in Nat \ {0}
    <3> HIDE DEF z
    <3>1. Bits[z] \in 1..(SIGN_BIT + 1) /\ SIGN_BIT \in Nat  BY <1>2, AluAssumption
    <3> QED BY <3>1
  <2> HIDE DEF k
  <2>2. b % k \in 0..(k - 1)  BY <2>1, DivMod
  <2>3. b % k \in Nat  BY <2>1, <2>2
  <2> QED BY <2>3 DEF k
<1> HIDE DEF i, z
<1>7. res.r \in Int /\ res.f \in Flags  BY <1>3, <1>5, <1>6, BitIs
<1> HIDE DEF res
<1>8. SetD([cpu EXCEPT !.f = res.f], "l", o.r, res.r) \in CpuSet
  BY <1>2, <1>4, <1>7, Keeps, Zenon
<1>9. Write([e.c EXCEPT !.f = res.f], "b", e.at, res.r) \in CpuSet
  BY <1>2, <1>3, <1>7, Keeps, Zenon
<1> QED BY <1>1, <1>8, <1>9, DoesIs

LEMMA BitsAre ==
  ASSUME cpu \in CpuSet, NEW op \in {"btst", "bchg", "bclr", "bset"}, NEW os \in SUBSET Every
  PROVE  (StaticBit(op, os) => Stepped) /\ (DynamicBit(op, os) => Stepped)
<1>1. \A o \in os : OperandOK(o)  BY Operands
<1>2. \A o \in os, b \in Int : OnBit(op, b, o) => Stepped  BY <1>1, OnBitIs
<1>3. (\A i \in Imm : i \in Int) /\ \A n \in DReg : cpu.reg[n] \in Int  BY Given, Widthed
<1> QED BY <1>2, <1>3, Zenon DEF StaticBit, DynamicBit

(* MOVEM.                                                                  *)
LEMMA MovemIs ==
  ASSUME NEW c \in CpuSet, NEW z \in Size, NEW list \in SUBSET Register, NEW o, OperandOK(o)
  PROVE  /\ o.m # "dn" => MovemToMem(c, z, list, o) \in CpuSet
         /\ MovemToReg(c, z, list, o) \in CpuSet
<1>1. \A e \in Stage : /\ StoreEach(z, e, list) \in CpuSet
                       /\ StoreDown(z, e, list).c \in CpuSet /\ StoreDown(z, e, list).at \in Int
                       /\ LoadEach(z, e, list).c \in CpuSet /\ LoadEach(z, e, list).at \in Int
  <2> SUFFICES ASSUME NEW e \in Stage
               PROVE  /\ StoreEach(z, e, list) \in CpuSet
                      /\ StoreDown(z, e, list).c \in CpuSet /\ StoreDown(z, e, list).at \in Int
                      /\ LoadEach(z, e, list).c \in CpuSet /\ LoadEach(z, e, list).at \in Int
    OBVIOUS
  <2>1. Len(Order) \in 0..Len(Order)  BY Ordered
  <2>2. PICK t \in [0..Len(Order) -> Stage] : StoreEach(z, e, list) = t[Len(Order)].c
    BY StoreEachIs
  <2>3. PICK t2 \in [0..Len(Order) -> Stage] : StoreDown(z, e, list) = t2[Len(Order)]
    BY StoreDownIs
  <2>4. PICK t3 \in [0..Len(Order) -> Stage] : LoadEach(z, e, list) = t3[Len(Order)]
    BY LoadEachIs
  <2>5. t[Len(Order)] \in Stage /\ t2[Len(Order)] \in Stage /\ t3[Len(Order)] \in Stage  BY <2>1
  <2>6. \A p \in Stage : p.c \in CpuSet /\ p.at \in Int  BY DEF Stage
  <2> HIDE DEF Stage
  <2> QED BY <2>2, <2>3, <2>4, <2>5, <2>6, Zenon
<1>2. \A x : OperandOK(x) => Ea(c, z, x) \in Stage
  <2> SUFFICES ASSUME NEW x, OperandOK(x) PROVE Ea(c, z, x) \in Stage
    OBVIOUS
  <2>1. Ea(c, z, x).c \in CpuSet /\ Ea(c, z, x).at \in Int  BY EaIs, Longs DEF Like
  <2>2. Ea(c, z, x) = [c |-> Ea(c, z, x).c, at |-> Ea(c, z, x).at]
    <3> DEFINE a == c.reg[x.r]
               up == SetA(c, x.r, a + Stride68(z, x.r))
               down == SetA(c, x.r, a - Stride68(z, x.r))
    <3>1. \E b, p : Ea(c, z, x) = [c |-> b, at |-> p]
      <4>1. CASE x.m = "ind"  BY <4>1, Zenon DEF Ea
      <4>2. CASE x.m = "inc"  BY <4>2, Zenon DEF Ea
      <4>3. CASE x.m = "dec"  BY <4>3, Zenon DEF Ea
      <4>4. CASE x.m = "disp"  BY <4>4, Zenon DEF Ea
      <4>5. CASE x.m = "index"  BY <4>5, Zenon DEF Ea
      <4>6. CASE x.m = "abs"  BY <4>6, Zenon DEF Ea
      <4>7. CASE x.m \in {"dn", "an"}  BY <4>7, Zenon DEF Ea
      <4> QED BY <4>1, <4>2, <4>3, <4>4, <4>5, <4>6, <4>7 DEF OperandOK, Modes
    <3> QED BY <3>1
  <2>3. \A b \in CpuSet, p \in Int : [c |-> b, at |-> p] \in Stage  BY DEF Stage
  <2> QED BY <2>1, <2>2, <2>3, Zenon
<1>3. o.r \in Register  BY DEF OperandOK
<1>4. ASSUME o.m # "dn" PROVE MovemToMem(c, z, list, o) \in CpuSet
  <2> DEFINE x == [o EXCEPT !.m = "inc"]
             down == StoreDown(z, Ea(c, z, x), list)
  <2>1. OperandOK(x)
    <3>1. x.m = "inc" \/ x.m = o.m
      OBVIOUS
    <3>2. x.r = o.r /\ x.w = o.w /\ x.x = o.x  OBVIOUS
    <3>3. o.r \in AReg  BY <1>4 DEF OperandOK
    <3> HIDE DEF x
    <3> QED BY <1>4, <3>1, <3>2, <3>3 DEF OperandOK, Modes
  <2>2. MovemToMem(c, z, list, o)
          = IF o.m = "dec" THEN SetA(down.c, o.r, down.at) ELSE StoreEach(z, Ea(c, z, o), list)
    BY Zenon DEF MovemToMem
  <2> HIDE DEF x
  <2>3. down.c \in CpuSet /\ down.at \in Int  BY <1>1, <1>2, <2>1, Zenon
  <2> HIDE DEF down
  <2>4. SetA(down.c, o.r, down.at) \in CpuSet  BY <1>3, <2>3, Keeps, Zenon
  <2>5. StoreEach(z, Ea(c, z, o), list) \in CpuSet  BY <1>1, <1>2, Zenon
  <2> QED BY <2>2, <2>4, <2>5, Zenon
<1>5. MovemToReg(c, z, list, o) \in CpuSet
  <2> DEFINE up == LoadEach(z, Ea(c, z, o), list)
  <2>1. MovemToReg(c, z, list, o) = IF o.m = "inc" THEN SetA(up.c, o.r, up.at) ELSE up.c
    BY Zenon DEF MovemToReg
  <2>2. up.c \in CpuSet /\ up.at \in Int  BY <1>1, <1>2, Zenon
  <2> HIDE DEF up
  <2>3. SetA(up.c, o.r, up.at) \in CpuSet  BY <1>3, <2>2, Keeps, Zenon
  <2> QED BY <2>1, <2>2, <2>3, Zenon
<1> QED BY <1>4, <1>5

LEMMA MovemsAre ==
  ASSUME cpu \in CpuSet
  PROVE  /\ (MovemWToMem => Stepped) /\ (MovemLToMem => Stepped)
         /\ (MovemWToReg => Stepped) /\ (MovemLToReg => Stepped)
<1>1. (\A o \in An \cup Mem : OperandOK(o) /\ o.m # "dn") /\ (\A o \in Every : OperandOK(o))
  BY Operands
<1>2. "w" \in Size /\ "l" \in Size  BY Sizes
<1>3. \A z \in Size, list \in SUBSET Register, o \in An \cup Mem : MovemToMem(cpu, z, list, o) \in CpuSet
  BY <1>1, MovemIs
<1>4. \A z \in Size, list \in SUBSET Register, o \in Every : MovemToReg(cpu, z, list, o) \in CpuSet
  BY <1>1, MovemIs
<1>5. \A c \in CpuSet : Does(c) => Stepped  BY DoesIs
<1> QED BY <1>2, <1>3, <1>4, <1>5, Zenon DEF MovemWToMem, MovemLToMem, MovemWToReg, MovemLToReg

(* Program control and the stack.                                          *)
LEMMA StackIs ==
  ASSUME NEW c \in CpuSet
  PROVE  /\ \A a \in Long : Call(c, a) \in CpuSet
         /\ Returned(c) \in CpuSet
         /\ \A r \in AReg, w \in Int : Link(c, r, w) \in CpuSet
         /\ \A r \in AReg : Unlk(c, r) \in CpuSet
<1>1. SP \in Register /\ AReg \subseteq Register  BY Kinds
<1>2. \A a \in Long : Call(c, a) \in CpuSet
  <2>1. c.pc \in Int  BY Fields, Longs
  <2> QED BY <2>1, Keeps, Zenon DEF Call
<1>3. Returned(c) \in CpuSet
  <2> DEFINE p == PopL(c)
  <2>1. p.c \in CpuSet /\ p.v \in Long  BY Keeps, Zenon
  <2>2. Returned(c) = Jump(p.c, p.v)  BY Zenon DEF Returned
  <2> HIDE DEF p
  <2> QED BY <2>1, <2>2, Keeps, Zenon
<1>4. ASSUME NEW r \in AReg, NEW w \in Int PROVE Link(c, r, w) \in CpuSet
  <2> DEFINE b == PushL(c, c.reg[r])
             l == SetA(b, r, b.reg[SP])
             v == l.reg[SP] + w
  <2>1. Link(c, r, w) = SetA(l, SP, v)  BY Zenon DEF Link
  <2>2. r \in Register /\ c.reg[r] \in Int  BY <1>1, Fields
  <2>3. b \in CpuSet  BY <2>2, Keeps, Zenon
  <2> HIDE DEF b
  <2>4. b.reg[SP] \in Int  BY <1>1, <2>3, Fields
  <2>5. l \in CpuSet  BY <2>2, <2>3, <2>4, Keeps, Zenon
  <2> HIDE DEF l
  <2>6. l.reg[SP] \in Int  BY <1>1, <2>5, Fields
  <2>7. v \in Int  BY <2>6
  <2> HIDE DEF v
  <2> QED BY <1>1, <2>1, <2>5, <2>7, Keeps, Zenon
<1>5. ASSUME NEW r \in AReg PROVE Unlk(c, r) \in CpuSet
  <2> DEFINE b == SetA(c, SP, c.reg[r])
             p == PopL(b)
  <2>1. Unlk(c, r) = SetA(p.c, r, p.v)  BY Zenon DEF Unlk
  <2>2. r \in Register /\ c.reg[r] \in Int  BY <1>1, Fields
  <2>3. b \in CpuSet  BY <1>1, <2>2, Keeps, Zenon
  <2> HIDE DEF b
  <2>4. p.c \in CpuSet /\ p.v \in Int  BY <2>3, Keeps, Longs
  <2> HIDE DEF p
  <2> QED BY <2>1, <2>2, <2>4, Keeps, Zenon
<1> QED BY <1>2, <1>3, <1>4, <1>5

LEMMA BranchIs ==
  ASSUME cpu \in CpuSet, NEW ccs
  PROVE  (Branch(ccs) => Stepped) /\ (Dbcc(ccs) => Stepped)
<1>1. \A c \in CpuSet : Does(c) => Stepped  BY DoesIs
<1>2. Abs \subseteq Long  BY Widthed
<1>3. Branch(ccs) => Stepped
  <2>1. \A a \in Abs : Call(cpu, a) \in CpuSet /\ Jump(cpu, a) \in CpuSet
    BY <1>2, StackIs, Keeps, Zenon
  <2> QED BY <1>1, <2>1, Zenon DEF Branch
<1>4. ASSUME Dbcc(ccs) PROVE Stepped
  <2> DEFINE C(n) == SetD(cpu, "w", n, cpu.reg[n] - 1)
  <2>1. PICK cc \in ccs, n \in DReg, a \in Abs :
          Does(CASE Holds(cc, cpu.f) -> cpu
                 [] ~Holds(cc, cpu.f) /\ cpu.reg[n] % Full("w") = 0 -> C(n)
                 [] OTHER -> Jump(C(n), a))
    BY <1>4, Zenon DEF Dbcc
  <2>2. n \in Register /\ cpu.reg[n] \in Int /\ "w" \in Size  BY Given, Sizes
  <2> DEFINE v == cpu.reg[n] - 1
  <2>3. v \in Int  BY <2>2
  <2> HIDE DEF v
  <2>4. SetD(cpu, "w", n, v) \in CpuSet  BY <2>2, <2>3, Keeps, Zenon
  <2>5. C(n) \in CpuSet  BY <2>4 DEF v
  <2> HIDE DEF C
  <2>6. Jump(C(n), a) \in CpuSet  BY <1>2, <2>5, Keeps, Zenon
  <2>7. Does(cpu) \/ Does(C(n)) \/ Does(Jump(C(n), a))  BY <2>1, Zenon
  <2> QED BY <1>1, <2>5, <2>6, <2>7, Zenon
<1> QED BY <1>3, <1>4

(* A value for a data register or for memory.                              *)
LEMMA PutIs ==
  ASSUME NEW c \in CpuSet, NEW z \in Size, NEW o, OperandOK(o), NEW v \in Int
  PROVE  /\ SetD(c, z, o.r, v) \in CpuSet
         /\ Ea(c, z, o).c \in CpuSet /\ Ea(c, z, o).at \in Int /\ Ea(c, z, o).at \in Long
         /\ Write(Ea(c, z, o).c, z, Ea(c, z, o).at, v) \in CpuSet
<1>1. o.r \in Register  BY DEF OperandOK
<1>2. Ea(c, z, o).c \in CpuSet /\ Ea(c, z, o).at \in Long  BY EaIs DEF Like
<1>3. Ea(c, z, o).at \in Int  BY <1>2, Longs
<1> QED BY <1>1, <1>2, <1>3, Keeps, Zenon

LEMMA SccIs ==
  ASSUME cpu \in CpuSet, NEW ccs, Scc(ccs)
  PROVE  Stepped
<1> DEFINE E(o) == Ea(cpu, "b", o)
           V(cc) == IF Holds(cc, cpu.f) THEN Full("b") - 1 ELSE 0
<1>1. PICK cc \in ccs, o \in Data :
        Does(IF o.m = "dn" THEN SetD(cpu, "b", o.r, V(cc)) ELSE Write(E(o).c, "b", E(o).at, V(cc)))
  BY Zenon DEF Scc
<1>2. OperandOK(o) /\ "b" \in Size  BY Operands, Sizes
<1>3. V(cc) \in Int
  <2>1. Full("b") \in Nat  BY Sizes
  <2> QED BY <2>1
<1> HIDE DEF V
<1>4. SetD(cpu, "b", o.r, V(cc)) \in CpuSet /\ Write(E(o).c, "b", E(o).at, V(cc)) \in CpuSet
  BY <1>2, <1>3, PutIs
<1> HIDE DEF E
<1>5. Does(SetD(cpu, "b", o.r, V(cc))) \/ Does(Write(E(o).c, "b", E(o).at, V(cc)))
  BY <1>1, Zenon
<1> QED BY <1>4, <1>5, DoesIs

LEMMA ExchangeIs ==
  ASSUME NEW c \in CpuSet
  PROVE  /\ \A x, y \in Register : Exg(c, x, y) \in CpuSet
         /\ \A n \in DReg : Swap(c, n) \in CpuSet
<1>1. ASSUME NEW x \in Register, NEW y \in Register PROVE Exg(c, x, y) \in CpuSet
  <2>1. c.reg[x] \in Long /\ c.reg[y] \in Long  BY Fields
  <2> QED BY <2>1 DEF Exg, CpuSet
<1>2. ASSUME NEW n \in DReg PROVE Swap(c, n) \in CpuSet
  <2> DEFINE v == (c.reg[n] \div Full("w")) + (c.reg[n] % Full("w")) * Full("w")
             g == Tst68(Up(v, "l"), c.f)
             b == [c EXCEPT !.f = g]
  <2>1. n \in Register /\ c.reg[n] \in Int /\ "l" \in Size /\ Full("w") \in Nat \ {0}
    BY Fields, Kinds, Sizes
  <2>2. Swap(c, n) = SetD(b, "l", n, v)  BY Zenon DEF Swap
  <2>3. v \in Int
    <3> DEFINE W == Full("w")
               q == c.reg[n] \div W
               r == c.reg[n] % W
    <3>1. W \in Nat \ {0}  BY <2>1
    <3> HIDE DEF W
    <3>2. q \in Int /\ r \in 0..(W - 1)  BY <2>1, <3>1, DivMod
    <3> HIDE DEF q, r
    <3>3. r * W \in Int  BY <3>1, <3>2
    <3>4. q + r * W \in Int  BY <3>2, <3>3
    <3> QED BY <3>4 DEF q, r, W
  <2> HIDE DEF v
  <2>4. g \in Flags  BY Fields, TstFlags
  <2> HIDE DEF g
  <2>5. b \in CpuSet  BY <2>4, Keeps, Zenon
  <2> HIDE DEF b
  <2>6. n \in Register /\ "l" \in Size  BY <2>1
  <2>7. Replaced(SetD(b, "l", n, v), b, "l", n, v)  BY <2>3, <2>5, <2>6, SetDIs
  <2> DEFINE d == SetD(b, "l", n, v)
  <2> HIDE DEF d
  <2>8. Replaced(d, b, "l", n, v)  BY <2>7, Zenon DEF d
  <2>9. d \in CpuSet  BY <2>8, Zenon DEF Replaced
  <2> QED BY <2>2, <2>9, Zenon DEF d
<1> QED BY <1>1, <1>2

LEMMA TasIs ==
  ASSUME cpu \in CpuSet, Tas, ~Illegal
  PROVE  Stepped
<1> DEFINE E(o) == Ea(cpu, "b", o)
           V(o) == IF o.m = "dn" THEN cpu.reg[o.r] ELSE Read(E(o).c, "b", E(o).at)
           G(o) == Tst68(Up(V(o), "b"), cpu.f)
           T(o) == With(V(o), Bits["b"] - 1, TRUE, G(o)).r
<1>1. PICK o \in Data :
        Does(IF o.m = "dn" THEN SetD([cpu EXCEPT !.f = G(o)], "l", o.r, T(o))
             ELSE Write([E(o).c EXCEPT !.f = G(o)], "b", E(o).at, T(o)))
  BY Zenon DEF Tas
<1> DEFINE e == E(o)
           v == V(o)
           g == G(o)
           t == T(o)
           i == Bits["b"] - 1
<1>2. OperandOK(o) /\ "b" \in Size /\ "l" \in Size  BY Operands, Sizes
<1>3. e.c \in CpuSet /\ e.at \in Int /\ cpu.f \in Flags  BY <1>2, EaIs, Longs, Given DEF Like
<1>4. g \in Flags  BY <1>3, TstFlags
<1>5. t = With(v, i, TRUE, g).r /\ v = IF o.m = "dn" THEN cpu.reg[o.r] ELSE Read(e.c, "b", e.at)
  OBVIOUS
<1>6. \/ Does(SetD([cpu EXCEPT !.f = g], "l", o.r, t))
      \/ Does(Write([e.c EXCEPT !.f = g], "b", e.at, t))
  BY <1>1, Zenon
<1> HIDE DEF e, v, g, t, E, V, G, T
<1>7. o.r \in Register /\ cpu.reg[o.r] \in Int  BY <1>2, Fields DEF OperandOK
<1>8. v \in Int
  <2>1. Read(e.c, "b", e.at) \in Int  BY <1>2, <1>3, ReadIs, Longs
  <2> QED BY <1>5, <1>7, <2>1
<1>9. i \in Nat  BY <1>2, Widths
<1> HIDE DEF i
<1>10. t \in Int
  <2>1. "bset" \in {"btst", "bchg", "bclr", "bset"}  OBVIOUS
  <2>2. BitOf("bset", v, i, g).r \in Int  BY <1>4, <1>8, <1>9, <2>1, BitIs
  <2>3. BitOf("bset", v, i, g) = With(v, i, TRUE, g)  BY Zenon DEF BitOf, Bset68
  <2> QED BY <1>5, <2>2, <2>3
<1>11. [cpu EXCEPT !.f = g] \in CpuSet /\ [e.c EXCEPT !.f = g] \in CpuSet
  BY <1>3, <1>4, Keeps, Zenon
<1>12. SetD([cpu EXCEPT !.f = g], "l", o.r, t) \in CpuSet
  BY <1>2, <1>7, <1>10, <1>11, Keeps, Zenon
<1>13. Write([e.c EXCEPT !.f = g], "b", e.at, t) \in CpuSet
  BY <1>2, <1>3, <1>10, <1>11, Keeps, Zenon
<1> QED BY <1>6, <1>12, <1>13, DoesIs

LEMMA ChkIs ==
  ASSUME cpu \in CpuSet, ChkW, ~Illegal
  PROVE  Stepped
<1> DEFINE S(o) == Source(cpu, "w", o)
           A(o) == SignedOf(S(o).v % Full("w"), "w")
           B(o, n) == SignedOf(S(o).c.reg[n] % Full("w"), "w")
           C(o, n) == [S(o).c EXCEPT !.f = [@ EXCEPT !.z = (B(o, n) = 0), !.v = FALSE, !.c = FALSE]]
<1>1. PICK o \in Data, n \in DReg :
        Does(IF B(o, n) \in 0..A(o) THEN C(o, n)
             ELSE Raise([C(o, n) EXCEPT !.f.n = (B(o, n) < 0)], "chk"))
  BY Zenon DEF ChkW
<1> DEFINE s == S(o)
           b == B(o, n)
           c == C(o, n)
           d == [c EXCEPT !.f.n = (b < 0)]
<1>2. OperandOK(o) /\ "w" \in Size  BY Operands, Sizes
<1>3. s.c \in CpuSet  BY <1>2, SourceIs DEF Like
<1>4. c = [s.c EXCEPT !.f = [@ EXCEPT !.z = (b = 0), !.v = FALSE, !.c = FALSE]]  OBVIOUS
<1>5. b \in Int
  <2>1. n \in Register /\ s.c.reg[n] \in Int /\ Full("w") \in Nat \ {0}  BY <1>3, Fields, Kinds, Sizes
  <2> DEFINE r == s.c.reg[n]
             w == r % Full("w")
  <2>2. r \in Int  BY <2>1
  <2> HIDE DEF r
  <2>3. w \in 0..(Full("w") - 1)  BY <2>1, <2>2, DivMod
  <2> HIDE DEF w
  <2>4. SignedOf(w, "w") \in Int  BY <2>1, <2>3 DEF SignedOf
  <2> QED BY <2>4 DEF w, r
<1>6. Does(c) \/ Does(Raise(d, "chk"))  BY <1>1, Zenon
<1> HIDE DEF s, b, c, S, A, B, C
<1>7. c \in CpuSet
  <2>1. (b = 0) \in BOOLEAN  OBVIOUS
  <2> DEFINE y == b = 0
  <2>2. y \in BOOLEAN  BY <2>1
  <2>3. c = [s.c EXCEPT !.f = [@ EXCEPT !.z = y, !.v = FALSE, !.c = FALSE]]  BY <1>4
  <2> HIDE DEF y
  <2>4. s.c.f \in Flags  BY <1>3, Fields
  <2>5. [s.c.f EXCEPT !.z = y, !.v = FALSE, !.c = FALSE] \in Flags  BY <2>2, <2>4 DEF Flags
  <2>6. c = [s.c EXCEPT !.f = [s.c.f EXCEPT !.z = y, !.v = FALSE, !.c = FALSE]]
    BY <1>3, <2>3 DEF CpuSet
  <2> QED BY <1>3, <2>5, <2>6, Keeps, Zenon
<1>8. d \in CpuSet
  <2> DEFINE y == b < 0
  <2>1. y \in BOOLEAN  BY <1>5
  <2>2. d = [c EXCEPT !.f.n = y]  OBVIOUS
  <2> HIDE DEF y, d
  <2>3. c.f \in Flags  BY <1>7, Fields
  <2>4. [c.f EXCEPT !.n = y] \in Flags  BY <2>1, <2>3 DEF Flags
  <2>5. d = [c EXCEPT !.f = [c.f EXCEPT !.n = y]]  BY <1>7, <2>2 DEF CpuSet
  <2> QED BY <1>7, <2>4, <2>5, Keeps, Zenon
<1> HIDE DEF d
<1>9. Raise(d, "chk") \in CpuSet
  <2>1. "chk" \in Exceptions  BY DEF Exceptions
  <2> QED BY <1>8, <2>1, Keeps, Zenon
<1> QED BY <1>6, <1>7, <1>9, DoesIs

(* The instructions, line by line.                                         *)
LEMMA Common ==
  ASSUME cpu \in CpuSet
  PROVE  /\ \A c \in CpuSet : Does(c) => Stepped
         /\ \A e \in Exceptions : Does(Raise(cpu, e)) => Stepped
         /\ Illegal => Stepped
         /\ \A c \in CpuSet : LoadCcr(c) => Stepped
<1>1. \A c \in CpuSet : Does(c) => Stepped  BY DoesIs
<1>2. \A e \in Exceptions : Does(Raise(cpu, e)) => Stepped  BY <1>1, Keeps, Zenon
<1>3. "illegal" \in Exceptions  BY DEF Exceptions
<1>4. Illegal => Stepped  BY <1>2, <1>3, Zenon DEF Illegal
<1>5. ASSUME NEW c \in CpuSet, LoadCcr(c) PROVE Stepped
  <2>1. PICK g \in Ccrs : Does([c EXCEPT !.f = g])  BY <1>5, Zenon DEF LoadCcr
  <2>2. g \in Flags  BY Widthed
  <2> QED BY <1>1, <2>1, <2>2, Keeps, Zenon
<1> QED BY <1>1, <1>2, <1>4, <1>5

LEMMA Subsets ==
  /\ Dn \in SUBSET Every /\ Ind \in SUBSET Every /\ Inc \in SUBSET Every /\ Dec \in SUBSET Every
  /\ DispAn \in SUBSET Every /\ IndexAn \in SUBSET Every /\ Ae \in SUBSET Every
  /\ Mem \in SUBSET Every /\ Data \in SUBSET Every /\ Every \in SUBSET Every
BY Operands

LEMMA Names ==
  /\ {"or", "and", "eor", "add", "sub", "cmp", "addx", "subx", "neg", "negx", "clr", "tst", "not"}
       \subseteq Operations
  /\ ToLeft \subseteq Operations /\ ToRight \subseteq Operations
BY DEF Operations, Sums, Unary, Logical, Shifts

LEMMA Line0 ==
  ASSUME cpu \in CpuSet
  PROVE  /\ ImmDn \/ ImmInd \/ ImmInc \/ ImmDec \/ ImmDisp \/ ImmIndex \/ ImmAe \/ ImmIllegal => Stepped
         /\ BtstImm \/ BchgImm \/ BclrImm \/ BsetImm \/ BtstDn \/ BchgDn \/ BclrDn \/ BsetDn => Stepped
         /\ MovepWToDn \/ MovepLToDn \/ MovepWToMem \/ MovepLToMem => Stepped
<1>1. ASSUME NEW os \in SUBSET Every, ImmTo(os) PROVE Stepped
  <2>1. PICK op \in {"or", "and", "eor", "add", "sub", "cmp"}, z \in Size : ImmToEa(op, z, os)
    BY <1>1, Zenon DEF ImmTo
  <2>2. op \in Operations  BY Names
  <2> QED BY <2>1, <2>2, ToEaIs
<1>2. Illegal \/ LoadCcr(cpu) => Stepped  BY Common
<1>3. ImmDn \/ ImmInd \/ ImmInc \/ ImmDec \/ ImmDisp \/ ImmIndex \/ ImmAe \/ ImmIllegal => Stepped
  BY <1>1, <1>2, Subsets, Zenon
     DEF ImmDn, ImmInd, ImmInc, ImmDec, ImmDisp, ImmIndex, ImmAe, ImmIllegal
<1>4. \A op \in {"btst", "bchg", "bclr", "bset"} :
        StaticBit(op, Data) \/ DynamicBit(op, Data) => Stepped
  BY Subsets, BitsAre
<1>5. BtstImm \/ BchgImm \/ BclrImm \/ BsetImm \/ BtstDn \/ BchgDn \/ BclrDn \/ BsetDn => Stepped
  <2>1. "btst" \in {"btst", "bchg", "bclr", "bset"} /\ "bchg" \in {"btst", "bchg", "bclr", "bset"}
        /\ "bclr" \in {"btst", "bchg", "bclr", "bset"} /\ "bset" \in {"btst", "bchg", "bclr", "bset"}
    OBVIOUS
  <2> QED BY <1>2, <1>4, <2>1, Zenon
          DEF BtstImm, BchgImm, BclrImm, BsetImm, BtstDn, BchgDn, BclrDn, BsetDn
<1>6. \A z \in Size : MovepToDn(z) \/ MovepToMem(z) => Stepped  BY MovepToDnIs, MovepToMemIs
<1>7. MovepWToDn \/ MovepLToDn \/ MovepWToMem \/ MovepLToMem => Stepped
  BY <1>6, Sizes, Zenon DEF MovepWToDn, MovepLToDn, MovepWToMem, MovepLToMem
<1> QED BY <1>3, <1>5, <1>7

LEMMA Lines123 ==
  ASSUME cpu \in CpuSet
  PROVE  /\ MoveBDn \/ MoveBInd \/ MoveBInc \/ MoveBDec \/ MoveBDisp \/ MoveBIndex \/ MoveBAe => Stepped
         /\ MoveaB => Stepped
         /\ MoveLDn \/ MoveLInd \/ MoveLInc \/ MoveLDec \/ MoveLDisp \/ MoveLIndex \/ MoveLAe => Stepped
         /\ MoveaL => Stepped
         /\ MoveWDn \/ MoveWInd \/ MoveWInc \/ MoveWDec \/ MoveWDisp \/ MoveWIndex \/ MoveWAe => Stepped
         /\ MoveaW => Stepped
<1>1. \A z \in Size, os \in SUBSET Every : Move(z, os) => Stepped  BY MoveIs
<1>2. \A z \in Size : EaToAn("movea", z) => Stepped  BY EaToAnIs
<1>3. MoveBDn \/ MoveBInd \/ MoveBInc \/ MoveBDec \/ MoveBDisp \/ MoveBIndex \/ MoveBAe => Stepped
  BY <1>1, Subsets, Sizes, Zenon
     DEF MoveBDn, MoveBInd, MoveBInc, MoveBDec, MoveBDisp, MoveBIndex, MoveBAe
<1>4. MoveLDn \/ MoveLInd \/ MoveLInc \/ MoveLDec \/ MoveLDisp \/ MoveLIndex \/ MoveLAe => Stepped
  BY <1>1, Subsets, Sizes, Zenon
     DEF MoveLDn, MoveLInd, MoveLInc, MoveLDec, MoveLDisp, MoveLIndex, MoveLAe
<1>5. MoveWDn \/ MoveWInd \/ MoveWInc \/ MoveWDec \/ MoveWDisp \/ MoveWIndex \/ MoveWAe => Stepped
  BY <1>1, Subsets, Sizes, Zenon
     DEF MoveWDn, MoveWInd, MoveWInc, MoveWDec, MoveWDisp, MoveWIndex, MoveWAe
<1>6. MoveaB \/ MoveaL \/ MoveaW => Stepped
  BY <1>2, Common, Sizes, Zenon DEF MoveaB, MoveaL, MoveaW
<1> QED BY <1>3, <1>4, <1>5, <1>6

LEMMA Line4Operand ==
  ASSUME cpu \in CpuSet
  PROVE  /\ NegxB \/ NegxW \/ NegxL \/ ClrB \/ ClrW \/ ClrL \/ NegB \/ NegW \/ NegL \/ NotB => Stepped
         /\ NotW \/ NotL \/ TstB \/ TstW \/ TstL => Stepped
         /\ MoveFromSr => Stepped
         /\ MoveToCcr \/ MoveToSr => Stepped
         /\ ExtW \/ ExtL => Stepped
<1>1. \A op \in {"negx", "clr", "neg", "not", "tst"}, z \in Size : OnEa(op, z, Every) => Stepped
  <2>1. \A op \in {"negx", "clr", "neg", "not", "tst"} : op \in Operations  BY Names
  <2> QED BY <2>1, Subsets, ToEaIs
<1>2. "negx" \in {"negx", "clr", "neg", "not", "tst"} /\ "clr" \in {"negx", "clr", "neg", "not", "tst"}
      /\ "neg" \in {"negx", "clr", "neg", "not", "tst"} /\ "not" \in {"negx", "clr", "neg", "not", "tst"}
      /\ "tst" \in {"negx", "clr", "neg", "not", "tst"}
  OBVIOUS
<1>3. NegxB \/ NegxW \/ NegxL \/ ClrB \/ ClrW \/ ClrL \/ NegB \/ NegW \/ NegL \/ NotB => Stepped
  BY <1>1, <1>2, Sizes, Zenon DEF NegxB, NegxW, NegxL, ClrB, ClrW, ClrL, NegB, NegW, NegL, NotB
<1>4. NotW \/ NotL \/ TstB \/ TstW \/ TstL => Stepped
  BY <1>1, <1>2, Sizes, Zenon DEF NotW, NotL, TstB, TstW, TstL
<1>5. ASSUME MoveFromSr PROVE Stepped
  <2>1. PICK i \in Imm, o \in Data :
          \/ Does(SetD(cpu, "w", o.r, i))
          \/ Does(Write(Ea(cpu, "w", o).c, "w", Ea(cpu, "w", o).at, i))
    BY <1>5, Zenon DEF MoveFromSr
  <2>2. i \in Int /\ OperandOK(o) /\ "w" \in Size  BY Widthed, Operands, Sizes
  <2>3. /\ SetD(cpu, "w", o.r, i) \in CpuSet
        /\ Write(Ea(cpu, "w", o).c, "w", Ea(cpu, "w", o).at, i) \in CpuSet
    BY <2>2, PutIs
  <2> QED BY <2>1, <2>3, Common, Zenon
<1>6. MoveToCcr \/ MoveToSr => Stepped
  <2>1. \A o \in Data : Source(cpu, "w", o).c \in CpuSet
    <3> SUFFICES ASSUME NEW o \in Data PROVE Source(cpu, "w", o).c \in CpuSet  OBVIOUS
    <3>1. OperandOK(o) /\ "w" \in Size  BY Operands, Sizes
    <3> QED BY <3>1, SourceIs DEF Like
  <2> QED BY <2>1, Common, Zenon DEF MoveToCcr, MoveToSr
<1>7. ExtW \/ ExtL => Stepped
  <2>1. ASSUME NEW n \in DReg, NEW z \in Size, NEW y \in Size
        PROVE  LET v == Signs(cpu.reg[n], z)
               IN  SetD([cpu EXCEPT !.f = Tst68(Up(v, y), cpu.f)], y, n, v) \in CpuSet
    <3> DEFINE v == Signs(cpu.reg[n], z)
               g == Tst68(Up(v, y), cpu.f)
    <3>1. n \in Register /\ cpu.reg[n] \in Int  BY Given
    <3>2. v \in Int  BY <3>1, SignsIs
    <3>3. g \in Flags  BY Given, TstFlags
    <3> HIDE DEF v, g
    <3>4. SetD([cpu EXCEPT !.f = g], y, n, v) \in CpuSet  BY <3>1, <3>2, <3>3, Keeps, Zenon
    <3> QED BY <3>4 DEF v, g
  <2> QED BY <2>1, Common, Sizes, Zenon DEF ExtW, ExtL
<1> QED BY <1>3, <1>4, <1>5, <1>6, <1>7

LEMMA Line4Control ==
  ASSUME cpu \in CpuSet
  PROVE  /\ SwapDn \/ Pea \/ Jsr \/ Jmp \/ TrapN \/ LinkAn \/ UnlkAn => Stepped
         /\ MoveToUsp \/ MoveFromUsp \/ Nop \/ RtsPc \/ Trapv \/ Rtr \/ Line4Illegal => Stepped
         /\ Tas \/ ChkW \/ Lea => Stepped
<1>1. SwapDn => Stepped  BY Common, ExchangeIs, Zenon DEF SwapDn
<1>2. \A o \in Every, z \in Size :
        Ea(cpu, z, o).c \in CpuSet /\ Ea(cpu, z, o).at \in Long /\ Ea(cpu, z, o).at \in Int
  <2> SUFFICES ASSUME NEW o \in Every, NEW z \in Size
               PROVE  /\ Ea(cpu, z, o).c \in CpuSet /\ Ea(cpu, z, o).at \in Long
                      /\ Ea(cpu, z, o).at \in Int
    OBVIOUS
  <2>1. OperandOK(o)  BY Operands
  <2>2. Ea(cpu, z, o).c \in CpuSet /\ Ea(cpu, z, o).at \in Long  BY <2>1, EaIs DEF Like
  <2> QED BY <2>2, Longs
<1>3. "l" \in Size /\ \A o \in An \cup Mem : o \in Every  BY Sizes, Operands
<1>4. Pea => Stepped
  <2>1. \A o \in An \cup Mem : PushL(Ea(cpu, "l", o).c, Ea(cpu, "l", o).at) \in CpuSet
    BY <1>2, <1>3, Keeps, Zenon
  <2> QED BY <2>1, Common, Zenon DEF Pea
<1>5. Jsr \/ Jmp => Stepped
  <2>1. \A o \in Every : Call(Ea(cpu, "l", o).c, Ea(cpu, "l", o).at) \in CpuSet
    BY <1>2, <1>3, StackIs, Zenon
  <2>2. \A o \in Every : Jump(Ea(cpu, "l", o).c, Ea(cpu, "l", o).at) \in CpuSet
    BY <1>2, <1>3, Keeps, Zenon
  <2> QED BY <2>1, <2>2, Common, Zenon DEF Jsr, Jmp
<1>6. TrapN \/ Trapv => Stepped
  <2>1. "trap" \in Exceptions /\ "trapv" \in Exceptions  BY DEF Exceptions
  <2>2. Trapv => Does(Raise(cpu, "trapv")) \/ Does(cpu)  BY Zenon DEF Trapv
  <2> QED BY <2>1, <2>2, Common, Zenon DEF TrapN
<1>7. LinkAn \/ UnlkAn => Stepped
  <2>1. \A r \in AReg, w \in Disp : Link(cpu, r, w) \in CpuSet  BY StackIs, Widthed
  <2>2. \A r \in AReg : Unlk(cpu, r) \in CpuSet  BY StackIs
  <2> QED BY <2>1, <2>2, Common, Zenon DEF LinkAn, UnlkAn
<1>8. MoveToUsp \/ MoveFromUsp => Stepped
  <2>1. \A r \in AReg : cpu.reg[r] \in Long /\ r \in Register  BY Fields, Kinds
  <2>2. \A a \in Long : [cpu EXCEPT !.usp = a] \in CpuSet  BY DEF CpuSet
  <2>3. \A r \in AReg : SetA(cpu, r, cpu.usp) \in CpuSet
    <3>1. cpu.usp \in Int  BY Given, Longs
    <3> QED BY <2>1, <3>1, Keeps, Zenon
  <2> QED BY <2>1, <2>2, <2>3, Common, Zenon DEF MoveToUsp, MoveFromUsp
<1>9. Nop \/ RtsPc \/ Line4Illegal => Stepped
  BY StackIs, Common, Zenon DEF Nop, RtsPc, Line4Illegal
<1>10. ASSUME Rtr PROVE Stepped
  <2> DEFINE b == SetA(cpu, SP, cpu.reg[SP] + 2)
  <2>1. PICK g \in Ccrs : Does([Returned(b) EXCEPT !.f = g])  BY <1>10, Zenon DEF Rtr
  <2>2. b \in CpuSet
    <3>1. SP \in Register /\ cpu.reg[SP] \in Int  BY Kinds, Fields
    <3> DEFINE v == cpu.reg[SP] + 2
    <3>2. v \in Int  BY <3>1
    <3> HIDE DEF v
    <3>3. SetA(cpu, SP, v) \in CpuSet  BY <3>1, <3>2, Keeps, Zenon
    <3> QED BY <3>3 DEF v
  <2> HIDE DEF b
  <2>3. Returned(b) \in CpuSet  BY <2>2, StackIs
  <2>4. g \in Flags  BY Widthed
  <2> QED BY <2>1, <2>3, <2>4, Keeps, Common, Zenon
<1>11. Tas \/ ChkW => Stepped
  BY TasIs, ChkIs, Common, Zenon
<1>12. ASSUME Lea PROVE Stepped
  <2>1. Illegal \/ \E o \in Mem \ (Inc \cup Dec), n \in AReg : Does(SetA(cpu, n, Ea(cpu, "l", o).at))
    BY <1>12, Zenon DEF Lea
  <2>2. \A o \in Mem \ (Inc \cup Dec), n \in AReg : o \in Every /\ n \in Register
    BY Operands, Kinds
  <2>3. \A o \in Mem \ (Inc \cup Dec), n \in AReg : SetA(cpu, n, Ea(cpu, "l", o).at) \in CpuSet
    BY <1>2, <1>3, <2>2, Keeps, Zenon
  <2> QED BY <2>1, <2>3, Common, Zenon
<1> QED BY <1>1, <1>4, <1>5, <1>6, <1>7, <1>8, <1>9, <1>10, <1>11, <1>12

LEMMA Lines567 ==
  ASSUME cpu \in CpuSet
  PROVE  /\ AddqB \/ AddqW \/ AddqL \/ SubqB \/ SubqW \/ SubqL => Stepped
         /\ SccEven \/ DbccEven \/ SccOdd \/ DbccOdd => Stepped
         /\ BccEven \/ BccOdd => Stepped
         /\ MoveqPositive \/ MoveqNegative \/ Line7Illegal => Stepped
<1>1. \A op \in {"add", "sub"}, z \in Size : Quick(op, z, Data) => Stepped
  <2>1. \A op \in {"add", "sub"} : op \in Operations  BY Names
  <2> QED BY <2>1, Subsets, ToEaIs
<1>2. ASSUME NEW i \in {1, -1}, QuickToAn(i) PROVE Stepped
  <2>1. PICK r \in AReg, q \in {1, 8} : Does(SetA(cpu, r, cpu.reg[r] + i * q))
    BY <1>2, Zenon DEF QuickToAn
  <2> DEFINE v == cpu.reg[r] + i * q
  <2>2. r \in Register /\ cpu.reg[r] \in Int  BY Given
  <2>3. v \in Int  BY <2>2
  <2> HIDE DEF v
  <2>4. SetA(cpu, r, v) \in CpuSet  BY <2>2, <2>3, Keeps, Zenon
  <2> QED BY <2>1, <2>4, Common DEF v
<1>3. AddqB \/ AddqW \/ AddqL \/ SubqB \/ SubqW \/ SubqL => Stepped
  <2>1. "add" \in {"add", "sub"} /\ "sub" \in {"add", "sub"} /\ 1 \in {1, -1} /\ -1 \in {1, -1}
    OBVIOUS
  <2> QED BY <1>1, <1>2, <2>1, Common, Sizes, Zenon DEF AddqB, AddqW, AddqL, SubqB, SubqW, SubqL
<1>4. SccEven \/ DbccEven \/ SccOdd \/ DbccOdd => Stepped
  BY SccIs, BranchIs, Zenon DEF SccEven, DbccEven, SccOdd, DbccOdd
<1>5. BccEven \/ BccOdd => Stepped  BY BranchIs, Zenon DEF BccEven, BccOdd
<1>6. \A is \in SUBSET Imm : Moveq(is) => Stepped  BY MoveqIs
<1>7. MoveqPositive \/ MoveqNegative \/ Line7Illegal => Stepped
  BY <1>6, Common DEF MoveqPositive, MoveqNegative, Line7Illegal
<1> QED BY <1>3, <1>4, <1>5, <1>7

LEMMA Lines89CD ==
  ASSUME cpu \in CpuSet
  PROVE  /\ OrBEaDn \/ OrWEaDn \/ OrLEaDn \/ OrBDnEa \/ OrWDnEa \/ OrLDnEa \/ Divu \/ Divs => Stepped
         /\ SubBEaDn \/ SubWEaDn \/ SubLEaDn \/ SubBDnEa \/ SubWDnEa \/ SubLDnEa => Stepped
         /\ SubxB \/ SubxW \/ SubxL \/ SubaW \/ SubaL => Stepped
         /\ AndBEaDn \/ AndWEaDn \/ AndLEaDn \/ AndBDnEa \/ AndWDnEa \/ AndLDnEa => Stepped
         /\ Mulu \/ Muls \/ ExgDxDy \/ ExgAxAy \/ ExgDxAy => Stepped
         /\ AddBEaDn \/ AddWEaDn \/ AddLEaDn \/ AddBDnEa \/ AddWDnEa \/ AddLDnEa => Stepped
         /\ AddxB \/ AddxW \/ AddxL \/ AddaW \/ AddaL => Stepped
<1> DEFINE Ops == {"or", "and", "add", "sub"}
<1>1. \A op \in Ops, z \in Size, os \in SUBSET Every : EaToDn(op, z, os) \/ DnToEa(op, z, os) => Stepped
  <2>1. \A op \in Ops : op \in Operations  BY Names
  <2> HIDE DEF Ops
  <2> QED BY <2>1, EaToDnIs, ToEaIs
<1>2. "or" \in Ops /\ "and" \in Ops /\ "add" \in Ops /\ "sub" \in Ops  OBVIOUS
<1> HIDE DEF Ops
<1>3. OrBEaDn \/ OrWEaDn \/ OrLEaDn \/ OrBDnEa \/ OrWDnEa \/ OrLDnEa => Stepped
  BY <1>1, <1>2, Common, Subsets, Sizes, Zenon
     DEF OrBEaDn, OrWEaDn, OrLEaDn, OrBDnEa, OrWDnEa, OrLDnEa
<1>4. SubBEaDn \/ SubWEaDn \/ SubLEaDn \/ SubBDnEa \/ SubWDnEa \/ SubLDnEa => Stepped
  BY <1>1, <1>2, Subsets, Sizes, Zenon
     DEF SubBEaDn, SubWEaDn, SubLEaDn, SubBDnEa, SubWDnEa, SubLDnEa
<1>5. AndBEaDn \/ AndWEaDn \/ AndLEaDn \/ AndBDnEa \/ AndWDnEa \/ AndLDnEa => Stepped
  BY <1>1, <1>2, Common, Subsets, Sizes, Zenon
     DEF AndBEaDn, AndWEaDn, AndLEaDn, AndBDnEa, AndWDnEa, AndLDnEa
<1>6. AddBEaDn \/ AddWEaDn \/ AddLEaDn \/ AddBDnEa \/ AddWDnEa \/ AddLDnEa => Stepped
  BY <1>1, <1>2, Subsets, Sizes, Zenon
     DEF AddBEaDn, AddWEaDn, AddLEaDn, AddBDnEa, AddWDnEa, AddLDnEa
<1>7. \A op \in {"divu", "divs"} : Divide(op) => Stepped  BY DivideIs
<1>8. \A op \in {"mulu", "muls"} : Multiply(op) => Stepped  BY MultiplyIs
<1>9. Divu \/ Divs \/ Mulu \/ Muls => Stepped
  <2>1. Divide("divu") \/ Divide("divs") => Stepped  BY <1>7
  <2>2. Multiply("mulu") \/ Multiply("muls") => Stepped  BY <1>8
  <2> QED BY <2>1, <2>2, Common, Zenon DEF Divu, Divs, Mulu, Muls
<1>10. \A op \in {"addx", "subx"}, z \in Size : DyToDx(op, z) \/ MemToMem(op, z) => Stepped
  <2>1. \A op \in {"addx", "subx"} : op \in Operations  BY Names
  <2> QED BY <2>1, DyToDxIs, MemToMemIs
<1>11. \A op \in {"adda", "suba"}, z \in Size : EaToAn(op, z) => Stepped  BY EaToAnIs
<1>12. SubxB \/ SubxW \/ SubxL \/ AddxB \/ AddxW \/ AddxL => Stepped
  <2>1. "addx" \in {"addx", "subx"} /\ "subx" \in {"addx", "subx"}  OBVIOUS
  <2> QED BY <1>10, <2>1, Sizes, Zenon DEF SubxB, SubxW, SubxL, AddxB, AddxW, AddxL
<1>13. SubaW \/ SubaL \/ AddaW \/ AddaL => Stepped
  <2>1. "adda" \in {"adda", "suba"} /\ "suba" \in {"adda", "suba"}  OBVIOUS
  <2> QED BY <1>11, <2>1, Sizes, Zenon DEF SubaW, SubaL, AddaW, AddaL
<1>14. ExgDxDy \/ ExgAxAy \/ ExgDxAy => Stepped
  <2>1. \A x, y \in Register : Exg(cpu, x, y) \in CpuSet  BY ExchangeIs
  <2>2. \A r \in DReg : r \in Register
    BY Kinds
  <2>3. \A r \in AReg : r \in Register
    BY Kinds
  <2> QED BY <2>1, <2>2, <2>3, Common, Zenon DEF ExgDxDy, ExgAxAy, ExgDxAy
<1> QED BY <1>3, <1>4, <1>5, <1>6, <1>9, <1>12, <1>13, <1>14

LEMMA LinesABEF ==
  ASSUME cpu \in CpuSet
  PROVE  /\ LineA \/ LineF => Stepped
         /\ CmpBEaDn \/ CmpWEaDn \/ CmpLEaDn \/ CmpaW \/ CmpaL => Stepped
         /\ EorB \/ EorW \/ EorL \/ CmpmB \/ CmpmW \/ CmpmL => Stepped
         /\ RightB \/ RightW \/ RightL \/ RightMem \/ LeftB \/ LeftW \/ LeftL \/ LeftMem => Stepped
<1>1. LineA \/ LineF => Stepped
  <2>1. "linea" \in Exceptions /\ "linef" \in Exceptions  BY DEF Exceptions
  <2> QED BY <2>1, Common, Zenon DEF LineA, LineF
<1>2. "cmp" \in Operations /\ "eor" \in Operations  BY Names
<1>3. CmpBEaDn \/ CmpWEaDn \/ CmpLEaDn \/ CmpaW \/ CmpaL => Stepped
  <2>1. \A z \in Size : EaToDn("cmp", z, Every) \/ CmpToAn(z) => Stepped
    BY <1>2, Subsets, EaToDnIs, CmpToAnIs
  <2> QED BY <2>1, Sizes, Zenon DEF CmpBEaDn, CmpWEaDn, CmpLEaDn, CmpaW, CmpaL
<1>4. EorB \/ EorW \/ EorL \/ CmpmB \/ CmpmW \/ CmpmL => Stepped
  <2>1. \A z \in Size : DnToEa("eor", z, Data) \/ CmpM(z) => Stepped
    BY <1>2, Subsets, ToEaIs, CmpMIs
  <2> QED BY <2>1, Sizes, Zenon DEF EorB, EorW, EorL, CmpmB, CmpmW, CmpmL
<1>5. ASSUME NEW ops \in SUBSET Operations, NEW z \in Size, ShiftDn(ops, z) PROVE Stepped
  <2>1. PICK op \in ops, n \in DReg, m \in DReg :
          (\E q \in 1..8 : IntoD(cpu, op, z, q, n)) \/ IntoD(cpu, op, z, cpu.reg[m], n)
    BY <1>5, Zenon DEF ShiftDn
  <2>2. op \in Operations /\ Like(cpu, cpu) /\ cpu.reg[m] \in Nat /\ \A q \in 1..8 : q \in Nat
    BY Given
  <2>3. \A s \in Nat : IntoD(cpu, op, z, s, n) => Stepped  BY <2>2, IntoDIs
  <2> QED BY <2>1, <2>2, <2>3, Zenon
<1>6. ASSUME NEW ops \in SUBSET Operations, ShiftMem(ops) PROVE Stepped
  <2>1. PICK op \in ops, o \in Every :
          IntoMem(Ea(cpu, "w", o).c, op, "w", 1, Ea(cpu, "w", o).at)
    BY <1>6, Zenon DEF ShiftMem
  <2> DEFINE e == Ea(cpu, "w", o)
  <2>2. OperandOK(o) /\ "w" \in Size /\ op \in Operations /\ 1 \in Nat  BY Operands, Sizes
  <2>3. Like(e.c, cpu) /\ e.at \in Int  BY <2>2, EaIs, Longs
  <2>4. IntoMem(e.c, op, "w", 1, e.at)  BY <2>1
  <2> HIDE DEF e
  <2> QED BY <2>2, <2>3, <2>4, IntoMemIs
<1>7. RightB \/ RightW \/ RightL \/ RightMem \/ LeftB \/ LeftW \/ LeftL \/ LeftMem => Stepped
  <2>1. ToLeft \in SUBSET Operations /\ ToRight \in SUBSET Operations  BY Names
  <2> QED BY <1>5, <1>6, <2>1, Sizes, Zenon
          DEF RightB, RightW, RightL, RightMem, LeftB, LeftW, LeftL, LeftMem
<1> QED BY <1>1, <1>3, <1>4, <1>7

LEMMA AnyStep ==
  ASSUME cpu \in CpuSet, Instruction68
  PROVE  Stepped
BY Line0, Lines123, Line4Operand, Line4Control, MovemsAre, Lines567, Lines89CD, LinesABEF, Zenon
   DEF Instruction68

-----------------------------------------------------------------------------
(* What holds in every state of the processor, whatever runs it.           *)
Sound68 == cpu \in CpuSet /\ AluOK(alu) /\ done \in 0..MaxInst

LEMMA Reset68 ==
  ASSUME cpu \in [reg : Registers, usp : {0}, mem : Memories, pc : {MEM}, f : Ccrs,
                  exc : {"none", "trap"}], alu = NoAlu, done = 0
  PROVE  Sound68
<1>1. /\ Registers \subseteq [Register -> Long] /\ Memories \subseteq [Cell -> Byte]
      /\ Ccrs \subseteq Flags /\ MaxInst \in Nat
  BY InstAssumption DEF Byte
<1>2. /\ cpu \in [reg : [Register -> Long], usp : Long, mem : [Cell -> Byte], pc : Long,
                  f : Flags, exc : Exceptions]
  BY <1>1, Longs DEF Exceptions
<1>3. cpu \in CpuSet  BY <1>2, Zenon DEF CpuSet
<1>4. AluOK(alu)  BY Zenon DEF AluOK
<1> QED BY <1>1, <1>3, <1>4 DEF Sound68

LEMMA Start68 == CpuInit => Sound68
<1>1. CASE InstInit
  <2>1. /\ cpu \in [reg : Registers, usp : {0}, mem : Memories, pc : {MEM}, f : Ccrs,
                    exc : {"none", "trap"}]
        /\ alu = NoAlu /\ done = 0
    BY <1>1 DEF InstInit
  <2> QED BY <2>1, Reset68, Zenon
<1>2. ASSUME CpuInit, part # "inst" PROVE Sound68
  <2> DEFINE S == [reg : Registers, usp : {0}, mem : Memories, pc : {MEM}, f : Ccrs, exc : {"trap"}]
  <2>1. PICK r \in Registers, m \in Memories, f \in Ccrs : TRUE  BY InstAssumption
  <2>2. [reg |-> r, usp |-> 0, mem |-> m, pc |-> MEM, f |-> f, exc |-> "trap"] \in S  OBVIOUS
  <2>3. cpu = CHOOSE c \in S : TRUE  BY <1>2, Zenon DEF CpuInit
  <2>4. alu = NoAlu /\ done = 0  BY <1>2, Zenon DEF CpuInit
  <2>5. S \subseteq [reg : Registers, usp : {0}, mem : Memories, pc : {MEM}, f : Ccrs,
                     exc : {"none", "trap"}]
    OBVIOUS
  <2> HIDE DEF S
  <2>6. cpu \in S  BY <2>2, <2>3
  <2> QED BY <2>4, <2>5, <2>6, Reset68
<1> QED BY <1>1, <1>2, Zenon DEF CpuInit

LEMMA Step68 ==
  ASSUME Sound68, InstNext
  PROVE  Sound68' /\ ContainedStep
<1>1. cpu \in CpuSet /\ Instruction68 /\ done < MaxInst /\ done \in 0..MaxInst
  BY DEF Sound68, InstNext, Ready
<1>2. Stepped  BY <1>1, AnyStep
<1>3. MaxInst \in Nat  BY InstAssumption
<1>4. done' = done + 1 /\ cpu' \in CpuSet /\ AluOK(alu')  BY <1>2 DEF Stepped
<1>5. done' \in 0..MaxInst  BY <1>1, <1>3, <1>4
<1>6. AluOK(alu)'  BY <1>4, Zenon DEF AluOK
<1>7. CpuSet' = CpuSet  BY DEF CpuSet
<1> QED BY <1>2, <1>4, <1>5, <1>6, WithinIs DEF Sound68

LEMMA Same68 ==
  ASSUME Sound68, UNCHANGED instVars
  PROVE  Sound68'
BY DEF Sound68, instVars, AluOK, CpuSet

LEMMA Next68 == Sound68 /\ [CpuNext]_<<part, vars, instVars>> => Sound68'
<1> SUFFICES ASSUME Sound68, [CpuNext]_<<part, vars, instVars>> PROVE Sound68'  OBVIOUS
<1>1. InstNext \/ UNCHANGED instVars  BY Zenon DEF CpuNext, Over
<1> QED BY <1>1, Step68, Same68

LEMMA Always68 == CpuSpec => []Sound68
BY Start68, Next68, PTL DEF CpuSpec

(* The inductive invariant says of the trace of the ALU that it is one an  *)
(* operation leaves; types and arithmetic follow.                          *)
LEMMA SoundIs ==
  ASSUME Sound68
  PROVE  InstTypeOK /\ ArithmeticExact /\ ShiftsByBits
<1>1. /\ cpu.reg \in [Register -> Long] /\ cpu.usp \in Long /\ cpu.mem \in [Cell -> Byte]
      /\ cpu.pc \in Long /\ cpu.f \in Flags /\ cpu.exc \in Exceptions
  BY Fields DEF Sound68
<1>2. /\ ArithmeticExact /\ ShiftsByBits
      /\ alu.op # "none" => /\ alu.z \in Size /\ {alu.d, alu.r} \subseteq 0..(Full(alu.z) - 1)
                            /\ {alu.f, alu.g} \subseteq Flags
  BY AluExact DEF Sound68
<1>3. done \in 0..MaxInst  BY DEF Sound68
<1> QED BY <1>1, <1>2, <1>3, Zenon DEF InstTypeOK, Byte, Exceptions

(* Whatever the instructions, whatever the widths: registers, memory, PC   *)
(* and flags keep their widths (the masks of emu68.h and mem68.c), and the *)
(* run of emu68.c keeps its types while they execute.                      *)
THEOREM CpuTypes == CpuSpec => []CpuTypeOK
<1>1. CpuInit => TypeOK  BY TypesStart, Zenon DEF CpuInit
<1>2. TypeOK /\ [CpuNext]_<<part, vars, instVars>> => TypeOK'
  <2> SUFFICES ASSUME TypeOK, [CpuNext]_<<part, vars, instVars>> PROVE TypeOK'  OBVIOUS
  <2>1. [Next]_vars  BY Zenon DEF CpuNext, Over
  <2> QED BY <2>1, TypesStep
<1>3. Sound68 => InstTypeOK  BY SoundIs
<1> QED BY <1>1, <1>2, <1>3, Always68, PTL DEF CpuSpec, CpuTypeOK

(* Whatever instruction reached it, with whatever operands: the flags and  *)
(* results of inl68_arithmetic.h are those of numbers.                     *)
THEOREM ArithmeticIsExact == CpuSpec => []ArithmeticExact
<1>1. Sound68 => ArithmeticExact  BY SoundIs
<1> QED BY <1>1, Always68, PTL

(* The shifts of inl68_shifting.h that lines/lineE.c calls are so many     *)
(* shifts by one bit, but that LSL clears X.                               *)
THEOREM ShiftsAreByBits == CpuSpec => []ShiftsByBits
<1>1. Sound68 => ShiftsByBits  BY SoundIs
<1> QED BY <1>1, Always68, PTL

(* No operation of the ALU writes more than its operand: not above the     *)
(* size in a data register, and in memory no byte around it.               *)
THEOREM OperandsContained == CpuSpec => Contained
<1>1. Sound68 /\ [CpuNext]_<<part, vars, instVars>> => [ContainedStep]_instVars
  <2> SUFFICES ASSUME Sound68, [CpuNext]_<<part, vars, instVars>> PROVE [ContainedStep]_instVars
    OBVIOUS
  <2>1. InstNext \/ UNCHANGED instVars  BY Zenon DEF CpuNext, Over
  <2> QED BY <2>1, Step68
<1> QED BY <1>1, Always68, PTL DEF CpuSpec, Contained, ContainedStep

-----------------------------------------------------------------------------
(* What is saved is restored.                                              *)

(* A remainder in two digits.                                              *)
LEMMA ModSplit ==
  ASSUME NEW n \in Nat \ {0}, NEW m \in Nat \ {0}, NEW v \in Int
  PROVE  v % (n * m) = ((v \div m) % n) * m + (v % m)
<1> DEFINE d == v \div m
           s == v % m
           q == d \div n
           r == d % n
<1>1. d \in Int /\ s \in 0..(m - 1) /\ v = m * d + s  BY DivMod
<1>2. q \in Int /\ r \in 0..(n - 1) /\ d = n * q + r  BY <1>1, DivMod
<1> HIDE DEF d, s, q, r
<1> DEFINE t == r * m + s
<1>3. t \in 0..(n * m - 1)  BY <1>1, <1>2, Digits
<1>4. n * m \in Nat \ {0}  BY Times
<1>5. v = (n * m) * q + t
  <2>1. m * (n * q + r) = (n * m) * q + r * m  BY <1>1, <1>2
  <2>2. (n * m) * q \in Int /\ r * m \in Int  BY <1>2
  <2> QED BY <1>1, <1>2, <2>1, <2>2
<1> HIDE DEF t
<1>6. v % (n * m) = t
  <2> DEFINE k == n * m
  <2>1. k \in Nat \ {0} /\ t \in 0..(k - 1) /\ v = k * q + t /\ q \in Int  BY <1>2, <1>3, <1>4, <1>5
  <2> HIDE DEF k
  <2>2. v % k = t  BY <2>1, DivModIs
  <2> QED BY <2>2 DEF k
<1> QED BY <1>6 DEF t, r, d, s

(* The bytes of a value, least significant last.                           *)
LEMMA BytesOf ==
  ASSUME NEW v \in Int
  PROVE  LET B == Full("b")
             v1 == v \div B  v2 == v1 \div B  v3 == v2 \div B
         IN  /\ v1 \in Int /\ v2 \in Int /\ v3 \in Int
             /\ ByteOf(v, "b", 0) = v % B
             /\ ByteOf(v, "w", 0) = v1 % B /\ ByteOf(v, "w", 1) = v % B
             /\ ByteOf(v, "l", 0) = v3 % B /\ ByteOf(v, "l", 1) = v2 % B
             /\ ByteOf(v, "l", 2) = v1 % B /\ ByteOf(v, "l", 3) = v % B
<1> DEFINE b == Bits["b"]
           B == Full("b")
<1>1. b \in Nat /\ B = Pow2[b] /\ B \in Nat \ {0}
  <2>1. "b" \in Size  BY Sizes
  <2> QED BY <2>1, Widths DEF Full
<1>2. Bytes["b"] = 1 /\ Bytes["w"] = 2 /\ Bytes["l"] = 4  BY DEF Bytes
<1> HIDE DEF b, B
<1>3. Pow2[b * 0] = 1 /\ Pow2[b * 1] = B /\ Pow2[b * 2] = B * B /\ Pow2[b * 3] = (B * B) * B
  <2>1. b * 0 = 0 /\ b * 1 = b /\ b * 2 = b + b /\ b * 3 = (b + b) + b /\ b + b \in Nat  BY <1>1
  <2>2. Pow2[b + b] = B * B  BY <1>1, Pow2Sum
  <2>3. Pow2[(b + b) + b] = (B * B) * B  BY <1>1, <2>1, <2>2, Pow2Sum
  <2> QED BY <1>1, <2>1, <2>2, <2>3, Powers
<1> DEFINE v1 == v \div B
           v2 == v1 \div B
           v3 == v2 \div B
<1>4. v1 \in Int  BY <1>1, DivMod
<1>5. v2 \in Int
  <2> HIDE DEF v1
  <2> QED BY <1>1, <1>4, DivMod
<1>6. v3 \in Int
  <2> HIDE DEF v2
  <2> QED BY <1>1, <1>5, DivMod
<1>7. v \div 1 = v  BY SMT
<1>8. v \div (B * B) = v2  BY <1>1, DivDiv
<1>9. v \div ((B * B) * B) = v3
  <2>1. B * B \in Nat \ {0}  BY <1>1, Times
  <2>2. (v \div (B * B)) \div B = v \div ((B * B) * B)  BY <1>1, <2>1, DivDiv
  <2> QED BY <1>8, <2>2
<1> DEFINE At(k) == (v \div Pow2[b * k]) % B
<1>10. At(0) = v % B /\ At(1) = v1 % B /\ At(2) = v2 % B /\ At(3) = v3 % B
  BY <1>3, <1>7, <1>8, <1>9
<1>11. \A z, i : ByteOf(v, z, i) = At(Bytes[z] - 1 - i)  BY Zenon DEF ByteOf, b, B
<1> HIDE DEF At, v1, v2, v3
<1>12. /\ 1 - 1 - 0 = 0 /\ 2 - 1 - 0 = 1 /\ 2 - 1 - 1 = 0
       /\ 4 - 1 - 0 = 3 /\ 4 - 1 - 1 = 2 /\ 4 - 1 - 2 = 1 /\ 4 - 1 - 3 = 0
  OBVIOUS
<1>13. /\ ByteOf(v, "b", 0) = v % B
       /\ ByteOf(v, "w", 0) = v1 % B /\ ByteOf(v, "w", 1) = v % B
       /\ ByteOf(v, "l", 0) = v3 % B /\ ByteOf(v, "l", 1) = v2 % B
       /\ ByteOf(v, "l", 2) = v1 % B /\ ByteOf(v, "l", 3) = v % B
  BY <1>2, <1>10, <1>11, <1>12
<1> QED BY <1>4, <1>5, <1>6, <1>13, Zenon DEF v1, v2, v3, B

(* ... and the value they make.                                            *)
LEMMA ValueOf ==
  ASSUME NEW v \in Int
  PROVE  LET B == Full("b")
             v1 == v \div B  v2 == v1 \div B  v3 == v2 \div B
         IN  /\ v % Full("w") = (v1 % B) * B + (v % B)
             /\ v % Full("l") = (((v3 % B) * B + (v2 % B)) * B + (v1 % B)) * B + (v % B)
<1> DEFINE B == Full("b")
           v1 == v \div B
           v2 == v1 \div B
           v3 == v2 \div B
<1>1. B \in Nat \ {0} /\ Full("w") = B * B /\ Full("l") = (B * B) * (B * B)  BY LongIsWords
<1> HIDE DEF B
<1>2. v1 \in Int  BY <1>1, DivMod
<1>3. v % (B * B) = (v1 % B) * B + (v % B)  BY <1>1, ModSplit
<1> DEFINE C == B * B
<1>4. C \in Nat \ {0}  BY <1>1, Times
<1> DEFINE D == C * B
<1>5. D \in Nat \ {0} /\ D * B = C * C
  <2>1. D \in Nat \ {0}
    <3> HIDE DEF C
    <3> QED BY <1>1, <1>4, Times
  <2>2. ((B * B) * B) * B = (B * B) * (B * B)  BY <1>1
  <2> QED BY <2>1, <2>2
<1>6. v % (D * B) = (v1 % D) * B + (v % B)
  <2> HIDE DEF D
  <2> QED BY <1>1, <1>5, ModSplit
<1> HIDE DEF v1
<1>7. v2 \in Int /\ v1 % (C * B) = (v2 % C) * B + (v1 % B)
  <2>1. v2 \in Int  BY <1>1, <1>2, DivMod
  <2> HIDE DEF C
  <2> QED BY <1>1, <1>2, <1>4, <2>1, ModSplit
<1> HIDE DEF v2
<1>8. v2 % (B * B) = (v3 % B) * B + (v2 % B)  BY <1>1, <1>7, ModSplit
<1> QED BY <1>1, <1>3, <1>5, <1>6, <1>7, <1>8, Zenon DEF v1, v2, v3, B, C, D

(* What was written is read back, apart from it nothing has changed.       *)
LEMMA ReadBack ==
  ASSUME NEW e, NEW c, NEW z \in Size, NEW a \in Int, NEW v \in Int, Written(e, c, z, a % MEM, v)
  PROVE  Read(e, z, a) = v % Full(z)
<1> DEFINE p == a % MEM
           B == Full("b")
           v1 == v \div B
           v2 == v1 \div B
           v3 == v2 \div B
           m(i) == e.mem[p + i]
<1>1. p \in 0..(MEM - 1) /\ MEM \in Nat  BY Processor
<1>2. ASSUME NEW i \in 0..(Bytes[z] - 1) PROVE m(i) = ByteOf(v, z, i)
  <2>1. Bytes[z] \in {1, 2, 4}  BY DEF Bytes, Size
  <2>2. \A j \in Cell : j \in p..(p + Bytes[z] - 1) => e.mem[j] = ByteOf(v, z, j - p)
    BY Zenon DEF Written
  <2> HIDE DEF p
  <2>3. p + i \in Cell /\ p + i \in p..(p + Bytes[z] - 1) /\ (p + i) - p = i
    BY <1>1, <2>1 DEF Cell
  <2> QED BY <2>2, <2>3
<1>3. /\ z = "b" => Read(e, z, a) = m(0)
      /\ z = "w" => Read(e, z, a) = m(0) * B + m(1)
      /\ z = "l" => Read(e, z, a) = ((m(0) * B + m(1)) * B + m(2)) * B + m(3)
  BY Zenon DEF Read
<1>4. Bytes["b"] = 1 /\ Bytes["w"] = 2 /\ Bytes["l"] = 4  BY DEF Bytes
<1>5. /\ ByteOf(v, "b", 0) = v % B
      /\ ByteOf(v, "w", 0) = v1 % B /\ ByteOf(v, "w", 1) = v % B
      /\ ByteOf(v, "l", 0) = v3 % B /\ ByteOf(v, "l", 1) = v2 % B
      /\ ByteOf(v, "l", 2) = v1 % B /\ ByteOf(v, "l", 3) = v % B
  BY BytesOf, Zenon
<1>6. /\ v % Full("w") = (v1 % B) * B + (v % B)
      /\ v % Full("l") = (((v3 % B) * B + (v2 % B)) * B + (v1 % B)) * B + (v % B)
  BY ValueOf, Zenon
<1>7. CASE z = "b"
  <2>1. 0 \in 0..(Bytes[z] - 1)  BY <1>4, <1>7
  <2>2. m(0) = ByteOf(v, z, 0)  BY <1>2, <2>1
  <2> QED BY <1>3, <1>5, <1>7, <2>2, Zenon DEF B
<1>8. CASE z = "w"
  <2>1. 0 \in 0..(Bytes[z] - 1) /\ 1 \in 0..(Bytes[z] - 1)  BY <1>4, <1>8
  <2>2. m(0) = ByteOf(v, z, 0) /\ m(1) = ByteOf(v, z, 1)  BY <1>2, <2>1
  <2> QED BY <1>3, <1>5, <1>6, <1>8, <2>2, Zenon
<1>9. CASE z = "l"
  <2>1. /\ 0 \in 0..(Bytes[z] - 1) /\ 1 \in 0..(Bytes[z] - 1)
        /\ 2 \in 0..(Bytes[z] - 1) /\ 3 \in 0..(Bytes[z] - 1)
    BY <1>4, <1>9
  <2>2. /\ m(0) = ByteOf(v, z, 0) /\ m(1) = ByteOf(v, z, 1)
        /\ m(2) = ByteOf(v, z, 2) /\ m(3) = ByteOf(v, z, 3)
    BY <1>2, <2>1
  <2> QED BY <1>3, <1>5, <1>6, <1>9, <2>2, Zenon
<1> QED BY <1>7, <1>8, <1>9 DEF Size

SameBytes(e, c, a, b) ==
  /\ a % MEM = b % MEM
  /\ \A i \in 0..3 : e.mem[(a % MEM) + i] = c.mem[(a % MEM) + i]

LEMMA ReadAgain ==
  ASSUME NEW e, NEW c, NEW a, NEW b, NEW z \in Size, SameBytes(e, c, a, b)
  PROVE  Read(e, z, a) = Read(c, z, b)
<1> DEFINE p == a % MEM
<1>1. /\ e.mem[p + 0] = c.mem[p + 0] /\ e.mem[p + 1] = c.mem[p + 1]
      /\ e.mem[p + 2] = c.mem[p + 2] /\ e.mem[p + 3] = c.mem[p + 3]
  <2>1. 0 \in 0..3 /\ 1 \in 0..3 /\ 2 \in 0..3 /\ 3 \in 0..3  OBVIOUS
  <2> QED BY <2>1, Zenon DEF SameBytes
<1>2. p = b % MEM  BY Zenon DEF SameBytes
<1> HIDE DEF p
<1>3. CASE z = "b"
  <2>1. Read(e, z, a) = e.mem[p + 0] /\ Read(c, z, b) = c.mem[(b % MEM) + 0]
    BY <1>3, Zenon DEF Read, p
  <2> QED BY <1>1, <1>2, <2>1
<1>4. CASE z = "w"
  <2>1. /\ Read(e, z, a) = e.mem[p + 0] * Full("b") + e.mem[p + 1]
        /\ Read(c, z, b) = c.mem[(b % MEM) + 0] * Full("b") + c.mem[(b % MEM) + 1]
    BY <1>4, Zenon DEF Read, p
  <2> QED BY <1>1, <1>2, <2>1, Zenon
<1>5. CASE z = "l"
  <2>1. /\ Read(e, z, a) = ((e.mem[p + 0] * Full("b") + e.mem[p + 1]) * Full("b")
                             + e.mem[p + 2]) * Full("b") + e.mem[p + 3]
        /\ Read(c, z, b) = ((c.mem[(b % MEM) + 0] * Full("b") + c.mem[(b % MEM) + 1]) * Full("b")
                             + c.mem[(b % MEM) + 2]) * Full("b") + c.mem[(b % MEM) + 3]
    BY <1>5, Zenon DEF Read, p
  <2> QED BY <1>1, <1>2, <2>1, Zenon
<1> QED BY <1>3, <1>4, <1>5 DEF Size

(* Longs that lie apart in memory.                                         *)
LEMMA ReadApart ==
  ASSUME NEW e, NEW c, NEW a \in Int, NEW b \in Int, NEW v \in Int,
         Written(e, c, "l", b % MEM, v), a - b \in 4..(MEM - 4)
  PROVE  Read(e, "l", a) = Read(c, "l", a)
<1> DEFINE p == a % MEM
           q == b % MEM
<1>1. MEM \in Nat \ {0}  BY Processor
<1>2. p \in 0..(MEM - 1) /\ q \in 0..(MEM - 1)  BY Processor
<1>3. p - q = a - b \/ p - q = (a - b) - MEM
  <2> DEFINE k == a \div MEM
             l == b \div MEM
  <2>1. a = MEM * k + p /\ b = MEM * l + q /\ k \in Int /\ l \in Int  BY <1>1, DivMod
  <2> HIDE DEF k, l, p, q
  <2> DEFINE d == k - l
  <2>2. a - b = MEM * d + (p - q) /\ d \in Int
    <3>1. MEM * (k - l) = MEM * k - MEM * l /\ MEM * k \in Int /\ MEM * l \in Int  BY <1>1, <2>1
    <3> QED BY <1>1, <1>2, <2>1, <3>1
  <2> HIDE DEF d
  <2>3. MEM * d \in Int /\ (d >= 2 => MEM * d >= MEM * 2) /\ (d <= -1 => MEM * d <= -MEM)
    BY <1>1, <2>2, SMT
  <2>4. d \in {0, 1}
    <3>1. ~(d >= 2)  BY <1>1, <1>2, <2>2, <2>3
    <3>2. ~(d <= -1)  BY <1>1, <1>2, <2>2, <2>3
    <3> QED BY <2>2, <3>1, <3>2
  <2>5. MEM * 0 = 0 /\ MEM * 1 = MEM  BY <1>1
  <2> QED BY <1>1, <1>2, <2>2, <2>4, <2>5
<1> HIDE DEF p, q
<1>4. p + 4 <= q \/ q + 4 <= p  BY <1>1, <1>2, <1>3
<1>5. \A j \in Cell : j \notin q..(q + Bytes["l"] - 1) => e.mem[j] = c.mem[j]
  BY Zenon DEF Written, q
<1>6. \A i \in 0..3 : p + i \in Cell /\ p + i \notin q..(q + Bytes["l"] - 1)
  BY <1>1, <1>2, <1>4 DEF Cell, Bytes
<1>7. \A i \in 0..3 : e.mem[p + i] = c.mem[p + i]  BY <1>5, <1>6
<1>8. \A z \in Size : Read(e, z, a) = Read(c, z, a)
  <2>1. SameBytes(e, c, a, a)  BY <1>7, Zenon DEF SameBytes, p
  <2>2. ASSUME NEW z \in Size PROVE Read(e, z, a) = Read(c, z, a)  BY <2>1, ReadAgain
  <2> QED BY <2>2
<1> QED BY <1>8, Sizes

LEMMA ModPlus ==
  ASSUME NEW m \in Nat \ {0}, NEW a \in Int, NEW b \in Int
  PROVE  ((a % m) + b) % m = (a + b) % m
<1> DEFINE q == a \div m
           r == a % m
<1>1. q \in Int /\ r \in 0..(m - 1) /\ a = m * q + r  BY DivMod
<1> HIDE DEF q, r
<1>2. r + b \in Int /\ m * q \in Int /\ a + b = (r + b) + m * q  BY <1>1
<1>3. ((r + b) + m * q) % m = (r + b) % m  BY <1>1, <1>2, ModAdd
<1> QED BY <1>2, <1>3 DEF r

(* An address wraps as a long and within memory.                           *)
LEMMA Address ==
  ASSUME NEW v \in Int
  PROVE  (v % Full("l")) % MEM = v % MEM
<1> DEFINE L == Full("l")
           k == L \div MEM
           q == v \div L
<1>1. MEM \in Nat \ {0} /\ L \in Nat \ {0} /\ L % MEM = 0
  BY Processor, Sizes, CpuAssumption
<1> HIDE DEF L
<1>2. L = MEM * k /\ k \in Int
  <2>1. L \in Int /\ L = MEM * (L \div MEM) + (L % MEM) /\ L \div MEM \in Int  BY <1>1, DivMod
  <2> HIDE DEF k
  <2>2. L = MEM * k + 0 /\ k \in Int  BY <1>1, <2>1 DEF k
  <2> QED BY <1>1, <2>2
<1>3. q \in Int /\ v = L * q + (v % L) /\ v % L \in Int  BY <1>1, DivMod
<1> DEFINE w == v % L
           j == k * q
<1> HIDE DEF k, q
<1>4. w \in Int /\ j \in Int /\ v = w + MEM * j
  <2>1. (MEM * k) * q = MEM * (k * q) /\ MEM * (k * q) \in Int  BY <1>1, <1>2, <1>3
  <2>2. v = (MEM * k) * q + w /\ w \in Int  BY <1>2, <1>3
  <2> HIDE DEF w
  <2>3. k * q \in Int  BY <1>2, <1>3
  <2>4. (MEM * k) * q + w = w + MEM * (k * q)
    <3> DEFINE x == (MEM * k) * q
               y == MEM * (k * q)
    <3>1. x = y /\ y \in Int  BY <2>1
    <3> HIDE DEF x, y
    <3>2. x + w = w + y  BY <2>2, <3>1
    <3> QED BY <3>2 DEF x, y
  <2> QED BY <2>2, <2>3, <2>4, Zenon
<1> HIDE DEF w, j
<1>5. (w + MEM * j) % MEM = w % MEM  BY <1>1, <1>4, ModAdd
<1> QED BY <1>4, <1>5 DEF w, L

LEMMA ReadSame ==
  ASSUME NEW e, NEW c, e.mem = c.mem, NEW a \in Int, NEW b \in Int, a % MEM = b % MEM
  PROVE  \A z \in Size : Read(e, z, a) = Read(c, z, b)
<1>1. SameBytes(e, c, a, b)  BY Zenon DEF SameBytes
<1> HIDE DEF SameBytes
<1>2. ASSUME NEW z \in Size PROVE Read(e, z, a) = Read(c, z, b)
  BY <1>1, ReadAgain
<1> QED BY <1>2

LEMMA SameRegisters ==
  ASSUME NEW f \in [Register -> Long], NEW g \in [Register -> Long], \A r \in Register : f[r] = g[r]
  PROVE  f = g
OBVIOUS

(* An address register is written, and nothing else.                       *)
OnlySets(d, c, r, v) ==
  /\ d \in CpuSet /\ d.reg \in [Register -> Long] /\ d.reg[r] = v % Full("l")
  /\ d.pc = c.pc /\ d.mem = c.mem
  /\ \A x \in Register \ {r} : d.reg[x] = c.reg[x]

LEMMA SetASets ==
  ASSUME NEW c \in CpuSet, NEW r \in Register, NEW v \in Int
  PROVE  OnlySets(SetA(c, r, v), c, r, v)
BY SetAIs DEF OnlySets

(* What is pushed lies at the top of the stack, and all other registers    *)
(* are kept.                                                               *)
Pushes(e, c, z, st, v) ==
  /\ e \in CpuSet /\ e.pc = c.pc
  /\ e.reg[SP] = (c.reg[SP] - st) % Full("l")
  /\ \A r \in Register \ {SP} : e.reg[r] = c.reg[r]
  /\ Read(e, z, e.reg[SP]) = v % Full(z)

LEMMA PushIs ==
  ASSUME NEW c \in CpuSet, NEW z \in Size, NEW st \in Int, NEW v \in Int
  PROVE  LET d == SetA(c, SP, c.reg[SP] - st)
         IN  Pushes(Write(d, z, d.reg[SP], v), c, z, st, v)
<1> DEFINE a == c.reg[SP] - st
           d == SetA(c, SP, a)
           at0 == d.reg[SP]
           e == Write(d, z, at0, v)
<1>1. SP \in Register /\ a \in Int
  <2>1. SP \in Register /\ c.reg[SP] \in Int  BY Fields, Kinds
  <2> QED BY <2>1
<1> HIDE DEF a
<1>2. /\ d \in CpuSet /\ at0 = a % Full("l") /\ d.pc = c.pc
      /\ \A r \in Register \ {SP} : d.reg[r] = c.reg[r]
  BY <1>1, SetASets DEF OnlySets
<1> HIDE DEF d
<1>3. at0 \in Int  BY <1>1, <1>2, Fields
<1> HIDE DEF at0
<1>4. Written(e, d, z, at0 % MEM, v)  BY <1>2, <1>3, WriteIs
<1>5. e \in CpuSet /\ e.reg = d.reg /\ e.pc = d.pc  BY <1>4, Zenon DEF Written
<1> HIDE DEF e
<1>6. Read(e, z, at0) = v % Full(z)  BY <1>3, <1>4, ReadBack
<1>7. Pushes(e, c, z, st, v)  BY <1>2, <1>5, <1>6, Zenon DEF Pushes, at0, a
<1> QED BY <1>7, Zenon DEF e, at0, d, a

(* Taking it off gives all registers back.                                 *)
LEMMA PopIs ==
  ASSUME NEW c \in CpuSet, NEW e, NEW z \in Size, NEW st \in Int, NEW v \in Int,
         Pushes(e, c, z, st, v)
  PROVE  LET d == SetA(e, SP, e.reg[SP] + st)
         IN  /\ d \in CpuSet /\ d.reg = c.reg
             /\ Read(d, z, e.reg[SP]) = v % Full(z) /\ Read(e, z, e.reg[SP]) = v % Full(z)
<1> DEFINE A == c.reg[SP]
           p == e.reg[SP]
           d == SetA(e, SP, p + st)
<1>1. SP \in Register /\ A \in Int /\ A \in Long /\ c.reg \in [Register -> Long]  BY Fields, Kinds
<1>2. e \in CpuSet /\ p = (A - st) % Full("l") /\ (\A r \in Register \ {SP} : e.reg[r] = c.reg[r])
      /\ Read(e, z, p) = v % Full(z)
  BY Zenon DEF Pushes
<1> HIDE DEF A
<1>3. p \in Int /\ p + st \in Int
  <2>1. p \in Int  BY <1>1, <1>2, Fields
  <2> HIDE DEF p
  <2> QED BY <2>1
<1>4. (p + st) % Full("l") = A
  <2> DEFINE L == Full("l")
             B == A - st
  <2>1. L \in Nat \ {0} /\ B \in Int /\ B + st = A  BY <1>1, Sizes
  <2>2. p = B % L  BY <1>2
  <2>3. A % L = A  BY <1>1, Processor
  <2> HIDE DEF L, B, p
  <2>4. ((B % L) + st) % L = (B + st) % L  BY <2>1, ModPlus
  <2> QED BY <2>1, <2>2, <2>3, <2>4 DEF L
<1> HIDE DEF p
<1>5. /\ d \in CpuSet /\ d.reg[SP] = A /\ d.mem = e.mem /\ d.reg \in [Register -> Long]
      /\ \A r \in Register \ {SP} : d.reg[r] = e.reg[r]
  <2> DEFINE v1 == p + st
  <2>1. v1 \in Int /\ v1 % Full("l") = A  BY <1>3, <1>4
  <2> HIDE DEF v1
  <2>2. OnlySets(SetA(e, SP, v1), e, SP, v1)  BY <1>1, <1>2, <2>1, SetASets
  <2>3. OnlySets(d, e, SP, v1)  BY <2>2, Zenon DEF v1
  <2> HIDE DEF d
  <2> QED BY <2>1, <2>3, Zenon DEF OnlySets
<1> HIDE DEF d
<1>6. \A r \in Register : d.reg[r] = c.reg[r]  BY <1>2, <1>5 DEF A
<1>7. d.reg = c.reg  BY <1>1, <1>5, <1>6, SameRegisters
<1>8. Read(d, z, p) = Read(e, z, p)  BY <1>3, <1>5, ReadSame
<1> QED BY <1>2, <1>5, <1>7, <1>8, Zenon DEF d, p

(* The same of a long, as PushL and PopL write it.                         *)
LEMMA PushLIs ==
  ASSUME NEW c \in CpuSet, NEW v \in Int
  PROVE  Pushes(PushL(c, v), c, "l", 4, v)
<1> DEFINE d == SetA(c, SP, c.reg[SP] - 4)
<1>1. "l" \in Size /\ 4 \in Int  BY Sizes
<1>2. Pushes(Write(d, "l", d.reg[SP], v), c, "l", 4, v)  BY <1>1, PushIs
<1>3. PushL(c, v) = Write(d, "l", d.reg[SP], v)  BY Zenon DEF PushL
<1> HIDE DEF d
<1> QED BY <1>2, <1>3

LEMMA PopLIs ==
  ASSUME NEW c \in CpuSet, NEW e, NEW v \in Int, Pushes(e, c, "l", 4, v)
  PROVE  SetA(e, SP, e.reg[SP] + 4).reg = c.reg
<1>1. "l" \in Size /\ 4 \in Int  BY Sizes
<1> QED BY <1>1, PopIs

(* A push and a pop of any size.                                           *)
LEMMA PushedPopped ==
  ASSUME NEW c \in CpuSet, NEW z \in Size, NEW n \in DReg
  PROVE  LET e == Ea(c, z, StackAs("dec"))
             s == Source(Write(e.c, z, e.at, c.reg[n]), z, StackAs("inc"))
         IN  s.c.reg = c.reg /\ s.v = c.reg[n] % Full(z)
<1> DEFINE st == Stride68(z, SP)
           v == c.reg[n]
           e == Ea(c, z, StackAs("dec"))
           w == Write(e.c, z, e.at, v)
           s == Source(w, z, StackAs("inc"))
           d == SetA(c, SP, c.reg[SP] - st)
           up == SetA(w, SP, w.reg[SP] + st)
<1>1. st \in Int /\ v \in Int
  <2>1. st \in Int  BY DEF Stride68, Bytes, Size
  <2>2. n \in Register  BY Kinds
  <2> QED BY <2>1, <2>2, Fields
<1>2. StackAs("dec").m = "dec" /\ StackAs("dec").r = SP /\ StackAs("inc").m = "inc"
      /\ StackAs("inc").r = SP
  BY DEF StackAs
<1>3. e = [c |-> d, at |-> d.reg[SP]]  BY <1>2, Zenon DEF Ea
<1>4. w = Write(d, z, d.reg[SP], v)  BY <1>3
<1>5. Pushes(w, c, z, st, v)
  <2> HIDE DEF e, w, st, v
  <2> QED BY <1>1, <1>4, PushIs, Zenon
<1> HIDE DEF w
<1>6. Ea(w, z, StackAs("inc")) = [c |-> up, at |-> w.reg[SP]]  BY <1>2, Zenon DEF Ea
<1>7. s = [c |-> up, v |-> Read(up, z, w.reg[SP])]
  <2>1. StackAs("inc").m \notin {"dn", "an"}  BY <1>2
  <2>2. s = [c |-> Ea(w, z, StackAs("inc")).c,
             v |-> Read(Ea(w, z, StackAs("inc")).c, z, Ea(w, z, StackAs("inc")).at)]
    BY <2>1, Zenon DEF Source
  <2> HIDE DEF s, up
  <2> QED BY <1>6, <2>2
<1>8. up.reg = c.reg /\ Read(up, z, w.reg[SP]) = v % Full(z)
  <2> HIDE DEF st, v
  <2> QED BY <1>1, <1>5, PopIs, Zenon
<1> HIDE DEF up, s
<1>9. s.c.reg = c.reg /\ s.v = v % Full(z)  BY <1>7, <1>8
<1> QED BY <1>9, Zenon DEF s, w, e, v

(* LINK and UNLK.                                                          *)
LEMMA LinkedUnlinked ==
  ASSUME NEW c \in CpuSet, NEW r \in AReg \ {SP}, NEW w \in Int
  PROVE  Unlk(Link(c, r, w), r).reg = c.reg
<1> DEFINE v == c.reg[r]
           b == PushL(c, v)
           S == b.reg[SP]
           l == SetA(b, r, S)
           k == SetA(l, SP, l.reg[SP] + w)
           x == SetA(k, SP, k.reg[r])
           y == SetA(x, SP, x.reg[SP] + 4)
           u == Read(x, "l", x.reg[SP])
           f == SetA(y, r, u)
<1>1. SP \in Register /\ r \in Register /\ r # SP /\ "l" \in Size  BY Kinds, Sizes
<1>2. v \in Int /\ v \in Long /\ c.reg \in [Register -> Long]  BY <1>1, Fields
<1>3. Unlk(Link(c, r, w), r) = f
  <2>1. Link(c, r, w) = k  BY Zenon DEF Link
  <2>2. PopL(x) = [c |-> y, v |-> u]  BY Zenon DEF PopL
  <2>3. Unlk(k, r) = SetA(PopL(x).c, r, PopL(x).v)  BY Zenon DEF Unlk
  <2> HIDE DEF f, k, x, y, u
  <2>4. Unlk(k, r) = SetA(y, r, u)  BY <2>2, <2>3
  <2> QED BY <2>1, <2>4 DEF f
<1>4. Pushes(b, c, "l", 4, v)
  <2> HIDE DEF v
  <2> QED BY <1>2, PushLIs
<1> HIDE DEF v, b
<1>5. b \in CpuSet /\ (\A q \in Register \ {SP} : b.reg[q] = c.reg[q])
      /\ Read(b, "l", S) = v % Full("l")
  BY <1>4, Zenon DEF Pushes
<1>6. S \in Long /\ S \in Int /\ S % Full("l") = S  BY <1>1, <1>5, Fields, Processor
<1>7. (S + 4) % Full("l") = c.reg[SP]
  <2> DEFINE d == SetA(b, SP, S + 4)
  <2>1. d.reg = c.reg  BY <1>2, <1>4, PopLIs
  <2> HIDE DEF S
  <2>2. S + 4 \in Int  BY <1>6
  <2>3. d.reg[SP] = (S + 4) % Full("l")  BY <1>1, <1>5, <2>2, SetASets DEF OnlySets
  <2> QED BY <2>1, <2>3
<1> HIDE DEF S
<1>8. /\ l \in CpuSet /\ l.reg[r] = S /\ l.mem = b.mem
      /\ \A q \in Register \ {r} : l.reg[q] = b.reg[q]
  BY <1>1, <1>5, <1>6, SetASets DEF OnlySets
<1> HIDE DEF l
<1>9. l.reg[SP] + w \in Int
  <2>1. l.reg[SP] \in Int  BY <1>1, <1>8, Fields
  <2> QED BY <2>1
<1>10. /\ k \in CpuSet /\ k.mem = b.mem
       /\ \A q \in Register \ {SP} : k.reg[q] = l.reg[q]
  BY <1>1, <1>8, <1>9, SetASets DEF OnlySets
<1> HIDE DEF k
<1>11. k.reg[r] = S  BY <1>1, <1>8, <1>10
<1>12. /\ x \in CpuSet /\ x.reg[SP] = S /\ x.mem = b.mem
       /\ \A q \in Register \ {SP} : x.reg[q] = k.reg[q]
  BY <1>1, <1>6, <1>10, <1>11, SetASets DEF OnlySets
<1> HIDE DEF x
<1>13. u = v
  <2>1. Read(x, "l", S) = Read(b, "l", S)  BY <1>1, <1>6, <1>12, ReadSame
  <2>2. v % Full("l") = v  BY <1>2, Processor
  <2> QED BY <1>5, <1>12, <2>1, <2>2
<1>14. S + 4 \in Int  BY <1>6
<1>15. /\ y \in CpuSet /\ y.reg[SP] = c.reg[SP]
       /\ \A q \in Register \ {SP} : y.reg[q] = x.reg[q]
  <2> DEFINE t == x.reg[SP] + 4
  <2>1. t = S + 4  BY <1>12
  <2>2. t \in Int /\ t % Full("l") = c.reg[SP]  BY <1>7, <1>14, <2>1
  <2> HIDE DEF t
  <2>3. y = SetA(x, SP, t)  BY DEF t
  <2> HIDE DEF y
  <2> QED BY <1>1, <1>12, <2>2, <2>3, SetASets DEF OnlySets
<1> HIDE DEF y, u
<1>16. /\ f.reg \in [Register -> Long] /\ f.reg[r] = v
       /\ \A q \in Register \ {r} : f.reg[q] = y.reg[q]
  <2>1. v % Full("l") = v  BY <1>2, Processor
  <2>2. f = SetA(y, r, v)  BY <1>13
  <2> HIDE DEF f
  <2> QED BY <1>1, <1>2, <1>15, <2>1, <2>2, SetASets DEF OnlySets
<1> HIDE DEF f
<1>17. \A q \in Register : f.reg[q] = c.reg[q]
  <2>1. f.reg[r] = c.reg[r]  BY <1>16 DEF v
  <2>2. f.reg[SP] = c.reg[SP]  BY <1>1, <1>15, <1>16
  <2>3. ASSUME NEW q \in Register, q # r, q # SP PROVE f.reg[q] = c.reg[q]
    BY <1>5, <1>8, <1>10, <1>12, <1>15, <1>16, <2>3
  <2> QED BY <2>1, <2>2, <2>3
<1>18. f.reg = c.reg  BY <1>2, <1>16, <1>17, SameRegisters
<1> QED BY <1>3, <1>18

(* A call and its return.                                                  *)
LEMMA CalledReturned ==
  ASSUME NEW c \in CpuSet, NEW a \in Long
  PROVE  LET d == Returned(Call(c, a)) IN d.reg = c.reg /\ d.pc = c.pc
<1> DEFINE b == PushL(c, c.pc)
           j == Jump(b, a)
           y == SetA(j, SP, j.reg[SP] + 4)
           u == Read(j, "l", j.reg[SP])
<1>1. SP \in Register /\ "l" \in Size  BY Kinds, Sizes
<1>2. c.pc \in Long /\ c.pc \in Int  BY Fields, Longs
<1>3. Pushes(b, c, "l", 4, c.pc)  BY <1>2, PushLIs
<1> HIDE DEF b
<1>4. b \in CpuSet  BY <1>3, Zenon DEF Pushes
<1>5. j \in CpuSet /\ j.mem = b.mem /\ j.reg = b.reg  BY <1>4 DEF Jump, CpuSet
<1> HIDE DEF j
<1>6. Read(j, "l", j.reg[SP]) = Read(b, "l", b.reg[SP])
  <2>1. b.reg[SP] \in Int  BY <1>1, <1>4, Fields
  <2> QED BY <1>1, <1>5, <2>1, ReadSame
<1>8. y.reg = c.reg
  <2> DEFINE g == SetA(b, SP, b.reg[SP] + 4)
  <2>1. g.reg = c.reg  BY <1>2, <1>3, PopLIs
  <2>2. b.reg[SP] \in Int  BY <1>1, <1>4, Fields
  <2> DEFINE t == b.reg[SP] + 4
  <2>3. t \in Int /\ y = SetA(j, SP, t) /\ g = SetA(b, SP, t)  BY <1>5, <2>2
  <2> HIDE DEF t, y, g
  <2>4. /\ y.reg \in [Register -> Long] /\ g.reg \in [Register -> Long]
        /\ y.reg[SP] = g.reg[SP]
        /\ \A q \in Register \ {SP} : y.reg[q] = j.reg[q] /\ g.reg[q] = b.reg[q]
    BY <1>1, <1>4, <1>5, <2>3, SetASets DEF OnlySets
  <2>5. \A q \in Register : y.reg[q] = g.reg[q]  BY <1>5, <2>4
  <2>6. y.reg = g.reg  BY <2>4, <2>5, SameRegisters
  <2> QED BY <2>1, <2>6
<1>9. u = c.pc
  <2>1. u = c.pc % Full("l")  BY <1>3, <1>6, Zenon DEF Pushes
  <2> QED BY <1>2, <2>1, Processor
<1> DEFINE d == Returned(Call(c, a))
<1>10. d = [y EXCEPT !.pc = u]
  <2>1. Call(c, a) = j  BY Zenon DEF Call, j, b
  <2>2. PopL(j) = [c |-> y, v |-> u]  BY Zenon DEF PopL
  <2>3. Returned(j) = Jump(PopL(j).c, PopL(j).v)  BY Zenon DEF Returned
  <2> HIDE DEF y, u
  <2>4. Returned(j) = Jump(y, u)  BY <2>2, <2>3
  <2> QED BY <2>1, <2>4 DEF Jump
<1>11. y \in CpuSet
  <2>1. j.reg[SP] \in Int  BY <1>1, <1>5, Fields
  <2> DEFINE t == j.reg[SP] + 4
  <2>2. t \in Int  BY <2>1
  <2> HIDE DEF t
  <2>3. SetA(j, SP, t) \in CpuSet  BY <1>1, <1>5, <2>2, SetASets DEF OnlySets
  <2> QED BY <2>3 DEF t
<1> HIDE DEF y, u, d
<1>12. d.reg = y.reg /\ d.pc = u  BY <1>10, <1>11 DEF CpuSet
<1> QED BY <1>8, <1>9, <1>12, Zenon DEF d

(* EXG and SWAP twice.                                                     *)
LEMMA Exchanged ==
  ASSUME NEW c \in CpuSet, NEW x \in Register, NEW y \in Register
  PROVE  Exg(Exg(c, x, y), x, y) = c
<1> DEFINE e == Exg(c, x, y)
           f == Exg(e, x, y)
<1>1. c.reg \in [Register -> Long]  BY Fields
<1>2. /\ e = [c EXCEPT !.reg = [c.reg EXCEPT ![x] = c.reg[y], ![y] = c.reg[x]]]
      /\ f = [e EXCEPT !.reg = [e.reg EXCEPT ![x] = e.reg[y], ![y] = e.reg[x]]]
  BY DEF Exg, CpuSet
<1> HIDE DEF e, f
<1>3. e.reg = [c.reg EXCEPT ![x] = c.reg[y], ![y] = c.reg[x]]  BY <1>2 DEF CpuSet
<1>4. [e.reg EXCEPT ![x] = e.reg[y], ![y] = e.reg[x]] = c.reg
  <2> DEFINE g == e.reg
             h == [g EXCEPT ![x] = g[y], ![y] = g[x]]
             k == c.reg
  <2>1. g = [k EXCEPT ![x] = k[y], ![y] = k[x]] /\ k \in [Register -> Long]  BY <1>1, <1>3
  <2> HIDE DEF g, k
  <2>2. g \in [Register -> Long]  BY <2>1
  <2>3. h \in [Register -> Long]  BY <2>2
  <2>4. \A r \in Register : h[r] = k[r]
    <3>1. CASE x = y
      <4>1. \A r \in Register : g[r] = k[r]  BY <2>1, <3>1
      <4>2. \A r \in Register : h[r] = g[r]  BY <2>2, <3>1
      <4> QED BY <4>1, <4>2
    <3>2. CASE x # y
      <4>1. g[x] = k[y] /\ g[y] = k[x] /\ \A r \in Register \ {x, y} : g[r] = k[r]
        BY <2>1, <3>2
      <4>2. h[x] = g[y] /\ h[y] = g[x] /\ \A r \in Register \ {x, y} : h[r] = g[r]
        BY <2>2, <3>2
      <4> QED BY <4>1, <4>2
    <3> QED BY <3>1, <3>2
  <2> HIDE DEF h
  <2>5. h = k  BY <2>1, <2>3, <2>4, SameRegisters
  <2> QED BY <2>5 DEF g, h, k
<1>5. f = [e EXCEPT !.reg = c.reg]  BY <1>2, <1>4
<1>6. f = c  BY <1>2, <1>5 DEF CpuSet
<1> QED BY <1>6 DEF e, f

LEMMA Swapped ==
  ASSUME NEW c \in CpuSet, NEW n \in DReg
  PROVE  Swap(Swap(c, n), n).reg = c.reg
<1> DEFINE W == Full("w")
           L == Full("l")
           V(x) == (x \div W) + (x % W) * W
<1>1. n \in Register /\ "l" \in Size /\ W \in Nat \ {0} /\ L = W * W /\ Long = 0..(L - 1)
  BY Kinds, Sizes, Zenon DEF Long
<1> HIDE DEF W, L
<1>2. ASSUME NEW x \in Long PROVE V(x) \in Long /\ V(V(x)) = x
  <2> DEFINE q == x \div W
             r == x % W
  <2>1. x \in Int /\ x >= 0 /\ x = W * q + r /\ r \in 0..(W - 1) /\ q \in Nat
    <3>1. x \in Int /\ x >= 0  BY <1>1, <1>2, Longs
    <3> QED BY <1>1, <3>1, DivMod
  <2> HIDE DEF q, r
  <2>2. q \in 0..(W - 1)
    <3>1. x <= W * W - 1
      <4>1. L \in Nat  BY <1>1, Times
      <4> QED BY <1>1, <1>2, <4>1
    <3>2. ~(q >= W)
      <4>1. q >= W => W * q >= W * W  BY <1>1, <2>1, SMT
      <4>2. W * q \in Int /\ W * W \in Int  BY <1>1, <2>1
      <4> QED BY <2>1, <3>1, <4>1, <4>2
    <3> QED BY <1>1, <2>1, <3>2
  <2>3. V(x) = r * W + q
    <3>1. r * W \in Int  BY <1>1, <2>1
    <3> QED BY <2>1, <3>1 DEF q, r
  <2>4. r * W + q \in 0..(W * W - 1) /\ (r * W + q) \div W = r /\ (r * W + q) % W = q
    BY <1>1, <2>1, <2>2, Digits
  <2>5. V(r * W + q) = r + q * W  BY <2>4
  <2>6. r + q * W = x  BY <1>1, <2>1
  <2> HIDE DEF V
  <2> QED BY <1>1, <2>3, <2>4, <2>5, <2>6
<1> DEFINE v == V(c.reg[n])
           g == Tst68(Up(v, "l"), c.f)
           b == [c EXCEPT !.f = g]
           s == SetD(b, "l", n, v)
<1>3. v \in Long /\ v \in Int /\ V(v) = c.reg[n] /\ c.reg \in [Register -> Long]
  <2>1. c.reg[n] \in Long /\ c.reg \in [Register -> Long]  BY <1>1, Fields
  <2> HIDE DEF V
  <2> QED BY <1>2, <2>1, Longs
<1>4. Swap(c, n) = s  BY Zenon DEF Swap, W, V
<1> HIDE DEF v
<1>5. ASSUME NEW e \in CpuSet, NEW x \in Long
      PROVE  LET d == SetD(e, "l", n, x)
             IN  d \in CpuSet /\ d.reg[n] = x /\ \A r \in Register \ {n} : d.reg[r] = e.reg[r]
  <2> DEFINE d == SetD(e, "l", n, x)
  <2>1. x \in Int /\ x % Full("l") = x  BY <1>5, Longs, Processor
  <2>2. Replaced(d, e, "l", n, x)  BY <1>1, <2>1, SetDIs
  <2> HIDE DEF d
  <2>3. d \in CpuSet /\ d.reg[n] % Full("l") = x /\ \A r \in Register \ {n} : d.reg[r] = e.reg[r]
    BY <2>1, <2>2, Zenon DEF Replaced
  <2>4. d.reg[n] \in Long  BY <1>1, <2>3, Fields
  <2>5. d.reg[n] = x  BY <2>3, <2>4, Processor
  <2> QED BY <2>3, <2>5 DEF d
<1>6. b \in CpuSet /\ b.reg = c.reg
  <2>1. g \in Flags  BY Fields, TstFlags
  <2> HIDE DEF g
  <2>2. b \in CpuSet  BY <2>1, Keeps, Zenon
  <2> QED BY <2>1, <2>2 DEF CpuSet
<1> HIDE DEF b
<1>7. s \in CpuSet /\ s.reg[n] = v /\ \A r \in Register \ {n} : s.reg[r] = b.reg[r]
  BY <1>3, <1>5, <1>6, Zenon
<1> HIDE DEF s
<1> DEFINE v2 == V(s.reg[n])
           g2 == Tst68(Up(v2, "l"), s.f)
           b2 == [s EXCEPT !.f = g2]
           s2 == SetD(b2, "l", n, v2)
<1>8. Swap(s, n) = s2  BY Zenon DEF Swap, W, V
<1>9. v2 = c.reg[n] /\ v2 \in Long
  <2> HIDE DEF V
  <2>1. c.reg[n] \in Long  BY <1>1, Fields
  <2> QED BY <1>3, <1>7, <2>1
<1> HIDE DEF v2
<1>10. b2 \in CpuSet /\ b2.reg = s.reg
  <2>1. g2 \in Flags  BY <1>7, Fields, TstFlags
  <2> HIDE DEF g2
  <2>2. b2 \in CpuSet  BY <1>7, <2>1, Keeps, Zenon
  <2> QED BY <1>7, <2>1, <2>2 DEF CpuSet
<1> HIDE DEF b2
<1>11. s2 \in CpuSet /\ s2.reg[n] = v2 /\ \A r \in Register \ {n} : s2.reg[r] = b2.reg[r]
  BY <1>5, <1>9, <1>10, Zenon
<1> HIDE DEF s2
<1>12. \A r \in Register : s2.reg[r] = c.reg[r]
  <2>1. s2.reg[n] = c.reg[n]  BY <1>9, <1>11
  <2>2. ASSUME NEW r \in Register, r # n PROVE s2.reg[r] = c.reg[r]
    BY <1>6, <1>7, <1>10, <1>11, <2>2
  <2> QED BY <2>1, <2>2
<1>13. s2.reg \in [Register -> Long]  BY <1>11, Fields
<1>14. s2.reg = c.reg  BY <1>3, <1>12, <1>13, SameRegisters
<1> QED BY <1>4, <1>8, <1>14

(* MOVEM: one register stored below the others, and one loaded.            *)
LEMMA StoreStep ==
  ASSUME NEW list \in SUBSET Register, NEW r \in Register, NEW p \in Stage
  PROVE  LET q == DownNext("l", list, r, p)
         IN  /\ q \in Stage /\ q.c.reg = p.c.reg /\ q.at \in {p.at, p.at - 4}
             /\ r \notin list => q = p
             /\ r \in list => /\ q.at = p.at - 4 /\ Read(q.c, "l", q.at) = p.c.reg[r]
                              /\ \A a \in Int : a - q.at \in 4..(MEM - 4) =>
                                   Read(q.c, "l", a) = Read(p.c, "l", a)
<1> DEFINE q == DownNext("l", list, r, p)
           b == p.at - 4
           v == p.c.reg[r]
           e == Write(p.c, "l", b, v)
<1>1. "l" \in Size /\ p.c \in CpuSet /\ p.at \in Int /\ Bytes["l"] = 4
  BY Sizes DEF Stage, Bytes
<1>2. q \in Stage  BY <1>1, Stages
<1>3. CASE r \notin list
  <2>1. q = p  BY <1>3, Zenon DEF DownNext
  <2> QED BY <1>2, <1>3, <2>1
<1>4. CASE r \in list
  <2>1. q = [c |-> e, at |-> b]
    <3>1. q = [c |-> Write(p.c, "l", p.at - Bytes["l"], p.c.reg[r]), at |-> p.at - Bytes["l"]]
      BY <1>4, Zenon DEF DownNext
    <3> QED BY <1>1, <3>1
  <2>2. b \in Int /\ v \in Int /\ v % Full("l") = v
    <3>1. v \in Long  BY <1>1, Fields
    <3>2. b \in Int  BY <1>1
    <3> HIDE DEF b, v
    <3> QED BY <3>1, <3>2, Longs, Processor
  <2> HIDE DEF b, v
  <2>3. Written(e, p.c, "l", b % MEM, v)  BY <1>1, <2>2, WriteIs
  <2>4. e.reg = p.c.reg  BY <2>3, Zenon DEF Written
  <2> HIDE DEF e
  <2>5. Read(e, "l", b) = v  BY <1>1, <2>2, <2>3, ReadBack
  <2>6. \A a \in Int : a - b \in 4..(MEM - 4) => Read(e, "l", a) = Read(p.c, "l", a)
    BY <2>2, <2>3, ReadApart
  <2>7. q.c = e /\ q.at = b  BY <2>1
  <2> HIDE DEF q
  <2>8. b = p.at - 4  BY DEF b
  <2> QED BY <1>2, <1>4, <2>4, <2>5, <2>6, <2>7, <2>8 DEF q, v
<1> QED BY <1>3, <1>4

OneLoaded(q, p, list, r) ==
  /\ q \in Stage /\ q.c.mem = p.c.mem
  /\ \A x \in Register \ {r} : q.c.reg[x] = p.c.reg[x]
  /\ r \notin list => q = p
  /\ r \in list => q.at = p.at + 4 /\ q.c.reg[r] = Read(p.c, "l", p.at)

LEMMA LoadStep ==
  ASSUME NEW list \in SUBSET Register, NEW r \in Register, NEW p \in Stage
  PROVE  OneLoaded(LoadNext("l", list, r, p), p, list, r)
<1> DEFINE q == LoadNext("l", list, r, p)
           v == Read(p.c, "l", p.at)
           e == [p.c EXCEPT !.reg[r] = v]
<1>1. "l" \in Size /\ p.c \in CpuSet /\ p.at \in Int /\ Bytes["l"] = 4
  BY Sizes DEF Stage, Bytes
<1>2. q \in Stage  BY <1>1, Stages
<1> SUFFICES OneLoaded(q, p, list, r)  OBVIOUS
<1>3. CASE r \notin list
  <2>1. q = p  BY <1>3, Zenon DEF LoadNext
  <2> HIDE DEF q
  <2> QED BY <1>2, <1>3, <2>1 DEF OneLoaded
<1>4. CASE r \in list
  <2>1. q = [c |-> e, at |-> p.at + Bytes["l"]]  BY <1>4, Zenon DEF LoadNext
  <2>2. q.c = e /\ q.at = p.at + 4  BY <1>1, <2>1
  <2> HIDE DEF v
  <2>3. e.mem = p.c.mem /\ e.reg[r] = v /\ \A x \in Register \ {r} : e.reg[x] = p.c.reg[x]
    BY <1>1 DEF CpuSet
  <2> HIDE DEF e, q
  <2> QED BY <1>2, <1>4, <2>2, <2>3 DEF OneLoaded, q, v
<1> QED BY <1>3, <1>4

Stores(t, e, list) ==
  /\ t \in [0..Len(Order) -> Stage] /\ t[0] = e
  /\ \A i \in 1..Len(Order) : t[i] = DownNext("l", list, Order[Len(Order) + 1 - i], t[i - 1])
Loads(t, e, list) ==
  /\ t \in [0..Len(Order) -> Stage] /\ t[0] = e
  /\ \A i \in 1..Len(Order) : t[i] = LoadNext("l", list, Order[i], t[i - 1])

(* A register once stored stays in memory while the others are: the room   *)
(* they all take is less than the memory.                                  *)
LEMMA StaysStored ==
  ASSUME NEW list \in SUBSET Register, NEW e \in Stage, NEW t, Stores(t, e, list),
         NEW k \in 1..Len(Order), Order[Len(Order) + 1 - k] \in list
  PROVE  /\ Read(t[Len(Order)].c, "l", t[k].at) = t[k - 1].c.reg[Order[Len(Order) + 1 - k]]
         /\ t[k].at = t[k - 1].at - 4
<1> DEFINE N == Len(Order)
           r == Order[N + 1 - k]
           v == t[k - 1].c.reg[r]
           P(i) == /\ t[k].at - 4 * (i - k) <= t[i].at /\ t[i].at <= t[k].at
                   /\ Read(t[i].c, "l", t[k].at) = v
           T == {n \in Nat : k + n <= N => P(k + n)}
<1>1. N \in Nat /\ k \in 1..N /\ (\A i \in 1..N : Order[N + 1 - i] \in Register) /\ 4 * N <= MEM
      /\ MEM \in Nat
  BY Ordered, Processor, CpuAssumption
<1>2. t \in [0..N -> Stage]
      /\ \A i \in 1..N : t[i] = DownNext("l", list, Order[N + 1 - i], t[i - 1])
  BY Zenon DEF Stores
<1>3. \A i \in 0..N : t[i] \in Stage /\ t[i].at \in Int
  <2>1. \A p \in Stage : p.at \in Int  BY DEF Stage
  <2> HIDE DEF Stage
  <2> QED BY <1>2, <2>1
<1>4. t[k].at = t[k - 1].at - 4 /\ Read(t[k].c, "l", t[k].at) = v
  <2>1. t[k] = DownNext("l", list, r, t[k - 1]) /\ r \in list /\ r \in Register
    BY <1>1, <1>2
  <2>2. t[k - 1] \in Stage  BY <1>1, <1>3
  <2> HIDE DEF r
  <2> QED BY <2>1, <2>2, StoreStep DEF r
<1> HIDE DEF v
<1>5. 0 \in T
  <2>1. k + 0 = k /\ 4 * (k - k) = 0 /\ t[k].at \in Int  BY <1>1, <1>3
  <2> QED BY <1>4, <2>1
<1>6. ASSUME NEW n \in T, n < N - k PROVE n + 1 \in T
  <2> DEFINE i == k + n
             r1 == Order[N + 1 - (i + 1)]
  <2>1. n \in Nat /\ i \in 1..N /\ i + 1 \in 1..N /\ (i + 1) - 1 = i /\ i \in 0..N /\ i + 1 \in 0..N
        /\ k + (n + 1) = i + 1 /\ k \in 0..N /\ i <= N
    <3>1. n \in Nat  BY <1>6
    <3>2. N \in Nat /\ k \in 1..N /\ n < N - k  BY <1>1, <1>6
    <3> HIDE DEF N, T, P
    <3>3. i \in Nat /\ 1 <= i /\ i + 1 <= N /\ k + (n + 1) = i + 1  BY <3>1, <3>2
    <3> HIDE DEF i
    <3> QED BY <3>1, <3>2, <3>3
  <2>2. P(i)  BY <1>6, <2>1
  <2>3. t[i + 1] = DownNext("l", list, r1, t[i]) /\ r1 \in Register
    BY <1>1, <1>2, <2>1
  <2> HIDE DEF i, r1, T
  <2> DEFINE p == t[i]
             q == t[i + 1]
             a == t[k].at
  <2>4. p \in Stage /\ p.at \in Int /\ a \in Int /\ q = DownNext("l", list, r1, p)
    BY <1>3, <2>1, <2>3
  <2>5. a - 4 * (i - k) <= p.at /\ p.at <= a /\ Read(p.c, "l", a) = v  BY <2>2
  <2> HIDE DEF p, q, a
  <2>6. /\ q.at \in {p.at, p.at - 4}
        /\ r1 \notin list => q = p
        /\ r1 \in list => /\ q.at = p.at - 4
                          /\ \A x \in Int : x - q.at \in 4..(MEM - 4) =>
                               Read(q.c, "l", x) = Read(p.c, "l", x)
    BY <2>3, <2>4, StoreStep
  <2>7. a - 4 * ((i + 1) - k) <= q.at /\ q.at <= a
    <3>1. 4 * ((i + 1) - k) = 4 * (i - k) + 4 /\ 4 * (i - k) \in Int  BY <2>1
    <3>2. q.at \in Int /\ p.at - 4 <= q.at /\ q.at <= p.at  BY <2>4, <2>6
    <3> QED BY <2>4, <2>5, <3>1, <3>2
  <2>8. Read(q.c, "l", a) = v
    <3>1. CASE r1 \notin list  BY <2>5, <2>6, <3>1
    <3>2. CASE r1 \in list
      <4>1. q.at = p.at - 4  BY <2>6, <3>2
      <4>2. a - q.at \in 4..(MEM - 4)
        <5>1. (i + 1) - k <= N - 1 /\ i \in Nat  BY <1>1, <2>1
        <5> DEFINE h == 4 * ((i + 1) - k)
        <5>2. h \in Int /\ h <= MEM - 4  BY <1>1, <2>1, <5>1
        <5>3. a - h <= q.at  BY <2>7
        <5> HIDE DEF h
        <5>4. a \in Int /\ p.at \in Int /\ MEM \in Int /\ p.at <= a  BY <1>1, <2>4, <2>5
        <5>5. a - q.at >= 4 /\ a - q.at <= h /\ a - q.at \in Int  BY <4>1, <5>2, <5>3, <5>4
        <5> QED BY <5>2, <5>4, <5>5
      <4> QED BY <2>4, <2>5, <2>6, <3>2, <4>2
    <3> QED BY <3>1, <3>2
  <2>9. P(i + 1)  BY <2>7, <2>8 DEF p, q, a
  <2> QED BY <2>1, <2>9 DEF T
<1>7. N - k \in 0..(N - k) /\ N - k \in Nat /\ k + (N - k) = N  BY <1>1
<1>8. \A n \in 0..(N - k) : n \in T
  <2>1. T \in SUBSET Nat  OBVIOUS
  <2> HIDE DEF T
  <2> QED BY <1>5, <1>6, <1>7, <2>1, UpTo
<1>9. P(N)
  <2>1. N - k \in T  BY <1>7, <1>8
  <2> QED BY <1>7, <2>1
<1> QED BY <1>4, <1>9 DEF v

(* Storing changes no register.                                            *)
LEMMA StoresOnly ==
  ASSUME NEW list \in SUBSET Register, NEW e \in Stage, NEW t, Stores(t, e, list)
  PROVE  \A i \in 0..Len(Order) : t[i] \in Stage /\ t[i].at \in Int /\ t[i].c.reg = e.c.reg
<1> DEFINE N == Len(Order)
           T == {n \in Nat : n <= N => t[n].c.reg = e.c.reg}
<1>1. N \in Nat /\ (\A i \in 1..N : Order[N + 1 - i] \in Register)  BY Ordered
<1>2. t \in [0..N -> Stage] /\ t[0] = e
      /\ \A i \in 1..N : t[i] = DownNext("l", list, Order[N + 1 - i], t[i - 1])
  BY Zenon DEF Stores
<1>3. \A i \in 0..N : t[i] \in Stage /\ t[i].at \in Int
  <2>1. \A p \in Stage : p.at \in Int  BY DEF Stage
  <2> HIDE DEF Stage
  <2> QED BY <1>2, <2>1
<1>4. 0 \in T  BY <1>2
<1>5. ASSUME NEW n \in T, n < N PROVE n + 1 \in T
  <2>1. n \in 0..N /\ n + 1 \in 1..N /\ (n + 1) - 1 = n  BY <1>1, <1>5
  <2>2. t[n].c.reg = e.c.reg  BY <1>5
  <2>3. t[n + 1] = DownNext("l", list, Order[N + 1 - (n + 1)], t[n])
        /\ Order[N + 1 - (n + 1)] \in Register
    BY <1>1, <1>2, <2>1
  <2>4. t[n] \in Stage  BY <1>3, <2>1
  <2>5. t[n + 1].c.reg = t[n].c.reg  BY <2>3, <2>4, StoreStep
  <2> QED BY <2>2, <2>5
<1>6. \A n \in 0..N : n \in T
  <2>1. T \in SUBSET Nat  OBVIOUS
  <2> HIDE DEF T
  <2> QED BY <1>1, <1>4, <1>5, <2>1, UpTo
<1> QED BY <1>3, <1>6

(* Two addresses that move up together keep their distance.                *)
LEMMA GapKept ==
  ASSUME NEW a \in Int, NEW b \in Int, NEW s \in Int, NEW z \in Int, a - s = b - z
  PROVE  (a + 4) - s = (b + 4) - z
OBVIOUS

(* Loading goes through the addresses of storing backwards, wherever in    *)
(* the range of a long it begins, and gives what was stored.               *)
LEMMA LoadsStored ==
  ASSUME NEW list \in SUBSET Register, NEW e \in Stage, NEW t, Stores(t, e, list),
         NEW g \in Stage, NEW u, Loads(u, g, list),
         g.c.mem = t[Len(Order)].c.mem,
         g.at = t[Len(Order)].at % Full("l")
  PROVE  /\ u[Len(Order)].at - g.at = e.at - t[Len(Order)].at
         /\ u[Len(Order)] \in Stage /\ u[Len(Order)].at \in Int
         /\ \A x \in list : u[Len(Order)].c.reg[x] = e.c.reg[x]
         /\ \A x \in Register \ list : u[Len(Order)].c.reg[x] = g.c.reg[x]
<1> DEFINE N == Len(Order)
           S == g.at
           Z == t[N].at
           P(i) == /\ u[i].c.mem = g.c.mem
                   /\ u[i].at - S = t[N - i].at - Z
                   /\ \A j \in 1..i : Order[j] \in list => u[i].c.reg[Order[j]] = e.c.reg[Order[j]]
                   /\ \A x \in Register \ list : u[i].c.reg[x] = g.c.reg[x]
           T == {n \in Nat : n <= N => P(n)}
<1>1. N \in Nat /\ (\A i \in 1..N : Order[i] \in Register)  BY Ordered
<1>2. u \in [0..N -> Stage] /\ u[0] = g
      /\ \A i \in 1..N : u[i] = LoadNext("l", list, Order[i], u[i - 1])
  BY Zenon DEF Loads
<1>3. \A i \in 0..N : u[i] \in Stage /\ u[i].at \in Int
  <2>1. \A p \in Stage : p.at \in Int  BY DEF Stage
  <2> HIDE DEF Stage
  <2> QED BY <1>2, <2>1
<1>4. (\A i \in 0..N : t[i] \in Stage /\ t[i].at \in Int /\ t[i].c.reg = e.c.reg) /\ t[0] = e
  <2>1. t[0] = e  BY Zenon DEF Stores
  <2> QED BY <2>1, StoresOnly
<1>5. 0 \in 0..N /\ N \in 0..N /\ N - 0 = N /\ N - N = 0  BY <1>1
<1>6. Z \in Int /\ S \in Int /\ S = Z % Full("l") /\ (Z % Full("l")) % MEM = Z % MEM
  <2>1. Z \in Int  BY <1>4, <1>5
  <2>2. S \in Int  BY <1>2, <1>3, <1>5
  <2> HIDE DEF Z, S
  <2>3. (Z % Full("l")) % MEM = Z % MEM  BY <2>1, Address
  <2> QED BY <2>1, <2>2, <2>3 DEF Z, S
<1> HIDE DEF Z, S
<1>7. 0 \in T
  <2>1. u[0] = g /\ t[N - 0].at = Z /\ u[0].at = S  BY <1>2, <1>5 DEF Z, S
  <2>2. u[0].at - S = t[N - 0].at - Z  BY <1>6, <2>1
  <2> QED BY <2>1, <2>2
<1>8. ASSUME NEW n \in T, n < N PROVE n + 1 \in T
  <2> DEFINE i == n + 1
             k == N - n
             r == Order[i]
             p == u[n]
             q == u[i]
  <2>1. /\ n \in 0..N /\ i \in 1..N /\ i - 1 = n /\ k \in 1..N /\ k - 1 = N - i /\ N + 1 - k = i
        /\ k \in 0..N /\ N - i \in 0..N
    BY <1>1, <1>8
  <2>2. P(n)  BY <1>8, <2>1
  <2>3. q = LoadNext("l", list, r, p) /\ r \in Register /\ p \in Stage /\ p.at \in Int
    BY <1>1, <1>2, <1>3, <2>1
  <2> HIDE DEF T, i, k
  <2>4. p.c.mem = g.c.mem /\ p.at - S = t[k].at - Z  BY <2>2 DEF k
  <2>5. /\ \A j \in 1..n : Order[j] \in list => p.c.reg[Order[j]] = e.c.reg[Order[j]]
        /\ \A x \in Register \ list : p.c.reg[x] = g.c.reg[x]
    BY <2>2
  <2>6. t[k].at \in Int /\ t[k - 1].at \in Int /\ t[k - 1].c.reg = e.c.reg
    BY <1>4, <2>1
  <2> HIDE DEF p, q, r
  <2>7. /\ q.c.mem = p.c.mem
        /\ \A x \in Register \ {r} : q.c.reg[x] = p.c.reg[x]
        /\ r \notin list => q = p
        /\ r \in list => q.at = p.at + 4 /\ q.c.reg[r] = Read(p.c, "l", p.at)
    <3>1. OneLoaded(LoadNext("l", list, r, p), p, list, r)  BY <2>3, LoadStep
    <3>2. OneLoaded(q, p, list, r)  BY <2>3, <3>1
    <3> QED BY <3>2, Zenon DEF OneLoaded
  <2>8. r = Order[N + 1 - k]  BY <2>1 DEF r
  <2>9. CASE r \notin list
    <3>1. t[k] = t[k - 1]
      <4>1. t[k] = DownNext("l", list, Order[N + 1 - k], t[k - 1])
        BY <2>1, Zenon DEF Stores
      <4> QED BY <2>8, <2>9, <4>1, Zenon DEF DownNext
    <3>2. q = p  BY <2>7, <2>9
    <3>3. q.at - S = t[N - i].at - Z  BY <2>1, <2>4, <3>1, <3>2
    <3>4. \A j \in 1..i : Order[j] \in list => q.c.reg[Order[j]] = e.c.reg[Order[j]]
      <4>1. \A j \in 1..i : j \in 1..n \/ j = i  BY <2>1
      <4> QED BY <2>5, <2>9, <3>2, <4>1 DEF r
    <3>5. P(i)  BY <2>4, <2>5, <3>2, <3>3, <3>4 DEF q
    <3> QED BY <2>1, <3>5 DEF T, i
  <2>10. CASE r \in list
    <3>1. Read(t[N].c, "l", t[k].at) = t[k - 1].c.reg[r] /\ t[k].at = t[k - 1].at - 4
      BY <2>1, <2>8, <2>10, StaysStored
    <3>2. p.at % MEM = t[k].at % MEM
      <4> DEFINE a == t[k].at
                 d == a - Z
      <4>1. MEM \in Nat \ {0} /\ a \in Int /\ d \in Int /\ p.at = S + d /\ a = Z + d
        <5>1. MEM \in Nat \ {0} /\ a \in Int  BY <2>6, Processor
        <5>2. p.at - S = a - Z  BY <2>4
        <5> HIDE DEF a
        <5> QED BY <1>6, <2>3, <5>1, <5>2
      <4> HIDE DEF a, d
      <4>2. (S + d) % MEM = (Z + d) % MEM
        <5>1. ((S % MEM) + d) % MEM = (S + d) % MEM  BY <1>6, <4>1, ModPlus
        <5>2. ((Z % MEM) + d) % MEM = (Z + d) % MEM  BY <1>6, <4>1, ModPlus
        <5>3. S % MEM = Z % MEM  BY <1>6
        <5> QED BY <5>1, <5>2, <5>3
      <4>3. p.at % MEM = a % MEM  BY <4>1, <4>2
      <4> QED BY <4>3 DEF a
    <3>3. Read(p.c, "l", p.at) = Read(t[N].c, "l", t[k].at)
      <4>1. p.c.mem = t[N].c.mem  BY <2>4
      <4>2. SameBytes(p.c, t[N].c, p.at, t[k].at)  BY <3>2, <4>1, Zenon DEF SameBytes
      <4>3. "l" \in Size  BY Sizes
      <4> QED BY <4>2, <4>3, ReadAgain
    <3>4. q.at = p.at + 4 /\ q.c.reg[r] = e.c.reg[r]  BY <2>6, <2>7, <2>10, <3>1, <3>3
    <3>5. q.at - S = t[N - i].at - Z
      <4>1. t[N - i].at = t[k].at + 4
        <5> DEFINE x == t[k].at
                   y == t[k - 1].at
        <5>1. x \in Int /\ y \in Int /\ x = y - 4  BY <2>6, <3>1
        <5>2. t[N - i].at = y  BY <2>1, Zenon
        <5> HIDE DEF x, y
        <5>3. y = x + 4  BY <5>1
        <5> QED BY <5>2, <5>3, Zenon DEF x
      <4> DEFINE a == p.at
                 b == t[k].at
      <4>2. a \in Int /\ b \in Int /\ S \in Int /\ Z \in Int /\ a - S = b - Z
        BY <1>6, <2>3, <2>4, <2>6
      <4>3. q.at = a + 4 /\ t[N - i].at = b + 4  BY <3>4, <4>1
      <4> HIDE DEF a, b, P
      <4>4. (a + 4) - S = (b + 4) - Z  BY <4>2, GapKept
      <4> QED BY <4>3, <4>4
    <3>6. \A j \in 1..i : Order[j] \in list => q.c.reg[Order[j]] = e.c.reg[Order[j]]
      <4>1. \A j \in 1..i : j \in 1..n \/ j = i  BY <2>1
      <4>2. ASSUME NEW j \in 1..n, Order[j] \in list, Order[j] # r
            PROVE  q.c.reg[Order[j]] = e.c.reg[Order[j]]
        <5>1. Order[j] \in Register \ {r}  BY <4>2
        <5> QED BY <2>5, <2>7, <4>2, <5>1
      <4>3. Order[i] = r  BY DEF r
      <4> QED BY <3>4, <4>1, <4>2, <4>3
    <3>7. \A x \in Register \ list : q.c.reg[x] = g.c.reg[x]  BY <2>5, <2>7, <2>10
    <3>8. P(i)  BY <2>4, <2>7, <3>5, <3>6, <3>7 DEF q
    <3> QED BY <2>1, <3>8 DEF T, i
  <2> QED BY <2>9, <2>10
<1>9. \A n \in 0..N : n \in T
  <2>1. T \in SUBSET Nat  OBVIOUS
  <2> HIDE DEF T
  <2> QED BY <1>1, <1>7, <1>8, <2>1, UpTo
<1>10. P(N)  BY <1>5, <1>9
<1>11. u[N].at - S = e.at - Z  BY <1>4, <1>5, <1>10
<1>12. \A x \in list : u[N].c.reg[x] = e.c.reg[x]
  <2>1. \A x \in list : \E j \in 1..N : Order[j] = x
    <3>1. list \subseteq ToSet(Order)  BY CpuAssumption
    <3>2. ToSet(Order) = {Order[j] : j \in 1..N}
      <4>1. DOMAIN Order = 1..N  BY CpuAssumption
      <4> QED BY <4>1 DEF ToSet
    <3> QED BY <3>1, <3>2
  <2> QED BY <1>10, <2>1
<1> QED BY <1>3, <1>5, <1>10, <1>11, <1>12 DEF S, Z

(* MOVEM of longs to the stack and back.                                   *)
LEMMA MovemRestores ==
  ASSUME NEW c \in CpuSet, NEW list \in SUBSET (Register \ {SP})
  PROVE  LET saved == Cleared(MovemToMem(c, "l", list, StackAs("dec")), list)
         IN  MovemToReg(saved, "l", list, StackAs("inc")).reg = c.reg
<1> DEFINE N == Len(Order)
           L == Full("l")
           A == c.reg[SP]
           o == StackAs("inc")
           e == Ea(c, "l", o)
           c4 == SetA(c, SP, A + 4)
           down == StoreDown("l", e, list)
           that == SetA(down.c, SP, down.at)
           saved == Cleared(that, list)
           S == saved.reg[SP]
           s4 == SetA(saved, SP, S + 4)
           g == Ea(saved, "l", o)
           up == LoadEach("l", g, list)
           back == SetA(up.c, SP, up.at)
<1>1. SP \in Register /\ list \in SUBSET Register /\ SP \notin list /\ A \in Long /\ A \in Int
      /\ A + 4 \in Int /\ c.reg \in [Register -> Long]
  <2>1. SP \in Register /\ A \in Long /\ A \in Int /\ c.reg \in [Register -> Long]
    BY Fields, Kinds
  <2> HIDE DEF A
  <2> QED BY <2>1
<1>2. /\ o.m = "inc" /\ o.r = SP /\ StackAs("dec").m = "dec" /\ StackAs("dec").r = SP
      /\ [StackAs("dec") EXCEPT !.m = "inc"] = o
      /\ Stride68("l", SP) = 4
  BY DEF StackAs, Stride68, Bytes
<1>3. e = [c |-> c4, at |-> A] /\ g = [c |-> s4, at |-> S]  BY <1>2, Zenon DEF Ea
<1>4. MovemToMem(c, "l", list, StackAs("dec")) = that
  BY <1>2, Zenon DEF MovemToMem
<1>5. MovemToReg(saved, "l", list, o) = back  BY <1>2, Zenon DEF MovemToReg
<1> HIDE DEF o
<1>6. /\ c4 \in CpuSet /\ e \in Stage /\ e.c = c4 /\ e.at = A
      /\ \A r \in Register \ {SP} : c4.reg[r] = c.reg[r]
  <2>1. c4 \in CpuSet /\ \A r \in Register \ {SP} : c4.reg[r] = c.reg[r]  BY <1>1, SetASets DEF OnlySets
  <2> HIDE DEF c4, A, e
  <2> QED BY <1>1, <1>3, <2>1 DEF Stage
<1> HIDE DEF e, c4
<1>7. PICK t : Stores(t, e, list) /\ down = t[N]
  <2>1. "l" \in Size  BY Sizes
  <2>2. \E x \in [0..Len(Order) -> Stage] :
          /\ x[0] = e
          /\ \A i \in 1..Len(Order) : x[i] = DownNext("l", list, Order[Len(Order) + 1 - i], x[i - 1])
          /\ StoreDown("l", e, list) = x[Len(Order)]
    BY <1>1, <1>6, <2>1, StoreDownIs
  <2> QED BY <2>2, Zenon DEF Stores
<1> HIDE DEF down
<1>8. N \in 0..N
  BY Ordered
<1>9. down.c \in CpuSet /\ down.at \in Int /\ down.c.reg = c4.reg
  <2>1. t[N] \in Stage /\ t[N].at \in Int /\ t[N].c.reg = e.c.reg
    BY <1>1, <1>6, <1>7, <1>8, StoresOnly
  <2> QED BY <1>6, <1>7, <2>1 DEF Stage
<1>10. /\ that \in CpuSet /\ that.mem = down.c.mem /\ that.reg[SP] = down.at % L
       /\ \A r \in Register \ {SP} : that.reg[r] = c.reg[r]
  <2>1. /\ that \in CpuSet /\ that.mem = down.c.mem /\ that.reg[SP] = down.at % L
        /\ \A r \in Register \ {SP} : that.reg[r] = down.c.reg[r]
    <3> DEFINE dc == down.c
               da == down.at
    <3>1. dc \in CpuSet /\ da \in Int  BY <1>9
    <3> HIDE DEF dc, da
    <3>2. OnlySets(SetA(dc, SP, da), dc, SP, da)  BY <1>1, <3>1, SetASets
    <3>3. OnlySets(that, dc, SP, da)  BY <3>2 DEF dc, da
    <3> HIDE DEF that
    <3>4. /\ that \in CpuSet /\ that.mem = dc.mem /\ that.reg[SP] = da % L
          /\ \A r \in Register \ {SP} : that.reg[r] = dc.reg[r]
      BY <3>3, Zenon DEF OnlySets
    <3> QED BY <3>4 DEF dc, da
  <2> QED BY <1>6, <1>9, <2>1
<1> HIDE DEF that
<1>11. /\ saved \in CpuSet /\ saved.mem = down.c.mem /\ S = down.at % L
       /\ \A r \in Register \ (list \cup {SP}) : saved.reg[r] = c.reg[r]
  <2>1. 0 \in Long /\ that.reg \in [Register -> Long]  BY <1>10, Longs, Fields
  <2> DEFINE f == [r \in Register |-> IF r \in list THEN 0 ELSE that.reg[r]]
  <2>2. saved = [that EXCEPT !.reg = f]  BY DEF Cleared
  <2>3. f \in [Register -> Long]  BY <2>1
  <2>4. f[SP] = that.reg[SP] /\ \A r \in Register \ list : f[r] = that.reg[r]  BY <1>1
  <2> HIDE DEF f, saved
  <2>5. saved \in CpuSet /\ saved.mem = that.mem /\ saved.reg = f
    BY <1>10, <2>2, <2>3 DEF CpuSet
  <2> QED BY <1>10, <2>4, <2>5
<1> HIDE DEF saved
<1>12. S \in Int /\ S + 4 \in Int
  <2>1. S \in Int  BY <1>1, <1>11, Fields
  <2> HIDE DEF S
  <2> QED BY <2>1
<1>13. /\ g \in Stage /\ g.at = t[N].at % L /\ g.c.mem = t[N].c.mem
       /\ \A r \in Register \ (list \cup {SP}) : g.c.reg[r] = c.reg[r]
  <2>1. s4 \in CpuSet /\ s4.mem = saved.mem /\ \A r \in Register \ {SP} : s4.reg[r] = saved.reg[r]
    <3> DEFINE a4 == S + 4
    <3>1. a4 \in Int /\ saved \in CpuSet  BY <1>11, <1>12
    <3> HIDE DEF a4
    <3>2. OnlySets(SetA(saved, SP, a4), saved, SP, a4)  BY <1>1, <3>1, SetASets
    <3> QED BY <3>2 DEF OnlySets, a4
  <2> HIDE DEF s4, S, g
  <2>2. g \in Stage /\ g.c = s4 /\ g.at = S  BY <1>3, <1>12, <2>1 DEF Stage
  <2> QED BY <1>7, <1>11, <2>1, <2>2
<1> HIDE DEF g, S
<1>14. PICK u : Loads(u, g, list) /\ up = u[N]
  <2>1. "l" \in Size  BY Sizes
  <2>2. \E x \in [0..Len(Order) -> Stage] :
          /\ x[0] = g
          /\ \A i \in 1..Len(Order) : x[i] = LoadNext("l", list, Order[i], x[i - 1])
          /\ LoadEach("l", g, list) = x[Len(Order)]
    BY <1>1, <1>13, <2>1, LoadEachIs
  <2> QED BY <2>2, Zenon DEF Loads
<1> HIDE DEF up
<1>15. /\ up.at - g.at = e.at - t[N].at /\ up \in Stage /\ up.at \in Int
       /\ \A x \in list : up.c.reg[x] = e.c.reg[x]
       /\ \A x \in Register \ list : up.c.reg[x] = g.c.reg[x]
  BY <1>1, <1>6, <1>7, <1>13, <1>14, LoadsStored
<1>16. up.at % L = A
  <2> DEFINE Z == t[N].at
             d == A - Z
  <2>1. Z \in Int /\ d \in Int /\ Z + d = A /\ L \in Nat \ {0}
    <3>1. Z \in Int  BY <1>7, <1>9
    <3> HIDE DEF Z, A
    <3> QED BY <1>1, <3>1, Sizes
  <2>2. g.at = Z % L  BY <1>13
  <2>3. A % L = A  BY <1>1, Processor
  <2> HIDE DEF L
  <2>4. Z % L \in Int
    <3> HIDE DEF Z
    <3> QED BY <2>1, DivMod
  <2>5. up.at = (Z % L) + d
    <3> DEFINE h == Z % L
    <3>1. h \in Int /\ up.at - h = d  BY <1>6, <1>15, <2>2, <2>4
    <3> HIDE DEF h, d, Z
    <3>2. up.at = h + d  BY <1>15, <2>1, <3>1
    <3> QED BY <3>2 DEF h
  <2> HIDE DEF Z, d, A
  <2>6. ((Z % L) + d) % L = (Z + d) % L  BY <2>1, ModPlus
  <2> QED BY <2>1, <2>3, <2>5, <2>6
<1>17. /\ back.reg \in [Register -> Long] /\ back.reg[SP] = A
       /\ \A r \in Register \ {SP} : back.reg[r] = up.c.reg[r]
  <2>1. up.c \in CpuSet  BY <1>15 DEF Stage
  <2>2. OnlySets(back, up.c, SP, up.at)  BY <1>1, <1>15, <2>1, SetASets
  <2> HIDE DEF back
  <2> QED BY <1>16, <2>2 DEF OnlySets
<1> HIDE DEF back
<1>18. \A r \in Register : back.reg[r] = c.reg[r]
  <2>1. ASSUME NEW r \in list PROVE back.reg[r] = c.reg[r]
    <3>1. r \in Register \ {SP}  BY <1>1
    <3> QED BY <1>6, <1>15, <1>17, <2>1, <3>1
  <2>2. ASSUME NEW r \in Register \ (list \cup {SP}) PROVE back.reg[r] = c.reg[r]
    <3>1. r \in Register \ {SP} /\ r \in Register \ list  BY <2>2
    <3> QED BY <1>13, <1>15, <1>17, <2>2, <3>1
  <2> QED BY <1>17, <2>1, <2>2
<1>19. back.reg = c.reg  BY <1>1, <1>17, <1>18, SameRegisters
<1> QED BY <1>4, <1>5, <1>19, Zenon DEF saved, o

(* The stack and the exchanges, for every processor state there is and     *)
(* whatever the registers a list names: what lines/line4.c stores with     *)
(* MOVEM -(A7) it loads with MOVEM (A7)+, MOVE of any size to and from the *)
(* stack leaves A7 where it was (by two for a byte), UNLK undoes LINK, RTS *)
(* the push of BSR and JSR, and EXG and SWAP undo themselves; also with a  *)
(* stack that wraps around memory or around 32 bits.                       *)
THEOREM RegistersRestored == CpuSpec => []RestoresRegisters
<1>1. Sound68 => RestoresRegisters
  <2> SUFFICES ASSUME Sound68 PROVE RestoresRegisters  OBVIOUS
  <2>1. cpu \in CpuSet  BY DEF Sound68
  <2>2. \A r \in AReg \ {SP}, w \in Disp : Unlk(Link(cpu, r, w), r).reg = cpu.reg
    <3>1. Disp \subseteq Int  BY Widthed
    <3> QED BY <2>1, <3>1, LinkedUnlinked
  <2>3. \A a \in Abs : LET c == Returned(Call(cpu, a)) IN c.reg = cpu.reg /\ c.pc = cpu.pc
    <3>1. Abs \subseteq Long  BY Widthed
    <3> QED BY <2>1, <3>1, CalledReturned
  <2>4. \A x, y \in Register : Exg(Exg(cpu, x, y), x, y) = cpu  BY <2>1, Exchanged
  <2>5. \A n \in DReg : Swap(Swap(cpu, n), n).reg = cpu.reg  BY <2>1, Swapped
  <2>6. \A list \in SUBSET (Register \ {SP}) :
          LET saved == Cleared(MovemToMem(cpu, "l", list, StackAs("dec")), list)
          IN  MovemToReg(saved, "l", list, StackAs("inc")).reg = cpu.reg
    BY <2>1, MovemRestores
  <2>7. \A z \in Size, n \in DReg :
          LET e == Ea(cpu, z, StackAs("dec"))
              s == Source(Write(e.c, z, e.at, cpu.reg[n]), z, StackAs("inc"))
          IN  s.c.reg = cpu.reg /\ s.v = cpu.reg[n] % Full(z)
    BY <2>1, PushedPopped
  <2> QED BY <2>2, <2>3, <2>4, <2>5, <2>6, <2>7, Zenon DEF RestoresRegisters
<1> QED BY <1>1, Always68, PTL
=============================================================================
