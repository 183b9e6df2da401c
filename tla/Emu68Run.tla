------------------------------ MODULE Emu68Run ------------------------------
(* Running 68000 code: src/libsc68/emu68/emu68.c with exception68() of     *)
(* inst68.c, as the player of src/libsc68/src/api68.c drives it.  A track  *)
(* starts with a call of the TOS trap code, unless it is an Amiga one, and *)
(* one of its init code; then each pass calls the play code, and if that   *)
(* returns, runs the interrupts that fall in the pass.                     *)
(*                                                                         *)
(* An instruction is what it does to the run: the stack, the interrupt     *)
(* mask, the status.  The 68000 stack grows down; here it is a sequence,   *)
(* so "finish_sp >= a7" reads Len(stack) >= finish_sp.  The S and T bits   *)
(* of SR, the debug mode (chk) and the user handler are left out.          *)
EXTENDS Naturals, Sequences

CONSTANTS
  TrapMax, InitMax, PlayMax,    \* TRAP_, INIT_ and PLAY_MAX_INST
  CPP,                 \* cycleperpass
  PlayCode, IrqCode,   \* instructions of called code, of handlers
  MaxDepth,            \* bound on the stack
  MaxIrqs,             \* bound on the interrupts of a pass
  MaxPass              \* bound on the passes of a track

Instructions == {"op", "move_sr", "push", "drop", "rts", "rte", "trap", "stop", "reset"}

ASSUME RunAssumption ==
  /\ TrapMax \in Nat \ {0} /\ InitMax \in Nat \ {0}
  /\ PlayMax \in Nat \ {0} /\ CPP \in Nat \ {0}
  /\ PlayCode \subseteq Instructions /\ IrqCode \subseteq Instructions
  /\ MaxDepth \in Nat \ {0} /\ MaxIrqs \in Nat /\ MaxPass \in Nat

VARIABLES
  call,          \* what runs: "none", "trap", "init", "play", "irq"
  at,            \* "idle", in loop68() ("loop"), or back from it ("out")
  status, ipl, stack, finish_sp, instructions, cycle,    \* emu68_t
  chips,         \* cycles the chips were told of by adjust_cycle()
  passes,        \* calls of emu68_interrupt() completed since the reset
  given, ran,    \* interrupts the chip gave in this pass, handlers run
  floor,         \* stack depth when the interrupts of the pass began
  fault          \* "status" once an assertion on the status has failed

emu == <<status, ipl, stack, finish_sp, instructions, cycle>>
ghosts == <<chips, passes, given, ran, floor, fault>>
vars == <<call, at, emu, ghosts>>

Statuses == {"NRM", "STP", "HLT", "BRK"}
Play == 3                      \* SR $2300
Irq == 6                       \* level of the MFP timers
Ipl == {Play, Irq}
Word == 0                      \* an entry that is not a saved SR

Init ==
  /\ call = "none" /\ at = "idle"
  /\ status = "NRM" /\ ipl = Irq /\ stack = <<>> /\ finish_sp = 0
  /\ instructions = 0 /\ cycle = 0
  /\ chips = 0 /\ passes = 0 /\ given = 0 /\ ran = 0 /\ floor = 0
  /\ fault = "none"

-----------------------------------------------------------------------------
(* emu68_finish() passes on the cycles of the last pass, once.             *)
Adjust == chips' = chips + cycle /\ cycle' = 0

(* finish(): the code's address, SR $2300 and a fresh stack with a return  *)
(* address; emu68_finish() notes where that stack is.                      *)
Finish(c, max) ==
  /\ call' = c /\ at' = "loop"
  /\ ipl' = Play /\ stack' = <<Word>>
  /\ finish_sp' = 1 /\ instructions' = max
  /\ Adjust
  /\ status' = "NRM"
  /\ UNCHANGED <<given, ran, floor, fault>>

(* change_track(): emu68_reset() forgets the cycles of the last track and  *)
(* resets the chips with it; then the first code runs.                     *)
StartTrack(c, max) ==
  /\ at = "idle"
  /\ call' = c /\ at' = "loop"
  /\ ipl' = Play /\ stack' = <<Word>> /\ finish_sp' = 1
  /\ instructions' = max /\ cycle' = 0 /\ status' = "NRM"
  /\ chips' = 0 /\ passes' = 0 /\ given' = 0 /\ ran' = 0
  /\ UNCHANGED <<floor, fault>>

StartAtari == StartTrack("trap", TrapMax)
StartAmiga == StartTrack("init", InitMax)

PlayPass ==
  /\ at = "idle" /\ call \in {"init", "play", "irq"} /\ passes < MaxPass
  /\ Finish("play", PlayMax) /\ UNCHANGED passes

-----------------------------------------------------------------------------
Code == IF call = "irq" THEN IrqCode ELSE PlayCode
Pop(s) == SubSeq(s, 1, Len(s) - 1)
Top(s) == s[Len(s)]

(* The countdown of controlled_step68(): 0 is no limit, and the last       *)
(* instruction breaks the run unless it has changed the status itself.     *)
CountDownBug(n) == n - 1
CountDown(n) == IF n = 0 THEN 0 ELSE n - 1
CountedBug(n, r) == r
Counted(n, r) == IF n = 1 /\ r = "NRM" THEN "BRK" ELSE r

(* loop68() goes on while all is normal and the stack has not been popped  *)
(* below where the run began.                                              *)
GoesOn(r, s) == r = "NRM" /\ finish_sp <= Len(s)

(* One instruction, step68() and the end of controlled_step68(): it leaves *)
(* the stack s, the mask m and the status r.                               *)
Execute(i, s, m, r) ==
  /\ at = "loop" /\ i \in Code /\ Len(s) <= MaxDepth
  /\ stack' = s /\ ipl' = m
  /\ instructions' = CountDown(instructions)
  /\ status' = Counted(instructions, r)
  /\ at' = IF GoesOn(status', s) THEN "loop" ELSE "out"
  /\ UNCHANGED <<call, finish_sp, cycle, ghosts>>

Op     == Execute("op", stack, ipl, status)
MoveSR == \E m \in Ipl : Execute("move_sr", stack, m, status)
Push   == Execute("push", Append(stack, Word), ipl, status)
Drop   == stack # <<>> /\ Execute("drop", Pop(stack), ipl, status)
Rts    == /\ stack # <<>> /\ Top(stack) = Word
          /\ Execute("rts", Pop(stack), ipl, status)
Rte    == /\ stack # <<>> /\ Top(stack) # Word
          /\ Execute("rte", Pop(stack), Top(stack), status)
Stop   == \E m \in Ipl : Execute("stop", stack, m, "STP")
Reset  == Execute("reset", stack, ipl, "HLT")

(* exception68(): the frame holds SR as it was, and an interrupt raises    *)
(* the mask to its level.                                                  *)
Frame == Append(stack, ipl)
MaskedBug(level) == ipl
Masked(level) == level
Trap   == Execute("trap", Frame, ipl, status)

Instruction == Op \/ MoveSR \/ Push \/ Drop \/ Rts \/ Rte \/ Stop \/ Reset \/ Trap

-----------------------------------------------------------------------------
Returns(c) == at = "out" /\ call = c

(* finish() calls emu68_finish(EMU68_CONT) as long as it was a STOP that   *)
(* ended the run; the countdown goes on from where it is.                  *)
Continue ==
  /\ at = "out" /\ call # "irq" /\ status = "STP"
  /\ at' = "loop" /\ status' = "NRM" /\ UNCHANGED instructions
  /\ Adjust
  /\ UNCHANGED <<call, ipl, stack, finish_sp, passes, given, ran, floor, fault>>

(* The trap code is followed by the init code.                             *)
TrapReturns ==
  /\ Returns("trap") /\ status = "NRM"
  /\ Finish("init", InitMax) /\ UNCHANGED passes

InitReturns ==
  /\ Returns("init") /\ status = "NRM"
  /\ at' = "idle" /\ UNCHANGED <<call, emu, ghosts>>

(* If one does not return normally there is no track to play.              *)
StartFails ==
  /\ at = "out" /\ call \in {"trap", "init"} /\ status \in {"HLT", "BRK"}
  /\ at' = "idle" /\ call' = "none" /\ UNCHANGED <<emu, ghosts>>

(* Play code that does not is an error of sc68_process(); the client may   *)
(* call it again.                                                          *)
PlayFails ==
  /\ Returns("play") /\ status \in {"HLT", "BRK"}
  /\ at' = "idle" /\ UNCHANGED <<call, emu, ghosts>>

(* Otherwise the player restores SR and calls emu68_interrupt().           *)
PlaySRBug(mask) == mask
PlaySR(mask) == Play
PlayReturns ==
  /\ Returns("play") /\ status = "NRM"
  /\ call' = "irq" /\ ipl' = PlaySR(ipl) /\ status' = "NRM"
  /\ given' = 0 /\ ran' = 0 /\ floor' = Len(stack)
  /\ UNCHANGED <<at, stack, finish_sp, instructions, cycle, chips, passes, fault>>

(* An interrupt of the chip at time t of the pass.  It is dropped if the   *)
(* mask is not below its level; otherwise its handler runs, a break of the *)
(* last one being forgotten, but not a STOP.                               *)
Resumed(r) == IF r = "BRK" THEN "NRM" ELSE r
Interrupt(t) ==
  /\ Returns("irq") /\ given < MaxIrqs
  /\ t >= cycle
  /\ cycle' = t /\ given' = given + 1
  /\ IF Irq > ipl
       THEN /\ Len(stack) < MaxDepth
            /\ stack' = Frame /\ ipl' = Masked(Irq)
            /\ status' = Resumed(status)
            /\ finish_sp' = Len(stack')
            /\ fault' = IF status' = "NRM" THEN fault ELSE "status"
            /\ ran' = ran + 1 /\ at' = "loop"
       ELSE UNCHANGED <<stack, ipl, status, finish_sp, fault, ran, at>>
  /\ UNCHANGED <<call, instructions, chips, passes, floor>>

(* No interrupt is left before the end of the pass.                        *)
PassCycleBug(c) == c
PassCycle(c) == CPP
EndOfPass ==
  /\ Returns("irq")
  /\ at' = "idle" /\ cycle' = PassCycle(cycle) /\ passes' = passes + 1
  /\ UNCHANGED <<call, status, ipl, stack, finish_sp, instructions,
                 chips, given, ran, floor, fault>>

Return == \/ Continue \/ TrapReturns \/ InitReturns \/ StartFails \/ PlayFails \/ PlayReturns
          \/ EndOfPass \/ \E t \in 0..(CPP - 1) : Interrupt(t)

Next == StartAtari \/ StartAmiga \/ PlayPass \/ Instruction \/ Return

Spec == Init /\ [][Next]_vars

(* The emulator keeps running what it was called for.                      *)
FairSpec == Spec /\ WF_vars(Instruction) /\ WF_vars(Return)

-----------------------------------------------------------------------------
TypeOK ==
  /\ call \in {"none", "trap", "init", "play", "irq"}
  /\ at \in {"idle", "loop", "out"}
  /\ status \in Statuses /\ ipl \in Ipl
  /\ stack \in Seq(Ipl \cup {Word}) /\ finish_sp \in Nat
  /\ instructions \in Nat /\ cycle \in 0..CPP
  /\ chips \in Nat /\ passes \in Nat /\ given \in Nat /\ ran \in Nat
  /\ floor \in Nat /\ fault \in {"none", "status"}

(* What sc68_process() takes for a pass that went well.                    *)
GoodPass == at = "idle" /\ call = "irq" /\ status = "NRM"

(* A pass is good only if every handler returned: one that the countdown   *)
(* broke leaves its frame on the stack, and the next interrupt must not    *)
(* make emu68_interrupt() report that all is well.                         *)
HandlersReturn == GoodPass => Len(stack) = floor

(* ... and only if every interrupt of the chip ran its handler, whatever   *)
(* mask the play code left (api68.c: "Fix some replays ... do not restore  *)
(* the SR by themself").                                                   *)
EveryInterruptRuns == GoodPass => ran = given

(* The chips and the cycle count of the processor together tell the time   *)
(* of the track: the cycles of a pass reach the chips once, in spite of    *)
(* passes that fail and runs that are continued.                           *)
ChipClock == at = "idle" => chips + cycle = passes * CPP

(* The countdown ends code that never returns, STOP or not, unless a STOP  *)
(* took the last instruction: then there is no limit any more.             *)
Running == call # "irq" /\ at # "idle"
FinishEnds == Running /\ instructions > 0
                ~> \/ ~Running
                   \/ instructions = 0 /\ status = "STP"

(* emu68_interrupt(): "Clear STOP mode.  If interrupt is running it means  *)
(* execution is not stopped anymore."  loop68() asserts a normal status.   *)
NotStopped == fault = "none"
=============================================================================
