---------------------------------- MODULE Ym ----------------------------------
(* The YM-2149: register access of src/libsc68/io68/ym_io.c, the list of   *)
(* timed writes of ymemul.c, and how the generators of ym_blep.c and       *)
(* ym_puls.c go through it.  Play code and interrupt handlers write        *)
(* registers; the values are kept at once in the shadow registers and, at  *)
(* their cycle, in the list.  When the code of the pass is done the engine *)
(* generates it from the list.                                             *)
(*                                                                         *)
(* Levels are left out.  What is kept of a generator is the time it has    *)
(* generated, its registers and how many samples it made.                  *)
EXTENDS Integers, Sequences

CONSTANTS
  Reg, Val,          \* registers used, of 0..15, and values
  Reset0,            \* init_regs, by register
  ListMax,           \* 1600, the events that the list holds
  Times,             \* cycles of the 68000 at which code runs
  PassLength,        \* cycleperpass
  Ratio,             \* 68000 cycles to a cycle of the chip
  FIX,               \* 256
  CPS,               \* cycles_per_sample of the blep engine, in 1/FIX
  Engine             \* engines used

NoReg == 16          \* a selection that is none of the registers

ASSUME YmAssumption ==
  /\ 0 \in Reg /\ NoReg \notin Reg /\ Reset0 \in [Reg -> Val]
  /\ ListMax \in Nat /\ Times \subseteq Nat /\ PassLength \in Nat
  /\ Ratio \in Nat \ {0} /\ FIX \in Nat \ {0} /\ CPS \in Nat
  /\ Engine \subseteq {"blep", "puls"}

VARIABLES
  ctrl,              \* the register selected
  shadow, reg,       \* registers as read by code, and as the engine has them
  list,              \* event_buf to event_ptr
  ovf,               \* whether event_ovf counts anything
  ymClock,           \* emu68->cycle
  ymAt,              \* "code", "run" (the engine) or "end" of the pass
  engine,
  now,               \* time generated in this pass
  rest,              \* cycles_to_next_sample (blep)
  made,              \* samples made in this pass
  ymFault,           \* the assertion that failed
  lost, rest0        \* history: registers last written in vain; rest when the pass began

chip == <<ctrl, shadow, list, ovf, lost>>
generated == <<reg, now, rest, made>>
ymVars == <<chip, generated, ymClock, ymAt, engine, ymFault, rest0>>

YmCycle(c) == c \div Ratio           \* cycle_cputoym()
PassCycles == YmCycle(PassLength)

YmInit ==
  /\ engine \in Engine
  /\ ctrl = 0 /\ shadow = Reset0 /\ reg = Reset0 /\ list = <<>> /\ ovf = FALSE
  /\ ymClock = 0 /\ ymAt = "code" /\ now = 0 /\ rest = 0 /\ made = 0 /\ ymFault = "none"
  /\ lost = {} /\ rest0 = 0

-----------------------------------------------------------------------------
Select ==
  /\ ymAt = "code" /\ ctrl' \in Reg \cup {NoReg}
  /\ UNCHANGED <<shadow, list, ovf, lost, generated, ymClock, ymAt, engine, ymFault, rest0>>

(* ym_writereg().                                                          *)
WriteReg ==
  /\ ymAt = "code"
  /\ \E v \in Val :
       /\ shadow' = IF ctrl \in Reg THEN [shadow EXCEPT ![ctrl] = v] ELSE shadow
       /\ IF ctrl \in Reg /\ Len(list) < ListMax
            THEN /\ list' = Append(list, [at |-> YmCycle(ymClock), reg |-> ctrl, val |-> v])
                 /\ lost' = lost \ {ctrl} /\ UNCHANGED ovf
            ELSE /\ ovf' = (ovf \/ ctrl \in Reg)
                 /\ lost' = lost \cup ({ctrl} \cap Reg) /\ UNCHANGED list
  /\ UNCHANGED <<ctrl, generated, ymClock, ymAt, engine, ymFault, rest0>>

(* The next interrupt of the pass, or its end: ymio_run().                 *)
Interrupt ==
  /\ ymAt = "code" /\ ymClock' \in {c \in Times : c >= ymClock /\ c < PassLength}
  /\ UNCHANGED <<chip, generated, ymAt, engine, ymFault, rest0>>

YmCodeEnds ==
  /\ ymAt = "code" /\ ymAt' = "run" /\ ymClock' = PassLength
  /\ now' = 0 /\ made' = 0 /\ rest0' = rest
  /\ UNCHANGED <<chip, reg, rest, engine, ymFault>>

-----------------------------------------------------------------------------
Target == IF list = <<>> THEN PassCycles ELSE Head(list).at

(* mix_to_buffer(): the next sample is due before the target.              *)
Due == now + rest \div FIX < Target
Sample ==
  /\ ymAt = "run" /\ engine = "blep" /\ Due
  /\ now' = now + rest \div FIX
  /\ rest' = (rest % FIX) + CPS
  /\ made' = made + 1
  /\ UNCHANGED <<chip, reg, ymClock, ymAt, engine, ymFault, rest0>>

(* The target is reached: generator() of ym_puls.c makes a sample of 8     *)
(* cycles, and what is left is generated with what follows.                *)
LeftBug(t) == t
Left(t) == now + 8 * ((t - now) \div 8)
Reach(t) ==
  \/ /\ engine = "blep" /\ ~Due
     /\ rest' = rest - (t - now) * FIX /\ now' = t /\ UNCHANGED made
  \/ /\ engine = "puls"
     /\ made' = made + (t - now) \div 8 /\ now' = Left(t) /\ UNCHANGED rest

(* The engine comes to an event, whose register it sets.                   *)
Event ==
  /\ ymAt = "run" /\ list # <<>>
  /\ LET e == Head(list)
     IN /\ Reach(e.at)
        /\ reg' = [reg EXCEPT ![e.reg] = e.val]
        /\ ymFault' = IF now <= e.at /\ e.at <= PassCycles THEN ymFault ELSE "disorder"
  /\ list' = Tail(list)
  /\ UNCHANGED <<ctrl, shadow, ovf, lost, ymClock, ymAt, engine, rest0>>

RunEnds ==
  /\ ymAt = "run" /\ list = <<>> /\ Reach(PassCycles) /\ ymAt' = "end"
  /\ UNCHANGED <<chip, reg, ymClock, engine, ymFault, rest0>>

(* The next pass: ym_adjust_cycle() expects that nothing is left.          *)
YmAdjust ==
  /\ ymAt = "end" /\ ymAt' = "code" /\ ymClock' = 0
  /\ ymFault' = IF list = <<>> THEN ymFault ELSE "unheard"
  /\ UNCHANGED <<chip, generated, engine, rest0>>

EmptyListBug == UNCHANGED list /\ ovf' = FALSE
EmptyList == list' = <<>> /\ ovf' = FALSE

(* ym_reset() at a track change, that follows the end of a pass or code    *)
(* that failed.                                                            *)
ResetYm ==
  /\ ymAt \in {"code", "end"} /\ ymAt' = "code" /\ ymClock' = 0
  /\ ctrl' = 0 /\ shadow' = Reset0 /\ reg' = Reset0 /\ EmptyList
  /\ rest' = IF engine = "blep" THEN 0 ELSE rest
  /\ lost' = {}
  /\ UNCHANGED <<now, made, engine, ymFault, rest0>>

YmNext == \/ Select \/ WriteReg \/ Interrupt \/ YmCodeEnds
          \/ Sample \/ Event \/ RunEnds \/ YmAdjust \/ ResetYm

YmSpec == YmInit /\ [][YmNext]_ymVars

-----------------------------------------------------------------------------
YmTypeOK ==
  /\ ctrl \in Reg \cup {NoReg} /\ shadow \in [Reg -> Val] /\ reg \in [Reg -> Val]
  /\ list \in Seq([at : 0..PassCycles, reg : Reg, val : Val]) /\ Len(list) <= ListMax
  /\ ovf \in BOOLEAN /\ ymClock \in 0..PassLength /\ ymAt \in {"code", "run", "end"}
  /\ engine \in Engine /\ now \in 0..PassCycles /\ rest \in Nat /\ made \in Nat
  /\ rest0 \in Nat /\ lost \subseteq Reg /\ ymFault \in {"none", "disorder", "unheard"}

(* What the engine will have in register r once it has gone through the    *)
(* list.                                                                   *)
Writes(r) == {i \in DOMAIN list : list[i].reg = r}
Coming(r) == IF Writes(r) = {} THEN reg[r]
             ELSE list[CHOOSE i \in Writes(r) : \A j \in Writes(r) : j <= i].val

(* The engine comes to the registers that code reads back, but for those   *)
(* whose last write found the list full, of which event_ovf tells; events  *)
(* come in the order of their cycles and in the pass (ym_blep.c:332 and    *)
(* ym_puls.c:276), and none outlives it (ymemul.c:306).  Of the assertions *)
(* of the engines these three, on the list, are the ones modelled.         *)
NothingForgotten ==
  /\ \A r \in Reg : Coming(r) = shadow[r] \/ r \in lost
  /\ lost # {} => ovf
  /\ ymFault = "none"

(* However the writes cut a pass, the samples made are those of its time:  *)
(* no fraction of a sample is lost at an event or at the end of a pass.    *)
SamplesOfTime ==
  ymAt \in {"run", "end"} =>
    CASE engine = "blep" -> rest0 + made * CPS = now * FIX + rest
      [] engine = "puls" -> made * 8 = now
=============================================================================
