-------------------------------- MODULE Mfp --------------------------------
(* The timers of the MK68901: src/libsc68/io68/mfpemul.c and its register  *)
(* access in mfp_io.c, driven by emu68_interrupt() and the adjustment of   *)
(* cycles at the next emu68_finish() (emu68.c).                            *)
(*                                                                         *)
(* The timers count in "bogo" cycles, MUL to a cycle of the 68000.  A      *)
(* timer is not counted down: it holds the time of its next interrupt      *)
(* (cti), from which the value of its counter is worked out when it is     *)
(* read or stopped.  The 68000 clock stands still while code runs: play    *)
(* code runs at cycle 0 of the pass, a handler at the cycle of its         *)
(* interrupt.  The other registers of the chip are plain memory; pending   *)
(* and in-service bits are not emulated by this build.                     *)
EXTENDS Integers, FiniteSets

CONSTANTS
  Timers,      \* those used of 1..4, TIMER_A to TIMER_D
  MUL,         \* MFP_BOGO_MUL
  Width,       \* prediv_width: bogo cycles of a count, by control value
  TdrMax,      \* 256
  CPP,         \* cycleperpass
  Data,        \* values written to data registers
  MaxCti       \* bound on a reconfigured timer

ASSUME MfpAssumption ==
  /\ Timers \subseteq 1..4
  /\ MUL \in Nat \ {0} /\ TdrMax \in Nat \ {0} /\ CPP \in Nat \ {0} /\ MaxCti \in Nat
  /\ Data \subseteq 0..(TdrMax - 1)
  /\ DOMAIN Width \subseteq 1..7
  /\ \A v \in DOMAIN Width : Width[v] \in Nat /\ Width[v] >= MUL

VARIABLES
  tcr, cti, tdr_res, tdr_cur,   \* mfp_timer_t, by timer
  enabled,                      \* timers with IER and IMR bits set
  cycle,                        \* emu68->cycle
  at,                           \* "code", "scan" (mfp_interrupt()) or "end" of pass
  fault                         \* the assertion that failed

timer == <<tcr, cti, tdr_res, tdr_cur>>
vars == <<timer, enabled, cycle, at, fault>>

Control == {0} \cup DOMAIN Width      \* 0: stopped
Running(t) == tcr[t] # 0
Bogo(c) == c * MUL                    \* cpu2bogo
CpuBug(b) == (b + MUL - 1) \div MUL
Cpu(b) == b \div MUL                  \* bogo2cpu
Now == Bogo(cycle)

Init ==
  /\ tcr = [t \in Timers |-> 0] /\ cti = [t \in Timers |-> 0]
  /\ tdr_res = [t \in Timers |-> TdrMax] /\ tdr_cur = [t \in Timers |-> TdrMax]
  /\ enabled = {} /\ cycle = 0 /\ at = "code" /\ fault = "none"

-----------------------------------------------------------------------------
Period(t) == Width[tcr[t]] * tdr_res[t]

(* timer_get_tdr(): the count of a running timer.                          *)
Count(t) == (((cti[t] - Now) \div Width[tcr[t]]) % tdr_res[t]) + 1
Late(t) == cti[t] < Now               \* fails its assertion

(* reconf_timer(): the count goes on with the new prescaler.               *)
Reconf(t, v) ==
  IF Late(t) THEN Now + Period(t)
  ELSE Now + (((cti[t] - Now) \div Width[tcr[t]]) + 1) * Width[v]

(* mfp_put_tcr_bogo(): stop, resume or change each timer in S to ctrl[t].  *)
(* A control register holds one timer, or both C and D.                    *)
PutTcr(S, ctrl) ==
  LET stop(t)   == t \in S /\ Running(t) /\ ctrl[t] = 0
      resume(t) == t \in S /\ ~Running(t) /\ ctrl[t] # 0
      reconf(t) == t \in S /\ Running(t) /\ ctrl[t] \notin {0, tcr[t]}
  IN /\ tcr' = [t \in Timers |-> IF t \in S THEN ctrl[t] ELSE tcr[t]]
     /\ tdr_cur' = [t \in Timers |-> IF stop(t) THEN Count(t) ELSE tdr_cur[t]]
     /\ cti' = [t \in Timers |->
                 CASE resume(t) -> Now + tdr_cur[t] * Width[ctrl[t]]
                   [] reconf(t) -> Reconf(t, ctrl[t])
                   [] OTHER -> cti[t]]
     /\ fault' = IF \E t \in S : stop(t) /\ Late(t) THEN "late" ELSE fault
     /\ \A t \in S : reconf(t) => cti'[t] <= MaxCti
     /\ UNCHANGED tdr_res

WriteTcr(t) ==
  /\ at = "code" /\ t \in {1, 2}
  /\ \E v \in Control : PutTcr({t}, [u \in {t} |-> v])
  /\ UNCHANGED <<enabled, cycle, at>>

WriteTcdcr ==
  /\ at = "code"
  /\ \E ctrl \in [Timers \cap {3, 4} -> Control] : PutTcr(Timers \cap {3, 4}, ctrl)
  /\ UNCHANGED <<enabled, cycle, at>>

(* mfp_put_tdr(): 0 is TdrMax; a stopped timer is loaded at once.          *)
Latch(d) == IF d = 0 THEN TdrMax ELSE d
WriteTdr(t, d) ==
  /\ at = "code"
  /\ tdr_res' = [tdr_res EXCEPT ![t] = Latch(d)]
  /\ tdr_cur' = IF Running(t) THEN tdr_cur ELSE [tdr_cur EXCEPT ![t] = Latch(d)]
  /\ UNCHANGED <<tcr, cti, enabled, cycle, at, fault>>

(* mfp_get_tdr() keeps what it has worked out.                             *)
ReadTdr(t) ==
  /\ at = "code" /\ Running(t)
  /\ tdr_cur' = [tdr_cur EXCEPT ![t] = Count(t)]
  /\ fault' = IF Late(t) THEN "late" ELSE fault
  /\ UNCHANGED <<tcr, cti, tdr_res, enabled, cycle, at>>

Enable(S) ==
  /\ at = "code" /\ enabled' = S
  /\ UNCHANGED <<timer, cycle, at, fault>>

Code == \/ \E t \in Timers : WriteTcr(t) \/ ReadTdr(t) \/ (\E d \in Data : WriteTdr(t, d))
        \/ WriteTcdcr \/ \E S \in SUBSET Timers : Enable(S)

CodeEnds == at = "code" /\ at' = "scan" /\ UNCHANGED <<timer, enabled, cycle, fault>>

-----------------------------------------------------------------------------
(* find_next_int(): the running timer to interrupt first, A before D.      *)
BeforeBug(t, u) == cti[t] > cti[u] \/ (cti[t] = cti[u] /\ t <= u)
Before(t, u) == cti[t] < cti[u] \/ (cti[t] = cti[u] /\ t <= u)
First(t) == Running(t) /\ \A u \in Timers : Running(u) => Before(t, u)

(* mfp_interrupt(): timers whose time falls in the pass reload; the first  *)
(* enabled one interrupts, at a cycle that the 68000 can name.             *)
ReloadBug(t) == cti[t]
Reload(t) == cti[t] + Period(t)
Fire(t) ==
  /\ at = "scan" /\ First(t) /\ cti[t] < Bogo(CPP)
  /\ cti' = [cti EXCEPT ![t] = Reload(t)]
  /\ tdr_cur' = [tdr_cur EXCEPT ![t] = tdr_res[t]]
  /\ IF t \in enabled
       THEN /\ at' = "code" /\ cycle' = Cpu(cti[t])
            /\ fault' = IF Cpu(cti[t]) < CPP THEN fault ELSE "beyond"
       ELSE UNCHANGED <<at, cycle, fault>>
  /\ UNCHANGED <<tcr, tdr_res, enabled>>

EndOfPass ==
  /\ at = "scan" /\ \A t \in Timers : First(t) => cti[t] >= Bogo(CPP)
  /\ at' = "end" /\ cycle' = CPP
  /\ UNCHANGED <<timer, enabled, fault>>

(* mfp_adjust_bogoc() when the next play code is called: the times are     *)
(* those of the new pass.  A timer left behind has lost interrupts.        *)
Missed(t) == IF Late(t) THEN (Now - cti[t] + Period(t) - 1) \div Period(t) ELSE 0
Rebased(t) == cti[t] + Missed(t) * Period(t) - Now
Adjust ==
  /\ at = "end"
  /\ cti' = [t \in Timers |-> IF Running(t) THEN Rebased(t) ELSE cti[t]]
  /\ fault' = IF \E t \in Timers : Running(t) /\ Late(t) THEN "lost" ELSE fault
  /\ cycle' = 0 /\ at' = "code"
  /\ UNCHANGED <<tcr, tdr_res, tdr_cur, enabled>>

(* emu68_reset() at a track change resets the chip, then the cycles.  That *)
(* of a track whose code fails, at cycle 0, leaves the same chip.          *)
Reset ==
  /\ at = "end"
  /\ tcr' = [t \in Timers |-> 0] /\ cti' = [t \in Timers |-> Now]
  /\ tdr_res' = [t \in Timers |-> TdrMax] /\ tdr_cur' = [t \in Timers |-> TdrMax]
  /\ enabled' = {} /\ cycle' = 0 /\ at' = "code"
  /\ UNCHANGED fault

Step == CodeEnds \/ (\E t \in Timers : Fire(t)) \/ EndOfPass
Next == Code \/ Step \/ Adjust \/ Reset

Spec == Init /\ [][Next]_vars

(* Code is finite (the countdown of emu68_finish()) and the loops go on.   *)
FairSpec == Spec /\ WF_vars(Step)

-----------------------------------------------------------------------------
TypeOK ==
  /\ tcr \in [Timers -> Control] /\ cti \in [Timers -> Nat]
  /\ tdr_res \in [Timers -> 1..TdrMax] /\ tdr_cur \in [Timers -> 1..TdrMax]
  /\ enabled \subseteq Timers /\ cycle \in 0..CPP
  /\ at \in {"code", "scan", "end"} /\ fault \in {"none", "late", "beyond", "lost"}

(* Whenever code runs, and when times are rebased, no running timer is     *)
(* behind the clock of the 68000 (the assertions of timer_get_tdr(),       *)
(* mfpio_interrupt() and mfp_adjust_bogoc(): "SHOULD NOT HAPPEN"), whatever *)
(* the handlers do to the timers, and although cycles are rounded.         *)
OnTime == fault = "none" /\ \A t \in Timers : Running(t) => cti[t] >= Now

(* The interrupts of a pass come in order: the clock never goes back but   *)
(* at its end.                                                             *)
InOrder == [][at # "end" => cycle' >= cycle]_vars

(* A pass has an end: a handler that restarts timers, its own included,    *)
(* cannot keep emu68_interrupt() in the same cycle for ever.               *)
PassEnds == at = "scan" ~> at = "end"
=============================================================================
