---------------------------- MODULE ChipsProofs ----------------------------
(* The chips together.  For any assignment of them to lines of their own,  *)
(* the line map and the list of plugged chips agree and no assertion of    *)
(* the bus fails; for any prescalers, data, number of timers and length of *)
(* a pass, timers are never behind the clock of the 68000, which never     *)
(* goes back; and with the sound chips of SoundProofs all keep their types *)
(* in one behaviour.                                                       *)
EXTENDS ChipsMC, SoundProofs

-----------------------------------------------------------------------------
(* The chip bus.                                                           *)

(* BusTypeOK and BusAgrees are not inductive without knowing that a destroyed *)
(* bus is empty and that, once a track change has begun, the bus holds the *)
(* chips of the flags in hw.                                               *)
Furnished ==
  stage # "stopped" => /\ freed = {} /\ plugged = ChipsFor(hw)
                       /\ interrupt_io = InterruptFor(hw)

BusInv == BusTypeOK /\ BusAgrees /\ NoFault /\ Furnished /\ (freed # {} => plugged = {})

(* A chip covers exactly one line, and no line is covered by two.          *)
LEMMA OneLine ==
  \A c \in Chips : /\ LinesOf(c) = {LoOf[c]} /\ LoOf[c] \in Lines
                   /\ \A d \in Chips : LoOf[c] = LoOf[d] => c = d
  BY IoPlugAssumption DEF IoPlugAssumption, LinesOf

LEMMA ChipSets ==
  ASSUME NEW f \in SUBSET HwFlag
  PROVE  /\ ChipsFor(f) \subseteq Chips
         /\ MixedFor(f) \cup {InterruptFor(f)} \subseteq ChipsFor(f)
         /\ InterruptFor(f) \in {"mfp", "paula"}
         /\ NoChip \notin Chips
  BY DEF ChipsFor, MixedFor, InterruptFor, Chips, NoChip, HwFlag

(* Unplugging everything from a consistent bus empties list and map.       *)
LEMMA UnplugAllEmpties ==
  ASSUME BusTypeOK, BusAgrees, NoFault
  PROVE  /\ UnplugAll(BusNow).on = {}
         /\ UnplugAll(BusNow).map = [l \in Lines |-> NoChip]
         /\ UnplugAll(BusNow).bad = FALSE
<1>1. \A c \in plugged : mapped_io[LoOf[c]] = c
  BY OneLine DEF BusTypeOK, BusAgrees
<1>2. \A l \in Lines : mapped_io[l] # NoChip => \E c \in plugged : LoOf[c] = l
  <2>1. ASSUME NEW l \in Lines, mapped_io[l] # NoChip
        PROVE  mapped_io[l] \in Chips
    BY <2>1 DEF BusTypeOK
  <2> QED BY <2>1, OneLine DEF BusAgrees, LinesOf
<1> QED BY <1>1, <1>2 DEF UnplugAll, BusNow, NoFault, BusTypeOK

(* Plugging a set of chips on an empty bus gives a consistent one.         *)
LEMMA PlugOnEmpty ==
  ASSUME NEW S \in SUBSET Chips, NEW b, b.on = {}, b.bad = FALSE,
         b.map = [l \in Lines |-> NoChip]
  PROVE  /\ Plug(b, S).on = S
         /\ Plug(b, S).map \in [Lines -> Chips \cup {NoChip}]
         /\ \A l \in Lines, c \in Chips : Plug(b, S).map[l] = c <=> c \in S /\ l \in LinesOf(c)
         /\ Plug(b, S).bad = FALSE
<1>1. ASSUME NEW c \in S, NEW l \in LinesOf(c)
      PROVE  b.map[l] = NoChip
  <2>1. l = LoOf[c] /\ LoOf[c] \in Lines
    BY OneLine
  <2> QED BY <2>1
<1>2. \A l \in Lines : Plug(b, S).map[l] = IF \E c \in S : l \in LinesOf(c)
                                           THEN CHOOSE c \in S : l \in LinesOf(c)
                                           ELSE NoChip
  BY DEF Plug
<1>3. \A l \in Lines : \A c, d \in S : l \in LinesOf(c) /\ l \in LinesOf(d) => c = d
  BY OneLine
<1>4. NoChip \notin Chips
  BY DEF NoChip, Chips
<1>5. ASSUME NEW l \in Lines, NEW c \in Chips
      PROVE  Plug(b, S).map[l] = c <=> c \in S /\ l \in LinesOf(c)
  BY <1>2, <1>3, <1>4
<1>6. Plug(b, S).map \in [Lines -> Chips \cup {NoChip}]
  BY DEF Plug
<1> QED BY <1>1, <1>5, <1>6 DEF Plug

LEMMA NewBusIsRight ==
  ASSUME BusTypeOK, BusAgrees, NoFault, NEW f \in SUBSET HwFlag
  PROVE  /\ NewBus(f).on = ChipsFor(f)
         /\ NewBus(f).map \in [Lines -> Chips \cup {NoChip}]
         /\ \A l \in Lines, c \in Chips :
              NewBus(f).map[l] = c <=> c \in ChipsFor(f) /\ l \in LinesOf(c)
         /\ NewBus(f).bad = FALSE
<1> DEFINE b == MemReset(UnplugAll(BusNow))
<1>1. b.on = {} /\ b.bad = FALSE /\ b.map = [l \in Lines |-> NoChip]
  BY UnplugAllEmpties DEF MemReset, UnplugAll
<1> HIDE DEF b
<1>2. ChipsFor(f) \in SUBSET Chips
  BY ChipSets
<1>3. NewBus(f) = Plug(b, ChipsFor(f))
  BY DEF NewBus, b
<1>4. /\ Plug(b, ChipsFor(f)).on = ChipsFor(f)
      /\ Plug(b, ChipsFor(f)).map \in [Lines -> Chips \cup {NoChip}]
      /\ \A l \in Lines, c \in Chips :
           Plug(b, ChipsFor(f)).map[l] = c <=> c \in ChipsFor(f) /\ l \in LinesOf(c)
      /\ Plug(b, ChipsFor(f)).bad = FALSE
  <2> DEFINE S == ChipsFor(f)
  <2> HIDE DEF S
  <2>1. S \in SUBSET Chips
    BY <1>2 DEF S
  <2>2. /\ Plug(b, S).on = S
        /\ Plug(b, S).map \in [Lines -> Chips \cup {NoChip}]
        /\ \A l \in Lines, c \in Chips : Plug(b, S).map[l] = c <=> c \in S /\ l \in LinesOf(c)
        /\ Plug(b, S).bad = FALSE
    BY <1>1, <2>1, PlugOnEmpty
  <2> QED BY <2>2 DEF S
<1> QED BY <1>3, <1>4

(* BusInit establishes the invariant.                                         *)
LEMMA BusInvInit == BusInit => BusInv
  BY DEF BusInit, BusInv, BusTypeOK, BusAgrees, NoFault, Furnished, Chips, NoChip

(* Every step keeps it.                                                    *)
LEMMA BusInvNext == BusInv /\ [BusNext]_busVars => BusInv'
<1> SUFFICES ASSUME BusInv, [BusNext]_busVars PROVE BusInv'
  OBVIOUS
<1> USE DEF BusInv
<1>1. ASSUME NEW f \in SUBSET HwFlag, ResetEmulators(f) PROVE BusInv'
  <2>b. /\ NewBus(f).on = ChipsFor(f)
        /\ NewBus(f).map \in [Lines -> Chips \cup {NoChip}]
        /\ \A l \in Lines, c \in Chips :
             NewBus(f).map[l] = c <=> c \in ChipsFor(f) /\ l \in LinesOf(c)
        /\ NewBus(f).bad = FALSE
    BY <1>1, NewBusIsRight
  <2>r. plugged' = NewBus(f).on /\ mapped_io' = NewBus(f).map /\ busFault' = NewBus(f).bad
    BY <1>1 DEF ResetEmulators
  <2>1. /\ plugged' = ChipsFor(f) /\ mapped_io' \in [Lines -> Chips \cup {NoChip}]
        /\ busFault' = FALSE /\ BusAgrees'
    BY <2>b, <2>r, OneLine DEF BusAgrees
  <2>2. ChipsFor(f) \subseteq Chips /\ InterruptFor(f) \in {"mfp", "paula"}
    BY ChipSets
  <2>3. touched' \subseteq Chips /\ stained' \subseteq Chips
    BY <1>1 DEF ResetEmulators, ResetChips, BusTypeOK
  <2>4. BusTypeOK'
    BY <1>1, <2>1, <2>2, <2>3 DEF BusTypeOK, ResetEmulators
  <2> QED BY <1>1, <2>1, <2>4 DEF ResetEmulators, NoFault, Furnished
<1>2. ASSUME Access PROVE BusInv'
  <2>1. PICK l \in Lines : AccessLine(l)
    BY <1>2 DEF Access
  <2>2. freed = {} /\ UNCHANGED stage
    BY <1>2 DEF Access, Furnished
  <2>3. BusTypeOK'
    BY <2>1, <2>2 DEF BusTypeOK, AccessLine, bus
  <2> QED BY <2>1, <2>2, <2>3 DEF AccessLine, bus, BusAgrees, NoFault, Furnished
<1>3. ASSUME NEW ok \in BOOLEAN, NEW sixty \in BOOLEAN, EndOfCode(ok, sixty) PROVE BusInv'
  <2>1. BusTypeOK'
    BY <1>3 DEF BusTypeOK, EndOfCode, bus, Chips
  <2> QED BY <1>3, <2>1 DEF EndOfCode, bus, BusAgrees, NoFault, Furnished
<1>4. ASSUME Pass PROVE BusInv'
  <2>1. freed = {} /\ MixedFor(hw) \cup {interrupt_io} \subseteq Chips
    BY <1>4, ChipSets DEF Pass, Furnished, BusTypeOK
  <2>2. BusTypeOK'
    BY <1>4, <2>1 DEF BusTypeOK, Pass, bus
  <2> QED BY <1>4, <2>1, <2>2 DEF Pass, bus, BusAgrees, NoFault, Furnished
<1>5. ASSUME StopTrack PROVE BusInv'
  BY <1>5 DEF StopTrack, bus, BusTypeOK, BusAgrees, NoFault, Furnished
<1>6. ASSUME Destroy PROVE BusInv'
  <2>1. /\ Detached.on = {} /\ Detached.bad = FALSE
        /\ Detached.map = [l \in Lines |-> NoChip]
    BY UnplugAllEmpties DEF Detached
  <2>2. plugged' = {} /\ mapped_io' = [l \in Lines |-> NoChip] /\ busFault' = FALSE
    BY <1>6, <2>1 DEF Destroy
  <2>3. BusAgrees'
    BY <2>2 DEF BusAgrees, Chips, NoChip
  <2> QED BY <1>6, <2>2, <2>3 DEF Destroy, BusTypeOK, NoFault, Furnished
<1>7. ASSUME Create PROVE BusInv'
  <2>1. plugged = {} /\ stage = "stopped"
    BY <1>7 DEF Create, Furnished, Chips
  <2>2. BusAgrees'
    BY <1>7, <2>1 DEF Create, BusAgrees, Chips, NoChip
  <2> QED BY <1>7, <2>1, <2>2 DEF Create, BusTypeOK, NoFault, Furnished
<1>8. CASE UNCHANGED busVars
  BY <1>8 DEF busVars, bus, BusTypeOK, BusAgrees, NoFault, Furnished
<1> QED BY <1>1, <1>2, <1>3, <1>4, <1>5, <1>6, <1>7, <1>8 DEF BusNext

(* The inductive invariant holds always.                                   *)
THEOREM BusInvariant == BusSpec => []BusInv
  BY BusInvInit, BusInvNext, PTL DEF BusSpec

(* The variables of the bus keep their types.                              *)
THEOREM BusTypes == BusSpec => []BusTypeOK
<1>1. BusInv => BusTypeOK
  BY DEF BusInv
<1> QED BY <1>1, BusInvariant, PTL

(* The line map read by every access and the list of plugged chips agree,  *)
(* on which do_io_unplug() relies; no assertion of ioplug68.c or io68.c    *)
(* fails and no chip is used after sc68_destroy().                         *)
THEOREM BusIsSound == BusSpec => []BusSound
<1>1. BusInv => BusSound
  BY DEF BusInv, BusSound
<1> QED BY <1>1, BusInvariant, PTL

(* What sc68_process() mixes and asks for interrupts is plugged.           *)
THEOREM MixedChipsArePlugged == BusSpec => []PassUsesPluggedChips
<1>1. BusInv => PassUsesPluggedChips
  BY ChipSets DEF BusInv, Furnished, PassUsesPluggedChips, BusTypeOK
<1> QED BY <1>1, BusInvariant, PTL

(* The chips on the bus have been reset since the last track, and a track  *)
(* changes no other, but for the shifter.                                  *)
Apart ==
  stage # "stopped" =>
    /\ stained \cap plugged = {}
    /\ touched \subseteq plugged \cup {"shifter"}

(* A track change resets the chips it plugs; what the track then changes   *)
(* is answered from its own bus (BusAgrees), or mixed from it (ChipSets).  *)
LEMMA ApartNext == ASSUME BusInv, Apart, [BusNext]_busVars PROVE Apart'
<1>1. ASSUME NEW f \in SUBSET HwFlag, ResetEmulators(f) PROVE Apart'
  <2>1. plugged' = NewBus(f).on /\ stained' = (stained \cup touched) \ NewBus(f).on /\ touched' = {}
    BY <1>1 DEF ResetEmulators, ResetChips
  <2> QED BY <2>1 DEF Apart
<1>2. ASSUME Access PROVE Apart'
  <2>1. PICK l \in Lines : AccessLine(l)
    BY <1>2 DEF Access
  <2>2. mapped_io[l] # NoChip => mapped_io[l] \in plugged
    BY DEF BusInv, BusTypeOK, BusAgrees
  <2>3. touched' \subseteq touched \cup plugged /\ UNCHANGED <<plugged, stained, stage>>
    BY <1>2, <2>1, <2>2 DEF Access, AccessLine, bus
  <2> QED BY <2>3 DEF Apart
<1>3. ASSUME NEW ok \in BOOLEAN, NEW sixty \in BOOLEAN, EndOfCode(ok, sixty) PROVE Apart'
  BY <1>3 DEF EndOfCode, bus, Apart
<1>4. ASSUME Pass PROVE Apart'
  <2>1. MixedFor(hw) \cup {interrupt_io} \subseteq plugged
    BY <1>4, ChipSets DEF Pass, BusInv, BusTypeOK, Furnished
  <2> QED BY <1>4, <2>1 DEF Pass, bus, Apart
<1>5. ASSUME StopTrack \/ Destroy \/ Create PROVE Apart'
  <2>1. stage' = "stopped"
    BY <1>5 DEF StopTrack, Destroy, Create, BusInv, Furnished, Chips
  <2> QED BY <2>1 DEF Apart
<1>6. CASE UNCHANGED busVars
  BY <1>6 DEF busVars, bus, Apart
<1> QED BY <1>1, <1>2, <1>3, <1>4, <1>5, <1>6 DEF BusNext

(* No track meets what an earlier one left in a chip: emu68_reset() goes   *)
(* by the list of plugged chips, the 68000 by the line map, mixing and     *)
(* interrupts by the flags of the track, and the three agree.              *)
THEOREM TracksKeptApart == BusSpec => []TracksApart
<1>1. BusInit => Apart
  BY DEF BusInit, Apart
<1>2. ASSUME BusInv, Apart PROVE TracksApart
  <2> SUFFICES ASSUME stage # "stopped"
               PROVE  /\ stained \cap Reached = {}
                      /\ touched \subseteq plugged \cup {"shifter"}
    BY DEF TracksApart
  <2>1. \A l \in Lines : mapped_io[l] # NoChip => mapped_io[l] \in plugged
    BY <1>2 DEF BusInv, BusTypeOK, BusAgrees
  <2>2. MixedFor(hw) \cup {interrupt_io} \subseteq plugged
    BY <1>2, ChipSets DEF BusInv, BusTypeOK, Furnished
  <2>3. Reached \subseteq plugged
    BY <2>1, <2>2 DEF Reached
  <2> QED BY <1>2, <2>3 DEF Apart
<1>3. BusInv /\ Apart /\ [BusNext]_busVars => Apart'
  BY ApartNext
<1> QED BY <1>1, <1>2, <1>3, BusInvariant, PTL DEF BusSpec

-----------------------------------------------------------------------------
(* The timers of the MFP.                                                  *)

(* The chip's cycles at the end of a pass are those of the whole pass.     *)
EndCycle == at = "end" => cycle = CPP
MfpInv == TypeOK /\ OnTime /\ EndCycle

-----------------------------------------------------------------------------
(* Arithmetic of the two clocks: a cycle worked out from bogo cycles is    *)
(* never after them, nor before a cycle that was not.                      *)
LEMMA Rounding ==
  ASSUME NEW b \in Nat
  PROVE  /\ Cpu(b) \in Nat /\ Bogo(Cpu(b)) <= b
         /\ \A c \in Nat : Bogo(c) <= b => c <= Cpu(b)
         /\ \A c \in Nat : b < Bogo(c) => Cpu(b) < c
<1> DEFINE q == b \div MUL
<1>1. MUL \in Nat /\ MUL > 0  BY MfpAssumption
<1>2. q \in Int /\ b = MUL * q + (b % MUL) /\ b % MUL \in 0..(MUL - 1)  BY <1>1, SMT
<1> HIDE DEF q
<1>3. q \in Nat
  <2>1. SUFFICES ASSUME q <= -1 PROVE FALSE  BY <1>2
  <2>2. MUL * q <= -MUL  BY <2>1, <1>1, <1>2, SMT
  <2> QED  BY <2>2, <1>1, <1>2
<1>4. ASSUME NEW c \in Nat, c * MUL <= b PROVE c <= q
  <2>1. SUFFICES ASSUME q + 1 <= c PROVE FALSE  BY <1>2
  <2>2. (q + 1) * MUL <= c * MUL  BY <2>1, <1>1, <1>3, SMT
  <2>3. (q + 1) * MUL = MUL * q + MUL  BY <1>1, <1>3, SMT
  <2> QED  BY <2>2, <2>3, <1>1, <1>2, <1>4, <1>3
<1>5. ASSUME NEW c \in Nat, b < c * MUL PROVE q < c
  <2>1. SUFFICES ASSUME c <= q PROVE FALSE  BY <1>2
  <2>2. c * MUL <= q * MUL  BY <2>1, <1>1, <1>3, SMT
  <2> QED  BY <2>2, <1>5, <1>1, <1>2, <1>3
<1>6. q * MUL <= b  BY <1>1, <1>2, <1>3, SMT
<1> QED  BY <1>3, <1>4, <1>5, <1>6 DEF Cpu, Bogo, q

(* A product of naturals is one: the widths times the counts.              *)
LEMMA Product == ASSUME NEW m \in Nat, NEW n \in Nat PROVE m * n \in Nat
OBVIOUS

(* And so is their quotient: bogo cycles left divided by those of a count. *)
LEMMA Quotient == ASSUME NEW m \in Nat, NEW n \in Nat \ {0} PROVE m \div n \in Nat
<1> DEFINE q == m \div n
<1>1. q \in Int /\ m = n * q + (m % n) /\ m % n \in 0..(n - 1)  BY SMT
<1> HIDE DEF q
<1>2. SUFFICES ASSUME q <= -1 PROVE FALSE  BY <1>1 DEF q
<1>3. n * q <= -n  BY <1>2, <1>1, SMT
<1> QED  BY <1>3, <1>1

(* A running timer counts at least a cycle of the 68000 at a time.         *)
LEMMA Widths ==
  /\ \A v \in Control \ {0} : Width[v] \in Nat \ {0}
  /\ MUL \in Nat \ {0} /\ CPP \in Nat \ {0} /\ TdrMax \in Nat \ {0} /\ 0 \notin DOMAIN Width
BY MfpAssumption DEF Control

(* The bogo time of the clock of the 68000.                                *)
LEMMA NowIsNat == TypeOK => Now \in Nat /\ cycle \in Nat
<1> SUFFICES ASSUME TypeOK PROVE Now \in Nat /\ cycle \in Nat  OBVIOUS
<1>1. cycle \in Nat /\ MUL \in Nat  BY Widths DEF TypeOK
<1> QED  BY <1>1, Product DEF Now, Bogo

(* What the registers of a running timer give.                             *)
LEMMA TimerValues ==
  ASSUME TypeOK, OnTime, NEW t \in Timers, Running(t)
  PROVE  /\ Width[tcr[t]] \in Nat \ {0} /\ Period(t) \in Nat
         /\ ~Late(t) /\ Count(t) \in 1..TdrMax
         /\ \A v \in Control \ {0} : Reconf(t, v) \in Nat /\ Reconf(t, v) >= Now
<1> DEFINE left == cti[t] - Now
           n == left \div Width[tcr[t]]
<1>1. Width[tcr[t]] \in Nat \ {0}  BY Widths DEF TypeOK, Running
<1>2. tdr_res[t] \in 1..TdrMax /\ TdrMax \in Nat /\ tdr_res[t] \in Nat \ {0}
  BY Widths DEF TypeOK
<1>3. Period(t) \in Nat  BY <1>1, <1>2, Product DEF Period
<1>4. Now \in Nat /\ cti[t] \in Nat /\ cti[t] >= Now  BY NowIsNat DEF TypeOK, OnTime
<1>5. ~Late(t)  BY <1>4 DEF Late
<1>6. n \in Nat  BY <1>1, <1>4, Quotient
<1> HIDE DEF n
<1>7. Count(t) \in 1..TdrMax
  <2>1. n % tdr_res[t] \in 0..(tdr_res[t] - 1)  BY <1>6, <1>2
  <2>2. Count(t) = (n % tdr_res[t]) + 1  BY DEF Count, n
  <2> QED  BY <2>1, <2>2, <1>2
<1>8. ASSUME NEW v \in Control \ {0} PROVE Reconf(t, v) \in Nat /\ Reconf(t, v) >= Now
  <2>1. (n + 1) * Width[v] \in Nat  BY <1>6, Widths, Product
  <2>2. Reconf(t, v) = Now + (n + 1) * Width[v]  BY <1>5 DEF Reconf, n
  <2> QED  BY <2>1, <2>2, <1>4
<1> QED  BY <1>1, <1>3, <1>5, <1>7, <1>8

-----------------------------------------------------------------------------
(* A write to a control register leaves every running timer ahead.         *)
LEMMA PutTcrOnTime ==
  ASSUME MfpInv, NEW S \in SUBSET Timers, NEW to \in [S -> Control], PutTcr(S, to),
         UNCHANGED <<enabled, cycle, at>>
  PROVE  MfpInv'
<1> USE DEF MfpInv
<1> DEFINE stop(t)   == t \in S /\ Running(t) /\ to[t] = 0
           resume(t) == t \in S /\ ~Running(t) /\ to[t] # 0
           reconf(t) == t \in S /\ Running(t) /\ to[t] \notin {0, tcr[t]}
<1>1. tcr' = [t \in Timers |-> IF t \in S THEN to[t] ELSE tcr[t]]  BY DEF PutTcr
<1>2. tdr_cur' = [t \in Timers |-> IF stop(t) THEN Count(t) ELSE tdr_cur[t]]  BY DEF PutTcr
<1>3. cti' = [t \in Timers |->
               CASE resume(t) -> Now + tdr_cur[t] * Width[to[t]]
                 [] reconf(t) -> Reconf(t, to[t])
                 [] OTHER -> cti[t]]
  BY DEF PutTcr
<1>4. tdr_res' = tdr_res  BY DEF PutTcr
<1>5. fault' = "none"
  <2>1. \A t \in S : ~(stop(t) /\ Late(t))  BY TimerValues
  <2> QED  BY <2>1 DEF PutTcr, OnTime
<1>6. tcr' \in [Timers -> Control]  BY <1>1 DEF TypeOK
<1>7. tdr_cur' \in [Timers -> 1..TdrMax]
  <2>1. \A t \in Timers : stop(t) => Count(t) \in 1..TdrMax  BY TimerValues
  <2> QED  BY <2>1, <1>2 DEF TypeOK
<1>8. ASSUME NEW t \in Timers
      PROVE  /\ cti'[t] \in Nat
             /\ tcr'[t] # 0 => cti'[t] >= Now
  <2>1. Now \in Nat /\ cti[t] \in Nat  BY NowIsNat DEF TypeOK
  <2>2. CASE resume(t)
    <3>1. cti'[t] = Now + tdr_cur[t] * Width[to[t]]  BY <2>2, <1>3
    <3>2. tdr_cur[t] \in Nat /\ Width[to[t]] \in Nat  BY <2>2, Widths DEF TypeOK
    <3>3. tdr_cur[t] * Width[to[t]] \in Nat  BY <3>2, Product
    <3> QED  BY <3>1, <3>3, <2>1
  <2>3. CASE reconf(t)
    <3>1. cti'[t] = Reconf(t, to[t]) /\ to[t] \in Control \ {0}  BY <2>3, <1>3
    <3> QED  BY <3>1, <2>3, TimerValues
  <2>4. CASE ~resume(t) /\ ~reconf(t)
    <3>1. cti'[t] = cti[t]  BY <2>4, <1>3
    <3>2. tcr'[t] # 0 => Running(t)  BY <2>4, <1>1 DEF Running
    <3> QED  BY <3>1, <3>2, <2>1 DEF OnTime
  <2> QED  BY <2>2, <2>3, <2>4
<1>9. cti' \in [Timers -> Nat]
  <2>1. cti' = [t \in Timers |-> cti'[t]]  BY <1>3
  <2> QED  BY <2>1, <1>8
<1>10. TypeOK'  BY <1>4, <1>5, <1>6, <1>7, <1>9 DEF TypeOK
<1>11. OnTime'  BY <1>5, <1>8 DEF OnTime, Running, Now, Bogo
<1>12. EndCycle'  BY DEF EndCycle
<1> QED  BY <1>10, <1>11, <1>12

(* When timer t is the first one, no timer is behind its interrupt.        *)
LEMMA FireOnTime ==
  ASSUME MfpInv, NEW t \in Timers, Fire(t)
  PROVE  MfpInv' /\ cycle' >= cycle
<1> USE DEF MfpInv
<1>1. Running(t) /\ cti[t] < Bogo(CPP) /\ at = "scan"
      /\ \A u \in Timers : Running(u) => cti[t] <= cti[u]
  <2>1. \A u \in Timers : cti[u] \in Nat  BY DEF TypeOK
  <2> QED  BY <2>1 DEF Fire, First, Before
<1>2. Now \in Nat /\ cycle \in Nat /\ cti[t] \in Nat /\ Now <= cti[t] /\ CPP \in Nat
  BY <1>1, NowIsNat, Widths DEF TypeOK, OnTime
<1>3. /\ Cpu(cti[t]) \in Nat /\ Bogo(Cpu(cti[t])) <= cti[t]
      /\ cycle <= Cpu(cti[t]) /\ Cpu(cti[t]) < CPP
  BY <1>1, <1>2, Rounding DEF Now
<1>4. Period(t) \in Nat  BY <1>1, TimerValues
<1>5. cti' = [cti EXCEPT ![t] = cti[t] + Period(t)]  BY DEF Fire, Reload
<1>6. TypeOK'
  <2>1. cti' \in [Timers -> Nat]  BY <1>2, <1>4, <1>5 DEF TypeOK
  <2>2. tdr_res[t] \in 1..TdrMax  BY DEF TypeOK
  <2>3. tdr_cur' \in [Timers -> 1..TdrMax]  BY <2>2 DEF Fire, TypeOK
  <2>4. cycle' \in 0..CPP /\ at' \in {"code", "scan", "end"}  BY <1>2, <1>3 DEF Fire, TypeOK
  <2>5. fault' = fault  BY <1>3 DEF Fire
  <2>6. tcr' = tcr /\ tdr_res' = tdr_res /\ enabled' = enabled  BY DEF Fire
  <2> QED  BY <2>1, <2>3, <2>4, <2>5, <2>6 DEF TypeOK
<1>7. cycle' \in {cycle, Cpu(cti[t])}  BY DEF Fire
<1>8. Bogo(cycle') <= cti[t] /\ cycle' >= cycle
  BY <1>2, <1>3, <1>7 DEF Now
<1>9. ASSUME NEW u \in Timers, Running(u) PROVE cti'[u] >= Bogo(cycle')
  <2>1. cti[u] \in Nat /\ cti[t] <= cti[u]  BY <1>1, <1>9 DEF TypeOK
  <2>2. cti'[u] >= cti[t] /\ cti'[u] \in Nat
    BY <2>1, <1>2, <1>4, <1>5 DEF TypeOK
  <2>3. Bogo(cycle') \in Nat
    <3>1. cycle' \in Nat /\ MUL \in Nat  BY <1>6, Widths, <1>2, <1>3, <1>7
    <3> QED  BY <3>1, Product DEF Bogo
  <2> QED  BY <2>2, <2>3, <1>8, <1>2
<1>10. OnTime'
  <2>1. fault' = "none" /\ tcr' = tcr  BY <1>3 DEF Fire, OnTime
  <2> QED  BY <2>1, <1>9 DEF OnTime, Running, Now, Bogo
<1>11. EndCycle'  BY <1>1 DEF EndCycle, Fire
<1> QED  BY <1>6, <1>8, <1>10, <1>11

(* Among running timers there is one to interrupt first.                   *)
LEMMA FirstExists ==
  ASSUME TypeOK, NEW t0 \in Timers, Running(t0)
  PROVE  \E t \in Timers : First(t)
<1> DEFINE R == {t \in Timers : Running(t)}
<1>1. Timers \subseteq 1..4 /\ \A t \in Timers : cti[t] \in Nat  BY MfpAssumption DEF TypeOK
<1>2. ASSUME NEW a \in R, NEW b \in R PROVE Before(a, b) \/ Before(b, a)
  BY <1>1 DEF Before
<1>3. ASSUME NEW a \in R, NEW b \in R, NEW c \in R, Before(a, b), Before(b, c) PROVE Before(a, c)
  BY <1>1, <1>3 DEF Before
<1> DEFINE Has(A) == A \cap R = {} \/ \E g \in A \cap R : \A u \in A \cap R : Before(g, u)
<1>5. ASSUME NEW A, NEW b, Has(A) PROVE Has(A \cup {b})
  <2> HIDE DEF R
  <2>1. CASE b \notin R
    <3>1. (A \cup {b}) \cap R = A \cap R  BY <2>1
    <3> QED  BY <3>1, <1>5
  <2>2. CASE b \in R /\ A \cap R = {}
    <3>1. (A \cup {b}) \cap R = {b} /\ b \in R  BY <2>2
    <3>2. Before(b, b)  BY <2>2, <1>2
    <3> QED  BY <3>1, <3>2
  <2>3. CASE b \in R /\ A \cap R # {}
    <3>1. PICK f \in A \cap R : \A u \in A \cap R : Before(f, u)  BY <2>3, <1>5
    <3>2. (A \cup {b}) \cap R = (A \cap R) \cup {b} /\ A \cap R \in SUBSET R  BY <2>3
    <3>3. \E g \in (A \cap R) \cup {b} : \A u \in (A \cap R) \cup {b} : Before(g, u)
      <4> DEFINE AR == A \cap R
      <4>1. AR \in SUBSET R /\ f \in AR /\ b \in R /\ \A u \in AR : Before(f, u)
        BY <3>1, <3>2, <2>3
      <4> HIDE DEF AR
      <4>2. Before(b, b)  BY <4>1, <1>2
      <4>3. CASE Before(f, b)
        <5>1. \A u \in AR \cup {b} : Before(f, u)  BY <4>1, <4>3
        <5> QED  BY <5>1, <4>1 DEF AR
      <4>4. CASE Before(b, f)
        <5>1. \A u \in AR : Before(b, u)  BY <4>1, <4>4, <1>3
        <5>2. \A u \in AR \cup {b} : Before(b, u)  BY <5>1, <4>2
        <5> QED  BY <5>2 DEF AR
      <4> QED  BY <4>1, <4>3, <4>4, <1>2
    <3> QED  BY <3>2, <3>3
  <2> QED  BY <2>1, <2>2, <2>3
<1>6. Has({})  OBVIOUS
<1> HIDE DEF Has
<1>7. Has({} \cup {1})  BY <1>5, <1>6
<1>8. Has(({} \cup {1}) \cup {2})  BY <1>5, <1>7
<1>9. Has((({} \cup {1}) \cup {2}) \cup {3})  BY <1>5, <1>8
<1>10. Has(((({} \cup {1}) \cup {2}) \cup {3}) \cup {4})  BY <1>5, <1>9
<1>11. ((({} \cup {1}) \cup {2}) \cup {3}) \cup {4} = 1..4  OBVIOUS
<1>12. (1..4) \cap R = R /\ t0 \in R  BY <1>1
<1>13. PICK g \in R : \A u \in R : Before(g, u)  BY <1>10, <1>11, <1>12 DEF Has
<1> QED  BY <1>13 DEF First

(* When mfp_interrupt() finds no timer, they are all beyond the pass.      *)
LEMMA EndOfPassOnTime ==
  ASSUME MfpInv, EndOfPass
  PROVE  MfpInv' /\ cycle' >= cycle
<1> USE DEF MfpInv
<1>1. cycle' = CPP /\ at' = "end" /\ UNCHANGED <<tcr, cti, tdr_res, tdr_cur, enabled, fault>>
  BY DEF EndOfPass, timer
<1>2. cycle \in 0..CPP /\ CPP \in Nat  BY Widths DEF TypeOK
<1>3. TypeOK'  BY <1>1, <1>2 DEF TypeOK
<1>4. ASSUME NEW t \in Timers, Running(t) PROVE cti[t] >= Bogo(CPP)
  <2>1. PICK u \in Timers : First(u)  BY FirstExists, <1>4
  <2>2. cti[u] >= Bogo(CPP)  BY <2>1 DEF EndOfPass
  <2>3. cti[u] <= cti[t] /\ cti[u] \in Nat /\ cti[t] \in Nat
    BY <2>1, <1>4 DEF First, Before, TypeOK
  <2>4. Bogo(CPP) \in Nat  BY Product, Widths DEF Bogo
  <2> QED  BY <2>2, <2>3, <2>4
<1>5. OnTime'  BY <1>1, <1>4 DEF OnTime, Running, Now, Bogo
<1> QED  BY <1>1, <1>2, <1>3, <1>5 DEF EndCycle

(* The rebasing of a pass finds no timer left behind, and takes the bogo   *)
(* cycles of the pass from each.                                           *)
LEMMA AdjustOnTime == ASSUME MfpInv, Adjust PROVE MfpInv'
<1> USE DEF MfpInv
<1>1. cycle' = 0 /\ at' = "code" /\ UNCHANGED <<tcr, tdr_res, tdr_cur, enabled>>
  BY DEF Adjust
<1>2. fault' = "none"  BY TimerValues DEF Adjust, OnTime
<1>3. Bogo(cycle') = 0  BY <1>1, Widths DEF Bogo
<1>4. ASSUME NEW t \in Timers PROVE cti'[t] \in Nat
  <2>1. cti[t] \in Nat /\ Now \in Nat  BY NowIsNat DEF TypeOK
  <2>2. CASE Running(t)
    <3>1. ~Late(t) /\ Period(t) \in Nat  BY <2>2, TimerValues
    <3>2. Missed(t) * Period(t) = 0  BY <3>1 DEF Missed
    <3>3. Rebased(t) = cti[t] - Now  BY <2>1, <3>2 DEF Rebased
    <3>4. cti[t] >= Now  BY <2>2 DEF OnTime
    <3>5. cti'[t] = Rebased(t)  BY <2>2 DEF Adjust
    <3> QED  BY <2>1, <3>3, <3>4, <3>5
  <2>3. CASE ~Running(t)
    <3>1. cti'[t] = cti[t]  BY <2>3 DEF Adjust
    <3> QED  BY <2>1, <3>1
  <2> QED  BY <2>2, <2>3
<1>5. cti' \in [Timers -> Nat]
  <2>1. cti' = [t \in Timers |-> cti'[t]]  BY DEF Adjust
  <2> QED  BY <2>1, <1>4
<1>6. TypeOK'  BY <1>1, <1>2, <1>5, Widths DEF TypeOK
<1>7. OnTime'  BY <1>2, <1>3, <1>4 DEF OnTime, Now, Bogo
<1> QED  BY <1>1, <1>6, <1>7 DEF EndCycle

(* The reset at a change of track stops every timer.                       *)
LEMMA ResetOnTime == ASSUME MfpInv, Reset PROVE MfpInv'
<1> USE DEF MfpInv
<1>1. Now \in Nat  BY NowIsNat
<1>2. TypeOK'  BY <1>1, Widths DEF Reset, TypeOK, Control
<1>3. OnTime'  BY DEF Reset, OnTime, Running
<1> QED  BY <1>2, <1>3 DEF Reset, EndCycle

(* Data and mask registers do not move the timers.                         *)
LEMMA DataOnTime ==
  ASSUME MfpInv, NEW t \in Timers, ReadTdr(t) \/ \E d \in Data : WriteTdr(t, d)
  PROVE  MfpInv' /\ cycle' = cycle
<1> USE DEF MfpInv
<1>1. UNCHANGED <<tcr, cti, enabled, cycle, at>>  BY DEF ReadTdr, WriteTdr
<1>2. CASE ReadTdr(t)
  <2>1. ~Late(t) /\ Count(t) \in 1..TdrMax  BY <1>2, TimerValues DEF ReadTdr
  <2>2. fault' = fault /\ tdr_res' = tdr_res  BY <1>2, <2>1 DEF ReadTdr
  <2>3. tdr_cur' \in [Timers -> 1..TdrMax]  BY <1>2, <2>1 DEF ReadTdr, TypeOK
  <2> QED  BY <1>1, <2>2, <2>3 DEF TypeOK, OnTime, EndCycle, Running, Now, Bogo
<1>3. ASSUME NEW d \in Data, WriteTdr(t, d) PROVE MfpInv'
  <2>1. Latch(d) \in 1..TdrMax  BY MfpAssumption DEF Latch
  <2>2. fault' = fault  BY <1>3 DEF WriteTdr
  <2>3. tdr_res' \in [Timers -> 1..TdrMax] /\ tdr_cur' \in [Timers -> 1..TdrMax]
    BY <1>3, <2>1 DEF WriteTdr, TypeOK
  <2> QED  BY <1>1, <2>2, <2>3 DEF TypeOK, OnTime, EndCycle, Running, Now, Bogo
<1> QED  BY <1>1, <1>2, <1>3

(* Every step keeps the timers ahead, and but for the new pass the clock   *)
(* goes forward.                                                           *)
LEMMA StepOnTime ==
  ASSUME MfpInv, [Next]_vars
  PROVE  MfpInv' /\ (at # "end" => cycle' >= cycle)
<1>0. cycle \in Nat  BY NowIsNat DEF MfpInv
<1>1. ASSUME NEW t \in Timers, WriteTcr(t) PROVE MfpInv' /\ cycle' = cycle
  <2>1. PICK v \in Control : PutTcr({t}, [u \in {t} |-> v])  BY <1>1 DEF WriteTcr
  <2>2. [u \in {t} |-> v] \in [{t} -> Control] /\ {t} \in SUBSET Timers  OBVIOUS
  <2>3. UNCHANGED <<enabled, cycle, at>>  BY <1>1 DEF WriteTcr
  <2> QED  BY <2>1, <2>2, <2>3, PutTcrOnTime
<1>2. ASSUME WriteTcdcr PROVE MfpInv' /\ cycle' = cycle
  <2> DEFINE S == Timers \cap {3, 4}
  <2>1. PICK to \in [S -> Control] : PutTcr(S, to)  BY <1>2 DEF WriteTcdcr
  <2>2. S \in SUBSET Timers  OBVIOUS
  <2>3. UNCHANGED <<enabled, cycle, at>>  BY <1>2 DEF WriteTcdcr
  <2> HIDE DEF S
  <2> QED  BY <2>1, <2>2, <2>3, PutTcrOnTime
<1>3. ASSUME NEW S \in SUBSET Timers, Enable(S) PROVE MfpInv' /\ cycle' = cycle
  <2>1. UNCHANGED <<timer, cycle, at, fault>> /\ enabled' \subseteq Timers  BY <1>3 DEF Enable
  <2> QED  BY <2>1 DEF timer, MfpInv, TypeOK, OnTime, EndCycle, Running, Now, Bogo
<1>4. ASSUME CodeEnds PROVE MfpInv' /\ cycle' = cycle
  BY <1>4 DEF CodeEnds, timer, MfpInv, TypeOK, OnTime, EndCycle, Running, Now, Bogo
<1>5. CASE Code
  <2>1. MfpInv' /\ cycle' = cycle  BY <1>5, <1>1, <1>2, <1>3, DataOnTime DEF Code
  <2> QED  BY <2>1, <1>0
<1>6. CASE Step
  <2>1. MfpInv' /\ (cycle' = cycle \/ cycle' >= cycle)
    BY <1>6, <1>4, FireOnTime, EndOfPassOnTime DEF Step
  <2> QED  BY <2>1, <1>0
<1>7. CASE Adjust  BY <1>7, AdjustOnTime DEF Adjust
<1>8. CASE Reset  BY <1>8, ResetOnTime DEF Reset
<1>9. CASE UNCHANGED vars
  <2>1. MfpInv' /\ cycle' = cycle
    BY <1>9 DEF vars, timer, MfpInv, TypeOK, OnTime, EndCycle, Running, Now, Bogo
  <2> QED  BY <2>1, <1>0
<1> QED  BY <1>5, <1>6, <1>7, <1>8, <1>9 DEF Next

(* The chip starts with every timer stopped.                               *)
LEMMA InitOnTime == Init => MfpInv
<1> SUFFICES ASSUME Init PROVE MfpInv  OBVIOUS
<1>1. TypeOK  BY Widths DEF Init, TypeOK, Control
<1>2. OnTime  BY DEF Init, OnTime, Running
<1> QED  BY <1>1, <1>2 DEF Init, MfpInv, EndCycle

-----------------------------------------------------------------------------
(* The registers and times of the chip keep their ranges, whatever the     *)
(* replay code and the interrupt handlers write.                           *)
THEOREM TimersTyped == Spec => []TypeOK
<1>1. MfpInv /\ [Next]_vars => MfpInv'  BY StepOnTime
<1>2. MfpInv => TypeOK  BY DEF MfpInv
<1> QED  BY InitOnTime, <1>1, <1>2, PTL DEF Spec

(* No running timer is ever behind the clock of the 68000: the assertions  *)
(* of timer_get_tdr(), mfpio_interrupt() and mfp_adjust_bogoc() hold, and  *)
(* no interrupt is lost.                                                   *)
THEOREM NoInterruptLost == Spec => []OnTime
<1>1. MfpInv /\ [Next]_vars => MfpInv'  BY StepOnTime
<1>2. MfpInv => OnTime  BY DEF MfpInv
<1> QED  BY InitOnTime, <1>1, <1>2, PTL DEF Spec

(* The interrupts of a pass are raised in the order of their cycles.       *)
THEOREM InterruptsInOrder == Spec => InOrder
<1>1. MfpInv /\ [Next]_vars => MfpInv'  BY StepOnTime
<1>2. MfpInv /\ [Next]_vars => [at # "end" => cycle' >= cycle]_vars  BY StepOnTime
<1> QED  BY InitOnTime, <1>1, <1>2, PTL DEF Spec, InOrder

-----------------------------------------------------------------------------
(* All chips in one behaviour.  A step of one leaves the others alone, so  *)
(* a behaviour of the chips is a behaviour of each, and what is proved of  *)
(* each holds of them together: io68.c gives the 68000 one chip a line, and  *)
(* the chips share no state.                                               *)
THEOREM ChipsCompose ==
  ChipsSpec => BusSpec /\ Spec /\ DmaSpec /\ PaulaSpec /\ YmSpec
<1>1. ChipsInit => BusInit /\ Init /\ DmaInit /\ PaulaInit /\ YmInit  BY Zenon DEF ChipsInit
<1>2. [ChipsNext]_chipsVars =>
        /\ [BusNext]_busVars /\ [Next]_vars /\ [DmaNext]_dmaVars
        /\ [PaulaNext]_paulaVars /\ [YmNext]_ymVars
  BY Zenon DEF ChipsNext, chipsVars
<1> QED BY <1>1, <1>2, PTL DEF ChipsSpec, BusSpec, Spec, DmaSpec, PaulaSpec, YmSpec

(* Whatever chip is exercised, its registers keep their types.             *)
THEOREM ChipsTypes == ChipsSpec => []ChipsTypeOK
<1> DEFINE Known == part \in {"bus", "mfp", "dma", "paula", "ym"}
<1>1. ChipsInit => Known  BY Zenon DEF ChipsInit
<1>2. Known /\ [ChipsNext]_chipsVars => Known'  BY Zenon DEF ChipsNext, chipsVars
<1>3. DmaSpec => [](DmaTypeOK /\ Inside)  BY DmaInside, MCDmaValid
<1>4. PaulaInv => PaulaTypeOK  BY Zenon DEF PaulaInv
<1>5. YmInv => YmTypeOK  BY Zenon DEF YmInv
<1>6. Known /\ BusTypeOK /\ TypeOK /\ DmaTypeOK /\ PaulaTypeOK /\ YmTypeOK => ChipsTypeOK
  BY DEF ChipsTypeOK
<1> HIDE DEF Known
<1> QED BY <1>1, <1>2, <1>3, <1>4, <1>5, <1>6, ChipsCompose, BusTypes, TimersTyped,
           PaulaInvariant, YmInvariant, PTL DEF ChipsSpec
=============================================================================
