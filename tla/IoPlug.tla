------------------------------- MODULE IoPlug -------------------------------
(***************************************************************************)
(* The chips of a sc68 instance on the bus of its emulated 68000           *)
(* (emu68/ioplug68.c, mem68.c, and reset_emulators(), change_track() and   *)
(* safe_destroy() of src/api68.c).  Every 256 byte line of the I/O page    *)
(* has one handler; the emulator also keeps the list of plugged chips, and *)
(* one chip that is asked for interrupts.  A track change rebuilds all     *)
(* three from the hardware flags of the track.                             *)
(*                                                                         *)
(* The linked list io->next is a set: nothing depends on its order.        *)
(***************************************************************************)
EXTENDS Integers

CONSTANTS
  Lines,     \* I/O lines of 256 bytes
  LoOf,      \* chip -> (io->addr_lo >> 8) & 255
  HiOf       \* chip -> (io->addr_hi >> 8) & 255

Chips == {"ym", "mw", "shifter", "mfp", "paula"}
NoChip == "none"     \* errio or nopio in the line map, 0 for interrupt_io
HwFlag == {"psg", "dma", "lmc", "aga"}

(* No two chips share a line and every chip lies inside one line: this is  *)
(* what makes unplugging, which clears one line only, sufficient.          *)
ASSUME IoPlugAssumption ==
  /\ Lines \subseteq Nat
  /\ LoOf \in [Chips -> Lines] /\ HiOf = LoOf
  /\ \A c, d \in Chips : LoOf[c] = LoOf[d] => c = d

LinesOf(c) == LoOf[c]..HiOf[c]

VARIABLES
  plugged,      \* the chips of the list emu68->iohead
  mapped_io,    \* line -> the chip that answers there
  interrupt_io, \* the chip asked for interrupts
  touched,      \* chips whose registers changed since the track change
  stained,      \* chips that hold what an earlier track left in them
  freed,        \* chips destroyed
  hw,           \* chip flags of the last reset_emulators()
  stage,        \* how far change_track() is
  busFault         \* an assertion fails, or a destroyed chip is used

bus == <<plugged, mapped_io>>
busVars == <<plugged, mapped_io, interrupt_io, touched, stained, freed, hw, stage, busFault>>

-----------------------------------------------------------------------------
(* sc68_create(): chips exist, none is plugged.                            *)
BusInit ==
  /\ plugged = {} /\ mapped_io = [l \in Lines |-> NoChip]
  /\ interrupt_io = NoChip
  /\ touched = {} /\ stained = {} /\ freed = {}
  /\ hw = {} /\ stage = "stopped" /\ busFault = FALSE

(* do_io_unplug() for every plugged chip; it clears the line of addr_lo.   *)
UnplugAll(b) ==
  [on  |-> {},
   map |-> [l \in Lines |-> IF \E c \in b.on : LoOf[c] = l THEN NoChip ELSE b.map[l]],
   bad |-> b.bad \/ \E c \in b.on : b.map[LoOf[c]] # c]

(* emu68_mem_reset(): every line back to the default handler.              *)
MemReset(b) == [b EXCEPT !.map = [l \in Lines |-> NoChip]]

(* emu68_ioplug() of each chip of S, with its overlap assertion.           *)
Plug(b, S) ==
  [on  |-> b.on \cup S,
   map |-> [l \in Lines |-> IF \E c \in S : l \in LinesOf(c)
                            THEN CHOOSE c \in S : l \in LinesOf(c)
                            ELSE b.map[l]],
   bad |-> b.bad \/ \E c \in S : \E l \in LinesOf(c) : b.map[l] # NoChip]

(* The chips of a track: an Amiga track has Paula and nothing else.        *)
ChipsForBug(f) ==
  (IF "aga" \in f THEN {"paula"} ELSE {"shifter", "mfp"})
  \cup (IF "psg" \in f THEN {"ym"} ELSE {}) \cup (IF "dma" \in f THEN {"mw"} ELSE {})
ChipsFor(f) ==
  IF "aga" \in f THEN {"paula"}
  ELSE {"shifter", "mfp"} \cup (IF "psg" \in f THEN {"ym"} ELSE {})
                          \cup (IF f \cap {"dma", "lmc"} # {} THEN {"mw"} ELSE {})

InterruptForBug(f) == IF "aga" \in f THEN "paula" ELSE "shifter"
InterruptFor(f) == IF "aga" \in f THEN "paula" ELSE "mfp"

(* The chips sc68_process() runs or mixes after the 68000 ran its pass.    *)
MixedFor(f) ==
  IF "aga" \in f THEN {"paula"}
  ELSE (IF "psg" \in f THEN {"ym"} ELSE {})
       \cup (IF f \cap {"dma", "lmc"} # {} THEN {"mw"} ELSE {})

(* emu68_reset() resets the registers of the plugged chips, and of no      *)
(* other.                                                                  *)
ResetChipsBug(b, t) == t \ plugged
ResetChips(b, t) == t \ b.on

BusNow == [on |-> plugged, map |-> mapped_io, bad |-> busFault]
NewBus(f) == Plug(MemReset(UnplugAll(BusNow)), ChipsFor(f))

(* reset_emulators() up to the code it runs on the 68000.                  *)
ResetEmulators(f) ==
  /\ stage \in {"stopped", "playing"} /\ freed = {}
  /\ LET b == NewBus(f)
     IN  /\ plugged' = b.on /\ mapped_io' = b.map /\ busFault' = b.bad
         /\ stained' = ResetChips(b, stained \cup touched)
  /\ touched' = {}
  /\ interrupt_io' = InterruptFor(f)
  /\ hw' = f /\ stage' = IF "aga" \in f THEN "init" ELSE "trap"
  /\ UNCHANGED freed

(* The 68000 accesses a line: the handler of that line is called.          *)
AccessLine(l) ==
  LET c == mapped_io[l] IN
  /\ touched' = IF c = NoChip THEN touched ELSE touched \cup {c}
  /\ busFault' = (busFault \/ c \in freed)
  /\ UNCHANGED <<bus, interrupt_io, stained, freed, hw>>

(* An instruction of the TOS trap, init or play code, or of an interrupt.  *)
Access == /\ stage \in {"trap", "init", "playing"}
          /\ \E l \in Lines : AccessLine(l)
          /\ UNCHANGED stage

(* The trap code is over, then the init code; either may fail, and so may  *)
(* what change_track() loads in between.  A 60 Hz track resets the shifter *)
(* to 60 Hz, plugged or not.                                               *)
EndOfCode(ok, sixty) ==
  /\ stage \in {"trap", "init"}
  /\ stage' = IF ~ok THEN "stopped" ELSE IF stage = "trap" THEN "init" ELSE "playing"
  /\ touched' = IF ok /\ sixty /\ stage = "init" THEN touched \cup {"shifter"} ELSE touched
  /\ UNCHANGED <<bus, interrupt_io, stained, freed, hw, busFault>>

(* One pass: the chip of the interrupts is asked, then chips are mixed.    *)
Pass ==
  /\ stage = "playing"
  /\ touched' = touched \cup MixedFor(hw) \cup {interrupt_io}
  /\ busFault' = (busFault \/ (MixedFor(hw) \cup {interrupt_io}) \cap freed # {})
  /\ UNCHANGED <<bus, interrupt_io, stained, freed, hw, stage>>

(* stop_track() leaves the chips where they are.                           *)
StopTrack ==
  /\ stage = "playing" /\ stage' = "stopped"
  /\ UNCHANGED <<bus, interrupt_io, touched, stained, freed, hw, busFault>>

DetachedBug == BusNow
Detached == UnplugAll(BusNow)

(* safe_destroy(): unplug, destroy the chips, then emu68_destroy(), which  *)
(* destroys whatever is still plugged.                                     *)
Destroy ==
  /\ stage \in {"stopped", "playing"} /\ freed = {}
  /\ LET b == Detached IN
     /\ plugged' = {} /\ mapped_io' = b.map
     /\ busFault' = (b.bad \/ b.on # {})          \* destroying an attached io
  /\ freed' = Chips /\ interrupt_io' = NoChip /\ stage' = "stopped"
  /\ UNCHANGED <<touched, stained, hw>>

(* sc68_create() of the next instance, at the same addresses.              *)
Create ==
  /\ freed = Chips
  /\ freed' = {} /\ touched' = {} /\ stained' = {} /\ hw' = {}
  /\ mapped_io' = [l \in Lines |-> NoChip]
  /\ UNCHANGED <<plugged, interrupt_io, stage, busFault>>

BusNext ==
  \/ \E f \in SUBSET HwFlag : ResetEmulators(f)
  \/ Access
  \/ \E ok, sixty \in BOOLEAN : EndOfCode(ok, sixty)
  \/ Pass \/ StopTrack \/ Destroy \/ Create

BusSpec == BusInit /\ [][BusNext]_busVars

-----------------------------------------------------------------------------
BusTypeOK ==
  /\ plugged \subseteq Chips /\ mapped_io \in [Lines -> Chips \cup {NoChip}]
  /\ interrupt_io \in {NoChip, "mfp", "paula"}
  /\ touched \subseteq Chips /\ stained \subseteq Chips /\ freed \in {{}, Chips}
  /\ hw \subseteq HwFlag /\ stage \in {"stopped", "trap", "init", "playing"}
  /\ busFault \in BOOLEAN

(* The line map and the list of plugged chips are kept separately: a line  *)
(* is answered by a chip exactly when that chip is plugged there.          *)
BusAgrees == \A l \in Lines, c \in Chips :
  mapped_io[l] = c <=> c \in plugged /\ l \in LinesOf(c)

NoFault == ~busFault

(* Whatever the sequence of track changes, failures and destructions the   *)
(* line map and the list say the same, as do_io_unplug() asserts in part,  *)
(* no assertion of ioplug68.c or io68.c fails and no destroyed chip is     *)
(* used: safe_destroy() frees the chips before the bus is emptied.         *)
BusSound == BusAgrees /\ NoFault

(* While a track plays, every chip that is mixed or asked for interrupts   *)
(* is one the 68000 code can reach: the flags that choose what to plug     *)
(* (reset_emulators) and what to mix (sc68_process) are tested apart.      *)
PassUsesPluggedChips ==
  stage = "playing" => MixedFor(hw) \cup {interrupt_io} \subseteq plugged

(* What a track can hear of the chips: what its code reaches through the   *)
(* line map, what is mixed and what is asked for interrupts.               *)
Reached == ({mapped_io[l] : l \in Lines} \cup MixedFor(hw) \cup {interrupt_io}) \ {NoChip}

(* From its TOS trap code to its last pass a track never meets what an     *)
(* earlier one left in a chip, even when tracks in between did not plug    *)
(* that chip: emu68_reset() goes by the list of plugged chips, accesses by *)
(* the line map, mixing by the flags of the track.  What it changes itself *)
(* is on its own bus, but for the shifter of a 60 Hz track.                *)
TracksApart ==
  stage # "stopped" =>
    /\ stained \cap Reached = {}
    /\ touched \subseteq plugged \cup {"shifter"}
=============================================================================
