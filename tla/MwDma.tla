-------------------------------- MODULE MwDma --------------------------------
(* The DMA sound of the STE: the counters of src/libsc68/io68/mwemul.c and *)
(* the registers in mw_io.c that drive them.  A counter is a place in      *)
(* memory with the bits below a byte that the word leaves, so it wraps at  *)
(* the top of memory (ct_fix); here a byte is FIX.  Play code writes       *)
(* registers, then mix_ste() mixes the buffer of the pass.                 *)
(*                                                                         *)
(* sc68_process() always gives a buffer, so skip_ste() never runs.         *)
EXTENDS SampleMemory

CONSTANTS
  Bases, Ends,       \* places written to the address registers
  Stride               \* stp, by mode: frequency and mono or stereo

(* Blocks end below the top of memory by a step: beyond, the counter wraps *)
(* before it is seen to pass the end.                                      *)
DmaAssumption ==
  /\ TOP \in Nat \ {0} /\ Bases \subseteq 0..(TOP - 1) /\ Ends \subseteq Nat
  /\ 0 \in DOMAIN Stride
  /\ \A m \in DOMAIN Stride : Stride[m] \in Nat \ {0} /\ \A e \in Ends : e + Stride[m] <= TOP

VARIABLES
  base, endreg,      \* map[MW_BASH..], map[MW_ENDH..]
  dma, loop,         \* map[MW_ACTI]: bits 0 and 1
  mode,              \* map[MW_MODE]
  ct, dmaEnd,           \* the counters
  dmaAt,                \* "code", "mix"
  lo, dmaKnown          \* history: where the block began; it is longer than a step

Modes == DOMAIN Stride
stp == Stride[mode]
regs == <<base, endreg, mode>>
dmaVars == <<regs, dma, loop, ct, dmaEnd, dmaAt, lo, dmaKnown>>

DmaInit ==
  /\ base = 0 /\ endreg = 0 /\ mode = 0
  /\ dma = FALSE /\ loop = FALSE /\ ct = 0 /\ dmaEnd = 0
  /\ dmaAt = "code" /\ lo = 0 /\ dmaKnown = FALSE

-----------------------------------------------------------------------------
WriteAddress ==
  /\ dmaAt = "code"
  /\ \/ base' \in Bases /\ UNCHANGED endreg
     \/ endreg' \in Ends /\ UNCHANGED base
  /\ UNCHANGED <<mode, dma, loop, ct, dmaEnd, dmaAt, lo, dmaKnown>>

WriteMode ==
  /\ dmaAt = "code" /\ mode' \in Modes
  /\ UNCHANGED <<base, endreg, dma, loop, ct, dmaEnd, dmaAt, lo, dmaKnown>>

(* MW_ACTI: the counters are loaded whatever the value.                    *)
LoadBug == ct' = base /\ UNCHANGED dmaEnd
Load == ct' = base /\ dmaEnd' = endreg
WriteActi ==
  /\ dmaAt = "code"
  /\ dma' \in BOOLEAN /\ loop' \in BOOLEAN
  /\ Load
  /\ lo' = base /\ dmaKnown' = (dma' /\ base < endreg)
  /\ UNCHANGED <<regs, dmaAt>>

-----------------------------------------------------------------------------
(* At the end of a block the counter restarts from the base register, as   *)
(* far beyond it as it went beyond the end; what was between the new base  *)
(* and the old end is taken for the length of the block.                   *)
Restart(c) ==
  LET length == (dmaEnd - base) % TOP  overflow == (c - dmaEnd) % TOP
  IN (base + CASE length = 0 -> 0
               [] 0 < length /\ length < overflow -> overflow % length
               [] OTHER -> overflow) % TOP

(* Where counter c goes on from: it is in the block, or the block loops.   *)
GoOn(c) == IF c < dmaEnd THEN ct' = c /\ UNCHANGED <<dmaEnd, lo>>
           ELSE ct' = Restart(c) /\ dmaEnd' = endreg /\ lo' = base

(* At the end of a block played once the channel turns itself off.         *)
TurnOff == /\ dma' = FALSE /\ loop' = FALSE
           /\ ct' = base /\ dmaEnd' = endreg /\ lo' = base /\ dmaKnown' = FALSE

Fits == dmaKnown /\ lo' + stp <= dmaEnd'

(* mix_ste() begins.  A counter already at the end does not play.          *)
MixBegins ==
  /\ dmaAt = "code" /\ dma
  /\ \/ (ct < dmaEnd \/ loop) /\ GoOn(ct) /\ dmaKnown' = Fits /\ UNCHANGED <<dma, loop>>
     \/ ct >= dmaEnd /\ ~loop /\ TurnOff
  /\ dmaAt' = "mix" /\ UNCHANGED regs

(* One sample is mixed from ct, and the counter advances.                  *)
MixSample ==
  /\ dmaAt = "mix" /\ dma
  /\ LET c == (ct + stp) % TOP
     IN \/ (c < dmaEnd \/ loop) /\ GoOn(c) /\ dmaKnown' = Fits /\ UNCHANGED <<dma, loop>>
        \/ c >= dmaEnd /\ ~loop /\ TurnOff
  /\ UNCHANGED <<regs, dmaAt>>

(* The buffer is full; after a block played once, no_mix_ste() fills it.   *)
MixEnds == /\ dmaAt = "mix" /\ dmaAt' = "code"
           /\ UNCHANGED <<regs, dma, loop, ct, dmaEnd, lo, dmaKnown>>

(* mw_reset() at a track change.                                           *)
ResetDma ==
  /\ dmaAt = "code"
  /\ base' = 0 /\ endreg' = 0 /\ mode' = 0
  /\ dma' = FALSE /\ loop' = FALSE /\ ct' = 0 /\ dmaEnd' = 0 /\ lo' = 0 /\ dmaKnown' = FALSE
  /\ UNCHANGED dmaAt

DmaNext == \/ WriteAddress \/ WriteMode \/ WriteActi
           \/ MixBegins \/ MixSample \/ MixEnds \/ ResetDma

DmaSpec == DmaInit /\ [][DmaNext]_dmaVars

-----------------------------------------------------------------------------
DmaTypeOK ==
  /\ base \in Place /\ endreg \in Place /\ ct \in Place /\ dmaEnd \in Place /\ lo \in Place
  /\ dma \in BOOLEAN /\ loop \in BOOLEAN /\ dmaKnown \in BOOLEAN
  /\ mode \in Modes /\ dmaAt \in {"code", "mix"}

Player == INSTANCE BlockPlayer
            WITH from <- base, to <- endreg, on <- dma /\ dmaKnown, hi <- dmaEnd,
                 pos <- ct, stride <- stp, mixing <- dmaAt = "mix"

(* The DMA plays the blocks it is programmed with, each from its beginning *)
(* to its end, though mix_ste() latches registers that play code may have  *)
(* changed by halves, and takes the length of one block for another's.     *)
DmaPlaysBlocks == Player!BSpec

(* No sample outside a block that is longer than a step is mixed.          *)
DmaInBlock == Player!InBlock
=============================================================================
