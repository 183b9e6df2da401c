------------------------------- MODULE ChipsMC -------------------------------
(* The chips on small instances.  A behaviour exercises one of them, the   *)
(* others rest: they share no state but the time of the 68000, and what    *)
(* each expects of that is part of its own module.                         *)
EXTENDS Mfp, IoPlug, MwDma, Paula, Ym

(* The lines of the real chips, $FFFFxx00 and $FFDFF000, and a free one.   *)
RealLines == [ym |-> 136, mw |-> 137, shifter |-> 130, mfp |-> 250, paula |-> 240]
UsedAndFree == {136, 137, 130, 250, 240, 0}

(* Prescalers of 2 and 3 bogo cycles, one and one and a half of the 68000. *)
MCWidth == <<2, 3>>

VARIABLE part        \* the chip that is exercised

(* What the proofs about the DMA assume of its constants holds here.       *)
ASSUME MCDmaValid == DmaAssumption

(* Blocks that follow each other, overlap, and are empty or too short; a   *)
(* step of a quarter of a block and one that does not divide it.           *)
MCStride == [m \in 0..1 |-> 1 + 2 * m]

(* Two voices: blocks of 1 and 3 (a length of 0 is the longest) in steps   *)
(* of 2.                                                                   *)
MCStarts == <<{4}, {0}>>
MCLengths == <<{1}, {0}>>
MCPerStep == [p \in 0..0 |-> 2]

(* Both registers of the YM-2149 begin with 0.                             *)
MCReset0 == [r \in {0, 1} |-> 0]

ChipsInit ==
  /\ part \in {"bus", "mfp", "dma", "paula", "ym"}
  /\ Init /\ BusInit /\ DmaInit /\ PaulaInit /\ YmInit
  /\ part # "ym" => engine = "blep"

ChipsNext ==
  /\ UNCHANGED part
  /\ \/ part = "bus" /\ BusNext /\ UNCHANGED <<vars, dmaVars, paulaVars, ymVars>>
     \/ part = "mfp" /\ Next /\ UNCHANGED <<busVars, dmaVars, paulaVars, ymVars>>
     \/ part = "dma" /\ DmaNext /\ UNCHANGED <<vars, busVars, paulaVars, ymVars>>
     \/ part = "paula" /\ PaulaNext /\ UNCHANGED <<vars, busVars, dmaVars, ymVars>>
     \/ part = "ym" /\ YmNext /\ UNCHANGED <<vars, busVars, dmaVars, paulaVars>>

chipsVars == <<part, vars, busVars, dmaVars, paulaVars, ymVars>>

(* As FairSpec of Mfp.                                                     *)
ChipsSpec == /\ ChipsInit /\ [][ChipsNext]_chipsVars
             /\ WF_vars(part = "mfp" /\ Step)

-----------------------------------------------------------------------------
(* The types of all chips.                                                 *)
ChipsTypeOK ==
  CASE part = "bus" -> BusTypeOK
    [] part = "mfp" -> TypeOK
    [] part = "dma" -> DmaTypeOK
    [] part = "paula" -> PaulaTypeOK
    [] part = "ym" -> YmTypeOK
=============================================================================
