-------------------------------- MODULE Paula --------------------------------
(* The voices of Paula, the sound chip of the Amiga: reload(), DMACON,     *)
(* INTENA and INTREQ of src/libsc68/io68/paula_io.c and mix_one() of       *)
(* paulaemul.c.  A place is an address in memory with the bits below a     *)
(* byte that the word leaves.  Play code writes registers, then            *)
(* paula_mix() mixes the buffer of the pass.                               *)
EXTENDS SampleMemory

CONSTANTS
  Voices,
  Starts, Lengths,   \* what is written to AUDxLC and AUDxLEN of each voice
  LenMax,            \* 0x10000 words
  PerStep            \* stp, by period

(* Blocks that do not wrap end below the top of memory by a step: beyond,  *)
(* the counter wraps before it is seen to pass the end.                    *)
ASSUME PaulaAssumption ==
  /\ TOP \in Nat /\ LenMax \in Nat /\ 0 < LenMax /\ LenMax < TOP /\ 2 < TOP
  /\ 0 \in DOMAIN PerStep /\ \A p \in DOMAIN PerStep : PerStep[p] \in 1..TOP
  /\ \A v \in Voices :
       /\ Starts[v] \subseteq Place /\ Lengths[v] \subseteq 0..LenMax
       /\ \A s \in Starts[v] \cup {0}, l \in (Lengths[v] \cup {LenMax}) \ {0}, p \in DOMAIN PerStep :
            ((s + l) % TOP) + PerStep[p] <= TOP

VARIABLES
  lc, len, per,      \* registers of each voice
  start, adr, end,   \* paulav_t of each voice
  dmacon, dmaena,    \* DMACON: voices, and bit 9
  intena, master,    \* INTENA: voices, and bit 14
  intreq,            \* INTREQ
  muted,             \* voices that this buffer is mixed without, *paula->chansptr
  paulaAt,           \* "code", "mix"
  paulaKnown         \* history: voices that play a block longer than a step

voiceRegs == <<lc, len, per>>
voice == <<start, adr, end>>
control == <<dmacon, dmaena, intena, master, intreq>>
paulaVars == <<voiceRegs, voice, control, muted, paulaAt, paulaKnown>>

Periods == DOMAIN PerStep
StepOf(v) == PerStep[per[v]]

(* AUDxLEN of 0 is the longest.                                            *)
Words(v) == IF len[v] = 0 THEN LenMax ELSE len[v]
Reend(v) == (lc[v] + Words(v)) % TOP

(* DMACON(): the voices that play.                                         *)
Playing == IF dmaena THEN dmacon ELSE {}

Zero == [v \in Voices |-> 0]

PaulaInit ==
  /\ lc = Zero /\ len = Zero /\ per = Zero
  /\ start = Zero /\ adr = [v \in Voices |-> 2] /\ end = Zero
  /\ dmacon = {} /\ dmaena = TRUE /\ intena = {} /\ master = TRUE /\ intreq = {}
  /\ muted = {} /\ paulaAt = "code" /\ paulaKnown = {}

-----------------------------------------------------------------------------
WriteVoice(v) ==
  /\ paulaAt = "code"
  /\ \/ \E p \in Starts[v] : lc' = [lc EXCEPT ![v] = p] /\ UNCHANGED <<len, per>>
     \/ \E l \in Lengths[v] : len' = [len EXCEPT ![v] = l] /\ UNCHANGED <<lc, per>>
     \/ \E p \in Periods : per' = [per EXCEPT ![v] = p] /\ UNCHANGED <<lc, len>>
  /\ UNCHANGED <<voice, control, muted, paulaAt, paulaKnown>>

(* reload() of the voices in S.                                            *)
ReloadVoicesBug(S) ==
  /\ start' = [v \in Voices |-> IF v \in S THEN lc[v] ELSE start[v]]
  /\ adr' = [v \in Voices |-> IF v \in S THEN lc[v] ELSE adr[v]]
  /\ UNCHANGED end
ReloadVoices(S) ==
  LET from(new, old) == [v \in Voices |-> IF v \in S THEN new[v] ELSE old[v]]
      last == [v \in Voices |-> Reend(v)]
  IN start' = from(lc, start) /\ adr' = from(lc, adr) /\ end' = from(last, end)

(* The block of a voice may wrap at the top of memory.                     *)
Proper(S) == {v \in S : lc[v] < Reend(v)}

(* A register with a set bit: bits written are set, or cleared.            *)
ClearSet(old, S, set) == IF set THEN old \cup S ELSE old \ S

(* Writing DMACON restarts the voices that did not play.                   *)
Started == Playing' \ Playing
WriteDmacon ==
  /\ paulaAt = "code"
  /\ \E S \in SUBSET Voices, set \in BOOLEAN :
       /\ dmacon' = ClearSet(dmacon, S, set)
       /\ dmaena' \in {dmaena, set}
  /\ ReloadVoices(Started)
  /\ paulaKnown' = (paulaKnown \cap Playing') \cup Proper(Started)
  /\ UNCHANGED <<voiceRegs, intena, master, intreq, muted, paulaAt>>

WriteIntena ==
  /\ paulaAt = "code"
  /\ \E S \in SUBSET Voices, set \in BOOLEAN :
       /\ intena' = ClearSet(intena, S, set)
       /\ master' \in {master, set}
  /\ UNCHANGED <<voiceRegs, voice, dmacon, dmaena, intreq, muted, paulaAt, paulaKnown>>

(* Requesting an interrupt that is denied, because it is disabled or was   *)
(* requested already, reloads the voice.                                   *)
Denied(S) == S \ ((IF master THEN intena ELSE {}) \ intreq)
WriteIntreq ==
  /\ paulaAt = "code"
  /\ \E S \in SUBSET Voices, set \in BOOLEAN :
       /\ intreq' = ClearSet(intreq, S, set)
       /\ LET D == IF set THEN Denied(S) ELSE {}
          IN ReloadVoices(D) /\ paulaKnown' = (paulaKnown \ D) \cup Proper(D \cap Playing)
  /\ UNCHANGED <<voiceRegs, dmacon, dmaena, intena, master, muted, paulaAt>>

-----------------------------------------------------------------------------
VoicesBegin ==
  /\ paulaAt = "code" /\ paulaAt' = "mix"
  /\ muted' \in SUBSET Voices
  /\ paulaKnown' = {v \in paulaKnown : start[v] + StepOf(v) <= end[v]}
  /\ UNCHANGED <<voiceRegs, voice, control>>

(* mix_one() of a sample: past its end, the voice goes on in the block     *)
(* that its registers say, and if that is shorter, round it.               *)
RoundBug(a, b, e) == a
Round(a, b, e) == b + ((a - b) % (e - b))
VoiceSample(v) ==
  /\ paulaAt = "mix" /\ v \in Playing \ muted
  /\ Reend(v) > lc[v] /\ end[v] > adr[v]
  /\ LET a == (adr[v] + StepOf(v)) % TOP
     IN IF a < end[v]
          THEN adr' = [adr EXCEPT ![v] = a] /\ UNCHANGED <<start, end, paulaKnown>>
          ELSE /\ adr' = [adr EXCEPT ![v] = Round(lc[v] + a - end[v], lc[v], Reend(v))]
               /\ start' = [start EXCEPT ![v] = lc[v]]
               /\ end' = [end EXCEPT ![v] = Reend(v)]
               /\ paulaKnown' = IF StepOf(v) <= Words(v) THEN paulaKnown ELSE paulaKnown \ {v}
  /\ UNCHANGED <<voiceRegs, control, muted, paulaAt>>

VoicesEnd ==
  /\ paulaAt = "mix" /\ paulaAt' = "code" /\ muted' = {}
  /\ UNCHANGED <<voiceRegs, voice, control, paulaKnown>>

(* paula_reset() at a track change.                                        *)
ResetPaula ==
  /\ paulaAt = "code"
  /\ lc' = Zero /\ len' = Zero /\ per' = Zero
  /\ start' = Zero /\ adr' = [v \in Voices |-> 2] /\ end' = Zero
  /\ dmacon' = {} /\ dmaena' = TRUE /\ intena' = {} /\ master' = TRUE /\ intreq' = {}
  /\ paulaKnown' = {} /\ UNCHANGED <<muted, paulaAt>>

PaulaNext ==
  \/ \E v \in Voices : WriteVoice(v) \/ VoiceSample(v)
  \/ WriteDmacon \/ WriteIntena \/ WriteIntreq
  \/ VoicesBegin \/ VoicesEnd \/ ResetPaula

PaulaSpec == PaulaInit /\ [][PaulaNext]_paulaVars

-----------------------------------------------------------------------------
PaulaTypeOK ==
  /\ \A f \in {lc, start, adr, end} : f \in [Voices -> Place]
  /\ len \in [Voices -> 0..LenMax]
  /\ \A v \in Voices : lc[v] \in Starts[v] \cup {0} /\ len[v] \in Lengths[v] \cup {0}
  /\ per \in [Voices -> Periods]
  /\ \A S \in {dmacon, intena, intreq, muted, paulaKnown} : S \subseteq Voices
  /\ dmaena \in BOOLEAN /\ master \in BOOLEAN /\ paulaAt \in {"code", "mix"}

Voice(v) == INSTANCE BlockPlayer
               WITH from <- lc[v], to <- Reend(v), on <- v \in paulaKnown,
                    lo <- start[v], hi <- end[v], pos <- adr[v],
                    stride <- StepOf(v), mixing <- paulaAt = "mix"

(* A voice plays the blocks of its registers, each from its beginning to   *)
(* its end, though it is reprogrammed while it plays, its period changes,  *)
(* it is muted, or an interrupt that cannot happen reloads it; and DMACON  *)
(* written for some voices disturbs no other that plays.                   *)
PaulaPlaysBlocks ==
  /\ \A v \in Voices : Voice(v)!BInit
  /\ [][\A v \in Voices :
          /\ Voice(v)!BNext \/ UNCHANGED Voice(v)!bvars
          /\ dmacon' # dmacon /\ v \in Playing \cap Playing'
             => UNCHANGED <<start[v], adr[v], end[v]>>]_paulaVars

(* A voice that has a block to play never falls silent: mix_one() does not *)
(* leave the counter where the next buffer refuses it.                     *)
NeverStuck == \A v \in Voices : v \in Playing /\ start[v] < end[v] => adr[v] < end[v]
=============================================================================
