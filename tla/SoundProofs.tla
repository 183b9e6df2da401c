------------------------------ MODULE SoundProofs ------------------------------
(***************************************************************************)
(* The sound chips, for every value of their constants.  The DMA of the    *)
(* STE and each voice of Paula play the blocks they are programmed with:   *)
(* they implement BlockPlayer.  The YM-2149 replays every register write   *)
(* that it has room for, and makes the samples of the time that goes by.   *)
(***************************************************************************)
EXTENDS MwDma, Paula, Ym, TLAPS

(* Remainders and quotients.                                               *)
LEMMA ModBelow == \A x \in Int : \A n \in Nat \ {0} : x % n \in 0..(n - 1)
  OBVIOUS

LEMMA ModSame == \A n \in Nat \ {0} : \A x \in 0..(n - 1) : x % n = x
  OBVIOUS

LEMMA DivMod == \A x \in Nat : \A n \in Nat \ {0} :
                  x \div n \in Nat /\ x % n \in 0..(n - 1) /\ x = n * (x \div n) + (x % n)
  OBVIOUS

LEMMA DivMonotone == \A a, b \in Nat, n \in Nat \ {0} : a <= b => a \div n <= b \div n
<1> SUFFICES ASSUME NEW a \in Nat, NEW b \in Nat, NEW n \in Nat \ {0}, a <= b
             PROVE a \div n <= b \div n
  OBVIOUS
<1> DEFINE p == a \div n
           q == b \div n
<1>1. p \in Nat /\ q \in Nat /\ n * p <= a /\ b < n * (q + 1)
  BY DivMod
<1> HIDE DEF p, q
<1>2. n * p < n * (q + 1)
  BY <1>1
<1>3. p < q + 1
  BY <1>1, <1>2
<1> QED BY <1>1, <1>3 DEF p, q

-----------------------------------------------------------------------------
(* The DMA of the STE.                                                     *)

(* The counter is inside its block, and while a buffer is mixed the block  *)
(* is not shorter than a step.                                             *)
Inside == dma /\ dmaKnown => /\ lo <= ct /\ ct < dmaEnd
                             /\ dmaAt = "mix" => lo + stp <= dmaEnd

EndsKnown == dmaEnd \in Ends \cup {0} /\ endreg \in Ends \cup {0}

DmaInv == DmaTypeOK /\ EndsKnown /\ Inside

LEMMA DmaConstants ==
  ASSUME DmaAssumption
  PROVE  /\ TOP \in Nat /\ TOP > 0
         /\ \A b \in Bases : b \in Place
         /\ \A m \in Modes : Stride[m] \in Nat /\ Stride[m] > 0
         /\ \A e \in Ends, m \in Modes : e + Stride[m] <= TOP
         /\ \A e \in Ends : e \in Place
         /\ 0 \in Modes /\ 0 \in Place
<1>1. \A e \in Ends : e \in Nat /\ e + Stride[0] <= TOP /\ Stride[0] \in Nat /\ Stride[0] > 0
  BY DEF DmaAssumption
<1> QED BY <1>1 DEF DmaAssumption, Place, Modes

(* A restarted counter is at most as far beyond the base register as the   *)
(* old one was beyond the end, where neither wraps.                        *)
LEMMA RestartNear ==
  ASSUME DmaAssumption, DmaTypeOK, NEW c \in Place
  PROVE  /\ Restart(c) \in Place
         /\ c >= dmaEnd => \E x \in 0..(c - dmaEnd) : Restart(c) = (base + x) % TOP
<1> DEFINE l == (dmaEnd - base) % TOP
           o == (c - dmaEnd) % TOP
           x == CASE l = 0 -> 0 [] 0 < l /\ l < o -> o % l [] OTHER -> o
<1>1. Restart(c) = (base + x) % TOP
  BY DEF Restart
<1>2. TOP \in Nat \ {0} /\ base \in 0..(TOP - 1) /\ dmaEnd \in 0..(TOP - 1) /\ c \in 0..(TOP - 1)
  BY DmaConstants DEF DmaTypeOK, Place
<1>3. l \in 0..(TOP - 1) /\ o \in 0..(TOP - 1)
  BY <1>2, ModBelow
<1> HIDE DEF l, o
<1>4. x \in 0..o
  <2>1. CASE l = 0
    BY <2>1, <1>3
  <2>2. CASE 0 < l /\ l < o
    <3>1. x = o % l
      BY <2>2
    <3>2. l \in Nat \ {0}
      BY <2>2, <1>3
    <3>3. o % l \in 0..(l - 1)
      BY <3>2, <1>3, ModBelow
    <3> QED BY <3>1, <3>3, <2>2, <1>3
  <2>3. CASE l # 0 /\ ~(0 < l /\ l < o)
    BY <2>3, <1>3
  <2> QED BY <2>1, <2>2, <2>3
<1> HIDE DEF x
<1>5. base + x \in Int
  BY <1>4, <1>3, <1>2
<1>6. Restart(c) \in Place
  BY <1>1, <1>2, <1>5, ModBelow DEF Place
<1>7. ASSUME c >= dmaEnd PROVE o = c - dmaEnd
  <2>1. c - dmaEnd \in 0..(TOP - 1)
    BY <1>2, <1>7
  <2> QED BY <2>1, <1>2, ModSame DEF o
<1> QED BY <1>1, <1>4, <1>6, <1>7

-----------------------------------------------------------------------------
LEMMA DmaInvInit == DmaAssumption /\ DmaInit => DmaInv
<1> SUFFICES ASSUME DmaAssumption, DmaInit PROVE DmaInv
  OBVIOUS
<1> QED BY DmaConstants DEF DmaInit, DmaInv, DmaTypeOK, EndsKnown, Inside

(* Going on from c keeps the types.                                        *)
LEMMA GoOnTyped ==
  ASSUME DmaAssumption, DmaTypeOK, EndsKnown, NEW c \in Place, GoOn(c)
  PROVE  /\ ct' \in Place /\ dmaEnd' \in Place /\ lo' \in Place
         /\ dmaEnd' \in Ends \cup {0}
<1>1. CASE c < dmaEnd
  BY <1>1 DEF GoOn, DmaTypeOK, EndsKnown
<1>2. CASE ~(c < dmaEnd)
  BY <1>2, RestartNear DEF GoOn, DmaTypeOK, EndsKnown
<1> QED BY <1>1, <1>2

(* A mixed sample takes the counter on below the top of memory.            *)
LEMMA NoWrap ==
  ASSUME DmaAssumption, DmaTypeOK, EndsKnown, Inside, dma, dmaKnown
  PROVE  /\ (ct + stp) % TOP = ct + stp
         /\ ct < dmaEnd /\ stp \in Nat /\ stp > 0
<1>1. ct < dmaEnd /\ ct \in 0..(TOP - 1) /\ dmaEnd \in 0..(TOP - 1)
  BY DmaConstants DEF Inside, DmaTypeOK, Place
<1>2. dmaEnd \in Ends
  BY <1>1 DEF EndsKnown
<1>3. stp \in Nat /\ stp > 0 /\ dmaEnd + stp <= TOP
  BY <1>2, DmaConstants DEF DmaTypeOK, stp, Modes
<1>4. ct + stp \in 0..(TOP - 1) /\ TOP \in Nat \ {0}
  BY <1>1, <1>3, DmaConstants
<1> QED BY <1>1, <1>3, <1>4, ModSame

(* Where a step leaves a block that plays, and another follows, it enters  *)
(* that one no further from its beginning than the step went too far.      *)
LEMMA Follows ==
  ASSUME DmaAssumption, DmaTypeOK, EndsKnown, Inside, dma, dmaKnown,
         ct + stp >= dmaEnd, ct' = Restart(ct + stp),
         dmaEnd' = endreg, base + stp <= endreg
  PROVE  /\ ct' - base \in 0..(ct + stp - dmaEnd)
         /\ ct' < dmaEnd'
<1>1. /\ ct \in Nat /\ dmaEnd \in Nat /\ stp \in Nat
      /\ ct + stp < TOP /\ ct + stp - dmaEnd < stp
  <2>1. ct \in 0..(TOP - 1) /\ dmaEnd \in 0..(TOP - 1) /\ TOP \in Nat \ {0}
    BY DmaConstants DEF DmaTypeOK, Place
  <2>2. ct < dmaEnd /\ stp \in Nat /\ stp > 0 /\ (ct + stp) % TOP = ct + stp
    BY NoWrap
  <2>3. (ct + stp) % TOP \in 0..(TOP - 1)
    <3>1. ct + stp \in Int
      BY <2>1, <2>2
    <3> QED BY <2>1, <3>1, ModBelow
  <2>4. ct + stp \in 0..(TOP - 1)
    BY <2>2, <2>3
  <2> QED BY <2>1, <2>2, <2>4
<1>2. ct + stp \in Place
  BY <1>1, DmaConstants DEF Place
<1>3. PICK c \in Place : c = ct + stp
  BY <1>2
<1>4. PICK x \in 0..(c - dmaEnd) : Restart(c) = (base + x) % TOP
  BY <1>3, RestartNear
<1>5. base \in 0..(TOP - 1) /\ endreg \in 0..(TOP - 1) /\ TOP \in Nat \ {0}
  BY DmaConstants DEF DmaTypeOK, Place
<1>6. x \in Nat /\ x < stp /\ x <= ct + stp - dmaEnd
  <2>1. c - dmaEnd \in Nat /\ c - dmaEnd < stp
    BY <1>1, <1>3
  <2> QED BY <2>1, <1>1, <1>3, <1>4
<1>7. base + x \in 0..(TOP - 1) /\ base + x < endreg
  BY <1>1, <1>5, <1>6
<1>8. ct' = base + x
  <2>1. ct' = (base + x) % TOP
    BY <1>3, <1>4
  <2> QED BY <2>1, <1>5, <1>7, ModSame
<1> QED BY <1>1, <1>5, <1>6, <1>7, <1>8

-----------------------------------------------------------------------------
LEMMA InvMixBegins == DmaAssumption /\ DmaInv /\ MixBegins => DmaInv'
<1> SUFFICES ASSUME DmaAssumption, DmaInv, MixBegins PROVE DmaInv'
  OBVIOUS
<1>0. DmaTypeOK /\ EndsKnown /\ Inside
  BY DEF DmaInv
<1>1. CASE (ct < dmaEnd \/ loop) /\ GoOn(ct) /\ dmaKnown' = Fits /\ UNCHANGED <<dma, loop>>
  <2>1. ct \in Place
    BY <1>0 DEF DmaTypeOK
  <2>2. ct' \in Place /\ dmaEnd' \in Place /\ lo' \in Place /\ dmaEnd' \in Ends \cup {0}
    BY <1>0, <1>1, <2>1, GoOnTyped
  <2>3. DmaTypeOK' /\ EndsKnown'
    BY <2>2, <1>0, <1>1 DEF DmaTypeOK, EndsKnown, MixBegins, regs, Fits
  <2>4. Inside'
    <3> SUFFICES ASSUME dma', dmaKnown' PROVE lo' <= ct' /\ ct' < dmaEnd' /\ lo' + stp' <= dmaEnd'
      BY DEF Inside
    <3>1. dmaKnown /\ lo' + stp <= dmaEnd' /\ stp' = stp
      BY <1>1 DEF Fits, MixBegins, regs, stp
    <3>2. lo <= ct /\ ct < dmaEnd
      BY <3>1 DEF Inside, DmaInv, MixBegins
    <3>3. ct' = ct /\ dmaEnd' = dmaEnd /\ lo' = lo
      BY <1>1, <3>2 DEF GoOn
    <3> QED BY <3>1, <3>2, <3>3
  <2> QED BY <2>3, <2>4 DEF DmaInv
<1>2. CASE ct >= dmaEnd /\ ~loop /\ TurnOff
  BY <1>0, <1>2 DEF DmaInv, DmaTypeOK, EndsKnown, Inside, TurnOff, MixBegins, regs
<1> QED BY <1>1, <1>2 DEF MixBegins

(* The end of a block that plays on, for the sample that is mixed.         *)
LEMMA InvMixSample == DmaAssumption /\ DmaInv /\ MixSample => DmaInv'
<1> SUFFICES ASSUME DmaAssumption, DmaInv, MixSample PROVE DmaInv'
  OBVIOUS
<1> DEFINE c == (ct + stp) % TOP
<1>0. DmaTypeOK /\ EndsKnown /\ Inside
  BY DEF DmaInv
<1>1. CASE (c < dmaEnd \/ loop) /\ GoOn(c) /\ dmaKnown' = Fits /\ UNCHANGED <<dma, loop>>
  <2>1. c \in Place
    <3>1. stp \in Nat /\ ct \in 0..(TOP - 1) /\ TOP \in Nat \ {0}
      BY <1>0, DmaConstants DEF DmaTypeOK, stp, Place, Modes
    <3>2. ct + stp \in Int
      BY <3>1
    <3> QED BY <3>1, <3>2, ModBelow DEF Place
  <2> HIDE DEF c
  <2>2. ct' \in Place /\ dmaEnd' \in Place /\ lo' \in Place /\ dmaEnd' \in Ends \cup {0}
    BY <1>0, <1>1, <2>1, GoOnTyped
  <2>3. DmaTypeOK' /\ EndsKnown'
    BY <2>2, <1>0, <1>1 DEF DmaTypeOK, EndsKnown, MixSample, regs, Fits
  <2>4. Inside'
    <3> SUFFICES ASSUME dma', dmaKnown' PROVE lo' <= ct' /\ ct' < dmaEnd' /\ lo' + stp' <= dmaEnd'
      BY DEF Inside
    <3>1. dmaKnown /\ dma /\ dmaAt = "mix" /\ lo' + stp <= dmaEnd' /\ stp' = stp
      BY <1>1 DEF Fits, MixSample, regs, stp
    <3>2. lo <= ct /\ ct < dmaEnd
      BY <3>1 DEF Inside, DmaInv
    <3>3. c = ct + stp /\ stp \in Nat
      BY <1>0, <3>1, NoWrap DEF c
    <3>4. ct \in Nat /\ lo \in Nat /\ dmaEnd \in Nat /\ base \in Nat
      BY <1>0, DmaConstants DEF DmaTypeOK, Place
    <3>5. CASE c < dmaEnd
      BY <1>1, <3>1, <3>2, <3>3, <3>4, <3>5 DEF GoOn
    <3>6. CASE ~(c < dmaEnd)
      <4>1. ct' = Restart(c) /\ dmaEnd' = endreg /\ lo' = base
        BY <1>1, <3>6 DEF GoOn
      <4>2. ct' = Restart(ct + stp) /\ ct + stp >= dmaEnd /\ base + stp <= endreg
        BY <4>1, <3>1, <3>3, <3>4, <3>6
      <4>3. ct' - base \in 0..(ct + stp - dmaEnd) /\ ct' < dmaEnd'
        BY <4>1, <4>2, <3>1, <1>0, Follows
      <4>4. ct' \in Nat
        BY <2>2, DmaConstants DEF Place
      <4> QED BY <4>1, <4>2, <4>3, <4>4, <3>1, <3>3, <3>4
    <3> QED BY <3>5, <3>6
  <2> QED BY <2>3, <2>4 DEF DmaInv
<1>2. CASE TurnOff
  BY <1>0, <1>2 DEF DmaInv, DmaTypeOK, EndsKnown, Inside, TurnOff, MixSample, regs
<1> QED BY <1>1, <1>2 DEF MixSample

LEMMA DmaInvNext == DmaAssumption /\ DmaInv /\ [DmaNext]_dmaVars => DmaInv'
<1> SUFFICES ASSUME DmaAssumption, DmaInv, [DmaNext]_dmaVars PROVE DmaInv'
  OBVIOUS
<1>0. DmaTypeOK /\ EndsKnown /\ Inside
  BY DEF DmaInv
<1>1. CASE WriteAddress
  BY <1>0, <1>1, DmaConstants DEF DmaInv, DmaTypeOK, EndsKnown, Inside, WriteAddress
<1>2. CASE WriteMode
  BY <1>0, <1>2 DEF DmaInv, DmaTypeOK, EndsKnown, Inside, WriteMode
<1>3. CASE WriteActi
  <2>1. DmaTypeOK' /\ EndsKnown'
    BY <1>0, <1>3 DEF DmaTypeOK, EndsKnown, WriteActi, Load, regs
  <2>2. Inside'
    <3>1. base \in Nat
      BY <1>0, DmaConstants DEF DmaTypeOK, Place
    <3>2. /\ ct' = base /\ dmaEnd' = endreg /\ lo' = base /\ dmaAt' = "code"
          /\ dmaKnown' => base < endreg
      BY <1>3 DEF WriteActi, Load
    <3> QED BY <3>1, <3>2 DEF Inside
  <2> QED BY <2>1, <2>2 DEF DmaInv
<1>4. CASE MixBegins
  BY <1>4, InvMixBegins
<1>5. CASE MixSample
  BY <1>5, InvMixSample
<1>6. CASE MixEnds
  BY <1>0, <1>6 DEF DmaInv, DmaTypeOK, EndsKnown, Inside, MixEnds, regs
<1>7. CASE ResetDma
  BY <1>0, <1>7, DmaConstants DEF DmaInv, DmaTypeOK, EndsKnown, Inside, ResetDma
<1>8. CASE UNCHANGED dmaVars
  BY <1>0, <1>8 DEF DmaInv, DmaTypeOK, EndsKnown, Inside, dmaVars, regs, stp
<1> QED BY <1>1, <1>2, <1>3, <1>4, <1>5, <1>6, <1>7, <1>8 DEF DmaNext

(* The counters and the blocks stay in memory, and what plays is inside    *)
(* its block, which holds a whole step while a buffer is mixed.            *)
THEOREM DmaInside == DmaAssumption => (DmaSpec => [](DmaTypeOK /\ Inside))
<1> SUFFICES ASSUME DmaAssumption PROVE DmaSpec => [](DmaTypeOK /\ Inside)
  OBVIOUS
<1>1. DmaInit => DmaInv
  BY DmaInvInit
<1>2. DmaInv /\ [DmaNext]_dmaVars => DmaInv'
  BY DmaInvNext
<1>3. DmaInv => DmaTypeOK /\ Inside
  BY DEF DmaInv
<1> QED BY <1>1, <1>2, <1>3, PTL DEF DmaSpec

-----------------------------------------------------------------------------
(* Each step of the DMA is a step of the player, or one that it ignores.   *)
LEMMA DmaStep ==
  DmaAssumption /\ DmaInv /\ DmaInv' /\ [DmaNext]_dmaVars => [Player!BNext]_(Player!bvars)
<1> SUFFICES ASSUME DmaAssumption, DmaInv, DmaInv', [DmaNext]_dmaVars
             PROVE  Player!BNext \/ UNCHANGED Player!bvars
  OBVIOUS
<1>0. /\ DmaTypeOK /\ EndsKnown /\ Inside
      /\ TOP \in Nat /\ base \in Nat /\ endreg \in Nat /\ ct \in Nat /\ dmaEnd \in Nat /\ lo \in Nat
  BY DmaConstants DEF DmaInv, DmaTypeOK, Place
<1>1. CASE WriteAddress
  <2>1. Player!Command
    BY <1>1 DEF WriteAddress, Player!Command, Player!place
  <2> QED BY <2>1 DEF Player!BNext
<1>2. CASE WriteMode
  <2>1. Player!Command
    BY <1>2 DEF WriteMode, Player!Command, Player!place
  <2> QED BY <2>1 DEF Player!BNext
<1>3. CASE WriteActi
  <2>1. /\ dmaAt = "code" /\ dmaAt' = "code" /\ base' = base /\ endreg' = endreg
        /\ ct' = base /\ dmaEnd' = endreg /\ lo' = base
        /\ dmaKnown' => base < endreg
    BY <1>3 DEF WriteActi, Load, regs
  <2>2. ct' = lo' /\ (dma' /\ dmaKnown' => lo' < dmaEnd')
    BY <2>1
  <2>3. dmaAt # "mix" /\ dmaAt' # "mix" /\ lo' = base' /\ dmaEnd' = endreg'
    BY <2>1
  <2>4. Player!Command
    BY <2>2, <2>3 DEF Player!Command, Player!Programmed
  <2> QED BY <2>4 DEF Player!BNext
<1>4. CASE MixBegins
  <2>1. dmaAt = "code" /\ dmaAt' = "mix" /\ UNCHANGED <<base, endreg>> /\ stp' = stp
    BY <1>4 DEF MixBegins, regs, stp
  <2>2. CASE dmaKnown
    <3>1. ct < dmaEnd /\ dma
      BY <2>2, <1>4, <1>0 DEF MixBegins, Inside
    <3>2. GoOn(ct) /\ dmaKnown' = Fits /\ dma'
      <4>1. ~(ct >= dmaEnd)
        BY <3>1, <1>0
      <4>2. GoOn(ct) /\ dmaKnown' = Fits /\ dma' = dma
        BY <4>1, <1>4 DEF MixBegins
      <4> QED BY <4>2, <3>1
    <3>3. ct' = ct /\ dmaEnd' = dmaEnd /\ lo' = lo
      BY <3>1, <3>2 DEF GoOn
    <3>4. dmaKnown' <=> lo + stp <= dmaEnd
      BY <2>2, <3>2, <3>3 DEF Fits
    <3>5. Player!Run
      BY <2>1, <2>2, <3>1, <3>2, <3>3, <3>4 DEF Player!Run, Player!place, Player!Proper
    <3> QED BY <3>5 DEF Player!BNext
  <2>3. CASE ~dmaKnown
    <3>1. ~dmaKnown'
      BY <2>3, <1>4 DEF MixBegins, Fits, TurnOff
    <3> QED BY <2>3, <3>1 DEF Player!BNext, Player!Off
  <2> QED BY <2>2, <2>3
<1>5. CASE MixSample
  <2>1. dmaAt = "mix" /\ dmaAt' = "mix" /\ UNCHANGED <<base, endreg>> /\ stp' = stp /\ dma
    BY <1>5 DEF MixSample, regs, stp
  <2>2. CASE ~dmaKnown
    <3>1. ~dmaKnown'
      BY <2>2, <1>5 DEF MixSample, Fits, TurnOff
    <3> QED BY <2>2, <3>1 DEF Player!BNext, Player!Off
  <2>3. CASE dmaKnown
    <3>1. (ct + stp) % TOP = ct + stp /\ ct < dmaEnd /\ stp \in Nat /\ lo + stp <= dmaEnd
      BY <2>1, <2>3, <1>0, NoWrap DEF Inside
    <3>2. CASE GoOn(ct + stp) /\ dmaKnown' = Fits /\ UNCHANGED <<dma, loop>>
      <4>1. CASE ct + stp < dmaEnd
        <5>1. ct' = ct + stp /\ UNCHANGED <<dmaEnd, lo>>
          BY <3>2, <4>1 DEF GoOn
        <5>2. dmaKnown'
          BY <3>1, <3>2, <5>1, <2>3 DEF Fits
        <5>3. Player!Within
          BY <2>1, <3>2, <4>1, <5>1, <5>2 DEF Player!Within
        <5>4. Player!Sample
          BY <2>1, <2>3, <5>3 DEF Player!Sample
        <5> QED BY <5>4 DEF Player!BNext
      <4>2. CASE ~(ct + stp < dmaEnd)
        <5>1. ct' = Restart(ct + stp) /\ dmaEnd' = endreg /\ lo' = base
          BY <3>2, <4>2 DEF GoOn
        <5>2. ct + stp >= dmaEnd
          BY <1>0, <3>1, <4>2
        <5>3. ASSUME dmaKnown' PROVE lo' + stp' <= dmaEnd' /\ ct' - lo' \in 0..(ct + stp - dmaEnd)
          <6>1. base + stp <= endreg
            BY <3>2, <5>1, <5>3 DEF Fits
          <6> QED BY <6>1, <5>1, <5>2, <2>1, <2>3, <1>0, Follows
        <5>4. Player!Past
          BY <1>0, <2>1, <3>1, <5>1, <5>2, <5>3
             DEF Player!Past, Player!Overshoot, Player!Programmed, Player!Proper
        <5>5. Player!Sample
          BY <2>1, <2>3, <5>4 DEF Player!Sample
        <5> QED BY <5>5 DEF Player!BNext
      <4> QED BY <4>1, <4>2
    <3>3. CASE ct + stp >= dmaEnd /\ TurnOff
      <4>1. ~dmaKnown'
        BY <3>3 DEF TurnOff
      <4>2. Player!Past
        BY <1>0, <3>1, <3>3, <4>1 DEF Player!Past, Player!Overshoot
      <4>3. Player!Sample
        BY <2>1, <2>3, <4>2 DEF Player!Sample
      <4> QED BY <4>3 DEF Player!BNext
    <3> QED BY <1>5, <3>1, <3>2, <3>3 DEF MixSample
  <2> QED BY <2>2, <2>3
<1>6. CASE MixEnds
  <2>1. /\ dmaAt = "mix" /\ dmaAt' = "code" /\ UNCHANGED <<regs, dma, ct, dmaEnd, lo, dmaKnown>>
        /\ base' = base /\ endreg' = endreg /\ mode' = mode
    BY <1>6 DEF MixEnds, regs
  <2>2. CASE dma /\ dmaKnown
    <3>1. lo' + stp' <= dmaEnd'
      BY <2>1, <2>2, <1>0 DEF Inside, stp
    <3>2. Player!Run
      BY <2>1, <2>2, <3>1 DEF Player!Run, Player!place, Player!Proper
    <3> QED BY <3>2 DEF Player!BNext
  <2>3. CASE ~(dma /\ dmaKnown)
    BY <2>1, <2>3 DEF Player!BNext, Player!Off
  <2> QED BY <2>2, <2>3
<1>7. CASE ResetDma
  <2>1. Player!Command
    BY <1>7 DEF ResetDma, Player!Command
  <2> QED BY <2>1 DEF Player!BNext
<1>8. CASE UNCHANGED dmaVars
  BY <1>8 DEF dmaVars, regs, stp, Player!bvars
<1> QED BY <1>1, <1>2, <1>3, <1>4, <1>5, <1>6, <1>7, <1>8 DEF DmaNext

(* The DMA plays the blocks it is programmed with: mix_ste() and the       *)
(* registers of mw_io.c implement BlockPlayer.                             *)
THEOREM DmaImplements == DmaAssumption => (DmaSpec => DmaPlaysBlocks)
<1> SUFFICES ASSUME DmaAssumption PROVE DmaSpec => DmaPlaysBlocks
  OBVIOUS
<1>1. DmaInit => DmaInv
  BY DmaInvInit
<1>2. DmaInv /\ [DmaNext]_dmaVars => DmaInv'
  BY DmaInvNext
<1>3. DmaInit => Player!BInit
  BY DEF DmaInit, Player!BInit
<1>4. DmaInv /\ DmaInv' /\ [DmaNext]_dmaVars => [Player!BNext]_(Player!bvars)
  BY DmaStep
<1> QED BY <1>1, <1>2, <1>3, <1>4, PTL DEF DmaSpec, DmaPlaysBlocks, Player!BSpec

-----------------------------------------------------------------------------
(* The voices of Paula.                                                    *)

(* Every voice is in a block that it has, and every end is below the top   *)
(* of memory by a step.                                                    *)
EndsBelow == \A v \in Voices, p \in Periods : end[v] + PerStep[p] <= TOP
InBlocks == \A v \in Voices : start[v] < end[v] => adr[v] < end[v]
KnownPlay == \A v \in paulaKnown :
  /\ v \in Playing /\ start[v] <= adr[v] /\ start[v] < end[v]
  /\ paulaAt = "mix" => start[v] + StepOf(v) <= end[v]

PaulaInv == PaulaTypeOK /\ EndsBelow /\ InBlocks /\ KnownPlay

(* The block that the registers of a voice say.                            *)
LEMMA Programmed ==
  ASSUME PaulaTypeOK, NEW v \in Voices
  PROVE  /\ lc[v] \in Place /\ lc[v] \in Nat /\ Words(v) \in Nat \ {0}
         /\ Reend(v) \in Place /\ Reend(v) \in Nat
         /\ \A p \in Periods : Reend(v) + PerStep[p] <= TOP
         /\ lc[v] < Reend(v) => Reend(v) = lc[v] + Words(v)
         /\ StepOf(v) \in 1..TOP /\ per[v] \in Periods
<1>1. /\ TOP \in Nat \ {0} /\ LenMax \in Nat \ {0} /\ LenMax < TOP /\ Lengths[v] \subseteq 0..LenMax
  BY PaulaAssumption
<1>2. lc[v] \in 0..(TOP - 1) /\ lc[v] \in Starts[v] \cup {0} /\ len[v] \in Lengths[v] \cup {0}
  BY DEF PaulaTypeOK, Place
<1>3. Words(v) \in (Lengths[v] \cup {LenMax}) \ {0}
  BY <1>1, <1>2 DEF Words
<1>4. Words(v) \in Nat \ {0} /\ Words(v) < TOP
  BY <1>1, <1>3
<1>5. Reend(v) \in Place
  <2>1. lc[v] + Words(v) \in Int
    BY <1>2, <1>4
  <2> QED BY <2>1, <1>1, ModBelow DEF Reend, Place
<1>6. \A p \in Periods : Reend(v) + PerStep[p] <= TOP
  BY <1>2, <1>3, PaulaAssumption DEF Reend, Periods
<1>7. ASSUME lc[v] < Reend(v) PROVE Reend(v) = lc[v] + Words(v)
  <2> DEFINE s == lc[v] + Words(v)
  <2>1. s \in Nat /\ s < 2 * TOP /\ lc[v] < s
    BY <1>1, <1>2, <1>4
  <2>2. CASE s < TOP
    <3>1. s \in 0..(TOP - 1)
      BY <2>1, <2>2, <1>1
    <3> QED BY <3>1, <1>1, ModSame DEF Reend
  <2>3. CASE s >= TOP
    <3>1. s - TOP \in 0..(TOP - 1) /\ s - TOP < lc[v]
      BY <2>1, <2>3, <1>1, <1>2, <1>4
    <3>2. s % TOP = s - TOP
      <4> HIDE DEF s
      <4> QED BY <3>1, <2>1, <1>1
    <3> QED BY <3>1, <3>2, <1>7, <1>2 DEF Reend
  <2> QED BY <2>1, <2>2, <2>3, <1>1
<1>8. StepOf(v) \in 1..TOP /\ per[v] \in Periods
  BY PaulaAssumption DEF PaulaTypeOK, StepOf, Periods
<1> QED BY <1>1, <1>2, <1>4, <1>5, <1>6, <1>7, <1>8 DEF Place

LEMMA PaulaInvInit == PaulaInit => PaulaInv
<1> SUFFICES ASSUME PaulaInit PROVE PaulaInv
  OBVIOUS
<1>1. /\ TOP \in Nat /\ 2 < TOP /\ 0 \in DOMAIN PerStep /\ LenMax \in Nat
      /\ \A p \in DOMAIN PerStep : PerStep[p] \in 1..TOP
  BY PaulaAssumption
<1>2. PaulaTypeOK
  <2>1. Zero \in [Voices -> Place] /\ Zero \in [Voices -> 0..LenMax] /\ Zero \in [Voices -> Periods]
        /\ [v \in Voices |-> 2] \in [Voices -> Place] /\ \A v \in Voices : Zero[v] = 0
    BY <1>1 DEF Zero, Place, Periods
  <2> QED BY <2>1 DEF PaulaInit, PaulaTypeOK
<1>3. EndsBelow
  BY <1>1 DEF PaulaInit, EndsBelow, Zero, Periods
<1>4. InBlocks
  BY DEF PaulaInit, InBlocks, Zero
<1>5. KnownPlay
  BY DEF PaulaInit, KnownPlay
<1> QED BY <1>2, <1>3, <1>4, <1>5 DEF PaulaInv

-----------------------------------------------------------------------------
(* What reload() of the voices in S does.                                  *)
LEMMA Reloaded ==
  ASSUME PaulaTypeOK, EndsBelow, InBlocks, NEW S, ReloadVoices(S)
  PROVE  /\ \A f \in {start', adr', end'} : f \in [Voices -> Place]
         /\ \A v \in Voices : \A p \in Periods : end'[v] + PerStep[p] <= TOP
         /\ \A v \in Voices : start'[v] < end'[v] => adr'[v] < end'[v]
         /\ \A v \in Voices : v \in S => start'[v] = lc[v] /\ adr'[v] = lc[v] /\ end'[v] = Reend(v)
         /\ \A v \in Voices : v \notin S => start'[v] = start[v] /\ adr'[v] = adr[v] /\ end'[v] = end[v]
<1>1. /\ start' = [v \in Voices |-> IF v \in S THEN lc[v] ELSE start[v]]
      /\ adr' = [v \in Voices |-> IF v \in S THEN lc[v] ELSE adr[v]]
      /\ end' = [v \in Voices |-> IF v \in S THEN Reend(v) ELSE end[v]]
  BY DEF ReloadVoices
<1>2. \A v \in Voices : v \in S => start'[v] = lc[v] /\ adr'[v] = lc[v] /\ end'[v] = Reend(v)
  BY <1>1
<1>3. \A v \in Voices : v \notin S => start'[v] = start[v] /\ adr'[v] = adr[v] /\ end'[v] = end[v]
  BY <1>1
<1>4. \A v \in Voices : lc[v] \in Place /\ Reend(v) \in Place /\ start[v] \in Place
                        /\ adr[v] \in Place /\ end[v] \in Place
  BY Programmed DEF PaulaTypeOK
<1>5. \A f \in {start', adr', end'} : f \in [Voices -> Place]
  BY <1>1, <1>4
<1>6. \A v \in Voices : \A p \in Periods : end'[v] + PerStep[p] <= TOP
  BY <1>2, <1>3, Programmed DEF EndsBelow
<1>7. \A v \in Voices : start'[v] < end'[v] => adr'[v] < end'[v]
  BY <1>2, <1>3 DEF InBlocks
<1> QED BY <1>2, <1>3, <1>5, <1>6, <1>7

LEMMA PaulaInvWriteVoice == ASSUME NEW v \in Voices, PaulaInv, WriteVoice(v) PROVE PaulaInv'
<1>1. PaulaTypeOK'
  <2>1. /\ UNCHANGED <<start, adr, end, dmacon, dmaena, intena, master, intreq, muted, paulaAt, paulaKnown>>
        /\ \/ \E p \in Starts[v] : lc' = [lc EXCEPT ![v] = p] /\ UNCHANGED <<len, per>>
           \/ \E l \in Lengths[v] : len' = [len EXCEPT ![v] = l] /\ UNCHANGED <<lc, per>>
           \/ \E p \in Periods : per' = [per EXCEPT ![v] = p] /\ UNCHANGED <<lc, len>>
    BY DEF WriteVoice, voice, control
  <2>2. Starts[v] \subseteq Place /\ Lengths[v] \subseteq 0..LenMax
    BY PaulaAssumption
  <2>3. lc' \in [Voices -> Place] /\ len' \in [Voices -> 0..LenMax] /\ per' \in [Voices -> Periods]
    BY <2>1, <2>2 DEF PaulaInv, PaulaTypeOK
  <2>4. \A u \in Voices : lc'[u] \in Starts[u] \cup {0} /\ len'[u] \in Lengths[u] \cup {0}
    BY <2>1 DEF PaulaInv, PaulaTypeOK
  <2> QED BY <2>1, <2>3, <2>4 DEF PaulaInv, PaulaTypeOK
<1>2. EndsBelow' /\ InBlocks'
  BY DEF PaulaInv, EndsBelow, InBlocks, WriteVoice, voice
<1>3. KnownPlay'
  BY DEF PaulaInv, KnownPlay, WriteVoice, voice, control, Playing
<1> QED BY <1>1, <1>2, <1>3 DEF PaulaInv

LEMMA PaulaInvWriteDmacon == PaulaInv /\ WriteDmacon => PaulaInv'
<1> SUFFICES ASSUME PaulaInv, WriteDmacon PROVE PaulaInv'
  OBVIOUS
<1>0. PaulaTypeOK /\ EndsBelow /\ InBlocks /\ KnownPlay
  BY DEF PaulaInv
<1>1. /\ paulaAt = "code" /\ ReloadVoices(Started)
      /\ paulaKnown' = (paulaKnown \cap Playing') \cup Proper(Started)
      /\ UNCHANGED <<lc, len, per, intena, master, intreq, muted, paulaAt>>
      /\ dmacon' \subseteq Voices /\ dmaena' \in BOOLEAN
  <2>1. PICK S \in SUBSET Voices, set \in BOOLEAN :
          dmacon' = ClearSet(dmacon, S, set) /\ dmaena' \in {dmaena, set}
    BY DEF WriteDmacon
  <2>2. dmacon' \subseteq Voices /\ dmaena' \in BOOLEAN
    BY <2>1, <1>0 DEF ClearSet, PaulaTypeOK
  <2> QED BY <2>2 DEF WriteDmacon, voiceRegs
<1>2. Playing' \subseteq Voices /\ Started \subseteq Voices
  BY <1>1 DEF Playing, Started
<1>3. PaulaTypeOK'
  <2>1. paulaKnown' \subseteq Voices
    BY <1>1, <1>2 DEF Proper
  <2> QED BY <2>1, <1>0, <1>1, Reloaded DEF PaulaTypeOK
<1>4. EndsBelow' /\ InBlocks'
  BY <1>0, <1>1, Reloaded DEF EndsBelow, InBlocks
<1>5. KnownPlay'
  <2> SUFFICES ASSUME NEW v \in paulaKnown'
               PROVE  /\ v \in Playing' /\ start'[v] <= adr'[v] /\ start'[v] < end'[v]
                      /\ paulaAt' # "mix"
    BY DEF KnownPlay
  <2>1. CASE v \in Proper(Started)
    <3>1. v \in Started /\ v \in Voices /\ lc[v] < Reend(v) /\ v \in Playing'
      BY <2>1, <1>2 DEF Proper, Started
    <3>2. start'[v] = lc[v] /\ adr'[v] = lc[v] /\ end'[v] = Reend(v) /\ lc[v] \in Nat
      BY <3>1, <1>0, <1>1, Reloaded, Programmed
    <3> QED BY <3>1, <3>2, <1>1
  <2>2. CASE v \in paulaKnown /\ v \in Playing'
    <3>1. v \in Playing /\ v \notin Started /\ v \in Voices
      BY <2>2, <1>0, <1>2 DEF KnownPlay, Started
    <3>2. start'[v] = start[v] /\ adr'[v] = adr[v] /\ end'[v] = end[v]
      BY <3>1, <1>0, <1>1, Reloaded
    <3> QED BY <2>2, <3>2, <1>0, <1>1 DEF KnownPlay
  <2> QED BY <2>1, <2>2, <1>1
<1> QED BY <1>3, <1>4, <1>5 DEF PaulaInv

LEMMA PaulaInvWriteIntena == PaulaInv /\ WriteIntena => PaulaInv'
<1> SUFFICES ASSUME PaulaInv, WriteIntena PROVE PaulaInv'
  OBVIOUS
<1>1. PICK S \in SUBSET Voices, set \in BOOLEAN :
        intena' = ClearSet(intena, S, set) /\ master' \in {master, set}
  BY DEF WriteIntena
<1>2. intena' \subseteq Voices /\ master' \in BOOLEAN
  BY <1>1 DEF ClearSet, PaulaInv, PaulaTypeOK
<1>3. UNCHANGED <<lc, len, per, start, adr, end, dmacon, dmaena, intreq, muted, paulaAt, paulaKnown>>
  BY DEF WriteIntena, voiceRegs, voice
<1>4. PaulaTypeOK'
  BY <1>2, <1>3 DEF PaulaInv, PaulaTypeOK
<1>5. EndsBelow' /\ InBlocks' /\ KnownPlay'
  BY <1>3 DEF PaulaInv, EndsBelow, InBlocks, KnownPlay, Playing, StepOf
<1> QED BY <1>4, <1>5 DEF PaulaInv

LEMMA PaulaInvWriteIntreq == PaulaInv /\ WriteIntreq => PaulaInv'
<1> SUFFICES ASSUME PaulaInv, WriteIntreq PROVE PaulaInv'
  OBVIOUS
<1>0. PaulaTypeOK /\ EndsBelow /\ InBlocks /\ KnownPlay
  BY DEF PaulaInv
<1>1. PICK S \in SUBSET Voices, set \in BOOLEAN :
       /\ intreq' = ClearSet(intreq, S, set)
       /\ LET D == IF set THEN Denied(S) ELSE {}
          IN ReloadVoices(D) /\ paulaKnown' = (paulaKnown \ D) \cup Proper(D \cap Playing)
  BY DEF WriteIntreq
<1> DEFINE D == IF set THEN Denied(S) ELSE {}
<1>2. /\ paulaAt = "code" /\ ReloadVoices(D)
      /\ paulaKnown' = (paulaKnown \ D) \cup Proper(D \cap Playing)
      /\ UNCHANGED <<lc, len, per, dmacon, dmaena, intena, master, muted, paulaAt>>
      /\ intreq' \subseteq Voices
  BY <1>0, <1>1 DEF WriteIntreq, voiceRegs, ClearSet, PaulaTypeOK
<1> HIDE DEF D
<1>3. PaulaTypeOK'
  <2>1. paulaKnown' \subseteq Voices
    BY <1>0, <1>2 DEF Proper, PaulaTypeOK, Playing
  <2>2. \A f \in {lc', start', adr', end'} : f \in [Voices -> Place]
    BY <1>0, <1>2, Reloaded DEF PaulaTypeOK
  <2>3. \A S1 \in {dmacon', intena', intreq', muted', paulaKnown'} : S1 \subseteq Voices
    BY <2>1, <1>0, <1>2 DEF PaulaTypeOK
  <2> QED BY <2>2, <2>3, <1>0, <1>2 DEF PaulaTypeOK
<1>4. EndsBelow' /\ InBlocks'
  BY <1>0, <1>2, Reloaded DEF EndsBelow, InBlocks
<1>5. KnownPlay'
  <2> SUFFICES ASSUME NEW v \in paulaKnown'
               PROVE  /\ v \in Playing' /\ start'[v] <= adr'[v] /\ start'[v] < end'[v]
                      /\ paulaAt' # "mix"
    BY DEF KnownPlay
  <2>0. Playing' = Playing /\ Playing \subseteq Voices
    BY <1>0, <1>2 DEF Playing, PaulaTypeOK
  <2>1. CASE v \in Proper(D \cap Playing)
    <3>1. v \in D /\ v \in Voices /\ lc[v] < Reend(v) /\ v \in Playing
      BY <2>0, <2>1 DEF Proper
    <3>2. start'[v] = lc[v] /\ adr'[v] = lc[v] /\ end'[v] = Reend(v) /\ lc[v] \in Nat
      BY <3>1, <1>0, <1>2, Reloaded, Programmed
    <3> QED BY <3>1, <3>2, <2>0, <1>2
  <2>2. CASE v \in paulaKnown /\ v \notin D
    <3>1. v \in Playing /\ v \in Voices
      BY <2>0, <2>2, <1>0 DEF KnownPlay
    <3>2. start'[v] = start[v] /\ adr'[v] = adr[v] /\ end'[v] = end[v]
      BY <2>2, <3>1, <1>0, <1>2, Reloaded
    <3> QED BY <2>0, <2>2, <3>2, <1>0, <1>2 DEF KnownPlay
  <2> QED BY <2>1, <2>2, <1>2
<1> QED BY <1>3, <1>4, <1>5 DEF PaulaInv

LEMMA PaulaInvVoicesBegin == PaulaInv /\ VoicesBegin => PaulaInv'
<1> SUFFICES ASSUME PaulaInv, VoicesBegin PROVE PaulaInv'
  OBVIOUS
<1>1. /\ paulaAt' = "mix" /\ muted' \subseteq Voices
      /\ paulaKnown' = {v \in paulaKnown : start[v] + StepOf(v) <= end[v]}
      /\ UNCHANGED <<lc, len, per, start, adr, end, dmacon, dmaena, intena, master, intreq>>
  BY DEF VoicesBegin, voiceRegs, voice, control
<1>2. paulaKnown' \subseteq paulaKnown
  BY <1>1
<1>3. PaulaTypeOK'
  BY <1>1, <1>2 DEF PaulaInv, PaulaTypeOK
<1>4. EndsBelow' /\ InBlocks'
  BY <1>1 DEF PaulaInv, EndsBelow, InBlocks
<1>5. KnownPlay'
  BY <1>1 DEF PaulaInv, KnownPlay, Playing, StepOf
<1> QED BY <1>3, <1>4, <1>5 DEF PaulaInv

LEMMA PaulaInvVoicesEnd == PaulaInv /\ VoicesEnd => PaulaInv'
<1> SUFFICES ASSUME PaulaInv, VoicesEnd PROVE PaulaInv'
  OBVIOUS
<1>1. /\ paulaAt' = "code" /\ muted' = {}
      /\ UNCHANGED <<lc, len, per, start, adr, end, dmacon, dmaena, intena, master, intreq, paulaKnown>>
  BY DEF VoicesEnd, voiceRegs, voice, control
<1>2. PaulaTypeOK'
  BY <1>1 DEF PaulaInv, PaulaTypeOK
<1>3. EndsBelow' /\ InBlocks' /\ KnownPlay'
  BY <1>1 DEF PaulaInv, EndsBelow, InBlocks, KnownPlay, Playing, StepOf
<1> QED BY <1>2, <1>3 DEF PaulaInv

LEMMA PaulaInvReset == PaulaInv /\ ResetPaula => PaulaInv'
<1> SUFFICES ASSUME PaulaInv, ResetPaula PROVE PaulaInv'
  OBVIOUS
<1>1. /\ TOP \in Nat /\ 2 < TOP /\ 0 \in DOMAIN PerStep /\ LenMax \in Nat
      /\ \A p \in DOMAIN PerStep : PerStep[p] \in 1..TOP
  BY PaulaAssumption
<1>2. PaulaTypeOK'
  <2>1. Zero \in [Voices -> Place] /\ Zero \in [Voices -> 0..LenMax] /\ Zero \in [Voices -> Periods]
        /\ [v \in Voices |-> 2] \in [Voices -> Place] /\ \A v \in Voices : Zero[v] = 0
    BY <1>1 DEF Zero, Place, Periods
  <2>2. UNCHANGED <<muted, paulaAt>>
    BY DEF ResetPaula
  <2> QED BY <2>1, <2>2 DEF PaulaInv, ResetPaula, PaulaTypeOK
<1>3. EndsBelow'
  BY <1>1 DEF ResetPaula, EndsBelow, Zero, Periods
<1>4. InBlocks'
  BY DEF ResetPaula, InBlocks, Zero
<1>5. KnownPlay'
  BY DEF ResetPaula, KnownPlay
<1> QED BY <1>2, <1>3, <1>4, <1>5 DEF PaulaInv

-----------------------------------------------------------------------------
(* mix_one(): the place that the sample of a voice leaves it at.           *)
LEMMA SamplePlaces ==
  ASSUME NEW v \in Voices, PaulaInv, VoiceSample(v)
  PROVE  /\ start'[v] \in Place /\ adr'[v] \in Place /\ end'[v] \in Place
         /\ \A p \in Periods : end'[v] + PerStep[p] <= TOP
         /\ adr'[v] < end'[v]
         /\ v \in paulaKnown =>
              \/ /\ adr'[v] = adr[v] + StepOf(v) /\ adr[v] + StepOf(v) < end[v]
                 /\ start'[v] = start[v] /\ end'[v] = end[v] /\ v \in paulaKnown'
              \/ /\ adr[v] + StepOf(v) >= end[v] /\ start'[v] = lc[v] /\ end'[v] = Reend(v)
                 /\ adr'[v] - lc[v] \in 0..(adr[v] + StepOf(v) - end[v])
                 /\ v \in paulaKnown' => lc[v] + StepOf(v) <= Reend(v)
         /\ start' = [start EXCEPT ![v] = start'[v]] /\ adr' = [adr EXCEPT ![v] = adr'[v]]
         /\ end' = [end EXCEPT ![v] = end'[v]]
         /\ paulaKnown' \in {paulaKnown, paulaKnown \ {v}}
<1> DEFINE a == (adr[v] + StepOf(v)) % TOP
<1>0. PaulaTypeOK /\ EndsBelow /\ InBlocks /\ KnownPlay
  BY DEF PaulaInv
<1>1. /\ paulaAt = "mix" /\ Reend(v) > lc[v] /\ end[v] > adr[v]
      /\ IF a < end[v]
          THEN adr' = [adr EXCEPT ![v] = a] /\ UNCHANGED <<start, end, paulaKnown>>
          ELSE /\ adr' = [adr EXCEPT ![v] = Round(lc[v] + a - end[v], lc[v], Reend(v))]
               /\ start' = [start EXCEPT ![v] = lc[v]]
               /\ end' = [end EXCEPT ![v] = Reend(v)]
               /\ paulaKnown' = IF StepOf(v) <= Words(v) THEN paulaKnown ELSE paulaKnown \ {v}
  BY DEF VoiceSample
<1>2. /\ start[v] \in 0..(TOP - 1) /\ adr[v] \in 0..(TOP - 1) /\ end[v] \in 0..(TOP - 1)
      /\ TOP \in Nat \ {0} /\ end[v] + StepOf(v) <= TOP
      /\ start \in [Voices -> Place] /\ adr \in [Voices -> Place] /\ end \in [Voices -> Place]
  BY <1>0, PaulaAssumption, Programmed DEF PaulaTypeOK, Place, EndsBelow, StepOf
<1>3. /\ lc[v] \in Nat /\ Reend(v) \in Nat /\ Reend(v) \in Place /\ lc[v] \in Place
      /\ \A p \in Periods : Reend(v) + PerStep[p] <= TOP
      /\ Reend(v) = lc[v] + Words(v) /\ Words(v) \in Nat /\ StepOf(v) \in Nat
      /\ \A p \in Periods : end[v] + PerStep[p] <= TOP
  BY <1>0, <1>1, Programmed DEF EndsBelow
<1>4. a = adr[v] + StepOf(v)
  <2>1. adr[v] + StepOf(v) \in 0..(TOP - 1)
    BY <1>1, <1>2, <1>3
  <2> QED BY <2>1, <1>2, ModSame
<1> HIDE DEF a
<1>5. CASE a < end[v]
  <2>1. adr' = [adr EXCEPT ![v] = a] /\ UNCHANGED <<start, end, paulaKnown>>
    BY <1>1, <1>5
  <2>2. a \in Place
    BY <1>2, <1>3, <1>4, <1>5 DEF Place
  <2>3. adr'[v] = a
    BY <2>1, <1>2
  <2> QED BY <2>1, <2>2, <2>3, <1>2, <1>3, <1>4, <1>5 DEF Place
<1>6. CASE ~(a < end[v])
  <2> DEFINE o == a - end[v]
             l == Reend(v) - lc[v]
             b == Round(lc[v] + a - end[v], lc[v], Reend(v))
  <2>1. /\ adr' = [adr EXCEPT ![v] = b] /\ start' = [start EXCEPT ![v] = lc[v]]
        /\ end' = [end EXCEPT ![v] = Reend(v)]
        /\ paulaKnown' = IF StepOf(v) <= Words(v) THEN paulaKnown ELSE paulaKnown \ {v}
    BY <1>1, <1>6
  <2>2. adr'[v] = b /\ start'[v] = lc[v] /\ end'[v] = Reend(v)
    BY <2>1, <1>2
  <2>3. o \in Nat /\ l \in Nat \ {0}
    BY <1>1, <1>2, <1>3, <1>4, <1>6
  <2>4. b = lc[v] + (o % l)
    <3>1. (lc[v] + a - end[v]) - lc[v] = o
      BY <1>2, <1>3, <1>4
    <3> QED BY <3>1 DEF Round
  <2>5. o % l \in 0..(l - 1) /\ o % l <= o
    <3> HIDE DEF o, l
    <3> QED BY <2>3
  <2>6. b \in Nat /\ lc[v] <= b /\ b < Reend(v) /\ b - lc[v] \in 0..o
    <3> DEFINE m == o % l
    <3>1. m \in Nat /\ m < l /\ m <= o /\ b = lc[v] + m
      BY <2>3, <2>4, <2>5
    <3> HIDE DEF m, b
    <3> QED BY <3>1, <2>3, <1>3
  <2>7. b \in Place
    BY <2>6, <1>2, <1>3 DEF Place
  <2>8. b - lc[v] \in 0..(adr[v] + StepOf(v) - end[v]) /\ adr[v] + StepOf(v) >= end[v]
    BY <2>6, <1>2, <1>3, <1>4, <1>6
  <2>9. v \in paulaKnown' => lc[v] + StepOf(v) <= Reend(v)
    BY <2>1, <1>3
  <2> HIDE DEF b, o, l
  <2> QED BY <2>1, <2>2, <2>6, <2>7, <2>8, <2>9, <1>3
<1> QED BY <1>5, <1>6

LEMMA PaulaInvSample == ASSUME NEW v \in Voices, PaulaInv, VoiceSample(v) PROVE PaulaInv'
<1>0. PaulaTypeOK /\ EndsBelow /\ InBlocks /\ KnownPlay
  BY DEF PaulaInv
<1>1. UNCHANGED <<lc, len, per, dmacon, dmaena, intena, master, intreq, muted, paulaAt>>
  BY DEF VoiceSample, voiceRegs, control
<1>2. \A u \in Voices : u # v => start'[u] = start[u] /\ adr'[u] = adr[u] /\ end'[u] = end[u]
  BY <1>0, SamplePlaces DEF PaulaTypeOK
<1>3. PaulaTypeOK'
  <2>1. \A f \in {lc', start', adr', end'} : f \in [Voices -> Place]
    BY <1>0, <1>1, SamplePlaces DEF PaulaTypeOK
  <2>2. paulaKnown' \subseteq Voices
    BY <1>0, SamplePlaces DEF PaulaTypeOK
  <2>3. \A S \in {dmacon', intena', intreq', muted', paulaKnown'} : S \subseteq Voices
    BY <2>2, <1>0, <1>1 DEF PaulaTypeOK
  <2> QED BY <2>1, <2>3, <1>0, <1>1 DEF PaulaTypeOK
<1>4. EndsBelow'
  BY <1>0, <1>2, SamplePlaces DEF EndsBelow
<1>5. InBlocks'
  BY <1>0, <1>2, SamplePlaces DEF InBlocks
<1>6. KnownPlay'
  <2> SUFFICES ASSUME NEW u \in paulaKnown'
               PROVE  /\ u \in Playing /\ start'[u] <= adr'[u] /\ start'[u] < end'[u]
                      /\ start'[u] + StepOf(u) <= end'[u]
    BY <1>1 DEF KnownPlay, Playing, StepOf
  <2>1. u \in paulaKnown /\ u \in Voices /\ paulaAt = "mix"
    BY <1>0, SamplePlaces DEF PaulaTypeOK, VoiceSample
  <2>2. /\ u \in Playing /\ start[u] <= adr[u] /\ start[u] < end[u]
        /\ start[u] + StepOf(u) <= end[u]
    BY <2>1, <1>0 DEF KnownPlay
  <2>3. CASE u # v
    BY <2>1, <2>2, <2>3, <1>2
  <2>4. CASE u = v
    <3>1. /\ start[v] \in Nat /\ adr[v] \in Nat /\ end[v] \in Nat /\ StepOf(v) \in Nat \ {0}
          /\ lc[v] \in Nat /\ Reend(v) \in Nat /\ adr'[v] \in Nat /\ adr'[v] < end'[v]
      BY <1>0, Programmed, SamplePlaces DEF PaulaTypeOK, Place
    <3>2. \/ /\ adr'[v] = adr[v] + StepOf(v) /\ adr[v] + StepOf(v) < end[v]
             /\ start'[v] = start[v] /\ end'[v] = end[v]
          \/ /\ adr[v] + StepOf(v) >= end[v] /\ start'[v] = lc[v] /\ end'[v] = Reend(v)
             /\ adr'[v] - lc[v] \in 0..(adr[v] + StepOf(v) - end[v])
             /\ lc[v] + StepOf(v) <= Reend(v)
      BY <2>1, <2>4, SamplePlaces
    <3> QED BY <2>2, <2>4, <3>1, <3>2
  <2> QED BY <2>3, <2>4
<1> QED BY <1>3, <1>4, <1>5, <1>6 DEF PaulaInv

-----------------------------------------------------------------------------
(* The registers and the counters keep their types, and a voice known to   *)
(* play is in a block of its registers, which holds a step while a buffer  *)
(* is mixed.                                                               *)
THEOREM PaulaInvariant == PaulaSpec => []PaulaInv
<1>1. PaulaInv /\ [PaulaNext]_paulaVars => PaulaInv'
  <2> SUFFICES ASSUME PaulaInv, [PaulaNext]_paulaVars PROVE PaulaInv'
    OBVIOUS
  <2>1. CASE UNCHANGED paulaVars
    BY <2>1 DEF PaulaInv, PaulaTypeOK, EndsBelow, InBlocks, KnownPlay, Playing, StepOf,
                paulaVars, voiceRegs, voice, control
  <2> QED BY <2>1, PaulaInvWriteVoice, PaulaInvSample, PaulaInvWriteDmacon, PaulaInvWriteIntena, PaulaInvWriteIntreq,
             PaulaInvVoicesBegin, PaulaInvVoicesEnd, PaulaInvReset DEF PaulaNext
<1> QED BY <1>1, PaulaInvInit, PTL DEF PaulaSpec

(* mix_one(): a voice with a block to play is never left where the next    *)
(* buffer refuses it.                                                      *)
THEOREM VoicesGoOn == PaulaSpec => []NeverStuck
<1>1. PaulaInv => NeverStuck
  BY DEF PaulaInv, InBlocks, PaulaTypeOK, NeverStuck
<1> QED BY <1>1, PaulaInvariant, PTL

-----------------------------------------------------------------------------
(* What a step is to the voice v: a step of BlockPlayer or nothing.        *)
Plays(v) == Voice(v)!BNext \/ UNCHANGED Voice(v)!bvars
Undisturbed(v) == dmacon' # dmacon /\ v \in Playing \cap Playing'
                  => UNCHANGED <<start[v], adr[v], end[v]>>

(* reload() of the voices in S, when code writes registers, starts those   *)
(* that were given a block and leaves the others alone.                    *)
LEMMA ReloadPlays ==
  ASSUME PaulaInv, NEW S, ReloadVoices(S), paulaAt = "code", paulaAt' = "code", UNCHANGED <<lc, len, per>>,
         NEW v \in Voices, v \in paulaKnown' => (v \in paulaKnown /\ v \notin S) \/ v \in Proper(S)
  PROVE  Plays(v) /\ (v \notin S => UNCHANGED <<start[v], adr[v], end[v]>>)
<1>1. /\ v \in S => start'[v] = lc[v] /\ adr'[v] = lc[v] /\ end'[v] = Reend(v)
      /\ v \notin S => start'[v] = start[v] /\ adr'[v] = adr[v] /\ end'[v] = end[v]
  BY Reloaded DEF PaulaInv
<1>2. lc'[v] = lc[v] /\ Reend(v)' = Reend(v)
  BY DEF Reend, Words
<1>3. CASE v \in S
  <2>1. v \in paulaKnown' => lc[v] < Reend(v)
    BY <1>3 DEF Proper
  <2> QED BY <2>1, <1>1, <1>2, <1>3 DEF Plays, Voice!BNext, Voice!Command, Voice!Programmed
<1>4. CASE v \notin S
  <2>1. v \in paulaKnown' => v \in paulaKnown
    BY <1>4 DEF Proper
  <2> QED BY <2>1, <1>1, <1>4 DEF Plays, Voice!BNext, Voice!Command, Voice!place
<1> QED BY <1>3, <1>4

LEMMA WriteVoicePlays ==
  ASSUME PaulaInv, NEW u \in Voices, WriteVoice(u), NEW v \in Voices
  PROVE  Plays(v) /\ Undisturbed(v)
BY DEF WriteVoice, voice, control, Plays, Undisturbed, Voice!BNext, Voice!Command, Voice!place

LEMMA DmaconPlays ==
  ASSUME PaulaInv, WriteDmacon, NEW v \in Voices
  PROVE  Plays(v) /\ Undisturbed(v)
<1>1. /\ paulaAt = "code" /\ paulaAt' = "code" /\ ReloadVoices(Started)
      /\ paulaKnown' = (paulaKnown \cap Playing') \cup Proper(Started)
      /\ UNCHANGED <<lc, len, per>>
  BY DEF WriteDmacon, voiceRegs
<1>2. v \in paulaKnown' => (v \in paulaKnown /\ v \notin Started) \/ v \in Proper(Started)
  BY <1>1 DEF PaulaInv, KnownPlay, Started
<1>3. PICK S : S = Started
  OBVIOUS
<1>4. Plays(v) /\ (v \notin Started => UNCHANGED <<start[v], adr[v], end[v]>>)
  BY <1>1, <1>2, <1>3, ReloadPlays
<1> QED BY <1>4 DEF Undisturbed, Started

LEMMA IntreqPlays ==
  ASSUME PaulaInv, WriteIntreq, NEW v \in Voices
  PROVE  Plays(v) /\ Undisturbed(v)
<1>1. PICK S \in SUBSET Voices, set \in BOOLEAN :
       LET D == IF set THEN Denied(S) ELSE {}
       IN ReloadVoices(D) /\ paulaKnown' = (paulaKnown \ D) \cup Proper(D \cap Playing)
  BY DEF WriteIntreq
<1>2. PICK D : ReloadVoices(D) /\ paulaKnown' = (paulaKnown \ D) \cup Proper(D \cap Playing)
  BY <1>1
<1>3. /\ paulaAt = "code" /\ paulaAt' = "code"
      /\ UNCHANGED <<lc, len, per, dmacon>>
  BY DEF WriteIntreq, voiceRegs
<1>4. v \in paulaKnown' => (v \in paulaKnown /\ v \notin D) \/ v \in Proper(D)
  BY <1>2 DEF Proper
<1>5. Plays(v)
  BY <1>2, <1>3, <1>4, ReloadPlays
<1> QED BY <1>3, <1>5 DEF Undisturbed

LEMMA BeginPlays ==
  ASSUME PaulaInv, VoicesBegin, NEW v \in Voices
  PROVE  Plays(v) /\ Undisturbed(v)
<1>1. /\ paulaAt = "code" /\ paulaAt' = "mix"
      /\ paulaKnown' = {u \in paulaKnown : start[u] + StepOf(u) <= end[u]}
      /\ UNCHANGED <<lc, len, per, start, adr, end, dmacon>>
  BY DEF VoicesBegin, voiceRegs, voice, control
<1>2. Reend(v)' = Reend(v) /\ StepOf(v)' = StepOf(v)
  BY <1>1 DEF Reend, Words, StepOf
<1>3. v \in paulaKnown' <=> v \in paulaKnown /\ start[v] + StepOf(v) <= end[v]
  BY <1>1
<1> QED BY <1>1, <1>2, <1>3 DEF Plays, Undisturbed, Voice!BNext, Voice!Run, Voice!Proper, Voice!place

LEMMA EndPlays ==
  ASSUME PaulaInv, VoicesEnd, NEW v \in Voices
  PROVE  Plays(v) /\ Undisturbed(v)
<1>1. /\ paulaAt = "mix" /\ paulaAt' = "code" /\ paulaKnown' = paulaKnown
      /\ UNCHANGED <<lc, len, per, start, adr, end, dmacon>>
  BY DEF VoicesEnd, voiceRegs, voice, control
<1>2. Reend(v)' = Reend(v) /\ StepOf(v)' = StepOf(v)
  BY <1>1 DEF Reend, Words, StepOf
<1>3. v \in paulaKnown => start[v] + StepOf(v) <= end[v]
  BY <1>1 DEF PaulaInv, KnownPlay
<1> QED BY <1>1, <1>2, <1>3 DEF Plays, Undisturbed, Voice!BNext, Voice!Run, Voice!Proper, Voice!place

LEMMA SamplePlays ==
  ASSUME PaulaInv, NEW u \in Voices, VoiceSample(u), NEW v \in Voices
  PROVE  Plays(v) /\ Undisturbed(v)
<1>1. /\ paulaAt = "mix" /\ paulaAt' = "mix"
      /\ UNCHANGED <<lc, len, per, dmacon>>
  BY DEF VoiceSample, voiceRegs, control
<1>2. Reend(v)' = Reend(v) /\ StepOf(v)' = StepOf(v) /\ lc'[v] = lc[v]
  BY <1>1 DEF Reend, Words, StepOf
<1>3. /\ start \in [Voices -> Place] /\ adr \in [Voices -> Place] /\ end \in [Voices -> Place]
  BY DEF PaulaInv, PaulaTypeOK
<1>4. CASE v # u
  <2>1. start'[v] = start[v] /\ adr'[v] = adr[v] /\ end'[v] = end[v]
    BY <1>3, <1>4, SamplePlaces
  <2>2. v \in paulaKnown' <=> v \in paulaKnown
    BY <1>4, SamplePlaces
  <2> QED BY <1>1, <1>2, <2>1, <2>2 DEF Plays, Undisturbed, Voice!bvars
<1>5. CASE v = u /\ v \notin paulaKnown
  <2>1. v \notin paulaKnown'
    BY <1>5, SamplePlaces
  <2> QED BY <1>1, <1>5, <2>1 DEF Plays, Undisturbed, Voice!BNext, Voice!Off
<1>6. CASE v = u /\ v \in paulaKnown
  <2>1. \/ /\ adr'[v] = adr[v] + StepOf(v) /\ adr[v] + StepOf(v) < end[v]
           /\ start'[v] = start[v] /\ end'[v] = end[v] /\ v \in paulaKnown'
        \/ /\ adr[v] + StepOf(v) >= end[v] /\ start'[v] = lc[v] /\ end'[v] = Reend(v)
           /\ adr'[v] - lc[v] \in 0..(adr[v] + StepOf(v) - end[v])
           /\ v \in paulaKnown' => lc[v] + StepOf(v) <= Reend(v)
    BY <1>6, SamplePlaces
  <2>2. adr[v] + StepOf(v) >= end[v] => adr[v] + StepOf(v) - end[v] >= 0
    BY <1>3, Programmed DEF PaulaInv, Place
  <2>3. Voice(v)!Within \/ Voice(v)!Past
    BY <1>2, <2>1, <2>2 DEF Voice!Within, Voice!Past, Voice!Programmed, Voice!Proper, Voice!Overshoot
  <2> QED BY <1>1, <1>2, <1>6, <2>3 DEF Plays, Undisturbed, Voice!BNext, Voice!Sample
<1> QED BY <1>4, <1>5, <1>6

LEMMA OthersPlay ==
  ASSUME PaulaInv, NEW v \in Voices, WriteIntena \/ ResetPaula
  PROVE  Plays(v) /\ Undisturbed(v)
<1>1. CASE WriteIntena
  <2>1. UNCHANGED <<lc, len, per, start, adr, end, dmacon, paulaAt, paulaKnown>>
    BY <1>1 DEF WriteIntena, voiceRegs, voice
  <2>2. Reend(v)' = Reend(v) /\ StepOf(v)' = StepOf(v)
    BY <2>1 DEF Reend, Words, StepOf
  <2> QED BY <2>1, <2>2 DEF Plays, Undisturbed, Voice!bvars
<1>2. CASE ResetPaula
  <2>1. paulaAt = "code" /\ paulaAt' = "code" /\ paulaKnown' = {} /\ Playing' = {}
    BY <1>2 DEF ResetPaula, Playing
  <2> QED BY <2>1 DEF Plays, Undisturbed, Voice!BNext, Voice!Command
<1> QED BY <1>1, <1>2

(* reload() and mix_one(): each voice implements BlockPlayer, and writing  *)
(* DMACON for some voices leaves the others alone.                         *)
THEOREM PaulaImplements == PaulaSpec => PaulaPlaysBlocks
<1>1. PaulaInit => \A v \in Voices : Voice(v)!BInit
  BY DEF PaulaInit, Voice!BInit
<1>2. PaulaInv /\ [PaulaNext]_paulaVars
      => [\A v \in Voices :
          /\ Voice(v)!BNext \/ UNCHANGED Voice(v)!bvars
          /\ dmacon' # dmacon /\ v \in Playing \cap Playing'
             => UNCHANGED <<start[v], adr[v], end[v]>>]_paulaVars
  <2> SUFFICES ASSUME PaulaInv, PaulaNext, NEW v \in Voices PROVE Plays(v) /\ Undisturbed(v)
    BY DEF Plays, Undisturbed
  <2> QED BY WriteVoicePlays, SamplePlays, DmaconPlays, IntreqPlays, BeginPlays, EndPlays,
             OthersPlay DEF PaulaNext
<1> QED BY <1>1, <1>2, PaulaInvariant, PTL DEF PaulaSpec, PaulaPlaysBlocks

-----------------------------------------------------------------------------
(* The YM-2149.                                                            *)

(* The last write to a register in the list.                               *)
Written(s, r) == {i \in DOMAIN s : s[i].reg = r}
LastAt(s, r, i) == i \in Written(s, r) /\ \A j \in Written(s, r) : j <= i

(* The list is in the order of time, in the pass, and ahead of the engine. *)
Timed ==
  /\ \A i, j \in DOMAIN list : i <= j => list[i].at <= list[j].at
  /\ ymAt = "code" => \A i \in DOMAIN list : list[i].at <= YmCycle(ymClock)
  /\ ymAt = "run" => \A i \in DOMAIN list : now <= list[i].at
  /\ ymAt = "end" => list = <<>>
  /\ ymFault = "none"

(* NothingForgotten without CHOOSE.                                        *)
Kept == \A r \in Reg \ lost :
  /\ \A i \in DOMAIN list : LastAt(list, r, i) => list[i].val = shadow[r]
  /\ Written(list, r) = {} => reg[r] = shadow[r]

HasLast == \A r \in Reg : Written(list, r) # {} => \E i \in DOMAIN list : LastAt(list, r, i)

LostKnown == lost # {} => ovf

YmInv == YmTypeOK /\ Timed /\ Kept /\ HasLast /\ LostKnown /\ SamplesOfTime

LEMMA YmInvForgets == YmInv => NothingForgotten
<1> SUFFICES ASSUME YmInv PROVE NothingForgotten
  OBVIOUS
<1>1. ASSUME NEW r \in Reg PROVE Coming(r) = shadow[r] \/ r \in lost
  <2>1. Writes(r) = Written(list, r)
    BY DEF Writes, Written
  <2>2. CASE Writes(r) = {}
    BY <2>1, <2>2 DEF YmInv, Kept, Coming
  <2>3. CASE Writes(r) # {} /\ r \notin lost
    <3>1. PICK i \in DOMAIN list : LastAt(list, r, i)
      BY <2>1, <2>3 DEF YmInv, HasLast
    <3> DEFINE k == CHOOSE k \in Writes(r) : \A j \in Writes(r) : j <= k
    <3>2. k \in Writes(r) /\ \A j \in Writes(r) : j <= k
      BY <3>1, <2>1 DEF LastAt
    <3>3. k \in DOMAIN list /\ LastAt(list, r, k)
      BY <3>2, <2>1 DEF LastAt, Written
    <3>4. Coming(r) = list[k].val
      BY <2>3 DEF Coming
    <3> QED BY <3>3, <3>4, <2>3 DEF YmInv, Kept
  <2> QED BY <2>2, <2>3
<1> QED BY <1>1 DEF YmInv, Timed, LostKnown, NothingForgotten

-----------------------------------------------------------------------------
LEMMA CycleInPass == \A c \in 0..PassLength : YmCycle(c) \in 0..PassCycles
<1> SUFFICES ASSUME NEW c \in 0..PassLength PROVE YmCycle(c) \in 0..PassCycles
  OBVIOUS
<1>1. c \in Nat /\ PassLength \in Nat /\ c <= PassLength /\ Ratio \in Nat \ {0}
  BY YmAssumption
<1>2. c \div Ratio \in Nat /\ PassLength \div Ratio \in Nat /\ c \div Ratio <= PassLength \div Ratio
  BY <1>1, DivMonotone, DivMod
<1> QED BY <1>2 DEF YmCycle, PassCycles

Entry == [at : 0..PassCycles, reg : Reg, val : Val]

LEMMA ListTyped ==
  ASSUME YmTypeOK
  PROVE  /\ PassCycles \in Nat /\ PassLength \in Nat /\ ymClock \in Nat
         /\ list \in Seq(Entry)
         /\ \A i \in DOMAIN list : list[i] \in Entry /\ list[i].at \in Nat
<1>1. PassCycles \in Nat /\ PassLength \in Nat
  BY YmAssumption, CycleInPass DEF PassCycles
<1>2. list \in Seq(Entry) /\ ymClock \in Nat
  BY <1>1 DEF YmTypeOK, Entry
<1>3. \A i \in DOMAIN list : list[i] \in Entry
  BY <1>2
<1> QED BY <1>1, <1>2, <1>3 DEF Entry

LEMMA YmInvInit == YmInit => YmInv
<1> SUFFICES ASSUME YmInit PROVE YmInv
  OBVIOUS
<1>1. PassCycles \in Nat /\ 0 \in 0..PassCycles
  BY YmAssumption, DivMod DEF PassCycles, YmCycle
<1>2. list = <<>> /\ list \in Seq(Entry) /\ Len(list) = 0 /\ DOMAIN list = {}
  BY DEF YmInit
<1>3. YmTypeOK
  BY <1>1, <1>2, YmAssumption DEF YmInit, YmTypeOK, Entry
<1>4. Timed /\ LostKnown /\ HasLast /\ SamplesOfTime
  BY <1>2 DEF YmInit, Timed, LostKnown, HasLast, Written, SamplesOfTime
<1>5. Kept
  BY <1>2 DEF YmInit, Kept, LastAt, Written
<1> QED BY <1>3, <1>4, <1>5 DEF YmInv

-----------------------------------------------------------------------------
(* Steps that leave the list and both copies of the registers alone.       *)
LEMMA SameWrites ==
  ASSUME Kept, HasLast, LostKnown, UNCHANGED <<list, shadow, reg, lost, ovf>>
  PROVE  Kept' /\ HasLast' /\ LostKnown'
BY DEF Kept, HasLast, LostKnown, LastAt, Written

LEMMA YmInvSelect == YmInv /\ Select => YmInv'
<1> SUFFICES ASSUME YmInv, Select PROVE YmInv'
  OBVIOUS
<1>1. YmTypeOK'
  BY DEF YmInv, YmTypeOK, Select, generated
<1>2. Timed'
  BY DEF YmInv, Timed, Select, generated
<1>3. SamplesOfTime'
  BY DEF YmInv, SamplesOfTime, Select, generated
<1>4. Kept' /\ HasLast' /\ LostKnown'
  BY SameWrites DEF YmInv, Select, generated
<1> QED BY <1>1, <1>2, <1>3, <1>4 DEF YmInv

LEMMA YmInvInterrupt == YmInv /\ Interrupt => YmInv'
<1> SUFFICES ASSUME YmInv, Interrupt PROVE YmInv'
  OBVIOUS
<1>0. ymClock' \in 0..PassLength /\ ymClock <= ymClock' /\ ymClock \in 0..PassLength
  <2>1. ymClock' \in Times /\ ymClock' >= ymClock /\ ymClock' < PassLength
    BY DEF Interrupt
  <2>2. Times \subseteq Nat /\ PassLength \in Nat /\ ymClock \in 0..PassLength
    BY YmAssumption DEF YmInv, YmTypeOK
  <2>3. ymClock' \in Nat
    BY <2>1, <2>2
  <2> QED BY <2>1, <2>2, <2>3
<1>1. YmTypeOK'
  BY <1>0 DEF YmInv, YmTypeOK, Interrupt, generated, chip
<1>2. Timed'
  <2>1. YmCycle(ymClock) <= YmCycle(ymClock')
    <3>1. ymClock \in Nat /\ ymClock' \in Nat /\ Ratio \in Nat \ {0}
      BY <1>0, YmAssumption
    <3> QED BY <1>0, <3>1, DivMonotone DEF YmCycle
  <2>2. YmCycle(ymClock) \in Int /\ YmCycle(ymClock') \in Int
    BY <1>0, CycleInPass, YmAssumption
  <2>3. \A i \in DOMAIN list : list[i].at \in Int
    BY ListTyped DEF YmInv
  <2>4. ymAt = "code" /\ ymAt' = ymAt /\ list' = list /\ ymFault' = ymFault
    BY DEF Interrupt, chip
  <2> QED BY <2>1, <2>2, <2>3, <2>4 DEF YmInv, Timed
<1>3. SamplesOfTime'
  BY DEF YmInv, SamplesOfTime, Interrupt, generated
<1>4. Kept' /\ HasLast' /\ LostKnown'
  BY SameWrites DEF YmInv, Interrupt, generated, chip
<1> QED BY <1>1, <1>2, <1>3, <1>4 DEF YmInv

LEMMA YmInvCodeEnds == YmInv /\ YmCodeEnds => YmInv'
<1> SUFFICES ASSUME YmInv, YmCodeEnds PROVE YmInv'
  OBVIOUS
<1>0. PassCycles \in Nat /\ YmTypeOK
  BY YmAssumption, CycleInPass DEF PassCycles, YmInv
<1>1. YmTypeOK'
  BY <1>0, YmAssumption DEF YmTypeOK, YmCodeEnds, chip
<1>2. Timed'
  <2>1. \A i \in DOMAIN list : list[i].at \in Nat
    BY <1>0, ListTyped
  <2> QED BY <2>1 DEF YmInv, Timed, YmCodeEnds, chip
<1>3. SamplesOfTime'
  <2>1. engine \in {"blep", "puls"} /\ rest \in Nat /\ FIX \in Nat /\ CPS \in Nat
    BY <1>0, YmAssumption DEF YmTypeOK
  <2>2. /\ now' = 0 /\ made' = 0 /\ rest0' = rest /\ rest' = rest /\ engine' = engine
        /\ ymAt' = "run"
    BY DEF YmCodeEnds
  <2>3. 0 * CPS = 0 /\ 0 * FIX = 0 /\ 0 * 8 = 0
    BY <2>1
  <2>4. rest + 0 * CPS = 0 * FIX + rest
    BY <2>1, <2>3
  <2> QED BY <2>1, <2>2, <2>3, <2>4 DEF SamplesOfTime
<1>4. Kept' /\ HasLast' /\ LostKnown'
  BY SameWrites DEF YmInv, YmCodeEnds, chip
<1> QED BY <1>1, <1>2, <1>3, <1>4 DEF YmInv

LEMMA YmInvAdjust == YmInv /\ YmAdjust => YmInv'
<1> SUFFICES ASSUME YmInv, YmAdjust PROVE YmInv'
  OBVIOUS
<1>0. list = <<>> /\ ymFault' = ymFault /\ DOMAIN list = {}
  BY DEF YmInv, Timed, YmAdjust
<1>1. YmTypeOK'
  BY <1>0, YmAssumption DEF YmInv, YmTypeOK, YmAdjust, chip, generated
<1>2. Timed'
  BY <1>0 DEF YmInv, Timed, YmAdjust, chip
<1>3. SamplesOfTime'
  BY DEF SamplesOfTime, YmAdjust
<1>4. Kept' /\ HasLast' /\ LostKnown'
  BY SameWrites DEF YmInv, YmAdjust, chip, generated
<1> QED BY <1>1, <1>2, <1>3, <1>4 DEF YmInv

LEMMA YmInvReset == YmInv /\ ResetYm => YmInv'
<1> SUFFICES ASSUME YmInv, ResetYm PROVE YmInv'
  OBVIOUS
<1>0. list' = <<>> /\ DOMAIN list' = {} /\ list' \in Seq(Entry) /\ Len(list') = 0
  BY DEF ResetYm, EmptyList
<1>1. YmTypeOK'
  <2>1. ymAt' = "code" /\ ymClock' = 0 /\ ctrl' = 0 /\ shadow' = Reset0 /\ reg' = Reset0 /\ ovf' = FALSE
        /\ rest' \in {0, rest} /\ lost' = {} /\ UNCHANGED <<now, made, engine, ymFault, rest0>>
    BY DEF ResetYm, EmptyList
  <2>2. Reset0 \in [Reg -> Val] /\ 0 \in Reg /\ 0 \in 0..PassLength /\ ListMax \in Nat
    BY YmAssumption
  <2> QED BY <2>1, <2>2, <1>0 DEF YmInv, YmTypeOK, Entry
<1>2. Timed'
  BY <1>0 DEF YmInv, Timed, ResetYm
<1>3. SamplesOfTime'
  BY DEF SamplesOfTime, ResetYm
<1>4. Kept' /\ HasLast'
  BY <1>0 DEF Kept, HasLast, LastAt, Written, ResetYm
<1>5. LostKnown'
  BY DEF LostKnown, ResetYm
<1> QED BY <1>1, <1>2, <1>3, <1>4, <1>5 DEF YmInv

-----------------------------------------------------------------------------
(* A write at the end of the list.                                         *)
LEMMA AppendEntry ==
  ASSUME NEW e \in Entry, NEW s \in Seq(Entry)
  PROVE  LET t == Append(s, e)
         IN /\ t \in Seq(Entry) /\ Len(t) = Len(s) + 1
            /\ DOMAIN s = 1..Len(s) /\ DOMAIN t = 1..(Len(s) + 1)
            /\ \A i \in DOMAIN s : t[i] = s[i]
            /\ t[Len(s) + 1] = e /\ Len(s) \in Nat
OBVIOUS

LEMMA YmInvWrite == YmInv /\ WriteReg => YmInv'
<1> SUFFICES ASSUME YmInv, WriteReg PROVE YmInv'
  OBVIOUS
<1> USE DEF Entry
<1>1. PICK v \in Val :
       /\ shadow' = IF ctrl \in Reg THEN [shadow EXCEPT ![ctrl] = v] ELSE shadow
       /\ IF ctrl \in Reg /\ Len(list) < ListMax
            THEN /\ list' = Append(list, [at |-> YmCycle(ymClock), reg |-> ctrl, val |-> v])
                 /\ lost' = lost \ {ctrl} /\ UNCHANGED ovf
            ELSE /\ ovf' = (ovf \/ ctrl \in Reg)
                 /\ lost' = lost \cup ({ctrl} \cap Reg) /\ UNCHANGED list
  BY DEF WriteReg
<1>2. UNCHANGED <<ctrl, reg, now, rest, made, ymClock, ymAt, engine, ymFault, rest0>> /\ ymAt = "code"
  BY DEF WriteReg, generated
<1>3. SamplesOfTime'
  BY <1>2 DEF SamplesOfTime
<1>4. YmTypeOK /\ Timed /\ Kept /\ HasLast /\ LostKnown
  BY DEF YmInv
<1>5. CASE ~(ctrl \in Reg /\ Len(list) < ListMax)
  <2>1. YmTypeOK'
    BY <1>1, <1>2, <1>4, <1>5 DEF YmTypeOK
  <2>2. Timed'
    BY <1>1, <1>2, <1>4, <1>5 DEF Timed
  <2>3. \A r \in Reg \ lost' : r \in Reg \ lost /\ shadow'[r] = shadow[r]
    BY <1>1, <1>4, <1>5 DEF YmTypeOK
  <2>4. Kept' /\ HasLast'
    BY <1>1, <1>2, <1>4, <1>5, <2>3 DEF Kept, HasLast, LastAt, Written
  <2>5. LostKnown'
    BY <1>1, <1>4, <1>5 DEF LostKnown, YmTypeOK
  <2> QED BY <2>1, <2>2, <2>4, <2>5, <1>3 DEF YmInv
<1>6. CASE ctrl \in Reg /\ Len(list) < ListMax
  <2> DEFINE e == [at |-> YmCycle(ymClock), reg |-> ctrl, val |-> v]
             n == Len(list) + 1
  <2>1. e \in Entry /\ list \in Seq(Entry) /\ list' = Append(list, e)
    BY <1>1, <1>4, <1>6, CycleInPass DEF YmTypeOK
  <2>2. /\ list' \in Seq(Entry) /\ Len(list') = n
        /\ DOMAIN list = 1..Len(list) /\ DOMAIN list' = 1..n
        /\ \A i \in DOMAIN list : list'[i] = list[i]
        /\ list'[n] = e /\ Len(list) \in Nat
    BY <2>1, AppendEntry
  <2>3. e.at = YmCycle(ymClock) /\ e.reg = ctrl /\ e.val = v
    OBVIOUS
  <2> HIDE DEF e
  <2>4. YmTypeOK'
    BY <1>1, <1>2, <1>4, <1>6, <2>2, YmAssumption DEF YmTypeOK
  <2>5. Timed'
    <3>1. \A i \in DOMAIN list : list[i].at \in Nat
      BY <1>4, ListTyped
    <3>2. \A i \in DOMAIN list' : list'[i].at <= YmCycle(ymClock)
      <4>1. \A i \in DOMAIN list : list[i].at <= YmCycle(ymClock)
        BY <1>2, <1>4 DEF Timed
      <4>2. YmCycle(ymClock) \in 0..PassCycles
        BY <1>4, CycleInPass DEF YmTypeOK
      <4> QED BY <2>2, <2>3, <4>1, <4>2
    <3>3. \A i, j \in DOMAIN list' : i <= j => list'[i].at <= list'[j].at
      <4> SUFFICES ASSUME NEW i \in DOMAIN list', NEW j \in DOMAIN list', i <= j
                   PROVE list'[i].at <= list'[j].at
        OBVIOUS
      <4>1. CASE j \in DOMAIN list
        <5>1. i \in DOMAIN list
          BY <2>2, <4>1
        <5> QED BY <4>1, <5>1, <2>2, <1>4 DEF Timed
      <4>2. CASE j = n
        BY <4>2, <3>2, <2>2, <2>3
      <4> QED BY <4>1, <4>2, <2>2
    <3> QED BY <3>2, <3>3, <1>2, <1>4 DEF Timed
  <2>6. \A r \in Reg : /\ r = ctrl => \A i : LastAt(list', r, i) <=> i = n
                       /\ r # ctrl => /\ \A i : LastAt(list', r, i) <=> LastAt(list, r, i)
                                      /\ Written(list', r) = Written(list, r)
    <3> SUFFICES ASSUME NEW r \in Reg
                 PROVE  /\ r = ctrl => \A i : LastAt(list', r, i) <=> i = n
                        /\ r # ctrl => /\ \A i : LastAt(list', r, i) <=> LastAt(list, r, i)
                                       /\ Written(list', r) = Written(list, r)
      OBVIOUS
    <3>1. n \in DOMAIN list' /\ n \notin DOMAIN list /\ \A i \in DOMAIN list' : i \in DOMAIN list \/ i = n
      BY <2>2
    <3>2. CASE r # ctrl
      <4>1. Written(list', r) = Written(list, r)
        BY <3>1, <3>2, <2>2, <2>3 DEF Written
      <4> QED BY <4>1, <3>2 DEF LastAt
    <3>3. CASE r = ctrl
      <4>1. n \in Written(list', r)
        BY <3>1, <3>3, <2>2, <2>3 DEF Written
      <4>2. \A i \in Written(list', r) : i <= n /\ i \in Nat
        BY <2>2 DEF Written
      <4>3. n \in Nat
        BY <2>2
      <4>4. \A i : LastAt(list', r, i) <=> i = n
        BY <4>1, <4>2, <4>3 DEF LastAt
      <4> QED BY <4>4, <3>3
    <3> QED BY <3>2, <3>3
  <2>7. Kept'
    <3> SUFFICES ASSUME NEW r \in Reg \ lost'
                 PROVE  /\ \A i \in DOMAIN list' : LastAt(list', r, i) => list'[i].val = shadow'[r]
                        /\ Written(list', r) = {} => reg'[r] = shadow'[r]
      BY DEF Kept
    <3>1. CASE r = ctrl
      <4>1. shadow'[r] = v
        BY <1>1, <1>4, <1>6, <3>1 DEF YmTypeOK
      <4>2. n \in Written(list', r)
        BY <2>6, <3>1 DEF LastAt
      <4> QED BY <4>1, <4>2, <2>2, <2>3, <2>6, <3>1
    <3>2. CASE r # ctrl
      <4>1. shadow'[r] = shadow[r] /\ r \notin lost /\ reg' = reg
        BY <1>1, <1>2, <1>4, <1>6, <3>2 DEF YmTypeOK
      <4>2. \A i : LastAt(list', r, i) => i \in DOMAIN list /\ LastAt(list, r, i)
        BY <2>6, <3>2 DEF LastAt, Written
      <4> QED BY <4>1, <4>2, <2>2, <2>6, <3>2, <1>4 DEF Kept
    <3> QED BY <3>1, <3>2
  <2>8. HasLast'
    <3> SUFFICES ASSUME NEW r \in Reg, Written(list', r) # {}
                 PROVE \E i \in DOMAIN list' : LastAt(list', r, i)
      BY DEF HasLast
    <3>1. CASE r = ctrl
      BY <3>1, <2>6, <2>2
    <3>2. CASE r # ctrl
      <4>1. PICK i \in DOMAIN list : LastAt(list, r, i)
        BY <3>2, <2>6, <1>4 DEF HasLast
      <4> QED BY <4>1, <3>2, <2>6, <2>2
    <3> QED BY <3>1, <3>2
  <2>9. LostKnown'
    BY <1>1, <1>4, <1>6 DEF LostKnown
  <2> QED BY <2>4, <2>5, <2>7, <2>8, <2>9, <1>3 DEF YmInv
<1> QED BY <1>5, <1>6

-----------------------------------------------------------------------------
(* A sample is made before the next event, or the end of the pass.         *)
LEMMA YmInvSample == YmInv /\ Sample => YmInv'
<1> SUFFICES ASSUME YmInv, Sample PROVE YmInv'
  OBVIOUS
<1> DEFINE d == rest \div FIX
           m == rest % FIX
<1>0. YmTypeOK /\ Timed
  BY DEF YmInv
<1>1. /\ rest \in Nat /\ now \in 0..PassCycles /\ made \in Nat /\ FIX \in Nat \ {0} /\ CPS \in Nat
      /\ PassCycles \in Nat
  BY <1>0, ListTyped, YmAssumption DEF YmTypeOK
<1>2. d \in Nat /\ m \in Nat /\ rest = FIX * d + m
  BY <1>1, DivMod
<1>3. /\ now' = now + d /\ rest' = m + CPS /\ made' = made + 1 /\ now + d < Target
      /\ ymAt = "run" /\ engine = "blep"
      /\ UNCHANGED <<chip, reg, ymClock, ymAt, engine, ymFault, rest0>>
  BY DEF Sample, Due
<1> HIDE DEF d, m
<1>4. Target <= PassCycles /\ Target \in Nat /\ \A i \in DOMAIN list : Target <= list[i].at
  <2>1. CASE list = <<>>
    BY <2>1, <1>1 DEF Target
  <2>2. CASE list # <<>>
    <3>1. 1 \in DOMAIN list /\ Head(list) = list[1] /\ \A i \in DOMAIN list : 1 <= i
      BY <2>2, <1>0, ListTyped
    <3>2. Target = list[1].at /\ list[1] \in Entry
      BY <2>2, <3>1, <1>0, ListTyped DEF Target
    <3> QED BY <3>1, <3>2, <1>0, <1>1 DEF Timed, Entry
  <2> QED BY <2>1, <2>2
<1>5. YmTypeOK'
  <2>1. now' \in 0..PassCycles /\ rest' \in Nat /\ made' \in Nat
    BY <1>1, <1>2, <1>3, <1>4
  <2> QED BY <2>1, <1>3, <1>0 DEF YmTypeOK, chip
<1>6. Timed'
  <2>1. \A i \in DOMAIN list : now' <= list[i].at
    BY <1>1, <1>2, <1>3, <1>4, <1>0, ListTyped
  <2> QED BY <2>1, <1>3, <1>0 DEF Timed, chip
<1>7. SamplesOfTime'
  <2>1. rest0 + made * CPS = now * FIX + rest
    BY <1>3 DEF YmInv, SamplesOfTime
  <2>2. rest0' + made' * CPS = now' * FIX + rest'
    <3>1. made' * CPS = made * CPS + CPS
      BY <1>1, <1>3
    <3>2. now' * FIX = now * FIX + FIX * d
      BY <1>1, <1>2, <1>3
    <3>3. made * CPS \in Int /\ now * FIX \in Int /\ FIX * d \in Int
      BY <1>1, <1>2
    <3>4. rest0 + made * CPS \in Int => rest0' = rest0
      BY <1>3
    <3> DEFINE a == made * CPS
               b == now * FIX
               c == FIX * d
    <3> HIDE DEF a, b, c
    <3>5. rest0' + (a + CPS) = b + c + (m + CPS)
      <4>1. rest0 \in Int
        BY <1>0 DEF YmTypeOK
      <4>2. a \in Int /\ b \in Int /\ c \in Int /\ rest0 + a = b + rest /\ rest = c + m
        BY <2>1, <1>2, <3>3 DEF a, b, c
      <4> QED BY <4>1, <4>2, <1>1, <1>2, <1>3
    <3> QED BY <3>1, <3>2, <3>5, <1>3 DEF a, b, c
  <2> QED BY <2>2, <1>3 DEF SamplesOfTime
<1>8. Kept' /\ HasLast' /\ LostKnown'
  BY <1>3, SameWrites DEF YmInv, chip
<1> QED BY <1>5, <1>6, <1>7, <1>8 DEF YmInv

(* The engine reaches t, the time of the next event or the end of the pass. *)
LEMMA ReachTime ==
  ASSUME YmTypeOK, ymAt = "run", SamplesOfTime, NEW t \in 0..PassCycles, now <= t, Reach(t),
         t = Target, rest0' = rest0, engine' = engine
  PROVE  /\ now' \in 0..PassCycles /\ now' <= t /\ rest' \in Nat /\ made' \in Nat
         /\ SamplesOfTime'
<1>1. /\ rest \in Nat /\ now \in Nat /\ made \in Nat /\ FIX \in Nat \ {0} /\ CPS \in Nat
      /\ rest0 \in Nat /\ t \in Nat /\ t <= PassCycles /\ PassCycles \in Nat
  BY ListTyped, YmAssumption DEF YmTypeOK
<1>2. CASE engine = "blep" /\ ~Due /\ rest' = rest - (t - now) * FIX /\ now' = t /\ made' = made
  <2> DEFINE d == rest \div FIX
             m == rest % FIX
             k == t - now
  <2>1. d \in Nat /\ m \in Nat /\ rest = FIX * d + m
    <3>1. rest \in Nat /\ FIX \in Nat \ {0}
      BY <1>1
    <3>2. d \in Nat /\ m \in 0..(FIX - 1) /\ rest = FIX * d + m
      BY <3>1, DivMod, Zenon
    <3> QED BY <3>1, <3>2
  <2>2. k \in Nat /\ k <= d
    <3>1. ~(now + d < t)
      BY <1>2 DEF Due
    <3> QED BY <3>1, <2>1, <1>1
  <2>3. k * FIX <= FIX * d /\ k * FIX \in Nat /\ FIX * d \in Nat
    <3> HIDE DEF k, d
    <3>1. d - k \in Nat
      BY <2>1, <2>2
    <3>2. FIX * (d - k) \in Nat /\ FIX * d = FIX * (d - k) + k * FIX /\ k * FIX \in Nat
      BY <3>1, <2>1, <2>2, <1>1
    <3> QED BY <3>2
  <2>4. rest' \in Nat /\ rest' = rest - k * FIX
    BY <2>1, <2>3, <1>1, <1>2
  <2>5. t * FIX = now * FIX + k * FIX /\ now * FIX \in Int
    BY <1>1
  <2>6. rest0 + made * CPS = now * FIX + rest /\ made * CPS \in Int
    BY <1>1, <1>2 DEF SamplesOfTime
  <2>7. rest0' + made' * CPS = now' * FIX + rest'
    <3> DEFINE a == made * CPS
               b == now * FIX
               c == k * FIX
    <3>1. a \in Int /\ b \in Int /\ c \in Int /\ rest0 + a = b + rest /\ t * FIX = b + c
      BY <2>3, <2>5, <2>6
    <3>2. rest' = rest - c /\ made' * CPS = a /\ now' * FIX = t * FIX
      BY <1>2, <2>4
    <3> HIDE DEF a, b, c, k
    <3>3. rest0 + a = (b + c) + (rest - c)
      BY <3>1, <1>1
    <3> QED BY <3>1, <3>2, <3>3
  <2> QED BY <2>4, <2>7, <1>1, <1>2 DEF SamplesOfTime
<1>3. CASE engine = "puls" /\ made' = made + (t - now) \div 8 /\ now' = Left(t) /\ rest' = rest
  <2> DEFINE d == (t - now) \div 8
  <2>1. d \in Nat /\ 8 * d <= t - now /\ t - now \in Nat
    BY <1>1
  <2>2. made' = made + d /\ now' = now + 8 * d
    BY <1>3 DEF Left
  <2> HIDE DEF d
  <2>3. made * 8 = now
    BY <1>3 DEF SamplesOfTime
  <2>4. /\ now' \in Nat /\ now' <= t /\ now' <= PassCycles /\ made' \in Nat
        /\ made' * 8 = now'
    BY <2>1, <2>2, <2>3, <1>1
  <2> QED BY <2>4, <1>1, <1>3 DEF SamplesOfTime
<1> QED BY <1>2, <1>3 DEF Reach

LEMMA YmInvRunEnds == YmInv /\ RunEnds => YmInv'
<1> SUFFICES ASSUME YmInv, RunEnds PROVE YmInv'
  OBVIOUS
<1>0. YmTypeOK /\ Timed /\ SamplesOfTime
  BY DEF YmInv
<1>1. /\ ymAt = "run" /\ ymAt' = "end" /\ list = <<>> /\ Reach(PassCycles)
      /\ UNCHANGED <<chip, reg, ymClock, engine, ymFault, rest0>>
  BY DEF RunEnds
<1>2. /\ now' \in 0..PassCycles /\ now' <= PassCycles /\ rest' \in Nat /\ made' \in Nat
      /\ SamplesOfTime'
  <2>1. PassCycles \in 0..PassCycles /\ now <= PassCycles
    BY <1>0, ListTyped DEF YmTypeOK
  <2>2. PassCycles = Target
    BY <1>1 DEF Target
  <2> QED BY <2>1, <2>2, <1>0, <1>1, ReachTime
<1>3. YmTypeOK'
  BY <1>0, <1>1, <1>2 DEF YmTypeOK, chip
<1>4. Timed'
  BY <1>0, <1>1 DEF Timed, chip
<1>5. Kept' /\ HasLast' /\ LostKnown'
  BY <1>1, SameWrites DEF YmInv, chip
<1> QED BY <1>2, <1>3, <1>4, <1>5 DEF YmInv

(* The engine takes the first event.                                       *)
LEMMA YmInvEvent == YmInv /\ Event => YmInv'
<1> SUFFICES ASSUME YmInv, Event PROVE YmInv'
  OBVIOUS
<1>0. YmTypeOK /\ Timed /\ SamplesOfTime /\ Kept /\ HasLast /\ LostKnown
  BY DEF YmInv
<1> DEFINE e == Head(list)
<1>1. /\ ymAt = "run" /\ list # <<>> /\ Reach(e.at)
      /\ reg' = [reg EXCEPT ![e.reg] = e.val]
      /\ ymFault' = IF now <= e.at /\ e.at <= PassCycles THEN ymFault ELSE "disorder"
      /\ list' = Tail(list)
      /\ UNCHANGED <<ctrl, shadow, ovf, lost, ymClock, ymAt, engine, rest0>>
  BY DEF Event
<1>2. /\ Len(list) \in Nat /\ Len(list) > 0 /\ DOMAIN list = 1..Len(list)
      /\ e = list[1] /\ e \in Entry /\ list' \in Seq(Entry)
      /\ Len(list') = Len(list) - 1 /\ DOMAIN list' = 1..(Len(list) - 1)
      /\ \A i \in DOMAIN list' : i + 1 \in DOMAIN list /\ list'[i] = list[i + 1]
  BY <1>0, <1>1, ListTyped
<1>3. now <= e.at /\ e.at \in 0..PassCycles /\ e.reg \in Reg /\ e.val \in Val /\ ymFault' = ymFault
  <2>1. e.at \in 0..PassCycles /\ e.reg \in Reg /\ e.val \in Val
    BY <1>2 DEF Entry
  <2>2. now <= e.at
    BY <1>0, <1>1, <1>2 DEF Timed
  <2> QED BY <2>1, <2>2, <1>1, <1>0, ListTyped
<1>4. Target = e.at
  BY <1>1 DEF Target
<1> HIDE DEF e
<1>5. /\ now' \in 0..PassCycles /\ now' <= e.at /\ rest' \in Nat /\ made' \in Nat
      /\ SamplesOfTime'
  BY <1>0, <1>1, <1>3, <1>4, ReachTime
<1>6. YmTypeOK'
  <2>1. reg' \in [Reg -> Val]
    BY <1>0, <1>1, <1>3 DEF YmTypeOK
  <2>2. Len(list') <= ListMax /\ list' \in Seq(Entry)
    BY <1>0, <1>2, YmAssumption DEF YmTypeOK
  <2> QED BY <2>1, <2>2, <1>0, <1>1, <1>3, <1>5 DEF YmTypeOK, Entry
<1>7. Timed'
  <2>1. \A i, j \in DOMAIN list' : i <= j => list'[i].at <= list'[j].at
    BY <1>0, <1>2 DEF Timed
  <2>2. \A i \in DOMAIN list' : now' <= list'[i].at
    <3> SUFFICES ASSUME NEW i \in DOMAIN list' PROVE now' <= list'[i].at
      OBVIOUS
    <3>1. list[1].at <= list[i + 1].at
      BY <1>0, <1>2 DEF Timed
    <3>2. list[i + 1].at \in Nat /\ list[1].at \in Nat /\ PassCycles \in Nat
      <4>1. i + 1 \in DOMAIN list /\ 1 \in DOMAIN list
        BY <1>2
      <4> QED BY <4>1, <1>0, ListTyped
    <3> QED BY <3>1, <3>2, <1>2, <1>5
  <2> QED BY <2>1, <2>2, <1>0, <1>1, <1>3 DEF Timed
<1>8. \A r : \A i \in DOMAIN list' : LastAt(list', r, i) => LastAt(list, r, i + 1)
  <2> SUFFICES ASSUME NEW r, NEW i \in DOMAIN list', LastAt(list', r, i)
               PROVE LastAt(list, r, i + 1)
    OBVIOUS
  <2>1. i + 1 \in Written(list, r)
    BY <1>2 DEF LastAt, Written
  <2>2. ASSUME NEW j \in Written(list, r) PROVE j <= i + 1
    <3>1. j \in DOMAIN list /\ list[j].reg = r
      BY DEF Written
    <3>2. CASE j = 1
      BY <3>2, <1>2
    <3>3. CASE j # 1
      <4>1. j - 1 \in DOMAIN list' /\ (j - 1) + 1 = j
        BY <3>1, <3>3, <1>2
      <4>2. j - 1 \in Written(list', r)
        BY <3>1, <4>1, <1>2 DEF Written
      <4>3. j - 1 <= i
        BY <4>2 DEF LastAt
      <4> QED BY <3>1, <4>1, <4>3, <1>2
    <3> QED BY <3>2, <3>3
  <2> QED BY <2>1, <2>2 DEF LastAt
<1>9. ASSUME NEW r, Written(list', r) = {} PROVE \A j \in Written(list, r) : j = 1
  <2> SUFFICES ASSUME NEW j \in Written(list, r), j # 1 PROVE FALSE
    OBVIOUS
  <2>1. j \in DOMAIN list /\ list[j].reg = r
    BY DEF Written
  <2>2. j - 1 \in DOMAIN list' /\ (j - 1) + 1 = j
    BY <2>1, <1>2
  <2>3. j - 1 \in Written(list', r)
    BY <2>1, <2>2, <1>2 DEF Written
  <2> QED BY <2>3, <1>9
<1>10. Kept'
  <2> SUFFICES ASSUME NEW r \in Reg \ lost'
               PROVE  /\ \A i \in DOMAIN list' : LastAt(list', r, i) => list'[i].val = shadow'[r]
                      /\ Written(list', r) = {} => reg'[r] = shadow'[r]
    BY DEF Kept
  <2>1. r \in Reg \ lost /\ shadow' = shadow
    BY <1>1
  <2>2. ASSUME NEW i \in DOMAIN list', LastAt(list', r, i) PROVE list'[i].val = shadow'[r]
    BY <2>1, <2>2, <1>0, <1>2, <1>8 DEF Kept
  <2>3. ASSUME Written(list', r) = {} PROVE reg'[r] = shadow'[r]
    <3>1. \A j \in Written(list, r) : j = 1
      BY <2>3, <1>9
    <3>2. CASE e.reg = r
      <4>1. 1 \in Written(list, r)
        BY <3>2, <1>2 DEF Written
      <4>2. LastAt(list, r, 1)
        BY <3>1, <4>1 DEF LastAt
      <4>3. e.val = shadow[r]
        BY <4>2, <2>1, <1>0, <1>2 DEF Kept
      <4> QED BY <4>3, <3>2, <2>1, <1>0, <1>1 DEF YmTypeOK
    <3>3. CASE e.reg # r
      <4>1. 1 \notin Written(list, r)
        BY <3>3, <1>2 DEF Written
      <4>2. Written(list, r) = {}
        BY <4>1, <3>1
      <4> QED BY <4>2, <3>3, <2>1, <1>0, <1>1, <1>3 DEF Kept, YmTypeOK
    <3> QED BY <3>2, <3>3
  <2> QED BY <2>2, <2>3
<1>11. HasLast'
  <2> SUFFICES ASSUME NEW r \in Reg, Written(list', r) # {}
               PROVE \E i \in DOMAIN list' : LastAt(list', r, i)
    BY DEF HasLast
  <2>1. PICK k \in Written(list', r) : TRUE
    OBVIOUS
  <2>2. k \in DOMAIN list' /\ k + 1 \in Written(list, r)
    BY <2>1, <1>2 DEF Written
  <2>3. PICK n \in DOMAIN list : LastAt(list, r, n)
    BY <2>2, <1>0 DEF HasLast
  <2>4. k + 1 <= n /\ n \in DOMAIN list /\ list[n].reg = r
    BY <2>2, <2>3 DEF LastAt, Written
  <2>5. n - 1 \in DOMAIN list' /\ (n - 1) + 1 = n
    BY <2>2, <2>4, <1>2
  <2>6. n - 1 \in Written(list', r)
    BY <2>4, <2>5, <1>2 DEF Written
  <2>7. \A j \in Written(list', r) : j <= n - 1
    <3> SUFFICES ASSUME NEW j \in Written(list', r) PROVE j <= n - 1
      OBVIOUS
    <3>1. j \in DOMAIN list' /\ j + 1 \in Written(list, r)
      BY <1>2 DEF Written
    <3>2. j + 1 <= n
      BY <3>1, <2>3 DEF LastAt
    <3> QED BY <3>1, <3>2, <2>4, <1>2
  <2> QED BY <2>5, <2>6, <2>7 DEF LastAt
<1>12. LostKnown'
  BY <1>0, <1>1 DEF LostKnown
<1> QED BY <1>5, <1>6, <1>7, <1>10, <1>11, <1>12 DEF YmInv

-----------------------------------------------------------------------------
(* event_buf is in the order of time and ahead of the engine, and the last *)
(* write in it to each register is what code reads back.                   *)
THEOREM YmInvariant == YmSpec => []YmInv
<1>1. YmInv /\ [YmNext]_ymVars => YmInv'
  <2> SUFFICES ASSUME YmInv, [YmNext]_ymVars PROVE YmInv'
    OBVIOUS
  <2>1. CASE UNCHANGED ymVars
    <3>1. Kept' /\ HasLast' /\ LostKnown'
      BY <2>1, SameWrites DEF YmInv, ymVars, chip, generated
    <3> QED BY <2>1, <3>1 DEF YmInv, YmTypeOK, Timed, SamplesOfTime, ymVars, chip, generated
  <2> QED BY <2>1, YmInvSelect, YmInvWrite, YmInvInterrupt, YmInvCodeEnds, YmInvSample, YmInvEvent,
             YmInvRunEnds, YmInvAdjust, YmInvReset DEF YmNext
<1> QED BY <1>1, YmInvInit, PTL DEF YmSpec

(* ym_writereg(), run(), simulation(), ym_adjust_cycle(): no write is      *)
(* forgotten but those that event_ovf tells of, events come in order and   *)
(* inside the pass, and the list is empty when the next one begins.        *)
THEOREM WritesReplayed == YmSpec => []NothingForgotten
  BY YmInvariant, YmInvForgets, PTL

(* mix_to_buffer(), generator(): the samples made are those of the time,   *)
(* however the writes cut a pass.                                          *)
THEOREM NoTimeLost == YmSpec => []SamplesOfTime
<1>1. YmInv => SamplesOfTime
  BY DEF YmInv
<1> QED BY <1>1, YmInvariant, PTL
=============================================================================
