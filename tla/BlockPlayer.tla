----------------------------- MODULE BlockPlayer -----------------------------
(***************************************************************************)
(* What a chip that plays samples from memory by itself promises to the     *)
(* music that drives it.  A command starts it at the beginning of the block *)
(* that is programmed.  From then on it goes through that block a step a    *)
(* sample, and leaves it only at its end: there it stops, or takes the      *)
(* block programmed by then, however often that was changed before, losing  *)
(* of it no more than what the last step went too far.                      *)
(***************************************************************************)
EXTENDS Integers

VARIABLES
  from, to,          \* the block that is programmed
  on,                \* playing a block that was promised
  lo, hi,            \* that block: lo <= place < hi
  pos,               \* the place of the sample to play
  stride,            \* the step
  mixing             \* the chip runs; commands are given between two runs

bvars == <<from, to, on, lo, hi, pos, stride, mixing>>
place == <<lo, hi, pos>>

BInit == ~on /\ ~mixing

Programmed == lo' = from' /\ hi' = to'

Command == /\ ~mixing /\ ~mixing'
           /\ on' => (on /\ UNCHANGED place) \/ (Programmed /\ pos' = lo' /\ lo' < hi')

(* A block shorter than a step is not promised to sound.                   *)
Proper == lo' + stride' <= hi'

Run == /\ mixing' = ~mixing
       /\ UNCHANGED <<from, to, place>>
       /\ on' = (on /\ Proper)

Within == pos + stride < hi /\ on' /\ pos' = pos + stride /\ UNCHANGED <<lo, hi>>

Overshoot == pos + stride - hi
Past == Overshoot >= 0 /\ (on' => Programmed /\ Proper /\ pos' - lo' \in 0..Overshoot)

Sample == on /\ mixing /\ mixing' /\ UNCHANGED <<from, to, stride>> /\ (Within \/ Past)

(* Nothing is promised of a player that is off, or was given an improper   *)
(* block, until the next command.                                          *)
Off == ~on /\ ~on'

BNext == Command \/ Run \/ Sample \/ Off

BSpec == BInit /\ [][BNext]_bvars

-----------------------------------------------------------------------------
(* What plays is inside its block.                                         *)
InBlock == on => lo <= pos /\ pos < hi
=============================================================================
