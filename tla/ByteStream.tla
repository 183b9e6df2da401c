----------------------------- MODULE ByteStream -----------------------------
(***************************************************************************)
(* What vfs68_read() and vfs68_seek_to() promise (file68/sc68/             *)
(* file68_vfs.h): a stream stands at a place of its source and a read      *)
(* gives the bytes from there on, in order, as many as it can.  A byte is  *)
(* its place in the source.                                                *)
(***************************************************************************)
EXTENDS Integers, Sequences

VARIABLES at,     \* bytes before the place where the stream stands
          out     \* what the last read gave

bvars == <<at, out>>

Bytes(p, n) == [i \in 1..n |-> p + i]

BInit == at = 0 /\ out = <<>>

Give == out' = Bytes(at, Len(out')) /\ at' = at + Len(out')

(* A read that fails gives nothing and may have moved.                     *)
Break == out' = <<>> /\ at' >= at

Rewind == at' = 0 /\ out' \in {out, <<>>}

BNext == Give \/ Break \/ Rewind

BSpec == BInit /\ [][BNext]_bvars
=============================================================================
