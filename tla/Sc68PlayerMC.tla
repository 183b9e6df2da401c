---------------------------- MODULE Sc68PlayerMC ----------------------------
(* Small disks for model checking Sc68Player: "ab" has two tracks, the     *)
(* first with a loop shorter than its first pass, "ff" is loaded with a    *)
(* forced track and a forced length, "xx" with a forced track out of       *)
(* range.                                                                  *)
EXTENDS Sc68Player, TLC

CONSTANTS ab, ff, xx

MCInfo ==
  (ab :> [disk |-> [nb_mus |-> 2, def_mus |-> 0, force_track |-> 0,
                    force_loops |-> 0, force_ms |-> 0],
          mus |-> << [first_fr |-> 3, loops_fr |-> 2, loops |-> 2, frq |-> 50, buf |-> 2],
                     [first_fr |-> 2, loops_fr |-> 2, loops |-> 0, frq |-> 50, buf |-> 3] >>]
   @@
   ff :> [disk |-> [nb_mus |-> 2, def_mus |-> 1, force_track |-> 1,
                    force_loops |-> 2, force_ms |-> 40],
          mus |-> << [first_fr |-> 3, loops_fr |-> 2, loops |-> 1, frq |-> 50, buf |-> 2],
                     [first_fr |-> 0, loops_fr |-> 0, loops |-> 1, frq |-> 50, buf |-> 1] >>]
   @@
   xx :> [disk |-> [nb_mus |-> 1, def_mus |-> 0, force_track |-> 2,
                    force_loops |-> 0, force_ms |-> 0],
          mus |-> << [first_fr |-> 1, loops_fr |-> 1, loops |-> 1, frq |-> 50, buf |-> 1] >>])

AnyLoop == {InfLoop, 1}
OnlyInf == {InfLoop}
=============================================================================
