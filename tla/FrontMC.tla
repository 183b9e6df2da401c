------------------------------- MODULE FrontMC -------------------------------
(* What users and front ends command, on small instances: the player with  *)
(* a control thread, the background play of mksc68, its disk editor, and   *)
(* loading and saving through streams.  A behaviour exercises one of them, *)
(* the others rest.                                                        *)
EXTENDS MksPlay, Sc68Player, Save68, Disk68

VARIABLE part

-----------------------------------------------------------------------------
(* One disk of two tracks, the first with a loop shorter than its first    *)
(* pass.                                                                   *)
MCInfo ==
  [d \in {"ab"} |->
     [disk |-> [nb_mus |-> 2, def_mus |-> 0, force_track |-> 0, force_loops |-> 0, force_ms |-> 0],
      mus |-> << [first_fr |-> 3, loops_fr |-> 2, loops |-> 2, frq |-> 50, buf |-> 2],
                 [first_fr |-> 2, loops_fr |-> 2, loops |-> 0, frq |-> 50, buf |-> 3] >>]]

-----------------------------------------------------------------------------
(* Files of two tracks.                                                    *)
MCSplit == [s \in {"A (B)", "unknown (B)", "T (1990)"} |->
              CASE s = "A (B)" -> <<"A", "B">> [] s = "unknown (B)" -> <<"unknown", "B">>
                [] s = "T (1990)" -> <<"T", "1990">>]

Head0 == [title |-> Nil, artist |-> Nil, cname |-> Nil, def |-> 0, tags |-> <<>>]
Track0 == [title |-> Nil, artist |-> Nil, cname |-> Nil, tags |-> <<>>, replay |-> Nil,
           d0 |-> 0, a0 |-> 0, frq |-> 0, sec |-> 0, fr |-> 0, loop |-> 0, loopfr |-> -1,
           sfx |-> FALSE, typ |-> {}, data |-> Nil]
First == [Track0 EXCEPT !.data = "D", !.replay = "R"]
File(head, t1, t2) == [fmt |-> "sc68", head |-> head, mus |-> <<t1, t2>>]

(* Who made what: inherited, repeated, with an alias and without room.     *)
NameFiles ==
  {File([Head0 EXCEPT !.title = "T", !.artist = by[1], !.tags = << <<"year", "1990">> >>],
        [First EXCEPT !.artist = by[2], !.title = "U"],
        [Track0 EXCEPT !.artist = by[3], !.title = "T", !.cname = "C"]) :
     by \in {<<"A (B)", Nil, "A">>, <<"C", "unknown (B)", "A (B)">>}}

(* How long it lasts: frames or seconds, loops with and without a length.  *)
TimeFiles ==
  {File([Head0 EXCEPT !.def = 1],
        [First EXCEPT !.fr = t[1], !.sec = t[2], !.loop = t[3], !.loopfr = t[4], !.typ = {"PSG"}],
        [Track0 EXCEPT !.d0 = 2, !.a0 = 16, !.frq = 200, !.sfx = TRUE, !.data = "E",
                       !.fr = 500, !.loop = t[5], !.loopfr = 100, !.typ = {"AGA", "LMC"}]) :
     t \in {<<0, 4, 3, -1, 2>>, <<9999999, 0, 0, 100, -1>>}}

SndhFiles ==
  {[fmt |-> "sndh", head |-> [Head0 EXCEPT !.title = t],
    mus |-> <<[Track0 EXCEPT !.artist = a, !.sec = 3, !.data = "S"],
              [Track0 EXCEPT !.typ = {"XTD", "PSG", "TA"}, !.frq = 100, !.title = "U",
                             !.artist = b]>>] :
     t \in {"T"}, a \in {"T (1990)"}, b \in {"A (B)"}}

MCFiles == NameFiles \cup TimeFiles \cup SndhFiles
MCTimeDb == [i \in {2} |-> [fr |-> 500, hw |-> {"PSG", "TA"}]]
MCHwSets == {{"AGA", "TA"}}

-----------------------------------------------------------------------------
(* Files of the formats, whole and cut, from all that a stream reads from. *)
From(base, fmt, size, has, inner, said) ==
  [base |-> base, fmt |-> fmt, size |-> size, has |-> has, inner |-> inner, said |-> said,
   seeks |-> TRUE]
MCSources ==
  {From(b, f, 7, h, "none", 7) :
     b \in {"mem", "fd", "file", "curl"}, f \in {"sc68", "sndh", "ice"}, h \in {5, 7}}
  \cup {From("curl", "sndh", 7, 7, "none", said) : said \in {-1, 5, 8}}
  \cup {From(b, "gz", 9, h, "sc68", -1) : b \in {"mem", "fd", "file", "curl"}, h \in {6, 8, 9}}
  \cup {From("mem", "gz", 9, 9, f, -1) : f \in {"ice", "sndh", "gz"}}
  \cup {[From("fd", f, 9, 9, "sc68", -1) EXCEPT !.seeks = FALSE] : f \in {"gz", "sc68", "none"}}

(* The sizes and the sources are those the theorems are about.             *)
ASSUME MCStreamsValid == ValidStreams

(* A full disk at any place, and pieces larger than the buffers.           *)
MCPieceEnds == <<1, 4, 6, 10>>
MCSinks == [base : {"fd", "file", "mem"}, room : 0..11, gzip : BOOLEAN, ok : BOOLEAN]
ASSUME MCSavesValid == ValidSaves

-----------------------------------------------------------------------------
FrontInit ==
  /\ part \in {"player", "mks", "editor", "load", "save"}
  /\ Init /\ MksInit /\ DiskInit /\ VfsInit /\ SaveInit

(* A session is followed until two threads may share playinfo: what the    *)
(* properties say of mksc68 they say until then.                           *)
MksFollowed ==
  \/ ~early /\ MksNext
  \/ early /\ UNCHANGED mksVars

FrontNext ==
  /\ UNCHANGED part
  /\ \/ part = "player" /\ Next /\ UNCHANGED <<mksVars, editorVars, vfsVars, saveVars>>
     \/ part = "mks" /\ MksFollowed /\ UNCHANGED <<vars, editorVars, vfsVars, saveVars>>
     \/ part = "editor" /\ DiskNext /\ UNCHANGED <<vars, mksVars, vfsVars, saveVars>>
     \/ part = "load" /\ VfsNext /\ UNCHANGED <<vars, mksVars, editorVars, saveVars>>
     \/ part = "save" /\ SaveNext /\ UNCHANGED <<vars, mksVars, editorVars, vfsVars>>

(* As MksSpec and VfsSpec.                                                 *)
FrontSpec ==
  /\ FrontInit /\ [][FrontNext]_<<part, vars, mksVars, editorVars, vfsVars, saveVars>>
  /\ WF_mksVars(part = "mks" /\ ~early /\ Main)
  /\ \A t \in Thread : WF_mksVars(part = "mks" /\ ~early /\ ThreadStep(t))
  /\ WF_vfsVars(part = "load" /\ LoadStep)

-----------------------------------------------------------------------------
(* The types of the parts.                                                 *)
FrontTypeOK == TypeOK /\ MksTypeOK /\ DiskTypeOK /\ VfsTypeOK /\ SaveTypeOK

(* What the user waits for returns: `stop', and a load whatever the other  *)
(* end does.                                                               *)
CallsReturn == StopReturns /\ LoadEnds
=============================================================================
