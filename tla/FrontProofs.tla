---------------------------- MODULE FrontProofs ----------------------------
(***************************************************************************)
(* What users and front ends command, in one behaviour: the player, the    *)
(* background play, the disk editor, loading and saving share no state, so *)
(* what is proved of each holds of them together.                          *)
(***************************************************************************)
EXTENDS FrontMC, Mksc68Proofs, Sc68PlayerProofs, StreamProofs

(* The two whose specifications state fairness, without it.                *)
MksRuns == MksInit /\ [][MksNext]_mksVars
VfsRuns == VfsInit /\ [][VfsNext]_vfsVars

(* A step of one leaves the others alone: api68.c keeps its state in the   *)
(* instance, mksc68_cmd_play.c in playinfo, mksc68_dsk.c in the disk it    *)
(* edits, file68.c in the streams it opens.                                *)
THEOREM FrontCompose == FrontSpec => Spec /\ MksRuns /\ DiskSpec /\ VfsRuns /\ SaveSpec
<1>1. FrontInit => Init /\ MksInit /\ DiskInit /\ VfsInit /\ SaveInit  BY Zenon DEF FrontInit
<1>2. [FrontNext]_<<part, vars, mksVars, editorVars, vfsVars, saveVars>> =>
        /\ [Next]_vars /\ [MksNext]_mksVars /\ [DiskNext]_editorVars
        /\ [VfsNext]_vfsVars /\ [SaveNext]_saveVars
  BY Zenon DEF FrontNext, MksFollowed
<1> QED BY <1>1, <1>2, PTL DEF FrontSpec, Spec, MksRuns, DiskSpec, VfsRuns, SaveSpec

-----------------------------------------------------------------------------
(* Fairness is in none of the safety arguments of these two.               *)
LEMMA MksAlways == MksRuns => []MksInv
<1>1. MksInv /\ [MksNext]_mksVars => MksInv'  BY EachMoves
<1> QED BY <1>1, InitHolds, PTL DEF MksRuns

StreamsHold == StreamInv /\ StreamSized /\ NothingLeft /\ LoadInv /\ MemInv

LEMMA VfsAlways ==
  VfsRuns => /\ [](VfsTypeOK /\ FileOrNothing)
             /\ StreamsInOrder
<1>1. VfsInit => StreamsHold /\ Base!BInit /\ Unzipped!BInit
  BY MCStreamsValid, InitInv, SizedInit, LoadsInit DEF StreamsHold
<1>2. StreamsHold /\ [VfsNext]_vfsVars => StreamsHold'
  BY MCStreamsValid, StreamsTyped, LoadsStep DEF StreamsHold
<1>3. StreamsHold /\ [VfsNext]_vfsVars => [Base!BNext]_(Base!bvars) /\ [Unzipped!BNext]_(Unzipped!bvars)
  BY MCStreamsValid, EachStep DEF StreamsHold
<1>4. StreamsHold => VfsTypeOK /\ FileOrNothing
  BY MCStreamsValid, SizedTypes, LoadsWhole DEF StreamsHold
<1> QED BY <1>1, <1>2, <1>3, <1>4, PTL DEF VfsRuns, StreamsInOrder, Base!BSpec, Unzipped!BSpec

-----------------------------------------------------------------------------
(* Whatever is commanded, all that the parts keep is of its type: the      *)
(* fields of sc68_t and of playinfo, the disk in the editor and its tags,  *)
(* the ring of curl, and the buffers of what is loaded and saved.          *)
THEOREM FrontTypes == ValidDisks => (FrontSpec => []FrontTypeOK)
<1> SUFFICES ASSUME ValidDisks PROVE FrontSpec => []FrontTypeOK  OBVIOUS
<1>1. Spec => []TypeOK  BY PlayerTypes
<1>2. MksRuns => []MksInv  BY MksAlways
<1>3. MksInv => MksTypeOK  BY DEF MksInv
<1>4. SaveSpec => []SaveTypeOK  BY SaveTypes, MCSavesValid
<1>5. TypeOK /\ MksTypeOK /\ DiskTypeOK /\ VfsTypeOK /\ SaveTypeOK => FrontTypeOK  BY DEF FrontTypeOK
<1> QED BY <1>1, <1>2, <1>3, <1>4, <1>5, FrontCompose, DiskTypes, VfsAlways, PTL

(* And what is promised of each of them is kept: the counters of a track   *)
(* agree, one play at a time on one instance that is destroyed once and is *)
(* stopped when told to, until a `play' is typed too early; a string has   *)
(* one holder, a disk saved and loaded again is the disk saved, a stream   *)
(* gives its bytes in order, a disk is loaded whole or not at all and saved*)
(* in order.                                                               *)
THEOREM FrontSafe ==
  ValidDisks =>
    (FrontSpec => /\ [](LoopAccounting /\ OneAtATime /\ InstancesSound /\ StopsKept
                        /\ StringsOwned /\ SavedIsLoaded /\ WholeFiles)
                  /\ StreamsInOrder)
<1> SUFFICES ASSUME ValidDisks
             PROVE  FrontSpec =>
                      /\ [](LoopAccounting /\ OneAtATime /\ InstancesSound /\ StopsKept
                            /\ StringsOwned /\ SavedIsLoaded /\ WholeFiles)
                      /\ StreamsInOrder
  OBVIOUS
<1>1. Spec => []LoopAccounting  BY CountersAgree
<1>2. MksRuns => []MksInv  BY MksAlways
<1>3. MksInv => OneAtATime /\ InstancesSound /\ StopsKept  BY OneThread, Destroyed, Kept
<1>4. SaveSpec => []SavedInOrder  BY SavesInOrder, MCSavesValid
<1>5. FileOrNothing /\ SavedInOrder => WholeFiles  BY DEF WholeFiles
<1> QED BY <1>1, <1>2, <1>3, <1>4, <1>5, FrontCompose, StringsAreOwned, SavedReloads, VfsAlways, PTL
=============================================================================
