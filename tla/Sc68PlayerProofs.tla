-------------------------- MODULE Sc68PlayerProofs --------------------------
(***************************************************************************)
(* Safety of Sc68Player for any set of disks, any client and any word size *)
(* (Threaded or not): the types, the range of requests, the ownership of   *)
(* disks and the absence of null dereferences and double frees.            *)
(***************************************************************************)
EXTENDS Sc68Player, TLAPS

(* A disk whose default or forced track exists.  file68.c ensures it of    *)
(* the default track; a URI may force any track.                           *)
ValidDisks == \A d \in DiskId : InRange(d, PickTrack(d, DefTrack))

(* Where the two threads can be: a call is only in progress for a client   *)
(* that may call, which has a disk and either a track or a request.        *)
Positions ==
  /\ pc # "out" => ready
  /\ ready => /\ disk # NoDisk
              /\ track # 0 \/ track_to # NoReq \/ pc \in {"clear", "apply"}
  /\ pc = "run" => track # 0
  /\ pc \in {"loop", "run", "copy"} => n \in Nat
  /\ disk = NoDisk => ~tobe3
  /\ mine \subseteq heap

PlayerInv == TypeOK /\ RequestInRange /\ OwnDiskAlive /\ NoLeak /\ Positions /\ NoFault

-----------------------------------------------------------------------------
(* Unsigned arithmetic stays in the machine word.                          *)
LEMMA U32Type == ASSUME NEW x \in Int PROVE U32(x) \in Word
  BY PlayerAssumption DEF U32, Word

LEMMA ZeroWord == 0 \in Word
  BY PlayerAssumption DEF Word

(* What file68_load() guarantees of a disk and of a track in its range.    *)
LEMMA DiskType ==
  ASSUME NEW d \in DiskId
  PROVE  /\ Disk(d).nb_mus \in Nat \ {0} /\ Disk(d).def_mus \in Nat
         /\ Disk(d).def_mus < Disk(d).nb_mus
         /\ Disk(d).force_track \in Nat /\ Disk(d).force_ms \in Nat
         /\ Disk(d).force_loops \in Nat \cup {InfLoop}
  BY PlayerAssumption DEF Disk, DiskInfo

LEMMA MusType ==
  ASSUME NEW d \in DiskId, NEW t, InRange(d, t)
  PROVE  /\ t \in Nat \ {0}
         /\ Mus(d, t).first_fr \in Nat /\ Mus(d, t).loops_fr \in Nat
         /\ Mus(d, t).loops \in Nat /\ Mus(d, t).frq \in Nat
         /\ Mus(d, t).buf \in Nat
<1>1. Mus(d, t) \in MusInfo
  BY PlayerAssumption DEF InRange, Disk, Mus
<1>2. t \in Nat \ {0}
  BY DiskType DEF InRange
<1> QED BY <1>1, <1>2 DEF MusInfo

(* The loop a client or a disk asks for is a count or "endless".           *)
LEMMA PickLoopType ==
  ASSUME NEW d \in DiskId, NEW l \in Nat \cup {InfLoop}
  PROVE  PickLoop(d, l) \in Nat \cup {InfLoop}
  BY DiskType DEF PickLoop

(* The lengths computed by change_track() are machine words.               *)
LEMMA LengthType ==
  ASSUME NEW d \in DiskId, NEW t, InRange(d, t), NEW l \in Nat \cup {InfLoop}
  PROVE  /\ FirstFrames(d, t) \in Word /\ LoopFrames(d, t) \in Word
         /\ LoopTotal(d, t, l) \in Nat /\ PassTotal(d, t, l) \in Word
<1>1. ForceMs(d, t) \in Nat
  BY DiskType, PlayerAssumption DEF ForceMs
<1>2. MsToFr(ForceMs(d, t), Mus(d, t).frq) \in Word
  <2> DEFINE p == ForceMs(d, t) * Mus(d, t).frq
  <2>1. p \in Int
    BY <1>1, MusType
  <2>2. p \div 1000 \in Int
    <3> HIDE DEF p
    <3> QED BY <2>1
  <2> QED BY <2>2, U32Type DEF MsToFr
<1>3. FirstFrames(d, t) \in Word /\ LoopFrames(d, t) \in Word
  BY <1>1, <1>2, MusType, U32Type DEF FirstFrames, LoopFrames
<1>4. LoopTotal(d, t, l) \in Nat
  BY MusType DEF LoopTotal, InfLoop, DefLoop
<1>5. FirstFrames(d, t) \in Int /\ LoopFrames(d, t) \in Int
  BY <1>3, PlayerAssumption DEF Word
<1>6. FirstFrames(d, t) + (LoopTotal(d, t, l) - 1) * LoopFrames(d, t) \in Int
  BY <1>4, <1>5
<1>8. PassTotal(d, t, l) \in Word
  BY <1>6, ZeroWord, U32Type DEF PassTotal
<1> QED BY <1>3, <1>4, <1>8


(* The disk installed by sc68_load() or sc68_open(), or rejected: in both  *)
(* cases ownership stays exact.                                            *)
LEMMA InstallStep ==
  ASSUME PlayerInv, ValidDisks, Quiet, NEW d \in DiskId, NEW free \in BOOLEAN,
         IF free THEN d \notin heap ELSE d \in mine,
         InstallDisk(d, free), UNCHANGED <<lenVars, cntVars, bufVars, pc, callVars, ctlVars, fault>>
  PROVE  PlayerInv'
<1> DEFINE t == PickTrack(d, DefTrack)
<1>1. InRange(d, t) /\ t \in Nat \ {0}
  BY DiskType DEF ValidDisks, InRange
<1>2. PickLoop(d, DefLoop) \in Nat \cup {InfLoop}
  BY PickLoopType DEF DefLoop
<1> HIDE DEF t
<1> USE DEF PlayerInv, Quiet, lenVars, cntVars, bufVars, callVars, ctlVars
<1>3. CASE disk # NoDisk
  <2>1. /\ heap' = heap \ {d} /\ mine' = mine \ {d}
        /\ UNCHANGED <<disk, tobe3, track, track_to, loop_to, asked, ready>>
    BY <1>3 DEF InstallDisk, Free, Rejected
  <2>2. tobe3 => disk # d
    BY DEF OwnDiskAlive, NoLeak, Positions
  <2>3. TypeOK'
    BY <2>1 DEF TypeOK
  <2>4. RequestInRange'
    BY <2>1 DEF RequestInRange, InRange
  <2>5. OwnDiskAlive' /\ NoLeak' /\ Positions' /\ NoFault'
    BY <2>1, <2>2 DEF OwnDiskAlive, NoLeak, Positions, NoFault
  <2> QED BY <2>3, <2>4, <2>5
<1>4. CASE disk = NoDisk
  <2>1. /\ disk' = d /\ tobe3' = free /\ track' = 0 /\ track_to' = t
        /\ loop_to' = PickLoop(d, DefLoop) /\ asked' = t /\ ready' = TRUE
        /\ heap' = heap \cup {d} /\ mine' = mine
    BY <1>1, <1>4 DEF InstallDisk, t
  <2>2. TypeOK'
    BY <1>1, <1>2, <2>1 DEF TypeOK
  <2>3. RequestInRange'
    BY <1>1, <2>1, PlayerAssumption DEF RequestInRange, InRange, Disk
  <2>4. OwnDiskAlive' /\ NoFault'
    BY <2>1 DEF OwnDiskAlive, NoFault
  <2>5. NoLeak'
    BY <1>4, <2>1, PlayerAssumption DEF NoLeak, Positions, TypeOK
  <2>6. Positions'
    BY <1>1, <2>1, PlayerAssumption DEF Positions, NoReq, TypeOK
  <2> QED BY <2>2, <2>3, <2>4, <2>5, <2>6
<1> QED BY <1>3, <1>4

-----------------------------------------------------------------------------
THEOREM PlayerInit == Init => PlayerInv
<1> SUFFICES ASSUME Init PROVE PlayerInv
  OBVIOUS
<1> USE DEF Init
<1>1. TypeOK
  BY ZeroWord DEF TypeOK, DefLoop, NoReq
<1>2. RequestInRange /\ OwnDiskAlive /\ NoLeak /\ Positions /\ NoFault
  BY DEF RequestInRange, OwnDiskAlive, NoLeak, Positions, NoFault
<1> QED BY <1>1, <1>2 DEF PlayerInv

(* Disks come and go only between two calls of sc68_process().             *)
LEMMA ControlStep ==
  ASSUME PlayerInv, ValidDisks, Control
  PROVE  PlayerInv'
<1> USE DEF PlayerInv, Quiet, diskVars, lenVars, cntVars, bufVars, callVars, ctlVars
<1>1. ASSUME NEW d \in DiskId, Load(d) PROVE PlayerInv'
  BY <1>1, InstallStep DEF Load
<1>2. ASSUME NEW d \in DiskId, Open(d) PROVE PlayerInv'
  BY <1>2, InstallStep DEF Open
<1>3. ASSUME NEW d \in DiskId, AllocDisk(d) PROVE PlayerInv'
  <2> USE <1>3 DEF AllocDisk
  <2>1. TypeOK'
    BY DEF TypeOK
  <2>2. RequestInRange' /\ Positions'
    BY DEF RequestInRange, Positions, InRange
  <2>3. OwnDiskAlive' /\ NoFault'
    BY DEF OwnDiskAlive, NoFault
  <2>4. tobe3 => disk # d
    BY DEF OwnDiskAlive
  <2>5. NoLeak'
    BY <2>4 DEF NoLeak, Positions
  <2> QED BY <2>1, <2>2, <2>3, <2>5
<1>4. ASSUME NEW d \in DiskId, FreeDisk(d) PROVE PlayerInv'
  <2> USE <1>4 DEF FreeDisk, Free
  <2>1. TypeOK'
    BY DEF TypeOK
  <2>2. RequestInRange' /\ Positions'
    BY DEF RequestInRange, Positions, InRange
  <2>3. OwnDiskAlive' /\ NoLeak' /\ NoFault'
    BY DEF OwnDiskAlive, NoLeak, NoFault
  <2> QED BY <2>1, <2>2, <2>3
<1>5. CASE Close
  <2> USE <1>5 DEF Close, StopTrack
  <2>1. TypeOK'
    BY ZeroWord DEF TypeOK, NoReq, DefLoop, OwnDiskAlive
  <2>2. RequestInRange' /\ Positions'
    BY DEF RequestInRange, Positions, InRange, NoLeak
  <2>3. OwnDiskAlive' /\ NoLeak' /\ NoFault'
    BY DEF OwnDiskAlive, NoLeak, NoFault
  <2> QED BY <2>1, <2>2, <2>3
<1>6. CASE Stop
  <2> USE <1>6 DEF Stop
  <2>1. TypeOK'
    BY DEF TypeOK, StopReq
  <2>2. RequestInRange' /\ Positions'
    BY DEF RequestInRange, Positions, InRange, StopReq, NoReq, MayControl
  <2>3. OwnDiskAlive' /\ NoLeak' /\ NoFault'
    BY DEF OwnDiskAlive, NoLeak, NoFault
  <2> QED BY <2>1, <2>2, <2>3
<1>7. CASE PlayLoop
  <2> USE <1>7 DEF PlayLoop
  <2>1. TypeOK'
    BY DEF TypeOK, DefLoop
  <2>2. RequestInRange' /\ Positions'
    BY DEF RequestInRange, Positions, InRange
  <2>3. OwnDiskAlive' /\ NoLeak' /\ NoFault'
    BY DEF OwnDiskAlive, NoLeak, NoFault
  <2> QED BY <2>1, <2>2, <2>3
<1>8. ASSUME NEW t, NEW l \in Loops, Play(t, l) PROVE PlayerInv'
  <2> DEFINE r == PickTrack(disk, t)
             k == PickLoop(disk, l)
  <2>1. disk \in DiskId /\ InRange(disk, r)
    BY <1>8 DEF Play, TypeOK
  <2>2. r \in Nat \ {0}
    BY <2>1, MusType
  <2>3. k \in Nat \cup {InfLoop}
    BY <2>1, PickLoopType, PlayerAssumption
  <2>4. /\ disk # NoDisk /\ track_to' = r /\ asked' = r /\ ready' = TRUE
        /\ loop_arg' = k /\ cpc' = "loop_to"
        /\ UNCHANGED <<diskVars, track, loop_to, lenVars, cntVars, bufVars, pc, callVars, fault>>
    BY <1>8 DEF Play, MayControl
  <2> HIDE DEF r, k
  <2>5. TypeOK'
    BY <2>2, <2>3, <2>4 DEF TypeOK
  <2>6. RequestInRange' /\ Positions'
    BY <2>1, <2>2, <2>4 DEF RequestInRange, Positions, InRange, NoReq
  <2>7. OwnDiskAlive' /\ NoLeak' /\ NoFault'
    BY <2>4 DEF OwnDiskAlive, NoLeak, NoFault
  <2> QED BY <2>5, <2>6, <2>7
<1> QED BY <1>1, <1>2, <1>3, <1>4, <1>5, <1>6, <1>7, <1>8 DEF Control

(* The process thread never touches the disks; what it can disturb is the  *)
(* counters, the mailbox and the track.                                    *)
LEMMA ProcessKeepsDisks ==
  ASSUME PlayerInv, ProcessStep \/ ClientLoop
  PROVE  UNCHANGED diskVars /\ fault' \in {fault, "null_music"}
         /\ (fault' # fault => pc = "run" /\ track = 0)
  BY DEF ProcessStep, ClientLoop, CheckLoopAndEnd, Fetch, Clear, ApplyStop, ApplyTrack,
     RunPass, RunFails, Copy, Filled, ProcessCall

LEMMA ProcessStepInv ==
  ASSUME PlayerInv, ProcessStep \/ ClientLoop
  PROVE  PlayerInv'
<1> USE DEF PlayerInv, diskVars, lenVars, cntVars, bufVars, callVars, ctlVars, Goto, Return
<1>1. UNCHANGED diskVars /\ OwnDiskAlive' /\ NoLeak' /\ NoFault'
  BY ProcessKeepsDisks DEF OwnDiskAlive, NoLeak, NoFault, Positions
<1>2. pc # "out" => disk \in DiskId /\ disk # NoDisk
  BY DEF Positions, TypeOK
<1>3. ASSUME NEW k \in 1..MaxAsk \cup {FlushAsk}, ProcessCall(k)
      PROVE  TypeOK' /\ RequestInRange' /\ Positions'
  <2> USE <1>3 DEF ProcessCall
  <2>1. k \in Nat \cup {FlushAsk}
    BY PlayerAssumption
  <2>2. TypeOK'
    BY <2>1 DEF TypeOK, NoReq, ErrorFlags
  <2>3. RequestInRange' /\ Positions'
    BY DEF RequestInRange, Positions, InRange
  <2> QED BY <1>1, <2>2, <2>3
<1>4. CASE CheckLoopAndEnd
  <2> USE <1>4 DEF CheckLoopAndEnd
  <2>1. track_to' = track_to \/ track_to' = StopReq
        \/ (track_to' = track + 1 /\ InRange(disk, track + 1))
    BY <1>2, DiskType DEF PostEnd, NextTrack, InRange, TypeOK
  <2>2. track_to' \in Nat \cup {StopReq} /\ (track_to' = NoReq => track_to = NoReq)
    BY <2>1 DEF TypeOK, NoReq, StopReq
  <2>3. loop_count' \in Word
    <3>1. loop_count + 1 \in Int
      BY PlayerAssumption DEF TypeOK, Word
    <3> QED BY <3>1, U32Type DEF TypeOK
  <2>4. pass_2loop' \in Word
    BY ZeroWord, PlayerAssumption DEF TypeOK, Word
  <2>5. TypeOK'
    BY <2>2, <2>3, <2>4 DEF TypeOK, ErrorFlags
  <2>6. RequestInRange'
    BY <1>1, <1>2, <2>1 DEF RequestInRange, InRange
  <2>7. Positions'
    BY <1>1, <2>2 DEF Positions
  <2> QED BY <1>1, <2>5, <2>6, <2>7
<1>5. CASE Fetch
  <2> USE <1>5 DEF Fetch
  <2>1. TypeOK'
    <3>1. /\ UNCHANGED <<diskVars, track, track_to, loop_to, lenVars, cntVars, bufVars,
                         n, ctlVars, asked, fault>>
          /\ req' = track_to
      OBVIOUS
    <3>2. pc' \in {"clear", "out", "run"} /\ ret' \subseteq ErrorFlags /\ ready' \in BOOLEAN
      BY DEF TypeOK
    <3> HIDE <1>5 DEF Fetch
    <3> QED BY <3>1, <3>2 DEF TypeOK
  <2>2. RequestInRange' /\ Positions'
    BY <1>2 DEF RequestInRange, Positions, InRange, TypeOK
  <2> QED BY <1>1, <2>1, <2>2
<1>6. CASE Clear
  <2> USE <1>6 DEF Clear
  <2>1. TypeOK'
    BY DEF TypeOK, NoReq
  <2>2. RequestInRange' /\ Positions'
    BY <1>2 DEF RequestInRange, Positions, InRange
  <2> QED BY <1>1, <2>1, <2>2
<1>7. CASE ApplyStop
  <2> USE <1>7 DEF ApplyStop, StopTrack
  <2>1. TypeOK'
    BY ZeroWord DEF TypeOK, NoReq, DefLoop, ErrorFlags
  <2>2. RequestInRange' /\ Positions'
    BY <1>2 DEF RequestInRange, Positions, InRange
  <2> QED BY <1>1, <2>1, <2>2
<1>8. CASE ApplyTrack
  <2>1. disk \in DiskId /\ InRange(disk, req)
    BY <1>2, <1>8 DEF ApplyTrack
  <2>2. /\ track' \in {0, req} /\ track_to' = NoReq /\ asked' = NoReq
        /\ pass_count' = 0 /\ loop_count' = 0 /\ bufpos' = 0 /\ buflen' = 0
        /\ pc' = "out" /\ ret' \in {ret \cup {"change"}, ErrorFlags}
        /\ bufmax' \in {bufmax, 0, Mus(disk, req).buf}
        /\ UNCHANGED lenVars \/ SetLength(disk, req, loop_to)
        /\ UNCHANGED <<loop_to, n, req, ctlVars>>
        /\ ready' \in BOOLEAN /\ (ready' => ready /\ track' = req)
    BY <1>8 DEF ApplyTrack, StopTrack, Grown, TypeOK, ErrorFlags
  <2>3. /\ pass_total' \in Word /\ pass_2loop' \in Word /\ pass_3loop' \in Word
        /\ loop_total' \in Nat
    BY <2>1, <2>2, LengthType DEF SetLength, TypeOK
  <2>4. req \in Nat \ {0} /\ Mus(disk, req).buf \in Nat
    BY <2>1, MusType
  <2>5. TypeOK'
    BY <1>1, <2>2, <2>3, <2>4, ZeroWord DEF TypeOK, NoReq, ErrorFlags, NoFault
  <2>6. RequestInRange'
    <3>1. disk' = disk /\ disk # NoDisk /\ pc' = "out"
      BY <1>1, <1>2, <1>8, <2>2 DEF ApplyTrack
    <3>2. track' # 0 => InRange(disk, track')
      BY <2>1, <2>2
    <3> QED BY <2>2, <3>1, <3>2 DEF RequestInRange
  <2>7. Positions'
    BY <1>1, <1>2, <2>2, <2>4, <1>8 DEF Positions, ApplyTrack
  <2> QED BY <1>1, <2>5, <2>6, <2>7
<1>9. CASE RunPass
  <2> USE <1>9 DEF RunPass
  <2>1. track # 0 /\ InRange(disk, track)
    BY <1>2 DEF RequestInRange, Positions
  <2>2. Mus(disk, track).buf \in Nat
    BY <1>2, <2>1, MusType
  <2>3. pass_count' \in Word
    <3>1. pass_count + 1 \in Int
      BY PlayerAssumption DEF TypeOK, Word
    <3> QED BY <2>1, <3>1, U32Type
  <2>4. TypeOK'
    BY <2>1, <2>2, <2>3 DEF TypeOK
  <2>5. RequestInRange' /\ Positions'
    BY <2>1 DEF RequestInRange, Positions, InRange
  <2> QED BY <1>1, <2>4, <2>5
<1>10. CASE RunFails \/ Filled
  <2> USE <1>10 DEF RunFails, Filled
  <2>1. TypeOK'
    BY DEF TypeOK
  <2>2. RequestInRange' /\ Positions'
    BY <1>2 DEF RequestInRange, Positions, InRange, ErrorFlags
  <2> QED BY <1>1, <2>1, <2>2
<1>11. CASE Copy
  <2> USE <1>11 DEF Copy
  <2>1. n \in Nat /\ buflen \in Nat /\ bufpos \in Nat
    BY DEF Positions, TypeOK
  <2>2. bufpos' \in Nat /\ buflen' \in Nat /\ n' \in Nat
    BY <2>1
  <2>3. TypeOK'
    BY <2>2 DEF TypeOK
  <2>4. RequestInRange' /\ Positions'
    BY <1>2, <2>2 DEF RequestInRange, Positions, InRange
  <2> QED BY <1>1, <2>3, <2>4
<1> QED BY <1>1, <1>3, <1>4, <1>5, <1>6, <1>7, <1>8, <1>9, <1>10, <1>11
        DEF ProcessStep, ClientLoop

LEMMA StutterStep ==
  ASSUME PlayerInv, UNCHANGED vars
  PROVE  PlayerInv'
<1> USE DEF vars, diskVars, lenVars, cntVars, bufVars, callVars, ctlVars
<1>1. TypeOK' /\ OwnDiskAlive' /\ NoLeak' /\ NoFault'
  BY DEF PlayerInv, TypeOK, OwnDiskAlive, NoLeak, NoFault
<1>2. RequestInRange' /\ Positions'
  BY DEF PlayerInv, RequestInRange, Positions, InRange
<1> QED BY <1>1, <1>2 DEF PlayerInv

(* With disks whose default or forced track exists, the player keeps its   *)
(* types, never requests or plays a track outside the disk, never points   *)
(* to a freed disk, leaks none, and neither dereferences a null music nor  *)
(* frees a disk twice, whatever the threads do.                            *)
THEOREM PlayerInvariant == ValidDisks => (Spec => []PlayerInv)
<1> SUFFICES ASSUME ValidDisks PROVE Spec => []PlayerInv
  OBVIOUS
<1>1. PlayerInv /\ [Next]_vars => PlayerInv'
  BY ControlStep, ProcessStepInv, StutterStep DEF Next
<1> QED BY <1>1, PlayerInit, PTL DEF Spec

(* No null sc68->mus and no double free (sc68_process, sc68_close).        *)
THEOREM PlayerNeverFaults == ValidDisks => (Spec => []NoFault)
<1>1. PlayerInv => NoFault
  BY DEF PlayerInv
<1> QED BY <1>1, PlayerInvariant, PTL

(* The calls that free disks, one by one: only sc68_open() may free the    *)
(* current one under the player.                                           *)
LEMMA LostStep ==
  ASSUME ValidDisks, PlayerInv, [Next]_vars
  PROVE  LostByReopen
<1> SUFFICES ASSUME DiskAlive, ~DiskAlive'
             PROVE  disk' = disk /\ disk \in mine /\ mine' = mine \ {disk}
  BY DEF LostByReopen
<1>1. ASSUME NEW d \in DiskId, NEW free \in BOOLEAN, InstallDisk(d, free)
      PROVE  disk # NoDisk /\ heap' = heap \ {d} /\ mine' = mine \ {d} /\ disk' = disk
  <2>1. disk = NoDisk => disk' = d /\ d \in heap'
    BY <1>1 DEF InstallDisk, ValidDisks
  <2>2. disk # NoDisk
    BY <2>1 DEF DiskAlive
  <2> QED BY <1>1, <2>2 DEF InstallDisk, Free, Rejected
<1>2. ASSUME NEW d \in DiskId, Load(d) PROVE FALSE
  <2>1. d \notin heap /\ InstallDisk(d, TRUE)
    BY <1>2 DEF Load
  <2> QED BY <1>1, <2>1 DEF DiskAlive
<1>3. ASSUME NEW d \in DiskId, Open(d)
      PROVE  disk' = disk /\ disk \in mine /\ mine' = mine \ {disk}
  <2>1. d \in mine /\ InstallDisk(d, FALSE)
    BY <1>3 DEF Open
  <2>2. d = disk
    BY <1>1, <2>1 DEF DiskAlive
  <2> QED BY <1>1, <2>1, <2>2
<1>4. ASSUME NEW d \in DiskId, AllocDisk(d) \/ FreeDisk(d) PROVE FALSE
  BY <1>4 DEF AllocDisk, FreeDisk, Free, DiskAlive
<1>5. ASSUME Close PROVE FALSE
  BY <1>5 DEF Close, DiskAlive
<1>6. ASSUME UNCHANGED diskVars PROVE FALSE
  BY <1>6 DEF diskVars, DiskAlive
<1>7. ASSUME ProcessStep \/ ClientLoop PROVE FALSE
  BY <1>6, <1>7, ProcessKeepsDisks
<1>8. ASSUME Stop \/ PlayLoop \/ UNCHANGED vars PROVE FALSE
  BY <1>6, <1>8 DEF Stop, PlayLoop, vars, diskVars
<1>9. ASSUME NEW t, NEW l, Play(t, l) PROVE FALSE
  BY <1>6, <1>9 DEF Play
<1> QED BY <1>2, <1>3, <1>4, <1>5, <1>7, <1>8, <1>9 DEF Next, Control

(* Each disk has exactly one owner to free it, and sc68->disk is freed     *)
(* under the player by sc68_open() of the open disk only.                  *)
THEOREM DisksOwned == ValidDisks => (Spec => OneOwner)
<1> SUFFICES ASSUME ValidDisks PROVE Spec => OneOwner
  OBVIOUS
<1>1. PlayerInv => NoLeak /\ OwnDiskAlive
  BY DEF PlayerInv
<1>2. PlayerInv /\ [Next]_vars => [LostByReopen]_vars
  BY LostStep
<1>3. Spec => []PlayerInv
  BY PlayerInvariant
<1> QED BY <1>1, <1>2, <1>3, PTL DEF Spec, OneOwner

(* A forced track is in everything that is requested or playing.           *)
Forced ==
  disk # NoDisk /\ Disk(disk).force_track > 0 =>
    /\ track \in {0, Disk(disk).force_track}
    /\ track_to \in {NoReq, StopReq, Disk(disk).force_track}
    /\ pc \in {"clear", "apply"} => req \in {StopReq, Disk(disk).force_track}

LEMMA ForcedStep ==
  ASSUME ValidDisks, PlayerInv, Forced, [Next]_vars
  PROVE  Forced'
<1> USE DEF Disk, Goto, Return
<1>1. CASE Control
  <2>1. ASSUME NEW d \in DiskId, Load(d) \/ Open(d)
        PROVE  Forced'
    BY <2>1 DEF Forced, Load, Open, Quiet, InstallDisk, PickTrack, Disk, callVars,
                PlayerInv, ValidDisks
  <2>2. ASSUME NEW d \in DiskId, AllocDisk(d) \/ FreeDisk(d)
        PROVE  Forced'
    BY <2>2 DEF Forced, AllocDisk, FreeDisk, Quiet, callVars
  <2>3. ASSUME NEW t, NEW l \in Loops, Play(t, l)
        PROVE  Forced'
    BY <2>3 DEF Forced, Play, MayControl, PickTrack, diskVars, callVars
  <2>4. CASE Close \/ Stop \/ PlayLoop
    BY <2>4 DEF Forced, Close, Stop, PlayLoop, StopTrack, Quiet, MayControl,
                diskVars, callVars
  <2> QED BY <1>1, <2>1, <2>2, <2>3, <2>4 DEF Control
<1>2. CASE ClientLoop
  BY <1>2 DEF Forced, ClientLoop, ProcessCall, diskVars
<1>3. CASE CheckLoopAndEnd
  BY <1>3 DEF Forced, CheckLoopAndEnd, PostEnd, NextTrack, diskVars
<1>4. CASE Fetch \/ Clear
  BY <1>4 DEF Forced, Fetch, Clear, diskVars, callVars
<1>5. CASE ApplyStop
  BY <1>5 DEF Forced, ApplyStop, StopTrack, diskVars
<1>6. CASE ApplyTrack
  BY <1>6 DEF Forced, ApplyTrack, StopTrack, diskVars, StopReq
<1>7. CASE RunPass \/ RunFails \/ Copy \/ Filled
  BY <1>7 DEF Forced, RunPass, RunFails, Copy, Filled, diskVars, callVars
<1>8. CASE UNCHANGED vars
  BY <1>8 DEF Forced, vars, diskVars, callVars
<1> QED BY <1>1, <1>2, <1>3, <1>4, <1>5, <1>6, <1>7, <1>8 DEF Next, ProcessStep

(* Requests stay on the disk, and on its forced track if it has one:       *)
(* apply_change_track()'s range check is never the one that fails.         *)
THEOREM RequestsAllowed == ValidDisks => (Spec => []TracksAllowed)
<1> SUFFICES ASSUME ValidDisks PROVE Spec => []TracksAllowed
  OBVIOUS
<1>1. Init => Forced
  BY DEF Init, Forced
<1>2. PlayerInv /\ Forced /\ [Next]_vars => Forced'
  BY ForcedStep
<1>3. PlayerInv /\ Forced => TracksAllowed
  BY DEF PlayerInv, Forced, TracksAllowed, ForcedTrackOnly
<1> QED BY <1>1, <1>2, <1>3, PlayerInvariant, PTL DEF Spec

(* The fields keep their types; the counters stay in an unsigned int.      *)
THEOREM PlayerTypes == ValidDisks => (Spec => []TypeOK)
<1>1. PlayerInv => TypeOK
  BY DEF PlayerInv
<1> QED BY <1>1, PlayerInvariant, PTL

-----------------------------------------------------------------------------
(* Without threads an event is only lost to the end of the track.  What    *)
(* the process thread holds then is what the mailbox held.                 *)
MailboxInv ==
  /\ asked # NoReq => asked \in InHand \/ TrackOver
  /\ pc = "clear" => req = track_to
  /\ pc \in {"run", "copy"} => asked = NoReq
  /\ pc = "fetch" /\ asked # NoReq /\ n # FlushAsk => track_to # NoReq
  /\ track = 0 => pass_count = 0

LEMMA MailboxInit == Init => MailboxInv
  BY DEF Init, MailboxInv

LEMMA MailboxStep ==
  ASSUME ~Threaded, PlayerInv, PlayerInv', MailboxInv, [Next]_vars
  PROVE  MailboxInv'
<1> USE DEF InHand, TrackOver, diskVars, lenVars, cntVars, bufVars, callVars, ctlVars, Goto, Return
<1>1. CASE Control
  <2>1. ASSUME NEW d \in DiskId, Load(d) \/ Open(d)
        PROVE  MailboxInv'
    BY <2>1 DEF PlayerInv, RequestInRange, MailboxInv, Load, Open, Quiet, InstallDisk
  <2>2. ASSUME NEW d \in DiskId, AllocDisk(d) \/ FreeDisk(d)
        PROVE  MailboxInv'
    BY <2>2 DEF MailboxInv, AllocDisk, FreeDisk, Quiet
  <2>3. ASSUME NEW t, NEW l \in Loops, Play(t, l)
        PROVE  MailboxInv'
    BY <2>3 DEF MailboxInv, Play, MayControl
  <2>4. CASE Close \/ Stop \/ PlayLoop
    BY <2>4 DEF MailboxInv, Close, Stop, PlayLoop, StopTrack, Quiet, MayControl
  <2> QED BY <1>1, <2>1, <2>2, <2>3, <2>4 DEF Control
<1>2. CASE ClientLoop
  BY <1>2 DEF MailboxInv, ClientLoop, ProcessCall
<1>3. CASE CheckLoopAndEnd
  <2>1. NextTrack # NoReq
    BY DEF PlayerInv, TypeOK, NextTrack, NoReq, StopReq
  <2>2. IF TrackOver THEN track_to' # NoReq ELSE track_to' = track_to
    BY <1>3, <2>1 DEF CheckLoopAndEnd, PostEnd
  <2>3. /\ pc = "loop" /\ pc' = "fetch"
        /\ UNCHANGED <<asked, track, pass_count, pass_total, n>>
    BY <1>3 DEF CheckLoopAndEnd
  <2>4. asked # NoReq => asked = track_to \/ TrackOver
    BY <2>3 DEF MailboxInv
  <2>5. TrackOver' = TrackOver /\ InHand' = {track_to'}
    BY <2>3
  <2>6. asked' # NoReq => (asked' \in InHand' \/ TrackOver') /\ track_to' # NoReq
    BY <2>2, <2>3, <2>4, <2>5
  <2> QED BY <2>3, <2>6 DEF MailboxInv
<1>4. CASE Fetch
  BY <1>4 DEF MailboxInv, Fetch
<1>5. CASE Clear
  BY <1>5 DEF MailboxInv, Clear
<1>6. CASE ApplyStop
  BY <1>6 DEF MailboxInv, ApplyStop, StopTrack
<1>7. CASE ApplyTrack
  BY <1>7 DEF MailboxInv, ApplyTrack, StopTrack
<1>8. CASE RunPass
  BY <1>8 DEF MailboxInv, RunPass
<1>9. CASE RunFails \/ Copy \/ Filled
  BY <1>9 DEF MailboxInv, RunFails, Copy, Filled
<1>10. CASE UNCHANGED vars
  BY <1>10 DEF MailboxInv, vars
<1> QED BY <1>1, <1>2, <1>3, <1>4, <1>5, <1>6, <1>7, <1>8, <1>9, <1>10 DEF Next, ProcessStep

(* sc68_play(), sc68_stop(): with a single thread a posted event stays in  *)
(* the player until sc68_process() obeys it or the track ends.             *)
THEOREM RequestsKept ==
  ValidDisks /\ ~Threaded => (Spec => []RequestKeptToTrackEnd)
<1> SUFFICES ASSUME ValidDisks, ~Threaded PROVE Spec => []RequestKeptToTrackEnd
  OBVIOUS
<1>1. PlayerInv /\ PlayerInv' /\ MailboxInv /\ [Next]_vars => MailboxInv'
  BY MailboxStep
<1>2. MailboxInv => RequestKeptToTrackEnd
  BY DEF MailboxInv, RequestKeptToTrackEnd
<1>3. Spec => []PlayerInv
  BY PlayerInvariant
<1> QED BY <1>1, <1>2, <1>3, MailboxInit, PTL DEF Spec

-----------------------------------------------------------------------------
(* The buffer a track needs is allocated before the track is set.          *)
BufferInv ==
  /\ BufferInBounds
  /\ track # 0 => Mus(disk, track).buf <= bufmax

LEMMA BufferStep ==
  ASSUME ValidDisks, PlayerInv, BufferInv, [Next]_vars
  PROVE  BufferInv'
<1> USE DEF BufferInv, BufferInBounds, diskVars, lenVars, cntVars, bufVars, callVars, ctlVars,
        Goto, Return
<1>1. bufpos \in Nat /\ buflen \in Nat /\ bufmax \in Nat
  BY DEF PlayerInv, TypeOK
<1>2. CASE Control
  <2>1. ASSUME NEW d \in DiskId, Load(d) \/ Open(d)
        PROVE  BufferInv'
    <3>1. bufpos' = bufpos /\ buflen' = buflen /\ bufmax' = bufmax
      BY <2>1 DEF Load, Open
    <3>2. (disk' = disk /\ track' = track) \/ track' = 0
      BY <2>1 DEF Load, Open, InstallDisk
    <3> QED BY <3>1, <3>2
  <2>2. ASSUME NEW d \in DiskId, AllocDisk(d) \/ FreeDisk(d)
        PROVE  BufferInv'
    BY <2>2 DEF AllocDisk, FreeDisk
  <2>3. ASSUME NEW t, NEW l \in Loops, Play(t, l)
        PROVE  BufferInv'
    BY <2>3 DEF Play
  <2>4. CASE Stop \/ PlayLoop
    BY <2>4 DEF Stop, PlayLoop
  <2>5. CASE Close
    BY <2>5, <1>1 DEF Close, StopTrack
  <2> QED BY <1>2, <2>1, <2>2, <2>3, <2>4, <2>5 DEF Control
<1>3. CASE ClientLoop
  BY <1>3 DEF ClientLoop, ProcessCall
<1>4. CASE CheckLoopAndEnd \/ Fetch \/ Clear \/ RunFails \/ Filled
  BY <1>4 DEF CheckLoopAndEnd, Fetch, Clear, RunFails, Filled
<1>5. CASE ApplyStop
  BY <1>5, <1>1 DEF ApplyStop, StopTrack
<1>6. CASE ApplyTrack
  <2>1. disk \in DiskId /\ InRange(disk, req)
    BY <1>6 DEF ApplyTrack, PlayerInv, TypeOK, Positions
  <2>2. req \in Nat \ {0} /\ Mus(disk, req).buf \in Nat
    BY <2>1, MusType
  <2>3. bufpos' = 0 /\ buflen' = 0 /\ disk' = disk
    BY <1>6 DEF ApplyTrack, StopTrack
  <2>4. \/ track' = req /\ bufmax' = Grown(disk, req)
        \/ track' = 0 /\ bufmax' \in {0, bufmax}
    BY <1>6 DEF ApplyTrack, StopTrack
  <2> QED BY <1>1, <2>2, <2>3, <2>4 DEF Grown
<1>7. CASE RunPass
  <2>1. track # 0 => Mus(disk, track).buf \in Nat
    BY <1>7, MusType DEF RunPass, PlayerInv, RequestInRange, TypeOK, Positions
  <2> QED BY <1>1, <1>7, <2>1 DEF RunPass
<1>8. CASE Copy
  <2>1. bufpos' + buflen' = bufpos + buflen
    BY <1>1, <1>8 DEF Copy, PlayerInv, Positions
  <2> QED BY <1>8, <2>1 DEF Copy
<1>9. CASE UNCHANGED vars
  BY <1>9 DEF vars
<1> QED BY <1>2, <1>3, <1>4, <1>5, <1>6, <1>7, <1>8, <1>9 DEF Next, ProcessStep

(* sc68_process() copies PCMs from inside the buffer change_track() grew,  *)
(* also after a track that could not be started.                           *)
THEOREM BufferKept == ValidDisks => (Spec => []BufferInBounds)
<1> SUFFICES ASSUME ValidDisks PROVE Spec => []BufferInBounds
  OBVIOUS
<1>1. Init => BufferInv
  BY DEF Init, BufferInv, BufferInBounds
<1>2. PlayerInv /\ BufferInv /\ [Next]_vars => BufferInv'
  BY BufferStep
<1>3. BufferInv => BufferInBounds
  BY DEF BufferInv
<1> QED BY <1>1, <1>2, <1>3, PlayerInvariant, PTL DEF Spec

-----------------------------------------------------------------------------
(* The counters of a track.                                                *)

(* A counter that is incremented goes back to 0 past the machine word.     *)
LEMMA CountUp ==
  ASSUME NEW x \in Word
  PROVE  \E k \in {0, 1} : U32(x + 1) = x + 1 - k * WORD
<1> USE PlayerAssumption DEF U32, Word
<1>1. CASE x + 1 < WORD
  <2>1. (x + 1) % WORD = x + 1 - 0 * WORD
    BY <1>1
  <2> QED BY <2>1
<1>2. CASE x + 1 = WORD
  <2>1. (x + 1) % WORD = x + 1 - 1 * WORD
    BY <1>2
  <2> QED BY <2>1
<1> QED BY <1>1, <1>2

(* Numbers that differ by multiples of the machine word are the same word. *)
LEMMA SameWord ==
  ASSUME NEW x \in Int, NEW y \in Int, NEW k \in Int, x = y + k * WORD
  PROVE  U32(x) = U32(y)
<1> DEFINE q == y \div WORD
           r == y % WORD
<1>1. q \in Int /\ r \in 0..(WORD - 1) /\ y = WORD * q + r
  BY PlayerAssumption
<1> HIDE DEF q, r
<1>2. x = WORD * (q + k) + r
  BY <1>1, PlayerAssumption
<1>3. q + k \in Int
  BY <1>1
<1>4. x % WORD = r
  BY <1>1, <1>2, <1>3, PlayerAssumption
<1> QED BY <1>4 DEF U32, r

(* The last pass before a loop is the one the code takes for it.           *)
LEMMA LastPass ==
  ASSUME NEW x \in Word
  PROVE  (x > 0 /\ U32(x - 1) = 0) <=> x = 1
BY PlayerAssumption DEF U32, Word

(* A track plays and no event is posted.                                   *)
Playing == track # 0 /\ ready /\ asked = NoReq

(* The pass that was counted down and is still to be played.               *)
Due == IF CountedDown /\ n # FlushAsk THEN 1 ELSE 0

(* Passes played and passes to the next loop against loops reported.       *)
CountsIn(k) ==
  pass_count + pass_2loop + Due = FirstFrames(disk, track) + loop_count * pass_3loop + k * WORD

CountInv ==
  Playing /\ FirstFrames(disk, track) > 0 /\ pass_3loop > 0 =>
    pass_2loop > 0 /\ \E k \in Int : CountsIn(k)

(* What the control thread and a failing or finished call leave of it.     *)
LEMMA CountsRest ==
  ASSUME UNCHANGED <<disk, lenVars, cntVars>>, Playing' => Playing /\ track' = track /\ Due' = Due
  PROVE  CountInv => CountInv'
<1>1. FirstFrames(disk, track)' = FirstFrames(disk', track')
  BY DEF FirstFrames, ForceMs
<1> QED BY <1>1 DEF CountInv, CountsIn, lenVars, cntVars

LEMMA CountStep ==
  ASSUME ValidDisks, PlayerInv, CountInv, [Next]_vars
  PROVE  CountInv'
<1> USE DEF diskVars, lenVars, cntVars, bufVars, callVars, ctlVars, Goto, Return
<1> DEFINE FF == FirstFrames(disk, track)
<1>1. FirstFrames(disk, track)' = FirstFrames(disk', track')
  BY DEF FirstFrames, ForceMs
<1>2. CASE Control
  <2>1. ASSUME NEW d \in DiskId, Load(d) \/ Open(d)
        PROVE  CountInv'
    <3>1. UNCHANGED <<disk, track, ready, asked>> \/ track' = 0
      BY <2>1 DEF Load, Open, InstallDisk
    <3>2. UNCHANGED <<lenVars, cntVars, pc, n>>
      BY <2>1 DEF Load, Open
    <3> QED BY <3>1, <3>2, CountsRest DEF CountInv, Playing, Due, CountedDown
  <2>2. ASSUME NEW d \in DiskId, AllocDisk(d) \/ FreeDisk(d)
        PROVE  CountInv'
    BY <2>2, CountsRest DEF AllocDisk, FreeDisk, Playing, Due, CountedDown
  <2>3. ASSUME NEW t, NEW l \in Loops, Play(t, l)
        PROVE  CountInv'
    <3>1. asked' # NoReq
      BY <2>3, MusType DEF Play, NoReq, PlayerInv, TypeOK
    <3> QED BY <3>1 DEF CountInv, Playing
  <2>4. CASE Stop \/ Close
    BY <2>4 DEF Stop, Close, StopTrack, CountInv, Playing, StopReq, NoReq
  <2>5. CASE PlayLoop
    BY <2>5, CountsRest DEF PlayLoop, Playing, Due, CountedDown
  <2> QED BY <1>2, <2>1, <2>2, <2>3, <2>4, <2>5 DEF Control
<1>3. CASE ClientLoop
  <2>1. UNCHANGED <<disk, lenVars, cntVars, track, ready, asked>> /\ pc = "out"
        /\ \/ pc' = "fetch" /\ n' = FlushAsk
           \/ pc' = "loop"
    BY <1>3 DEF ClientLoop, ProcessCall
  <2>2. Due = 0 /\ Due' = 0
    BY <2>1 DEF Due, CountedDown
  <2> QED BY <2>1, <2>2, CountsRest DEF Playing
<1>4. CASE CheckLoopAndEnd
  <2> SUFFICES ASSUME Playing, FF > 0, pass_3loop > 0
               PROVE  pass_2loop' > 0 /\ \E k \in Int : CountsIn(k)'
    BY <1>1, <1>4 DEF CheckLoopAndEnd, CountInv, Playing
  <2>1. PICK k \in Int : CountsIn(k)
    BY DEF CountInv
  <2>2. /\ pass_count \in Int /\ pass_2loop \in Word /\ pass_2loop > 0 /\ loop_count \in Word
        /\ pass_3loop \in Int /\ WORD \in Int /\ FF \in Int
    BY <1>4, PlayerAssumption, LengthType
       DEF PlayerInv, TypeOK, Word, CountInv, CheckLoopAndEnd, Positions, Playing, RequestInRange
  <2>3. n # FlushAsk /\ Due = 0 /\ Due' = 1
    BY <1>4 DEF CheckLoopAndEnd, Due, CountedDown, FlushAsk, PlayerInv, Positions
  <2>4. UNCHANGED <<disk, track, pass_count, pass_3loop>>
    BY <1>4 DEF CheckLoopAndEnd
  <2>5. CASE pass_2loop # 1
    <3>1. pass_2loop' = pass_2loop - 1 /\ loop_count' = loop_count
      BY <1>4, <2>2, <2>5, LastPass DEF CheckLoopAndEnd, LoopsNow
    <3>2. CountsIn(k)'
      BY <1>1, <2>1, <2>2, <2>3, <2>4, <3>1 DEF CountsIn, Word
    <3>3. pass_2loop' > 0
      BY <2>2, <2>5, <3>1 DEF Word
    <3> QED BY <3>2, <3>3
  <2>6. CASE pass_2loop = 1
    <3>1. pass_2loop' = pass_3loop /\ loop_count' = U32(loop_count + 1)
      BY <1>4, <2>2, <2>6, LastPass DEF CheckLoopAndEnd, LoopsNow
    <3>2. PICK j \in {0, 1} : loop_count' = loop_count + 1 - j * WORD
      BY <2>2, <3>1, CountUp
    <3>3. loop_count' * pass_3loop + (k + j * pass_3loop) * WORD
            = loop_count * pass_3loop + pass_3loop + k * WORD
      <4>1. CASE j = 0
        BY <2>2, <3>2, <4>1 DEF Word
      <4>2. CASE j = 1
        BY <2>2, <3>2, <4>2 DEF Word
      <4> QED BY <4>1, <4>2
    <3>4. pass_count + pass_3loop + 1 = FF + loop_count' * pass_3loop + (k + j * pass_3loop) * WORD
      <4>1. pass_count + 1 = FF + loop_count * pass_3loop + k * WORD
        BY <2>1, <2>2, <2>3, <2>6 DEF CountsIn, Word
      <4> DEFINE a == loop_count * pass_3loop
                 b == k * WORD
                 c == loop_count' * pass_3loop
                 e == (k + j * pass_3loop) * WORD
      <4>2. a \in Int /\ b \in Int /\ c \in Int /\ e \in Int
        BY <2>2, <3>2 DEF Word
      <4>3. pass_count + 1 = FF + a + b /\ c + e = a + pass_3loop + b
        BY <3>3, <4>1
      <4>4. pass_count \in Int /\ FF \in Int /\ pass_3loop \in Int
        BY <2>2
      <4> HIDE DEF a, b, c, e, FF
      <4>5. pass_count + pass_3loop + 1 = FF + c + e
        BY <4>2, <4>3, <4>4
      <4> QED BY <4>5 DEF c, e
    <3>5. PICK m \in Int : m = k + j * pass_3loop
      BY <2>2
    <3>6. CountsIn(m)'
      BY <1>1, <2>3, <2>4, <3>1, <3>4, <3>5 DEF CountsIn
    <3> QED BY <3>1, <3>6
  <2> QED BY <2>5, <2>6
<1>5. CASE Fetch \/ Clear \/ RunFails \/ Filled
  <2>1. UNCHANGED <<disk, lenVars, cntVars, track, asked, n>>
    BY <1>5 DEF Fetch, Clear, RunFails, Filled
  <2>2. Playing' => Playing /\ Due' = Due
    BY <1>5, <2>1 DEF Fetch, Clear, RunFails, Filled, Playing, Due, CountedDown, ErrorFlags,
                      PlayerInv, TypeOK, Positions
  <2> QED BY <2>1, <2>2, CountsRest
<1>6. CASE ApplyStop
  BY <1>6 DEF ApplyStop, StopTrack, CountInv, Playing
<1>7. CASE ApplyTrack
  <2>1. disk \in DiskId /\ InRange(disk, req)
    BY <1>7 DEF ApplyTrack, PlayerInv, TypeOK, Positions
  <2>2. CASE track' = req
    <3>1. FirstFrames(disk, req) \in Int /\ LoopFrames(disk, req) \in Int
      BY <2>1, LengthType, PlayerAssumption DEF PlayerInv, TypeOK, Word, InfLoop
    <3>2. /\ pass_count' = 0 /\ loop_count' = 0 /\ disk' = disk /\ pc' = "out"
          /\ pass_2loop' = FirstFrames(disk, req) /\ pass_3loop' = LoopFrames(disk, req)
      BY <1>7, <2>1, <2>2, MusType DEF ApplyTrack, StopTrack, SetLength
    <3>3. CountsIn(0)'
      BY <1>1, <2>2, <3>1, <3>2, PlayerAssumption DEF CountsIn, Due, CountedDown
    <3> QED BY <1>1, <2>2, <3>2, <3>3 DEF CountInv
  <2>3. CASE track' = 0
    BY <2>3 DEF CountInv, Playing
  <2> QED BY <1>7, <2>2, <2>3 DEF ApplyTrack, StopTrack
<1>8. CASE RunPass
  <2> SUFFICES ASSUME Playing, FF > 0, pass_3loop > 0
               PROVE  pass_2loop' > 0 /\ \E k \in Int : CountsIn(k)'
    BY <1>1, <1>8 DEF RunPass, CountInv, Playing
  <2>1. PICK k \in Int : CountsIn(k)
    BY DEF CountInv
  <2>2. /\ pass_count \in Word /\ pass_2loop \in Word /\ pass_2loop > 0 /\ loop_count \in Word
        /\ pass_3loop \in Word /\ WORD \in Int /\ FF \in Int
    BY <1>8, PlayerAssumption, LengthType
       DEF PlayerInv, TypeOK, Word, CountInv, RunPass, Positions, Playing, RequestInRange
  <2>3. Due = 1 /\ Due' = 0
    BY <1>8 DEF RunPass, Due, CountedDown, FlushAsk, PlayerInv, Positions, Playing
  <2>4. UNCHANGED <<disk, track, lenVars, loop_count>> /\ pass_count' = U32(pass_count + 1)
    BY <1>8 DEF RunPass, Playing
  <2>5. PICK j \in {0, 1} : pass_count' = pass_count + 1 - j * WORD
    BY <2>2, <2>4, CountUp
  <2>6. k - j \in Int /\ (k - j) * WORD = k * WORD - j * WORD
    <3>1. CASE j = 0
      BY <2>2, <3>1
    <3>2. CASE j = 1
      BY <2>2, <3>2
    <3> QED BY <3>1, <3>2
  <2>7. CountsIn(k - j)'
    <3> DEFINE a == loop_count * pass_3loop
               b == k * WORD
               e == j * WORD
    <3>1. a \in Int /\ b \in Int /\ e \in Int
      BY <2>2 DEF Word
    <3>2. pass_count + pass_2loop + 1 = FF + a + b /\ pass_count' = pass_count + 1 - e
      BY <2>1, <2>3, <2>5 DEF CountsIn
    <3>3. pass_count \in Int /\ pass_2loop \in Int /\ FF \in Int
      BY <2>2 DEF Word
    <3>4. (k - j) * WORD = b - e
      BY <2>6
    <3> HIDE DEF a, b, e, FF
    <3>5. pass_count' + pass_2loop = FF + a + (b - e)
      BY <3>1, <3>2, <3>3
    <3>6. pass_count' + pass_2loop \in Int
      BY <3>1, <3>2, <3>3
    <3>7. pass_count' + pass_2loop' + Due' = FF + a + (k - j) * WORD
      <4>1. pass_count' + pass_2loop' + Due' = pass_count' + pass_2loop
        BY <2>3, <2>4, <3>1, <3>2, <3>3
      <4> QED BY <3>4, <3>5, <4>1
    <3> QED BY <1>1, <2>4, <3>7 DEF CountsIn, FF, a
  <2> QED BY <2>2, <2>4, <2>6, <2>7
<1>9. CASE Copy
  <2>1. UNCHANGED <<disk, lenVars, cntVars, track, ready, asked>>
    BY <1>9 DEF Copy
  <2>2. Due' = Due
    BY <1>9 DEF Copy, Due, CountedDown
  <2> QED BY <2>1, <2>2, CountsRest DEF Playing
<1>10. CASE UNCHANGED vars
  BY <1>10, CountsRest DEF vars, Playing, Due, CountedDown
<1> QED BY <1>2, <1>3, <1>4, <1>5, <1>6, <1>7, <1>8, <1>9, <1>10 DEF Next, ProcessStep

(* sc68_process(), change_track(): the two counters of a track agree with  *)
(* the loops reported whatever the threads do, also past the machine word. *)
THEOREM CountersAgree == ValidDisks => (Spec => []LoopAccounting)
<1> SUFFICES ASSUME ValidDisks PROVE Spec => []LoopAccounting
  OBVIOUS
<1>1. Init => CountInv
  BY DEF Init, CountInv, Playing
<1>2. PlayerInv /\ CountInv /\ [Next]_vars => CountInv'
  BY CountStep
<1>3. PlayerInv /\ CountInv => LoopAccounting
  <2> SUFFICES ASSUME PlayerInv, CountInv, Steady, FirstFrames(disk, track) > 0, pass_3loop > 0
               PROVE  U32(pass_count + pass_2loop + Due)
                        = U32(FirstFrames(disk, track) + loop_count * pass_3loop)
    BY DEF LoopAccounting, Due
  <2>1. PICK k \in Int : CountsIn(k)
    BY DEF CountInv, Steady, Playing
  <2>2. FirstFrames(disk, track) \in Int
    BY LengthType, PlayerAssumption DEF PlayerInv, TypeOK, RequestInRange, Positions, Steady, Word
  <2>3. /\ pass_count + pass_2loop + Due \in Int
        /\ FirstFrames(disk, track) + loop_count * pass_3loop \in Int
    BY <2>2 DEF PlayerInv, TypeOK, Word, Due
  <2> QED BY <2>1, <2>3, SameWord DEF CountsIn
<1> QED BY <1>1, <1>2, <1>3, PlayerInvariant, PTL DEF Spec

-----------------------------------------------------------------------------
(* The end of a track, where its length fits an unsigned int.              *)

(* The loop counts that can reach change_track().                          *)
LoopArgs == Loops \cup {DefLoop} \cup {Disk(d).force_loops : d \in DiskId}

(* No track is as long as 2^32 passes.  api68.c does not check it.         *)
LengthsFit ==
  \A d \in DiskId : \A t \in 1..Disk(d).nb_mus : \A l \in LoopArgs :
    FirstFrames(d, t) + (LoopTotal(d, t, l) - 1) * LoopFrames(d, t) < WORD

LoopArgsInv == loop_to \in LoopArgs /\ loop_arg \in LoopArgs

(* The run of a track whose end is known, without the wraps of CountInv.   *)
Finite == Playing /\ FirstFrames(disk, track) > 0 /\ pass_3loop > 1 /\ pass_total > 0

Exact ==
  /\ loop_total > 0
  /\ pass_total = FirstFrames(disk, track) + (loop_total - 1) * pass_3loop
  /\ pass_count + pass_2loop + Due = FirstFrames(disk, track) + loop_count * pass_3loop
  /\ pass_2loop > 0
  /\ pass_2loop <= IF loop_count = 0 THEN FirstFrames(disk, track) ELSE pass_3loop
  /\ pass_count <= pass_total

(* The end of a track is seen before the next pass is played.              *)
EndSeen ==
  /\ pc = "fetch" /\ n # FlushAsk /\ TrackOver => track_to # NoReq
  /\ pc = "run" => ~TrackOver

ExactInv == LoopArgsInv /\ EndSeen /\ (Finite => Exact)

(* A whole number of loops is bounded by what bounds its passes.           *)
LEMMA NoMoreLoops ==
  ASSUME NEW f \in Nat, NEW p \in Nat, p > 1, NEW lc \in Nat, NEW lt \in Nat \ {0},
         NEW c \in Nat, NEW r \in Nat, NEW b \in {0, 1},
         c + r + b = f + lc * p, r <= IF lc = 0 THEN f ELSE p, c <= f + (lt - 1) * p
  PROVE  lc <= lt
<1> SUFFICES ASSUME lc > lt PROVE FALSE
  OBVIOUS
<1>1. PICK e \in Nat : lc = lt + 1 + e
  <2>1. lc - lt - 1 \in Nat /\ lc = lt + 1 + (lc - lt - 1)
    OBVIOUS
  <2> QED BY <2>1
<1>2. lc * p = (lt - 1) * p + e * p + 2 * p
  BY <1>1
<1>3. e * p \in Nat /\ (lt - 1) * p \in Nat
  OBVIOUS
<1> QED BY <1>1, <1>2, <1>3

(* At the last pass exactly the loops asked for have been counted.         *)
LEMMA AllLoops ==
  ASSUME NEW f \in Nat, NEW p \in Nat, p > 1, NEW lc \in Nat, NEW lt \in Nat \ {0},
         NEW c \in Nat, NEW r \in Nat \ {0}, NEW b \in {0, 1},
         c + r + b = f + lc * p, r <= IF lc = 0 THEN f ELSE p, c = f + (lt - 1) * p
  PROVE  lc = lt
<1>1. lc <= lt
  BY NoMoreLoops
<1> SUFFICES ASSUME lc < lt PROVE FALSE
  BY <1>1
<1>2. PICK e \in Nat : lt = lc + 1 + e
  <2>1. lt - lc - 1 \in Nat /\ lt = lc + 1 + (lt - lc - 1)
    OBVIOUS
  <2> QED BY <2>1
<1>3. (lt - 1) * p = lc * p + e * p
  BY <1>2
<1>4. e * p \in Nat /\ lc * p \in Nat
  OBVIOUS
<1> QED BY <1>2, <1>3, <1>4

(* The types of what Exact is about.                                       *)
LEMMA FiniteTypes ==
  ASSUME PlayerInv, Finite
  PROVE  /\ FirstFrames(disk, track) \in Nat /\ FirstFrames(disk, track) > 0
         /\ pass_3loop \in Nat /\ pass_3loop > 1 /\ loop_count \in Nat /\ loop_count < WORD
         /\ loop_total \in Nat /\ pass_count \in Nat /\ pass_2loop \in Nat /\ Due \in {0, 1}
         /\ pass_2loop < WORD /\ pass_count < WORD /\ pass_total < WORD /\ pass_total \in Nat
         /\ disk \in DiskId
<1>1. disk \in DiskId /\ InRange(disk, track)
  BY DEF Finite, Playing, PlayerInv, TypeOK, RequestInRange, Positions
<1>2. FirstFrames(disk, track) \in Word
  BY <1>1, LengthType DEF InfLoop
<1> QED BY <1>1, <1>2, PlayerAssumption DEF Finite, PlayerInv, TypeOK, Word, Due

(* As many loops as asked for fit an unsigned int.                         *)
LEMMA LoopsFit ==
  ASSUME NEW f \in Nat \ {0}, NEW p \in Nat, p > 1, NEW lt \in Nat \ {0},
         f + (lt - 1) * p < WORD
  PROVE  lt < WORD
<1>1. (lt - 1) * p >= (lt - 1) * 2
  OBVIOUS
<1> QED BY <1>1, PlayerAssumption

LEMMA LoopArgsStep ==
  ASSUME PlayerInv, LoopArgsInv, [Next]_vars
  PROVE  LoopArgsInv'
<1> USE DEF LoopArgsInv, lenVars, cntVars, bufVars, callVars, ctlVars
<1>1. ASSUME NEW d \in DiskId, NEW l \in LoopArgs
      PROVE  PickLoop(d, l) \in LoopArgs
  BY DEF PickLoop, LoopArgs
<1>2. DefLoop \in LoopArgs /\ Loops \subseteq LoopArgs
  BY DEF LoopArgs
<1> HIDE DEF LoopArgs
<1>3. CASE Control
  <2>1. ASSUME NEW d \in DiskId, Load(d) \/ Open(d)
        PROVE  LoopArgsInv'
    BY <1>1, <1>2, <2>1 DEF Load, Open, InstallDisk
  <2>2. ASSUME NEW d \in DiskId, AllocDisk(d) \/ FreeDisk(d)
        PROVE  LoopArgsInv'
    BY <2>2 DEF AllocDisk, FreeDisk
  <2>3. ASSUME NEW t, NEW l \in Loops, Play(t, l)
        PROVE  LoopArgsInv'
    BY <1>1, <1>2, <2>3 DEF Play, PlayerInv, TypeOK
  <2>4. CASE Close \/ Stop \/ PlayLoop
    BY <1>2, <2>4 DEF Close, Stop, PlayLoop
  <2> QED BY <1>3, <2>1, <2>2, <2>3, <2>4 DEF Control
<1>4. CASE ClientLoop \/ ProcessStep
  BY <1>2, <1>4 DEF ClientLoop, ProcessStep, ProcessCall, CheckLoopAndEnd, Fetch, Clear,
     ApplyStop, ApplyTrack, RunPass, RunFails, Copy, Filled
<1>5. CASE UNCHANGED vars
  BY <1>5 DEF vars
<1> QED BY <1>3, <1>4, <1>5 DEF Next

LEMMA EndSeenStep ==
  ASSUME PlayerInv, EndSeen, [Next]_vars
  PROVE  EndSeen'
<1> USE DEF EndSeen, TrackOver, diskVars, lenVars, cntVars, bufVars, callVars, ctlVars, Goto, Return
<1>1. CASE Control
  <2>1. ASSUME NEW d \in DiskId, Load(d) \/ Open(d) \/ AllocDisk(d) \/ FreeDisk(d)
        PROVE  EndSeen'
    BY <2>1 DEF Load, Open, AllocDisk, FreeDisk, Quiet
  <2>2. ASSUME NEW t, NEW l \in Loops, Play(t, l)
        PROVE  EndSeen'
    <3>1. track_to' # NoReq
      BY <2>2, MusType DEF Play, NoReq, PlayerInv, TypeOK
    <3> QED BY <2>2, <3>1 DEF Play
  <2>3. CASE Close \/ Stop \/ PlayLoop
    BY <2>3 DEF Close, Stop, PlayLoop, Quiet, StopReq, NoReq
  <2> QED BY <1>1, <2>1, <2>2, <2>3 DEF Control
<1>2. CASE ClientLoop
  BY <1>2 DEF ClientLoop, ProcessCall
<1>3. CASE CheckLoopAndEnd
  <2>1. NextTrack # NoReq
    BY DEF PlayerInv, TypeOK, NextTrack, NoReq, StopReq
  <2> QED BY <1>3, <2>1 DEF CheckLoopAndEnd, PostEnd
<1>4. CASE Fetch
  BY <1>4 DEF Fetch
<1>5. CASE Clear \/ ApplyStop \/ ApplyTrack \/ RunPass \/ RunFails \/ Copy \/ Filled
  BY <1>5 DEF Clear, ApplyStop, ApplyTrack, RunPass, RunFails, Copy, Filled
<1>6. CASE UNCHANGED vars
  BY <1>6 DEF vars
<1> QED BY <1>1, <1>2, <1>3, <1>4, <1>5, <1>6 DEF Next, ProcessStep

(* What leaves the counters and the track alone leaves Exact alone.        *)
LEMMA ExactRests ==
  ASSUME UNCHANGED <<disk, lenVars, cntVars>>, Playing' => Playing /\ track' = track /\ Due' = Due
  PROVE  (Finite => Exact) => (Finite => Exact)'
<1>1. FirstFrames(disk, track)' = FirstFrames(disk', track')
  BY DEF FirstFrames, ForceMs
<1> QED BY <1>1 DEF Finite, Exact, lenVars, cntVars

LEMMA ExactStep ==
  ASSUME ValidDisks, LengthsFit, PlayerInv, ExactInv, [Next]_vars
  PROVE  (Finite => Exact)'
<1> USE DEF diskVars, lenVars, cntVars, bufVars, callVars, ctlVars, Goto, Return
<1>1. FirstFrames(disk, track)' = FirstFrames(disk', track')
  BY DEF FirstFrames, ForceMs
<1>2. Finite => Exact
  BY DEF ExactInv
<1>3. CASE Control
  <2>1. ASSUME NEW d \in DiskId, Load(d) \/ Open(d)
        PROVE  (Finite => Exact)'
    <3>1. UNCHANGED <<disk, track, ready, asked>> \/ track' = 0
      BY <2>1 DEF Load, Open, InstallDisk
    <3>2. UNCHANGED <<lenVars, cntVars, pc, n>>
      BY <2>1 DEF Load, Open
    <3> QED BY <1>2, <3>1, <3>2, ExactRests DEF Finite, Playing, Due, CountedDown
  <2>2. ASSUME NEW d \in DiskId, AllocDisk(d) \/ FreeDisk(d)
        PROVE  (Finite => Exact)'
    BY <1>2, <2>2, ExactRests DEF AllocDisk, FreeDisk, Playing, Due, CountedDown
  <2>3. ASSUME NEW t, NEW l \in Loops, Play(t, l)
        PROVE  (Finite => Exact)'
    <3>1. asked' # NoReq
      BY <2>3, MusType DEF Play, NoReq, PlayerInv, TypeOK
    <3> QED BY <3>1 DEF Finite, Playing
  <2>4. CASE Stop \/ Close
    BY <2>4 DEF Stop, Close, StopTrack, Finite, Playing, StopReq, NoReq
  <2>5. CASE PlayLoop
    BY <1>2, <2>5, ExactRests DEF PlayLoop, Playing, Due, CountedDown
  <2> QED BY <1>3, <2>1, <2>2, <2>3, <2>4, <2>5 DEF Control
<1>4. CASE ClientLoop
  <2>1. UNCHANGED <<disk, lenVars, cntVars, track, ready, asked>> /\ pc = "out"
        /\ \/ pc' = "fetch" /\ n' = FlushAsk
           \/ pc' = "loop"
    BY <1>4 DEF ClientLoop, ProcessCall
  <2>2. Due = 0 /\ Due' = 0
    BY <2>1 DEF Due, CountedDown
  <2> QED BY <1>2, <2>1, <2>2, ExactRests DEF Playing
<1>5. CASE CheckLoopAndEnd
  <2>1. UNCHANGED <<disk, track, ready, asked, pass_count, pass_3loop, pass_total, loop_total>>
    BY <1>5 DEF CheckLoopAndEnd
  <2> SUFFICES ASSUME Finite PROVE Exact'
    BY <1>1, <2>1 DEF Finite, Playing
  <2> DEFINE f == FirstFrames(disk, track)
  <2>2. n # FlushAsk /\ Due = 0 /\ Due' = 1
    BY <1>5 DEF CheckLoopAndEnd, Due, CountedDown, FlushAsk, PlayerInv, Positions
  <2>3. Exact
    BY <1>2
  <2>4. CASE pass_2loop # 1
    <3>1. pass_2loop' = pass_2loop - 1 /\ loop_count' = loop_count
      BY <1>5, <2>3, <2>4, LastPass DEF CheckLoopAndEnd, LoopsNow, PlayerInv, TypeOK, Exact
    <3>2. pass_count' + pass_2loop' + Due' = pass_count + pass_2loop + Due
      BY <2>1, <2>2, <3>1, FiniteTypes
    <3>3. /\ pass_2loop' > 0
          /\ \A x \in Nat : pass_2loop <= x => pass_2loop' <= x
      <4>1. pass_2loop > 0
        BY <2>3 DEF Exact
      <4> QED BY <2>4, <3>1, <4>1, FiniteTypes
    <3>4. (IF loop_count = 0 THEN f ELSE pass_3loop) \in Nat
      BY FiniteTypes
    <3> QED BY <1>1, <2>1, <2>3, <3>1, <3>2, <3>3, <3>4 DEF Exact
  <2>5. CASE pass_2loop = 1
    <3>1. pass_2loop' = pass_3loop /\ loop_count' = U32(loop_count + 1)
      BY <1>5, <2>5, LastPass DEF CheckLoopAndEnd, LoopsNow, PlayerInv, TypeOK
    <3>2. (loop_count + 1) * pass_3loop = loop_count * pass_3loop + pass_3loop
      BY FiniteTypes
    <3>3. pass_count + pass_3loop + 1 = f + (loop_count + 1) * pass_3loop
      <4> DEFINE a == loop_count * pass_3loop
      <4>1. pass_count + 1 = f + a /\ a \in Nat
        BY <2>2, <2>3, <2>5, FiniteTypes DEF Exact
      <4> HIDE DEF a, f
      <4>2. pass_count + pass_3loop + 1 = f + (a + pass_3loop)
        BY <4>1, FiniteTypes DEF f
      <4> QED BY <3>2, <4>2 DEF a
    <3>4. loop_count + 1 <= loop_total
      <4>1. pass_3loop <= IF loop_count + 1 = 0 THEN f ELSE pass_3loop
        BY FiniteTypes
      <4>2. pass_count <= f + (loop_total - 1) * pass_3loop /\ loop_total \in Nat \ {0}
        BY <2>3, FiniteTypes DEF Exact
      <4>3. loop_count + 1 \in Nat
        BY FiniteTypes
      <4> HIDE DEF f
      <4> QED BY <3>3, <4>1, <4>2, <4>3, NoMoreLoops, FiniteTypes DEF f
    <3>5. loop_total < WORD
      <4>1. loop_total > 0 /\ pass_total = f + (loop_total - 1) * pass_3loop
        BY <2>3 DEF Exact
      <4>2. loop_total \in Nat \ {0} /\ f + (loop_total - 1) * pass_3loop < WORD
        BY <4>1, FiniteTypes
      <4>3. f \in Nat \ {0} /\ pass_3loop \in Nat /\ pass_3loop > 1
        BY FiniteTypes
      <4> HIDE DEF f
      <4> QED BY <4>2, <4>3, LoopsFit
    <3>6. loop_count' = loop_count + 1
      <4>1. loop_count + 1 \in 0..(WORD - 1)
        BY <3>4, <3>5, FiniteTypes, PlayerAssumption
      <4> QED BY <3>1, <4>1, PlayerAssumption DEF U32
    <3>7. pass_count' + pass_2loop' + Due' = f + loop_count' * pass_3loop'
      BY <2>1, <2>2, <3>1, <3>3, <3>6
    <3>8. /\ pass_2loop' > 0 /\ loop_count' # 0
          /\ pass_2loop' <= IF loop_count' = 0 THEN f ELSE pass_3loop'
      BY <2>1, <3>1, <3>6, FiniteTypes
    <3> QED BY <1>1, <2>1, <2>3, <3>7, <3>8 DEF Exact
  <2> QED BY <2>4, <2>5
<1>6. CASE Fetch \/ Clear \/ RunFails \/ Filled
  <2>1. UNCHANGED <<disk, lenVars, cntVars, track, asked, n>>
    BY <1>6 DEF Fetch, Clear, RunFails, Filled
  <2>2. Playing' => Playing /\ Due' = Due
    BY <1>6, <2>1 DEF Fetch, Clear, RunFails, Filled, Playing, Due, CountedDown, ErrorFlags,
                      PlayerInv, TypeOK, Positions
  <2> QED BY <1>2, <2>1, <2>2, ExactRests
<1>7. CASE ApplyStop
  BY <1>7 DEF ApplyStop, StopTrack, Finite, Playing
<1>8. CASE ApplyTrack
  <2>1. disk \in DiskId /\ InRange(disk, req)
    BY <1>8 DEF ApplyTrack, PlayerInv, TypeOK, Positions
  <2>2. CASE track' = req
    <3> DEFINE f == FirstFrames(disk, req)
               p == LoopFrames(disk, req)
               lt == LoopTotal(disk, req, loop_to)
    <3>1. loop_to \in Nat \cup {InfLoop} /\ loop_to \in LoopArgs
      BY DEF PlayerInv, TypeOK, ExactInv, LoopArgsInv
    <3>2. f \in Word /\ p \in Word /\ lt \in Nat
      BY <2>1, <3>1, LengthType
    <3>3. f \in Nat /\ p \in Nat
      BY <3>2, PlayerAssumption DEF Word
    <3>4. /\ pass_count' = 0 /\ loop_count' = 0 /\ disk' = disk /\ pc' = "out"
          /\ pass_2loop' = f /\ pass_3loop' = p /\ loop_total' = lt
          /\ pass_total' = PassTotal(disk, req, loop_to)
      BY <1>8, <2>1, <2>2, MusType DEF ApplyTrack, StopTrack, SetLength
    <3>5. Due' = 0
      BY <3>4 DEF Due, CountedDown
    <3>6. lt > 0 => pass_total' = f + (lt - 1) * p
      <4> SUFFICES ASSUME lt > 0 PROVE PassTotal(disk, req, loop_to) = f + (lt - 1) * p
        BY <3>4
      <4>1. f + (lt - 1) * p < WORD
        BY <2>1, <3>1 DEF LengthsFit, InRange
      <4>2. f + (lt - 1) * p \in Nat
        <5>1. lt - 1 \in Nat
          BY <3>2
        <5> HIDE DEF f, p, lt
        <5>2. (lt - 1) * p \in Nat
          BY <3>3, <5>1
        <5> QED BY <3>3, <5>2
      <4>3. PassTotal(disk, req, loop_to) = U32(f + (lt - 1) * p)
        BY DEF PassTotal
      <4> HIDE DEF f, p, lt
      <4>4. U32(f + (lt - 1) * p) = f + (lt - 1) * p
        <5> DEFINE x == f + (lt - 1) * p
        <5>1. x \in 0..(WORD - 1)
          BY <4>1, <4>2, PlayerAssumption
        <5> HIDE DEF x
        <5>2. x % WORD = x
          BY <5>1, PlayerAssumption
        <5> QED BY <5>2 DEF U32, x
      <4> QED BY <4>3, <4>4
    <3>7. lt = 0 => pass_total' = 0
      BY <3>4 DEF PassTotal
    <3> HIDE DEF f, p, lt
    <3>8. SUFFICES ASSUME Finite' PROVE Exact'
      OBVIOUS
    <3>9. f > 0 /\ lt > 0
      BY <1>1, <2>2, <3>2, <3>4, <3>7, <3>8 DEF Finite, f
    <3>10. (lt - 1) * p >= 0
      <4>1. lt - 1 \in Nat
        BY <3>2, <3>9
      <4> QED BY <3>3, <4>1
    <3>11. pass_count' <= pass_total'
      BY <3>2, <3>3, <3>4, <3>6, <3>9, <3>10
    <3>12. pass_count' + pass_2loop' + Due' = f + loop_count' * pass_3loop'
      BY <3>3, <3>4, <3>5
    <3>13. FirstFrames(disk, track)' = f
      BY <1>1, <2>2, <3>4 DEF f
    <3>14. pass_2loop' <= IF loop_count' = 0 THEN f ELSE pass_3loop'
      BY <3>3, <3>4
    <3> QED BY <3>4, <3>6, <3>9, <3>11, <3>12, <3>13, <3>14 DEF Exact
  <2>3. CASE track' = 0
    BY <2>3 DEF Finite, Playing
  <2> QED BY <1>8, <2>2, <2>3 DEF ApplyTrack, StopTrack
<1>9. CASE RunPass
  <2>1. UNCHANGED <<disk, track, ready, asked, lenVars, loop_count>>
    BY <1>9 DEF RunPass
  <2> SUFFICES ASSUME Finite PROVE Exact'
    BY <1>1, <2>1 DEF Finite, Playing
  <2>2. Exact
    BY <1>2
  <2>3. Due = 1 /\ Due' = 0
    BY <1>9 DEF RunPass, Due, CountedDown, FlushAsk, PlayerInv, Positions, Finite, Playing
  <2>4. pass_count < pass_total
    BY <1>9, FiniteTypes DEF RunPass, ExactInv, EndSeen, TrackOver, Finite
  <2>5. pass_count' = pass_count + 1
    <3>1. pass_count + 1 \in 0..(WORD - 1) /\ pass_count' = U32(pass_count + 1)
      BY <1>9, <2>4, FiniteTypes, PlayerAssumption DEF RunPass, Finite, Playing
    <3> QED BY <3>1, PlayerAssumption DEF U32
  <2>6. pass_count' + pass_2loop' + Due' = pass_count + pass_2loop + Due /\ pass_count' <= pass_total'
    BY <2>1, <2>3, <2>4, <2>5, FiniteTypes
  <2> QED BY <1>1, <2>1, <2>2, <2>6 DEF Exact
<1>10. CASE Copy
  <2>1. UNCHANGED <<disk, lenVars, cntVars, track, ready, asked>>
    BY <1>10 DEF Copy
  <2>2. Due' = Due
    BY <1>10 DEF Copy, Due, CountedDown
  <2> QED BY <1>2, <2>1, <2>2, ExactRests DEF Playing
<1>11. CASE UNCHANGED vars
  BY <1>2, <1>11, ExactRests DEF vars, Playing, Due, CountedDown
<1> QED BY <1>3, <1>4, <1>5, <1>6, <1>7, <1>8, <1>9, <1>10, <1>11 DEF Next, ProcessStep

(* sc68_process(): a track of finite length is never overplayed and ends   *)
(* when the loops asked for have been reported, whatever the threads do,   *)
(* where lengths fit an unsigned int.                                      *)
THEOREM EndsAfterLoops == ValidDisks /\ LengthsFit => (Spec => []LoopsThenEnd)
<1> SUFFICES ASSUME ValidDisks, LengthsFit PROVE Spec => []LoopsThenEnd
  OBVIOUS
<1>1. Init => ExactInv
  BY DEF Init, ExactInv, LoopArgsInv, LoopArgs, EndSeen, Finite, Playing
<1>2. PlayerInv /\ ExactInv /\ [Next]_vars => ExactInv'
  BY LoopArgsStep, EndSeenStep, ExactStep DEF ExactInv
<1>3. PlayerInv /\ ExactInv => LoopsThenEnd
  <2> SUFFICES ASSUME PlayerInv, ExactInv, Finite
               PROVE  /\ pass_count <= pass_total
                      /\ loop_count <= loop_total
                      /\ TrackOver => loop_count = loop_total
    BY DEF LoopsThenEnd, Finite, Playing, Steady
  <2> DEFINE f == FirstFrames(disk, track)
  <2>1. /\ loop_total \in Nat \ {0} /\ pass_2loop \in Nat \ {0} /\ Due \in {0, 1}
        /\ pass_2loop <= IF loop_count = 0 THEN f ELSE pass_3loop
        /\ pass_count + pass_2loop + Due = f + loop_count * pass_3loop
        /\ pass_total = f + (loop_total - 1) * pass_3loop /\ pass_count <= pass_total
    <3>1. loop_total > 0 /\ pass_2loop > 0
      BY DEF ExactInv, Exact
    <3>2. loop_total \in Nat \ {0} /\ pass_2loop \in Nat \ {0} /\ Due \in {0, 1}
      BY <3>1, FiniteTypes
    <3> QED BY <3>2 DEF ExactInv, Exact
  <2>2. f \in Nat /\ pass_3loop \in Nat /\ pass_3loop > 1 /\ loop_count \in Nat /\ pass_count \in Nat
    BY FiniteTypes
  <2> HIDE DEF f
  <2>3. loop_count <= loop_total
    BY <2>1, <2>2, NoMoreLoops
  <2>4. TrackOver => loop_count = loop_total
    <3> SUFFICES ASSUME TrackOver PROVE loop_count = loop_total
      OBVIOUS
    <3>1. pass_count = f + (loop_total - 1) * pass_3loop
      BY <2>1, FiniteTypes DEF TrackOver
    <3> QED BY <2>1, <2>2, <3>1, AllLoops
  <2> QED BY <2>1, <2>3, <2>4
<1> QED BY <1>1, <1>2, <1>3, PlayerInvariant, PTL DEF Spec

-----------------------------------------------------------------------------
(* Implementation of the abstract Transport.                               *)
wanted == IF pc = "apply" THEN req ELSE track_to

LEMMA TracksInRange ==
  ASSUME NEW d \in DiskId, NEW t, InRange(d, t)
  PROVE  t \in Transport!Requests
  BY DEF InRange, Tracks, Transport!Requests

LEMMA TransportStep ==
  ASSUME ~Threaded, PlayerInv, MailboxInv, [Next]_vars, ValidDisks
  PROVE  [Transport!TNext]_(Transport!tvars)
<1> USE DEF Transport!tvars, diskVars, lenVars, cntVars, bufVars, callVars, ctlVars,
        Goto, Return, Transport!NoReq, Transport!StopReq, NoReq, StopReq
<1>1. CASE Control
  <2>1. ASSUME NEW d \in DiskId, Load(d) \/ Open(d)
        PROVE  [Transport!TNext]_(Transport!tvars)
    <3>1. PickTrack(d, DefTrack) \in Transport!Requests
      BY TracksInRange DEF ValidDisks
    <3>2. CASE disk = NoDisk
      <4>1. track' = track /\ wanted' = PickTrack(d, DefTrack)
        BY <2>1, <3>2 DEF Load, Open, Quiet, InstallDisk, ValidDisks, PlayerInv, RequestInRange, wanted
      <4> QED BY <3>1, <4>1 DEF Transport!TNext, Transport!Ask, wanted
    <3>3. CASE disk # NoDisk
      BY <2>1, <3>3 DEF Load, Open, Quiet, InstallDisk
    <3> QED BY <3>2, <3>3
  <2>2. ASSUME NEW d \in DiskId, AllocDisk(d) \/ FreeDisk(d)
        PROVE  UNCHANGED Transport!tvars
    BY <2>2 DEF AllocDisk, FreeDisk
  <2>3. ASSUME NEW t, NEW l \in Loops, Play(t, l)
        PROVE  Transport!TNext
    <3>1. PickTrack(disk, t) \in Transport!Requests
      BY <2>3, TracksInRange DEF Play, PlayerInv, TypeOK
    <3> QED BY <2>3, <3>1 DEF Transport!TNext, Transport!Ask, Play, MayControl
  <2>4. CASE Stop
    BY <2>4 DEF Transport!TNext, Transport!Ask, Transport!Requests, Stop, MayControl
  <2>5. CASE Close
    BY <2>5 DEF Transport!TNext, Transport!Eject, Close, StopTrack, Quiet
  <2>6. CASE PlayLoop
    BY <2>6 DEF PlayLoop
  <2> QED BY <1>1, <2>1, <2>2, <2>3, <2>4, <2>5, <2>6 DEF Control
<1>2. CASE ClientLoop
  BY <1>2 DEF ClientLoop, ProcessCall
<1>3. CASE CheckLoopAndEnd
  <2>1. pc = "loop" /\ pc' = "fetch" /\ UNCHANGED track /\ track_to' = PostEnd
    BY <1>3 DEF CheckLoopAndEnd
  <2>2. CASE TrackOver
    <3>1. track # 0
      BY <2>2 DEF MailboxInv, PlayerInv, TypeOK, Word, TrackOver
    <3>2. disk \in DiskId
      BY <2>1 DEF PlayerInv, TypeOK, Positions
    <3>3. NextTrack \in {StopReq, track + 1} /\ NextTrack \in Transport!Requests
      <4>1. track + 1 > Disk(disk).nb_mus \/ InRange(disk, track + 1)
        BY <3>2, DiskType DEF InRange, PlayerInv, TypeOK
      <4> QED BY <3>2, <4>1, TracksInRange DEF NextTrack, Transport!Requests
    <3> QED BY <2>1, <2>2, <3>1, <3>3 DEF PostEnd, Transport!TNext, Transport!Expire
  <2>3. CASE ~TrackOver
    BY <2>1, <2>3 DEF PostEnd
  <2> QED BY <2>2, <2>3
<1>4. CASE Fetch
  BY <1>4 DEF Fetch
<1>5. CASE Clear
  BY <1>5 DEF Clear, MailboxInv
<1>6. CASE ApplyStop
  BY <1>6 DEF ApplyStop, StopTrack, Transport!TNext, Transport!Serve
<1>7. CASE ApplyTrack
  <2>1. disk \in DiskId /\ InRange(disk, req)
    BY <1>7 DEF ApplyTrack, PlayerInv, TypeOK, Positions
  <2>2. req # NoReq
    BY <2>1, MusType
  <2> QED BY <1>7, <2>2 DEF ApplyTrack, StopTrack, Transport!TNext, Transport!Serve
<1>8. CASE RunPass \/ RunFails \/ Copy \/ Filled
  BY <1>8 DEF RunPass, RunFails, Copy, Filled
<1>9. CASE UNCHANGED vars
  BY <1>9 DEF vars
<1> QED BY <1>1, <1>2, <1>3, <1>4, <1>5, <1>6, <1>7, <1>8, <1>9 DEF Next, ProcessStep

(* sc68.h's promise: with a single thread the player is a Transport.       *)
THEOREM PlayerIsTransport == ValidDisks /\ ~Threaded => (Spec => PlaysAsPromised)
<1> SUFFICES ASSUME ValidDisks, ~Threaded PROVE Spec => PlaysAsPromised
  OBVIOUS
<1>1. Init => Transport!TInit
  BY DEF Init, Transport!TInit, Transport!NoReq, NoReq
<1>2. PlayerInv /\ PlayerInv' /\ MailboxInv /\ [Next]_vars => MailboxInv'
  BY MailboxStep
<1>3. PlayerInv /\ MailboxInv /\ [Next]_vars => [Transport!TNext]_(Transport!tvars)
  BY TransportStep
<1>4. Spec => []PlayerInv
  BY PlayerInvariant
<1> QED BY <1>1, <1>2, <1>3, <1>4, MailboxInit, PTL DEF Spec, PlaysAsPromised, Transport!TSpec

=============================================================================
