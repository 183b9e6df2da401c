----------------------------- MODULE Sc68Player -----------------------------
(***************************************************************************)
(* The sc68 player instance (libsc68/src/api68.c): one loaded disk, the    *)
(* track being played, the mailbox "track_to/loop_to" through which        *)
(* sc68_play() and sc68_stop() talk to sc68_process(), the loop and length *)
(* counters of the track and the internal PCM buffer.                      *)
(*                                                                         *)
(* sc68_process() is split at the points where another thread may write    *)
(* the mailbox; `pc' says where the process thread is.  sc68->mus and      *)
(* sc68->track are always set together (stop_track, change_track,          *)
(* load_disk), so `track' stands for both: track = 0 is a null sc68->mus.  *)
(* 68000 code, chips and PCM values are abstracted to "succeeds or fails"; *)
(* IoPlug models the chips a track needs.                                  *)
(***************************************************************************)
EXTENDS Integers, FiniteSets

CONSTANTS
  DiskId,     \* addresses file68_load may return
  Info,       \* DiskId -> contents of the disk (disk68_t)
  Loops,      \* values a client passes as the "loop" of sc68_play()
  DefMs,      \* sc68->time.def_ms
  MaxAsk,     \* largest PCM count a client passes to sc68_process()
  WORD,       \* 2^32, the modulus of unsigned int
  Threaded    \* TRUE: play and stop may be called during sc68_process()

NoDisk == "none"                         \* sc68->disk == 0
FlushAsk == -1                           \* sc68_process(sc68, buf, 0)
NoReq == 0                               \* track_to: nothing to do
StopReq == -1                            \* track_to: end requested
DefTrack == -1                           \* SC68_DEF_TRACK
DefLoop == 0                             \* SC68_DEF_LOOP
InfLoop == -1                            \* SC68_INF_LOOP

MusInfo == [first_fr: Nat, loops_fr: Nat, loops: Nat, frq: Nat \ {0}, buf: Nat \ {0}]
DiskInfo == [nb_mus: Nat \ {0}, def_mus: Nat, force_track: Nat,
             force_loops: Nat \cup {InfLoop}, force_ms: Nat]

ASSUME PlayerAssumption ==
  /\ NoDisk \notin DiskId
  /\ \A d \in DiskId :
       /\ Info[d].disk \in DiskInfo
       /\ Info[d].disk.def_mus < Info[d].disk.nb_mus
       /\ Info[d].mus \in [1..Info[d].disk.nb_mus -> MusInfo]
  /\ Loops \subseteq Nat \cup {InfLoop}
  /\ DefMs \in Nat
  /\ MaxAsk \in Nat \ {0}
  /\ WORD \in Nat \ {0}
  /\ Threaded \in BOOLEAN

(* Definitions named "...Bug" are not the code: each is the definition that *)
(* follows it with a plausible mistake, and the runs must notice it.       *)

ErrorFlagsBug == {"idle", "loop", "seek"}
ErrorFlags == {"idle", "change", "loop", "end", "seek"}   \* SC68_ERROR: ~0

Disk(d) == Info[d].disk
Mus(d, t) == Info[d].mus[t]
InRange(d, t) == t \in 1..Disk(d).nb_mus
U32Bug(x) == x
U32(x) == x % WORD
MsToFr(ms, hz) == U32((ms * hz) \div 1000)

VARIABLES
  heap,        \* disks allocated
  mine,        \* disks the client loaded itself and has to free
  disk, tobe3, \* sc68->disk, sc68->tobe3
  track, track_to, loop_to,
  pass_count, loop_count, pass_total, loop_total, pass_2loop, pass_3loop,
  bufpos, buflen, bufmax,
  pc, n, ret, req,  \* the call of sc68_process() in progress
  cpc, loop_arg,    \* the control thread inside sc68_play()
  asked,       \* latest request of the client not answered yet
  ready,       \* the client's play loop is due to call sc68_process()
  fault        \* undefined behaviour reached by the C code

diskVars == <<heap, mine, disk, tobe3>>
lenVars  == <<pass_total, loop_total, pass_2loop, pass_3loop>>
cntVars  == <<pass_count, loop_count>>
bufVars  == <<bufpos, buflen, bufmax>>
callVars == <<n, ret, req>>
ctlVars  == <<cpc, loop_arg>>
vars == <<diskVars, track, track_to, loop_to, lenVars, cntVars, bufVars,
          pc, callVars, ctlVars, asked, ready, fault>>

-----------------------------------------------------------------------------
(* State after sc68_create(): the structure comes zeroed from calloc().    *)
Init ==
  /\ heap = {} /\ mine = {} /\ disk = NoDisk /\ tobe3 = FALSE
  /\ track = 0 /\ track_to = NoReq /\ loop_to = DefLoop
  /\ pass_count = 0 /\ loop_count = 0
  /\ pass_total = 0 /\ loop_total = 0 /\ pass_2loop = 0 /\ pass_3loop = 0
  /\ bufpos = 0 /\ buflen = 0 /\ bufmax = 0
  /\ pc = "out" /\ n = 0 /\ ret = {} /\ req = NoReq
  /\ cpc = "idle" /\ loop_arg = DefLoop
  /\ asked = NoReq /\ ready = FALSE /\ fault = "none"

(* stop_track() but for its writes of the mailbox, which callers merge.    *)
StopTrackBug(newTrack) ==
  /\ track' = IF newTrack = 0 THEN track ELSE newTrack
  /\ pass_count' = 0 /\ loop_count' = 0
  /\ bufpos' = 0 /\ buflen' = 0

StopTrack(newTrack) ==
  /\ track' = newTrack
  /\ pass_count' = 0 /\ loop_count' = 0
  /\ bufpos' = 0 /\ buflen' = 0

(* Where sc68_play() takes its track and loop from.                        *)
PickTrack(d, t) ==
  IF Disk(d).force_track > 0 THEN Disk(d).force_track
  ELSE IF t = DefTrack THEN Disk(d).def_mus + 1 ELSE t

PickLoop(d, l) == IF Disk(d).force_loops # 0 THEN Disk(d).force_loops ELSE l

-----------------------------------------------------------------------------
(* The control thread.  Disks are loaded, opened, closed and freed between *)
(* two calls of sc68_process(); play and stop too unless Threaded.         *)
(* sc68->disk may be read: it is null or a disk not freed.  A call that    *)
(* reads a freed one (sc68_play(), sc68_process(): has_disk()) has no      *)
(* defined behaviour and is not followed; sc68_close(), sc68_stop() and    *)
(* load_disk() only compare the pointer.                                   *)
DiskAlive == disk # NoDisk => disk \in heap

Quiet == pc = "out" /\ cpc = "idle" /\ fault = "none"
MayControl == cpc = "idle" /\ fault = "none" /\ (Threaded \/ pc = "out")

FreeBug(d) == heap' = heap /\ mine' = mine \ {d}
Free(d) == heap' = heap \ {d} /\ mine' = mine \ {d}

(* load_disk(): d is freed on every failure, even when sc68->disk was set. *)
Rejected(d) == d

InstallDisk(d, freeOnClose) ==
  LET t == PickTrack(d, DefTrack) IN
  IF disk # NoDisk
  THEN /\ Free(Rejected(d))
       /\ UNCHANGED <<disk, tobe3, track, track_to, loop_to, asked, ready>>
  ELSE /\ disk' = d /\ tobe3' = freeOnClose /\ track' = 0
       /\ IF InRange(d, t)
          THEN /\ track_to' = t /\ loop_to' = PickLoop(d, DefLoop)
               /\ asked' = t /\ ready' = TRUE
               /\ heap' = heap \cup {d}
               /\ mine' = mine
          ELSE /\ Free(Rejected(d))
               /\ UNCHANGED <<track_to, loop_to, asked, ready>>

(* sc68_load(), sc68_load_uri(), sc68_load_mem().                          *)
Load(d) ==
  /\ Quiet /\ d \in DiskId \ heap
  /\ InstallDisk(d, TRUE)
  /\ UNCHANGED <<lenVars, cntVars, bufVars, pc, callVars, ctlVars, fault>>

(* sc68_open() of a disk the client holds, the current one included: that  *)
(* one is refused and freed like any other, and sc68->disk stays.          *)
Open(d) ==
  /\ Quiet /\ d \in mine
  /\ InstallDisk(d, FALSE)
  /\ UNCHANGED <<lenVars, cntVars, bufVars, pc, callVars, ctlVars, fault>>

(* sc68_load_disk(), sc68_load_disk_uri(), sc68_disk_load_mem().           *)
AllocDisk(d) ==
  /\ Quiet /\ d \in DiskId \ heap
  /\ heap' = heap \cup {d} /\ mine' = mine \cup {d}
  /\ UNCHANGED <<disk, tobe3, track, track_to, loop_to, lenVars, cntVars,
                 bufVars, pc, callVars, ctlVars, asked, ready, fault>>

(* sc68_disk_free() of a disk that is not playing.                         *)
FreeDisk(d) ==
  /\ Quiet /\ d \in mine \ {disk}
  /\ Free(d)
  /\ UNCHANGED <<disk, tobe3, track, track_to, loop_to, lenVars, cntVars,
                 bufVars, pc, callVars, ctlVars, asked, ready, fault>>

(* sc68_close().                                                           *)
Close ==
  /\ Quiet /\ disk # NoDisk
  /\ StopTrack(0) /\ track_to' = NoReq /\ loop_to' = DefLoop
  /\ heap' = IF tobe3 THEN heap \ {disk} ELSE heap
  /\ fault' = IF tobe3 /\ disk \notin heap THEN "double_free" ELSE fault
  /\ disk' = NoDisk /\ tobe3' = FALSE
  /\ asked' = NoReq /\ ready' = FALSE
  /\ UNCHANGED <<mine, lenVars, bufmax, pc, callVars, ctlVars>>

(* sc68_play(): posts the track, then the loop.  Calls that fail or only   *)
(* read (SC68_CUR_TRACK) change nothing.                                   *)
Play(t, l) ==
  /\ MayControl /\ disk # NoDisk /\ DiskAlive
  /\ InRange(disk, PickTrack(disk, t))
  /\ track_to' = PickTrack(disk, t)
  /\ asked' = PickTrack(disk, t)
  /\ ready' = TRUE
  /\ cpc' = "loop_to" /\ loop_arg' = PickLoop(disk, l)
  /\ UNCHANGED <<diskVars, track, loop_to, lenVars, cntVars, bufVars, pc, callVars, fault>>

PlayLoop ==
  /\ cpc = "loop_to"
  /\ loop_to' = loop_arg
  /\ cpc' = "idle" /\ loop_arg' = DefLoop
  /\ UNCHANGED <<diskVars, track, track_to, lenVars, cntVars, bufVars, pc,
                 callVars, asked, ready, fault>>

(* sc68_stop().                                                            *)
Stop ==
  /\ MayControl /\ disk # NoDisk
  /\ track_to' = StopReq /\ asked' = StopReq
  /\ UNCHANGED <<diskVars, track, loop_to, lenVars, cntVars, bufVars, pc,
                 callVars, ctlVars, ready, fault>>

-----------------------------------------------------------------------------
(* The process thread: one call of sc68_process().                         *)

Goto(label) == pc' = label

Return(flags) ==
  /\ Goto("out") /\ ret' = flags
  /\ ready' = (ready /\ "end" \notin flags)

(* The client's loop calls again until it has seen SC68_END.               *)
ProcessCall(k) ==
  /\ pc = "out" /\ fault = "none" /\ ready /\ (Threaded \/ cpc = "idle")
  /\ DiskAlive
  /\ n' = k /\ ret' = {"idle"} /\ req' = NoReq
  /\ Goto(IF k = FlushAsk THEN "fetch" ELSE "loop")
  /\ UNCHANGED <<diskVars, track, track_to, loop_to, lenVars, cntVars, bufVars,
                 ctlVars, asked, ready, fault>>

TrackOver == pass_total > 0 /\ pass_count >= pass_total
LoopsNowBug == pass_2loop = 0
LoopsNow == pass_2loop > 0 /\ U32(pass_2loop - 1) = 0
NextTrackBug == IF Disk(disk).force_track > 0 \/ track + 1 > Disk(disk).nb_mus + 1
                THEN StopReq ELSE track + 1
NextTrack == IF Disk(disk).force_track > 0 \/ track + 1 > Disk(disk).nb_mus
             THEN StopReq ELSE track + 1

PostEndBug == IF TrackOver \/ LoopsNow THEN NextTrack ELSE track_to
PostEnd == IF TrackOver THEN NextTrack ELSE track_to

(* The buffer is empty: count the loop, post the end of the track.         *)
CheckLoopAndEnd ==
  /\ pc = "loop" /\ n > 0 /\ buflen = 0
  /\ pass_2loop' = IF LoopsNow THEN pass_3loop
                   ELSE IF pass_2loop > 0 THEN pass_2loop - 1 ELSE 0
  /\ loop_count' = IF LoopsNow THEN U32(loop_count + 1) ELSE loop_count
  /\ ret' = IF LoopsNow THEN ret \cup {"loop"} ELSE ret
  /\ track_to' = PostEnd
  /\ Goto("fetch")
  /\ UNCHANGED <<diskVars, track, loop_to, pass_total, loop_total, pass_3loop,
                 pass_count, bufVars, n, req, ctlVars, asked, ready, fault>>

(* apply_change_track() reads the mailbox, ...                             *)
Fetch ==
  /\ pc = "fetch"
  /\ req' = track_to
  /\ \/ track_to # NoReq /\ Goto("clear") /\ UNCHANGED <<ret, ready>>
     \/ track_to = NoReq /\ n = FlushAsk /\ Return(ret)
     \/ /\ track_to = NoReq /\ n # FlushAsk /\ Goto("run")
        /\ ret' = ret \ {"idle"} /\ UNCHANGED ready
  /\ UNCHANGED <<diskVars, track, track_to, loop_to, lenVars, cntVars, bufVars,
                 n, ctlVars, asked, fault>>

(* ... clears it ...                                                       *)
Clear ==
  /\ pc = "clear"
  /\ track_to' = NoReq
  /\ Goto("apply")
  /\ UNCHANGED <<diskVars, track, loop_to, lenVars, cntVars, bufVars, callVars,
                 ctlVars, asked, ready, fault>>

(* ... and obeys what it read.  stop_track() clears the mailbox again.     *)
ApplyStop ==
  /\ pc = "apply" /\ req = StopReq
  /\ StopTrack(0) /\ track_to' = NoReq /\ loop_to' = DefLoop
  /\ asked' = NoReq
  /\ Return(ret \cup {"end"})
  /\ UNCHANGED <<diskVars, lenVars, bufmax, n, req, ctlVars, fault>>

(* Length of the track in passes of the 68000 play routine.                *)
ForceMs(d, t) == IF Disk(d).force_ms = 0 /\ Mus(d, t).first_fr = 0
                 THEN DefMs ELSE Disk(d).force_ms
FirstFrames(d, t) == IF ForceMs(d, t) > 0 THEN MsToFr(ForceMs(d, t), Mus(d, t).frq)
                     ELSE U32(Mus(d, t).first_fr)
LoopFrames(d, t) == IF ForceMs(d, t) > 0 THEN MsToFr(ForceMs(d, t), Mus(d, t).frq)
                    ELSE U32(Mus(d, t).loops_fr)

(* 0 stands for endless.                                                   *)
LoopTotalBug(d, t, l) == IF l = InfLoop THEN 0 ELSE l - 1

LoopTotal(d, t, l) ==
  IF l = InfLoop THEN 0 ELSE IF l = DefLoop THEN Mus(d, t).loops ELSE l

PassTotalBug(d, t, l) ==
  IF LoopTotal(d, t, l) = 0 THEN 0
  ELSE U32(FirstFrames(d, t) + LoopTotal(d, t, l) * LoopFrames(d, t))

PassTotal(d, t, l) ==
  LET total == LoopTotal(d, t, l) IN
  IF total = 0 THEN 0
  ELSE U32(FirstFrames(d, t) + (total - 1) * LoopFrames(d, t))

SetLength(d, t, l) ==
  /\ loop_total' = LoopTotal(d, t, l)
  /\ pass_2loop' = FirstFrames(d, t)
  /\ pass_3loop' = LoopFrames(d, t)
  /\ pass_total' = PassTotal(d, t, l)

GrownBug(d, t) == bufmax
Grown(d, t) == IF Mus(d, t).buf > bufmax THEN Mus(d, t).buf ELSE bufmax

(* change_track(): the track starts, or the chips, the replay, the music   *)
(* data or its init code fail first, or the PCM buffer cannot be grown.    *)
ApplyTrack ==
  /\ pc = "apply" /\ req # StopReq /\ InRange(disk, req)
  /\ track_to' = NoReq
  /\ asked' = NoReq
  /\ \/ /\ StopTrack(req)
        /\ SetLength(disk, req, loop_to)
        /\ bufmax' = Grown(disk, req)
        /\ Return(ret \cup {"change"})
     \/ /\ StopTrack(0)
        /\ \/ UNCHANGED <<lenVars, bufmax>>
           \/ /\ SetLength(disk, req, loop_to)
              /\ Mus(disk, req).buf > bufmax /\ bufmax' = 0
        /\ Return(ErrorFlags)
  /\ UNCHANGED <<diskVars, loop_to, n, req, ctlVars, fault>>

(* One pass of the 68000 and of the chips: it fills the PCM buffer.  It    *)
(* reads sc68->mus, a null pointer when no track is set.                   *)
RunPass ==
  /\ pc = "run"
  /\ IF track = 0
     THEN /\ fault' = "null_music" /\ Goto("out")
          /\ UNCHANGED <<pass_count, bufpos, buflen>>
     ELSE /\ bufpos' = 0 /\ buflen' = Mus(disk, track).buf
          /\ pass_count' = U32(pass_count + 1)
          /\ Goto("copy")
          /\ UNCHANGED fault
  /\ UNCHANGED <<diskVars, track, track_to, loop_to, lenVars, loop_count, bufmax,
                 callVars, ctlVars, asked, ready>>

(* The 68000 code stops abnormally, or the YM emulator fails.              *)
RunFails ==
  /\ pc = "run"
  /\ Return(ErrorFlags)
  /\ UNCHANGED <<diskVars, track, track_to, loop_to, lenVars, cntVars, bufVars,
                 n, req, ctlVars, asked, fault>>

CopyBug ==
  LET len == IF buflen <= n THEN buflen ELSE n IN
  /\ pc = "copy" \/ (pc = "loop" /\ n > 0 /\ buflen > 0)
  /\ n' = n - len
  /\ Goto("loop")
  /\ UNCHANGED <<diskVars, track, track_to, loop_to, lenVars, cntVars, bufVars,
                 ret, req, ctlVars, asked, ready, fault>>

(* Hand over what the buffer holds, as far as the client has room.         *)
Copy ==
  LET len == IF buflen <= n THEN buflen ELSE n IN
  /\ pc = "copy" \/ (pc = "loop" /\ n > 0 /\ buflen > 0)
  /\ bufpos' = bufpos + len /\ buflen' = buflen - len /\ n' = n - len
  /\ Goto("loop")
  /\ UNCHANGED <<diskVars, track, track_to, loop_to, lenVars, cntVars, bufmax,
                 ret, req, ctlVars, asked, ready, fault>>

Filled ==
  /\ pc = "loop" /\ n = 0
  /\ Return(ret)
  /\ UNCHANGED <<diskVars, track, track_to, loop_to, lenVars, cntVars, bufVars,
                 n, req, ctlVars, asked, fault>>

-----------------------------------------------------------------------------
Control ==
  \/ \E d \in DiskId : Load(d) \/ Open(d) \/ AllocDisk(d) \/ FreeDisk(d)
  \/ Close \/ Stop \/ PlayLoop
  \/ /\ disk # NoDisk
     /\ \E t \in {DefTrack} \cup 1..Disk(disk).nb_mus, l \in Loops : Play(t, l)

ProcessStep ==
  \/ CheckLoopAndEnd \/ Fetch \/ Clear \/ ApplyStop \/ ApplyTrack
  \/ RunPass \/ RunFails \/ Copy \/ Filled

ClientLoop == \E k \in 1..MaxAsk \cup {FlushAsk} : ProcessCall(k)

Next == Control \/ ProcessStep \/ ClientLoop

Spec == Init /\ [][Next]_vars

(* A call of sc68_process() is carried through, sc68_play() returns, and   *)
(* the client's play loop (sc68.h:62-66) asks for PCMs again and again until *)
(* SC68_END, whatever flush calls it makes in between: hence SF.           *)
Fairness ==
  /\ WF_vars(ProcessStep) /\ WF_vars(PlayLoop)
  /\ SF_vars(\E k \in 1..MaxAsk : ProcessCall(k))
FairSpec == Spec /\ Fairness

-----------------------------------------------------------------------------
Tracks == UNION {1..Disk(d).nb_mus : d \in DiskId}
Word == 0..WORD - 1

(* The types of the fields of sc68_t and of the two threads' positions.    *)
TypeOK ==
  /\ heap \subseteq DiskId /\ mine \subseteq DiskId
  /\ disk \in DiskId \cup {NoDisk} /\ tobe3 \in BOOLEAN
  /\ track \in Nat /\ track_to \in Nat \cup {StopReq}
  /\ req \in Nat \cup {StopReq} /\ asked \in Nat \cup {StopReq}
  /\ loop_to \in Nat \cup {InfLoop} /\ loop_arg \in Nat \cup {InfLoop}
  /\ pass_count \in Word /\ loop_count \in Word /\ pass_total \in Word
  /\ loop_total \in Nat /\ pass_2loop \in Word /\ pass_3loop \in Word
  /\ bufpos \in Nat /\ buflen \in Nat /\ bufmax \in Nat
  /\ pc \in {"out", "loop", "fetch", "clear", "apply", "run", "copy"}
  /\ n \in Nat \cup {FlushAsk} /\ ret \subseteq ErrorFlags
  /\ cpc \in {"idle", "loop_to"} /\ ready \in BOOLEAN
  /\ fault \in {"none", "null_music", "double_free"}

(* The player never dereferences a null sc68->mus and never frees a disk   *)
(* twice, whatever the order of loads, plays, stops, track ends and        *)
(* failures, when the client stops calling at SC68_END.                    *)
NoFault == fault = "none"

(* Every disk allocated has one owner left to free it: the client, or the  *)
(* player when it is to free the disk on close.                            *)
NoLeak == \A d \in heap : (d \in mine) <=> ~(d = disk /\ tobe3)

(* The disk the player is to free on close has not been freed.             *)
OwnDiskAlive == tobe3 => disk \in heap

(* sc68->disk is freed under the player only by the client's handing over  *)
(* again a disk it holds, the current one: sc68_open() of the open disk.   *)
LostByReopen ==
  DiskAlive /\ ~DiskAlive' => disk' = disk /\ disk \in mine /\ mine' = mine \ {disk}

(* Over every sequence of load, open, close and free no disk is leaked or  *)
(* has two owners, the player's own disk is never freed before its close,  *)
(* and the only call that leaves sc68->disk pointing to a freed disk is    *)
(* sc68_open() of that very disk.                                          *)
OneOwner == [](NoLeak /\ OwnDiskAlive) /\ [][LostByReopen]_vars

(* No track outside the disk is ever requested or played: the second range *)
(* check, in apply_change_track(), never fails.                            *)
RequestInRange ==
  /\ disk = NoDisk => track = 0 /\ track_to = NoReq
  /\ disk # NoDisk =>
       /\ track # 0 => InRange(disk, track)
       /\ \A r \in {track_to, asked} : r \in {NoReq, StopReq} \/ InRange(disk, r)
       /\ pc \in {"clear", "apply"} => req = StopReq \/ InRange(disk, req)

(* On a disk whose track was forced at load time, nothing but that track   *)
(* is played: neither a client's choice nor the end of the track leaves it. *)
ForcedTrackOnly ==
  disk # NoDisk /\ Disk(disk).force_track > 0
    => track \in {0, Disk(disk).force_track}

(* The client and the automatic next track stay on tracks of the disk, and *)
(* on the forced one if there is one.                                      *)
TracksAllowed == RequestInRange /\ ForcedTrackOnly

(* The PCMs still to deliver lie inside the allocated buffer.              *)
BufferInBounds == bufpos + buflen <= bufmax

(* A request in flight: in the mailbox or read by the process thread.      *)
InHand == {track_to} \cup (IF pc \in {"clear", "apply"} THEN {req} ELSE {})

(* sc68_play()/sc68_stop(): the event posted is kept until sc68_process()  *)
(* has obeyed it.                                                          *)
RequestKept == asked # NoReq => asked \in InHand

(* The same, but for the one way the code drops a request without threads: *)
(* the end of a track overwrites it.                                       *)
RequestKeptToTrackEnd == asked # NoReq => asked \in InHand \/ TrackOver

(* Counters of a track agree: passes played and passes to the next loop    *)
(* add up to the first pass plus the loops reported.  The check counts     *)
(* down one pass before the pass is played.                                *)
Steady == track # 0 /\ ready /\ asked = NoReq /\ fault = "none"
CountedDown == pc \in {"fetch", "clear", "apply", "run"}
LoopAccounting ==
  Steady /\ FirstFrames(disk, track) > 0 /\ pass_3loop > 0 =>
    U32(pass_count + pass_2loop + (IF CountedDown /\ n # FlushAsk THEN 1 ELSE 0))
      = U32(FirstFrames(disk, track) + loop_count * pass_3loop)

(* A track of finite length is never overplayed, and when it ends exactly  *)
(* the loops asked for have been reported.  Of loops of a single pass one  *)
(* more is, by the call that finds the track over.                         *)
LoopsThenEnd ==
  Steady /\ FirstFrames(disk, track) > 0 /\ pass_3loop > 1 /\ pass_total > 0 =>
    /\ pass_count <= pass_total
    /\ loop_count <= loop_total
    /\ TrackOver /\ CountedDown => loop_count = loop_total

(* Every request is answered while the client's loop runs, unless the disk *)
(* is freed under the player.                                              *)
RequestAnswered == (asked # NoReq /\ ready) ~> (asked = NoReq \/ ~DiskAlive)

(* The track was asked to loop for ever, or no more than its disk says,    *)
(* which is for ever.                                                      *)
Endless ==
  /\ disk # NoDisk /\ track # 0
  /\ loop_to = InfLoop \/ (loop_to = DefLoop /\ Mus(disk, track).loops = 0)

(* Left alone, a disk that lives plays to its end or to a track that has   *)
(* no end.                                                                 *)
DiskEnds == []<>(asked # NoReq) \/ [](ready => <>(~ready \/ Endless \/ ~DiskAlive))

(* Without threads the player implements the abstract Transport: the track *)
(* changes only by serving the pending request, which is cleared with it.  *)
Transport == INSTANCE Transport WITH
  TrackId <- Tracks,
  now     <- track,
  want    <- IF pc = "apply" THEN req ELSE track_to

PlaysAsPromised == Transport!TSpec
=============================================================================
