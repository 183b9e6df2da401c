------------------------------ MODULE MksPlay ------------------------------
(***************************************************************************)
(* The background player of mksc68 (mksc68/src/mksc68_cmd_play.c).  The    *)
(* command interpreter starts a play thread and stops it through one       *)
(* static structure, playinfo, that both read and write without any lock.  *)
(* The commands that change the disk being edited are here too: the play   *)
(* thread plays the very disk the interpreter edits.                       *)
(*                                                                         *)
(* An instance of libsc68 is named after the thread that created it.  Of   *)
(* the instance only the mailbox, the disk and "has a music" remain; gdb   *)
(* mode (play --debug) is left out.  `beat' is the parity of its passes:   *)
(* to play on is a step, and a thread may play for ever.                   *)
(***************************************************************************)
EXTENDS Integers, FiniteSets

CONSTANTS
  Thread,    \* play threads that may exist
  DskId      \* disks that may be loaded in the editor

Null == "null"
NoDsk == "nodisk"

ASSUME MksAssumption ==
  Null \notin Thread /\ DskId # {} /\ NoDsk \notin DskId

VARIABLES
  dsk, dead,       \* dsk.disk of mksc68_dsk.c; disks freed
  isplaying, sc68, code, thread,       \* playinfo
  tpc, inst, cancelled, joined,         \* of each play thread
  mpc, why, held, err,                 \* the interpreter
  harm,                                 \* undefined behaviour met
  deaf,        \* threads told to stop inside play_init()
  early        \* `play' was typed before the last thread had run at all

playinfo == <<isplaying, sc68, code, thread>>
threads == <<tpc, inst, cancelled, joined>>
main == <<mpc, why, held, err>>
history == <<deaf, early>>     \* no code reads these two
mksVars == <<dsk, dead, playinfo, threads, main, harm, history>>

Running == {"start", "out", "create", "open", "play", "first", "load", "ready",
            "run", "end", "destroy", "forget", "over"}
Live(t) == tpc[t] \in Running
NoInst == [live |-> FALSE, disk |-> NoDsk, req |-> "none", mus |-> FALSE, beat |-> FALSE]

(* mksc68 starts with no disk and a zeroed playinfo.                       *)
MksInit ==
  /\ dsk = NoDsk /\ dead = {}
  /\ isplaying = 0 /\ sc68 = Null /\ code = 0 /\ thread = Null
  /\ tpc = [t \in Thread |-> "none"] /\ inst = [t \in Thread |-> NoInst]
  /\ cancelled = {} /\ joined = {}
  /\ mpc = "idle" /\ why = "none" /\ held = Null /\ err = 0
  /\ harm = {} /\ deaf = {} /\ early = FALSE

-----------------------------------------------------------------------------
(* The play thread.  Each step is one access to playinfo or to the         *)
(* instance; playinfo.sc68 is read again each time.                        *)

AtStep(t, p) == tpc[t] = p
Jump(t, p) == tpc' = [tpc EXCEPT ![t] = p]
(* After a call that blocks on the audio stream: pthread_cancel() acts     *)
(* there, and the thread ends without running play_end().                  *)
JumpUnlessCancelled(t, p) == Jump(t, IF t \in cancelled THEN "done" ELSE p)
Fail(kind, bad) == harm' = IF bad THEN harm \cup {kind} ELSE harm

(* play_init() entered.                                                    *)
Start(t) ==
  /\ AtStep(t, "start") /\ Jump(t, "out")
  /\ isplaying' = 2 /\ code' = -1
  /\ UNCHANGED <<dsk, dead, sc68, thread, inst, cancelled, joined, main, harm, history>>

(* The audio stream opens or not.                                          *)
OpenOut(t, ok) ==
  /\ AtStep(t, "out") /\ JumpUnlessCancelled(t, IF ok THEN "create" ELSE "end")
  /\ UNCHANGED <<dsk, dead, playinfo, inst, cancelled, joined, main, harm, history>>

Create(t, ok) ==
  /\ AtStep(t, "create") /\ Jump(t, IF ok THEN "open" ELSE "end")
  /\ sc68' = IF ok THEN t ELSE Null
  /\ inst' = IF ok THEN [inst EXCEPT ![t] = [NoInst EXCEPT !.live = TRUE]] ELSE inst
  /\ UNCHANGED <<dsk, dead, isplaying, code, thread, cancelled, joined, main, harm, history>>

(* sc68_open() takes the disk of the editor, without copying it; with no   *)
(* disk, or no instance, it fails.                                         *)
OpenDisk(t) ==
  /\ AtStep(t, "open")
  /\ IF sc68 = Null \/ dsk = NoDsk
     THEN Jump(t, "end") /\ UNCHANGED inst
     ELSE /\ Jump(t, "play")
          /\ inst' = [inst EXCEPT ![sc68].disk = dsk, ![sc68].req = "play"]
  /\ UNCHANGED <<dsk, dead, playinfo, cancelled, joined, main, harm, history>>

(* sc68_play() writes the mailbox, whatever it holds.                      *)
PostPlay(t) ==
  /\ AtStep(t, "play")
  /\ IF sc68 = Null \/ inst[sc68].disk = NoDsk
     THEN Jump(t, "end") /\ UNCHANGED inst
     ELSE Jump(t, "first") /\ inst' = [inst EXCEPT ![sc68].req = "play"]
  /\ UNCHANGED <<dsk, dead, playinfo, cancelled, joined, main, harm, history>>

(* sc68_process(pi->sc68, 0, 0) reads the mailbox.  Only SC68_ERROR is a   *)
(* failure: an end of disk is not.                                         *)
FirstProcess(t) ==
  /\ AtStep(t, "first")
  /\ IF sc68 = Null
     THEN Jump(t, "end") /\ UNCHANGED <<inst, code, harm>>
     ELSE /\ Fail("disk", inst[sc68].disk \in dead)
          /\ inst' = [inst EXCEPT ![sc68].req = "none"]
          /\ CASE inst[sc68].req = "play" -> Jump(t, "load") /\ UNCHANGED code
               [] inst[sc68].req # "play" -> Jump(t, "ready") /\ code' = 0
  /\ UNCHANGED <<dsk, dead, isplaying, sc68, thread, cancelled, joined, main, history>>

(* change_track() loads the track; stop_track() in it clears the mailbox.  *)
Loaded(ok) == ok /\ sc68 # Null

LoadTrack(t, ok) ==
  /\ AtStep(t, "load")
  /\ Jump(t, IF Loaded(ok) THEN "ready" ELSE "end")
  /\ code' = IF Loaded(ok) THEN 0 ELSE -1
  /\ inst' = IF sc68 = Null THEN inst
             ELSE [inst EXCEPT ![sc68].req = "none", ![sc68].mus = ok]
  /\ UNCHANGED <<dsk, dead, isplaying, sc68, thread, cancelled, joined, main, harm, history>>

(* play_run() entered.                                                     *)
RunStart(t) ==
  /\ AtStep(t, "ready") /\ Jump(t, "run")
  /\ isplaying' = 1 /\ code' = 1
  /\ UNCHANGED <<dsk, dead, sc68, thread, inst, cancelled, joined, main, harm, history>>

(* One call of sc68_process() and the write of what it gave.  Without a    *)
(* request the track goes on, or ends (SC68_END, SC68_CHANGE); the 68000   *)
(* or the output may fail.  A pass without a music reads a null pointer.   *)
AllowedBug(what) == TRUE
Allowed(what) == inst[sc68].req = "stop" => what = "end"

RunCodeBug(what) == CASE what = "more" -> code [] what = "end" -> 8 [] what = "error" -> -1
RunCode(what) == CASE what = "more" -> code [] what = "end" -> 0 [] what = "error" -> -1

PlayPass(t, what) ==
  /\ AtStep(t, "run")
  /\ IF sc68 = Null
     THEN what = "error" /\ UNCHANGED <<inst, harm>>
     ELSE /\ harm' = harm
               \cup (IF inst[sc68].disk \in dead THEN {"disk"} ELSE {})
               \cup (IF inst[sc68].req = "none" /\ ~inst[sc68].mus THEN {"nullmus"} ELSE {})
          /\ Allowed(what)
          /\ inst' = IF what = "end"
                     THEN [inst EXCEPT ![sc68].req = "none", ![sc68].mus = FALSE]
                     ELSE [inst EXCEPT ![sc68].beat = ~@]
  /\ JumpUnlessCancelled(t, IF what = "more" THEN "run" ELSE "end")
  /\ code' = IF t \in cancelled THEN code ELSE RunCode(what)
  /\ UNCHANGED <<dsk, dead, isplaying, sc68, thread, cancelled, joined, main, history>>

(* play_end(): three writes to playinfo around the destruction.            *)
EndStart(t) ==
  /\ AtStep(t, "end") /\ Jump(t, "destroy")
  /\ isplaying' = 3
  /\ UNCHANGED <<dsk, dead, sc68, code, thread, inst, cancelled, joined, main, harm, history>>

DestroyInstBug(i) == inst
DestroyInst(i) == [inst EXCEPT ![i].live = FALSE, ![i].beat = FALSE]

EndDestroy(t) ==
  /\ AtStep(t, "destroy") /\ Jump(t, "forget")
  /\ inst' = IF sc68 = Null THEN inst ELSE DestroyInst(sc68)
  /\ Fail("twice", sc68 # Null /\ ~inst[sc68].live)
  /\ UNCHANGED <<dsk, dead, playinfo, cancelled, joined, main, history>>

EndForget(t) ==
  /\ AtStep(t, "forget") /\ Jump(t, "over")
  /\ sc68' = Null
  /\ UNCHANGED <<dsk, dead, isplaying, code, thread, inst, cancelled, joined, main, harm, history>>

IdleMark == 0            \* the last assignment of play_end()

EndOver(t) ==
  /\ AtStep(t, "over") /\ Jump(t, "done")
  /\ isplaying' = IdleMark
  /\ UNCHANGED <<dsk, dead, sc68, code, thread, inst, cancelled, joined, main, harm, history>>

ThreadStep(t) ==
  \/ Start(t) \/ OpenDisk(t) \/ PostPlay(t) \/ FirstProcess(t)
  \/ \E ok \in BOOLEAN : OpenOut(t, ok) \/ Create(t, ok) \/ LoadTrack(t, ok)
  \/ RunStart(t) \/ \E what \in {"more", "end", "error"} : PlayPass(t, what)
  \/ EndStart(t) \/ EndDestroy(t) \/ EndForget(t) \/ EndOver(t)

-----------------------------------------------------------------------------
(* The command interpreter.  `why' is what it does once a thread is joined.*)

Command == mpc = "idle"

InInit == {"open", "play", "first", "load"}  \* play_init(), the instance exists

NeedsStopBug == FALSE
NeedsStop == isplaying # 0        \* dsk_play() stops what plays already

(* `play', in the foreground or not.  run_play() refuses without a disk.   *)
CmdPlay(fg) ==
  /\ Command /\ dsk # NoDsk
  /\ mpc' = IF NeedsStop THEN "look" ELSE "reset"
  /\ why' = IF fg THEN "playfg" ELSE "playbg"
  /\ early' = (early \/ (isplaying = 0 /\ \E t \in Thread : Live(t)))
  /\ UNCHANGED <<dsk, dead, playinfo, threads, held, err, harm, deaf>>

(* `stop', and the end of the session, which stops too.                    *)
CmdStop(quit) ==
  /\ Command
  /\ why' = IF quit THEN "quit" ELSE "stop"
  /\ mpc' = IF isplaying # 0 THEN "look" ELSE IF quit THEN "exit" ELSE "idle"
  /\ err' = -1
  /\ UNCHANGED <<dsk, dead, playinfo, threads, held, harm, history>>

(* `load' and `new' free the disk of the editor and take another.          *)
CmdDisk(d) ==
  /\ Command /\ d # dsk
  /\ dsk' = d
  /\ dead' = (dead \cup ({dsk} \ {NoDsk})) \ {d}
  /\ UNCHANGED <<playinfo, threads, main, harm, history>>

(* dsk_stop(): with an instance ask it to stop, else cancel the thread.    *)
CancelBug == cancelled
Cancel == IF sc68 = Null THEN cancelled \cup ({thread} \ {Null}) ELSE cancelled

StopLook ==
  /\ mpc = "look"
  /\ held' = sc68
  /\ mpc' = IF sc68 = Null THEN "join" ELSE "ask"
  /\ cancelled' = Cancel
  /\ Fail("join", sc68 = Null /\ thread \in joined \cup {Null})
  /\ UNCHANGED <<dsk, dead, playinfo, tpc, inst, joined, why, err, history>>

(* sc68_cntl() and sc68_stop(); playinfo.sc68 may be read again.  Without  *)
(* a disk in the instance the event is not posted.                         *)
StopAsk ==
  /\ mpc = "ask" /\ mpc' = "join" /\ held' = Null
  /\ \E i \in {held, sc68} :
       /\ Fail("freed", i # Null /\ ~inst[i].live)
       /\ inst' = IF i # Null /\ inst[i].disk # NoDsk
                  THEN [inst EXCEPT ![i].req = "stop"] ELSE inst
  /\ deaf' = deaf \cup {t \in {thread} \cap Thread : tpc[t] \in InInit}
  /\ UNCHANGED <<dsk, dead, playinfo, tpc, cancelled, joined, why, err, early>>

JoinReadyBug == TRUE
JoinReady == thread \in Thread => ~Live(thread)

(* pthread_join(), then the result of the play.                            *)
Join ==
  /\ mpc = "join" /\ JoinReady
  /\ joined' = joined \cup ({thread} \ {Null})
  /\ Fail("join", thread \in joined \cup {Null})
  /\ err' = IF why \in {"playbg", "playfg"} THEN err ELSE code
  /\ mpc' = CASE why \in {"playbg", "playfg"} -> "reset"
              [] why = "quit" -> "exit" [] OTHER -> "idle"
  /\ UNCHANGED <<dsk, dead, playinfo, tpc, inst, cancelled, why, held, history>>

(* dsk_play(): clear playinfo ...                                          *)
Reset ==
  /\ mpc = "reset" /\ mpc' = "spawn"
  /\ isplaying' = 0 /\ sc68' = Null /\ code' = 0 /\ thread' = Null
  /\ UNCHANGED <<dsk, dead, threads, why, held, err, harm, history>>

(* ... and create the thread; in the foreground, wait for it.              *)
Spawn(t) ==
  /\ mpc = "spawn" /\ ~Live(t)
  /\ Jump(t, "start")
  /\ thread' = t
  /\ inst' = [inst EXCEPT ![t] = NoInst]
  /\ cancelled' = cancelled \ {t} /\ joined' = joined \ {t} /\ deaf' = deaf \ {t}
  /\ mpc' = IF why = "playfg" THEN "join" ELSE "idle"
  /\ why' = IF why = "playfg" THEN "wait" ELSE why
  /\ err' = 0
  /\ UNCHANGED <<dsk, dead, isplaying, sc68, code, held, harm, early>>

SpawnFails ==
  /\ mpc = "spawn" /\ mpc' = "idle" /\ err' = -1
  /\ UNCHANGED <<dsk, dead, playinfo, threads, why, held, harm, history>>

(* The process exits with its threads; mksc68 is run again.                *)
Exit ==
  /\ mpc = "exit"
  /\ dsk' = NoDsk /\ dead' = {}
  /\ isplaying' = 0 /\ sc68' = Null /\ code' = 0 /\ thread' = Null
  /\ tpc' = [t \in Thread |-> "none"] /\ inst' = [t \in Thread |-> NoInst]
  /\ cancelled' = {} /\ joined' = {}
  /\ mpc' = "idle" /\ why' = "none" /\ held' = Null /\ err' = 0
  /\ harm' = {} /\ deaf' = {} /\ early' = FALSE

Main ==
  \/ StopLook \/ StopAsk \/ Join \/ Reset \/ (\E t \in Thread : Spawn(t))
  \/ SpawnFails \/ Exit

Typed ==
  \/ \E b \in BOOLEAN : CmdPlay(b) \/ CmdStop(b)
  \/ \E d \in DskId : CmdDisk(d)

MksNext == Typed \/ Main \/ \E t \in Thread : ThreadStep(t)

(* Commands are not owed; both threads are scheduled.  No track is owed to *)
(* end: passes that play on are steps too.                                 *)
MksSpec == /\ MksInit /\ [][MksNext]_mksVars
        /\ WF_mksVars(Main) /\ \A t \in Thread : WF_mksVars(ThreadStep(t))

-----------------------------------------------------------------------------
MksTypeOK ==
  /\ dsk \in DskId \cup {NoDsk} /\ dead \subseteq DskId
  /\ isplaying \in 0..3 /\ code \in {-1, 0, 1}
  /\ sc68 \in Thread \cup {Null} /\ thread \in Thread \cup {Null}
  /\ tpc \in [Thread -> Running \cup {"none", "done"}]
  /\ inst \in [Thread -> [live: BOOLEAN, disk: DskId \cup {NoDsk},
                          req: {"none", "play", "stop"}, mus: BOOLEAN,
                          beat: BOOLEAN]]
  /\ cancelled \subseteq Thread /\ joined \subseteq Thread
  /\ mpc \in {"idle", "look", "ask", "join", "reset", "spawn", "exit"}
  /\ why \in {"none", "playbg", "playfg", "wait", "stop", "quit"}
  /\ held \in Thread \cup {Null} /\ err \in {-1, 0, 1}
  /\ harm \subseteq {"disk", "nullmus", "twice", "freed", "join"}
  /\ deaf \subseteq Thread /\ early \in BOOLEAN

(* Until a `play' is typed before the last thread had run at all, one      *)
(* thread is alive at most, the one of playinfo, and it has not been       *)
(* joined: dsk_play() joins it before it clears the structure it uses.     *)
(* isplaying outlives only a cancelled thread, dsk_stop() joins no other   *)
(* thread twice, and what it returns for another is the result of the play *)
(* and not the "in progress" value of playinfo.code.                       *)
OneAtATime ==
  ~early =>
    /\ \A t \in Thread : Live(t) => t = thread /\ t \notin joined
    /\ isplaying # 0 => thread \in cancelled \/ (thread \in Thread /\ Live(thread))
    /\ mpc \in {"look", "ask", "join"} =>
         /\ thread \in Thread
         /\ thread \in joined => thread \in cancelled
         /\ code = 1 => Live(thread) \/ thread \in cancelled

(* Over every interleaving of commands and play thread but those of a      *)
(* `play' typed too early: the thread works on the instance it created,    *)
(* which is alive until play_end() destroys it, once; only a cancelled     *)
(* thread leaves an instance behind; only a thread told to stop inside     *)
(* play_init() plays without a music; and dsk_stop() holds a destroyed     *)
(* instance only when the thread is past its destruction in play_end().    *)
InstancesSound ==
  ~early =>
    /\ "twice" \notin harm
    /\ \A t \in Thread :
         /\ tpc[t] \in InInit \cup {"ready", "run"} => sc68 = t /\ inst[t].live
         /\ tpc[t] = "done" /\ inst[t].live => t \in cancelled
         /\ tpc[t] = "run" /\ ~inst[t].mus => t \in deaf
    /\ mpc = "ask" /\ ~inst[held].live => tpc[held] \in {"forget", "over", "done"}

(* The disk sc68_process() plays has not been freed by `load' or `new'.    *)
PlayedDiskAlive == "disk" \notin harm

(* One structure, so one thread (the comment of playinfo says "unique").   *)
UniquePlayinfo == Cardinality({t \in Thread : Live(t)}) <= 1

(* Once the interpreter has asked the instance to stop and waits for the   *)
(* thread, no order to play is left for the thread to find.                *)
Asked == mpc = "join" /\ why \in {"stop", "quit"} /\ thread \notin cancelled
StopHeard == Asked /\ sc68 # Null => inst[sc68].req # "play"

(* The interpreter waits for a thread that has no stop to find.            *)
Stopping == mpc \in {"look", "ask", "join"} /\ why # "wait"
StopLost ==
  /\ mpc = "join" /\ why # "wait" /\ thread \in Thread \ cancelled
  /\ tpc[thread] \in InInit \cup {"start", "out", "create", "ready", "run"}
  /\ inst[thread].req # "stop"

(* dsk_stop() waits for a thread that was not told to stop, or no longer   *)
(* knows, only when it told it inside play_init(); told later, the event   *)
(* stays in the mailbox until the thread leaves play_run().                *)
StopsKept == ~early /\ StopLost => thread \in deaf

(* `stop' returns, the thread it waits for ends, unless the stop is lost   *)
(* in play_init().                                                         *)
StopReturns == (Stopping /\ ~early) ~> (~Stopping \/ StopLost)
=============================================================================
