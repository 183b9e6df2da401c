------------------------------ MODULE Transport ------------------------------
(***************************************************************************)
(* What sc68.h promises of sc68_play(), sc68_stop() and sc68_process(): a   *)
(* player plays one track at a time and has one pending request.  The track *)
(* changes only when the request is served, and each request is served at   *)
(* most once.  The end of a track posts a request like the client does.     *)
(***************************************************************************)
EXTENDS Integers

CONSTANT TrackId          \* the track numbers, positive

NoReq == 0
StopReq == -1
Requests == TrackId \cup {StopReq}

VARIABLES now,            \* the track playing, 0 if none
          want            \* the request pending, NoReq if none

tvars == <<now, want>>

TInit == now = 0 /\ want = NoReq

Ask(r) == want' = r /\ UNCHANGED now

Expire == /\ now # 0
          /\ want' \in {StopReq, now + 1} \cap Requests
          /\ UNCHANGED now

(* A track may fail to start: then nothing plays.                          *)
Serve == /\ want # NoReq
         /\ want' = NoReq
         /\ now' \in IF want = StopReq THEN {0} ELSE {want, 0}

Eject == now' = 0 /\ want' = NoReq

TNext == (\E r \in Requests : Ask(r)) \/ Expire \/ Serve \/ Eject

TSpec == TInit /\ [][TNext]_tvars
=============================================================================
