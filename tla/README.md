# A verification model of sc68

sc68 plays Atari ST and Amiga music: it loads a disk of 68000 music programs,
runs them on an emulated 68000 with emulated sound chips, and hands PCM to a
front end.  This directory holds TLA+ models of the parts of it where the order
of events, the boundaries of numbers or the ownership of memory matter, the TLC
configurations that check them, and TLAPS proofs of what should not depend on
small instances.

## The system

| part | state it keeps | operations | what makes it correct |
|---|---|---|---|
| player instance, `libsc68/src/api68.c` | loaded disk and who frees it, track, mailbox `track_to`/`loop_to`, pass and loop counters, PCM buffer | load, open, close, play, stop, process | no use of a freed disk or a null music; a posted event is obeyed; a track plays exactly its loops |
| 68000 run control, `emu68/emu68.c`, `inst68.c` | status, stack, mask, instruction countdown | finish, interrupt, reset | run loops stop for the right reason; handlers return; chips are told the right time |
| 68000 instructions, `emu68/lines/`, `inl68_*.h` | registers, CCR, memory | execute one instruction | results and flags are those of the numbers; nothing else changes |
| chip bus, `emu68/ioplug68.c`, `mem68.c` | list of plugged chips, 256-line map | plug, unplug, reset | the map and the list agree; the chips plugged are those of the track |
| MFP timers, `io68/mfpemul.c`, `mfp_io.c` | four timers, enable and mask | register access, next interrupt, adjust, reset | an interrupt is delivered on time, once and in order |
| STE DMA sound and LMC, `io68/mwemul.c`, `mw_io.c` | counter, base, end, control, mixer settings | register access, mix, command | the counter stays in its block, loops or stops at its end |
| Paula, `io68/paulaemul.c`, `paula_io.c` | four voices, DMACON, INTREQ | register access, mix | a voice reloads at its end and never reads past it |
| YM-2149, `io68/ym_io.c`, `ymemul.c`, `ym_puls.c`, `ym_blep.c` | list of timed writes, generators | register write, run, adjust | writes replayed once and in order; no time lost |
| disk files, `file68/src/file68.c` | tracks, tags and who owns their strings | load, complete, tag, save, free | no string leaked or freed twice; a disk saved is a disk kept |
| streams, `file68/src/vfs68_*.c` | place, buffers, transfer in progress | open, read, write, seek, close | the bytes of the source, in order; what is written is there or an error is given |
| mksc68 background player, `mksc68_cmd_play.c` | play thread, its info block | play, stop | one thread at a time; stop stops it |
| mksc68 disk editor, `mksc68_dsk.c`, `mksc68_tag.c` | disk being edited | load, tag, purge, length, save | a consistent disk |
| front ends (sc68, winamp, audacious, gst, vlc, fb2k, dshow) | play loop, stop flag | play, stop, seek | their threads and the player agree |
| resources, URIs, options, messages, dialogs | tables | look up, parse | functional correctness |
| unice68, desa68, as68, sourcer68, tools | none between calls | pack, assemble | functional correctness |

How they interact: a front end calls the player.  `sc68_play()` and
`sc68_stop()` only write the mailbox; `sc68_process()`, usually in another
thread, serves it between two passes.  A track change resets the bus, plugs the
chips the track needs and runs its init code; a pass runs its play code, then
the interrupts the MFP or Paula gives, then asks the chips for PCM.  Chips are
called by the 68000 through the line map; at the start of the next call of code
they are told the cycles of the pass.  Disks come from file68 streams, which
stack (memory, file, gzip, network).  mksc68 edits a disk in memory and gives
that very disk to its play thread.

`PROJECT.json` lists every component with its status, and under "hazards" what
in this code a test would hardly reach, with the properties that watch it.

## Modules

| module | of | proofs |
|---|---|---|
| `Sc68Player` (`Sc68PlayerMC`: the disks of its runs) | `api68.c`: the instance and its API | `Sc68PlayerProofs` |
| `Transport` | what `sc68.h` promises of play and stop, implemented by `Sc68Player` | |
| `IoPlug` | the chip bus and the track change that rebuilds it | `ChipsProofs` |
| `Emu68Run` | running 68000 code, its exceptions and interrupts | `CpuProofs` |
| `Alu68` | arithmetic, logic, shifts, bits and conditions of the 68000 | `Alu68Proofs` |
| `Cpu68` | its registers and memory, effective addresses, operations on them | `CpuProofs` |
| `Inst68` | every line of the decoder, one action per kind of instruction | `CpuProofs` |
| `CpuMC` | `Emu68Run` and `Inst68` on small instances | `CpuProofs` |
| `Mfp` | the MFP timers | `ChipsProofs` |
| `SampleMemory` | the places that chips play samples from | |
| `MwDma` | the DMA sound of the STE | `SoundProofs` |
| `Paula` | the voices of Paula | `SoundProofs` |
| `BlockPlayer` | what a chip that plays blocks of samples promises, implemented by `MwDma` and by each voice of `Paula` | |
| `Ym` | the register writes of the YM-2149 and both its engines | `SoundProofs` |
| `ChipsMC` | `IoPlug`, `Mfp`, `MwDma`, `Paula` and `Ym` on small instances | `ChipsProofs` |
| `Vfs68` | streams and loading through them | `StreamProofs` |
| `ByteStream` | what `vfs68_read()` promises, implemented twice by `Vfs68`: by the base streams and by the gzip stream over them | |
| `Save68` | saving through streams | `StreamProofs` |
| `Disk68` | disks and their tags: loading, editing, saving | `Mksc68Proofs` |
| `MksPlay` | the background player of mksc68 and the disk it shares with the editor | `Mksc68Proofs` |
| `FrontMC` | `MksPlay`, `Sc68Player`, `Disk68`, `Vfs68` and `Save68` on small instances | `FrontProofs` |

Definitions whose name ends in `Bug` are not the code: each is the definition
after it with a plausible mistake, and shows that a property notices it.  The
`MC` modules that put several components in one run have a variable `part`: a
behaviour exercises one of them and the others rest, since they share no state.
Where one acts on another (the clock on the timers, the play thread on the disk
of the editor, code on chips) that is in the module itself.

### Sc68Player

The state is that of `sc68_t`: `disk`, `tobe3`, `track` (with `sc68->mus`, which
is always set with it), `track_to`, `loop_to`, the counters `pass_*` and
`loop_*`, and the PCM buffer.  `heap` and `mine` say which disks are allocated
and which the client has to free; `asked` is a ghost, the latest request not
answered.  Load, Open, AllocDisk, FreeDisk, Close, Play, PlayLoop and Stop are
the API calls.  `sc68_play()` writes `track_to` and then `loop_to`, so it has two
steps when another thread processes.  `sc68_process()` is ProcessCall followed by
CheckLoopAndEnd, Fetch, Clear, ApplyStop or ApplyTrack, RunPass or RunFails, and
Copy: it is cut at each access to the mailbox, and `pc` says where it is.
Seconds, PCM values, 68000 code and error texts are abstracted; counters are
unsigned ints modulo `WORD`.

`Transport` has one track playing and one request pending.  Under the refinement
mapping the request pending is the mailbox, or the request already fetched.

### IoPlug, Mfp

`plugged`, `mapped_io` and `interrupt_io` are the list, the line map and the
interrupting chip of `emu68_t`.  Two ghosts say where the registers of a chip
come from: `touched` are the chips changed since the track change, `stained` those
that still hold what an earlier track left.  A track change is three steps (`reset_emulators()`, its trap
code, the init code), because it may fail in each; Access is an access of 68000
code to any line, Pass is a pass, Destroy and Create are the life of the
instance.

`tcr`, `cti`, `tdr_res` and `tdr_cur` are the fields of `mfp_timer_t`.  A timer is
not counted down: `cti` is the time of its next interrupt in bogo cycles, from
which a count is worked out on demand.  The clock of the 68000 stands still
while code runs, so at any point of the play code or of a handler any sequence
of register accesses is possible (Code).  Fire is one round of the loop of
`mfp_interrupt()` with its time converted to 68000 cycles by `mfpio_interrupt()`,
EndOfPass its end, Adjust the rebasing at the next pass, Reset that of a track
change.  `fault` records the assertion that would fail.

### Emu68Run, Alu68, Cpu68, Inst68

`status`, `ipl`, `stack`, `finish_sp`, `instructions` and `cycle` are fields of
`emu68_t`.  In `Emu68Run` an instruction is what it does to the run, one action
per kind: a plain one, one that changes the mask, one that pushes or drops, RTS,
RTE, STOP, RESET, TRAP.  The countdown is part of every instruction.  Called
code starts with `emu68_finish()` and runs until the stack rises over `finish_sp`
or the status is not normal; the player's `finish()` continues after STOP and
fails otherwise.  Interrupt is one round of the loop of `emu68_interrupt()`, with
arbitrary times in the pass; the mask may refuse it.

`Alu68` has the operators of `inl68_arithmetic.h`, `inl68_logic.h`,
`inl68_shifting.h` and the conditions of `cc68.h` as the code computes them:
operands at the top of a long whatever their size, carry and overflow by the
signs.  `Cpu68` has effective addresses with their side effects, reads and
writes of registers and big-endian memory, MOVEM, LINK and the like.  `Inst68`
has an action for each entry of the line tables, which picks registers and
operands, and records in `alu` what was computed from what; an exception ends
the run of the instruction (`exc`).  The opcode words are left out; a long has
`2 * HALF` values, and `Bits` says how many bits each size has.

### MwDma, Paula, Ym

Both players of samples keep a place in memory with bits below a byte, here
steps of a fraction of a byte; code writes registers, then the chip mixes the
buffer of the pass one sample a step, and wraps at the top of memory.  MixBegins
and VoicesBegin latch what `mix_ste()` and `paula_mix()` read once; Restart is the
overshoot arithmetic of `mix_ste()`, and Round that of `mix_one()`.  `dmaKnown` and
`paulaKnown` are ghosts: the block being played was promised, that is not empty
and not shorter than a step.

In `Ym`, `list` is `event_buf`, which code fills with writes at their cycle and the
engine goes through at the end of the pass; `ovf` says that writes were dropped.
The generators are the time they have reached (`now`), the registers as they see
them (`reg`) and the samples made; `rest` is what the blep engine carries over to
the next piece, while the puls engine looks ahead to the next event.

### Vfs68, Save68

A byte is its place in the file; what is compressed stands for RATIO bytes a
byte.  `call` is the read of the base stream in progress.  A base read may give
fewer bytes than asked or fail as the C library and the descriptor may.  For
curl, CurlPerform is one round of `isf_need_more()`: the transfer brings any
number of bytes into the ring (Written is `isf_write_cb()`), none, or fails;
CurlCopy takes bytes from the ring and CurlReturns ends the read, also because
the time is up or the block is gone.  The gzip stream is the chain of
`isf_read()`, `isf_inflate_buffer()` and `isf_fill_input_buffer()`, cut where it
reads its base.  The loader is `file68_load()`: the steps named Read... are what
it decides after each read, `stage` is how far it is, and `lvl` 1 says that it
reads through gzip.

`Save68` is `file68_save_uri()` and `file68_save()`: the pieces of the disk one
after the other, through the buffers of the gzip stream if asked, to a
descriptor, a stdio file with its own buffer, or memory, any of which may have
no more room.

### Disk68

A file is the chunks of its head and its tracks.  ReadFile takes them; Completed
is `valid()`, which works out names, years, aliases, times, loops and hardware
flags; Saved is what `save_sc68()` writes, which leaves out what the reader would
work out again.  A string is a value with the block of the heap it lies in, 0 for
those in the data of the disk or in static tables; Freed and Fresh follow the
allocation of `set_customtag()` and of the editor.  Edits are those of mksc68.

### MksPlay

The static structure `playinfo` (`isplaying`, `sc68`, `code`, `thread`), the
play threads each at their `tpc`, and the interpreter at its `mpc`. Each step is
one access to shared state. Both sides access it without locks; an instance is
what its thread still knows of it. Commands are typed at any time, whatever the
thread is doing, and Cancel takes effect where the thread blocks on the audio
stream.  `harm` collects the undefined behaviour met.  Two history variables, which
no step reads, say how the user met the thread: `deaf` are the threads told to stop
inside `play_init()`, `early` that a play was typed before the last thread had run at
all.  CmdDisk is load and new, which free the disk being edited.

## Runs

| run | instance | shows |
|---|---|---|
| `player_seq` | two disks, one with forced track and length; one client thread | over all sequences of calls, disks have one owner, tracks are allowed ones, the buffer holds what is in it, loops are played out; the player implements `Transport`; requests are answered and a disk ends |
| `player_race` | one disk; play and stop from another thread at every step of process | violation: an event posted between the read and the clear of the mailbox is lost |
| `player_bad_force` | a disk whose forced track does not exist | violation: a freed disk stays installed |
| `front` | the player with a control thread; two play threads of mksc68; the editor over five files of two tracks; files and servers of each kind to load; full disks at any byte | loop counters right nevertheless; one play at a time on its own instance, a stop is kept unless it came in `play_init()`; strings owned once; a disk saved is loaded again; streams implement `ByteStream`; files loaded whole or not at all, saved in order, whole where there is room; a stop that is kept, and load, return |
| `mksplay_lost_stop` | commands typed at any time | violation: a stop during initialisation is overwritten |
| `mksplay_two` | as above | violation: a second play typed before the first thread runs makes two threads share `playinfo` |
| `mksplay_disk` | as above, with load and new | violation: they free the disk that plays |
| `disk_tags` | as `front` | violation: counting tags duplicates one |
| `save_full` | as `front` | violation: success without the file being there |
| `cpu` | two passes, three interrupts, stack of 4, budgets 3, 5 and 6, all instructions in play code, handlers that behave; or one instruction with all its operands from 10 states | handlers return, every interrupt runs, chips get each pass's cycles once, runaway code ends; arithmetic, divisions, comparisons and shifts are those of the numbers, MOVEM and LINK restore, only the operand changes |
| `emu68run_stop` | handlers may STOP | violation: the next handler starts in a stopped state |
| `chips` | the five chips on their lines; two timers with prescalers of 2 and 3 bogo cycles; a DMA; two voices; two YM registers and a list of two events, both engines | map and list agree, no destroyed chip is called, no track meets what an earlier one left in a chip; no timer is late, interrupts in order, a pass ends; DMA and voices play the blocks they are given; writes are replayed or counted as lost, samples are those of the time |

Why the bounds are enough.

* *Player*: a counter wraps at `WORD` (8) within a run; tracks
  have a loop shorter than, as long as and without a first pass, endless (-1),
  by default and given; buffers are smaller, equal and larger than `MaxAsk`; two
  disks show one taking the other's place.
* *68000 run*: every budget can run out in every kind of code, nested traps fill
  the stack, a third interrupt meets what two left behind; what happens in a
  pass depends on the one before only through the fields that TypeOK lists, so
  two passes suffice.
* *Instructions*: a byte of 2 bits, a word of 4 and a long of 8 have every
  combination of signs, carries and zero; the states have the boundaries of the
  three sizes, equal, overlapping, odd and even addresses, a stack pointer among
  the operands, and both values of X.  Shift counts reach twice the size of a
  long.  Properties are about one instruction, and its start is any of the
  states: one instruction a behaviour suffices.
* *Chips*: `IoPlug` has no bound.  A pass holds several interrupts of a fast
  timer, times that are no whole number of cycles, and ties; MaxCti bounds the
  time given by a change of prescaler, which grows the remaining count by one
  each time.  DMA blocks follow each other, overlap, are empty or shorter than a
  step, and steps divide a block or do not; memory ends not far above them.
  Paula has blocks of 1 and 3, shorter and longer than a step.  A YM
  sample is 1.5 of its cycles, a pass of 19 of them is no whole number of samples,
  and its list overflows at the third write.
* *mksc68*: two threads are the most that can be alive when the first one is not
  joined.  In `front` commands come at any step, and a session is followed until
  `early` (MksFollowed): from there two threads may share `playinfo`, as `mksplay_two`
  shows, and nothing is promised of them, so the properties begin with ~early.
  `front` has one disk, `mksplay_disk` two; two disks in `front` gave the same result.
* *Disks*: files cover each completion rule of `valid()`; two custom tags fill a
  track; two edits reach every pair of edits between load and save; frequencies
  are low enough that a loop has a length in ms (see below).  70 files, with more
  combinations of names and times, gave the same result.
* *Streams*: a ring of two blocks of two bytes overflows after 4 of 7 bytes,
  reads start and end anywhere in a block, buffers of 3 and 4 bytes are no
  multiple of each other; files are whole and cut in their head and in their
  data; two performs without a byte end a read.  Pieces saved are smaller and
  larger than the buffers, and room ends at every byte.

Deadlock is checked in every run.

Fairness.  `player_seq`: the process thread takes its steps (WF), and the
client's loop keeps calling `sc68_process()` for PCM while it is told to
(SF, as calls with no PCM and control calls may come between two of them).
`front`: the interpreter and both play threads are scheduled (WF on each, while the
session is followed), and a load goes on (WF); commands are not owed, servers need not send, and a track may
play for ever, as every pass of the play thread is a step.  `cpu`: instructions
are executed and returns noticed (WF); called code may loop for ever, what stops
it is the countdown.  `chips`: the code of a pass ends, which is that countdown,
and the loops of `mfp_interrupt()` go on (WF on Step; nothing is owed by code).

## Proofs

All are of the modules as TLC checks them, for every value of the constants.

`Sc68PlayerProofs` (assumes ValidDisks: the default and a forced track exist on
the disk; `player_bad_force` shows why).  The inductive invariant PlayerInv has the
types, the ownership of disks (what is installed is allocated; a disk is the
client's or the player's), the range of every request wherever it is in flight,
and that a null music is only met when no step will use it, which needs the
positions of both threads.  From it: types, no fault, OneOwner, and, with the
forced track, TracksAllowed.  OneOwner (DisksOwned) covers the open of the disk that
is open already: no disk leaks or is owned twice (NoLeak), the player's own disk
lives until it is closed (OwnDiskAlive), and the one step that frees `sc68->disk`
while it stays installed is that open (LostByReopen).
The client keeps to the header in one more thing: it does not free the disk it has
open (FreeDisk), and neither plays nor processes a player whose disk it lost so.  For one thread, RequestsKept adds the mailbox
invariant, and PlayerIsTransport shows that each step is a step of `Transport` or
a stutter.  BufferKept adds that the buffer is as large as the track in play
needs, which a track change sees to before it sets the track.  CountersAgree:
passes played, passes to the next loop and the one counted down but not yet
played (Due) add up to the passes of the loops reported, modulo the machine word;
from where the remainder lies follows LoopAccounting.  EndsAfterLoops is the same
without the modulo, under LengthsFit, no track being as long as 2^32 passes,
which the code does not check: then the total of passes is reached in the very
pass where the last loop is (NoMoreLoops, AllLoops), hence LoopsThenEnd.

`ChipsProofs`, the bus (assumes each chip lies in a line of its own, as
`IoPlugAssumption` states).  BusInvariant: the line map is the one of the list,
an instance destroyed has an empty bus, the chips plugged are those of the
flags from the moment a track change has begun, and no chip that a track can
reach holds what an earlier one left (Apart): those on the bus were reset as they
were plugged, and since then only they and the shifter were changed.  From it:
BusSound (map and list agree, no assertion fails, no destroyed chip is called) and
TracksApart, by line map, mix and interrupts, at every step of the track and not only
as it begins: a chip that came back on the bus without its reset would break it.

`CpuProofs`, running code.  Types and ChipClock hold for any code.  HandlersReturn,
EveryInterruptRuns and NeverStopped assume Behaved: handlers do not lower the
stack under their frame, change the mask, stop or reset.  The invariant says
where the frame of the running handler is in the stack and that the mask under
it is the one of the pass, which is what RTE gives back.

`ChipsProofs`, the MFP (assumes a count lasts at least a cycle of the 68000: 4*417 bogo
cycles to 128).  The inductive invariant is TypeOK, OnTime and that the clock
is at the end of the pass when times are rebased.  The argument: the timer that
fires is the first one (one exists: FirstExists), so its time, rounded down to
cycles (Rounding), is not after that of any other; whatever code does at that
time only moves timers away from it (TimerValues); and at the end of the pass
the first timer, and so every timer, is beyond it.  ChipsCompose: a behaviour of
`ChipsMC` is one of each chip, so that the theorems of all five hold in it;
ChipsTypes puts their types together.

`SoundProofs`, the DMA (assumes DmaAssumption: blocks end a step below the top of
memory; beyond, the counter wraps before it is seen to pass the end).
DmaInside: a block that was promised is never left.  DmaImplements: every step is
one of `BlockPlayer`.  The point is Restart, which takes the distance from the new
base to the old end for a length: RestartPlace shows that the counter is
nevertheless no farther into the new block than it went past the old one.

Paula (assumes PaulaAssumption, which is the same of its blocks).  PaulaInv: types;
every end is a step below the top of memory (EndsBelow); a voice that has a block
has not passed its end (InBlocks), which is VoicesGoOn since the next buffer
refuses to play only beyond it; a voice known to play is in a block that holds a
whole step while a buffer is mixed (KnownPlay).  It rests on Round, which counts
what went beyond the old end round and round the new block and so ends inside it.
PaulaImplements: each step is one of `BlockPlayer` for every voice.

The YM-2149 (YmAssumption: the types of its constants).  YmInv: writes are in the
order of time, none is later than code has come to or, in the engine, earlier
than the generators (Timed); the last write of a register in the list, or the
generators if there is none, have what code reads back (Kept), unless it was
dropped, and then the list did overflow (LostKnown); the samples made are those
of the time that went by (SamplesOfTime).  From it NoTimeLost and WritesReplayed,
with those assertions of the engines that are about the list (`ym_blep.c:332`,
`ym_puls.c:276`, `ymemul.c:306`); that of `ym_blep.c:313`, on the samples of a piece,
is not modelled (see below).

`Alu68Proofs`, for any width of the long and any sizes in it: AddExact, SubExact
and NegExact show that the sign trick gives the carry and the overflow of the
numbers, CompareOrders that the conditions after CMP are their orders, signed and
unsigned, AlignedHasRoom that X added as a unit of the size never carries out of
the bits below it.  DivuExact and DivsExact say when a division overflows and
what it leaves otherwise, which is one pair of numbers (Euclid).  ShiftsAreBits:
each shift, which the code does at once with cases for counts of 0, of the size
and beyond the word, is so many shifts by one bit, each with its flags.  The
recursion over bits is met by induction over 0..n as sets of numbers (UpTo):
the library's induction theorem cannot be instantiated here, but that a set of
naturals that holds 0 and follows itself holds every number is provable.

`CpuProofs`, the instructions, for any registers, sizes and memory that CpuAssumption and
InstAssumption allow: sizes double, as b, w and l do; memory is a power of two
of bytes, which divides the range of an address, and has room for all registers.
The inductive invariant Sound68 says that the processor has its widths and that
the trace of the ALU is one an operation leaves (AluOK); there is a lemma for
each kind of instruction and one for each line of the decoder.  From it
CpuTypes, with the types of the run under it, ArithmeticIsExact and
ShiftsAreByBits (from the theorems of `Alu68Proofs` whatever the operands are)
and OperandsContained, an action property.  RegistersRestored is about every
processor state: a long written is read back (ReadBack), one written elsewhere
changes nothing (ReadApart), and a place in the stack is one in memory whether
or not A7 has wrapped (Address).  For MOVEM, what was stored stays in memory
while the rest is (StaysStored, which needs the room for all registers), and
loading goes through the same places backwards (LoadsStored).

`Mksc68Proofs`, the editor (assumes DiskAssumption, the types of its constants: what
chunks can say, with a rate of at most one frame a millisecond, beyond which
`valid()` may divide by a loop of 0 ms; and LiteralAssumption, that the names of
tags and flags are strings, which the provers do not know of literals).
StringsAreOwned: for any files, keys, values and sequence of edits, every string the
editor allocated is held by exactly one tag or replay name of its disk.  The
inductive invariant EditorInv says that the disk has its types and is Sound: a block
is at one place (Owned); a string with a block is one that is there; and tags are
tidy (Tidy): no custom key twice or one of the fixed three, no block behind a free
slot or a fixed key, which makes the slot that is written the one that is freed.  An edit
writes some places, gives back what they held and puts fresh blocks there, or
blocks that are not used and so not kept; such an edit leaves the ownership as it was
(Rewrites, RewriteSound).  SetTag, replay, purge and deletion are shown to be edits
of that kind, `valid()` to give tags that are all in the data of the file
(CleanTags), and counting tags to leave the blocks alone where it moves none; where
it moves some, two tags hold one block and the ghost `mixed` says so from then on,
since freeing twice spoils the heap (`disk_tags`).  DiskTypes comes with it: rates and
times that `valid()` and `dsk_validate()` may divide by.

SavedReloads: a disk saved and loaded again is the disk saved, but for what the
format cannot say, as long as no deleted tag was counted over.  EditorTold says
what the editor keeps of any disk: each track can be said in a file (Sayable: no
frames without a time, no loop of its own without the flag, no player without its
address), and what is stored was written from a disk `dsk_validate()` had just
completed, with tidy tags (DskReady).  The rest is one pass of `save_sc68()` and
`valid()` over it.  Tags: those saved have a value and a key each of their own, so
set in their order they fill the slots from the first and are found again
(RoundTags); naming, decoding and signing touch no others (LikeBut).  Tracks: what
is read is what was saved (ReadSaved), and timing it says so (TimedSays, TrackSaid).
From track to track: a title, artist or music data is left out where it is as in the
track before, and what `valid()` hands to the next is the last one saved (Heard,
HeardNext), which goes through the disk by induction on its tracks (SavedBack).
Aliases come back where the artist was written.

The background player, for any number of threads and disks and commands typed at
any step of a thread.  MksTypes holds always.  The rest of the inductive
invariant (MksInv) holds until `early`: where the one live thread may be for each
value of `isplaying`, which outlives only a cancelled one (Marks); that the instance
in `playinfo` is that thread's, alive until `play_end()` destroys it (Owns); what
the thread finds in its mailbox, an order to play and then a music unless it was
told to stop meanwhile (Mailbox); and that the interpreter stops the thread of
`playinfo`, which it then waits for cancelled, told, or past `play_run()` (Stops,
ToldToStop).  From it OneAtATime (PlaysOneAtATime), InstancesSound (InstancesGo) and
StopsKept (StopsStay).  They say no more than the code gives: a stop posted in
`play_init()` may be lost (`mksplay_lost_stop`) or leave the thread without a music;
a cancelled thread leaves its mark and its instance behind and may be joined twice; `dsk_stop()` may still hold an instance that
`play_end()` has destroyed, though only once the thread is past that; and
disks may be freed as they play (`mksplay_disk`).

`StreamProofs`, reading (assumes ValidStreams: buffers are not empty, files are at
least as long as the heads of their format).  StreamsImplement: whatever the
sizes, the files and what the other end does, the base streams and the gzip
stream each implement `ByteStream`.  The invariant says that what a read of the
base has is the bytes from its place on (Reading), and that behind the gzip
stream the bytes given, got, inflated for later and being inflated follow each
other without gap and end where the compressed data eaten end (InOrder); it holds
until a read fails, after which the loader reads no more (Flow).  Nothing about
the contents of the ring is needed but that a block is used only when it is
labelled with the place of the reader (Here), which is the line that makes an
overrun harmless.

LoadsFileOrNothing takes two more invariants.  LoadInv: at each stage the loader
holds the bytes of the file up to its place and asks for what the format has
next, so that a disk it ends with is the disk of the file.  MemInv: from memory
that has all of the file no read fails or falls short, because what gzip has yet
to inflate follows in order behind its header (Fed) and a read never asks for
more than there is (Fits); so the disk is there at the end.  Between two loads
nothing is left of the last (NothingLeft).  VfsTypes: a block of the ring holds no
more than a block, the gzip stream asks for no more than buffer_in holds, and
inflate() makes no more than is free in buffer_out, as a byte eaten stands for RATIO
(EatenFits).

`StreamProofs`, saving (assumes ValidSaves: pieces follow each other, buffers hold
something).  SinkInv: what is in the sink, in stdio's buffer and in gzip's output
buffer are consecutive bytes, as many as were produced (InSequence), or the sink is
full (Full), and then nothing reaches it any more, however often the code goes on
writing; where there is room for everything, it is InSequence and no write has failed.
SavesInOrder follows, and with LoadsFileOrNothing WholeFiles (FilesAreWhole).
SaveTypes: what is taken of a piece is no more than the piece (TakenFits), which bounds
buffer_in.

`FrontProofs` (assumes ValidDisks and the assumptions of the modules).  FrontCompose:
a behaviour of `FrontMC` is one of each of its five parts, as a step of one leaves
what the others keep alone; fairness is in no safety argument.  So FrontTypes and
FrontSafe: the types, and every safety property of the run.

Model-checked only: liveness (`RequestAnswered`, `DiskEnds`, `FinishEnds`, `PassEnds`,
`CallsReturn`), which is out of the prover's reach.

## What the models showed

Eight disagreements with what the repository says of itself have a violation
run: see "findings" in `PROJECT.json`.  Others were met while modelling and have
none.

Player and chips:

* `sc68_open()` of the disk that is open finds a disk loaded, goes to the error path
  and frees the disk it was given: `sc68->disk` is left pointing to it
  (`api68.c:2037-2055`).  The step is in `player_seq`, and OneOwner says it is the only one
  of its kind;
* a stop or play event posted while a track reaches its end is overwritten by
  the request for the next track (`api68.c:1934`).  RequestKeptToTrackEnd states
  what does hold;
* SC68_LOOP is reported one pass early, and may be reported by a call that finds
  no track playing; where a loop has a single pass, the call that finds the track
  over reports one loop more than there are;
* the instruction budget is gone (0 means no limit) after a STOP that takes the
  last count or a handler that was broken off;
* a timer stopped in the instant it was started keeps one count, not its data
  register: `timer_get_tdr()` takes the remaining time modulo the reset value
  after rounding down, so at the boundary the count is one off
  (`mfpemul.c:139-140`); `reconf_timer()` adds a count at each change;
* `emu68_ioplug_unplug()` clears one line of a chip only, which is enough for the
  chips there are;
* a long write to the LMC data register stores the control word two bytes further
  (`mw_io.c:166`); the LMC commands take left for right and high for low against
  their comments; the assertion of `paulaemul.c:410` fails for a block that wraps
  at the top of memory;
* `ym_blep.c:313` asserts fewer than 2048 samples for a piece of a pass, while the
  rates that `ymemul.c:486` accepts give about 2500 for a pass of 50 Hz without a
  write.

68000: SBCD computes source minus destination, and its test for a borrow is wrong
for differences of 80 and more (`inl68_bcd.h:42`, `line8.c:313`); ABCD compares
with 90 instead of 99; NBCD works on an operand that was shifted
(`line4.c:429-446`); MOVEM to `-(An)` with An in the list stores An plus the size;
byte operations on `-(A7)` of ADDX, SUBX, ABCD, SBCD and `(A7)+` of CMPM move A7
by one; ADDX, SUBX and NEGX set Z instead of leaving it; MOVEM.W from memory
extends with zeros (`line4.c:121-129`); LSL by any count clears X, since only C survives
the mask of an unsigned value (`inl68_shifting.h:39`), where `lsl_ref()` of
`insttest68.c` has the last bit out in it (ShiftsByBits says what the code does); TAS on an address register works on the
data register (`line4.c:537-543`).

Disk files:

* `valid()` gives a disk XTD when any track has it, against its comment
  (`file68.c:803`), so "unknown timers" of an SNDH track become "no timers" once
  saved; `file68_load_uri()` reads `info.type` without a value for a URI that is
  not `sc68://music/` (`file68.c:841-862`);
* lost by saving: an endless track (loops 0 and flag), loops without a length of
  loop, the genre of a track, a first pass of 0x1000000 frames or more, the alias
  of a track whose artist is that of the one before, a custom tag with an empty key;
  SavedIsLoaded excepts them;
* a loop length that rounds to 0 ms is divided by in `valid()`;
* `is_valid_key()` refuses `-` and `_`, which its comment allows
  (`file68.c:264-276`); `dsk.modified` is never set, so that load and new never
  ask (`mksc68_dsk.c:53,111,237`); setting a replay on a track without one
  compares with a null string (`mksc68_dsk.c:420`); the loop of `tag -d` goes on
  when a tag was not set and stops at the first one of the disk.

Streams:

* an overrun ring, a time-out, and a perform that asks to be called again all look
  to the reader like the end of the file; the length of a redirection is taken for
  that of the file, and an SNDH is then loaded cut short; the test
  `c >= '0' || c <= '9'` of `match_header` is always true;
* the checksum and length of a gzip file are not compared, and one cut short ends
  without an error; its seek succeeds without moving, so that ICE and SNDH in gzip
  do not load; after a failed read `avail_in` is -1 as unsigned;
* `isf_close()` of gzip tries once to write what is left; `file68_save_uri()`
  drops the error of `fclose()`; `file68_save_mem()` never opens its stream, so
  that it always fails (`file68.c:1938-1949`); `ifdopen` creates files without a
  mode.

mksc68, all in `front` and named by OneAtATime and InstancesSound as the exceptions
there are: `dsk_stop()` may post its event in an instance that `play_end()` has just
destroyed; a thread cancelled as it opens the audio stream never runs `play_end()`, so
that `isplaying` stays set, and another stop cancels and joins it again; a stop
served by the first `sc68_process()` of `play_init()` gives SC68_END, which is not
taken for a failure, and `play_run()` plays on without a music
(`mksc68_cmd_play.c:209`).

## Not modelled

The 68000: decimal instructions (digits do not scale to small widths; see the
list above), cycle counts, opcode words, trace, the debug mode with its
breakpoints, the user handler.  Chips: volumes, envelopes, filters and all
synthesis (numeric), so too the assertion of `ym_blep.c:313`; the event count and
pulse width modes of the MFP with their assertion (`mfpemul.c:354-361`); the shifter
(three bytes); `skip_ste()`, which never runs,
and the registers of the MFP that are plain memory.  Disks: bytes, sizes, hashes
and reads that fail (the last are in `Vfs68`); the time database is a function.
Streams: reads by line, the zlib format without gzip, optional fields of the gzip
header, seeks to other places than the start, and headers of HTTP; the audio
output stream, which only hands PCM to libao.  mksc68: play under the debugger,
the gdb server, listing and extracting, time measurement (a heuristic over
accesses).  The ICE packer and depacker, URIs, options, resources and messages,
as68, desa68, sourcer68 and the tools are functions over text or bytes without
state of their own that several calls share.  Dialogs and host plugins: the
order of their calls is decided by hosts that are not in this repository; the
hazards found in the winamp plugin are listed.  Vendored and generated code.

## What is left

1. A composition of `Emu68Run`, `Mfp` and `IoPlug`: a pass of code, interrupts and
   rebasing with the chips that are plugged.
2. Breakpoints (flags against table) and the play thread of the winamp plugin.
