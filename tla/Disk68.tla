------------------------------- MODULE Disk68 -------------------------------
(***************************************************************************)
(* Disks of file68 (file68/src/file68.c) and the disk editor of mksc68     *)
(* (mksc68/src/mksc68_dsk.c, mksc68_tag.c): a file is read and completed   *)
(* (valid()), its tags and tracks are edited, and it is saved again.       *)
(*                                                                         *)
(* A file is what its chunks say: a head and a sequence of tracks, each    *)
(* with its optional chunks; bytes, sizes and padding are left out, and so *)
(* is the compression.  An SNDH file has the same shape, its tags being    *)
(* the chunks that mean the same.  A string is a value with the block of   *)
(* the heap it lies in, 0 when it lies in the data of the disk or in the   *)
(* static table; music data is the name of its contents.                   *)
(***************************************************************************)
EXTENDS Integers, Sequences, FiniteSets

CONSTANTS
  CUSTOM,      \* custom tags a disk or a track has room for
  FR_MAX,      \* frames of a track a file may give
  MIN_MS,      \* a track whose loops are not given loops for that long,
  MAX_LP,      \* but no more often than that
  Split,       \* strings "x (y)": the pair of x and y
  Unknown,     \* those whose x begins with "unknown"
  Year,        \* strings that are years
  TimeDb,      \* tracks of the SNDH file the database knows: frames, flags
  Files,       \* files to load
  Keys, Vals,  \* tags the user types
  Lengths,     \* and durations, in ms
  HwSets,      \* and hardware flags
  MaxEdit      \* edits between two loads

(* What the chunks of a file can say.  The rate is at most one frame a     *)
(* millisecond: beyond, a loop could last 0 ms, and valid() divides by it. *)
Nil == "null"
Absent == -1                     \* a chunk that is not there
HeadSet == [title : STRING, artist : STRING, cname : STRING, def : Int,
            tags : Seq((STRING \ {Nil}) \X STRING)]
ChunkSet == [title : STRING, artist : STRING, cname : STRING,
             tags : Seq((STRING \ {Nil}) \X STRING), replay : STRING, d0 : Int, a0 : Nat,
             frq : 0..1000, sec : Int, fr : Nat, loop : Int, loopfr : Nat \cup {Absent},
             sfx : BOOLEAN, typ : SUBSET STRING, data : STRING]
FileSet == {f \in [fmt : {"sc68", "sndh"}, head : HeadSet, mus : Seq(ChunkSet)] :
              f.fmt = "sndh" => \A i \in 1..Len(f.mus) : f.mus[i].sec >= 0}

ASSUME LiteralAssumption ==   \* what the provers do not know of strings
  {Nil, "", "title", "album", "artist", "author", "genre", "format", "composer", "aka", "year",
   "n/a", "Amiga chiptune", "Atari-ST chiptune", "sc68", "sndh", "XTD", "PSG", "DMA", "LMC"} \subseteq STRING

ASSUME DiskAssumption ==
  /\ CUSTOM \in Nat /\ FR_MAX \in Nat /\ MIN_MS \in Nat /\ MAX_LP \in Nat \ {0}
  /\ \A s \in DOMAIN Split : Split[s] \in STRING \X STRING
  /\ \A i \in DOMAIN TimeDb : TimeDb[i] \in [fr : Nat, hw : SUBSET STRING]
  /\ Files \subseteq FileSet
  /\ Keys \subseteq STRING \ {Nil} /\ Vals \subseteq STRING /\ Lengths \subseteq Nat
  /\ HwSets \subseteq SUBSET STRING /\ MaxEdit \in Nat

VARIABLES
  edited,      \* dsk.disk
  stored,      \* the file last saved
  kept,        \* ghost: the disk it was saved from
  strings,     \* ghost: blocks allocated for strings
  mixed,       \* ghost: tags were counted although one in the middle was deleted;
               \*        two tags then free the same strings and the heap is spoiled
  edits        \* bounds the edits

editorVars == <<edited, stored, kept, strings, mixed, edits>>

LOADADDR == 65536
DAY == 86400
EmptyDsk == [nb |-> 0]
Text == [s : STRING, id : Nat]
Blank == [s |-> Nil, id |-> 0]
Str(s) == [s |-> s, id |-> 0]
Least(S) == CHOOSE i \in S : \A j \in S : i <= j

-----------------------------------------------------------------------------
(* Tags: an array of title, artist, genre (format for a disk) and custom   *)
(* tags.                                                                   *)
TITLE == 1
ARTIST == 2
GENRE == 3
Tag == 1..(GENRE + CUSTOM)
Custom == (GENRE + 1)..(GENRE + CUSTOM)

Named == [title |-> TITLE, album |-> TITLE, artist |-> ARTIST, author |-> ARTIST,
          genre |-> GENRE, format |-> GENRE]

NewTags(genre) ==
  [i \in Tag |-> [key |-> CASE i = TITLE -> Str("title") [] i = ARTIST -> Str("artist")
                            [] i = GENRE -> Str(genre) [] OTHER -> Blank,
                  val |-> Blank]]

(* get_customtag(): the slot of a key, or with Null the first free one.    *)
FindTag(t, key) ==
  IF key \in DOMAIN Named THEN Named[key]
  ELSE LET at == {i \in Custom : t[i].key.s = key}
       IN  IF at = {} THEN 0 ELSE Least(at)

SlotFor(t, key) == IF FindTag(t, key) # 0 THEN FindTag(t, key) ELSE FindTag(t, Nil)

(* set_customtag(): without a value the tag is removed.                    *)
SetTag(t, key, val) ==
  LET i == IF val.s = Nil THEN FindTag(t, key.s) ELSE SlotFor(t, key.s)
  IN  IF i = 0 THEN t
      ELSE [t EXCEPT ![i].val = val,
                     ![i].key = IF val.s # Nil /\ @.s = Nil THEN key
                                ELSE IF val.s = Nil /\ i \in Custom THEN Blank ELSE @]

(* The blocks it gives back.                                               *)
FreedBug(t, key, val) ==
  LET i == IF val.s = Nil THEN FindTag(t, key) ELSE SlotFor(t, key)
  IN  IF i = 0 THEN {} ELSE {t[i].val.id}
Freed(t, key, val) ==
  LET i == IF val.s = Nil THEN FindTag(t, key) ELSE SlotFor(t, key)
  IN  IF i = 0 THEN {}
      ELSE {t[i].val.id} \cup (IF val.s = Nil /\ i \in Custom THEN {t[i].key.id} ELSE {})

TagOf(t, key) == IF FindTag(t, key) = 0 THEN Nil ELSE t[FindTag(t, key)].val.s

(* The tags in a sequence of <<key, value>>, strings of the file.          *)
WithTags(t, kvs) ==
  LET upto[n \in 0..Len(kvs)] ==
        IF n = 0 THEN t ELSE SetTag(upto[n - 1], Str(kvs[n][1]), Str(kvs[n][2]))
  IN  upto[Len(kvs)]

(* file68_tag_count(): moves the tags down over the free slots, but leaves *)
(* them where they were too.                                               *)
FullTags(t) == {i \in Custom : t[i].key.s # Nil /\ t[i].val.s # Nil}
CountTags(t) ==
  LET nth(n) == CHOOSE i \in FullTags(t) : Cardinality({j \in FullTags(t) : j <= i}) = n
  IN  [i \in Tag |-> IF i \in Custom /\ i - GENRE <= Cardinality(FullTags(t))
                     THEN t[nth(i - GENRE)] ELSE t[i]]

-----------------------------------------------------------------------------
(* Frames and milliseconds.                                                *)
FrToMs(fr, hz) == (fr * 1000) \div hz
MsInFr(ms, hz) == (ms * hz) \div 1000

(* A track as read from its chunks (file68_load(), sndh_info()).           *)
HiFlags == {"XTD", "LMC", "TA", "TB", "TC", "TD", "HBL", "BLT", "DSP"}
Flags(typ) == IF typ \cap HiFlags # {} THEN typ \cup {"XTD"} ELSE typ

Texts(t, c) ==     \* title, artist, and a composer who is not the artist
  LET named == [t EXCEPT ![TITLE].val = Str(c.title), ![ARTIST].val = Str(c.artist)]
  IN  WithTags(IF c.cname \in {Nil, c.artist} THEN named
               ELSE SetTag(named, Str("composer"), Str(c.cname)), c.tags)

ReadTrack(f, i) ==
  LET c == f.mus[i]
      sndh == f.fmt = "sndh"
  IN  [d0 |-> IF sndh THEN i ELSE c.d0, a0 |-> c.a0, pic |-> FALSE, frq |-> c.frq,
       time |-> FALSE, loop |-> ~sndh /\ c.loopfr # Absent, sfx |-> c.sfx,
       first_ms |-> IF sndh \/ c.sec \in 0..DAY THEN 1000 * c.sec ELSE 0, first_fr |-> IF c.fr >= FR_MAX THEN 0 ELSE c.fr,
       loops_ms |-> 0, loops_fr |-> IF c.loopfr = Absent THEN 0 ELSE c.loopfr,
       loops |-> IF sndh \/ c.loop < -1 THEN 0 ELSE c.loop,
       hw |-> IF ~sndh THEN Flags(c.typ)
              ELSE c.typ \cup (IF "XTD" \in c.typ THEN {} ELSE {"PSG", "DMA", "LMC"}),
       replay |-> Str(c.replay), tags |-> Texts(NewTags("genre"), c), data |-> c.data]

ReadFile(f) ==
  [nb |-> Len(f.mus), def |-> f.head.def, ms |-> 0, hw |-> {},
   tags |-> [Texts(NewTags("format"), f.head) EXCEPT ![GENRE].val = Str(f.fmt)],
   mus |-> [i \in 1..Len(f.mus) |-> ReadTrack(f, i)]]

-----------------------------------------------------------------------------
(* valid(): completes a disk, each track from those before it.             *)

(* decode_artist(): of a sc68 file, an artist "x (y)" is x, known as y ... *)
AkaSplits(t) ==
  /\ FindTag(t, "aka") = 0
  /\ t[ARTIST].val.s \in DOMAIN Split \ Unknown
DecodeAka(t) ==
  IF ~AkaSplits(t) THEN t
  ELSE LET xy == Split[t[ARTIST].val.s]
       IN  SetTag([t EXCEPT ![ARTIST].val = Str(xy[1])], Str("aka"), Str(xy[2]))

(* ... and of a SNDH file, the title or the artist "x (y)" gives the year  *)
(* of the disk.  `of' are the tags looked at.                              *)
YearAt(of) == {i \in {TITLE, ARTIST} : of[i].val.s \in DOMAIN Split
                                       /\ Split[of[i].val.s][2] \in Year}
Yearless(of) ==
  LET i == Least(YearAt(of)) IN [of EXCEPT ![i].val = Str(Split[of[i].val.s][1])]
YearOf(of) == Str(Split[of[Least(YearAt(of))].val.s][2])
GivesYear(dtags, of) == FindTag(dtags, "year") = 0 /\ YearAt(of) # {}

DiskDecoded(fmt, t) ==
  IF fmt = "sc68" THEN DecodeAka(t)
  ELSE IF GivesYear(t, t) THEN SetTag(Yearless(t), Str("year"), YearOf(t)) ELSE t

(* Times, number of loops and flags of a track.                            *)
WithDefaults(m) ==
  [m EXCEPT !.pic = m.a0 = 0, !.a0 = IF @ = 0 THEN LOADADDR ELSE @,
            !.frq = IF @ = 0 THEN 50 ELSE @]

Timed(m) ==
  [m EXCEPT !.time = m.first_fr > 0 \/ m.first_ms > 0,
            !.first_ms = IF m.first_fr > 0 THEN FrToMs(m.first_fr, m.frq) ELSE @,
            !.first_fr = IF @ > 0 THEN @ ELSE MsInFr(m.first_ms, m.frq)]

FromDb(fmt, i, m) ==
  IF fmt = "sndh" /\ (~m.time \/ "XTD" \notin m.hw) /\ i \in DOMAIN TimeDb
  THEN [m EXCEPT !.time = TRUE, !.first_fr = TimeDb[i].fr,
                 !.first_ms = FrToMs(TimeDb[i].fr, m.frq), !.hw = {"XTD"} \cup TimeDb[i].hw]
  ELSE m

GuessedLoops(m) ==
  LET more == IF m.first_ms < MIN_MS
              THEN (MIN_MS - m.first_ms + m.loops_ms \div 2) \div m.loops_ms ELSE 0
  IN  IF 1 + more > MAX_LP THEN MAX_LP ELSE 1 + more

WithLoop(m) ==
  IF m.loop THEN [m EXCEPT !.loops_ms = FrToMs(m.loops_fr, m.frq)]
  ELSE [m EXCEPT !.loops_fr = m.first_fr, !.loops_ms = m.first_ms]

Looped(m) ==
  [m EXCEPT !.loops = CASE m.loops_fr = 0 -> 1
                        [] m.loops_fr # 0 /\ @ = 0 -> GuessedLoops(m)
                        [] m.loops_fr # 0 /\ @ > 0 -> @
                        [] m.loops_fr # 0 /\ @ < 0 -> 0,
            !.hw = IF @ = {} THEN {"PSG"} ELSE @]

PlayMs(m) == FrToMs(m.first_fr + m.loops_fr * (m.loops - 1), m.frq)

TotalMs(mus) ==
  LET total[n \in 0..Len(mus)] == IF n = 0 THEN 0 ELSE total[n - 1] + PlayMs(mus[n])
  IN  total[Len(mus)]

(* The next track: title, artist with his alias and music data are those   *)
(* of the track before unless the file gives others.  `a' is what is       *)
(* carried, and the disk tags for the year.                                *)
Titled(a, t) == IF t[TITLE].val.s # Nil THEN t ELSE [t EXCEPT ![TITLE].val = a.title]

Genred(hw, t) ==
  IF t[GENRE].val.s # Nil THEN t
  ELSE [t EXCEPT ![GENRE].val =
          Str(IF "AGA" \in hw THEN "Amiga chiptune" ELSE "Atari-ST chiptune")]

Alias(t) == Str(TagOf(t, "aka"))
WithAlias(t, alias) == IF alias.s = Nil THEN t ELSE SetTag(t, Str("aka"), alias)

Signed(fmt, a, t) ==
  CASE t[ARTIST].val.s = Nil -> WithAlias([t EXCEPT ![ARTIST].val = a.artist], a.alias)
    [] t[ARTIST].val.s # Nil /\ fmt = "sc68" -> DecodeAka(t)
    [] t[ARTIST].val.s # Nil /\ fmt # "sc68" ->
         IF GivesYear(a.dtags, t) THEN Yearless(t) ELSE t

(* What a track with tags t, now signed, hands over.                       *)
HandOver(fmt, a, m, t, signed) ==
  LET own == t[ARTIST].val.s # Nil
      data == IF m.data = Nil THEN a.data ELSE m.data
  IN  [title |-> signed[TITLE].val,
       artist |-> IF own THEN signed[ARTIST].val ELSE a.artist,
       alias |-> IF own THEN Alias(signed) ELSE a.alias,
       data |-> data,
       dtags |-> IF own /\ fmt = "sndh" /\ GivesYear(a.dtags, t)
                 THEN SetTag(a.dtags, Str("year"), YearOf(t)) ELSE a.dtags,
       mus |-> Append(a.mus, [m EXCEPT !.tags = signed, !.data = data])]

InheritWith(fmt, a, m, t) == HandOver(fmt, a, m, t, Signed(fmt, a, t))
InheritTimed(fmt, a, m) == InheritWith(fmt, a, m, Genred(m.hw, Titled(a, m.tags)))
Inherit(fmt, a, i, m) ==
  InheritTimed(fmt, a, Looped(WithLoop(FromDb(fmt, i, Timed(WithDefaults(m))))))

(* The first track takes after the disk, with tags t before and u after    *)
(* they are decoded.                                                       *)
FromDisk(t, u) ==
  [title |-> u[TITLE].val, artist |-> IF t[ARTIST].val.s = Nil THEN Str("n/a") ELSE u[ARTIST].val,
   alias |-> Alias(u), data |-> Nil, dtags |-> u, mus |-> <<>>]

InheritAll(fmt, mus, first) ==
  LET carried[n \in 0..Len(mus)] ==
        IF n = 0 THEN first ELSE Inherit(fmt, carried[n - 1], n, mus[n])
  IN  carried[Len(mus)]

(* The disk in turn: the artist of its default track, total time, flags.   *)
DiskSigned(t, by) ==
  IF t[ARTIST].val.s # Nil THEN t
  ELSE WithAlias([t EXCEPT ![ARTIST].val = by[ARTIST].val], Alias(by))

Completed(d, all, def) ==
  [d EXCEPT !.def = def, !.tags = DiskSigned(all.dtags, all.mus[def + 1].tags), !.mus = all.mus,
            !.ms = IF \A i \in 1..d.nb : all.mus[i].loops > 0 THEN TotalMs(all.mus) ELSE 0,
            !.hw = UNION {all.mus[i].hw : i \in 1..d.nb}]

ValidatedAs(fmt, d, t) ==
  Completed(d, InheritAll(fmt, d.mus, FromDisk(t, DiskDecoded(fmt, t))),
            IF d.def \in 0..(d.nb - 1) THEN d.def ELSE 0)

Validated(fmt, d) ==
  ValidatedAs(fmt, d, [d.tags EXCEPT ![TITLE].val = IF @.s = Nil THEN Str("n/a") ELSE @])

(* A disk has a track, and the first one has its music data.               *)
Loadable(f) == Len(f.mus) > 0 /\ f.mus[1].data # Nil
LoadedDisk(f) == Validated(f.fmt, ReadFile(f))

-----------------------------------------------------------------------------
(* save_sc68(): what is as in the track before is not written, and neither *)
(* are empty strings, values by default and what valid() works out.        *)
WrittenText(str) == IF str = "" THEN Nil ELSE str
NotNoName(str) == IF str = "n/a" THEN Nil ELSE WrittenText(str)

CustomSaved(t) ==
  LET full == {i \in Custom : t[i].key.s \notin {Nil, ""} /\ t[i].val.s \notin {Nil, ""}}
      nth(n) == CHOOSE i \in full : Cardinality({j \in full : j <= i}) = n
  IN  [n \in 1..Cardinality(full) |-> <<t[nth(n)].key.s, t[nth(n)].val.s>>]

(* The last string of a slot before track i, which the track is not to     *)
(* repeat.                                                                 *)
LastBeforeBug(d, slot, i) == d.tags[slot].val.s
LastBefore(d, slot, i) ==
  LET set == {j \in 1..(i - 1) : d.mus[j].tags[slot].val.s # Nil}
  IN  IF set = {} THEN d.tags[slot].val.s
      ELSE d.mus[CHOOSE j \in set : \A k \in set : k <= j].tags[slot].val.s

Differs(d, slot, i) ==
  LET str == d.mus[i].tags[slot].val.s
  IN  IF str = LastBefore(d, slot, i) THEN Nil ELSE WrittenText(str)

SavedTrack(d, i) ==
  LET m == d.mus[i]
      If(b, v) == IF b THEN v ELSE 0
  IN  [title |-> Differs(d, TITLE, i), artist |-> Differs(d, ARTIST, i), cname |-> Nil,
       tags |-> CustomSaved(m.tags), replay |-> WrittenText(m.replay.s), d0 |-> m.d0,
       a0 |-> If(~m.pic, m.a0), frq |-> If(m.frq # 50, m.frq), sec |-> 0,
       fr |-> If(m.time, m.first_fr), loop |-> If(m.loop, m.loops),
       loopfr |-> IF m.loop THEN m.loops_fr ELSE Absent, sfx |-> m.sfx, typ |-> m.hw,
       data |-> IF i > 1 /\ m.data = d.mus[i - 1].data THEN Nil ELSE m.data]

Saved(d) ==
  [fmt |-> "sc68",
   head |-> [title |-> NotNoName(d.tags[TITLE].val.s), artist |-> NotNoName(d.tags[ARTIST].val.s),
             cname |-> Nil, def |-> d.def, tags |-> CustomSaved(d.tags)],
   mus |-> [i \in 1..d.nb |-> SavedTrack(d, i)]]

NoFile == [fmt |-> Nil]

-----------------------------------------------------------------------------
(* The editor.                                                             *)
TagsAt(d, n) == IF n = 0 THEN d.tags ELSE d.mus[n].tags
PutTags(d, n, t) == IF n = 0 THEN [d EXCEPT !.tags = t] ELSE [d EXCEPT !.mus[n].tags = t]

(* Who holds a block of the heap.                                          *)
Places(d) == ((0..d.nb) \X Tag \X {"key", "val"}) \cup ((1..d.nb) \X {0} \X {"replay"})
IdAt(d, p) ==
  IF p[3] = "replay" THEN d.mus[p[1]].replay.id ELSE TagsAt(d, p[1])[p[2]][p[3]].id
Holders(d, id) == {p \in Places(d) : IdAt(d, p) = id}
Held(d) == IF d = EmptyDsk THEN {} ELSE {id \in strings : Holders(d, id) # {}}

Fresh(k) ==
  LET free == 1..(Cardinality(strings) + 2) \ strings
  IN  CHOOSE i \in free : Cardinality({j \in free : j <= i}) = k

(* dsk_validate().                                                         *)
DskTrack(m) ==
  [m EXCEPT !.loops = IF @ > 0 THEN @ ELSE 1, !.first_ms = FrToMs(m.first_fr, m.frq),
            !.loops_ms = FrToMs(m.loops_fr, m.frq)]
DskFlags(hws) == UNION hws \ (IF \A h \in hws : "XTD" \in h THEN {} ELSE HiFlags)
DskTotal(d) == [d EXCEPT !.ms = TotalMs(d.mus), !.hw = DskFlags({d.mus[i].hw : i \in 1..d.nb})]
DskValidated(d) == DskTotal([d EXCEPT !.mus = [i \in 1..d.nb |-> DskTrack(@[i])]])

DiskInit ==
  /\ edited = EmptyDsk /\ stored = NoFile /\ kept = EmptyDsk
  /\ strings = {} /\ mixed = FALSE /\ edits = 0

(* dsk_load(): nothing is ever marked as modified, so nothing is asked     *)
(* before the disk is freed.                                               *)
DskLoad(f) ==
  /\ Loadable(f)
  /\ edited' = LoadedDisk(f)
  /\ strings' = strings \ Held(edited)
  /\ UNCHANGED mixed
  /\ IF f = stored THEN UNCHANGED <<stored, kept, edits>>
     ELSE stored' = NoFile /\ kept' = EmptyDsk /\ edits' = 0

Edit(d, freed, blocks) ==
  /\ edited # EmptyDsk /\ edits < MaxEdit /\ edits' = edits + 1
  /\ edited' = DskValidated(d)
  /\ strings' = (strings \ freed) \cup {b \in blocks : Holders(d, b) # {}}
  /\ UNCHANGED <<stored, kept, mixed>>

(* `tag', of a disk or of a track: both strings are copied to the heap if  *)
(* they are needed; without a value the tag is deleted.                    *)
EditTag(n, key, val) ==
  LET t == TagsAt(edited, n)
      k == [s |-> key, id |-> Fresh(1)]
      v == IF val = Nil THEN Blank ELSE [s |-> val, id |-> Fresh(2)]
  IN  /\ edited # EmptyDsk /\ n \in 0..edited.nb
      /\ Edit(PutTags(edited, n, SetTag(t, k, v)), Freed(t, key, v), {k.id, v.id} \ {0})

(* `tag --purge': each key of each array is deleted.                       *)
Purged(t) ==
  LET upto[i \in 0..(GENRE + CUSTOM)] ==
        IF i = 0 \/ t[i].key.s = Nil THEN IF i = 0 THEN t ELSE upto[i - 1]
        ELSE SetTag(upto[i - 1], t[i].key, Blank)
  IN  upto[GENRE + CUSTOM]

Purge ==
  /\ edited # EmptyDsk
  /\ LET d == [edited EXCEPT !.tags = Purged(edited.tags),
                           !.mus = [i \in 1..edited.nb |->
                                      [edited.mus[i] EXCEPT !.tags = Purged(@)]]]
         cut(t) == UNION {Freed(t, t[i].key.s, Blank) : i \in Tag}
     IN  Edit(d, UNION {cut(TagsAt(edited, n)) : n \in 0..edited.nb}, {})

(* The tags a track keeps elsewhere.  Without a replay there is none to    *)
(* compare with, and strcmp() is given a null pointer.                     *)
EditReplay(n, val) ==
  /\ edited # EmptyDsk /\ n \in 1..edited.nb
  /\ LET old == edited.mus[n].replay
         new == IF val = Nil THEN Blank
                ELSE IF val = old.s THEN old ELSE [s |-> val, id |-> Fresh(1)]
     IN  /\ val # Nil => old.s # Nil
         /\ Edit([edited EXCEPT !.mus[n].replay = new],
                 IF new = old THEN {} ELSE {old.id}, {new.id} \ {0})

EditLength(n, ms) ==
  /\ edited # EmptyDsk /\ n \in 1..edited.nb
  /\ LET fr == MsInFr(ms, edited.mus[n].frq)
     IN  Edit([edited EXCEPT !.mus[n] =
                 [@ EXCEPT !.time = ms > 0, !.first_ms = ms, !.loops_ms = ms,
                           !.first_fr = fr, !.loops_fr = fr]], {}, {})

EditHardware(n, hw) ==
  /\ edited # EmptyDsk /\ n \in 1..edited.nb
  /\ Edit([edited EXCEPT !.mus[n].hw = hw], {}, {})

(* The player is asked about the disk it shares with the editor, which     *)
(* counts the tags (music_info() of api68.c).                              *)
Gap(t) == \E i, j \in Custom : i < j /\ i \notin FullTags(t) /\ j \in FullTags(t)
MusicInfo(n) ==
  /\ edited # EmptyDsk /\ n \in 1..edited.nb
  /\ edited' = PutTags(PutTags(edited, 0, CountTags(edited.tags)), n, CountTags(edited.mus[n].tags))
  /\ mixed' = (mixed \/ Gap(edited.tags) \/ Gap(edited.mus[n].tags))
  /\ UNCHANGED <<stored, kept, strings, edits>>

(* dsk_save().                                                             *)
DskSave ==
  /\ edited # EmptyDsk
  /\ edited' = DskValidated(edited)
  /\ stored' = Saved(edited') /\ kept' = edited'
  /\ UNCHANGED <<strings, mixed, edits>>

(* dsk_kill(), when mksc68 ends.                                           *)
DskKill ==
  /\ edited # EmptyDsk
  /\ edited' = EmptyDsk /\ strings' = strings \ Held(edited)
  /\ stored' = NoFile /\ kept' = EmptyDsk /\ edits' = 0 /\ UNCHANGED mixed

DiskNext ==
  \/ \E f \in IF edited = EmptyDsk THEN Files ELSE {stored} \ {NoFile} : DskLoad(f)
  \/ \E n \in 0..2, key \in Keys, val \in Vals \cup {Nil} : EditTag(n, key, val)
  \/ \E n \in 1..2 : \/ \E val \in Vals \cup {Nil} : EditReplay(n, val)
                      \/ \E ms \in Lengths \cup {0} : EditLength(n, ms)
                      \/ \E hw \in HwSets \cup {{}} : EditHardware(n, hw)
                      \/ MusicInfo(n)
  \/ Purge \/ DskSave \/ DskKill

DiskSpec == DiskInit /\ [][DiskNext]_editorVars

-----------------------------------------------------------------------------
TagsType == [Tag -> [key : Text, val : Text]]

DiskTypeOK ==
  /\ edits \in 0..MaxEdit /\ mixed \in BOOLEAN
  /\ strings \subseteq Nat \ {0}
  /\ edited # EmptyDsk =>
       /\ edited.nb > 0 /\ edited.def \in 0..(edited.nb - 1) /\ edited.ms \in Nat
       /\ \A n \in 0..edited.nb : TagsAt(edited, n) \in TagsType
       /\ \A n \in 1..edited.nb : LET m == edited.mus[n] IN
            /\ m.frq > 0 /\ m.loops >= 0 /\ m.data # Nil
            /\ {m.first_ms, m.first_fr, m.loops_ms, m.loops_fr} \subseteq Nat

(* Every block of a string is held by one tag or replay, which frees it,   *)
(* and is held as long as it is allocated.  Once tags were counted with a  *)
(* deleted one among them this is no longer so.                            *)
StringsOwned ==
  mixed \/ \A id \in strings : edited # EmptyDsk /\ Cardinality(Holders(edited, id)) = 1

(* A disk saved and loaded again is the disk saved, but for what the       *)
(* format cannot say: strings that are empty or deleted, the name "n/a" of *)
(* an artist, an artist "x (y)", the alias of an artist who is also that   *)
(* of the track before, a genre, loops without a length, frames beyond the *)
(* limit, and no hardware at all.                                          *)
Lasting(str) == str \notin {Nil, ""}
Alone(t) == \A i, j \in FullTags(t) : t[i].key.s = t[j].key.s => i = j

SameTexts(t, u) ==
  /\ Lasting(t[TITLE].val.s) => u[TITLE].val.s = t[TITLE].val.s
  /\ Lasting(t[ARTIST].val.s) /\ t[ARTIST].val.s \notin (DOMAIN Split \ Unknown) \cup {"n/a"} =>
       u[ARTIST].val.s = t[ARTIST].val.s
  /\ Alone(t) => \A i \in FullTags(t) :
       t[i].key.s # "aka" /\ Lasting(t[i].key.s) /\ Lasting(t[i].val.s) =>
         TagOf(u, t[i].key.s) = t[i].val.s

SameAlias(t, u) ==
  Alone(t) /\ ~AkaSplits(t) /\ TagOf(t, "aka") # "" => TagOf(u, "aka") = TagOf(t, "aka")

SameTrack(m, n) ==
  /\ SameTexts(m.tags, n.tags)
  /\ n.d0 = m.d0 /\ n.a0 = m.a0 /\ n.pic = m.pic /\ n.frq = m.frq /\ n.sfx = m.sfx
  /\ n.data = m.data /\ (Lasting(m.replay.s) => n.replay.s = m.replay.s)
  /\ m.first_fr < FR_MAX => /\ n.first_fr = m.first_fr /\ n.first_ms = m.first_ms
                            /\ n.loops_fr = m.loops_fr /\ n.loop = m.loop
  /\ m.loop /\ m.loops_fr > 0 => n.loops = m.loops
  /\ m.hw # {} => n.hw = Flags(m.hw)

SameDisk(file, c, d) ==
  /\ d.nb = c.nb /\ d.def = c.def
  /\ SameTexts(c.tags, d.tags)
  /\ file.head.artist # Nil => SameAlias(c.tags, d.tags)
  /\ \A i \in 1..c.nb :
       /\ SameTrack(c.mus[i], d.mus[i])
       /\ file.mus[i].artist # Nil => SameAlias(c.mus[i].tags, d.mus[i].tags)

SavedIsLoaded ==
  stored # NoFile /\ ~mixed => Loadable(stored) /\ SameDisk(stored, kept, LoadedDisk(stored))

(* "Count and re-order metatags" (file68.h:165): counting moves tags, it   *)
(* does not make or lose any.                                              *)
Reorders ==
  [][\A n \in 1..2 : MusicInfo(n) =>
       Cardinality(FullTags(edited'.tags)) = Cardinality(FullTags(edited.tags))]_editorVars
=============================================================================
