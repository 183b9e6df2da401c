------------------------------- MODULE Vfs68 -------------------------------
(***************************************************************************)
(* Streams of file68 (file68/src/vfs68*.c) and how file68_load() and       *)
(* file68_ice_load() get a disk through them: from memory, a descriptor, a *)
(* file or the network, as it is, depacked or through a gzip stream.       *)
(*                                                                         *)
(* A byte is its place in what is read, from 1.  Compressed data are their *)
(* places too, and stand for RATIO bytes each; of a format there remain    *)
(* the sizes of its heads.  A read of a base stream is one step but for    *)
(* curl, which has its own loop; a gzip stream works in the steps between  *)
(* two reads of its base.                                                  *)
(***************************************************************************)
EXTENDS Integers, Sequences

CONSTANTS
  BLK, BLKS,    \* curl: size and number of the blocks of its ring
  TRIES,        \* performs without a byte after which a read gives up
  IBUF, OBUF,   \* gzip: buffer_in and buffer_out
  RATIO,        \* bytes a byte of compressed data stands for
  GZH, GZT,     \* sizes of its header and of its trailer
  ID, HDR,      \* bytes read_header() looks at: for sc68, for the others
  CHUNK,        \* half the head of a chunk
  ICEH,         \* head of an ICE file
  Sources       \* what there is to load: records
                \*   base   "mem", "fd", "file" or "curl"
                \*   fmt    "sc68", "sndh", "ice", "gz" or "none"
                \*   size   of the file, and `has' what is there of it
                \*   inner  format of what is compressed
                \*   seeks  whether the base can seek and knows its length
                \*   said   the length the server announced, -1 if none

VARIABLES
  src,          \* the source in use
  pos,          \* where its base stream stands
  curl_pos, length, cache, bad,     \* curl: place of the transfer, length
                \* known, blocks of the ring, perform failed
  call,         \* the read of the base in progress
  given, fail,  \* what the last one gave
  z,            \* the gzip stream
  vfsPc, stage,    \* the step due, and how far the loader is
  lvl,          \* 1 when it reads through the gzip stream
  want, read, short,   \* its last read: bytes asked, got, -1 got
  buf,          \* id, then mb->data or the packed buffer
  mb            \* the disk: its bytes, None, or NoneYet

baseVars == <<src, pos, curl_pos, length, cache, bad>>
loadVars == <<stage, lvl, want, read, short, buf, mb>>
vfsVars == <<baseVars, call, given, fail, z, vfsPc, loadVars>>

None == <<0>>
Bytes(p, n) == [i \in 1..n |-> p + i]
Lesser(a, b) == IF a < b THEN a ELSE b
NoSource == [base |-> "none"]
NoCall == [who |-> "none", want |-> 0, got |-> <<>>, left |-> 0]
NoZ == [in |-> <<>>, fed |-> 0, acc |-> <<>>, out |-> <<>>, got |-> <<>>, tail |-> 0, sent |-> 0]
NoCache == [b \in 0..(BLKS - 1) |-> [top |-> -1, bytes |-> 0]]

(* Blocks, buffers and heads hold something, files are what their format   *)
(* says at least: heads, and compressed data; and memory can seek.         *)
Holds(f, n) == /\ f = "sc68" => n >= ID + 2 * CHUNK
               /\ f = "ice" => n >= ICEH /\ n >= HDR
               /\ f = "sndh" => n > HDR
ValidStreams ==
  /\ BLK \in Nat \ {0} /\ BLKS \in Nat \ {0} /\ RATIO \in Nat \ {0} /\ TRIES \in Nat
  /\ IBUF \in Nat \ {0} /\ OBUF \in Nat \ {0} /\ GZH \in Nat \ {0} /\ GZT \in Nat
  /\ ID \in Nat /\ CHUNK \in Nat /\ HDR \in Nat \ {0} /\ ICEH \in Nat \ {0} /\ ID <= HDR
  /\ \A s \in Sources :
       /\ s.base \in {"mem", "fd", "file", "curl"}
       /\ s.size \in Nat /\ s.has \in Nat /\ s.said \in Nat \cup {-1}
       /\ s.base = "mem" => s.seeks
       /\ Holds(s.fmt, s.size)
       /\ s.fmt = "gz" => /\ s.size >= GZH + GZT /\ s.size >= HDR
                          /\ Holds(s.inner, RATIO * (s.size - GZH - GZT))

VfsInit ==
  /\ src = NoSource /\ pos = 0
  /\ curl_pos = 0 /\ length = -1 /\ cache = NoCache /\ bad = FALSE
  /\ call = NoCall /\ given = <<>> /\ fail = FALSE /\ z = NoZ
  /\ vfsPc = "idle" /\ stage = "none" /\ lvl = 0
  /\ want = 0 /\ read = <<>> /\ short = FALSE /\ buf = <<>> /\ mb = <<>>

-----------------------------------------------------------------------------
(* Reads of the base: who asks, and how it gets the answer.                *)
Call(who, n) ==
  vfsPc' = "base" /\ call' = [who |-> who, want |-> n, got |-> <<>>, left |-> TRIES]

(* What the read of the loader gives it.                                   *)
Deliver(bytes, failed) == read' = bytes /\ short' = failed

Answer(bytes, failed) ==
  LET b == IF failed THEN <<>> ELSE bytes
  IN  /\ given' = b /\ fail' = failed
      /\ vfsPc' = call.who /\ call' = NoCall
      /\ IF call.who = "is" THEN Deliver(b, failed) ELSE UNCHANGED <<read, short>>

Rest(p) == IF p < src.has THEN src.has - p ELSE 0

(* ism_read(), fread() and read(): the bytes one gives, -1 for an error.   *)
MemCounts(n) == {Lesser(n, Rest(pos))}
FileCounts(n) == 0..Lesser(n, Rest(pos))
FdCounts(n) == {-1} \cup IF Rest(pos) = 0 THEN {0} ELSE 1..Lesser(n, Rest(pos))
Counts(n) ==
  CASE src.base = "mem" -> MemCounts(n)
    [] src.base = "file" -> FileCounts(n)
    [] src.base = "fd" -> FdCounts(n)

BaseRead ==
  /\ vfsPc = "base" /\ src.base # "curl"
  /\ \E k \in Counts(call.want) :
       /\ Answer(Bytes(pos, k), k = -1)
       /\ pos' = IF k = -1 THEN pos ELSE pos + k
  /\ UNCHANGED <<src, curl_pos, length, cache, bad, z, stage, lvl, want, buf, mb>>

-----------------------------------------------------------------------------
(* vfs68_curl.c: the transfer fills a ring of blocks as far as it gets,    *)
(* and a read takes them from there.                                       *)

(* isf_write_cb() for k bytes after the first p.                           *)
Written(c, p, k) ==
  LET last(b) == CHOOSE j \in (p \div BLK)..((p + k - 1) \div BLK) :
                   /\ j % BLKS = b
                   /\ j + BLKS > (p + k - 1) \div BLK
      hit == {j % BLKS : j \in (p \div BLK)..((p + k - 1) \div BLK)}
      full(b) == (last(b) + 1) * BLK <= p + k
  IN  [b \in DOMAIN c |->
         IF b \notin hit THEN c[b]
         ELSE [top |-> last(b) * BLK, bytes |-> IF full(b) THEN BLK ELSE (p + k) % BLK]]

Transfer(p, c, k) ==
  /\ curl_pos' = p + k
  /\ cache' = IF k = 0 THEN c ELSE Written(c, p, k)

(* The bytes of the ring at the place of the reader.                       *)
At == pos + Len(call.got)
Block == cache[(At \div BLK) % BLKS]
Off == At % BLK
HereBug == Block.top # -1
Here == Block.top = At - Off
Ready == IF Here THEN Lesser(Block.bytes - Off, call.want - Len(call.got)) ELSE -1

AtEnd == length # -1 /\ At >= length

CurlCopy ==
  /\ vfsPc = "base" /\ src.base = "curl"
  /\ Len(call.got) < call.want /\ ~AtEnd /\ call.left >= 0 /\ Ready > 0
  /\ call' = [call EXCEPT !.got = @ \o Bytes(Block.top + Off, Ready)]
  /\ UNCHANGED <<baseVars, given, fail, z, vfsPc, loadVars>>

(* All is there, or the end, or it has waited long enough, or the block    *)
(* was overwritten by the transfer.                                        *)
CurlReturns ==
  /\ vfsPc = "base" /\ src.base = "curl"
  /\ \/ Len(call.got) = call.want
     \/ AtEnd
     \/ call.left < 0
     \/ Ready <= 0 /\ At < curl_pos
  /\ Answer(call.got, bad) /\ pos' = At
  /\ UNCHANGED <<src, curl_pos, length, cache, bad, z, stage, lvl, want, buf, mb>>

(* isf_need_more(): the perform brings some bytes, none, or fails.         *)
CurlPerform ==
  /\ vfsPc = "base" /\ src.base = "curl"
  /\ Len(call.got) < call.want /\ ~AtEnd /\ call.left >= 0
  /\ Ready <= 0 /\ At >= curl_pos
  /\ \/ \E k \in 0..Rest(curl_pos) :
          /\ Transfer(curl_pos, cache, k)
          /\ call' = [call EXCEPT !.left = IF k = 0 THEN @ - 1 ELSE TRIES]
          /\ bad' \in IF k = 0 THEN {FALSE} ELSE BOOLEAN
          /\ UNCHANGED <<pos, given, fail, vfsPc, read, short>>
     \/ \E b \in BOOLEAN :     \* CURLM_CALL_MULTI_PERFORM is taken for the end
          /\ bad' = b /\ Answer(call.got, b) /\ pos' = At
          /\ UNCHANGED <<curl_pos, cache>>
  /\ UNCHANGED <<src, length, z, stage, lvl, want, buf, mb>>

-----------------------------------------------------------------------------
(* vfs68_z.c, reading.                                                     *)
Packed == src.size - GZH - GZT           \* bytes of compressed data

ZGoto(p, s) == vfsPc' = p /\ z' = s /\ UNCHANGED <<call, read, short>>
Ask(who, n, s) == Call(who, n) /\ z' = s /\ UNCHANGED <<read, short>>
Gives(bytes, failed) ==
  /\ Deliver(bytes, failed) /\ vfsPc' = "is" /\ UNCHANGED call
  /\ z' = [z EXCEPT !.got = <<>>, !.acc = <<>>, !.sent = @ + Len(bytes)]

restOfZ == <<baseVars, given, fail, stage, lvl, want, buf, mb>>

(* isf_read(): takes what is inflated, and inflates more.                  *)
ZRead ==
  /\ vfsPc = "z"
  /\ LET n == Lesser(Len(z.out), want - Len(z.got))
     IN  IF Len(z.got) = want THEN Gives(z.got, FALSE)
         ELSE IF n = 0 THEN ZGoto("inflate", z)
         ELSE ZGoto("z", [z EXCEPT !.got = @ \o SubSeq(z.out, 1, n),
                                  !.out = SubSeq(@, n + 1, Len(@))])
  /\ UNCHANGED restOfZ

(* isf_inflate_buffer() returns what it made; nothing is the end.          *)
Inflated ==
  IF z.acc = <<>> THEN Gives(z.got, FALSE)
  ELSE ZGoto("z", [z EXCEPT !.out = z.acc, !.acc = <<>>])

(* What inflate() makes of the next n bytes.                               *)
Eaten(n) ==
  [z EXCEPT !.fed = @ + n, !.in = SubSeq(@, n + 1, Len(@)),
            !.acc = @ \o Bytes(z.fed * RATIO, n * RATIO)]

Inflate ==
  /\ vfsPc = "inflate"
  /\ LET n == Lesser(Packed - z.fed, Lesser(Len(z.in), (OBUF - Len(z.acc)) \div RATIO))
     IN  IF Len(z.acc) = OBUF THEN Inflated
         ELSE IF z.in = <<>> THEN Ask("fill", IBUF, z)
         ELSE IF z.fed < Packed /\ z.in # Bytes(GZH + z.fed, Len(z.in)) THEN Gives(<<>>, TRUE)
         ELSE ZGoto(IF z.fed + n = Packed THEN "end" ELSE "inflate", Eaten(n))
  /\ UNCHANGED restOfZ

(* isf_fill_input_buffer() from there.                                     *)
Fill ==
  /\ vfsPc = "fill"
  /\ IF fail THEN Gives(<<>>, TRUE)
     ELSE IF given = <<>> THEN Inflated
     ELSE ZGoto("inflate", [z EXCEPT !.in = given])
  /\ UNCHANGED restOfZ

(* After the data the trailer is read as far as it is there; nothing looks *)
(* at it, nor at an error.                                                 *)
DataEnd ==
  /\ vfsPc = "end"
  /\ LET n == Lesser(Len(z.in), GZT)
     IN  ZGoto("tail", [z EXCEPT !.in = SubSeq(@, n + 1, Len(@)), !.tail = GZT - n])
  /\ UNCHANGED restOfZ

TailDue ==
  /\ vfsPc = "tail"
  /\ IF z.tail = 0 THEN Inflated ELSE Ask("trailer", z.tail, z)
  /\ UNCHANGED restOfZ

Trailer ==
  /\ vfsPc = "trailer"
  /\ ZGoto("tail", [z EXCEPT !.tail = IF given = <<>> THEN 0 ELSE @ - Len(given)])
  /\ UNCHANGED restOfZ

-----------------------------------------------------------------------------
(* file68_load(), down to what it does with the bytes.                     *)

(* The disk, or none; the streams are closed next.                         *)
Ends(disk) ==
  /\ mb' = disk /\ vfsPc' = "close" /\ lvl' = 0
  /\ read' = <<>> /\ UNCHANGED <<call, z, stage, want, short, buf>>

(* It reads n bytes more from the stream in hand.                          *)
Reads(st, n) ==
  /\ stage' = st /\ want' = n
  /\ IF lvl = 0 THEN Call("is", n) ELSE vfsPc' = "z" /\ UNCHANGED call
  /\ UNCHANGED <<z, lvl, read, short, mb>>

Fmt == IF lvl = 0 THEN src.fmt ELSE src.inner
Size == IF lvl = 0 THEN src.size ELSE RATIO * Packed

CompleteBug == ~short
Complete == ~short /\ Len(read) = want
SoFar == buf \o read
Is(f) == Fmt = f /\ SoFar = Bytes(0, Len(SoFar))
Keep == buf' = SoFar

ReadId ==
  /\ vfsPc = "is" /\ stage = "id"
  /\ IF ~Complete THEN Ends(None)
     ELSE /\ Keep
          /\ IF Is("sc68") THEN Reads("chunk", CHUNK) ELSE Reads("header", HDR - ID)
  /\ UNCHANGED <<baseVars, given, fail>>

ReadBase ==
  /\ vfsPc = "is" /\ stage \in {"chunk", "size"}
  /\ IF ~Complete \/ ~Is("sc68") THEN Ends(None)
     ELSE /\ Keep
          /\ IF stage = "chunk" THEN Reads("size", CHUNK)
             ELSE Reads("data", Size - ID - 2 * CHUNK)
  /\ UNCHANGED <<baseVars, given, fail>>

(* vfs68_length().                                                         *)
LengthOf ==
  IF lvl = 1 THEN -1
  ELSE IF src.base = "curl" THEN length
  ELSE IF src.seeks THEN src.has ELSE -1

(* Other formats are read again from the start.  The seek of a gzip stream *)
(* only says it did: its next bytes are those that follow, and are neither *)
(* the head of an ICE file nor that of another gzip file.                  *)
ReadHeader ==
  /\ vfsPc = "is" /\ stage = "header"
  /\ IF ~Complete \/ (lvl = 0 /\ ~src.seeks) THEN Ends(None) /\ UNCHANGED pos
     ELSE /\ pos' = IF lvl = 0 THEN 0 ELSE pos
          /\ \/ Is("gz") /\ lvl = 0 /\ Call("gzhead", GZH) /\ stage' = "gz"
                /\ UNCHANGED <<z, lvl, want, read, short, buf, mb>>
             \/ Is("ice") /\ buf' = <<>> /\ Reads("icehead", ICEH)
             \/ Is("sndh") /\ LengthOf > HDR /\ buf' = <<>> /\ Reads("data", LengthOf)
             \/ /\ ~(Is("gz") /\ lvl = 0) /\ ~Is("ice") /\ ~(Is("sndh") /\ LengthOf > HDR)
                /\ Ends(None)
  /\ UNCHANGED <<src, curl_pos, length, cache, bad, given, fail>>

(* isf_read_gz_header(), and the disk is loaded through the gzip stream.   *)
GzHeader ==
  /\ vfsPc = "gzhead"
  /\ LET got == z.got \o given
     IN  IF given = <<>> \/ (Len(got) = GZH /\ got # Bytes(0, GZH)) THEN Ends(None)
         ELSE IF Len(got) < GZH
         THEN Ask("gzhead", GZH - Len(got), [z EXCEPT !.got = got])
              /\ UNCHANGED <<stage, lvl, want, buf, mb>>
         ELSE /\ lvl' = 1 /\ stage' = "id" /\ want' = ID /\ vfsPc' = "z" /\ z' = NoZ
              /\ buf' = <<>> /\ read' = <<>> /\ UNCHANGED <<short, mb, call>>
  /\ UNCHANGED <<baseVars, given, fail>>

(* file68_ice_load(): the packed size is in the head.                      *)
ReadIce ==
  /\ vfsPc = "is" /\ stage \in {"icehead", "ice"}
  /\ IF ~Complete THEN Ends(None)
     ELSE IF stage = "ice" THEN Ends(SoFar)
     ELSE IF Is("ice") THEN Keep /\ Reads("ice", Size - ICEH) ELSE Ends(None)
  /\ UNCHANGED <<baseVars, given, fail>>

ReadData ==
  /\ vfsPc = "is" /\ stage = "data"
  /\ Ends(IF Complete THEN read ELSE None)
  /\ UNCHANGED <<baseVars, given, fail>>

(* file68_load_uri(): opens, loads and destroys.  A stream that does not   *)
(* open gives no disk.  The open of curl performs until bytes come or no   *)
(* more than a header came in time.                                        *)
OpenStream ==
  /\ vfsPc = "idle"
  /\ \E s \in Sources :
       /\ src' = s /\ length' = s.said
       /\ \E k \in 0..(IF s.base = "curl" THEN s.has ELSE 0) : Transfer(0, NoCache, k)
  /\ stage' = "id" /\ want' = ID /\ Call("is", ID)
  /\ UNCHANGED <<pos, bad, given, fail, z, lvl, read, short, buf, mb>>

CloseStream ==
  /\ vfsPc = "close"
  /\ src' = NoSource /\ pos' = 0
  /\ curl_pos' = 0 /\ length' = -1 /\ cache' = NoCache /\ bad' = FALSE
  /\ call' = NoCall /\ given' = <<>> /\ fail' = FALSE /\ z' = NoZ
  /\ vfsPc' = "idle" /\ stage' = "none" /\ lvl' = 0
  /\ want' = 0 /\ read' = <<>> /\ short' = FALSE /\ buf' = <<>> /\ mb' = <<>>

LoadStep ==
  \/ BaseRead \/ CurlCopy \/ CurlReturns \/ CurlPerform
  \/ GzHeader \/ ZRead \/ Inflate \/ Fill \/ DataEnd \/ TailDue \/ Trailer
  \/ ReadId \/ ReadBase \/ ReadHeader \/ ReadIce \/ ReadData \/ CloseStream

VfsNext == OpenStream \/ LoadStep

(* The program goes on; servers and disks need not.                        *)
VfsSpec == VfsInit /\ [][VfsNext]_vfsVars /\ WF_vfsVars(LoadStep)

-----------------------------------------------------------------------------
VfsTypeOK ==
  /\ src \in Sources \cup {NoSource} /\ pos \in Nat /\ curl_pos \in Nat
  /\ length >= -1 /\ bad \in BOOLEAN /\ fail \in BOOLEAN /\ short \in BOOLEAN
  /\ \A b \in DOMAIN cache : cache[b].bytes \in 0..BLK
  /\ call.left \in -1..TRIES /\ Len(call.got) <= call.want
  /\ Len(z.out) <= OBUF /\ Len(z.acc) <= OBUF /\ Len(z.in) <= IBUF
  /\ lvl \in {0, 1} /\ want \in Nat

(* Whatever its base gives it, in pieces, late or not at all, a stream     *)
(* gives the bytes of its source from where it stands, in order: the ring  *)
(* of curl never gives bytes of another block, a gzip stream never gives   *)
(* bytes twice or leaves some out.                                         *)
Base == INSTANCE ByteStream WITH at <- pos, out <- given
Unzipped == INSTANCE ByteStream
              WITH at <- IF lvl = 1 THEN z.sent ELSE 0, out <- IF lvl = 1 THEN read ELSE <<>>
StreamsInOrder == Base!BSpec /\ Unzipped!BSpec

(* A disk is all of its file or there is none; an SNDH file, which does    *)
(* not tell its size, is as long as its stream says.  A file that is whole *)
(* and in memory is loaded, but for what needs to seek in a gzip stream.   *)
DiskOf(f, n, long) ==
  CASE f = "sc68" -> Bytes(ID + 2 * CHUNK, n - ID - 2 * CHUNK)
    [] f = "sndh" -> Bytes(0, long)
    [] f = "ice" -> Bytes(0, n)
    [] OTHER -> None
TheDisk ==
  IF src.fmt = "gz"
  THEN IF src.inner = "sc68" THEN DiskOf("sc68", RATIO * Packed, 0) ELSE None
  ELSE DiskOf(src.fmt, src.size, IF src.base = "curl" THEN src.said ELSE src.has)
FileOrNothing ==
  vfsPc = "close" => /\ mb \in {TheDisk, None}
                     /\ src.base = "mem" /\ src.has = src.size => mb = TheDisk

(* A load ends though a server stops sending.                              *)
LoadEnds == vfsPc # "idle" ~> vfsPc = "idle"
=============================================================================
