------------------------------- MODULE Save68 -------------------------------
(***************************************************************************)
(* file68_save_uri() and file68_save() (file68/src/file68.c) down to the   *)
(* bytes in the file: a disk goes in pieces to a descriptor, a file or     *)
(* memory, as it is or through a gzip stream (vfs68_z.c), and there may be *)
(* no room for it.  A byte is its place in the file, from 1.               *)
(***************************************************************************)
EXTENDS Vfs68

CONSTANTS
  PieceEnds, \* where the pieces that save_sc68() writes end, in order
  Deflated,  \* bytes deflate makes of them all
  ZBUF,      \* buffer_in and buffer_out
  FBUF,      \* what stdio keeps before it writes
  Sinks      \* records: base "fd", "file" or "mem", `room' in it, gzip,
             \* and whether it opens and the disk can be saved (`ok')

VARIABLES
  to, sink, unflushed,  \* where it goes, bytes there, bytes stdio keeps
  piece, taken,         \* piece being written, what the gzip stream took of it
  zin, zout, zmade,     \* gzip: bytes in buffer_in, buffer_out, bytes made
  result,               \* what file68_save() returns
  savePc

fileVars == <<sink, unflushed>>
zVars == <<zin, zout, zmade>>
saveVars == <<to, fileVars, piece, taken, zVars, result, savePc>>

Before(p) == IF p = 1 THEN 0 ELSE PieceEnds[p - 1]
PieceSize == PieceEnds[piece] - Before(piece)
Total == IF to.gzip THEN GZH + Deflated + GZT ELSE Before(Len(PieceEnds) + 1)

(* Pieces follow each other, and buffers hold something.                   *)
ValidSaves ==
  /\ PieceEnds \in Seq(Nat)
  /\ \A p, q \in 1..Len(PieceEnds) : p <= q => PieceEnds[p] <= PieceEnds[q]
  /\ Deflated \in Nat \ {0} /\ ZBUF \in Nat \ {0} /\ FBUF \in Nat
  /\ GZH \in Nat /\ GZT \in Nat
  /\ \A s \in Sinks : /\ s.base \in {"fd", "file", "mem"} /\ s.room \in Nat
                      /\ s.gzip \in BOOLEAN /\ s.ok \in BOOLEAN

SaveInit ==
  /\ to = [base |-> "none"] /\ sink = <<>> /\ unflushed = <<>>
  /\ piece = 1 /\ taken = 0
  /\ zin = 0 /\ zout = <<>> /\ zmade = 0
  /\ result = 0 /\ savePc = "idle"

Put(b) == sink \o SubSeq(b, 1, Lesser(Len(b), to.room - Len(sink)))

(* ism_write(), write() or fwrite() of the bytes b: what each may return,  *)
(* and leave behind.                                                       *)
Room(b) == Len(Put(b)) - Len(sink)
MemWrites(b) == {[w |-> Room(b), sink |-> Put(b), unflushed |-> <<>>]}
FdWrites(b) ==
  {[w |-> IF Room(b) = 0 /\ b # <<>> THEN -1 ELSE Room(b), sink |-> Put(b), unflushed |-> <<>>]}
FileWrites(b) ==
  IF Len(unflushed \o b) <= FBUF
  THEN {[w |-> Len(b), sink |-> sink, unflushed |-> unflushed \o b]}
  ELSE IF Len(sink) + Len(unflushed \o b) <= to.room
  THEN {[w |-> Len(b), sink |-> Put(unflushed \o b), unflushed |-> <<>>]}
  ELSE {[w |-> k, sink |-> Put(unflushed \o b), unflushed |-> <<>>] : k \in 0..(Len(b) - 1)}
Writes(b) ==
  CASE to.base = "mem" -> MemWrites(b)
    [] to.base = "fd" -> FdWrites(b)
    [] to.base = "file" -> FileWrites(b)

Wrote(x) == sink' = x.sink /\ unflushed' = x.unflushed

(* The streams are closed; the result is what it was before.               *)
Fails == result' = -1 /\ savePc' = "close"

(* A disk is sized by saving it to a null stream, which takes everything.  *)
Save ==
  /\ savePc = "idle"
  /\ \E s \in Sinks :
       /\ to' = s
       /\ IF ~s.ok THEN Fails
          ELSE savePc' = (IF s.gzip THEN "header" ELSE "piece") /\ UNCHANGED result
  /\ UNCHANGED <<fileVars, piece, taken, zVars>>

(* isf_write_gz_header().                                                  *)
Header ==
  /\ savePc = "header"
  /\ \E x \in Writes(Bytes(0, GZH)) :
       /\ Wrote(x)
       /\ IF x.w = GZH THEN savePc' = "piece" /\ UNCHANGED result ELSE Fails
  /\ UNCHANGED <<to, piece, taken, zVars>>

Done == piece > Len(PieceEnds)

(* save_sc68() to the file itself.                                         *)
WritePiece ==
  /\ savePc = "piece" /\ ~to.gzip
  /\ IF Done THEN savePc' = "close" /\ UNCHANGED <<fileVars, piece, result>>
     ELSE \E x \in Writes(Bytes(Before(piece), PieceSize)) :
            /\ Wrote(x)
            /\ IF x.w = PieceSize THEN piece' = piece + 1 /\ UNCHANGED <<result, savePc>>
               ELSE Fails /\ UNCHANGED piece
  /\ UNCHANGED <<to, taken, zVars>>

(* isf_write(): fills buffer_in, and deflates it when it is full.          *)
ZWrite ==
  /\ savePc = "piece" /\ to.gzip
  /\ IF Done THEN savePc' = "finish" /\ UNCHANGED <<piece, taken, zin>>
     ELSE LET n == Lesser(ZBUF - zin, PieceSize - taken)
          IN  IF n = 0 THEN savePc' = "deflate" /\ UNCHANGED <<piece, taken, zin>>
              ELSE /\ zin' = zin + n /\ UNCHANGED savePc
                   /\ IF taken + n = PieceSize THEN piece' = piece + 1 /\ taken' = 0
                      ELSE taken' = taken + n /\ UNCHANGED piece
  /\ UNCHANGED <<to, fileVars, zout, zmade, result>>

(* isf_flush_output_buffer(): what is not written is kept, unless the      *)
(* write fails.                                                            *)
Flushes == IF zout = <<>> THEN {[w |-> 0, sink |-> sink, unflushed |-> unflushed]} ELSE Writes(zout)
Unwritten(x) == SubSeq(zout, x.w + 1, Len(zout))
NewBytes(n) == Bytes(GZH + zmade, n)

(* A round of isf_deflate_buffer(): flushes, then deflates more.  There is *)
(* an error when deflate() finds no room; isf_close() goes on after that,  *)
(* but not after a write that failed (is_err).                             *)
Deflate ==
  /\ savePc = "deflate"
  /\ IF zin = 0 THEN savePc' = "piece" /\ UNCHANGED <<fileVars, zVars, result>>
     ELSE \E x \in Flushes :
       LET room == ZBUF - Len(Unwritten(x))
       IN  /\ Wrote(x)
           /\ IF x.w = -1 \/ room = 0
              THEN /\ result' = -1 /\ savePc' = (IF x.w = -1 THEN "close" ELSE "finish")
                   /\ UNCHANGED zVars
              ELSE \E n \in 0..Lesser(room, Deflated - 1 - zmade), left \in 0..zin :
                     /\ left > 0 => n = room
                     /\ zin' = left /\ zmade' = zmade + n
                     /\ zout' = Unwritten(x) \o NewBytes(n)
                     /\ UNCHANGED <<result, savePc>>
  /\ UNCHANGED <<to, piece, taken>>

(* isf_close(): the same to the end of the data, one more flush, and the   *)
(* trailer.  Its result is lost: vfs68_destroy() gives none.               *)
Finish ==
  /\ savePc = "finish"
  /\ \E x \in Flushes :
       LET room == ZBUF - Len(Unwritten(x))
           n == Lesser(room, Deflated - zmade)
       IN  /\ Wrote(x)
           /\ IF x.w = -1 \/ room = 0 THEN savePc' = "close" /\ UNCHANGED zVars
              ELSE /\ zmade' = zmade + n /\ zout' = Unwritten(x) \o NewBytes(n) /\ zin' = 0
                   /\ savePc' = IF zmade + n = Deflated THEN "last" ELSE "finish"
  /\ UNCHANGED <<to, piece, taken, result>>

LastFlush ==
  /\ savePc = "last"
  /\ \E x \in Flushes : Wrote(x) /\ savePc' = IF x.w = -1 THEN "close" ELSE "trailer"
  /\ UNCHANGED <<to, piece, taken, zVars, result>>

WriteTrailer ==
  /\ savePc = "trailer"
  /\ \E x \in Writes(Bytes(GZH + Deflated, GZT)) : Wrote(x)
  /\ savePc' = "close"
  /\ UNCHANGED <<to, piece, taken, zVars, result>>

(* fclose() writes what stdio kept, and its result is lost too.            *)
CloseSink ==
  /\ savePc = "close" /\ savePc' = "told"
  /\ sink' = Put(unflushed) /\ unflushed' = <<>>
  /\ UNCHANGED <<to, piece, taken, zVars, result>>

Told ==
  /\ savePc = "told" /\ savePc' = "idle"
  /\ to' = [base |-> "none"] /\ sink' = <<>> /\ unflushed' = <<>>
  /\ piece' = 1 /\ taken' = 0
  /\ zin' = 0 /\ zout' = <<>> /\ zmade' = 0 /\ result' = 0

SaveNext ==
  \/ Save \/ Header \/ WritePiece \/ ZWrite \/ Deflate \/ Finish \/ LastFlush
  \/ WriteTrailer \/ CloseSink \/ Told

SaveSpec == SaveInit /\ [][SaveNext]_saveVars

-----------------------------------------------------------------------------
SaveTypeOK ==
  /\ to \in Sinks \cup {[base |-> "none"]}
  /\ Len(unflushed) <= FBUF /\ piece \in 1..(Len(PieceEnds) + 1) /\ taken \in Nat
  /\ zin \in 0..ZBUF /\ Len(zout) <= ZBUF /\ zmade \in 0..Deflated
  /\ result \in {0, -1}
  /\ savePc \in {"idle", "header", "piece", "deflate", "finish", "last", "trailer", "close", "told"}

(* What is in the file is a beginning of what it should be, and all of it  *)
(* where there was room: partial writes, and buffers of any size on the    *)
(* way, neither lose bytes nor write them twice.                           *)
SavedInOrder ==
  /\ sink = Bytes(0, Len(sink))
  /\ savePc = "told" /\ to.ok /\ to.room >= Total => result = 0 /\ Len(sink) = Total

(* file68.h:354: `@retval 0 success'.  What file68_save() wrote is in a     *)
(* sink that keeps nothing back.                                           *)
SuccessIsSaved ==
  savePc = "told" /\ result = 0 /\ to.base # "file" => Len(sink) = Total

(* A file is loaded whole or not at all, and saved in order and whole      *)
(* where there is room.                                                    *)
WholeFiles == FileOrNothing /\ SavedInOrder
=============================================================================
