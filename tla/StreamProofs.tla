----------------------------- MODULE StreamProofs -----------------------------
(***************************************************************************)
(* Whatever its sizes, its sources and what the other end does, a stream   *)
(* gives the bytes of its source in order: the base streams and the gzip   *)
(* stream implement ByteStream.  A disk is loaded whole or not at all, and *)
(* saved in order, whole where there is room.                              *)
(***************************************************************************)
EXTENDS Save68, SequenceTheorems, TLAPS

-----------------------------------------------------------------------------
(* Consecutive bytes.                                                      *)
LEMMA BytesAre ==
  ASSUME NEW p \in Nat, NEW n \in Nat
  PROVE  /\ Bytes(p, n) \in Seq(Nat) /\ Len(Bytes(p, n)) = n
         /\ \A i \in 1..n : Bytes(p, n)[i] = p + i
<1>1. Bytes(p, n) \in [1..n -> Nat]
  BY DEF Bytes
<1> QED BY <1>1 DEF Bytes

LEMMA NoBytes == ASSUME NEW p \in Nat PROVE Bytes(p, 0) = <<>>
BY DEF Bytes

LEMMA BytesJoin ==
  ASSUME NEW p \in Nat, NEW a \in Nat, NEW b \in Nat
  PROVE  Bytes(p, a) \o Bytes(p + a, b) = Bytes(p, a + b)
<1> DEFINE x == Bytes(p, a)
           y == Bytes(p + a, b)
           t == Bytes(p, a + b)
<1>1. /\ x \in Seq(Nat) /\ Len(x) = a /\ \A i \in 1..a : x[i] = p + i
      /\ y \in Seq(Nat) /\ Len(y) = b /\ \A i \in 1..b : y[i] = p + a + i
      /\ t \in Seq(Nat) /\ Len(t) = a + b /\ \A i \in 1..(a + b) : t[i] = p + i
  <2>1. p + a \in Nat /\ a + b \in Nat
    OBVIOUS
  <2>2. x \in Seq(Nat) /\ Len(x) = a /\ \A i \in 1..a : x[i] = p + i
    BY BytesAre
  <2>3. y \in Seq(Nat) /\ Len(y) = b /\ \A i \in 1..b : y[i] = p + a + i
    BY <2>1, BytesAre
  <2>4. t \in Seq(Nat) /\ Len(t) = a + b /\ \A i \in 1..(a + b) : t[i] = p + i
    BY <2>1, BytesAre
  <2> QED BY <2>2, <2>3, <2>4
<1> HIDE DEF x, y, t
<1>2. /\ x \o y \in Seq(Nat) /\ Len(x \o y) = a + b
      /\ \A i \in 1..(a + b) : (x \o y)[i] = IF i <= a THEN x[i] ELSE y[i - a]
  BY <1>1, ConcatProperties, ZenonT(60)
<1>3. ASSUME NEW i \in 1..(a + b) PROVE (x \o y)[i] = t[i]
  <2>1. CASE i <= a
    BY <1>1, <1>2, <2>1
  <2>2. CASE ~(i <= a)
    <3>1. i - a \in 1..b /\ ~(i <= a)
      BY <2>2
    <3>2. y[i - a] = p + a + (i - a)
      BY <1>1, <3>1
    <3>3. (x \o y)[i] = y[i - a]
      BY <1>2, <3>1
    <3>4. t[i] = p + i
      BY <1>1
    <3> QED BY <3>2, <3>3, <3>4
  <2> QED BY <2>1, <2>2
<1>4. x \o y = t
  BY <1>1, <1>2, <1>3, SeqEqual
<1> QED BY <1>4 DEF x, y, t

LEMMA BytesCut ==
  ASSUME NEW p \in Nat, NEW n \in Nat, NEW k \in 0..n
  PROVE  /\ SubSeq(Bytes(p, n), 1, k) = Bytes(p, k)
         /\ SubSeq(Bytes(p, n), k + 1, n) = Bytes(p + k, n - k)
<1> DEFINE s == Bytes(p, n)
           a == Bytes(p, k)
           b == Bytes(p + k, n - k)
<1>1. /\ s \in Seq(Nat) /\ Len(s) = n /\ \A i \in 1..n : s[i] = p + i
      /\ a \in Seq(Nat) /\ Len(a) = k /\ \A i \in 1..k : a[i] = p + i
      /\ b \in Seq(Nat) /\ Len(b) = n - k /\ \A i \in 1..(n - k) : b[i] = p + k + i
  <2>1. k \in Nat /\ p + k \in Nat /\ n - k \in Nat
    OBVIOUS
  <2>2. s \in Seq(Nat) /\ Len(s) = n /\ \A i \in 1..n : s[i] = p + i
    BY BytesAre
  <2>3. a \in Seq(Nat) /\ Len(a) = k /\ \A i \in 1..k : a[i] = p + i
    BY <2>1, BytesAre
  <2>4. b \in Seq(Nat) /\ Len(b) = n - k /\ \A i \in 1..(n - k) : b[i] = p + k + i
    BY <2>1, BytesAre
  <2> QED BY <2>2, <2>3, <2>4
<1> HIDE DEF s, a, b
<1>2. \A i \in 1..n : s[i] \in Nat
  BY <1>1
<1>3. SubSeq(s, 1, k) = a
  <2>1. /\ SubSeq(s, 1, k) \in Seq(Nat)
        /\ Len(SubSeq(s, 1, k)) = IF 1 <= k THEN k - 1 + 1 ELSE 0
        /\ \A i \in 1..(k - 1 + 1) : SubSeq(s, 1, k)[i] = s[1 + i - 1]
    BY <1>2, SubSeqProperties
  <2>2. Len(SubSeq(s, 1, k)) = k
    BY <2>1
  <2>3. \A i \in 1..k : SubSeq(s, 1, k)[i] = a[i]
    BY <1>1, <2>1
  <2> QED BY <1>1, <2>1, <2>2, <2>3, SeqEqual
<1>4. SubSeq(s, k + 1, n) = b
  <2>1. /\ SubSeq(s, k + 1, n) \in Seq(Nat)
        /\ Len(SubSeq(s, k + 1, n)) = IF k + 1 <= n THEN n - (k + 1) + 1 ELSE 0
        /\ \A i \in 1..(n - (k + 1) + 1) : SubSeq(s, k + 1, n)[i] = s[k + 1 + i - 1]
    <3>1. \A i \in (k + 1)..n : s[i] \in Nat
      BY <1>2
    <3>2. k + 1 \in Int /\ n \in Int
      OBVIOUS
    <3> QED BY <3>1, <3>2, SubSeqProperties
  <2>2. Len(SubSeq(s, k + 1, n)) = n - k
    BY <2>1
  <2>3. \A i \in 1..(n - k) : SubSeq(s, k + 1, n)[i] = b[i]
    BY <1>1, <2>1
  <2> QED BY <1>1, <2>1, <2>2, <2>3, SeqEqual
<1> QED BY <1>3, <1>4 DEF s, a, b

LEMMA RestOf ==
  ASSUME NEW x \in Seq(Nat), NEW n \in Nat
  PROVE  SubSeq(x, n + 1, Len(x)) \in Seq(Nat)
<1> DEFINE m == Len(x)
<1>1. m \in Nat /\ \A j \in 1..m : x[j] \in Nat
  BY LenProperties, ElementOfSeq
<1> HIDE DEF m
<1>2. n + 1 \in Int /\ m \in Int /\ \A j \in (n + 1)..m : x[j] \in Nat
  BY <1>1
<1>3. SubSeq(x, n + 1, m) \in Seq(Nat)
  BY <1>2, SubSeqProperties
<1> QED BY <1>3 DEF m

(* Emptying a buffer at its head, and filling another at its end.          *)
LEMMA BytesMove ==
  ASSUME NEW p \in Nat, NEW a \in Nat, NEW b \in Nat, NEW k \in 0..b
  PROVE  /\ Bytes(p, a) \o SubSeq(Bytes(p + a, b), 1, k) = Bytes(p, a + k)
         /\ SubSeq(Bytes(p + a, b), k + 1, b) = Bytes(p + a + k, b - k)
<1>1. p + a \in Nat /\ k \in Nat
  OBVIOUS
<1>2. /\ SubSeq(Bytes(p + a, b), 1, k) = Bytes(p + a, k)
      /\ SubSeq(Bytes(p + a, b), k + 1, b) = Bytes(p + a + k, b - k)
  <2>1. \A q \in Nat : /\ SubSeq(Bytes(q, b), 1, k) = Bytes(q, k)
                       /\ SubSeq(Bytes(q, b), k + 1, b) = Bytes(q + k, b - k)
    BY BytesCut
  <2> QED BY <1>1, <2>1
<1>3. Bytes(p, a) \o Bytes(p + a, k) = Bytes(p, a + k)
  BY <1>1, BytesJoin
<1> QED BY <1>2, <1>3

-----------------------------------------------------------------------------
(* The inductive invariant.  What is read of the base waits in call.got;   *)
(* behind the gzip stream the bytes made are, in order, those given before *)
(* (sent), those of the read in progress (got), those it has inflated for  *)
(* later (out) and those it is inflating (acc).                            *)
Who == {"none", "is", "fill", "trailer", "gzhead"}

ZType == [in : Seq(Nat), fed : Nat, acc : Seq(Nat), out : Seq(Nat), got : Seq(Nat),
          tail : Nat, sent : Nat]

RingTyped == /\ DOMAIN cache = 0..(BLKS - 1)
             /\ \A b \in 0..(BLKS - 1) : cache[b].bytes \in Int

StreamTyped ==
  /\ pos \in Nat /\ curl_pos \in Nat /\ length \in Int /\ want \in Nat /\ lvl \in {0, 1} /\ bad \in BOOLEAN
  /\ vfsPc # "idle" => src \in Sources
  /\ call \in [who : Who, want : Nat, got : Seq(Nat), left : Int]
  /\ given \in Seq(Nat)
  /\ z \in ZType
  /\ RingTyped

Inflating == {"inflate", "fill", "end", "tail", "trailer", "base"}

PlacesTyped ==
  /\ lvl = 1 => vfsPc \in {"z", "is"} \cup Inflating /\ src.fmt = "gz"
  /\ lvl = 0 => vfsPc \in {"idle", "base", "is", "gzhead", "close"}
  /\ vfsPc = "base" => call.who \in IF lvl = 1 THEN {"fill", "trailer"} ELSE {"is", "gzhead"}
  /\ vfsPc = "gzhead" \/ (vfsPc = "base" /\ call.who = "gzhead") => src.fmt = "gz"

Reading ==
  /\ call.got = Bytes(pos, Len(call.got))
  /\ vfsPc # "base" => call.got = <<>>
  /\ vfsPc = "base" => Len(call.got) <= call.want
  /\ vfsPc = "base" /\ call.who = "trailer" => call.want = z.tail
  /\ vfsPc = "trailer" => Len(given) <= z.tail

Made == z.sent + Len(z.got) + Len(z.out)
InOrder ==
  /\ z.got = Bytes(z.sent, Len(z.got))
  /\ z.out = Bytes(z.sent + Len(z.got), Len(z.out))
  /\ z.acc = Bytes(Made, Len(z.acc))
  /\ z.fed * RATIO = Made + Len(z.acc)
  /\ z.fed <= Packed /\ Len(z.acc) <= OBUF /\ Len(z.got) <= want
Flow ==
  lvl = 1 /\ ~(vfsPc = "is" /\ short) =>
    /\ InOrder
    /\ vfsPc \in {"z", "is"} => z.acc = <<>>
    /\ vfsPc = "is" => z.got = <<>>
    /\ vfsPc \in Inflating => z.out = <<>>

StreamInv == StreamTyped /\ PlacesTyped /\ Reading /\ Flow

-----------------------------------------------------------------------------
LEMMA LesserIs ==
  \A a, b \in Int : /\ Lesser(a, b) \in {a, b} /\ Lesser(a, b) \in Int
                    /\ Lesser(a, b) <= a /\ Lesser(a, b) <= b
BY DEF Lesser

(* What the gzip stream does leaves what it gave alone.                    *)
LEMMA SameUnzipped ==
  ASSUME lvl' = lvl, lvl = 1 => z'.sent = z.sent /\ read' = read
  PROVE  UNCHANGED Unzipped!bvars
BY DEF Unzipped!bvars

LEMMA SameBase == ASSUME pos' = pos, given' = given PROVE UNCHANGED Base!bvars
BY DEF Base!bvars

LEMMA InitInv == ValidStreams /\ VfsInit => StreamInv /\ Base!BInit /\ Unzipped!BInit
<1> SUFFICES ASSUME ValidStreams, VfsInit PROVE StreamInv /\ Base!BInit /\ Unzipped!BInit
  OBVIOUS
<1> USE DEF VfsInit
<1>1. RingTyped
  BY DEF RingTyped, NoCache, ValidStreams
<1>2. StreamTyped
  <2>1. bad \in BOOLEAN
    OBVIOUS
  <2> QED BY <1>1, <2>1 DEF StreamTyped, ZType, NoCall, NoZ, Who
<1>3. PlacesTyped /\ Flow
  BY DEF PlacesTyped, Flow
<1>4. Reading
  BY NoBytes DEF Reading, NoCall
<1>5. Base!BInit /\ Unzipped!BInit
  BY DEF Base!BInit, Unzipped!BInit
<1> QED BY <1>2, <1>3, <1>4, <1>5 DEF StreamInv

(* The ring stays a ring whatever the transfer writes.                     *)
LEMMA RingWritten ==
  ASSUME ValidStreams, NEW c, NEW p \in Nat, NEW k \in Nat, Transfer(p, c, k),
         DOMAIN c = 0..(BLKS - 1), \A b \in 0..(BLKS - 1) : c[b].bytes \in Int
  PROVE  RingTyped' /\ curl_pos' \in Nat
<1>1. (p + k) % BLK \in Int /\ BLK \in Int
  BY DEF ValidStreams
<1>2. DOMAIN Written(c, p, k) = 0..(BLKS - 1)
  BY DEF Written
<1>3. \A b \in 0..(BLKS - 1) : Written(c, p, k)[b].bytes \in Int
  BY <1>1 DEF Written
<1> QED BY <1>2, <1>3 DEF Transfer, RingTyped

-----------------------------------------------------------------------------
(* Reads of the base.                                                      *)
LEMMA RestIs == ASSUME ValidStreams, StreamInv, vfsPc # "idle", NEW p \in Nat PROVE Rest(p) \in Nat
BY DEF ValidStreams, StreamInv, StreamTyped, Rest

(* A read of the base that gives the next k bytes, or fails.               *)
LEMMA AnswerStep ==
  ASSUME ValidStreams, StreamInv, vfsPc = "base", NEW k \in 0..call.want,
         given' = Bytes(pos, k), pos' \in Nat, pos' >= pos, k # 0 => pos' = pos + k,
         vfsPc' = call.who, call' = NoCall, call.who # "is" => read' = read,
         RingTyped', bad' \in BOOLEAN,
         UNCHANGED <<src, curl_pos, length, z, stage, lvl, want, buf, mb>>
  PROVE  StreamInv' /\ Base!BNext /\ UNCHANGED Unzipped!bvars
<1>1. k \in Nat /\ pos \in Nat /\ call.want \in Nat
  BY DEF StreamInv, StreamTyped
<1>2. given' \in Seq(Nat) /\ Len(given') = k
  BY <1>1, BytesAre
<1>4. call.who \in IF lvl = 1 THEN {"fill", "trailer"} ELSE {"is", "gzhead"}
  BY DEF StreamInv, PlacesTyped
<1>5. StreamTyped'
  BY <1>2, <1>4, EmptySeq DEF StreamInv, StreamTyped, NoCall, Who, ValidStreams
<1>6. PlacesTyped'
  BY <1>4 DEF StreamInv, PlacesTyped, StreamTyped, Inflating
<1>7. Reading'
  <2>1. call'.got = <<>> /\ Bytes(pos', 0) = <<>> /\ Len(call'.got) = 0
    BY NoBytes, EmptySeq DEF NoCall
  <2>2. vfsPc' # "base"
    BY <1>4
  <2>3. vfsPc' = "trailer" => Len(given') <= z'.tail
    BY <1>1, <1>2 DEF StreamInv, Reading
  <2> QED BY <2>1, <2>2, <2>3 DEF Reading
<1>8. Flow'
  <2> SUFFICES ASSUME lvl = 1 PROVE Flow'
    BY DEF Flow
  <2>1. vfsPc' \in {"fill", "trailer"}
    BY <1>4
  <2>2. InOrder /\ z.out = <<>>
    BY DEF StreamInv, Flow, Inflating
  <2>3. InOrder'
    BY <2>2 DEF InOrder, Made, Packed
  <2> QED BY <2>1, <2>2, <2>3 DEF Flow, Inflating
<1>9. Base!BNext
  <2>1. CASE k = 0
    <3>1. given' = <<>>
      BY <2>1, <1>1, NoBytes
    <3> QED BY <3>1 DEF Base!BNext, Base!Break
  <2>2. CASE k # 0
    BY <1>2, <2>2 DEF Base!BNext, Base!Give, Base!Bytes, Bytes
  <2> QED BY <2>1, <2>2
<1>10. UNCHANGED Unzipped!bvars
  <2>1. lvl = 1 => read' = read
    BY <1>4
  <2> QED BY <2>1, SameUnzipped
<1> QED BY <1>5, <1>6, <1>7, <1>8, <1>9, <1>10 DEF StreamInv

LEMMA BaseReadStep ==
  ASSUME ValidStreams, StreamInv, BaseRead
  PROVE  StreamInv' /\ Base!BNext /\ UNCHANGED Unzipped!bvars
<1>1. vfsPc = "base" /\ src.base # "curl"
      /\ UNCHANGED <<src, curl_pos, length, z, stage, lvl, want, buf, mb, cache, bad>>
  BY DEF BaseRead
<1>2. PICK k \in Counts(call.want) :
        Answer(Bytes(pos, k), k = -1) /\ pos' = IF k = -1 THEN pos ELSE pos + k
  BY DEF BaseRead
<1>3. pos \in Nat /\ call.want \in Nat /\ Rest(pos) \in Nat
  BY <1>1, RestIs DEF StreamInv, StreamTyped
<1>4. k \in -1..call.want
  <2>1. src.base \in {"mem", "fd", "file"}
    BY <1>1 DEF StreamInv, StreamTyped, ValidStreams
  <2> QED BY <1>2, <1>3, <2>1 DEF Counts, MemCounts, FileCounts, FdCounts, Lesser
<1>5. RingTyped' /\ bad' \in BOOLEAN
  BY <1>1 DEF StreamInv, StreamTyped, RingTyped
<1>6. /\ vfsPc' = call.who /\ call' = NoCall /\ (call.who # "is" => read' = read)
      /\ given' = IF k = -1 THEN <<>> ELSE Bytes(pos, k)
  BY <1>2 DEF Answer
<1> DEFINE j == IF k = -1 THEN 0 ELSE k
<1>7. /\ j \in 0..call.want /\ given' = Bytes(pos, j)
      /\ pos' \in Nat /\ pos' >= pos /\ (j # 0 => pos' = pos + j)
  BY <1>2, <1>3, <1>4, <1>6, NoBytes
<1> HIDE DEF j
<1> QED BY <1>1, <1>5, <1>6, <1>7, AnswerStep

-----------------------------------------------------------------------------
(* Reads of the ring.                                                      *)
LEMMA CurlCopyStep ==
  ASSUME ValidStreams, StreamInv, CurlCopy
  PROVE  StreamInv' /\ UNCHANGED Base!bvars /\ UNCHANGED Unzipped!bvars
<1> DEFINE g == Len(call.got)
           m == Block.bytes - Off
           k == Lesser(m, call.want - g)
<1>1. /\ vfsPc = "base" /\ g < call.want /\ Ready > 0
      /\ call' = [call EXCEPT !.got = @ \o Bytes(Block.top + Off, Ready)]
      /\ UNCHANGED <<baseVars, given, fail, z, vfsPc, loadVars>>
  BY DEF CurlCopy
<1>2. Here /\ Ready = k
  BY <1>1 DEF Ready
<1>3. pos \in Nat /\ g \in Nat /\ call.want \in Nat /\ At = pos + g
  BY LenProperties DEF StreamInv, StreamTyped, At
<1>4. Off \in Int /\ Block.bytes \in Int
  <2>1. BLK \in Nat \ {0} /\ BLKS \in Nat \ {0} /\ At \in Nat
    BY <1>3 DEF ValidStreams
  <2>2. At % BLK \in Int /\ At \div BLK \in Int
    BY <2>1
  <2>3. (At \div BLK) % BLKS \in 0..(BLKS - 1)
    BY <2>1, <2>2
  <2> QED BY <2>2, <2>3 DEF Off, Block, StreamInv, StreamTyped, RingTyped
<1>5. Block.top + Off = pos + g
  BY <1>2, <1>3, <1>4 DEF Here
<1>6. k \in Nat /\ g + k <= call.want
  <2>1. m \in Int /\ call.want - g \in Int
    BY <1>3, <1>4
  <2>2. k \in Int /\ k <= call.want - g
    BY <2>1, LesserIs
  <2>3. k > 0
    BY <1>1, <1>2
  <2> HIDE DEF k
  <2> QED BY <1>3, <2>2, <2>3
<1> HIDE DEF m, k
<1>7. call'.got = Bytes(pos, g + k) /\ call'.who = call.who /\ call'.want = call.want
      /\ call'.left = call.left
  <2>1. call'.got = call.got \o Bytes(pos + g, k)
    BY <1>1, <1>2, <1>5 DEF StreamInv, StreamTyped
  <2>2. call.got = Bytes(pos, g)
    BY DEF StreamInv, Reading
  <2>3. Bytes(pos, g) \o Bytes(pos + g, k) = Bytes(pos, g + k)
    BY <1>3, <1>6, BytesJoin
  <2> QED BY <1>1, <2>1, <2>2, <2>3 DEF StreamInv, StreamTyped
<1>8. call'.got \in Seq(Nat) /\ Len(call'.got) = g + k
  <2>1. g + k \in Nat
    BY <1>3, <1>6
  <2> HIDE DEF g
  <2>2. Bytes(pos, g + k) \in Seq(Nat) /\ Len(Bytes(pos, g + k)) = g + k
    BY <1>3, <2>1, BytesAre
  <2> QED BY <1>7, <2>2
<1>9. StreamTyped'
  <2>1. call' \in [who : Who, want : Nat, got : Seq(Nat), left : Int]
    BY <1>1, <1>8 DEF StreamInv, StreamTyped
  <2> QED BY <1>1, <2>1 DEF StreamInv, StreamTyped, RingTyped, baseVars, loadVars
<1>10. PlacesTyped' /\ Reading'
  BY <1>1, <1>6, <1>7, <1>8 DEF StreamInv, PlacesTyped, Reading, baseVars, loadVars, Inflating
<1>11. Flow'
  BY <1>1 DEF StreamInv, Flow, InOrder, Made, Packed, baseVars, loadVars
<1>12. UNCHANGED Base!bvars /\ UNCHANGED Unzipped!bvars
  BY <1>1, SameBase, SameUnzipped DEF baseVars, loadVars
<1> QED BY <1>9, <1>10, <1>11, <1>12 DEF StreamInv

(* A read of the ring ends with what it has, or fails.                     *)
LEMMA GotAnswers ==
  ASSUME ValidStreams, StreamInv, vfsPc = "base", given' \in {call.got, <<>>},
         vfsPc' = call.who, call' = NoCall, call.who # "is" => read' = read,
         pos' = At, bad' \in BOOLEAN,
         UNCHANGED <<src, curl_pos, length, cache, z, stage, lvl, want, buf, mb>>
  PROVE  StreamInv' /\ Base!BNext /\ UNCHANGED Unzipped!bvars
<1> DEFINE g == Len(call.got)
<1>1. /\ pos \in Nat /\ g \in Nat /\ call.want \in Nat /\ At = pos + g
      /\ g <= call.want /\ call.got = Bytes(pos, g)
  BY LenProperties DEF StreamInv, StreamTyped, At, Reading
<1> HIDE DEF g
<1>2. \E k \in 0..call.want : given' = Bytes(pos, k) /\ (k # 0 => pos' = pos + k)
  <2>1. CASE given' = call.got
    BY <1>1, <2>1
  <2>2. CASE given' = <<>>
    <3>1. 0 \in 0..call.want /\ given' = Bytes(pos, 0)
      BY <1>1, <2>2, NoBytes
    <3> QED BY <3>1
  <2> QED BY <2>1, <2>2
<1>3. pos' \in Nat /\ pos' >= pos
  BY <1>1
<1>4. RingTyped'
  BY DEF StreamInv, StreamTyped, RingTyped
<1> QED BY <1>2, <1>3, <1>4, AnswerStep

LEMMA CurlReturnsStep ==
  ASSUME ValidStreams, StreamInv, CurlReturns
  PROVE  StreamInv' /\ Base!BNext /\ UNCHANGED Unzipped!bvars
<1>1. /\ vfsPc = "base" /\ Answer(call.got, bad) /\ pos' = At
      /\ UNCHANGED <<src, curl_pos, length, cache, bad, z, stage, lvl, want, buf, mb>>
  BY DEF CurlReturns
<1>2. /\ vfsPc' = call.who /\ call' = NoCall /\ (call.who # "is" => read' = read)
      /\ given' \in {call.got, <<>>}
  BY <1>1 DEF Answer
<1>3. bad' \in BOOLEAN
  BY <1>1 DEF StreamInv, StreamTyped
<1> QED BY <1>1, <1>2, <1>3, GotAnswers

LEMMA CurlPerformStep ==
  ASSUME ValidStreams, StreamInv, CurlPerform
  PROVE  StreamInv' /\ [Base!BNext]_(Base!bvars) /\ UNCHANGED Unzipped!bvars
<1>0. vfsPc = "base" /\ UNCHANGED <<src, length, z, stage, lvl, want, buf, mb>>
  BY DEF CurlPerform
<1>1. CASE \E k \in 0..Rest(curl_pos) :
             /\ Transfer(curl_pos, cache, k)
             /\ call' = [call EXCEPT !.left = IF k = 0 THEN @ - 1 ELSE TRIES]
             /\ bad' \in IF k = 0 THEN {FALSE} ELSE BOOLEAN
             /\ UNCHANGED <<pos, given, fail, vfsPc, read, short>>
  <2>1. PICK k \in 0..Rest(curl_pos) :
             /\ Transfer(curl_pos, cache, k)
             /\ call' = [call EXCEPT !.left = IF k = 0 THEN @ - 1 ELSE TRIES]
             /\ bad' \in IF k = 0 THEN {FALSE} ELSE BOOLEAN
             /\ UNCHANGED <<pos, given, fail, vfsPc, read, short>>
    BY <1>1
  <2>2. curl_pos \in Nat /\ k \in Nat
    BY <1>0, RestIs DEF StreamInv, StreamTyped
  <2>3. RingTyped' /\ curl_pos' \in Nat
    BY <2>1, <2>2, RingWritten DEF StreamInv, StreamTyped, RingTyped
  <2>4. /\ call' \in [who : Who, want : Nat, got : Seq(Nat), left : Int]
        /\ call'.who = call.who /\ call'.want = call.want /\ call'.got = call.got
    <3>1. call' = [call EXCEPT !.left = IF k = 0 THEN @ - 1 ELSE TRIES]
      BY <2>1
    <3> DEFINE left == IF k = 0 THEN call.left - 1 ELSE TRIES
    <3>2. call \in [who : Who, want : Nat, got : Seq(Nat), left : Int]
      BY DEF StreamInv, StreamTyped
    <3>3. call.left \in Int
      BY <3>2
    <3>4. TRIES \in Int
      BY DEF ValidStreams
    <3>5. left \in Int
      BY <3>3, <3>4
    <3>6. call' = [call EXCEPT !.left = left]
      BY <3>1
    <3> HIDE DEF left
    <3> QED BY <3>2, <3>5, <3>6
  <2>5. bad' \in BOOLEAN
    <3>1. CASE k = 0
      <4>1. bad' \in {FALSE}
        BY <2>1, <3>1
      <4> QED BY <4>1
    <3>2. CASE k # 0
      <4>1. bad' \in BOOLEAN
        BY <2>1, <3>2, Zenon
      <4> QED BY <4>1
    <3> QED BY <3>1, <3>2
  <2>6. StreamTyped'
    BY <1>0, <2>1, <2>3, <2>4, <2>5 DEF StreamInv, StreamTyped
  <2>7. PlacesTyped' /\ Reading'
    BY <1>0, <2>1, <2>4 DEF StreamInv, PlacesTyped, Reading, Inflating
  <2>8. Flow'
    BY <1>0, <2>1 DEF StreamInv, Flow, InOrder, Made, Packed
  <2>9. UNCHANGED Base!bvars /\ UNCHANGED Unzipped!bvars
    BY <1>0, <2>1, SameBase, SameUnzipped
  <2> QED BY <2>6, <2>7, <2>8, <2>9 DEF StreamInv
<1>2. CASE \E b \in BOOLEAN :
             /\ bad' = b /\ Answer(call.got, b) /\ pos' = At
             /\ UNCHANGED <<curl_pos, cache>>
  <2>1. /\ vfsPc' = call.who /\ call' = NoCall /\ (call.who # "is" => read' = read)
        /\ given' \in {call.got, <<>>} /\ pos' = At /\ UNCHANGED <<curl_pos, cache>>
    BY <1>2 DEF Answer
  <2>2. bad' \in BOOLEAN
    BY <1>2
  <2> QED BY <1>0, <2>1, <2>2, GotAnswers
<1> QED BY <1>1, <1>2 DEF CurlPerform
-----------------------------------------------------------------------------
(* The steps of the gzip stream between two reads of its base.             *)
Between == {"z", "inflate", "fill", "end", "tail", "trailer"}

LEMMA Unpacking ==
  ASSUME ValidStreams, StreamInv, vfsPc \in Between
  PROVE  /\ lvl = 1 /\ src.fmt = "gz" /\ src \in Sources /\ call.got = <<>>
         /\ InOrder /\ (vfsPc = "z" => z.acc = <<>>) /\ (vfsPc # "z" => z.out = <<>>)
         /\ Packed \in Nat
<1>1. lvl = 1 /\ src.fmt = "gz" /\ src \in Sources /\ call.got = <<>>
  BY DEF StreamInv, StreamTyped, PlacesTyped, Reading, Between
<1>2. InOrder /\ (vfsPc = "z" => z.acc = <<>>) /\ (vfsPc # "z" => z.out = <<>>)
  BY <1>1 DEF StreamInv, Flow, Between, Inflating
<1>3. Packed \in Nat
  BY <1>1 DEF ValidStreams, Packed
<1> QED BY <1>1, <1>2, <1>3

(* It goes on with the same bytes in its hands.                            *)
LEMMA GotoStep ==
  ASSUME ValidStreams, StreamInv, vfsPc \in Between, UNCHANGED restOfZ,
         vfsPc' \in Between \ {"trailer"}, call' = call, read' = read,
         z' \in ZType, z'.sent = z.sent, InOrder',
         vfsPc' = "z" => z'.acc = <<>>, vfsPc' # "z" => z'.out = <<>>
  PROVE  StreamInv' /\ UNCHANGED Base!bvars /\ UNCHANGED Unzipped!bvars
<1> USE DEF restOfZ, baseVars
<1>1. lvl = 1 /\ call.got = <<>> /\ src.fmt = "gz"
  BY Unpacking
<1>2. StreamTyped'
  BY DEF StreamInv, StreamTyped, Between, RingTyped
<1>3. PlacesTyped' /\ Flow'
  BY <1>1 DEF PlacesTyped, Flow, Between, Inflating
<1>4. Reading'
  BY <1>1 DEF StreamInv, Reading, Between
<1> QED BY <1>2, <1>3, <1>4, SameBase, SameUnzipped DEF StreamInv

(* It asks its base for more.                                              *)
LEMMA AskStep ==
  ASSUME ValidStreams, StreamInv, vfsPc \in Between, z.out = <<>>, UNCHANGED restOfZ,
         NEW who \in {"fill", "trailer"}, NEW n \in Nat, Ask(who, n, z),
         who = "trailer" => n = z.tail
  PROVE  StreamInv' /\ UNCHANGED Base!bvars /\ UNCHANGED Unzipped!bvars
<1> USE DEF restOfZ, baseVars, Ask, Call
<1>1. lvl = 1 /\ src.fmt = "gz" /\ InOrder
  BY Unpacking
<1>2. call' \in [who : Who, want : Nat, got : Seq(Nat), left : Int]
  BY EmptySeq DEF Who, ValidStreams
<1>3. StreamTyped'
  BY <1>2 DEF StreamInv, StreamTyped, Between, RingTyped
<1>4. PlacesTyped' /\ Flow'
  BY <1>1 DEF PlacesTyped, Flow, Inflating, InOrder, Made, Packed
<1>5. Reading'
  <2>1. call'.got = <<>> /\ Len(call'.got) = 0 /\ pos' \in Nat /\ call'.want = n
    BY EmptySeq DEF StreamInv, StreamTyped
  <2>2. Bytes(pos', 0) = <<>>
    BY <2>1, NoBytes
  <2> QED BY <2>1, <2>2 DEF Reading
<1> QED BY <1>3, <1>4, <1>5, SameBase, SameUnzipped DEF StreamInv

(* A read that is over leaves what it has inflated for the next.           *)
Over(s, n, e) == [s EXCEPT !.got = e, !.acc = e, !.sent = n]
LEMMA OverIs ==
  ASSUME NEW s \in ZType, NEW n \in Nat, NEW e \in Seq(Nat)
  PROVE  /\ Over(s, n, e) \in ZType /\ Over(s, n, e).got = e /\ Over(s, n, e).acc = e
         /\ Over(s, n, e).sent = n /\ Over(s, n, e).fed = s.fed /\ Over(s, n, e).out = s.out
BY DEF ZType, Over

IsOver(o, s, n) ==
  /\ o \in ZType /\ o.got = <<>> /\ o.acc = <<>>
  /\ o.sent = n /\ o.fed = s.fed /\ o.out = s.out

LEMMA OverEmpty ==
  ASSUME NEW s \in ZType, NEW n \in Nat, NEW o, o = Over(s, n, <<>>)
  PROVE  IsOver(o, s, n)
<1> DEFINE e == <<>>
<1>1. e \in Seq(Nat)
  BY EmptySeq
<1>2. o = Over(s, n, e)
  OBVIOUS
<1> HIDE DEF e
<1>3. /\ o \in ZType /\ o.got = e /\ o.acc = e
      /\ o.sent = n /\ o.fed = s.fed /\ o.out = s.out
  BY <1>1, <1>2, OverIs
<1> QED BY <1>3 DEF IsOver, e

(* A read through it gives what it got of the bytes to come.               *)
LEMMA GivesGot ==
  ASSUME ValidStreams, StreamInv, vfsPc \in Between, z.acc = <<>>, UNCHANGED restOfZ,
         read' = z.got, vfsPc' = "is", call' = call,
         z' = Over(z, z.sent + Len(z.got), <<>>)
  PROVE  StreamInv' /\ UNCHANGED Base!bvars /\ Unzipped!BNext
<1> USE DEF restOfZ, baseVars
<1> DEFINE a == Len(z.got)
           b == Len(z.out)
<1>1. lvl = 1 /\ src.fmt = "gz" /\ InOrder /\ call.got = <<>> /\ Packed \in Nat
  BY Unpacking
<1>2. /\ a \in Nat /\ b \in Nat /\ z.sent \in Nat /\ z.fed \in Nat /\ z' \in ZType
      /\ z'.got = <<>> /\ z'.acc = <<>> /\ z'.sent = z.sent + a /\ z'.fed = z.fed
      /\ z'.out = z.out /\ Len(<<>>) = 0
  <2>1. z \in ZType
    BY DEF StreamInv, StreamTyped
  <2>2. a \in Nat /\ b \in Nat /\ z.sent \in Nat /\ z.fed \in Nat
    BY <2>1, LenProperties DEF ZType
  <2> HIDE DEF a, b
  <2>3. z' = Over(z, z.sent + a, <<>>)
    BY DEF a
  <2>4. z.sent + a \in Nat
    BY <2>2
  <2>5. /\ z' \in ZType /\ z'.got = <<>> /\ z'.acc = <<>>
        /\ z'.sent = z.sent + a /\ z'.fed = z.fed /\ z'.out = z.out
    <3> DEFINE m == z.sent + a
    <3>1. z' = Over(z, m, <<>>) /\ m \in Nat
      BY <2>3, <2>4
    <3> HIDE DEF m
    <3>2. /\ z' \in ZType /\ z'.got = <<>> /\ z'.acc = <<>>
          /\ z'.sent = m /\ z'.fed = z.fed /\ z'.out = z.out
      <4>1. IsOver(z', z, m)
        BY <2>1, <3>1, OverEmpty, Zenon
      <4> QED BY <4>1, Zenon DEF IsOver
    <3> QED BY <3>2 DEF m
  <2> QED BY <2>2, <2>5, EmptySeq
<1>3. /\ z.got = Bytes(z.sent, a) /\ z.out = Bytes(z.sent + a, b) /\ z.fed * RATIO = z.sent + a + b
      /\ z.fed <= Packed
  BY <1>1, <1>2 DEF InOrder, Made
<1> HIDE DEF a, b
<1>4. StreamTyped'
  BY <1>2 DEF StreamInv, StreamTyped, Between, RingTyped
<1>5. PlacesTyped' /\ Reading'
  BY <1>1 DEF PlacesTyped, StreamInv, Reading, Between
<1>6. InOrder'
  <2>1. Bytes(z.sent + a, 0) = <<>> /\ Bytes(z.sent + a + b, 0) = <<>>
    <3>1. z.sent + a \in Nat /\ z.sent + a + b \in Nat
      BY <1>2
    <3> QED BY <3>1, NoBytes
  <2>2. z'.sent + Len(z'.got) = z.sent + a /\ Made' = z.sent + a + b
    BY <1>2 DEF Made, b
  <2>3. Len(z'.out) = b
    BY <1>2 DEF b
  <2>4. Packed' = Packed /\ want' \in Nat /\ OBUF \in Nat
    BY DEF Packed, StreamInv, StreamTyped, ValidStreams
  <2>5. Len(z'.got) = 0 /\ Len(z'.acc) = 0 /\ z'.sent = z.sent + a
    BY <1>2
  <2>6. z'.got = Bytes(z'.sent, Len(z'.got))
    BY <1>2, <2>1, <2>5, Zenon
  <2>7. z'.out = Bytes(z'.sent + Len(z'.got), Len(z'.out))
    BY <1>2, <1>3, <2>2, <2>3, Zenon
  <2>8. z'.acc = Bytes(Made', Len(z'.acc))
    BY <1>2, <2>1, <2>2, <2>5, Zenon
  <2>9. z'.fed * RATIO = Made' + Len(z'.acc)
    <3> DEFINE p == z.sent + a + b
    <3>1. p \in Int /\ Made' = p /\ z'.fed * RATIO = p /\ Len(z'.acc) = 0
      BY <1>2, <1>3, <2>2, <2>5
    <3> HIDE DEF p
    <3>2. p = p + 0
      BY <3>1
    <3> QED BY <3>1, <3>2, Zenon
  <2>10. z'.fed <= Packed' /\ Len(z'.acc) <= OBUF' /\ Len(z'.got) <= want'
    BY <1>2, <1>3, <2>4, <2>5
  <2> QED BY <2>6, <2>7, <2>8, <2>9, <2>10 DEF InOrder
<1>7. Flow'
  BY <1>2, <1>6 DEF Flow, Inflating
<1>8. Unzipped!BNext
  <2>1. read' = Bytes(z.sent, Len(read')) /\ z'.sent = z.sent + Len(read') /\ lvl' = 1
    BY <1>1, <1>2, <1>3 DEF a
  <2> QED BY <1>1, <2>1 DEF Unzipped!BNext, Unzipped!Give, Unzipped!Bytes, Bytes
<1> QED BY <1>4, <1>5, <1>7, <1>8, SameBase DEF StreamInv

(* One that fails gives nothing, and the loader does not read again.       *)
LEMMA GivesNone ==
  ASSUME ValidStreams, StreamInv, vfsPc \in Between, UNCHANGED restOfZ,
         read' = <<>>, short', vfsPc' = "is", call' = call,
         z' = Over(z, z.sent, <<>>)
  PROVE  StreamInv' /\ UNCHANGED Base!bvars /\ Unzipped!BNext
<1> USE DEF restOfZ, baseVars
<1>1. lvl = 1 /\ src.fmt = "gz" /\ call.got = <<>>
  BY Unpacking
<1>2. z'.sent = z.sent /\ z.sent \in Nat /\ z' \in ZType
  <2>1. z \in ZType /\ z.sent \in Nat
    BY DEF StreamInv, StreamTyped, ZType
  <2>2. z' = Over(z, z.sent, <<>>)
    OBVIOUS
  <2>3. z' \in ZType /\ z'.sent = z.sent
    <3>1. IsOver(z', z, z.sent)
      BY <2>1, <2>2, OverEmpty, Zenon
    <3> QED BY <3>1, Zenon DEF IsOver
  <2> QED BY <2>1, <2>3
<1>3. StreamTyped'
  BY <1>2 DEF StreamInv, StreamTyped, Between, RingTyped
<1>4. PlacesTyped' /\ Reading' /\ Flow'
  BY <1>1 DEF PlacesTyped, StreamInv, Reading, Between, Flow
<1>5. Unzipped!BNext
  BY <1>1, <1>2 DEF Unzipped!BNext, Unzipped!Break
<1> QED BY <1>3, <1>4, <1>5, SameBase DEF StreamInv

-----------------------------------------------------------------------------
LEMMA ZReadStep ==
  ASSUME ValidStreams, StreamInv, ZRead
  PROVE  StreamInv' /\ UNCHANGED Base!bvars /\ [Unzipped!BNext]_(Unzipped!bvars)
<1> DEFINE a == Len(z.got)
           b == Len(z.out)
           n == Lesser(b, want - a)
<1>1. /\ vfsPc = "z" /\ UNCHANGED restOfZ
      /\ IF a = want THEN Gives(z.got, FALSE)
         ELSE IF n = 0 THEN ZGoto("inflate", z)
         ELSE ZGoto("z", [z EXCEPT !.got = @ \o SubSeq(z.out, 1, n),
                                  !.out = SubSeq(@, n + 1, Len(@))])
  BY DEF ZRead
<1>2. vfsPc \in Between /\ InOrder /\ z.acc = <<>>
  BY <1>1, Unpacking DEF Between
<1>3. /\ z \in ZType /\ want \in Nat /\ a \in Nat /\ b \in Nat /\ z.sent \in Nat
      /\ z.got = Bytes(z.sent, a) /\ z.out = Bytes(z.sent + a, b) /\ a <= want
      /\ z.got \in Seq(Nat) /\ z.out \in Seq(Nat)
  BY <1>2, LenProperties DEF StreamInv, StreamTyped, ZType, InOrder
<1>4. CASE a = want
  <2>1. /\ read' = z.got /\ vfsPc' = "is" /\ call' = call
        /\ z' = Over(z, z.sent + Len(z.got), <<>>)
    BY <1>1, <1>4 DEF Gives, Deliver, Over
  <2> QED BY <1>1, <1>2, <2>1, GivesGot
<1>5. CASE a # want /\ n = 0
  <2>1. vfsPc' = "inflate" /\ z' = z /\ call' = call /\ read' = read
    BY <1>1, <1>5 DEF ZGoto
  <2>2. b = 0
    <3> HIDE DEF a, b
    <3> QED BY <1>3, <1>5 DEF Lesser
  <2>3. z.out = <<>>
    BY <1>3, <2>2, EmptySeq
  <2>4. InOrder'
    BY <1>1, <1>2, <2>1 DEF InOrder, Made, Packed, restOfZ, baseVars
  <2> QED BY <1>1, <1>2, <1>3, <2>1, <2>3, <2>4, GotoStep DEF Between
<1>6. CASE a # want /\ n # 0
  <2>1. /\ vfsPc' = "z" /\ call' = call /\ read' = read
        /\ z' = [z EXCEPT !.got = @ \o SubSeq(z.out, 1, n),
                          !.out = SubSeq(@, n + 1, b)]
    BY <1>1, <1>6 DEF ZGoto
  <2>2. n \in 0..b /\ a + n <= want
    <3> HIDE DEF a, b
    <3> QED BY <1>3 DEF Lesser
  <2> HIDE DEF n
  <2> DEFINE g == z.got \o SubSeq(z.out, 1, n)
             o == SubSeq(z.out, n + 1, b)
  <2>3. g = Bytes(z.sent, a + n) /\ o = Bytes(z.sent + a + n, b - n)
    <3> DEFINE p == z.sent
               x == z.got
               y == z.out
    <3> HIDE DEF a, b
    <3>1. /\ p \in Nat /\ a \in Nat /\ b \in Nat /\ n \in 0..b
          /\ x = Bytes(p, a) /\ y = Bytes(p + a, b)
      BY <1>3, <2>2
    <3> HIDE DEF p, x, y
    <3>2. /\ Bytes(p, a) \o SubSeq(Bytes(p + a, b), 1, n) = Bytes(p, a + n)
          /\ SubSeq(Bytes(p + a, b), n + 1, b) = Bytes(p + a + n, b - n)
      BY <3>1, BytesMove
    <3>3. x \o SubSeq(y, 1, n) = Bytes(p, a + n) /\ SubSeq(y, n + 1, b) = Bytes(p + a + n, b - n)
      BY <3>1, <3>2
    <3> QED BY <3>3 DEF p, x, y
  <2>4. g \in Seq(Nat) /\ o \in Seq(Nat) /\ Len(g) = a + n /\ Len(o) = b - n
    <3> HIDE DEF a, b, g, o
    <3>1. a + n \in Nat /\ b - n \in Nat /\ z.sent + a + n \in Nat
      <4> DEFINE p == z.sent
      <4>1. p \in Nat /\ a \in Nat /\ b \in Nat /\ n \in 0..b
        BY <1>3, <2>2
      <4> HIDE DEF p
      <4>2. a + n \in Nat /\ b - n \in Nat /\ p + a + n \in Nat
        BY <4>1
      <4> QED BY <4>2 DEF p
    <3> QED BY <1>3, <2>3, <3>1, BytesAre
  <2>5. z' = [z EXCEPT !.got = g, !.out = o]
    BY <2>1
  <2> HIDE DEF g, o
  <2>6. /\ z' \in ZType /\ z'.got = g /\ z'.out = o
        /\ z'.sent = z.sent /\ z'.acc = z.acc /\ z'.fed = z.fed
    BY <1>3, <2>4, <2>5 DEF ZType
  <2>7. InOrder'
    <3>1. /\ z.fed * RATIO = z.sent + a + b + Len(z.acc) /\ z.acc = Bytes(z.sent + a + b, Len(z.acc))
          /\ z.fed <= Packed /\ Len(z.acc) <= OBUF
      BY <1>2 DEF InOrder, Made
    <3>2. Packed' = Packed /\ want' = want
      BY <1>1 DEF restOfZ, baseVars, Packed
    <3>3. Len(z'.got) = a + n /\ Len(z'.out) = b - n
      BY <2>4, <2>6
    <3> HIDE DEF a, b
    <3>4. Made' = z.sent + a + b
      BY <1>3, <2>2, <2>6, <3>3 DEF Made
    <3>5. z'.got = Bytes(z.sent, a + n) /\ z'.out = Bytes(z.sent + (a + n), b - n)
      <4>1. z.sent + a + n = z.sent + (a + n)
        BY <1>3, <2>2
      <4> QED BY <2>3, <2>6, <4>1
    <3> QED BY <2>2, <2>6, <3>1, <3>2, <3>3, <3>4, <3>5 DEF InOrder
  <2> QED BY <1>1, <1>2, <2>1, <2>6, <2>7, GotoStep DEF Between
<1> QED BY <1>4, <1>5, <1>6

(* The end of isf_inflate_buffer().                                        *)
LEMMA InflatedStep ==
  ASSUME ValidStreams, StreamInv, vfsPc \in Between \ {"z"}, UNCHANGED restOfZ, Inflated
  PROVE  StreamInv' /\ UNCHANGED Base!bvars /\ [Unzipped!BNext]_(Unzipped!bvars)
<1> DEFINE a == Len(z.got)
           c == Len(z.acc)
<1>1. InOrder /\ z.out = <<>> /\ Len(z.out) = 0
  BY Unpacking, EmptySeq
<1>2. /\ z \in ZType /\ want \in Nat /\ a \in Nat /\ c \in Nat /\ z.sent \in Nat
      /\ z.acc \in Seq(Nat)
  BY LenProperties DEF StreamInv, StreamTyped, ZType
<1>3. CASE z.acc = <<>>
  <2>1. /\ read' = z.got /\ vfsPc' = "is" /\ call' = call
        /\ z' = Over(z, z.sent + Len(z.got), <<>>)
    BY <1>3 DEF Inflated, Gives, Deliver, Over
  <2> QED BY <1>3, <2>1, GivesGot
<1>4. CASE z.acc # <<>>
  <2> DEFINE e == <<>>
             o == z.acc
  <2>1. /\ vfsPc' = "z" /\ call' = call /\ read' = read
        /\ z' = [z EXCEPT !.out = o, !.acc = e]
    BY <1>4 DEF Inflated, ZGoto
  <2>2. e \in Seq(Nat) /\ Len(e) = 0
    BY EmptySeq
  <2> HIDE DEF e, o
  <2>3. /\ z' \in ZType /\ z'.got = z.got /\ z'.out = o /\ z'.acc = e
        /\ z'.sent = z.sent /\ z'.fed = z.fed
    BY <1>2, <2>1, <2>2 DEF ZType, o
  <2>4. InOrder'
    <3>1. /\ z.got = Bytes(z.sent, a) /\ z.fed * RATIO = z.sent + a + c /\ o = Bytes(z.sent + a, c)
          /\ z.fed <= Packed /\ a <= want
      <4>1. Made = z.sent + a
        BY <1>1, <1>2 DEF Made
      <4> QED BY <1>1, <4>1 DEF InOrder, o
    <3>2. Packed' = Packed /\ want' = want /\ OBUF \in Nat
      BY DEF restOfZ, baseVars, Packed, ValidStreams
    <3>3. Len(z'.got) = a /\ Len(z'.out) = c /\ Len(z'.acc) = 0
      BY <2>2, <2>3 DEF o
    <3> HIDE DEF a, c
    <3>4. Made' = z.sent + a + c
      BY <2>3, <3>3 DEF Made
    <3>5. z'.acc = Bytes(z.sent + a + c, 0)
      <4>1. z.sent + a + c \in Nat
        BY <1>2
      <4> QED BY <2>3, <4>1, NoBytes DEF e
    <3> QED BY <1>2, <2>3, <3>1, <3>2, <3>3, <3>4, <3>5 DEF InOrder
  <2>5. z'.acc = <<>>
    BY <2>3 DEF e
  <2> QED BY <2>1, <2>3, <2>4, <2>5, GotoStep DEF Between
<1> QED BY <1>3, <1>4

(* What n bytes of compressed data stand for fits in what is left.         *)
LEMMA Stands ==
  ASSUME NEW r \in Nat \ {0}, NEW m \in Nat, NEW n \in Nat, n <= m \div r, NEW f \in Nat
  PROVE  n * r \in Nat /\ n * r <= m /\ (f + n) * r = f * r + n * r
<1>1. m \div r \in Nat /\ (m \div r) * r <= m
  OBVIOUS
<1>2. n * r <= (m \div r) * r
  BY <1>1
<1>3. n * r \in Nat /\ (f + n) * r = f * r + n * r
  OBVIOUS
<1> QED BY <1>1, <1>2, <1>3

(* inflate() makes the next bytes of what it is given.                     *)
LEMMA EatenStep ==
  ASSUME ValidStreams, StreamInv, vfsPc = "inflate", UNCHANGED restOfZ, NEW n \in Nat,
         n <= Packed - z.fed, n <= Len(z.in), n <= (OBUF - Len(z.acc)) \div RATIO,
         vfsPc' \in {"end", "inflate"}, call' = call, read' = read, z' = Eaten(n)
  PROVE  StreamInv' /\ UNCHANGED Base!bvars /\ UNCHANGED Unzipped!bvars
<1> DEFINE c == Len(z.acc)
           m == OBUF - c
           f == z.fed + n
           i == SubSeq(z.in, n + 1, Len(z.in))
           w == Bytes(z.fed * RATIO, n * RATIO)
           x == z.acc \o w
<1>1. vfsPc \in Between /\ InOrder /\ z.out = <<>>
  BY Unpacking DEF Between
<1>2. /\ z \in ZType /\ c \in Nat /\ z.fed \in Nat /\ z.acc \in Seq(Nat) /\ z.in \in Seq(Nat)
      /\ z.sent \in Nat /\ RATIO \in Nat \ {0} /\ OBUF \in Nat /\ c <= OBUF /\ m \in Nat
      /\ Made \in Nat /\ z.fed * RATIO = Made + c /\ z.acc = Bytes(Made, c)
      /\ z.got \in Seq(Nat) /\ z.out \in Seq(Nat)
  <2>1. /\ z \in ZType /\ c \in Nat /\ z.fed \in Nat /\ z.acc \in Seq(Nat) /\ z.in \in Seq(Nat)
        /\ z.sent \in Nat /\ z.got \in Seq(Nat) /\ z.out \in Seq(Nat)
    BY LenProperties DEF StreamInv, StreamTyped, ZType
  <2>2. RATIO \in Nat \ {0} /\ OBUF \in Nat
    BY DEF ValidStreams
  <2>3. Made \in Nat
    BY <2>1, LenProperties DEF Made
  <2>4. c <= OBUF /\ z.fed * RATIO = Made + c /\ z.acc = Bytes(Made, c)
    BY <1>1 DEF InOrder
  <2> HIDE DEF c
  <2> QED BY <2>1, <2>2, <2>3, <2>4
<1>3. n * RATIO \in Nat /\ n * RATIO <= m /\ f * RATIO = z.fed * RATIO + n * RATIO
  BY <1>2, Stands
<1>4. f \in Nat /\ i \in Seq(Nat)
  <2>1. i \in Seq(Nat)
    BY <1>2, RestOf
  <2>2. f \in Nat
    <3>1. z.fed \in Nat
      BY <1>2
    <3> QED BY <3>1
  <2> QED BY <2>1, <2>2
<1> DEFINE d == n * RATIO
<1> HIDE DEF c, m, d
<1>5. x = Bytes(Made, c + d) /\ x \in Seq(Nat) /\ Len(x) = c + d
  <2>1. d \in Nat /\ c + d \in Nat
    <3>1. d \in Nat
      BY <1>3 DEF d
    <3>2. c \in Nat
      BY <1>2
    <3> QED BY <3>1, <3>2
  <2>2. w = Bytes(Made + c, d)
    BY <1>2 DEF d
  <2>3. Bytes(Made, c) \o Bytes(Made + c, d) = Bytes(Made, c + d)
    <3> DEFINE p == Made
    <3>1. p \in Nat /\ c \in Nat /\ d \in Nat
      BY <1>2, <2>1
    <3> HIDE DEF p
    <3>2. Bytes(p, c) \o Bytes(p + c, d) = Bytes(p, c + d)
      BY <3>1, BytesJoin
    <3> QED BY <3>2 DEF p
  <2>4. x = Bytes(Made, c + d)
    BY <1>2, <2>2, <2>3
  <2> HIDE DEF x
  <2> QED BY <1>2, <2>1, <2>4, BytesAre
<1>6. z' = [z EXCEPT !.fed = f, !.in = i, !.acc = x]
  BY DEF Eaten
<1> HIDE DEF f, i, w, x
<1>7. /\ z' \in ZType /\ z'.fed = f /\ z'.acc = x /\ z'.sent = z.sent
      /\ z'.got = z.got /\ z'.out = z.out
  BY <1>2, <1>4, <1>5, <1>6 DEF ZType
<1>8. InOrder'
  <2>1. Packed' = Packed /\ want' = want
    BY DEF restOfZ, baseVars, Packed
  <2>2. Made' = Made
    BY <1>7 DEF Made
  <2>3. Len(z'.acc) = c + d /\ z'.acc = Bytes(Made, c + d)
    BY <1>5, <1>7
  <2>4. z'.fed * RATIO = Made + (c + d) /\ c + d <= OBUF
    <3>1. d \in Nat /\ d <= m /\ f * RATIO = z.fed * RATIO + d
      BY <1>3 DEF d
    <3> QED BY <1>2, <1>7, <3>1 DEF m
  <2>5. z'.fed <= Packed
    <3>1. Packed \in Nat
      BY <1>1, Unpacking
    <3> DEFINE p == Packed
               g == z.fed
    <3>2. p \in Nat /\ g \in Nat /\ n <= p - g
      BY <1>2, <3>1
    <3>3. z'.fed = g + n /\ Packed' = p
      BY <1>7, <2>1 DEF f
    <3> HIDE DEF p, g
    <3>4. g + n <= p
      BY <3>2
    <3> QED BY <3>3, <3>4, Zenon DEF p
  <2>6. z.got = Bytes(z.sent, Len(z.got)) /\ z.out = Bytes(z.sent + Len(z.got), Len(z.out))
        /\ Len(z.got) <= want
    BY <1>1 DEF InOrder
  <2> QED BY <1>7, <2>1, <2>2, <2>3, <2>4, <2>5, <2>6 DEF InOrder
<1> QED BY <1>1, <1>7, <1>8, GotoStep DEF Between

LEMMA InflateStep ==
  ASSUME ValidStreams, StreamInv, Inflate
  PROVE  StreamInv' /\ UNCHANGED Base!bvars /\ [Unzipped!BNext]_(Unzipped!bvars)
<1> DEFINE m == (OBUF - Len(z.acc)) \div RATIO
           k == Lesser(Len(z.in), m)
           n == Lesser(Packed - z.fed, k)
<1>1. /\ vfsPc = "inflate" /\ UNCHANGED restOfZ
      /\ IF Len(z.acc) = OBUF THEN Inflated
         ELSE IF z.in = <<>> THEN Ask("fill", IBUF, z)
         ELSE IF z.fed < Packed /\ z.in # Bytes(GZH + z.fed, Len(z.in)) THEN Gives(<<>>, TRUE)
         ELSE ZGoto(IF z.fed + n = Packed THEN "end" ELSE "inflate", Eaten(n))
  BY DEF Inflate
<1>2. vfsPc \in Between \ {"z"} /\ InOrder /\ z.out = <<>> /\ Packed \in Nat
  BY <1>1, Unpacking DEF Between
<1>3. CASE Inflated
  BY <1>1, <1>2, <1>3, InflatedStep
<1>4. CASE Ask("fill", IBUF, z)
  <2>1. IBUF \in Nat
    BY DEF ValidStreams
  <2> QED BY <1>1, <1>2, <1>4, <2>1, AskStep
<1>5. CASE Gives(<<>>, TRUE)
  <2>1. read' = <<>> /\ short' /\ vfsPc' = "is" /\ call' = call
    BY <1>5 DEF Gives, Deliver
  <2>2. z' = Over(z, z.sent, <<>>)
    <3>1. z.sent \in Nat
      BY DEF StreamInv, StreamTyped, ZType
    <3>2. z.sent + Len(<<>>) = z.sent
      BY <3>1, EmptySeq
    <3> QED BY <1>5, <3>2 DEF Gives, Over
  <2> QED BY <1>1, <1>2, <2>1, <2>2, GivesNone
<1>6. CASE ZGoto(IF z.fed + n = Packed THEN "end" ELSE "inflate", Eaten(n))
  <2>1. vfsPc' \in {"end", "inflate"} /\ call' = call /\ read' = read /\ z' = Eaten(n)
    BY <1>6 DEF ZGoto
  <2>2. n \in Nat /\ n <= Packed - z.fed /\ n <= Len(z.in) /\ n <= m
    <3>1. Len(z.in) \in Nat /\ Packed - z.fed \in Nat
      BY <1>2, LenProperties DEF StreamInv, StreamTyped, ZType, InOrder
    <3>2. m \in Nat
      <4>1. OBUF - Len(z.acc) \in Nat
        BY <1>2, LenProperties DEF StreamInv, StreamTyped, ZType, InOrder, ValidStreams
      <4>2. RATIO \in Nat \ {0}
        BY DEF ValidStreams
      <4> QED BY <4>1, <4>2
    <3> HIDE DEF m
    <3> QED BY <3>1, <3>2 DEF Lesser
  <2> HIDE DEF n
  <2> QED BY <1>1, <2>1, <2>2, EatenStep
<1> QED BY <1>1, <1>3, <1>4, <1>5, <1>6

(* What they do to the input and the trailer leaves the bytes alone.       *)
LEMMA InputStep ==
  ASSUME ValidStreams, StreamInv, vfsPc \in Between \ {"z"}, UNCHANGED restOfZ,
         NEW i \in Seq(Nat), NEW t \in Nat, z' = [z EXCEPT !.in = i, !.tail = t],
         vfsPc' \in {"inflate", "tail"}, call' = call, read' = read
  PROVE  StreamInv' /\ UNCHANGED Base!bvars /\ UNCHANGED Unzipped!bvars
<1>1. InOrder /\ z.out = <<>>
  BY Unpacking
<1>2. /\ z' \in ZType /\ z'.fed = z.fed /\ z'.acc = z.acc /\ z'.sent = z.sent
      /\ z'.got = z.got /\ z'.out = z.out
  BY DEF StreamInv, StreamTyped, ZType
<1>3. Packed' = Packed /\ want' = want /\ Made' = Made
  BY <1>2 DEF restOfZ, baseVars, Packed, Made
<1>4. InOrder'
  BY <1>1, <1>2, <1>3 DEF InOrder
<1> QED BY <1>1, <1>2, <1>4, GotoStep DEF Between

LEMMA FillStep ==
  ASSUME ValidStreams, StreamInv, Fill
  PROVE  StreamInv' /\ UNCHANGED Base!bvars /\ [Unzipped!BNext]_(Unzipped!bvars)
<1>1. /\ vfsPc = "fill" /\ UNCHANGED restOfZ
      /\ \/ Gives(<<>>, TRUE)
         \/ Inflated
         \/ ZGoto("inflate", [z EXCEPT !.in = given])
  BY DEF Fill
<1>2. vfsPc \in Between \ {"z"}
  BY <1>1 DEF Between
<1>3. CASE Inflated
  BY <1>1, <1>2, <1>3, InflatedStep
<1>4. CASE Gives(<<>>, TRUE)
  <2>1. read' = <<>> /\ short' /\ vfsPc' = "is" /\ call' = call
    BY <1>4 DEF Gives, Deliver
  <2>2. z' = Over(z, z.sent, <<>>)
    <3>1. z.sent \in Nat
      BY DEF StreamInv, StreamTyped, ZType
    <3>2. z.sent + Len(<<>>) = z.sent
      BY <3>1, EmptySeq
    <3> QED BY <1>4, <3>2 DEF Gives, Over
  <2> QED BY <1>1, <1>2, <2>1, <2>2, GivesNone
<1>5. CASE ZGoto("inflate", [z EXCEPT !.in = given])
  <2> DEFINE t == z.tail
  <2>1. given \in Seq(Nat) /\ t \in Nat /\ z \in ZType
    BY DEF StreamInv, StreamTyped, ZType
  <2>2. vfsPc' = "inflate" /\ call' = call /\ read' = read /\ z' = [z EXCEPT !.in = given]
    BY <1>5 DEF ZGoto
  <2>3. [z EXCEPT !.in = given] = [z EXCEPT !.in = given, !.tail = t]
    BY <2>1 DEF ZType
  <2> HIDE DEF t
  <2> QED BY <1>1, <1>2, <2>1, <2>2, <2>3, InputStep
<1> QED BY <1>1, <1>3, <1>4, <1>5

LEMMA DataEndStep ==
  ASSUME ValidStreams, StreamInv, DataEnd
  PROVE  StreamInv' /\ UNCHANGED Base!bvars /\ UNCHANGED Unzipped!bvars
<1> DEFINE n == Lesser(Len(z.in), GZT)
           i == SubSeq(z.in, n + 1, Len(z.in))
           t == GZT - n
<1>1. /\ vfsPc = "end" /\ UNCHANGED restOfZ
      /\ ZGoto("tail", [z EXCEPT !.in = i, !.tail = t])
  BY DEF DataEnd
<1>2. z.in \in Seq(Nat) /\ Len(z.in) \in Nat /\ GZT \in Nat
  BY LenProperties DEF StreamInv, StreamTyped, ZType, ValidStreams
<1>3. n \in Nat /\ t \in Nat
  BY <1>2 DEF Lesser
<1>4. i \in Seq(Nat)
  <2> HIDE DEF n
  <2> QED BY <1>2, <1>3, RestOf
<1>5. vfsPc' = "tail" /\ call' = call /\ read' = read /\ z' = [z EXCEPT !.in = i, !.tail = t]
  BY <1>1 DEF ZGoto
<1> HIDE DEF n, i, t
<1> QED BY <1>1, <1>3, <1>4, <1>5, InputStep DEF Between

LEMMA TailDueStep ==
  ASSUME ValidStreams, StreamInv, TailDue
  PROVE  StreamInv' /\ UNCHANGED Base!bvars /\ [Unzipped!BNext]_(Unzipped!bvars)
<1>1. vfsPc = "tail" /\ UNCHANGED restOfZ /\ (Inflated \/ Ask("trailer", z.tail, z))
  BY DEF TailDue
<1>2. vfsPc \in Between \ {"z"} /\ z.out = <<>> /\ z.tail \in Nat
  BY <1>1, Unpacking DEF Between, StreamInv, StreamTyped, ZType
<1>3. CASE Inflated
  BY <1>1, <1>2, <1>3, InflatedStep
<1>4. CASE Ask("trailer", z.tail, z)
  BY <1>1, <1>2, <1>4, AskStep
<1> QED BY <1>1, <1>3, <1>4

LEMMA TrailerStep ==
  ASSUME ValidStreams, StreamInv, Trailer
  PROVE  StreamInv' /\ UNCHANGED Base!bvars /\ UNCHANGED Unzipped!bvars
<1> DEFINE t == IF given = <<>> THEN 0 ELSE z.tail - Len(given)
           i == z.in
<1>1. /\ vfsPc = "trailer" /\ UNCHANGED restOfZ /\ ZGoto("tail", [z EXCEPT !.tail = t])
  BY DEF Trailer
<1>2. i \in Seq(Nat) /\ t \in Nat /\ z \in ZType
  BY <1>1, LenProperties, SMTT(30) DEF StreamInv, StreamTyped, ZType, Reading
<1> HIDE DEF t, i
<1>3. [z EXCEPT !.tail = t] = [z EXCEPT !.in = i, !.tail = t]
  BY <1>2 DEF ZType, i
<1>4. vfsPc' = "tail" /\ call' = call /\ read' = read /\ z' = [z EXCEPT !.in = i, !.tail = t]
  BY <1>1, <1>3 DEF ZGoto
<1> QED BY <1>1, <1>2, <1>4, InputStep DEF Between

-----------------------------------------------------------------------------
(* The loader.  When it is through with the streams it leaves the gzip one.*)
stillOfLoader == <<src, curl_pos, length, cache, bad, given>>

LEMMA EndsStep ==
  ASSUME ValidStreams, StreamInv, vfsPc \in {"is", "gzhead"}, UNCHANGED stillOfLoader,
         pos' \in {pos, 0}, NEW disk, Ends(disk)
  PROVE  StreamInv' /\ [Base!BNext]_(Base!bvars) /\ [Unzipped!BNext]_(Unzipped!bvars)
<1> USE DEF stillOfLoader, Ends
<1>1. call.got = <<>> /\ pos \in Nat
  BY DEF StreamInv, Reading, StreamTyped
<1>2. StreamTyped'
  BY <1>1 DEF StreamInv, StreamTyped, RingTyped
<1>3. PlacesTyped' /\ Flow'
  BY DEF PlacesTyped, Flow
<1>4. Reading'
  <2>1. pos' \in Nat /\ Len(<<>>) = 0
    BY <1>1, EmptySeq
  <2> QED BY <1>1, <2>1, NoBytes DEF Reading
<1>5. [Base!BNext]_(Base!bvars)
  BY DEF Base!BNext, Base!Rewind, Base!bvars
<1>6. [Unzipped!BNext]_(Unzipped!bvars)
  BY DEF Unzipped!BNext, Unzipped!Rewind, StreamInv, StreamTyped
<1> QED BY <1>2, <1>3, <1>4, <1>5, <1>6 DEF StreamInv

LEMMA ReadsStep ==
  ASSUME ValidStreams, StreamInv, vfsPc = "is", ~short, UNCHANGED stillOfLoader,
         pos' \in {pos, 0}, NEW st, NEW n \in Nat, Reads(st, n)
  PROVE  StreamInv' /\ [Base!BNext]_(Base!bvars) /\ UNCHANGED Unzipped!bvars
<1>1. call.got = <<>> /\ pos \in Nat /\ pos' \in Nat /\ lvl \in {0, 1}
  BY DEF StreamInv, Reading, StreamTyped
<1>2. z' = z /\ lvl' = lvl /\ read' = read /\ want' = n /\ src' = src
  BY DEF Reads, stillOfLoader
<1>3. [Base!BNext]_(Base!bvars)
  BY DEF Base!BNext, Base!Rewind, Base!bvars, stillOfLoader
<1>4. UNCHANGED Unzipped!bvars
  BY <1>2, SameUnzipped
<1>5. CASE lvl = 0
  <2>1. /\ vfsPc' = "base"
        /\ call' = [who |-> "is", want |-> n, got |-> <<>>, left |-> TRIES]
    BY <1>5 DEF Reads, Call
  <2>2. call' \in [who : Who, want : Nat, got : Seq(Nat), left : Int]
    BY <2>1, EmptySeq DEF Who, ValidStreams
  <2>3. StreamTyped'
    BY <1>1, <1>2, <2>2 DEF StreamInv, StreamTyped, RingTyped, stillOfLoader
  <2>4. PlacesTyped' /\ Flow'
    BY <1>2, <1>5, <2>1 DEF PlacesTyped, Flow
  <2>5. Reading'
    <3>1. call'.got = <<>> /\ Len(call'.got) = 0 /\ call'.want = n /\ call'.who = "is"
      BY <2>1, EmptySeq
    <3> QED BY <1>1, <2>1, <3>1, NoBytes DEF Reading
  <2> QED BY <1>3, <1>4, <2>3, <2>4, <2>5 DEF StreamInv
<1>6. CASE lvl = 1
  <2>1. vfsPc' = "z" /\ call' = call
    BY <1>6 DEF Reads
  <2>2. StreamTyped'
    BY <1>1, <1>2, <2>1 DEF StreamInv, StreamTyped, RingTyped, stillOfLoader
  <2>3. PlacesTyped'
    BY <1>2, <1>6, <2>1 DEF StreamInv, PlacesTyped
  <2>4. Reading'
    BY <1>1, <2>1, NoBytes, EmptySeq DEF Reading
  <2>5. InOrder /\ z.acc = <<>> /\ z.got = <<>>
    BY <1>6 DEF StreamInv, Flow
  <2>6. InOrder'
    <3>1. Len(z'.got) = 0 /\ Packed' = Packed /\ Made' = Made
      BY <1>2, <2>5, EmptySeq DEF Packed, Made
    <3> QED BY <1>2, <2>5, <3>1 DEF InOrder
  <2>7. Flow'
    BY <1>2, <2>1, <2>5, <2>6 DEF Flow, Inflating
  <2> QED BY <1>3, <1>4, <2>2, <2>3, <2>4, <2>7 DEF StreamInv
<1> QED BY <1>1, <1>5, <1>6

(* The sizes of a format that the file has.                                *)
LEMMA Sizes ==
  ASSUME ValidStreams, StreamInv, vfsPc = "is"
  PROVE  /\ Fmt = "sc68" => Size - ID - 2 * CHUNK \in Nat
         /\ Fmt = "ice" => Size - ICEH \in Nat
         /\ LengthOf \in Int
<1> DEFINE u == RATIO * (src.size - GZH - GZT)
<1>1. /\ src \in Sources /\ lvl \in {0, 1} /\ length \in Int
      /\ lvl = 1 => src.fmt = "gz"
      /\ ID \in Nat /\ CHUNK \in Nat /\ ICEH \in Nat
      /\ src.size \in Nat /\ src.has \in Nat /\ Holds(src.fmt, src.size)
      /\ src.fmt = "gz" => Holds(src.inner, u) /\ u \in Int
  <2>1. src \in Sources /\ lvl \in {0, 1} /\ length \in Int /\ (lvl = 1 => src.fmt = "gz")
    BY DEF StreamInv, StreamTyped, PlacesTyped
  <2>2. u \in Int
    BY <2>1 DEF ValidStreams
  <2> QED BY <2>1, <2>2 DEF ValidStreams
<1>2. CASE lvl = 0
  <2>1. Fmt = src.fmt /\ Size = src.size
    BY <1>2 DEF Fmt, Size
  <2> QED BY <1>1, <1>2, <2>1 DEF Holds, LengthOf
<1>3. CASE lvl = 1
  <2>1. Fmt = src.inner /\ Size = u /\ LengthOf = -1
    BY <1>3 DEF Fmt, Size, Packed, LengthOf
  <2> HIDE DEF u
  <2> QED BY <1>1, <1>3, <2>1 DEF Holds
<1> QED BY <1>1, <1>2, <1>3

LEMMA LoaderStep ==
  ASSUME ValidStreams, StreamInv, ReadId \/ ReadBase \/ ReadIce \/ ReadData
  PROVE  StreamInv' /\ [Base!BNext]_(Base!bvars) /\ [Unzipped!BNext]_(Unzipped!bvars)
<1>1. vfsPc = "is" /\ UNCHANGED stillOfLoader /\ pos' \in {pos, 0}
  BY DEF ReadId, ReadBase, ReadIce, ReadData, baseVars, stillOfLoader
<1>2. \/ \E disk : Ends(disk)
      \/ ~short /\ \E st : \E n \in Nat : Reads(st, n)
  <2>1. CASE ReadId
    <3>1. CHUNK \in Nat /\ HDR - ID \in Nat
      BY DEF ValidStreams
    <3> QED BY <2>1, <3>1 DEF ReadId, Complete
  <2>2. CASE ReadBase
    <3>1. CHUNK \in Nat
      BY DEF ValidStreams
    <3>2. Is("sc68") => Size - ID - 2 * CHUNK \in Nat
      BY <1>1, Sizes DEF Is
    <3> HIDE DEF Size
    <3> QED BY <2>2, <3>1, <3>2 DEF ReadBase, Complete
  <2>3. CASE ReadIce
    <3>1. Is("ice") => Size - ICEH \in Nat
      BY <1>1, Sizes DEF Is
    <3> QED BY <2>3, <3>1 DEF ReadIce, Complete
  <2>4. CASE ReadData
    BY <2>4 DEF ReadData
  <2> QED BY <2>1, <2>2, <2>3, <2>4
<1>3. CASE \E disk : Ends(disk)
  BY <1>1, <1>3, EndsStep
<1>4. CASE ~short /\ \E st : \E n \in Nat : Reads(st, n)
  BY <1>1, <1>4, ReadsStep
<1> QED BY <1>2, <1>3, <1>4

(* The head of a gzip file is asked of the base.                           *)
LEMMA HeadAsked ==
  ASSUME ValidStreams, StreamInv, vfsPc \in {"is", "gzhead"}, lvl = 0, src.fmt = "gz",
         UNCHANGED stillOfLoader, pos' \in {pos, 0}, NEW n \in Nat, Call("gzhead", n),
         UNCHANGED <<lvl, want, read>>, z' \in ZType
  PROVE  StreamInv' /\ [Base!BNext]_(Base!bvars) /\ UNCHANGED Unzipped!bvars
<1> USE DEF stillOfLoader
<1>1. /\ vfsPc' = "base"
      /\ call' = [who |-> "gzhead", want |-> n, got |-> <<>>, left |-> TRIES]
  BY DEF Call
<1>2. call' \in [who : Who, want : Nat, got : Seq(Nat), left : Int] /\ pos' \in Nat
  BY <1>1, EmptySeq DEF Who, ValidStreams, StreamInv, StreamTyped
<1>3. StreamTyped'
  BY <1>2 DEF StreamInv, StreamTyped, RingTyped
<1>4. PlacesTyped' /\ Flow'
  BY <1>1 DEF PlacesTyped, Flow
<1>5. Reading'
  <2>1. call'.got = <<>> /\ Len(call'.got) = 0 /\ call'.want = n /\ call'.who = "gzhead"
    BY <1>1, EmptySeq
  <2> QED BY <1>1, <1>2, <2>1, NoBytes DEF Reading
<1>6. [Base!BNext]_(Base!bvars)
  BY DEF Base!BNext, Base!Rewind, Base!bvars
<1> QED BY <1>3, <1>4, <1>5, <1>6, SameUnzipped DEF StreamInv

LEMMA ReadHeaderStep ==
  ASSUME ValidStreams, StreamInv, ReadHeader
  PROVE  StreamInv' /\ [Base!BNext]_(Base!bvars) /\ [Unzipped!BNext]_(Unzipped!bvars)
<1>1. vfsPc = "is" /\ UNCHANGED stillOfLoader /\ pos' \in {pos, 0}
  BY DEF ReadHeader, stillOfLoader
<1>2. \/ Ends(None)
      \/ ~short /\ \E st : \E n \in Nat : Reads(st, n)
      \/ Is("gz") /\ lvl = 0 /\ Call("gzhead", GZH) /\ UNCHANGED <<z, lvl, want, read>>
  <2>1. ICEH \in Nat /\ (LengthOf > HDR => LengthOf \in Nat)
    <3>1. LengthOf \in Int /\ HDR \in Nat /\ ICEH \in Nat
      BY <1>1, Sizes DEF ValidStreams
    <3> QED BY <3>1
  <2>2. CASE ~Complete \/ (lvl = 0 /\ ~src.seeks)
    BY <2>2 DEF ReadHeader
  <2>3. CASE ~(~Complete \/ (lvl = 0 /\ ~src.seeks))
    BY <2>1, <2>3 DEF ReadHeader, Complete
  <2> QED BY <2>2, <2>3
<1>3. CASE Ends(None)
  BY <1>1, <1>3, EndsStep
<1>4. CASE ~short /\ \E st : \E n \in Nat : Reads(st, n)
  BY <1>1, <1>4, ReadsStep
<1>5. CASE Is("gz") /\ lvl = 0 /\ Call("gzhead", GZH) /\ UNCHANGED <<z, lvl, want, read>>
  <2>1. src.fmt = "gz"
    BY <1>5 DEF Is, Fmt
  <2>2. GZH \in Nat /\ z' \in ZType
    BY <1>5 DEF ValidStreams, StreamInv, StreamTyped
  <2> QED BY <1>1, <1>5, <2>1, <2>2, HeadAsked
<1> QED BY <1>2, <1>3, <1>4, <1>5

LEMMA GzHeaderStep ==
  ASSUME ValidStreams, StreamInv, GzHeader
  PROVE  StreamInv' /\ [Base!BNext]_(Base!bvars) /\ [Unzipped!BNext]_(Unzipped!bvars)
<1> DEFINE g == z.got \o given
<1>1. /\ vfsPc = "gzhead" /\ UNCHANGED <<baseVars, given>>
      /\ \/ Ends(None)
         \/ /\ Len(g) < GZH
            /\ Ask("gzhead", GZH - Len(g), [z EXCEPT !.got = g])
            /\ UNCHANGED <<lvl, want>>
         \/ /\ lvl' = 1 /\ want' = ID /\ vfsPc' = "z" /\ z' = NoZ
            /\ read' = <<>> /\ call' = call
  BY DEF GzHeader
<1>2. UNCHANGED stillOfLoader /\ pos' = pos
  BY <1>1 DEF baseVars, stillOfLoader
<1>3. lvl = 0 /\ src.fmt = "gz" /\ src \in Sources /\ call.got = <<>> /\ pos \in Nat
  BY <1>1 DEF StreamInv, PlacesTyped, StreamTyped, Reading, Inflating
<1>4. CASE Ends(None)
  BY <1>1, <1>2, <1>4, EndsStep
<1>5. CASE /\ Len(g) < GZH
           /\ Ask("gzhead", GZH - Len(g), [z EXCEPT !.got = g])
           /\ UNCHANGED <<lvl, want>>
  <2>1. g \in Seq(Nat) /\ Len(g) \in Nat /\ z \in ZType
    BY ConcatProperties, LenProperties DEF StreamInv, StreamTyped, ZType
  <2>2. /\ Call("gzhead", GZH - Len(g)) /\ read' = read
        /\ z' = [z EXCEPT !.got = g]
    BY <1>5 DEF Ask
  <2> HIDE DEF g
  <2>3. GZH - Len(g) \in Nat
    <3> DEFINE l == Len(g)
    <3>1. GZH \in Nat
      BY DEF ValidStreams
    <3>2. l \in Nat /\ l < GZH
      BY <1>5, <2>1
    <3> HIDE DEF l
    <3>3. GZH - l \in Nat
      BY <3>1, <3>2
    <3> QED BY <3>3 DEF l
  <2>4. z' \in ZType
    BY <2>1, <2>2 DEF ZType
  <2> QED BY <1>1, <1>2, <1>3, <1>5, <2>2, <2>3, <2>4, HeadAsked
<1>6. CASE /\ lvl' = 1 /\ want' = ID /\ vfsPc' = "z" /\ z' = NoZ
           /\ read' = <<>> /\ call' = call
  <2>1. NoZ \in ZType /\ NoZ.sent = 0
    BY EmptySeq DEF NoZ, ZType
  <2>2. StreamTyped'
    <3>1. ID \in Nat
      BY DEF ValidStreams
    <3> QED BY <1>2, <1>3, <1>6, <2>1, <3>1 DEF StreamInv, StreamTyped, RingTyped, stillOfLoader
  <2>3. PlacesTyped' /\ Reading'
    BY <1>2, <1>3, <1>6, NoBytes, EmptySeq DEF PlacesTyped, Reading, stillOfLoader
  <2>4. Flow'
    <3>1. Packed \in Nat /\ OBUF \in Nat /\ ID \in Nat /\ RATIO \in Nat
      BY <1>3 DEF Packed, ValidStreams
    <3>2. Packed' = Packed
      BY <1>2 DEF Packed, stillOfLoader
    <3>3. Bytes(0, 0) = <<>> /\ Len(<<>>) = 0
      BY NoBytes, EmptySeq
    <3>4. /\ z'.got = <<>> /\ z'.out = <<>> /\ z'.acc = <<>> /\ z'.fed = 0 /\ z'.sent = 0
      BY <1>6 DEF NoZ
    <3>5. Made' = 0
      BY <3>3, <3>4 DEF Made
    <3>6. InOrder'
      BY <1>6, <3>1, <3>2, <3>3, <3>4, <3>5 DEF InOrder
    <3> QED BY <1>6, <3>4, <3>6 DEF Flow, Inflating
  <2>5. UNCHANGED Base!bvars
    BY <1>1, <1>2, SameBase
  <2>6. UNCHANGED Unzipped!bvars
    BY <1>3, <1>6, <2>1 DEF Unzipped!bvars
  <2> QED BY <2>2, <2>3, <2>4, <2>5, <2>6 DEF StreamInv
<1> QED BY <1>1, <1>4, <1>5, <1>6

LEMMA OpenStep ==
  ASSUME ValidStreams, StreamInv, OpenStream
  PROVE  StreamInv' /\ UNCHANGED Base!bvars /\ UNCHANGED Unzipped!bvars
<1>1. PICK s \in Sources : /\ src' = s /\ length' = s.said
           /\ \E k \in 0..(IF s.base = "curl" THEN s.has ELSE 0) : Transfer(0, NoCache, k)
  BY DEF OpenStream
<1>2. PICK k \in 0..(IF s.base = "curl" THEN s.has ELSE 0) : Transfer(0, NoCache, k)
  BY <1>1
<1>3. /\ vfsPc = "idle" /\ want' = ID /\ Call("is", ID)
      /\ UNCHANGED <<pos, bad, given, z, lvl, read>>
  BY DEF OpenStream
<1>4. lvl = 0 /\ pos \in Nat
  BY <1>3 DEF StreamInv, PlacesTyped, StreamTyped, Inflating
<1>5. ID \in Nat /\ s.has \in Nat /\ s.said \in Int /\ k \in Nat
  <2>1. ID \in Nat /\ s.has \in Nat /\ s.said \in Int
    BY DEF ValidStreams
  <2> QED BY <2>1
<1>6. RingTyped' /\ curl_pos' \in Nat
  <2>1. DOMAIN NoCache = 0..(BLKS - 1) /\ \A b \in 0..(BLKS - 1) : NoCache[b].bytes \in Int
    BY DEF NoCache
  <2> QED BY <1>2, <1>5, <2>1, RingWritten
<1>7. /\ vfsPc' = "base"
      /\ call' = [who |-> "is", want |-> ID, got |-> <<>>, left |-> TRIES]
  BY <1>3 DEF Call
<1>8. call' \in [who : Who, want : Nat, got : Seq(Nat), left : Int]
  BY <1>5, <1>7, EmptySeq DEF Who, ValidStreams
<1>9. StreamTyped'
  BY <1>1, <1>3, <1>5, <1>6, <1>8 DEF StreamInv, StreamTyped
<1>10. PlacesTyped' /\ Flow'
  BY <1>3, <1>4, <1>7 DEF PlacesTyped, Flow
<1>11. Reading'
  <2>1. call'.got = <<>> /\ Len(call'.got) = 0 /\ call'.want = ID /\ call'.who = "is"
    BY <1>7, EmptySeq
  <2> QED BY <1>3, <1>4, <1>5, <1>7, <2>1, NoBytes DEF Reading
<1> QED BY <1>3, <1>9, <1>10, <1>11, SameBase, SameUnzipped DEF StreamInv

LEMMA CloseStep ==
  ASSUME ValidStreams, StreamInv, CloseStream
  PROVE  StreamInv' /\ Base!BNext /\ UNCHANGED Unzipped!bvars
<1> USE DEF CloseStream
<1>1. lvl = 0
  BY DEF StreamInv, PlacesTyped, StreamTyped, Inflating
<1>2. NoCall \in [who : Who, want : Nat, got : Seq(Nat), left : Int] /\ NoCall.got = <<>>
  BY EmptySeq DEF NoCall, Who
<1>3. NoZ \in ZType
  BY EmptySeq DEF NoZ, ZType
<1>4. RingTyped'
  BY DEF RingTyped, NoCache
<1>5. bad' \in BOOLEAN
  OBVIOUS
<1>6. StreamTyped'
  BY <1>2, <1>3, <1>4, <1>5, EmptySeq DEF StreamTyped
<1>7. PlacesTyped' /\ Flow'
  BY DEF PlacesTyped, Flow
<1>8. Reading'
  BY <1>2, NoBytes, EmptySeq DEF Reading
<1>9. Base!BNext
  BY DEF Base!BNext, Base!Rewind
<1>10. UNCHANGED Unzipped!bvars
  BY <1>1 DEF Unzipped!bvars
<1> QED BY <1>6, <1>7, <1>8, <1>9, <1>10 DEF StreamInv

LEMMA StillStep ==
  ASSUME StreamInv, UNCHANGED vfsVars
  PROVE  StreamInv' /\ UNCHANGED Base!bvars /\ UNCHANGED Unzipped!bvars
<1> USE DEF vfsVars, baseVars, loadVars
<1>1. StreamTyped' /\ PlacesTyped' /\ Reading'
  BY DEF StreamInv, StreamTyped, PlacesTyped, Reading, RingTyped, Inflating
<1>2. Flow'
  BY DEF StreamInv, Flow, InOrder, Made, Packed
<1> QED BY <1>1, <1>2, SameBase, SameUnzipped DEF StreamInv

LEMMA EachStep ==
  ASSUME ValidStreams, StreamInv, [VfsNext]_vfsVars
  PROVE  StreamInv' /\ [Base!BNext]_(Base!bvars) /\ [Unzipped!BNext]_(Unzipped!bvars)
<1>1. CASE BaseRead BY <1>1, BaseReadStep
<1>2. CASE CurlCopy BY <1>2, CurlCopyStep
<1>3. CASE CurlReturns BY <1>3, CurlReturnsStep
<1>4. CASE CurlPerform BY <1>4, CurlPerformStep
<1>5. CASE GzHeader BY <1>5, GzHeaderStep
<1>6. CASE ZRead BY <1>6, ZReadStep
<1>7. CASE Inflate BY <1>7, InflateStep
<1>8. CASE Fill BY <1>8, FillStep
<1>9. CASE DataEnd BY <1>9, DataEndStep
<1>10. CASE TailDue BY <1>10, TailDueStep
<1>11. CASE Trailer BY <1>11, TrailerStep
<1>12. CASE ReadId \/ ReadBase \/ ReadIce \/ ReadData BY <1>12, LoaderStep
<1>13. CASE ReadHeader BY <1>13, ReadHeaderStep
<1>14. CASE OpenStream BY <1>14, OpenStep
<1>15. CASE CloseStream BY <1>15, CloseStep
<1>16. CASE UNCHANGED vfsVars BY <1>16, StillStep
<1> QED BY <1>1, <1>2, <1>3, <1>4, <1>5, <1>6, <1>7, <1>8, <1>9, <1>10, <1>11, <1>12,
           <1>13, <1>14, <1>15, <1>16 DEF VfsNext, LoadStep

(* For every size of the ring, the buffers and the formats, every source   *)
(* and whatever servers and disks do: a read of a stream, also through     *)
(* gzip, gives the bytes of its source from where it stands, in order, and *)
(* a read that fails gives none (vfs68_read() of vfs68_curl.c, _z.c).      *)
THEOREM StreamsImplement == ValidStreams => (VfsSpec => StreamsInOrder)
<1>1. ValidStreams /\ VfsInit => StreamInv /\ Base!BInit /\ Unzipped!BInit
  BY InitInv
<1>2. ValidStreams /\ StreamInv /\ [VfsNext]_vfsVars
        => StreamInv' /\ [Base!BNext]_(Base!bvars) /\ [Unzipped!BNext]_(Unzipped!bvars)
  BY EachStep
<1>3. ValidStreams => ValidStreams'
  OBVIOUS
<1> QED BY <1>1, <1>2, <1>3, PTL
        DEF VfsSpec, StreamsInOrder, Base!BSpec, Unzipped!BSpec

-----------------------------------------------------------------------------
(* What file68_load() has read is the head of its file, by stage, and the  *)
(* stream stands where the read in progress began: behind that.  Only the  *)
(* seek that a gzip stream does not do leaves it behind the first header.  *)
Staged ==
  \/ stage = "id" /\ buf = <<>> /\ want = ID
  \/ stage = "header" /\ Fmt # "sc68" /\ buf = Bytes(0, ID) /\ want = HDR - ID
  \/ stage = "chunk" /\ Fmt = "sc68" /\ buf = Bytes(0, ID) /\ want = CHUNK
  \/ stage = "size" /\ Fmt = "sc68" /\ buf = Bytes(0, ID + CHUNK) /\ want = CHUNK
  \/ /\ stage = "data" /\ Fmt = "sc68"
     /\ buf = Bytes(0, ID + 2 * CHUNK) /\ want = Size - ID - 2 * CHUNK
  \/ stage = "data" /\ Fmt = "sndh" /\ lvl = 0 /\ buf = <<>> /\ want = LengthOf
  \/ stage = "icehead" /\ Fmt = "ice" /\ buf = <<>> /\ want = ICEH
  \/ stage = "ice" /\ Fmt = "ice" /\ lvl = 0 /\ buf = Bytes(0, ICEH) /\ want = Size - ICEH

ReadFrom == IF stage = "icehead" /\ lvl = 1 THEN HDR ELSE Len(buf)
ReadTo == IF lvl = 1 THEN z.sent ELSE pos

Where ==
  /\ vfsPc # "is" => ReadTo = ReadFrom
  /\ vfsPc = "is" /\ ~short => read = Bytes(ReadFrom, Len(read)) /\ ReadTo = ReadFrom + Len(read)
  /\ vfsPc = "base" /\ call.who = "is" => call.want = want

InHead == stage = "gz"
Reader ==
  vfsPc \notin {"idle", "close"} =>
    /\ length = src.said
    /\ IF InHead THEN /\ lvl = 0 /\ src.fmt = "gz"
                      /\ vfsPc = "gzhead" \/ (vfsPc = "base" /\ call.who = "gzhead")
       ELSE /\ Staged /\ Where
            /\ lvl = 0 => vfsPc = "is" \/ (vfsPc = "base" /\ call.who = "is")
LoadInv == Reader /\ (vfsPc = "close" => mb \in {TheDisk, None})

(* From memory that has all of the file no read falls short, neither of    *)
(* the base nor of the gzip stream: what it inflates follows its header,   *)
(* and as long as it is asked for more there is more to inflate.           *)
FromMemory == src.base = "mem" /\ src.has = src.size
Known == src.fmt \in {"sc68", "ice", "sndh"} \/ (src.fmt = "gz" /\ (lvl = 1 => src.inner = "sc68"))
Fed ==
  /\ vfsPc \in {"end", "tail", "trailer"} => z.fed = Packed
  /\ vfsPc = "base" /\ call.who = "trailer" => z.fed = Packed
  /\ vfsPc = "base" /\ call.who = "fill" => call.want = IBUF
  /\ z.fed < Packed =>
       LET ahead == IF vfsPc = "fill" THEN given ELSE z.in
       IN  /\ ahead = Bytes(GZH + z.fed, Len(ahead)) /\ pos = GZH + z.fed + Len(ahead)
           /\ vfsPc = "fill" => given # <<>>
           /\ vfsPc = "base" => z.in = <<>>
Enough == vfsPc = "is" => ~short /\ (Known => Len(read) = want)
HeadComes ==
  /\ lvl = 0 => z.got = <<>>
  /\ InHead /\ vfsPc = "base" => pos = 0 /\ call.want = GZH
  /\ vfsPc = "gzhead" => given = Bytes(0, GZH) /\ pos = GZH
Unpacks == lvl = 1 => Fed /\ (vfsPc \in Inflating => Len(z.got) < want)
MemInv ==
  FromMemory => ~fail /\ (vfsPc = "close" => mb = TheDisk) /\ Enough /\ HeadComes /\ Unpacks

-----------------------------------------------------------------------------
LEMMA StagedKept ==
  ASSUME Staged, UNCHANGED <<src, length, stage, lvl, want, buf>>
  PROVE  Staged'
BY DEF Staged, Fmt, Size, Packed, LengthOf

LEMMA SameFile == ASSUME src' = src PROVE TheDisk' = TheDisk
BY DEF TheDisk, DiskOf, Packed

(* A read of the base that gives k bytes, or fails.                        *)
LEMMA BaseAnswers ==
  ASSUME ValidStreams, StreamInv, LoadInv, vfsPc = "base", NEW k \in Nat, NEW failed \in BOOLEAN,
         Answer(Bytes(pos, k), failed), ~failed => pos' = pos + k,
         UNCHANGED <<src, length, z, stage, lvl, want, buf, mb>>
  PROVE  LoadInv'
<1>1. Reader /\ vfsPc' = call.who
  BY DEF LoadInv, Answer
<1>2. call.who \in IF lvl = 1 THEN {"fill", "trailer"} ELSE {"is", "gzhead"}
  BY DEF StreamInv, PlacesTyped
<1>3. lvl \in {0, 1} /\ pos \in Nat
  BY DEF StreamInv, StreamTyped
<1>4. Reader'
  <2>1. CASE InHead
    BY <1>1, <1>2, <2>1 DEF Reader, InHead
  <2>2. CASE ~InHead
    <3>1. Staged /\ Where
      BY <1>1, <2>2 DEF Reader
    <3>2. Staged'
      BY <3>1, StagedKept
    <3>3. ReadFrom' = ReadFrom
      BY DEF ReadFrom
    <3>4. CASE lvl = 1
      <4>1. ReadTo' = ReadTo /\ vfsPc' \in {"fill", "trailer"}
        BY <1>1, <1>2, <3>4 DEF ReadTo
      <4>2. Where'
        BY <3>1, <3>3, <4>1 DEF Where
      <4> QED BY <1>1, <2>2, <3>2, <3>4, <4>2 DEF Reader, InHead
    <3>5. CASE lvl = 0
      <4>1. call.who = "is" /\ pos = ReadFrom
        BY <1>1, <2>2, <3>1, <3>5 DEF Reader, Where, ReadTo
      <4>2. short' = failed /\ (~failed => read' = Bytes(pos, k) /\ Len(read') = k)
        BY <1>3, <4>1, BytesAre DEF Answer, Deliver
      <4>3. ~failed => ReadTo' = pos + k
        BY <3>5 DEF ReadTo
      <4>4. Where'
        BY <1>1, <3>3, <4>1, <4>2, <4>3 DEF Where
      <4> QED BY <1>1, <2>2, <3>2, <3>5, <4>1, <4>4 DEF Reader, InHead
    <3> QED BY <1>3, <3>4, <3>5
  <2> QED BY <2>1, <2>2
<1>5. vfsPc' # "close"
  BY <1>1, <1>2
<1> QED BY <1>4, <1>5 DEF LoadInv

LEMMA LoadOfBase ==
  ASSUME ValidStreams, StreamInv, LoadInv, BaseRead \/ CurlCopy \/ CurlReturns \/ CurlPerform
  PROVE  LoadInv'
<1>1. /\ vfsPc = "base" /\ pos \in Nat /\ call.got = Bytes(pos, Len(call.got)) /\ Len(call.got) \in Nat
      /\ bad \in BOOLEAN
  BY LenProperties DEF BaseRead, CurlCopy, CurlReturns, CurlPerform, StreamInv, StreamTyped, Reading
<1>2. CASE BaseRead
  <2>1. PICK k \in Counts(call.want) :
          Answer(Bytes(pos, k), k = -1) /\ pos' = IF k = -1 THEN pos ELSE pos + k
    BY <1>2 DEF BaseRead
  <2>2. call.want \in Nat /\ Rest(pos) \in Nat
    BY <1>1, RestIs DEF StreamInv, StreamTyped
  <2>3. k \in Nat \cup {-1}
    <3>1. src.base \in {"mem", "fd", "file"}
      BY <1>1, <1>2 DEF StreamInv, StreamTyped, ValidStreams, BaseRead
    <3> QED BY <2>1, <2>2, <3>1 DEF Counts, MemCounts, FileCounts, FdCounts, Lesser
  <2>4. CASE k = -1
    <3>1. Answer(Bytes(pos, 0), TRUE)
      BY <2>1, <2>4 DEF Answer
    <3>2. 0 \in Nat /\ TRUE \in BOOLEAN
      OBVIOUS
    <3> QED BY <1>1, <1>2, <3>1, <3>2, BaseAnswers DEF BaseRead
  <2>5. CASE k # -1
    <3>1. Answer(Bytes(pos, k), FALSE) /\ k \in Nat /\ pos' = pos + k
      <4>1. (k = -1) = FALSE
        BY <2>5
      <4> QED BY <2>1, <2>3, <2>5, <4>1
    <3>2. FALSE \in BOOLEAN
      OBVIOUS
    <3> QED BY <1>1, <1>2, <3>1, <3>2, BaseAnswers DEF BaseRead
  <2> QED BY <2>4, <2>5
<1>3. ASSUME NEW b \in BOOLEAN, Answer(call.got, b), pos' = At,
             UNCHANGED <<src, length, z, stage, lvl, want, buf, mb>>
      PROVE  LoadInv'
  <2> DEFINE k == Len(call.got)
  <2>1. Answer(Bytes(pos, k), b) /\ pos' = pos + k /\ k \in Nat
    <3>1. call.got = Bytes(pos, k) /\ k \in Nat /\ At = pos + k
      BY <1>1 DEF At
    <3> HIDE DEF k
    <3> QED BY <1>3, <3>1
  <2> HIDE DEF k
  <2> QED BY <1>1, <1>3, <2>1, BaseAnswers
<1>4. CASE CurlReturns
  BY <1>1, <1>3, <1>4 DEF CurlReturns
<1>5. ASSUME vfsPc' = "base", call'.who = call.who, call'.want = call.want,
             UNCHANGED <<src, length, z, stage, lvl, want, buf, mb, pos>>
      PROVE  LoadInv'
  <2>1. Staged => Staged'
    BY <1>5, StagedKept
  <2>2. ReadFrom' = ReadFrom /\ ReadTo' = ReadTo
    BY <1>5 DEF ReadFrom, ReadTo
  <2>3. Where => Where'
    BY <1>1, <1>5, <2>2 DEF Where
  <2> QED BY <1>1, <1>5, <2>1, <2>3 DEF LoadInv, Reader, InHead
<1>6. CASE CurlCopy
  <2>1. call'.who = call.who /\ call'.want = call.want
    BY <1>6 DEF CurlCopy, StreamInv, StreamTyped
  <2> QED BY <1>1, <1>5, <1>6, <2>1 DEF CurlCopy, baseVars, loadVars
<1>7. CASE CurlPerform
  <2>2. \/ /\ \E k \in 0..Rest(curl_pos) :
                call' = [call EXCEPT !.left = IF k = 0 THEN @ - 1 ELSE TRIES]
           /\ UNCHANGED <<pos, vfsPc>>
        \/ \E b \in BOOLEAN : Answer(call.got, b) /\ pos' = At
    BY <1>7 DEF CurlPerform
  <2>3. UNCHANGED <<src, length, z, stage, lvl, want, buf, mb>>
    BY <1>7 DEF CurlPerform
  <2>4. CASE \E b \in BOOLEAN : Answer(call.got, b) /\ pos' = At
    BY <1>3, <2>3, <2>4
  <2>5. CASE /\ \E k \in 0..Rest(curl_pos) :
                  call' = [call EXCEPT !.left = IF k = 0 THEN @ - 1 ELSE TRIES]
             /\ UNCHANGED <<pos, vfsPc>>
    <3>1. call'.who = call.who /\ call'.want = call.want
      BY <2>5 DEF StreamInv, StreamTyped
    <3> QED BY <1>1, <1>5, <2>3, <2>5, <3>1
  <2> QED BY <2>2, <2>4, <2>5
<1> QED BY <1>2, <1>4, <1>6, <1>7

-----------------------------------------------------------------------------
(* A step of the gzip stream: it goes on, or a read through it is over.    *)
GzStep == ZRead \/ Inflate \/ Fill \/ DataEnd \/ TailDue \/ Trailer

LEMMA GzOutcome ==
  ASSUME ValidStreams, StreamInv, GzStep
  PROVE  /\ vfsPc \in Between /\ UNCHANGED restOfZ
         /\ \/ /\ z'.sent = z.sent
               /\ \/ vfsPc' \in Between
                  \/ vfsPc' = "base" /\ call'.who \in {"fill", "trailer"}
            \/ Gives(z.got, FALSE) /\ z.acc = <<>>
            \/ Gives(<<>>, TRUE)
<1>1. vfsPc \in Between /\ UNCHANGED restOfZ
  BY DEF GzStep, ZRead, Inflate, Fill, DataEnd, TailDue, Trailer, Between
<1>2. z \in ZType
  BY DEF StreamInv, StreamTyped
<1>3. z.sent = [z EXCEPT !.out = z.acc, !.acc = <<>>].sent
  BY <1>2 DEF ZType
<1> DEFINE Goes == /\ z'.sent = z.sent
                   /\ \/ vfsPc' \in Between
                      \/ vfsPc' = "base" /\ call'.who \in {"fill", "trailer"}
           Gets == Gives(z.got, FALSE) /\ z.acc = <<>>
<1>4. Inflated => Goes \/ Gets
  BY <1>3 DEF Inflated, ZGoto, Between
<1>5. CASE ZRead
  <2>1. vfsPc = "z"
    BY <1>5 DEF ZRead
  <2>2. z.acc = <<>>
    BY <1>1, <2>1, Unpacking
  <2>3. [z EXCEPT !.got = @ \o SubSeq(z.out, 1, Lesser(Len(z.out), want - Len(z.got))),
                  !.out = SubSeq(@, Lesser(Len(z.out), want - Len(z.got)) + 1, Len(@))].sent = z.sent
    BY <1>2 DEF ZType
  <2> QED BY <1>5, <2>2, <2>3 DEF ZRead, ZGoto, Between
<1>6. CASE Inflate
  <2>1. \A n : Eaten(n).sent = z.sent
    BY <1>2 DEF ZType, Eaten
  <2>2. \/ Inflated \/ Ask("fill", IBUF, z) \/ Gives(<<>>, TRUE)
        \/ \E p \in {"end", "inflate"}, n \in {Lesser(Packed - z.fed,
               Lesser(Len(z.in), (OBUF - Len(z.acc)) \div RATIO))} : ZGoto(p, Eaten(n))
    BY <1>6 DEF Inflate
  <2>3. Ask("fill", IBUF, z) => Goes
    BY DEF Ask, Call
  <2>4. \A p \in {"end", "inflate"} : \A n : ZGoto(p, Eaten(n)) => Goes
    BY <2>1 DEF ZGoto, Between
  <2> QED BY <1>1, <1>4, <2>2, <2>3, <2>4
<1>7. CASE Fill
  <2>1. [z EXCEPT !.in = given].sent = z.sent
    BY <1>2 DEF ZType
  <2> QED BY <1>4, <1>7, <2>1 DEF Fill, ZGoto, Between
<1>8. CASE DataEnd
  <2>1. \A a, b : [z EXCEPT !.in = a, !.tail = b].sent = z.sent
    BY <1>2 DEF ZType
  <2> QED BY <1>8, <2>1 DEF DataEnd, ZGoto, Between
<1>9. CASE TailDue
  <2>1. Inflated \/ Ask("trailer", z.tail, z)
    BY <1>9 DEF TailDue
  <2>2. Ask("trailer", z.tail, z) => Goes
    BY DEF Ask, Call
  <2> QED BY <1>1, <1>4, <2>1, <2>2
<1>10. CASE Trailer
  <2>1. \A b : [z EXCEPT !.tail = b].sent = z.sent
    BY <1>2 DEF ZType
  <2> QED BY <1>10, <2>1 DEF Trailer, ZGoto, Between
<1> QED BY <1>1, <1>5, <1>6, <1>7, <1>8, <1>9, <1>10 DEF GzStep

LEMMA LoadOfGz ==
  ASSUME ValidStreams, StreamInv, LoadInv, GzStep
  PROVE  LoadInv'
<1>1. vfsPc \in Between /\ lvl = 1 /\ z \in ZType /\ InOrder
  BY GzOutcome, Unpacking DEF StreamInv, StreamTyped
<1>2. UNCHANGED <<src, length, stage, lvl, want, buf, mb>>
  BY GzOutcome DEF restOfZ, baseVars
<1>3. Reader /\ ~InHead
  BY <1>1 DEF LoadInv, Reader, Between
<1>4. Staged /\ Where
  BY <1>1, <1>3 DEF Reader, Between
<1>5. Staged' /\ ReadFrom' = ReadFrom /\ ReadTo = z.sent /\ ReadTo' = z'.sent /\ ReadTo = ReadFrom
  BY <1>1, <1>2, <1>4, StagedKept DEF ReadFrom, ReadTo, Where, Between
<1>6. CASE /\ z'.sent = z.sent
           /\ vfsPc' \in Between \/ (vfsPc' = "base" /\ call'.who \in {"fill", "trailer"})
  <2>1. Where'
    BY <1>5, <1>6 DEF Where, Between
  <2> QED BY <1>1, <1>2, <1>3, <1>5, <1>6, <2>1 DEF LoadInv, Reader, InHead, Between
<1>7. CASE Gives(z.got, FALSE) /\ z.acc = <<>>
  <2>1. z.got = Bytes(z.sent, Len(z.got))
    BY <1>1 DEF InOrder
  <2>2. vfsPc' = "is" /\ read' = z.got /\ z'.sent = z.sent + Len(z.got)
    BY <1>1, <1>7 DEF Gives, Deliver, ZType
  <2>3. Where'
    BY <1>5, <2>1, <2>2 DEF Where
  <2> QED BY <1>1, <1>2, <1>3, <1>5, <2>2, <2>3 DEF LoadInv, Reader, InHead, Between
<1>8. CASE Gives(<<>>, TRUE)
  <2>1. vfsPc' = "is" /\ short'
    BY <1>8 DEF Gives, Deliver
  <2>2. Where'
    BY <2>1 DEF Where
  <2> QED BY <1>1, <1>2, <1>3, <1>5, <2>1, <2>2 DEF LoadInv, Reader, InHead, Between
<1>9. \/ /\ z'.sent = z.sent
         /\ vfsPc' \in Between \/ (vfsPc' = "base" /\ call'.who \in {"fill", "trailer"})
      \/ Gives(z.got, FALSE) /\ z.acc = <<>>
      \/ Gives(<<>>, TRUE)
  BY GzOutcome
<1> QED BY <1>6, <1>7, <1>8, <1>9

-----------------------------------------------------------------------------
(* What the loader holds when a read is complete.                          *)
LEMMA HasRead ==
  ASSUME ValidStreams, StreamInv, LoadInv, vfsPc = "is", Complete
  PROVE  /\ ~InHead /\ Staged /\ length = src.said /\ want \in Nat /\ ReadFrom \in Nat
         /\ read = Bytes(ReadFrom, want) /\ ReadTo = ReadFrom + want
<1>1. ~InHead /\ Staged /\ Where /\ length = src.said /\ want \in Nat
  BY DEF LoadInv, Reader, StreamInv, StreamTyped
<1>2. read = Bytes(ReadFrom, want) /\ ReadTo = ReadFrom + want
  BY <1>1 DEF Where, Complete
<1>3. ReadFrom \in Nat
  <2>1. 0 \in Nat /\ ID \in Nat /\ ID + CHUNK \in Nat /\ ID + 2 * CHUNK \in Nat /\ ICEH \in Nat
        /\ HDR \in Nat
    BY DEF ValidStreams
  <2>2. Len(<<>>) = 0
    BY EmptySeq
  <2>3. /\ Len(Bytes(0, ID)) = ID /\ Len(Bytes(0, ID + CHUNK)) = ID + CHUNK
        /\ Len(Bytes(0, ID + 2 * CHUNK)) = ID + 2 * CHUNK /\ Len(Bytes(0, ICEH)) = ICEH
    BY <2>1, BytesAre
  <2> QED BY <1>1, <2>1, <2>2, <2>3 DEF Staged, ReadFrom
<1> QED BY <1>1, <1>2, <1>3

LEMMA JoinsHead ==
  ASSUME NEW a \in Nat, NEW b \in Nat
  PROVE  Bytes(0, a) \o Bytes(a, b) = Bytes(0, a + b)
<1>1. 0 \in Nat
  OBVIOUS
<1>2. Bytes(0, a) \o Bytes(0 + a, b) = Bytes(0, a + b)
  BY <1>1, BytesJoin
<1>3. 0 + a = a
  OBVIOUS
<1> QED BY <1>2, <1>3

(* It reads on from where it is.                                           *)
LEMMA GoesOn ==
  ASSUME ValidStreams, StreamInv, LoadInv, vfsPc = "is", Complete, NEW st, NEW n, Reads(st, n),
         UNCHANGED <<src, length>>, st # "gz", Staged', ReadFrom' = ReadTo'
  PROVE  LoadInv'
<1>1. length = src.said /\ lvl \in {0, 1}
  BY HasRead DEF StreamInv, StreamTyped
<1>2. lvl' = lvl /\ stage' = st /\ want' = n
      /\ IF lvl = 0 THEN Call("is", n) ELSE vfsPc' = "z"
  BY DEF Reads
<1>3. lvl = 0 => vfsPc' = "base" /\ call'.who = "is" /\ call'.want = n
  BY <1>2 DEF Call
<1>4. Where'
  BY <1>1, <1>2, <1>3 DEF Where
<1> QED BY <1>1, <1>2, <1>3, <1>4 DEF LoadInv, Reader, InHead

LEMMA EndsWith ==
  ASSUME NEW disk, Ends(disk), src' = src, disk \in {TheDisk, None}
  PROVE  LoadInv'
BY SameFile DEF Ends, LoadInv, Reader

LEMMA NotTheHead ==
  ASSUME ValidStreams, NEW n \in Nat \ {0}
  PROVE  Bytes(HDR, n) # Bytes(0, n)
<1>1. HDR \in Nat \ {0} /\ 0 \in Nat /\ n \in Nat /\ 1 \in 1..n
  BY DEF ValidStreams
<1>2. Bytes(HDR, n)[1] = HDR + 1
  BY <1>1, BytesAre
<1>3. Bytes(0, n)[1] = 0 + 1
  BY <1>1, BytesAre
<1> QED BY <1>1, <1>2, <1>3

(* Reading the head of a disk.                                             *)
LEMMA ReadIdStep ==
  ASSUME ValidStreams, StreamInv, LoadInv, ReadId
  PROVE  LoadInv'
<1>1. vfsPc = "is" /\ stage = "id" /\ UNCHANGED <<src, length, pos>>
  BY DEF ReadId, baseVars
<1>2. ID \in Nat /\ 0 \in Nat /\ CHUNK \in Nat /\ HDR \in Nat
  BY DEF ValidStreams
<1>3. CASE ~Complete
  <2>1. Ends(None)
    BY <1>3 DEF ReadId
  <2> QED BY <1>1, <2>1, EndsWith
<1>4. CASE Complete
  <2>1. buf = <<>> /\ want = ID /\ read = Bytes(ReadFrom, want) /\ ReadTo = ReadFrom + want
    BY <1>1, <1>4, HasRead DEF Staged
  <2>2. ReadFrom = 0
    BY <1>1, <2>1, EmptySeq DEF ReadFrom
  <2>3. SoFar = Bytes(0, ID) /\ Len(SoFar) = ID /\ ReadTo = ID
    <3>1. Bytes(0, ID) \in Seq(Nat) /\ Len(Bytes(0, ID)) = ID
      BY <1>2, BytesAre
    <3>2. read = Bytes(0, ID) /\ ReadTo = ID
      BY <1>2, <2>1, <2>2
    <3>3. <<>> \o Bytes(0, ID) = Bytes(0, ID)
      BY <3>1, ConcatEmptySeq
    <3> QED BY <2>1, <3>1, <3>2, <3>3 DEF SoFar
  <2>4. Is("sc68") <=> Fmt = "sc68"
    BY <2>3 DEF Is
  <2>5. /\ buf' = Bytes(0, ID) /\ Len(buf') = ID /\ ReadTo' = ID
        /\ IF Fmt = "sc68" THEN Reads("chunk", CHUNK) ELSE Reads("header", HDR - ID)
    <3>1. /\ buf' = Bytes(0, ID)
          /\ IF Fmt = "sc68" THEN Reads("chunk", CHUNK) ELSE Reads("header", HDR - ID)
      BY <1>4, <2>3, <2>4 DEF ReadId, Keep
    <3>2. lvl' = lvl /\ z' = z
      BY <3>1 DEF Reads
    <3> QED BY <1>1, <2>3, <3>1, <3>2 DEF ReadTo
  <2>6. Fmt' = Fmt /\ ReadFrom' = ReadTo'
    <3>1. lvl' = lvl /\ stage' \in {"chunk", "header"}
      BY <2>5 DEF Reads
    <3> QED BY <1>1, <2>5, <3>1 DEF Fmt, ReadFrom
  <2>7. CASE Fmt = "sc68"
    <3>1. Reads("chunk", CHUNK)
      BY <2>5, <2>7
    <3>2. Staged'
      BY <2>5, <2>6, <2>7, <3>1 DEF Staged, Reads
    <3> QED BY <1>1, <1>4, <2>6, <3>1, <3>2, GoesOn
  <2>8. CASE Fmt # "sc68"
    <3>1. Reads("header", HDR - ID)
      BY <2>5, <2>8
    <3>2. Staged'
      BY <2>5, <2>6, <2>8, <3>1 DEF Staged, Reads
    <3> QED BY <1>1, <1>4, <2>6, <3>1, <3>2, GoesOn
  <2> QED BY <2>7, <2>8
<1> QED BY <1>3, <1>4

LEMMA ReadBaseStep ==
  ASSUME ValidStreams, StreamInv, LoadInv, ReadBase
  PROVE  LoadInv'
<1>1. vfsPc = "is" /\ stage \in {"chunk", "size"} /\ UNCHANGED <<src, length, pos>>
  BY DEF ReadBase, baseVars
<1>2. ID \in Nat /\ CHUNK \in Nat /\ ID + CHUNK \in Nat /\ ID + 2 * CHUNK \in Nat /\ 0 \in Nat
  BY DEF ValidStreams
<1>3. CASE ~Complete \/ ~Is("sc68")
  <2>1. Ends(None)
    BY <1>3 DEF ReadBase
  <2> QED BY <1>1, <2>1, EndsWith
<1>4. CASE Complete /\ Is("sc68")
  <2> DEFINE a == IF stage = "chunk" THEN ID ELSE ID + CHUNK
             b == IF stage = "chunk" THEN ID + CHUNK ELSE ID + 2 * CHUNK
  <2>1. /\ Fmt = "sc68" /\ want = CHUNK /\ buf = Bytes(0, a)
        /\ read = Bytes(ReadFrom, want) /\ ReadTo = ReadFrom + want
    BY <1>1, <1>4, HasRead DEF Staged
  <2>2. a \in Nat /\ b \in Nat /\ a + CHUNK = b
    BY <1>2
  <2>3. b = IF stage = "chunk" THEN ID + CHUNK ELSE ID + 2 * CHUNK
    OBVIOUS
  <2> HIDE DEF a, b
  <2>4. ReadFrom = a
    BY <1>1, <1>2, <2>1, <2>2, BytesAre DEF ReadFrom
  <2>5. SoFar = Bytes(0, b) /\ ReadTo = b
    BY <1>2, <2>1, <2>2, <2>4, JoinsHead DEF SoFar
  <2>6. /\ buf' = Bytes(0, b)
        /\ IF stage = "chunk" THEN Reads("size", CHUNK) ELSE Reads("data", Size - ID - 2 * CHUNK)
    BY <1>4, <2>5 DEF ReadBase, Keep
  <2>7. lvl' = lvl /\ z' = z /\ stage' \in {"size", "data"}
    BY <2>6 DEF Reads
  <2>8. Fmt' = Fmt /\ Size' = Size /\ ReadTo' = b /\ ReadFrom' = b
    <3>1. Len(buf') = b
      BY <1>2, <2>2, <2>6, BytesAre
    <3> QED BY <1>1, <2>5, <2>7, <3>1 DEF Fmt, Size, Packed, ReadTo, ReadFrom
  <2>9. CASE stage = "chunk"
    <3>1. Reads("size", CHUNK)
      BY <2>6, <2>9
    <3>2. Staged'
      BY <2>1, <2>3, <2>6, <2>8, <2>9, <3>1 DEF Staged, Reads
    <3> QED BY <1>1, <1>4, <2>8, <3>1, <3>2, GoesOn
  <2>10. CASE stage = "size"
    <3>1. Reads("data", Size - ID - 2 * CHUNK)
      BY <2>6, <2>10
    <3>2. want' = Size - ID - 2 * CHUNK /\ stage' = "data" /\ buf' = Bytes(0, ID + 2 * CHUNK)
      BY <2>3, <2>6, <2>10, <3>1 DEF Reads
    <3>3. Staged'
      BY <2>1, <2>8, <3>2 DEF Staged
    <3> QED BY <1>1, <1>4, <2>8, <3>1, <3>3, GoesOn
  <2> QED BY <1>1, <2>9, <2>10
<1> QED BY <1>3, <1>4

(* Other formats begin again.                                              *)
LEMMA LoadOfHeader ==
  ASSUME ValidStreams, StreamInv, LoadInv, ReadHeader
  PROVE  LoadInv'
<1>1. vfsPc = "is" /\ stage = "header" /\ UNCHANGED <<src, length>> /\ lvl \in {0, 1}
  BY DEF ReadHeader, StreamInv, StreamTyped
<1>2. CASE Ends(None)
  BY <1>1, <1>2, EndsWith
<1>3. CASE ~Ends(None)
  <2>1. Complete /\ (lvl = 0 => src.seeks) /\ pos' = IF lvl = 0 THEN 0 ELSE pos
    BY <1>3 DEF ReadHeader
  <2>2. \/ Is("gz") /\ lvl = 0 /\ Call("gzhead", GZH) /\ stage' = "gz"
           /\ UNCHANGED <<z, lvl, want, read, short, buf, mb>>
        \/ Is("ice") /\ buf' = <<>> /\ Reads("icehead", ICEH)
        \/ Is("sndh") /\ LengthOf > HDR /\ buf' = <<>> /\ Reads("data", LengthOf)
    BY <1>3, <2>1 DEF ReadHeader
  <2>3. /\ Fmt # "sc68" /\ buf = Bytes(0, ID) /\ want = HDR - ID /\ ReadTo = ReadFrom + want
        /\ length = src.said
    BY <1>1, <2>1, HasRead DEF Staged
  <2>4. ReadTo = HDR
    <3>1. ID \in Nat /\ HDR \in Nat /\ 0 \in Nat
      BY DEF ValidStreams
    <3>2. ReadFrom = ID
      BY <1>1, <2>3, <3>1, BytesAre DEF ReadFrom
    <3> QED BY <2>3, <3>1, <3>2
  <2>5. CASE Is("gz") /\ lvl = 0 /\ Call("gzhead", GZH) /\ stage' = "gz"
             /\ UNCHANGED <<z, lvl, want, read, short, buf, mb>>
    <3>1. src.fmt = "gz"
      BY <2>5 DEF Is, Fmt
    <3> QED BY <1>1, <2>3, <2>5, <3>1 DEF LoadInv, Reader, InHead, Call
  <2>6. CASE Is("ice") /\ buf' = <<>> /\ Reads("icehead", ICEH)
    <3>1. lvl' = lvl /\ z' = z /\ stage' = "icehead" /\ want' = ICEH
      BY <2>6 DEF Reads
    <3>2. Fmt' = "ice"
      BY <1>1, <2>6, <3>1 DEF Is, Fmt
    <3>3. Staged'
      BY <2>6, <3>1, <3>2 DEF Staged
    <3>4. ReadFrom' = ReadTo'
      BY <1>1, <2>1, <2>4, <2>6, <3>1, EmptySeq DEF ReadFrom, ReadTo
    <3> QED BY <1>1, <2>1, <2>6, <3>3, <3>4, GoesOn
  <2>7. CASE Is("sndh") /\ LengthOf > HDR /\ buf' = <<>> /\ Reads("data", LengthOf)
    <3>1. lvl' = lvl /\ z' = z /\ stage' = "data" /\ want' = LengthOf
      BY <2>7 DEF Reads
    <3>2. Fmt' = "sndh" /\ LengthOf' = LengthOf
      BY <1>1, <2>7, <3>1 DEF Is, Fmt, LengthOf
    <3>3. lvl = 0
      <4>1. lvl = 1 => ~(LengthOf > HDR)
        BY DEF LengthOf, ValidStreams
      <4> QED BY <1>1, <2>7, <4>1
    <3>4. Staged'
      BY <2>7, <3>1, <3>2, <3>3 DEF Staged
    <3>5. ReadFrom' = ReadTo'
      BY <2>1, <2>7, <3>1, <3>3, EmptySeq DEF ReadFrom, ReadTo
    <3> QED BY <1>1, <2>1, <2>7, <3>4, <3>5, GoesOn
  <2> QED BY <2>2, <2>5, <2>6, <2>7
<1> QED BY <1>2, <1>3

LEMMA LoadOfIce ==
  ASSUME ValidStreams, StreamInv, LoadInv, ReadIce
  PROVE  LoadInv'
<1>1. vfsPc = "is" /\ stage \in {"icehead", "ice"} /\ UNCHANGED <<src, length, pos>>
      /\ lvl \in {0, 1}
  BY DEF ReadIce, baseVars, StreamInv, StreamTyped
<1>2. ICEH \in Nat \ {0} /\ 0 \in Nat
  BY DEF ValidStreams
<1>3. CASE Ends(None)
  BY <1>1, <1>3, EndsWith
<1>4. CASE Complete /\ stage = "ice" /\ Ends(SoFar)
  <2>1. /\ Fmt = "ice" /\ lvl = 0 /\ buf = Bytes(0, ICEH) /\ want = Size - ICEH /\ want \in Nat
        /\ read = Bytes(ReadFrom, want)
    BY <1>1, <1>4, HasRead DEF Staged
  <2>2. ReadFrom = ICEH
    BY <1>2, <1>4, <2>1, BytesAre DEF ReadFrom
  <2>3. src.fmt = "ice" /\ Size = src.size
    BY <2>1 DEF Fmt, Size
  <2>4. SoFar = Bytes(0, ICEH + want)
    BY <1>2, <2>1, <2>2, JoinsHead DEF SoFar
  <2>5. ICEH + want = src.size
    <3>1. Size \in Int
      BY <1>1, <2>3 DEF ValidStreams, StreamInv, StreamTyped
    <3> QED BY <1>2, <2>1, <2>3, <3>1
  <2>6. TheDisk = Bytes(0, src.size)
    BY <2>3 DEF TheDisk, DiskOf
  <2> QED BY <1>1, <1>4, <2>4, <2>5, <2>6, EndsWith
<1>5. CASE Complete /\ stage = "icehead" /\ Is("ice") /\ Keep /\ Reads("ice", Size - ICEH)
  <2>1. /\ Fmt = "ice" /\ buf = <<>> /\ want = ICEH
        /\ read = Bytes(ReadFrom, want) /\ ReadTo = ReadFrom + want
    BY <1>1, <1>5, HasRead DEF Staged
  <2>2. SoFar = read /\ Len(read) = ICEH
    <3>1. ReadFrom \in Nat /\ want \in Nat
      BY <1>1, <1>5, HasRead
    <3>2. read \in Seq(Nat) /\ Len(read) = ICEH
      BY <2>1, <3>1, BytesAre
    <3>3. <<>> \o read = read
      BY <3>2, ConcatEmptySeq
    <3> QED BY <2>1, <3>2, <3>3 DEF SoFar
  <2>3. read = Bytes(0, ICEH)
    BY <1>5, <2>2 DEF Is
  <2>4. lvl = 0
    <3>1. lvl = 1 => ReadFrom = HDR
      BY <1>5 DEF ReadFrom
    <3>2. Bytes(HDR, ICEH) # Bytes(0, ICEH)
      BY <1>2, NotTheHead
    <3> QED BY <1>1, <2>1, <2>3, <3>1, <3>2
  <2>5. ReadFrom = 0 /\ ReadTo = ICEH
    <3>1. ReadFrom = 0
      BY <2>1, <2>4, EmptySeq DEF ReadFrom
    <3> QED BY <1>2, <2>1, <3>1
  <2>6. lvl' = lvl /\ z' = z /\ stage' = "ice" /\ want' = Size - ICEH /\ buf' = Bytes(0, ICEH)
    BY <1>5, <2>2, <2>3 DEF Reads, Keep
  <2>7. Fmt' = "ice" /\ Size' = Size
    BY <1>1, <2>1, <2>6 DEF Fmt, Size, Packed
  <2>8. Staged'
    BY <2>4, <2>6, <2>7 DEF Staged
  <2>9. ReadFrom' = ReadTo'
    <3>1. Len(buf') = ICEH
      BY <1>2, <2>6, BytesAre
    <3> QED BY <1>1, <2>4, <2>5, <2>6, <3>1 DEF ReadFrom, ReadTo
  <2> QED BY <1>1, <1>5, <2>8, <2>9, GoesOn
<1> QED BY <1>1, <1>3, <1>4, <1>5 DEF ReadIce

LEMMA LoadOfData ==
  ASSUME ValidStreams, StreamInv, LoadInv, ReadData
  PROVE  LoadInv'
<1>1. vfsPc = "is" /\ stage = "data" /\ UNCHANGED <<src, length, pos>> /\ lvl \in {0, 1}
      /\ (lvl = 1 => src.fmt = "gz") /\ src \in Sources
  BY DEF ReadData, baseVars, StreamInv, StreamTyped, PlacesTyped
<1>2. CASE ~Complete
  <2>1. Ends(None)
    BY <1>2 DEF ReadData
  <2> QED BY <1>1, <2>1, EndsWith
<1>3. CASE Complete
  <2>1. Ends(read)
    BY <1>3 DEF ReadData
  <2>2. read = Bytes(ReadFrom, want) /\ length = src.said /\ want \in Nat
    BY <1>1, <1>3, HasRead
  <2>3. \/ Fmt = "sc68" /\ buf = Bytes(0, ID + 2 * CHUNK) /\ want = Size - ID - 2 * CHUNK
        \/ Fmt = "sndh" /\ lvl = 0 /\ buf = <<>> /\ want = LengthOf
    BY <1>1, <1>3, HasRead DEF Staged
  <2>4. CASE Fmt = "sc68" /\ buf = Bytes(0, ID + 2 * CHUNK) /\ want = Size - ID - 2 * CHUNK
    <3>1. ReadFrom = ID + 2 * CHUNK
      <4>1. ID + 2 * CHUNK \in Nat /\ 0 \in Nat
        BY DEF ValidStreams
      <4> QED BY <1>1, <2>4, <4>1, BytesAre DEF ReadFrom
    <3>2. CASE lvl = 0
      <4>1. src.fmt = "sc68" /\ Size = src.size
        BY <2>4, <3>2 DEF Fmt, Size
      <4>2. TheDisk = Bytes(ID + 2 * CHUNK, Size - ID - 2 * CHUNK)
        BY <4>1 DEF TheDisk, DiskOf
      <4> QED BY <1>1, <2>1, <2>2, <2>4, <3>1, <4>2, EndsWith
    <3>3. CASE lvl = 1
      <4>1. src.fmt = "gz" /\ src.inner = "sc68" /\ Size = RATIO * Packed
        BY <1>1, <2>4, <3>3 DEF Fmt, Size
      <4>2. TheDisk = Bytes(ID + 2 * CHUNK, Size - ID - 2 * CHUNK)
        BY <4>1 DEF TheDisk, DiskOf
      <4> QED BY <1>1, <2>1, <2>2, <2>4, <3>1, <4>2, EndsWith
    <3> QED BY <1>1, <3>2, <3>3
  <2>5. CASE Fmt = "sndh" /\ lvl = 0 /\ buf = <<>> /\ want = LengthOf
    <3>1. src.fmt = "sndh" /\ ReadFrom = 0
      BY <1>1, <2>5, EmptySeq DEF Fmt, ReadFrom
    <3>2. want = IF src.base = "curl" THEN src.said ELSE src.has
      <4>1. CASE src.base = "curl"
        BY <2>2, <2>5, <4>1 DEF LengthOf
      <4>2. CASE src.base # "curl"
        <5>1. want = IF src.seeks THEN src.has ELSE -1
          BY <2>5, <4>2 DEF LengthOf
        <5>2. want # -1
          BY <2>2
        <5> QED BY <4>2, <5>1, <5>2
      <4> QED BY <4>1, <4>2
    <3>3. TheDisk = Bytes(0, want)
      BY <3>1, <3>2 DEF TheDisk, DiskOf
    <3> QED BY <1>1, <2>1, <2>2, <3>1, <3>3, EndsWith
  <2> QED BY <2>3, <2>4, <2>5
<1> QED BY <1>2, <1>3

LEMMA LoadOfGzHead ==
  ASSUME ValidStreams, StreamInv, LoadInv, GzHeader
  PROVE  LoadInv'
<1> DEFINE g == z.got \o given
<1>1. /\ vfsPc = "gzhead" /\ UNCHANGED <<src, length>>
      /\ \/ Ends(None)
         \/ /\ Call("gzhead", GZH - Len(g))
            /\ UNCHANGED <<stage, lvl, mb>>
         \/ /\ lvl' = 1 /\ stage' = "id" /\ want' = ID /\ vfsPc' = "z" /\ z' = NoZ
            /\ buf' = <<>>
  BY DEF GzHeader, Ask, baseVars
<1>2. lvl = 0 /\ src.fmt = "gz" /\ length = src.said
  BY <1>1 DEF StreamInv, PlacesTyped, StreamTyped, Inflating, LoadInv, Reader
<1>3. CASE Ends(None)
  BY <1>1, <1>3, EndsWith
<1>4. CASE Call("gzhead", GZH - Len(g)) /\ UNCHANGED <<stage, lvl, mb>>
  <2>1. InHead
    BY <1>1, <1>2 DEF LoadInv, Reader
  <2> QED BY <1>1, <1>2, <1>4, <2>1 DEF LoadInv, Reader, InHead, Call
<1>5. CASE /\ lvl' = 1 /\ stage' = "id" /\ want' = ID /\ vfsPc' = "z" /\ z' = NoZ
           /\ buf' = <<>>
  <2>1. Staged'
    BY <1>5 DEF Staged
  <2>2. ReadFrom' = 0 /\ ReadTo' = 0
    BY <1>5, EmptySeq DEF ReadFrom, ReadTo, NoZ
  <2>3. Where'
    BY <1>5, <2>2 DEF Where
  <2> QED BY <1>1, <1>2, <1>5, <2>1, <2>3 DEF LoadInv, Reader, InHead
<1> QED BY <1>1, <1>3, <1>4, <1>5

LEMMA LoadOfOpen ==
  ASSUME ValidStreams, StreamInv, LoadInv, pos = 0, buf = <<>>, OpenStream
  PROVE  LoadInv'
<1>1. /\ vfsPc = "idle" /\ length' = src'.said /\ stage' = "id" /\ want' = ID /\ Call("is", ID)
      /\ UNCHANGED <<pos, z, lvl, buf>>
  BY DEF OpenStream
<1>2. lvl = 0
  BY <1>1 DEF StreamInv, PlacesTyped, StreamTyped, Inflating
<1>3. vfsPc' = "base" /\ call'.who = "is" /\ call'.want = ID
  BY <1>1 DEF Call
<1>4. Staged'
  BY <1>1 DEF Staged
<1>5. ReadFrom' = 0 /\ ReadTo' = 0
  BY <1>1, <1>2, EmptySeq DEF ReadFrom, ReadTo
<1>6. Where'
  BY <1>1, <1>3, <1>5 DEF Where
<1> QED BY <1>1, <1>2, <1>3, <1>4, <1>6 DEF LoadInv, Reader, InHead

(* Between two loads nothing is left of the last.                          *)
NothingLeft == vfsPc = "idle" => pos = 0 /\ buf = <<>> /\ z.got = <<>> /\ ~fail

LEMMA CleanStep ==
  ASSUME ValidStreams, StreamInv, NothingLeft, [VfsNext]_vfsVars
  PROVE  NothingLeft'
<1>1. CASE vfsPc' # "idle"
  BY <1>1 DEF NothingLeft
<1>2. CASE vfsPc' = "idle"
  <2>1. CASE UNCHANGED vfsVars
    BY <2>1 DEF NothingLeft, vfsVars, baseVars, loadVars
  <2>2. CASE CloseStream
    BY <2>2 DEF NothingLeft, CloseStream, NoZ
  <2>3. CASE OpenStream
    BY <1>2, <2>3 DEF OpenStream, Call
  <2>4. CASE BaseRead \/ CurlReturns \/ CurlCopy \/ CurlPerform
    <3>1. vfsPc = "base" /\ call.who \in {"fill", "trailer", "is", "gzhead"}
      BY <2>4 DEF BaseRead, CurlReturns, CurlCopy, CurlPerform, StreamInv, PlacesTyped
    <3>2. vfsPc' = call.who \/ vfsPc' = vfsPc
      BY <2>4 DEF BaseRead, CurlReturns, CurlCopy, CurlPerform, Answer
    <3> QED BY <1>2, <3>1, <3>2
  <2>5. CASE GzStep
    BY <1>2, <2>5, GzOutcome DEF Gives, Between
  <2>6. CASE GzHeader \/ ReadId \/ ReadBase \/ ReadHeader \/ ReadIce \/ ReadData
    <3>1. \/ \E disk : Ends(disk)
          \/ \E st, n : Reads(st, n)
          \/ \E n : Call("gzhead", n)
          \/ vfsPc' = "z"
      BY <2>6 DEF GzHeader, Ask, ReadId, ReadBase, ReadHeader, ReadIce, ReadData
    <3> QED BY <1>2, <3>1 DEF Ends, Reads, Call
  <2> QED BY <2>1, <2>2, <2>3, <2>4, <2>5, <2>6 DEF VfsNext, LoadStep, GzStep
<1> QED BY <1>1, <1>2

LEMMA LoadEachStep ==
  ASSUME ValidStreams, StreamInv, NothingLeft, LoadInv, [VfsNext]_vfsVars
  PROVE  LoadInv'
<1>1. CASE BaseRead \/ CurlCopy \/ CurlReturns \/ CurlPerform BY <1>1, LoadOfBase
<1>2. CASE GzStep BY <1>2, LoadOfGz
<1>3. CASE GzHeader BY <1>3, LoadOfGzHead
<1>4. CASE ReadId BY <1>4, ReadIdStep
<1>5. CASE ReadBase BY <1>5, ReadBaseStep
<1>6. CASE ReadHeader BY <1>6, LoadOfHeader
<1>7. CASE ReadIce BY <1>7, LoadOfIce
<1>8. CASE ReadData BY <1>8, LoadOfData
<1>9. CASE OpenStream
  <2>1. pos = 0 /\ buf = <<>>
    BY <1>9 DEF NothingLeft, OpenStream
  <2> QED BY <1>9, <2>1, LoadOfOpen
<1>10. CASE CloseStream
  BY <1>10 DEF CloseStream, LoadInv, Reader
<1>11. CASE UNCHANGED vfsVars
  <2> USE <1>11 DEF vfsVars, baseVars, loadVars
  <2>1. Staged => Staged'
    BY StagedKept
  <2>2. Where => Where'
    BY DEF Where, ReadFrom, ReadTo
  <2> QED BY <2>1, <2>2, SameFile DEF LoadInv, Reader, InHead
<1> QED BY <1>1, <1>2, <1>3, <1>4, <1>5, <1>6, <1>7, <1>8, <1>9, <1>10, <1>11
        DEF VfsNext, LoadStep, GzStep

-----------------------------------------------------------------------------
(* What a read of the loader asks for is in the file.                      *)
LEMMA Fits ==
  ASSUME ValidStreams, StreamInv, FromMemory, Known, vfsPc # "idle", ~InHead, Staged
  PROVE  ReadFrom \in Nat /\ want \in Nat /\ ReadFrom + want <= Size /\ Size \in Nat
<1>1. /\ src \in Sources /\ lvl \in {0, 1} /\ want \in Nat /\ (lvl = 1 => src.fmt = "gz")
      /\ src.base = "mem" /\ src.has = src.size
  BY DEF StreamInv, StreamTyped, PlacesTyped, FromMemory
<1>2. /\ ID \in Nat /\ CHUNK \in Nat /\ HDR \in Nat \ {0} /\ ICEH \in Nat \ {0} /\ ID <= HDR
      /\ GZH \in Nat /\ GZT \in Nat /\ RATIO \in Nat \ {0}
  BY DEF ValidStreams
<1>3. /\ src.size \in Nat /\ src.seeks /\ Holds(src.fmt, src.size)
      /\ src.fmt = "gz" => src.size >= GZH + GZT /\ src.size >= HDR /\ Packed \in Nat
                           /\ Holds(src.inner, RATIO * Packed)
  BY <1>1 DEF ValidStreams, Packed
<1>4. /\ Len(<<>>) = 0 /\ Len(Bytes(0, ID)) = ID /\ Len(Bytes(0, ID + CHUNK)) = ID + CHUNK
      /\ Len(Bytes(0, ID + 2 * CHUNK)) = ID + 2 * CHUNK /\ Len(Bytes(0, ICEH)) = ICEH
  <2>1. 0 \in Nat /\ ID + CHUNK \in Nat /\ ID + 2 * CHUNK \in Nat /\ ICEH \in Nat
    BY <1>2
  <2> QED BY <1>2, <2>1, BytesAre, EmptySeq
<1>5. CASE lvl = 0
  <2>1. Fmt = src.fmt /\ Size = src.size /\ ReadFrom = Len(buf)
        /\ Fmt \in {"sc68", "ice", "sndh", "gz"} /\ LengthOf = src.size
    BY <1>1, <1>3, <1>5 DEF Fmt, Size, ReadFrom, Known, LengthOf
  <2>2. /\ Fmt = "sc68" => Size >= ID + 2 * CHUNK
        /\ Fmt = "ice" => Size >= ICEH /\ Size >= HDR
        /\ Fmt = "sndh" => Size >= HDR
        /\ Fmt = "gz" => Size >= HDR
    BY <1>2, <1>3, <2>1 DEF Holds
  <2> QED BY <1>1, <1>2, <1>3, <1>4, <1>5, <2>1, <2>2 DEF Staged
<1>6. CASE lvl = 1
  <2> DEFINE u == RATIO * Packed
  <2>1. Fmt = "sc68" /\ Size = u /\ u \in Nat /\ u >= ID + 2 * CHUNK
    <3>1. src.fmt = "gz" /\ src.inner = "sc68" /\ Packed \in Nat
      BY <1>1, <1>3, <1>6 DEF Known
    <3> QED BY <1>2, <1>3, <1>6, <3>1 DEF Fmt, Size, Holds
  <2>2. ReadFrom = Len(buf)
    BY <2>1 DEF ReadFrom, Staged
  <2> HIDE DEF u
  <2> QED BY <1>1, <1>2, <1>4, <2>1, <2>2 DEF Staged
<1> QED BY <1>1, <1>5, <1>6

LEMMA MemOfBase ==
  ASSUME ValidStreams, StreamInv, LoadInv, MemInv, BaseRead
  PROVE  MemInv'
<1>1. /\ vfsPc = "base" /\ UNCHANGED <<src, z, stage, lvl, want, buf, mb>>
      /\ src \in Sources /\ pos \in Nat /\ call.want \in Nat /\ lvl \in {0, 1} /\ z \in ZType
  BY DEF BaseRead, StreamInv, StreamTyped
<1> SUFFICES ASSUME FromMemory
             PROVE  ~fail' /\ vfsPc' # "close" /\ Enough' /\ HeadComes' /\ Unpacks'
  BY <1>1 DEF MemInv, FromMemory
<1>2. Enough /\ HeadComes /\ Unpacks /\ Reader
  BY DEF MemInv, LoadInv
<1> DEFINE k == Lesser(call.want, Rest(pos))
<1>3. src.size \in Nat /\ src.has = src.size /\ Rest(pos) \in Nat
      /\ Rest(pos) = IF pos < src.size THEN src.size - pos ELSE 0
  BY <1>1 DEF ValidStreams, FromMemory, Rest
<1>4. k \in Nat /\ k <= Rest(pos) /\ k <= call.want /\ (k = call.want \/ k = Rest(pos))
  BY <1>1, <1>3 DEF Lesser
<1>5. /\ given' = Bytes(pos, k) /\ ~fail' /\ pos' = pos + k /\ vfsPc' = call.who
      /\ call.who = "is" => read' = Bytes(pos, k) /\ ~short'
  <2>1. Counts(call.want) = {k} /\ (k = -1) = FALSE
    BY <1>4 DEF FromMemory, Counts, MemCounts
  <2>2. Answer(Bytes(pos, k), FALSE) /\ pos' = pos + k
    BY <2>1 DEF BaseRead
  <2> QED BY <2>2 DEF Answer, Deliver
<1>6. Len(Bytes(pos, k)) = k
  BY <1>1, <1>4, BytesAre
<1> HIDE DEF k
<1>7. CASE lvl = 0 /\ InHead
  <2>1. call.who = "gzhead" /\ pos = 0 /\ call.want = GZH /\ src.fmt = "gz" /\ z.got = <<>>
    BY <1>1, <1>2, <1>7 DEF Reader, HeadComes
  <2>2. GZH \in Nat /\ src.size >= GZH
    BY <1>1, <2>1 DEF ValidStreams
  <2>3. k = GZH
    BY <1>3, <1>4, <2>1, <2>2
  <2> QED BY <1>1, <1>5, <1>7, <2>1, <2>2, <2>3 DEF Enough, HeadComes, Unpacks
<1>8. CASE lvl = 0 /\ ~InHead
  <2>1. call.who = "is" /\ call.want = want /\ pos = ReadFrom /\ Staged /\ z.got = <<>>
    BY <1>1, <1>2, <1>8 DEF Reader, Where, ReadTo, HeadComes
  <2>2. Known => k = want
    <3>1. SUFFICES ASSUME Known PROVE k = want
      OBVIOUS
    <3>2. Size = src.size /\ ReadFrom + want <= Size
      BY <1>1, <1>8, <2>1, <3>1, Fits DEF Size
    <3> QED BY <1>1, <1>3, <1>4, <2>1, <3>2
  <2>3. Known' = Known
    BY <1>1 DEF Known
  <2> QED BY <1>1, <1>5, <1>6, <1>8, <2>1, <2>2, <2>3 DEF Enough, HeadComes, Unpacks
<1>9. CASE lvl = 1
  <2>1. Fed /\ Len(z.got) < want /\ call.who \in {"fill", "trailer"} /\ src.fmt = "gz"
    BY <1>1, <1>2, <1>9 DEF Unpacks, Inflating, StreamInv, PlacesTyped
  <2>2. Packed' = Packed
    BY <1>1 DEF Packed
  <2>3. Fed'
    <3>1. CASE call.who = "trailer"
      <4>1. z.fed = Packed
        BY <1>1, <2>1, <3>1 DEF Fed
      <4>2. z.fed \in Nat
        BY <1>1 DEF ZType
      <4> QED BY <1>1, <1>5, <2>2, <3>1, <4>1, <4>2 DEF Fed
    <3>2. CASE call.who = "fill"
      <4>1. SUFFICES ASSUME z.fed < Packed
                     PROVE  /\ given' = Bytes(GZH + z.fed, Len(given'))
                            /\ pos' = GZH + z.fed + Len(given') /\ given' # <<>>
        BY <1>1, <1>5, <2>2, <3>2 DEF Fed
      <4>2. z.in = <<>> /\ pos = GZH + z.fed + Len(z.in) /\ call.want = IBUF
        BY <1>1, <2>1, <3>2, <4>1 DEF Fed
      <4>3. /\ z.fed \in Nat /\ IBUF \in Nat \ {0} /\ GZH \in Nat /\ GZT \in Nat
            /\ Packed = src.size - GZH - GZT
        BY <1>1 DEF ZType, ValidStreams, Packed
      <4>4. pos = GZH + z.fed /\ pos < src.size
        BY <1>3, <4>1, <4>2, <4>3, EmptySeq
      <4>5. k > 0
        BY <1>3, <1>4, <4>2, <4>3, <4>4
      <4> QED BY <1>5, <1>6, <4>4, <4>5, EmptySeq
    <3> QED BY <2>1, <3>1, <3>2
  <2> QED BY <1>1, <1>5, <1>9, <2>1, <2>3 DEF Enough, HeadComes, Unpacks, Inflating
<1> QED BY <1>1, <1>5, <1>7, <1>8, <1>9 DEF StreamInv, PlacesTyped

(* The gzip stream from memory: it has its next bytes, or has had them all.*)
LEMMA Unpacked ==
  ASSUME ValidStreams, StreamInv, LoadInv, MemInv, FromMemory, vfsPc \in Between
  PROVE  /\ lvl = 1 /\ ~fail /\ Fed /\ (vfsPc # "z" => Len(z.got) < want)
         /\ z \in ZType /\ Packed \in Nat /\ InOrder /\ ~InHead /\ Staged /\ z.sent = ReadFrom
         /\ (vfsPc # "z" => z.out = <<>>)
<1>1. lvl = 1 /\ InOrder /\ Packed \in Nat /\ z \in ZType /\ (vfsPc # "z" => z.out = <<>>)
  BY Unpacking DEF StreamInv, StreamTyped
<1>2. ~fail /\ Fed /\ (vfsPc # "z" => Len(z.got) < want)
  BY <1>1 DEF MemInv, Unpacks, Between, Inflating
<1>3. Reader /\ vfsPc \notin {"idle", "close", "is", "gzhead", "base"}
  BY DEF LoadInv, Between
<1>4. ~InHead /\ Staged /\ Where
  BY <1>3 DEF Reader
<1> QED BY <1>1, <1>2, <1>3, <1>4 DEF Where, ReadTo

(* While it is asked for more of the file there is more to inflate.        *)
LEMMA MoreToMake ==
  ASSUME ValidStreams, StreamInv, LoadInv, MemInv, FromMemory, vfsPc \in Between \ {"z"},
         z.acc = <<>>, z.fed = Packed
  PROVE  ~Known
<1>1. SUFFICES ASSUME Known PROVE FALSE
  OBVIOUS
<1>2. /\ lvl = 1 /\ InOrder /\ z.out = <<>> /\ z.sent = ReadFrom /\ Len(z.got) < want
      /\ ~InHead /\ Staged /\ Packed \in Nat /\ z \in ZType
  BY Unpacked
<1>3. ReadFrom \in Nat /\ want \in Nat /\ ReadFrom + want <= Size
  BY <1>1, <1>2, Fits DEF Between
<1>4. RATIO \in Nat /\ Size = RATIO * Packed
  BY <1>2 DEF ValidStreams, Size
<1>5. Len(z.got) \in Nat /\ Len(z.out) = 0 /\ Len(z.acc) = 0
  BY <1>2, LenProperties, EmptySeq DEF ZType
<1>6. z.fed * RATIO = z.sent + Len(z.got)
  BY <1>2, <1>3, <1>5 DEF InOrder, Made
<1>7. Packed * RATIO = RATIO * Packed
  BY <1>2, <1>4
<1>8. Size = ReadFrom + Len(z.got)
  BY <1>2, <1>4, <1>6, <1>7
<1> QED BY <1>2, <1>3, <1>5, <1>8

LEMMA MemGoes ==
  ASSUME ValidStreams, StreamInv, LoadInv, MemInv, FromMemory, vfsPc \in Between, UNCHANGED restOfZ,
         vfsPc' \in Between \cup {"base"}, Fed', vfsPc' # "z" => Len(z'.got) < want
  PROVE  MemInv'
<1>1. lvl' = 1 /\ want' = want /\ ~fail' /\ ~InHead'
  BY Unpacked DEF restOfZ, baseVars, InHead
<1> QED BY <1>1 DEF MemInv, Enough, HeadComes, Unpacks, Inflating, Between

LEMMA MemGives ==
  ASSUME ValidStreams, StreamInv, LoadInv, MemInv, FromMemory, vfsPc \in Between, UNCHANGED restOfZ,
         Gives(z.got, FALSE), Known => Len(z.got) = want, Fed'
  PROVE  MemInv'
<1>1. lvl' = 1 /\ lvl = 1 /\ want' = want /\ ~fail' /\ src' = src
  BY Unpacked DEF restOfZ, baseVars
<1>2. vfsPc' = "is" /\ read' = z.got /\ ~short'
  BY DEF Gives, Deliver
<1>3. Known' = Known
  BY <1>1 DEF Known
<1> QED BY <1>1, <1>2, <1>3 DEF MemInv, Enough, HeadComes, Unpacks, Inflating

(* What it knows of its input changes only as it eats it or has it filled. *)
LEMMA FedKept ==
  ASSUME Fed, UNCHANGED restOfZ, z'.fed = z.fed, z'.in = z.in,
         vfsPc # "fill", vfsPc' \in {"z", "inflate", "is"}
  PROVE  Fed'
BY DEF Fed, Packed, restOfZ, baseVars

LEMMA FedAll ==
  ASSUME Packed \in Nat, UNCHANGED restOfZ, z'.fed = Packed,
         vfsPc' = "base" => call'.who = "trailer" \/ call'.want = IBUF
  PROVE  Fed'
<1>1. Packed' = Packed
  BY DEF Packed, restOfZ, baseVars
<1> QED BY <1>1 DEF Fed

LEMMA MemOfInflated ==
  ASSUME ValidStreams, StreamInv, LoadInv, MemInv, FromMemory, vfsPc \in Between \ {"z"},
         UNCHANGED restOfZ, Inflated, z.acc # <<>> \/ z.fed = Packed,
         vfsPc = "inflate" \/ z.fed = Packed
  PROVE  MemInv'
<1>1. Fed /\ z \in ZType /\ Packed \in Nat
  BY Unpacked
<1>2. vfsPc' \in {"z", "is"} /\ z'.fed = z.fed /\ z'.in = z.in
  BY <1>1 DEF Inflated, Gives, ZGoto, ZType
<1>3. Fed'
  <2>1. CASE vfsPc = "inflate"
    BY <1>1, <1>2, <2>1, FedKept
  <2>2. CASE z.fed = Packed
    BY <1>1, <1>2, <2>2, FedAll
  <2> QED BY <2>1, <2>2
<1>4. CASE z.acc = <<>>
  <2>1. Gives(z.got, FALSE) /\ ~Known
    BY <1>4, MoreToMake DEF Inflated
  <2> QED BY <1>3, <2>1, MemGives
<1>5. CASE z.acc # <<>>
  <2>1. vfsPc' = "z"
    BY <1>5 DEF Inflated, ZGoto
  <2> QED BY <1>3, <2>1, MemGoes DEF Between
<1> QED BY <1>4, <1>5

LEMMA MemOfZRead ==
  ASSUME ValidStreams, StreamInv, LoadInv, MemInv, FromMemory, ZRead
  PROVE  MemInv'
<1> DEFINE n == Lesser(Len(z.out), want - Len(z.got))
<1>1. /\ vfsPc = "z" /\ UNCHANGED restOfZ
      /\ IF Len(z.got) = want THEN Gives(z.got, FALSE)
         ELSE IF n = 0 THEN ZGoto("inflate", z)
         ELSE ZGoto("z", [z EXCEPT !.got = @ \o SubSeq(z.out, 1, n),
                                  !.out = SubSeq(@, n + 1, Len(@))])
  BY DEF ZRead
<1>2. vfsPc \in Between /\ Fed /\ z \in ZType /\ Len(z.got) <= want /\ Len(z.got) \in Nat
      /\ want \in Nat
  <2>1. vfsPc \in Between
    BY <1>1 DEF Between
  <2> QED BY <2>1, Unpacked, LenProperties DEF InOrder, ZType, StreamInv, StreamTyped
<1> HIDE DEF n
<1>3. z'.fed = z.fed /\ z'.in = z.in /\ vfsPc' \in {"z", "inflate", "is"}
  BY <1>1, <1>2 DEF ZGoto, Gives, ZType
<1>4. Fed'
  BY <1>1, <1>2, <1>3, FedKept
<1>5. CASE Len(z.got) = want
  BY <1>1, <1>2, <1>4, <1>5, MemGives
<1>6. CASE Len(z.got) # want
  <2>1. vfsPc' = "z" \/ (vfsPc' = "inflate" /\ z' = z)
    BY <1>1, <1>6 DEF ZGoto
  <2>2. Len(z.got) < want
    BY <1>2, <1>6
  <2> QED BY <1>1, <1>2, <1>4, <2>1, <2>2, MemGoes DEF Between
<1> QED BY <1>5, <1>6

LEMMA MemOfInflate ==
  ASSUME ValidStreams, StreamInv, LoadInv, MemInv, FromMemory, Inflate
  PROVE  MemInv'
<1> DEFINE m == (OBUF - Len(z.acc)) \div RATIO
           k == Lesser(Len(z.in), m)
           n == Lesser(Packed - z.fed, k)
           l == Len(z.in)
<1>1. /\ vfsPc = "inflate" /\ UNCHANGED restOfZ
      /\ IF Len(z.acc) = OBUF THEN Inflated
         ELSE IF z.in = <<>> THEN Ask("fill", IBUF, z)
         ELSE IF z.fed < Packed /\ z.in # Bytes(GZH + z.fed, Len(z.in)) THEN Gives(<<>>, TRUE)
         ELSE ZGoto(IF z.fed + n = Packed THEN "end" ELSE "inflate", Eaten(n))
  BY DEF Inflate
<1>2. vfsPc \in Between \ {"z"} /\ OBUF \in Nat \ {0} /\ RATIO \in Nat \ {0} /\ GZH \in Nat
  BY <1>1 DEF Between, ValidStreams
<1>3. /\ Fed /\ Len(z.got) < want /\ z \in ZType /\ Packed \in Nat /\ InOrder
      /\ z.fed \in Nat /\ z.in \in Seq(Nat) /\ l \in Nat /\ Len(z.acc) \in Nat
  BY <1>2, Unpacked, LenProperties DEF ZType
<1>4. z.fed < Packed => z.in = Bytes(GZH + z.fed, l) /\ pos = GZH + z.fed + l
  BY <1>1, <1>3 DEF Fed
<1>5. UNCHANGED <<pos, given, want>> /\ Packed' = Packed
  BY <1>1 DEF restOfZ, baseVars, Packed
<1>6. CASE Len(z.acc) = OBUF
  <2>1. z.acc # <<>> /\ Inflated
    BY <1>1, <1>2, <1>6, EmptySeq
  <2> QED BY <1>1, <1>2, <2>1, MemOfInflated
<1>7. CASE Len(z.acc) # OBUF /\ z.in = <<>>
  <2>1. Ask("fill", IBUF, z)
    BY <1>1, <1>7
  <2>2. vfsPc' = "base" /\ call'.who = "fill" /\ call'.want = IBUF /\ z' = z
    BY <2>1 DEF Ask, Call
  <2>3. Fed'
    BY <1>4, <1>5, <1>7, <2>2 DEF Fed
  <2> QED BY <1>1, <1>2, <1>3, <1>5, <2>2, <2>3, MemGoes
<1>8. CASE Len(z.acc) # OBUF /\ z.in # <<>>
  <2>1. ZGoto(IF z.fed + n = Packed THEN "end" ELSE "inflate", Eaten(n))
    BY <1>1, <1>4, <1>8
  <2>2. n \in Nat /\ n <= l /\ n <= Packed - z.fed
    <3>1. z.fed <= Packed /\ Len(z.acc) <= OBUF
      BY <1>3 DEF InOrder
    <3>2. m \in Nat
      <4>1. OBUF - Len(z.acc) \in Nat
        BY <1>2, <1>3, <3>1
      <4>2. RATIO \in Nat \ {0}
        BY <1>2
      <4> QED BY <4>1, <4>2
    <3> HIDE DEF m, l
    <3>3. k = Lesser(l, m) /\ n = Lesser(Packed - z.fed, k)
      BY DEF l
    <3> HIDE DEF k, n
    <3> QED BY <1>3, <3>1, <3>2, <3>3 DEF Lesser
  <2> HIDE DEF n, l
  <2>3. z'.got = z.got /\ z'.fed = z.fed + n /\ z'.in = SubSeq(z.in, n + 1, l)
    BY <1>3, <2>1 DEF ZGoto, Eaten, ZType, l
  <2>4. Fed' /\ vfsPc' \in {"end", "inflate"}
    <3>1. CASE z.fed + n = Packed
      <4>1. vfsPc' = "end"
        BY <2>1, <3>1 DEF ZGoto
      <4> QED BY <1>1, <1>3, <2>3, <3>1, <4>1, FedAll
    <3>2. CASE z.fed + n # Packed
      <4>1. vfsPc' = "inflate"
        BY <2>1, <3>2 DEF ZGoto
      <4>2. z.fed < Packed
        BY <1>3, <2>2, <3>2
      <4>3. /\ z.in = Bytes(GZH + z.fed, l) /\ pos = GZH + z.fed + l
            /\ GZH + z.fed \in Nat /\ n \in 0..l
        BY <1>2, <1>3, <1>4, <2>2, <4>2
      <4>4. z'.in = Bytes(GZH + z.fed + n, l - n)
        <5>1. l \in Nat
          BY <1>3 DEF l
        <5>2. \A q \in Nat : SubSeq(Bytes(q, l), n + 1, l) = Bytes(q + n, l - n)
          BY <4>3, <5>1, BytesCut
        <5>3. SubSeq(Bytes(GZH + z.fed, l), n + 1, l) = Bytes(GZH + z.fed + n, l - n)
          BY <4>3, <5>2
        <5> QED BY <2>3, <4>3, <5>3
      <4>5. Len(z'.in) = l - n /\ GZH + z.fed + n = GZH + z'.fed
        <5>1. GZH + z.fed + n \in Nat /\ l - n \in Nat
          BY <1>3, <4>3
        <5>2. Len(z'.in) = l - n
          BY <4>4, <5>1, BytesAre
        <5> QED BY <1>2, <1>3, <2>2, <2>3, <5>2
      <4>6. z'.in = Bytes(GZH + z'.fed, Len(z'.in)) /\ pos' = GZH + z'.fed + Len(z'.in)
        <5>1. z'.fed = z.fed + n /\ pos' = pos
          BY <1>5, <2>3
        <5>2. l \in Nat /\ n \in Nat /\ z.fed \in Nat /\ GZH \in Nat
          BY <1>2, <1>3, <2>2 DEF l
        <5>3. GZH + z.fed + l = GZH + (z.fed + n) + (l - n)
          BY <5>2
        <5>4. pos = GZH + (z.fed + n) + (l - n)
          BY <4>3, <5>3
        <5>5. z'.in = Bytes(GZH + z'.fed, l - n)
          BY <4>4, <4>5
        <5> QED BY <4>5, <5>1, <5>4, <5>5
      <4> QED BY <4>1, <4>6 DEF Fed
    <3> QED BY <3>1, <3>2
  <2> QED BY <1>1, <1>2, <1>3, <1>5, <2>3, <2>4, MemGoes DEF Between
<1> QED BY <1>6, <1>7, <1>8

LEMMA MemOfFill ==
  ASSUME ValidStreams, StreamInv, LoadInv, MemInv, FromMemory, Fill
  PROVE  MemInv'
<1>1. vfsPc = "fill" /\ UNCHANGED restOfZ /\ vfsPc \in Between \ {"z"}
  BY DEF Fill, Between
<1>2. /\ ~fail /\ Fed /\ Len(z.got) < want /\ z \in ZType /\ Packed \in Nat
      /\ z.fed \in Nat /\ z.fed <= Packed
  BY <1>1, Unpacked DEF ZType, InOrder
<1>3. CASE given = <<>>
  <2>1. z.fed = Packed
    BY <1>1, <1>2, <1>3 DEF Fed
  <2>2. Inflated
    BY <1>2, <1>3 DEF Fill
  <2> QED BY <1>1, <2>1, <2>2, MemOfInflated
<1>4. CASE given # <<>>
  <2>1. ZGoto("inflate", [z EXCEPT !.in = given])
    BY <1>2, <1>4 DEF Fill
  <2>2. vfsPc' = "inflate" /\ z'.in = given /\ z'.fed = z.fed /\ z'.got = z.got
    BY <1>2, <2>1 DEF ZGoto, ZType
  <2>3. UNCHANGED <<pos, given, want>> /\ Packed' = Packed
    BY <1>1 DEF restOfZ, baseVars, Packed
  <2>4. Fed'
    BY <1>1, <1>2, <2>2, <2>3 DEF Fed
  <2> QED BY <1>1, <1>2, <2>2, <2>3, <2>4, MemGoes DEF Between
<1> QED BY <1>3, <1>4

LEMMA MemOfTrailer ==
  ASSUME ValidStreams, StreamInv, LoadInv, MemInv, FromMemory, DataEnd \/ TailDue \/ Trailer
  PROVE  MemInv'
<1>1. vfsPc \in {"end", "tail", "trailer"} /\ UNCHANGED restOfZ /\ vfsPc \in Between \ {"z"}
  BY DEF DataEnd, TailDue, Trailer, Between
<1>2. Fed /\ Len(z.got) < want /\ z \in ZType /\ Packed \in Nat
  BY <1>1, Unpacked
<1>3. z.fed = Packed
  BY <1>1, <1>2 DEF Fed
<1>4. CASE Inflated
  BY <1>1, <1>3, <1>4, MemOfInflated
<1>5. CASE ~Inflated
  <2>1. /\ vfsPc' \in {"tail", "base"} /\ z'.fed = z.fed /\ z'.got = z.got
        /\ vfsPc' = "base" => call'.who = "trailer"
    <3>1. CASE DataEnd
      BY <1>2, <3>1 DEF DataEnd, ZGoto, ZType
    <3>2. CASE TailDue
      BY <1>5, <3>2 DEF TailDue, Ask, Call
    <3>3. CASE Trailer
      BY <1>2, <3>3 DEF Trailer, ZGoto, ZType
    <3> QED BY <3>1, <3>2, <3>3
  <2>2. Fed'
    BY <1>1, <1>2, <1>3, <2>1, FedAll
  <2> QED BY <1>1, <1>2, <2>1, <2>2, MemGoes DEF Between
<1> QED BY <1>4, <1>5

(* The steps of the loader.                                                *)
Loads == src.fmt \in {"sc68", "ice", "sndh"} \/ (src.fmt = "gz" /\ src.inner = "sc68")

LEMMA LoadsNothing ==
  /\ ~Loads => TheDisk = None
  /\ Loads => Known
BY DEF Loads, Known, TheDisk, DiskOf

LEMMA NotNone == ASSUME NEW p \in Nat, NEW n \in Nat PROVE Bytes(p, n) # None
<1>1. Len(Bytes(p, n)) = n /\ \A i \in 1..n : Bytes(p, n)[i] = p + i
  BY BytesAre
<1>2. Len(None) = 1 /\ None[1] = 0
  BY DEF None
<1>3. SUFFICES ASSUME n = 1 PROVE Bytes(p, n)[1] # 0
  BY <1>1, <1>2
<1>4. Bytes(p, n)[1] = p + 1
  BY <1>1, <1>3
<1> QED BY <1>4

(* What it has so far is the head of the file.                             *)
LEMMA HeadOfFile ==
  ASSUME ValidStreams, StreamInv, LoadInv, vfsPc = "is", Complete, ReadFrom = Len(buf)
  PROVE  SoFar = Bytes(0, Len(SoFar)) /\ SoFar # None /\ read # None
<1>1. Staged /\ want \in Nat /\ ReadFrom \in Nat /\ read = Bytes(ReadFrom, want)
  BY HasRead
<1>2. buf = Bytes(0, ReadFrom)
  <2>1. 0 \in Nat /\ Bytes(0, 0) = <<>> /\ Len(<<>>) = 0
    BY NoBytes, EmptySeq
  <2>2. \A n \in Nat : Len(Bytes(0, n)) = n
    BY <2>1, BytesAre
  <2>3. ID \in Nat /\ ID + CHUNK \in Nat /\ ID + 2 * CHUNK \in Nat /\ ICEH \in Nat
    BY DEF ValidStreams
  <2>4. buf \in {<<>>, Bytes(0, ID), Bytes(0, ID + CHUNK), Bytes(0, ID + 2 * CHUNK), Bytes(0, ICEH)}
    BY <1>1 DEF Staged
  <2> QED BY <2>1, <2>2, <2>3, <2>4
<1>3. SoFar = Bytes(0, ReadFrom + want) /\ ReadFrom + want \in Nat
  <2>1. Bytes(0, ReadFrom) \o Bytes(ReadFrom, want) = Bytes(0, ReadFrom + want)
    BY <1>1, JoinsHead
  <2>2. ReadFrom + want \in Nat
    BY <1>1
  <2> HIDE DEF ReadFrom
  <2> QED BY <1>1, <1>2, <2>1, <2>2 DEF SoFar
<1>4. 0 \in Nat
  OBVIOUS
<1> QED BY <1>1, <1>3, <1>4, BytesAre, NotNone

LEMMA MemComplete ==
  ASSUME ValidStreams, StreamInv, LoadInv, MemInv, FromMemory, vfsPc = "is"
  PROVE  /\ ~short /\ z.got = <<>> /\ ~fail /\ lvl \in {0, 1} /\ (Loads => Complete)
         /\ Reader /\ ~InHead /\ Staged /\ src \in Sources
<1>1. Enough /\ HeadComes /\ lvl \in {0, 1} /\ ~fail /\ Reader /\ src \in Sources
  BY DEF MemInv, StreamInv, StreamTyped, LoadInv
<1>2. ~InHead /\ Staged
  BY <1>1 DEF Reader
<1>3. z.got = <<>>
  BY <1>1 DEF HeadComes, Enough, StreamInv, Flow
<1> QED BY <1>1, <1>2, <1>3, LoadsNothing DEF Enough, Complete

LEMMA MemEnds ==
  ASSUME MemInv, FromMemory, NEW disk, Ends(disk), disk = TheDisk, z.got = <<>>,
         UNCHANGED <<src, fail>>
  PROVE  MemInv'
<1>1. lvl' = 0 /\ vfsPc' = "close" /\ mb' = disk /\ z' = z /\ ~fail' /\ TheDisk' = TheDisk
  BY SameFile DEF Ends, MemInv
<1> QED BY <1>1 DEF MemInv, Enough, HeadComes, Unpacks

LEMMA MemReads ==
  ASSUME ValidStreams, StreamInv, LoadInv, MemInv, FromMemory, vfsPc = "is", NEW st, NEW n, st # "gz",
         Reads(st, n), UNCHANGED <<src, given, fail>>, lvl = 1 => pos' = pos
  PROVE  MemInv'
<1>1. /\ ~fail' /\ lvl' = lvl /\ z' = z /\ stage' = st /\ z.got = <<>> /\ lvl \in {0, 1}
      /\ IF lvl = 0 THEN Call("is", n) ELSE vfsPc' = "z"
  BY MemComplete DEF Reads
<1>2. Unpacks'
  <2> SUFFICES ASSUME lvl = 1 PROVE Fed' /\ vfsPc' = "z"
    BY <1>1 DEF Unpacks, Inflating
  <2>1. Fed /\ vfsPc' = "z"
    BY <1>1 DEF MemInv, Unpacks
  <2> QED BY <1>1, <2>1 DEF Fed, Packed
<1> QED BY <1>1, <1>2 DEF MemInv, Enough, HeadComes, InHead, Call

LEMMA MemOfId ==
  ASSUME ValidStreams, StreamInv, LoadInv, MemInv, FromMemory, ReadId \/ ReadBase
  PROVE  MemInv'
<1>1. vfsPc = "is" /\ UNCHANGED <<src, pos, given, fail>> /\ stage \in {"id", "chunk", "size"}
  BY DEF ReadId, ReadBase, baseVars
<1>2. z.got = <<>> /\ Staged /\ (Loads => Complete)
  BY <1>1, MemComplete
<1>3. Complete /\ stage \in {"chunk", "size"} => Is("sc68")
  BY <1>1, <1>2, HeadOfFile DEF Staged, Is, ReadFrom
<1>4. \/ \E st, n : Reads(st, n) /\ st # "gz"
      \/ Ends(None) /\ ~Loads
  BY <1>1, <1>2, <1>3 DEF ReadId, ReadBase
<1>5. CASE Ends(None) /\ ~Loads
  BY <1>1, <1>2, <1>5, LoadsNothing, MemEnds
<1>6. CASE \E st, n : Reads(st, n) /\ st # "gz"
  BY <1>1, <1>6, MemReads
<1> QED BY <1>4, <1>5, <1>6

LEMMA MemOfHeader ==
  ASSUME ValidStreams, StreamInv, LoadInv, MemInv, FromMemory, ReadHeader
  PROVE  MemInv'
<1>1. vfsPc = "is" /\ UNCHANGED <<src, given, fail>> /\ stage = "header"
  BY DEF ReadHeader
<1>2. /\ z.got = <<>> /\ Fmt # "sc68" /\ (Loads => Complete) /\ lvl \in {0, 1} /\ ~fail
      /\ src \in Sources
  BY <1>1, MemComplete DEF Staged
<1>3. CASE Ends(None)
  <2>1. SUFFICES ASSUME Loads PROVE FALSE
    BY <1>1, <1>2, <1>3, LoadsNothing, MemEnds
  <2>2. Complete /\ lvl = 0 /\ Fmt = src.fmt /\ src.fmt \in {"ice", "sndh", "gz"}
    <3>1. lvl = 1 => src.fmt = "gz"
      BY DEF StreamInv, PlacesTyped
    <3> QED BY <1>2, <2>1, <3>1 DEF Fmt, Loads
  <2>3. Is(Fmt)
    BY <1>1, <2>2, HeadOfFile DEF Is, ReadFrom
  <2>4. src.seeks /\ (src.fmt = "sndh" => LengthOf > HDR)
    BY <1>2, <2>2 DEF ValidStreams, FromMemory, Holds, LengthOf
  <2>5. vfsPc' = "close"
    BY <1>3 DEF Ends
  <2>6. \/ Call("gzhead", GZH)
        \/ Reads("icehead", ICEH)
        \/ Reads("data", LengthOf)
    BY <2>2, <2>3, <2>4 DEF ReadHeader, Is
  <2>7. vfsPc' \in {"base", "z"}
    BY <2>6 DEF Reads, Call
  <2> QED BY <2>5, <2>7
<1>4. CASE ~Ends(None)
  <2>1. /\ pos' = IF lvl = 0 THEN 0 ELSE pos
        /\ \/ Is("gz") /\ lvl = 0 /\ Call("gzhead", GZH) /\ stage' = "gz"
              /\ UNCHANGED <<z, lvl, want, read, short, buf, mb>>
           \/ Reads("icehead", ICEH)
           \/ Reads("data", LengthOf)
    BY <1>4 DEF ReadHeader
  <2>2. CASE Reads("icehead", ICEH) \/ Reads("data", LengthOf)
    <3>1. lvl = 1 => pos' = pos
      BY <2>1
    <3>2. "icehead" # "gz" /\ "data" # "gz"
      OBVIOUS
    <3> QED BY <1>1, <2>2, <3>1, <3>2, MemReads
  <2>3. CASE /\ lvl = 0 /\ Call("gzhead", GZH) /\ stage' = "gz"
             /\ UNCHANGED <<z, lvl, want, read, short, buf, mb>>
    <3>1. vfsPc' = "base" /\ call'.want = GZH /\ pos' = 0 /\ lvl' = 0
      BY <2>1, <2>3 DEF Call
    <3> QED BY <1>1, <1>2, <2>3, <3>1 DEF MemInv, Enough, HeadComes, Unpacks
  <2> QED BY <2>1, <2>2, <2>3
<1> QED BY <1>3, <1>4

LEMMA MemOfDisk ==
  ASSUME ValidStreams, StreamInv, LoadInv, MemInv, FromMemory, ReadIce \/ ReadData
  PROVE  MemInv'
<1>1. vfsPc = "is" /\ UNCHANGED <<src, pos, given, fail>> /\ stage \in {"icehead", "ice", "data"}
  BY DEF ReadIce, ReadData, baseVars
<1>2. z.got = <<>> /\ Staged /\ (Loads => Complete) /\ lvl \in {0, 1}
  BY <1>1, MemComplete
<1>3. CASE ~Complete
  <2>1. Ends(None)
    BY <1>3 DEF ReadIce, ReadData
  <2> QED BY <1>1, <1>2, <1>3, <2>1, LoadsNothing, MemEnds
<1>4. CASE Complete /\ stage \in {"ice", "data"}
  <2>1. PICK disk \in {SoFar, read} : Ends(disk)
    BY <1>4 DEF ReadIce, ReadData
  <2>2. disk # None
    BY <1>1, <1>4, HeadOfFile DEF ReadFrom
  <2>3. LoadInv'
    BY LoadOfIce, LoadOfData
  <2>4. disk = TheDisk
    BY <1>1, <2>1, <2>2, <2>3, SameFile DEF LoadInv, Ends
  <2> QED BY <1>1, <1>2, <2>1, <2>4, MemEnds
<1>5. CASE Complete /\ stage = "icehead"
  <2>1. Reads("ice", Size - ICEH) \/ (Ends(None) /\ ~Is("ice"))
    BY <1>5 DEF ReadIce, ReadData
  <2>2. CASE Reads("ice", Size - ICEH)
    <3>1. "ice" # "gz"
      OBVIOUS
    <3> QED BY <1>1, <2>2, <3>1, MemReads
  <2>3. CASE Ends(None) /\ ~Is("ice")
    <3>1. SUFFICES ASSUME Loads PROVE FALSE
      BY <1>1, <1>2, <2>3, LoadsNothing, MemEnds
    <3>2. Fmt = "ice" /\ (lvl = 1 => src.fmt = "gz")
      BY <1>2, <1>5 DEF Staged, StreamInv, PlacesTyped
    <3>3. lvl = 0
      BY <1>2, <3>1, <3>2 DEF Fmt, Loads
    <3> QED BY <1>1, <1>5, <2>3, <3>2, <3>3, HeadOfFile DEF ReadFrom, Is
  <2> QED BY <2>1, <2>2, <2>3
<1> QED BY <1>1, <1>3, <1>4, <1>5

LEMMA MemOfGzHead ==
  ASSUME ValidStreams, StreamInv, LoadInv, MemInv, FromMemory, GzHeader
  PROVE  MemInv'
<1> DEFINE g == z.got \o given
<1>1. /\ vfsPc = "gzhead" /\ UNCHANGED <<src, pos, given, fail>>
      /\ IF given = <<>> \/ (Len(g) = GZH /\ g # Bytes(0, GZH)) THEN Ends(None)
         ELSE IF Len(g) < GZH
         THEN Ask("gzhead", GZH - Len(g), [z EXCEPT !.got = g])
              /\ UNCHANGED <<stage, lvl, want, buf, mb>>
         ELSE /\ lvl' = 1 /\ stage' = "id" /\ want' = ID /\ vfsPc' = "z" /\ z' = NoZ
              /\ buf' = <<>> /\ read' = <<>> /\ UNCHANGED <<short, mb, call>>
  BY DEF GzHeader, baseVars
<1>2. lvl = 0 /\ GZH \in Nat \ {0} /\ 0 \in Nat /\ src.fmt = "gz" /\ src \in Sources
  BY <1>1 DEF StreamInv, StreamTyped, PlacesTyped, Inflating, ValidStreams
<1>3. given = Bytes(0, GZH) /\ pos = GZH /\ z.got = <<>> /\ ~fail
  BY <1>1, <1>2 DEF MemInv, HeadComes
<1>4. given \in Seq(Nat) /\ Len(given) = GZH /\ given # <<>>
  BY <1>2, <1>3, BytesAre, EmptySeq
<1>5. g = given
  BY <1>3, <1>4, ConcatEmptySeq
<1> HIDE DEF g
<1>6. lvl' = 1 /\ stage' = "id" /\ vfsPc' = "z" /\ z' = NoZ
  BY <1>1, <1>2, <1>3, <1>4, <1>5
<1>7. Fed'
  <2>1. Bytes(GZH, 0) = <<>> /\ Len(<<>>) = 0
    BY <1>2, NoBytes, EmptySeq
  <2>2. z'.in = <<>> /\ z'.fed = 0 /\ GZH + 0 = GZH /\ GZH + 0 + 0 = GZH
    BY <1>2, <1>6 DEF NoZ
  <2> QED BY <1>1, <1>3, <1>6, <2>1, <2>2 DEF Fed
<1> QED BY <1>1, <1>3, <1>6, <1>7 DEF MemInv, Enough, HeadComes, Unpacks, Inflating

LEMMA MemOfOpen ==
  ASSUME ValidStreams, StreamInv, NothingLeft, OpenStream
  PROVE  MemInv'
<1>1. vfsPc = "idle" /\ stage' = "id" /\ Call("is", ID) /\ UNCHANGED <<fail, z, lvl>>
  BY DEF OpenStream
<1>2. lvl = 0 /\ ~fail /\ z.got = <<>>
  BY <1>1 DEF StreamInv, PlacesTyped, StreamTyped, Inflating, NothingLeft
<1> QED BY <1>1, <1>2 DEF MemInv, Enough, HeadComes, Unpacks, InHead, Call

LEMMA MemEachStep ==
  ASSUME ValidStreams, StreamInv, NothingLeft, LoadInv, MemInv, [VfsNext]_vfsVars
  PROVE  MemInv'
<1>1. CASE OpenStream BY <1>1, MemOfOpen
<1>2. CASE CloseStream
  BY <1>2 DEF CloseStream, MemInv, FromMemory, NoSource
<1>3. CASE UNCHANGED vfsVars
  <2> USE <1>3 DEF vfsVars, baseVars, loadVars
  <2>1. Known' = Known /\ TheDisk' = TheDisk /\ FromMemory' = FromMemory /\ InHead' = InHead
    BY SameFile DEF Known, FromMemory, InHead
  <2>2. Fed => Fed'
    BY DEF Fed, Packed
  <2> QED BY <2>1, <2>2 DEF MemInv, Enough, HeadComes, Unpacks
<1>4. CASE CurlCopy \/ CurlReturns \/ CurlPerform
  BY <1>4 DEF CurlCopy, CurlReturns, CurlPerform, MemInv, FromMemory, baseVars
<1>5. CASE LoadStep /\ ~CloseStream /\ ~(CurlCopy \/ CurlReturns \/ CurlPerform)
  <2>1. src' = src
    BY <1>5 DEF LoadStep, BaseRead, GzHeader, ZRead, Inflate, Fill, DataEnd, TailDue, Trailer,
                ReadId, ReadBase, ReadHeader, ReadIce, ReadData, restOfZ, baseVars
  <2> SUFFICES ASSUME FromMemory PROVE MemInv'
    BY <2>1 DEF MemInv, FromMemory
  <2> QED BY <1>5, MemOfBase, MemOfGzHead, MemOfZRead, MemOfInflate, MemOfFill, MemOfTrailer,
             MemOfId, MemOfHeader, MemOfDisk DEF LoadStep
<1> QED BY <1>1, <1>2, <1>3, <1>4, <1>5 DEF VfsNext

-----------------------------------------------------------------------------
LEMMA LoadsInit == ValidStreams /\ VfsInit => NothingLeft /\ LoadInv /\ MemInv
BY DEF VfsInit, NothingLeft, LoadInv, Reader, MemInv, FromMemory, NoSource, NoZ

LEMMA LoadsWhole == LoadInv /\ MemInv => FileOrNothing
BY DEF LoadInv, MemInv, FromMemory, FileOrNothing

LEMMA LoadsStep ==
  ASSUME ValidStreams, StreamInv, NothingLeft, LoadInv, MemInv, [VfsNext]_vfsVars
  PROVE  NothingLeft' /\ LoadInv' /\ MemInv'
BY CleanStep, LoadEachStep, MemEachStep

(* For all sizes, sources and servers: file68_load() gives all of the file *)
(* or nothing, and all of it when it is whole and in memory, except inner  *)
(* formats that need a seek in the gzip stream (file68.c, vfs68_z.c).      *)
THEOREM LoadsFileOrNothing == ValidStreams => (VfsSpec => []FileOrNothing)
<1>1. ValidStreams /\ VfsInit => StreamInv /\ NothingLeft /\ LoadInv /\ MemInv
  BY InitInv, LoadsInit
<1>2. ValidStreams /\ (StreamInv /\ NothingLeft /\ LoadInv /\ MemInv) /\ [VfsNext]_vfsVars
        => (StreamInv /\ NothingLeft /\ LoadInv /\ MemInv)'
  BY EachStep, LoadsStep
<1>3. LoadInv /\ MemInv => FileOrNothing
  BY LoadsWhole
<1>4. ValidStreams => ValidStreams'
  OBVIOUS
<1> QED BY <1>1, <1>2, <1>3, <1>4, PTL DEF VfsSpec

-----------------------------------------------------------------------------
(* Saving.                                                                 *)
(* What goes to a sink waits, in order, in stdio (unflushed) and in the    *)
(* output buffer of the gzip stream (zout), behind what is there: all that *)
(* was produced is in one of the three, unless the sink is full; then      *)
(* nothing more gets there.  A sink with room for all of it never fails.   *)
Flushing == {"piece", "deflate", "finish", "last"}
SavePcs == {"idle", "header", "trailer", "close", "told"} \cup Flushing
Waiting == IF savePc \in Flushing THEN Len(zout) ELSE 0
Produced ==
  CASE savePc = "header" -> 0
    [] savePc \in Flushing -> IF to.gzip THEN GZH + zmade ELSE Before(piece)
    [] savePc = "trailer" -> GZH + Deflated
    [] OTHER -> IF to.ok THEN Total ELSE 0

SaveTyped ==
  /\ savePc \in SavePcs
  /\ unflushed \in Seq(Nat) /\ zout \in Seq(Nat) /\ Len(zout) <= ZBUF
  /\ piece \in 1..(Len(PieceEnds) + 1) /\ zmade \in 0..Deflated
  /\ savePc \in {"idle", "header"} => zout = <<>> /\ zmade = 0
  /\ savePc = "idle" => sink = <<>> /\ unflushed = <<>> /\ piece = 1 /\ result = 0
  /\ savePc # "idle" =>
       /\ to \in Sinks
       /\ ~to.gzip => zout = <<>> /\ savePc \in {"piece", "close", "told"}
       /\ to.base # "file" => unflushed = <<>>
  /\ savePc \notin {"idle", "close", "told"} => to.ok
  /\ savePc = "last" => zmade = Deflated
  /\ savePc = "told" => unflushed = <<>>

Sunk(s) == s \in Seq(Nat) /\ s = Bytes(0, Len(s)) /\ Len(s) <= to.room
Behind(s, u) == u = Bytes(Len(s), Len(u))
InSequence ==
  /\ Behind(sink, unflushed)
  /\ savePc \in Flushing => zout = Bytes(Len(sink) + Len(unflushed), Len(zout))
  /\ Len(sink) + Len(unflushed) + Waiting = Produced
Full == Len(sink) = to.room
SinkInv ==
  savePc # "idle" =>
    /\ Sunk(sink)
    /\ InSequence \/ Full
    /\ to.room >= Total => InSequence /\ (to.ok => result = 0)

-----------------------------------------------------------------------------
(* What a write leaves in the sink: as much as there is room for.          *)
LEMMA PutIs ==
  ASSUME NEW s \in Nat, NEW n \in Nat, to.room \in Nat, sink = Bytes(0, s), s <= to.room
  PROVE  LET k == Lesser(n, to.room - s) IN /\ Put(Bytes(s, n)) = Bytes(0, s + k) /\ k \in 0..n
<1> DEFINE k == Lesser(n, to.room - s)
<1>1. k \in 0..n /\ k \in Nat
  BY DEF Lesser
<1>2. 0 \in Nat /\ Len(sink) = s /\ Len(Bytes(s, n)) = n
  BY BytesAre
<1> HIDE DEF k
<1>3. SubSeq(Bytes(s, n), 1, k) = Bytes(s, k)
  BY <1>1, BytesCut
<1>4. Put(Bytes(s, n)) = Bytes(0, s) \o Bytes(s, k)
  BY <1>2, <1>3 DEF Put, k
<1>5. Bytes(0, s) \o Bytes(s, k) = Bytes(0, s + k)
  BY <1>1, JoinsHead
<1> QED BY <1>1, <1>4, <1>5 DEF k

LEMMA PutFull ==
  ASSUME sink \in Seq(Nat), NEW b \in Seq(Nat), Full, to.room \in Nat
  PROVE  Put(b) = sink
<1>1. Lesser(Len(b), to.room - Len(sink)) = 0
  BY LenProperties DEF Full, Lesser
<1>2. SubSeq(b, 1, 0) = <<>>
  BY SubSeqEmpty
<1>3. sink \o <<>> = sink
  BY ConcatEmptySeq
<1> QED BY <1>1, <1>2, <1>3 DEF Put

LEMMA Bases == ASSUME ValidSaves, to \in Sinks
               PROVE  to.base \in {"fd", "file", "mem"} /\ to.room \in Nat /\ to.gzip \in BOOLEAN
BY DEF ValidSaves

LEMMA WritesShape ==
  ASSUME to.base \in {"fd", "file", "mem"}, NEW b, NEW x \in Writes(b)
  PROVE  /\ to.base # "file" =>
              /\ x.sink = Put(b) /\ x.unflushed = <<>>
              /\ x.w = IF to.base = "fd" /\ Room(b) = 0 /\ b # <<>> THEN -1 ELSE Room(b)
         /\ to.base = "file" =>
              \/ x.w = Len(b) /\ x.sink = sink /\ x.unflushed = unflushed \o b
              \/ /\ Len(sink) + Len(unflushed \o b) <= to.room
                 /\ x.w = Len(b) /\ x.sink = Put(unflushed \o b) /\ x.unflushed = <<>>
              \/ /\ ~(Len(sink) + Len(unflushed \o b) <= to.room)
                 /\ x.w \in 0..(Len(b) - 1) /\ x.sink = Put(unflushed \o b) /\ x.unflushed = <<>>
<1>1. CASE to.base = "mem"
  BY <1>1 DEF Writes, MemWrites
<1>2. CASE to.base = "fd"
  BY <1>2 DEF Writes, FdWrites
<1>3. CASE to.base = "file"
  <2> DEFINE c == unflushed \o b
             l == Len(b)
             p == Put(c)
  <2>1. x \in FileWrites(b)
    BY <1>3 DEF Writes
  <2>2. x \in IF Len(c) <= FBUF THEN {[w |-> l, sink |-> sink, unflushed |-> c]}
             ELSE IF Len(sink) + Len(c) <= to.room
             THEN {[w |-> l, sink |-> p, unflushed |-> <<>>]}
             ELSE {[w |-> k, sink |-> p, unflushed |-> <<>>] : k \in 0..(l - 1)}
    BY <2>1 DEF FileWrites
  <2> HIDE DEF c, l, p
  <2>3. \/ x = [w |-> l, sink |-> sink, unflushed |-> c]
        \/ Len(sink) + Len(c) <= to.room /\ x = [w |-> l, sink |-> p, unflushed |-> <<>>]
        \/ /\ ~(Len(sink) + Len(c) <= to.room)
           /\ \E k \in 0..(l - 1) : x = [w |-> k, sink |-> p, unflushed |-> <<>>]
    BY <2>2, Zenon
  <2>4. \/ x.w = l /\ x.sink = sink /\ x.unflushed = c
        \/ Len(sink) + Len(c) <= to.room /\ x.w = l /\ x.sink = p /\ x.unflushed = <<>>
        \/ /\ ~(Len(sink) + Len(c) <= to.room)
           /\ x.w \in 0..(l - 1) /\ x.sink = p /\ x.unflushed = <<>>
    BY <2>3
  <2> QED BY <1>3, <2>4 DEF c, l, p
<1> QED BY <1>1, <1>2, <1>3

(* Into a full sink nothing goes.                                          *)
LEMMA WritesFull ==
  ASSUME ValidSaves, to \in Sinks, sink \in Seq(Nat), unflushed \in Seq(Nat), Full,
         to.base # "file" => unflushed = <<>>, NEW b \in Seq(Nat), NEW x \in Writes(b)
  PROVE  /\ x.sink = sink /\ x.w \in -1..Len(b) /\ x.unflushed \in Seq(Nat)
         /\ to.base # "file" => x.unflushed = <<>>
<1>1. to.base \in {"fd", "file", "mem"} /\ to.room \in Nat /\ Len(b) \in Nat /\ Len(sink) \in Nat
  BY Bases, LenProperties
<1>2. unflushed \o b \in Seq(Nat) /\ <<>> \in Seq(Nat)
  BY ConcatProperties, EmptySeq
<1>3. Put(b) = sink /\ Put(unflushed \o b) = sink
  BY <1>1, <1>2, PutFull
<1>4. Room(b) = 0
  BY <1>1, <1>3 DEF Room
<1>5. CASE to.base # "file"
  <2>1. x.sink = sink /\ x.unflushed = <<>> /\ x.w \in {-1, 0}
    BY <1>1, <1>3, <1>4, <1>5, WritesShape
  <2> QED BY <1>1, <1>2, <2>1
<1>6. CASE to.base = "file"
  <2>1. x.sink = sink /\ x.unflushed \in {<<>>, unflushed \o b} /\ x.w \in 0..Len(b)
    <3>1. \/ x.w = Len(b) /\ x.sink = sink /\ x.unflushed = unflushed \o b
          \/ x.w = Len(b) /\ x.sink = sink /\ x.unflushed = <<>>
          \/ x.w \in 0..(Len(b) - 1) /\ x.sink = sink /\ x.unflushed = <<>>
      BY <1>1, <1>3, <1>6, WritesShape
    <3> QED BY <1>1, <3>1
  <2>2. x.unflushed \in Seq(Nat)
    BY <1>2, <2>1
  <2>3. x.w \in -1..Len(b)
    BY <1>1, <2>1
  <2> QED BY <1>6, <2>1, <2>2, <2>3
<1> QED BY <1>5, <1>6

(* Else it takes them, or what it has room for.                            *)
LEMMA WritesExact ==
  ASSUME ValidSaves, to \in Sinks, NEW s \in Nat, NEW u \in Nat, NEW n \in Nat,
         sink = Bytes(0, s), s <= to.room, unflushed = Bytes(s, u),
         to.base # "file" => u = 0, NEW x \in Writes(Bytes(s + u, n))
  PROVE  /\ x.w \in -1..n
         /\ to.base # "file" => x.unflushed = <<>>
         /\ \/ /\ x.w = n
               /\ \E t \in Nat : /\ t <= to.room /\ t <= s + u + n /\ x.sink = Bytes(0, t)
                                 /\ x.unflushed = Bytes(t, s + u + n - t)
            \/ s + u + n > to.room /\ x.sink = Bytes(0, to.room) /\ x.unflushed = <<>>
<1> DEFINE b == Bytes(s + u, n)
           k == Lesser(n, to.room - s)
<1>1. /\ to.base \in {"fd", "file", "mem"} /\ to.room \in Nat /\ 0 \in Nat /\ s + u \in Nat
      /\ s + u + n \in Nat /\ u + n \in Nat
  BY Bases
<1>2. Len(sink) = s /\ Len(b) = n
  BY <1>1, BytesAre
<1>3. CASE to.base # "file"
  <2>1. u = 0 /\ b = Bytes(s, n)
    BY <1>3
  <2>2. Put(b) = Bytes(0, s + k) /\ k \in 0..n
    BY <1>1, <2>1, PutIs
  <2>3. k = n \/ (k = to.room - s /\ n > to.room - s)
    BY <1>1 DEF Lesser
  <2> HIDE DEF k
  <2>4. Len(Put(b)) = s + k /\ Room(b) = k
    <3>1. s + k \in Nat
      BY <2>2
    <3>2. Len(Put(b)) = s + k
      BY <1>1, <2>2, <3>1, BytesAre
    <3> HIDE DEF b
    <3> QED BY <1>2, <2>2, <3>2 DEF Room
  <2>5. (b = <<>>) = (n = 0)
    BY <1>2, EmptySeq, NoBytes, <1>1
  <2> HIDE DEF b
  <2>6. /\ x.sink = Bytes(0, s + k) /\ x.unflushed = <<>>
        /\ x.w = IF to.base = "fd" /\ k = 0 /\ b # <<>> THEN -1 ELSE k
    <3>1. x \in Writes(b)
      BY DEF b
    <3> QED BY <1>1, <1>3, <2>2, <2>4, <3>1, WritesShape
  <2>7. CASE k = n
    <3>1. x.w = n /\ s + n \in Nat /\ s + n <= to.room
      BY <1>1, <2>3, <2>5, <2>6, <2>7 DEF k, Lesser
    <3>2. x.unflushed = Bytes(s + n, 0)
      BY <2>6, <3>1, NoBytes
    <3>3. s + u + n = s + n /\ s + u + n - (s + n) = 0
      BY <2>1
    <3>4. /\ x.w = n /\ s + n \in Nat /\ s + n <= to.room /\ s + n <= s + u + n
          /\ x.sink = Bytes(0, s + n) /\ x.unflushed = Bytes(s + n, s + u + n - (s + n))
      BY <2>6, <2>7, <3>1, <3>2, <3>3
    <3>5. x.w \in -1..n /\ (to.base # "file" => x.unflushed = <<>>)
      BY <2>6, <3>1
    <3> QED BY <3>4, <3>5
  <2>8. CASE k # n
    <3>1. s + k = to.room /\ s + u + n > to.room
      BY <1>1, <2>1, <2>3, <2>8
    <3>2. x.w \in -1..n
      BY <2>2, <2>6
    <3> QED BY <2>6, <3>1, <3>2
  <2> QED BY <2>7, <2>8
<1>4. CASE to.base = "file"
  <2> DEFINE c == unflushed \o b
             j == Lesser(u + n, to.room - s)
  <2>1. c = Bytes(s, u + n) /\ Len(c) = u + n
    <3>1. c = Bytes(s, u + n)
      BY BytesJoin
    <3>2. Len(Bytes(s, u + n)) = u + n
      BY <1>1, BytesAre
    <3> HIDE DEF c
    <3> QED BY <3>1, <3>2
  <2>2. Put(c) = Bytes(0, s + j) /\ j \in 0..(u + n)
    BY <1>1, <2>1, PutIs
  <2>3. j = IF s + u + n <= to.room THEN u + n ELSE to.room - s
    BY <1>1 DEF Lesser
  <2> HIDE DEF j
  <2>4. \/ x.w = n /\ x.sink = sink /\ x.unflushed = c
        \/ /\ s + u + n <= to.room
           /\ x.w = n /\ x.sink = Put(c) /\ x.unflushed = <<>>
        \/ /\ s + u + n > to.room
           /\ x.w \in 0..(n - 1) /\ x.sink = Put(c) /\ x.unflushed = <<>>
    <3> HIDE DEF b, c
    <3>1. c = unflushed \o b /\ x \in Writes(b)
      BY DEF b, c
    <3>2. (Len(sink) + Len(c) <= to.room) = (s + u + n <= to.room)
      BY <1>1, <1>2, <2>1
    <3>3. ~(s + u + n <= to.room) => s + u + n > to.room
      BY <1>1
    <3> QED BY <1>1, <1>2, <1>4, <3>1, <3>2, <3>3, WritesShape
  <2> HIDE DEF b, c
  <2>5. CASE x.w = n /\ x.sink = sink /\ x.unflushed = c
    <3>1. /\ x.w = n /\ s <= s + u + n /\ x.sink = Bytes(0, s)
          /\ x.unflushed = Bytes(s, s + u + n - s)
      <4>1. s + u + n - s = u + n
        OBVIOUS
      <4> QED BY <2>1, <2>5, <4>1
    <3> QED BY <1>4, <3>1
  <2>6. CASE s + u + n <= to.room /\ x.w = n /\ x.sink = Put(c) /\ x.unflushed = <<>>
    <3> DEFINE t == s + u + n
    <3>1. t \in Nat /\ t <= to.room /\ t - t = 0 /\ s + j = t
      BY <1>1, <2>3, <2>6
    <3>2. x.w = n /\ x.sink = Bytes(0, t) /\ x.unflushed = Bytes(t, t - t)
      <4> HIDE DEF t
      <4> QED BY <2>2, <2>6, <3>1, NoBytes
    <3> QED BY <1>4, <3>1, <3>2
  <2>7. CASE /\ s + u + n > to.room
             /\ x.w \in 0..(n - 1) /\ x.sink = Put(c) /\ x.unflushed = <<>>
    <3>1. s + j = to.room
      BY <1>1, <2>3, <2>7
    <3> QED BY <1>4, <2>2, <2>7, <3>1
  <2> QED BY <2>4, <2>5, <2>6, <2>7
<1> QED BY <1>3, <1>4

(* A write or a flush of b, all taken, or as much as the sink has room for.*)
NextIs(b) == Behind(sink, unflushed) /\ b = Bytes(Len(sink) + Len(unflushed), Len(b))
Taken(x, n) == /\ x.w = n /\ Behind(x.sink, x.unflushed)
               /\ Len(x.sink) + Len(x.unflushed) = Len(sink) + Len(unflushed) + n
Outcome(b, x) ==
  /\ Sunk(x.sink) /\ x.unflushed \in Seq(Nat) /\ x.w \in -1..Len(b)
  /\ to.base # "file" => x.unflushed = <<>>
  /\ Full => Len(x.sink) = to.room
  /\ NextIs(b) => \/ Taken(x, Len(b))
                  \/ Len(x.sink) = to.room /\ Len(sink) + Len(unflushed) + Len(b) > to.room

LEMMA SinkIs ==
  ASSUME ValidSaves, SaveTyped, SinkInv, savePc # "idle"
  PROVE  /\ to \in Sinks /\ to.room \in Nat /\ Sunk(sink) /\ sink \in Seq(Nat)
         /\ unflushed \in Seq(Nat) /\ Len(sink) \in Nat /\ Len(unflushed) \in Nat
         /\ (to.base # "file" => unflushed = <<>>) /\ (InSequence \/ Full)
         /\ zout \in Seq(Nat) /\ Len(zout) \in Nat /\ Len(zout) <= ZBUF
BY Bases, LenProperties DEF SaveTyped, SinkInv, Sunk

LEMMA WritesOutcome ==
  ASSUME ValidSaves, SaveTyped, SinkInv, savePc # "idle", NEW b \in Seq(Nat), NEW x \in Writes(b),
         NextIs(b) \/ Full
  PROVE  Outcome(b, x)
<1> DEFINE s == Len(sink)
           u == Len(unflushed)
           n == Len(b)
<1>1. /\ to \in Sinks /\ to.room \in Nat /\ Sunk(sink) /\ sink \in Seq(Nat)
      /\ unflushed \in Seq(Nat) /\ s \in Nat /\ u \in Nat /\ n \in Nat /\ s <= to.room
      /\ (to.base # "file" => unflushed = <<>>) /\ 0 \in Nat /\ sink = Bytes(0, s)
  BY SinkIs, LenProperties DEF Sunk
<1>2. CASE NextIs(b)
  <2>1. unflushed = Bytes(s, u) /\ b = Bytes(s + u, n) /\ (to.base # "file" => u = 0)
    BY <1>1, <1>2, EmptySeq DEF NextIs, Behind
  <2> HIDE DEF s, u, n
  <2>2. x \in Writes(Bytes(s + u, n))
    BY <2>1
  <2>3. /\ x.w \in -1..n
        /\ to.base # "file" => x.unflushed = <<>>
        /\ \/ /\ x.w = n
              /\ \E t \in Nat : /\ t <= to.room /\ t <= s + u + n /\ x.sink = Bytes(0, t)
                                /\ x.unflushed = Bytes(t, s + u + n - t)
           \/ s + u + n > to.room /\ x.sink = Bytes(0, to.room) /\ x.unflushed = <<>>
    <3>1. /\ to \in Sinks /\ s \in Nat /\ u \in Nat /\ n \in Nat /\ sink = Bytes(0, s)
          /\ s <= to.room /\ unflushed = Bytes(s, u) /\ (to.base # "file" => u = 0)
      BY <1>1, <2>1
    <3> QED BY <2>2, <3>1, WritesExact
  <2>4. CASE /\ x.w = n
             /\ \E t \in Nat : /\ t <= to.room /\ t <= s + u + n /\ x.sink = Bytes(0, t)
                               /\ x.unflushed = Bytes(t, s + u + n - t)
    <3>1. PICK t \in Nat : /\ t <= to.room /\ t <= s + u + n /\ x.sink = Bytes(0, t)
                           /\ x.unflushed = Bytes(t, s + u + n - t)
      BY <2>4
    <3>2. s + u + n - t \in Nat
      BY <1>1, <3>1
    <3>3. /\ x.sink \in Seq(Nat) /\ Len(x.sink) = t
          /\ x.unflushed \in Seq(Nat) /\ Len(x.unflushed) = s + u + n - t
      <4>1. Bytes(0, t) \in Seq(Nat) /\ Len(Bytes(0, t)) = t
        BY <1>1, BytesAre
      <4>2. \A m \in Nat : Bytes(t, m) \in Seq(Nat) /\ Len(Bytes(t, m)) = m
        BY BytesAre
      <4> QED BY <3>1, <3>2, <4>1, <4>2
    <3>4. t + (s + u + n - t) = s + u + n
      BY <1>1
    <3>5. Sunk(x.sink) /\ Behind(x.sink, x.unflushed)
      BY <3>1, <3>3 DEF Sunk, Behind
    <3>6. Taken(x, n)
      BY <2>4, <3>3, <3>4, <3>5 DEF Taken, s, u
    <3>7. Full => Len(x.sink) = to.room
      <4>1. SUFFICES ASSUME Full PROVE x.sink = sink
        BY DEF Full
      <4> QED BY <1>1, <4>1, WritesFull
    <3> QED BY <2>3, <3>3, <3>5, <3>6, <3>7 DEF Outcome, n
  <2>5. CASE s + u + n > to.room /\ x.sink = Bytes(0, to.room) /\ x.unflushed = <<>>
    <3>1. x.sink \in Seq(Nat) /\ Len(x.sink) = to.room /\ x.unflushed \in Seq(Nat)
      <4>1. Bytes(0, to.room) \in Seq(Nat) /\ Len(Bytes(0, to.room)) = to.room
        BY <1>1, BytesAre
      <4> QED BY <2>5, <4>1, EmptySeq
    <3>2. Sunk(x.sink)
      BY <1>1, <2>5, <3>1 DEF Sunk
    <3> QED BY <2>3, <2>5, <3>1, <3>2 DEF Outcome, s, u, n
  <2> QED BY <2>3, <2>4, <2>5
<1>3. CASE Full /\ ~NextIs(b)
  <2>1. /\ x.sink = sink /\ x.w \in -1..Len(b) /\ x.unflushed \in Seq(Nat)
        /\ to.base # "file" => x.unflushed = <<>>
    BY <1>1, <1>3, WritesFull
  <2> QED BY <1>1, <1>3, <2>1 DEF Outcome, Full
<1> QED BY <1>2, <1>3

LEMMA FlushesOutcome ==
  ASSUME ValidSaves, SaveTyped, SinkInv, savePc # "idle", NEW x \in Flushes, NextIs(zout) \/ Full
  PROVE  Outcome(zout, x)
<1>1. zout \in Seq(Nat) /\ Sunk(sink) /\ unflushed \in Seq(Nat) /\ Len(sink) \in Nat
      /\ Len(unflushed) \in Nat /\ (to.base # "file" => unflushed = <<>>)
  BY SinkIs
<1>2. CASE zout = <<>>
  <2>1. x.w = 0 /\ x.sink = sink /\ x.unflushed = unflushed /\ Len(zout) = 0
    BY <1>2, EmptySeq DEF Flushes
  <2>2. NextIs(zout) => Taken(x, 0)
    BY <1>1, <2>1 DEF NextIs, Taken
  <2> QED BY <1>1, <2>1, <2>2 DEF Outcome, Full
<1>3. CASE zout # <<>>
  <2>1. x \in Writes(zout)
    BY <1>3 DEF Flushes
  <2> QED BY <1>1, <2>1, WritesOutcome
<1> QED BY <1>2, <1>3

(* After it all that was produced is somewhere, or the sink is full.       *)
LEMMA SinkGoes ==
  ASSUME ValidSaves, SaveTyped, SinkInv, savePc # "idle", to' = to,
         NEW b \in Seq(Nat), NEW x, Outcome(b, x), Wrote(x), InSequence => NextIs(b),
         InSequence /\ Taken(x, Len(b)) => InSequence' /\ result' = result,
         InSequence => Len(sink) + Len(unflushed) + Len(b) <= Total
  PROVE  SinkInv'
<1>1. sink' = x.sink /\ unflushed' = x.unflushed /\ Total' = Total
  BY DEF Wrote, Total, Before
<1>2. Sunk(sink') /\ Sunk(sink)'
  BY <1>1 DEF Outcome, Sunk
<1>3. CASE InSequence
  <2>1. Taken(x, Len(b)) \/ (Full' /\ Len(sink) + Len(unflushed) + Len(b) > to.room)
    BY <1>1, <1>3 DEF Outcome, Full
  <2>2. to.room >= Total => Taken(x, Len(b))
    <3>1. to.room \in Nat /\ Total \in Int /\ Len(sink) + Len(unflushed) + Len(b) \in Nat
      <4>1. Total \in Int
        <5>1. CASE to.gzip
          BY <5>1 DEF Total, ValidSaves
        <5>2. CASE ~to.gzip
          <6>1. Len(PieceEnds) \in Nat /\ \A p \in 1..Len(PieceEnds) : PieceEnds[p] \in Nat
            BY LenProperties, ElementOfSeq DEF ValidSaves
          <6> QED BY <5>2, <6>1 DEF Total, Before
        <5> QED BY <5>1, <5>2
      <4> QED BY <4>1, SinkIs, LenProperties
    <3> QED BY <1>3, <2>1, <3>1
  <2> QED BY <1>1, <1>2, <1>3, <2>1, <2>2 DEF SinkInv
<1>4. CASE ~InSequence
  <2>1. Full /\ ~(to.room >= Total)
    BY <1>4 DEF SinkInv
  <2>2. Full'
    BY <1>1, <2>1 DEF Outcome, Full
  <2> QED BY <1>1, <1>2, <2>1, <2>2 DEF SinkInv
<1> QED BY <1>3, <1>4

LEMMA SinkStays ==
  ASSUME SinkInv, savePc # "idle", UNCHANGED <<to, sink, result>>, InSequence => InSequence'
  PROVE  SinkInv'
BY DEF SinkInv, Sunk, Full, Total, Before

-----------------------------------------------------------------------------
(* Where pieces begin and end.                                             *)
LEMMA PieceBounds ==
  ASSUME ValidSaves, NEW p \in 1..(Len(PieceEnds) + 1)
  PROVE  /\ Before(p) \in Nat /\ Before(p) <= Before(Len(PieceEnds) + 1)
         /\ p <= Len(PieceEnds) =>
              /\ PieceEnds[p] \in Nat /\ Before(p) <= PieceEnds[p] /\ Before(p + 1) = PieceEnds[p]
              /\ PieceEnds[p] <= Before(Len(PieceEnds) + 1)
<1> DEFINE n == Len(PieceEnds)
<1>1. n \in Nat /\ \A q \in 1..n : PieceEnds[q] \in Nat
  BY LenProperties, ElementOfSeq DEF ValidSaves
<1>2. \A q, r \in 1..n : q <= r => PieceEnds[q] <= PieceEnds[r]
  BY DEF ValidSaves
<1> HIDE DEF n
<1>3. p \in 1..(n + 1)
  BY DEF n
<1>4. \A q \in 1..(n + 1) : Before(q) = IF q = 1 THEN 0 ELSE PieceEnds[q - 1]
  BY DEF Before
<1>5. Before(n + 1) = IF n = 0 THEN 0 ELSE PieceEnds[n]
  BY <1>1, <1>4
<1>6. Before(p) \in Nat /\ Before(p) <= Before(n + 1)
  <2>1. CASE p = 1
    BY <1>1, <1>3, <1>4, <1>5, <2>1
  <2>2. CASE p # 1
    <3>1. p - 1 \in 1..n /\ n \in 1..n /\ p - 1 <= n
      BY <1>1, <1>3, <2>2
    <3> QED BY <1>1, <1>2, <1>3, <1>4, <1>5, <2>2, <3>1
  <2> QED BY <2>1, <2>2
<1>7. ASSUME p <= n
      PROVE  /\ PieceEnds[p] \in Nat /\ Before(p) <= PieceEnds[p] /\ Before(p + 1) = PieceEnds[p]
             /\ PieceEnds[p] <= Before(n + 1)
  <2>1. p \in 1..n /\ n \in 1..n /\ p + 1 \in 1..(n + 1) /\ p + 1 # 1 /\ p + 1 - 1 = p
    BY <1>1, <1>3, <1>7
  <2>2. Before(p) <= PieceEnds[p]
    <3>1. CASE p = 1
      BY <1>1, <1>3, <1>4, <2>1, <3>1
    <3>2. CASE p # 1
      <4>1. p - 1 \in 1..n /\ p - 1 <= p
        BY <1>1, <2>1, <3>2
      <4> QED BY <1>2, <1>3, <1>4, <2>1, <3>2, <4>1
    <3> QED BY <3>1, <3>2
  <2>3. PieceEnds[p] <= PieceEnds[n] /\ n # 0
    BY <1>1, <1>2, <2>1
  <2> QED BY <1>1, <1>4, <1>5, <2>1, <2>2, <2>3
<1> QED BY <1>6, <1>7 DEF n

LEMMA HeaderSaved ==
  ASSUME ValidSaves, SaveTyped, SinkInv, Header
  PROVE  SaveTyped' /\ SinkInv'
<1> DEFINE b == Bytes(0, GZH)
<1>1. savePc = "header" /\ UNCHANGED <<to, piece, taken, zVars>>
      /\ to.ok /\ to.gzip /\ zout = <<>> /\ zmade = 0
  BY DEF Header, SaveTyped
<1>2. PICK x \in Writes(b) :
        /\ Wrote(x)
        /\ IF x.w = GZH THEN savePc' = "piece" /\ UNCHANGED result ELSE Fails
  BY DEF Header
<1>3. GZH \in Nat /\ GZT \in Nat /\ Deflated \in Nat /\ 0 \in Nat
  BY DEF ValidSaves
<1>4. b \in Seq(Nat) /\ Len(b) = GZH
  BY <1>3, BytesAre
<1>5. Len(sink) \in Nat /\ Len(unflushed) \in Nat
  BY <1>1, SinkIs
<1>6. InSequence => Len(sink) = 0 /\ Len(unflushed) = 0 /\ NextIs(b)
  <2>1. SUFFICES ASSUME InSequence PROVE Len(sink) = 0 /\ Len(unflushed) = 0 /\ NextIs(b)
    OBVIOUS
  <2>2. Len(sink) + Len(unflushed) = 0 /\ Behind(sink, unflushed)
    BY <1>1, <1>5, <2>1 DEF InSequence, Waiting, Produced, Flushing
  <2>3. Len(sink) = 0 /\ Len(unflushed) = 0 /\ Len(sink) + Len(unflushed) = 0
    BY <1>5, <2>2
  <2> HIDE DEF b
  <2>4. b = Bytes(0, Len(b))
    BY <1>4 DEF b
  <2> QED BY <2>2, <2>3, <2>4 DEF NextIs
<1> HIDE DEF b
<1>7. Outcome(b, x)
  BY <1>1, <1>4, <1>6, SinkIs, WritesOutcome
<1>8. InSequence => Len(sink) + Len(unflushed) + Len(b) <= Total
  BY <1>1, <1>3, <1>4, <1>6 DEF Total
<1>9. InSequence /\ Taken(x, Len(b)) => InSequence' /\ result' = result
  <2>1. SUFFICES ASSUME InSequence, Taken(x, Len(b)) PROVE InSequence' /\ result' = result
    OBVIOUS
  <2>2. savePc' = "piece" /\ result' = result /\ sink' = x.sink /\ unflushed' = x.unflushed
    BY <1>2, <1>4, <2>1 DEF Taken, Wrote
  <2>3. Behind(sink', unflushed') /\ Len(sink') + Len(unflushed') = GZH
    <3>1. Behind(x.sink, x.unflushed) /\ Len(x.sink) + Len(x.unflushed) = 0 + 0 + GZH
      BY <1>4, <1>6, <2>1 DEF Taken
    <3>2. 0 + 0 + GZH = GZH
      BY <1>3
    <3> QED BY <2>2, <3>1, <3>2
  <2>4. zout' = <<>> /\ Len(zout') = 0 /\ zmade' = 0 /\ to' = to
    BY <1>1, EmptySeq DEF zVars
  <2>5. zout' = Bytes(Len(sink') + Len(unflushed'), Len(zout'))
    BY <1>3, <2>3, <2>4, NoBytes
  <2>6. Waiting' = 0 /\ Produced' = GZH + 0
    BY <1>1, <2>2, <2>4 DEF Waiting, Produced, Flushing
  <2> QED BY <1>3, <2>2, <2>3, <2>5, <2>6 DEF InSequence, Behind
<1>10. SinkInv'
  BY <1>1, <1>2, <1>4, <1>6, <1>7, <1>8, <1>9, SinkGoes
<1>11. SaveTyped'
  <2>1. unflushed' \in Seq(Nat) /\ (to.base # "file" => unflushed' = <<>>)
        /\ savePc' \in {"piece", "close"}
    BY <1>2, <1>7 DEF Outcome, Wrote, Fails
  <2> QED BY <1>1, <2>1 DEF SaveTyped, SavePcs, Flushing, zVars
<1> QED BY <1>10, <1>11

LEMMA PieceSaved ==
  ASSUME ValidSaves, SaveTyped, SinkInv, WritePiece
  PROVE  SaveTyped' /\ SinkInv'
<1> DEFINE n == PieceSize
           b == Bytes(Before(piece), n)
<1>1. /\ savePc = "piece" /\ ~to.gzip /\ UNCHANGED <<to, taken, zVars>>
      /\ to.ok /\ zout = <<>> /\ piece \in 1..(Len(PieceEnds) + 1) /\ to \in Sinks
      /\ Len(PieceEnds) \in Nat
  BY LenProperties DEF WritePiece, SaveTyped, ValidSaves
<1>2. Len(sink) \in Nat /\ Len(unflushed) \in Nat /\ Len(zout) = 0
  BY <1>1, SinkIs, EmptySeq
<1>3. Before(piece) \in Nat /\ Total = Before(Len(PieceEnds) + 1)
  BY <1>1, PieceBounds DEF Total
<1>4. InSequence => Behind(sink, unflushed) /\ Len(sink) + Len(unflushed) = Before(piece)
  BY <1>1, <1>2, <1>3 DEF InSequence, Waiting, Produced, Flushing
<1>5. CASE Done
  <2>1. savePc' = "close" /\ UNCHANGED <<sink, unflushed, piece, result>>
    BY <1>5 DEF WritePiece, fileVars
  <2>2. InSequence => InSequence'
    <3>1. SUFFICES ASSUME InSequence PROVE InSequence'
      OBVIOUS
    <3>2. piece = Len(PieceEnds) + 1
      BY <1>1, <1>5 DEF Done
    <3>3. Waiting' = 0 /\ Produced' = Total
      BY <1>1, <2>1 DEF Waiting, Produced, Flushing, Total, Before
    <3> QED BY <1>2, <1>3, <1>4, <2>1, <3>1, <3>2, <3>3 DEF InSequence, Behind, Flushing
  <2>3. SinkInv'
    BY <1>1, <2>1, <2>2, SinkStays
  <2> QED BY <1>1, <2>1, <2>3 DEF SaveTyped, SavePcs, zVars
<1>6. CASE ~Done
  <2>1. piece <= Len(PieceEnds)
    BY <1>1, <1>6 DEF Done
  <2>2. /\ PieceEnds[piece] \in Nat /\ Before(piece) <= PieceEnds[piece]
        /\ Before(piece + 1) = PieceEnds[piece]
        /\ PieceEnds[piece] <= Before(Len(PieceEnds) + 1)
    BY <1>1, <2>1, PieceBounds
  <2>3. n \in Nat /\ Before(piece) + n = PieceEnds[piece]
    BY <1>3, <2>2 DEF PieceSize
  <2>4. PICK x \in Writes(b) :
          /\ Wrote(x)
          /\ IF x.w = PieceSize THEN piece' = piece + 1 /\ UNCHANGED <<result, savePc>>
             ELSE Fails /\ UNCHANGED piece
    BY <1>6 DEF WritePiece
  <2> HIDE DEF n
  <2>5. b \in Seq(Nat) /\ Len(b) = n
    BY <1>3, <2>3, BytesAre
  <2>6. InSequence => NextIs(b)
    <3>1. b = Bytes(Before(piece), Len(b))
      BY <2>5
    <3> HIDE DEF b
    <3> QED BY <1>4, <3>1 DEF NextIs
  <2> HIDE DEF b
  <2>7. Outcome(b, x)
    BY <1>1, <2>4, <2>5, <2>6, SinkIs, WritesOutcome
  <2>8. InSequence => Len(sink) + Len(unflushed) + Len(b) <= Total
    BY <1>3, <1>4, <2>2, <2>3, <2>5
  <2>9. InSequence /\ Taken(x, Len(b)) => InSequence' /\ result' = result
    <3>1. SUFFICES ASSUME InSequence, Taken(x, Len(b)) PROVE InSequence' /\ result' = result
      OBVIOUS
    <3>2. savePc' = "piece" /\ result' = result /\ piece' = piece + 1
          /\ sink' = x.sink /\ unflushed' = x.unflushed
      BY <1>1, <2>4, <2>5, <3>1 DEF Taken, Wrote, n
    <3>3. Behind(sink', unflushed') /\ Len(sink') + Len(unflushed') = PieceEnds[piece]
      BY <1>4, <2>3, <2>5, <3>1, <3>2 DEF Taken
    <3>4. zout' = <<>> /\ Len(zout') = 0 /\ to' = to
      BY <1>1, <1>2 DEF zVars
    <3>5. zout' = Bytes(Len(sink') + Len(unflushed'), Len(zout'))
      BY <2>2, <3>3, <3>4, NoBytes
    <3>6. Waiting' = 0 /\ Produced' = PieceEnds[piece]
      BY <1>1, <2>2, <3>2, <3>4 DEF Waiting, Produced, Flushing, Before
    <3>7. Len(sink') + Len(unflushed') + Waiting' = Produced'
      BY <2>2, <3>3, <3>6
    <3> QED BY <3>2, <3>3, <3>5, <3>7 DEF InSequence, Behind
  <2>10. SinkInv'
    BY <1>1, <2>4, <2>5, <2>6, <2>7, <2>8, <2>9, SinkGoes
  <2>11. SaveTyped'
    <3>1. unflushed' \in Seq(Nat) /\ (to.base # "file" => unflushed' = <<>>)
          /\ savePc' \in {"piece", "close"} /\ piece' \in 1..(Len(PieceEnds) + 1)
      <4>1. unflushed' = x.unflushed
        BY <2>4 DEF Wrote
      <4>2. unflushed' \in Seq(Nat) /\ (to.base # "file" => unflushed' = <<>>)
        BY <2>7, <4>1 DEF Outcome
      <4>3. savePc' \in {"piece", "close"} /\ (piece' = piece + 1 \/ piece' = piece)
        BY <1>1, <2>4 DEF Fails
      <4> DEFINE l == Len(PieceEnds)
      <4>4. l \in Nat /\ piece \in 1..(l + 1) /\ piece <= l
        BY <1>1, <2>1
      <4> HIDE DEF l
      <4>5. piece' \in 1..(l + 1)
        BY <4>3, <4>4
      <4> QED BY <4>2, <4>3, <4>5 DEF l
    <3> QED BY <1>1, <3>1 DEF SaveTyped, SavePcs, Flushing, zVars
  <2> QED BY <2>10, <2>11
<1> QED BY <1>5, <1>6

LEMMA ZWriteSaved ==
  ASSUME ValidSaves, SaveTyped, SinkInv, ZWrite
  PROVE  SaveTyped' /\ SinkInv'
<1>1. /\ savePc = "piece" /\ to.gzip /\ UNCHANGED <<to, sink, unflushed, zout, zmade, result>>
      /\ piece \in 1..(Len(PieceEnds) + 1) /\ Len(PieceEnds) \in Nat
  BY LenProperties DEF ZWrite, SaveTyped, fileVars, ValidSaves
<1>2. savePc' \in {"finish", "deflate", "piece"}
  BY <1>1 DEF ZWrite
<1>3. piece' \in 1..(Len(PieceEnds) + 1)
  <2>1. piece' = piece \/ (piece' = piece + 1 /\ ~Done)
    BY DEF ZWrite
  <2> QED BY <1>1, <2>1 DEF Done
<1>4. InSequence => InSequence'
  BY <1>1, <1>2 DEF InSequence, Behind, Waiting, Produced, Flushing
<1>5. SinkInv'
  BY <1>1, <1>4, SinkStays
<1>6. SaveTyped'
  BY <1>1, <1>2, <1>3 DEF SaveTyped, SavePcs, Flushing
<1> QED BY <1>5, <1>6

(* What a flush leaves in the output buffer.                               *)
LEMMA UnwrittenIs ==
  ASSUME NEW x, x.w \in 0..Len(zout), zout \in Seq(Nat)
  PROVE  /\ Unwritten(x) \in Seq(Nat) /\ Len(Unwritten(x)) = Len(zout) - x.w
         /\ x.w = Len(zout) => Unwritten(x) = <<>>
<1> DEFINE n == Len(zout)
           w == x.w
<1>1. n \in Nat /\ \A i \in 1..n : zout[i] \in Nat
  BY LenProperties, ElementOfSeq
<1> HIDE DEF n, w
<1>2. w \in 0..n /\ w + 1 \in Int /\ n \in Int /\ \A i \in (w + 1)..n : zout[i] \in Nat
  BY <1>1 DEF n, w
<1>3. /\ SubSeq(zout, w + 1, n) \in Seq(Nat)
      /\ Len(SubSeq(zout, w + 1, n)) = IF w + 1 <= n THEN n - (w + 1) + 1 ELSE 0
  BY <1>2, SubSeqProperties
<1>4. Len(SubSeq(zout, w + 1, n)) = n - w
  BY <1>1, <1>2, <1>3
<1>5. w = n => SubSeq(zout, w + 1, n) = <<>>
  BY <1>1, <1>2, SubSeqEmpty
<1> QED BY <1>3, <1>4, <1>5 DEF Unwritten, n, w

(* What waits in the output buffer is the next to be written.              *)
LEMMA Waits ==
  ASSUME ValidSaves, SaveTyped, SinkInv, savePc \in {"deflate", "finish", "last"}
  PROVE  /\ to.gzip /\ to.ok /\ zout \in Seq(Nat) /\ Len(zout) \in 0..ZBUF /\ zmade \in 0..Deflated
         /\ GZH \in Nat /\ GZT \in Nat /\ Deflated \in Nat /\ ZBUF \in Nat \ {0}
         /\ InSequence => /\ NextIs(zout)
                     /\ Len(sink) + Len(unflushed) + Len(zout) = GZH + zmade
                     /\ Len(sink) + Len(unflushed) + Len(zout) <= Total
<1>1. /\ to.gzip /\ to.ok /\ zout \in Seq(Nat) /\ Len(zout) \in Nat /\ zmade \in 0..Deflated
      /\ Len(zout) <= ZBUF
  BY LenProperties DEF SaveTyped
<1>2. GZH \in Nat /\ GZT \in Nat /\ Deflated \in Nat /\ ZBUF \in Nat \ {0}
  BY DEF ValidSaves
<1>3. InSequence => NextIs(zout) /\ Len(sink) + Len(unflushed) + Len(zout) = GZH + zmade
  BY <1>1 DEF InSequence, Waiting, Produced, Flushing, NextIs
<1>4. GZH + zmade <= Total
  BY <1>1, <1>2 DEF Total
<1> QED BY <1>1, <1>2, <1>3, <1>4

(* After a flush n bytes more are made.                                    *)
LEMMA MakesMore ==
  ASSUME ValidSaves, SaveTyped, SinkInv, savePc \in {"deflate", "finish"}, to' = to,
         NEW x, x.w \in 0..Len(zout), Wrote(x), NEW n \in Nat,
         n <= ZBUF - Len(Unwritten(x)), zmade + n <= Deflated,
         zmade' = zmade + n, zout' = Unwritten(x) \o NewBytes(n),
         savePc' \in {"deflate", "finish", "last"}
  PROVE  /\ zout' \in Seq(Nat) /\ Len(zout') <= ZBUF /\ zmade' \in 0..Deflated
         /\ InSequence /\ Taken(x, Len(zout)) => InSequence'
<1>1. /\ to.gzip /\ zout \in Seq(Nat) /\ Len(zout) \in Nat /\ zmade \in Nat
      /\ GZH \in Nat /\ Deflated \in Nat /\ ZBUF \in Nat
      /\ InSequence => Len(sink) + Len(unflushed) + Len(zout) = GZH + zmade
  BY Waits
<1> DEFINE r == Unwritten(x)
           b == NewBytes(n)
<1>2. r \in Seq(Nat) /\ Len(r) = Len(zout) - x.w /\ (x.w = Len(zout) => r = <<>>)
      /\ Len(r) \in Nat
  <2>1. r \in Seq(Nat) /\ Len(r) = Len(zout) - x.w /\ (x.w = Len(zout) => r = <<>>)
    BY <1>1, UnwrittenIs
  <2> QED BY <2>1, LenProperties
<1>3. b \in Seq(Nat) /\ Len(b) = n /\ b = Bytes(GZH + zmade, n)
  <2>1. GZH + zmade \in Nat
    BY <1>1
  <2> QED BY <2>1, BytesAre DEF NewBytes
<1>4. n <= ZBUF - Len(r)
  OBVIOUS
<1> HIDE DEF r, b
<1>5. r \o b \in Seq(Nat) /\ Len(r \o b) = Len(r) + n
  BY <1>2, <1>3, ConcatProperties
<1>6. zout' = r \o b
  BY DEF r, b
<1>7. Len(zout') <= ZBUF /\ zmade' \in 0..Deflated
  <2> DEFINE l == Len(r)
  <2>1. l \in Nat /\ n <= ZBUF - l /\ Len(zout') = l + n
    BY <1>2, <1>4, <1>5, <1>6
  <2> HIDE DEF l
  <2>2. l + n <= ZBUF
    BY <1>1, <2>1
  <2>3. zmade' \in 0..Deflated
    BY <1>1
  <2> QED BY <2>1, <2>2, <2>3
<1>8. ASSUME InSequence, Taken(x, Len(zout)) PROVE InSequence'
  <2>1. Behind(x.sink, x.unflushed) /\ Len(x.sink) + Len(x.unflushed) = GZH + zmade
    BY <1>1, <1>8 DEF Taken
  <2>2. sink' = x.sink /\ unflushed' = x.unflushed
    BY DEF Wrote
  <2>3. r = <<>>
    BY <1>2, <1>8 DEF Taken
  <2>4. zout' = Bytes(GZH + zmade, n) /\ Len(zout') = n
    <3>1. <<>> \o b = b
      BY <1>3, ConcatEmptySeq
    <3> QED BY <1>3, <1>6, <2>3, <3>1
  <2>5. Waiting' = n /\ Produced' = GZH + (zmade + n)
    BY <1>1, <2>4 DEF Waiting, Produced, Flushing
  <2>6. Len(sink') + Len(unflushed') + Waiting' = Produced'
    <3>1. GZH + zmade + n = GZH + (zmade + n)
      BY <1>1
    <3> QED BY <2>1, <2>2, <2>5, <3>1
  <2>7. zout' = Bytes(Len(sink') + Len(unflushed'), Len(zout'))
    BY <2>1, <2>2, <2>4
  <2> QED BY <2>1, <2>2, <2>6, <2>7 DEF InSequence, Behind
<1> QED BY <1>5, <1>6, <1>7, <1>8

LEMMA DeflateSaved ==
  ASSUME ValidSaves, SaveTyped, SinkInv, Deflate
  PROVE  SaveTyped' /\ SinkInv'
<1>1. savePc = "deflate" /\ UNCHANGED <<to, piece, taken>>
  BY DEF Deflate
<1>2. /\ to.gzip /\ to.ok /\ zout \in Seq(Nat) /\ Len(zout) \in 0..ZBUF /\ zmade \in 0..Deflated
      /\ Deflated \in Nat /\ ZBUF \in Nat \ {0}
      /\ InSequence => NextIs(zout) /\ Len(sink) + Len(unflushed) + Len(zout) <= Total
  BY <1>1, Waits
<1>3. CASE zin = 0
  <2>1. savePc' = "piece" /\ UNCHANGED <<sink, unflushed, zin, zout, zmade, result>>
    BY <1>3 DEF Deflate, fileVars, zVars
  <2>2. InSequence => InSequence'
    BY <1>1, <2>1 DEF InSequence, Behind, Waiting, Produced, Flushing, Before
  <2>3. SinkInv'
    BY <1>1, <2>1, <2>2, SinkStays
  <2> QED BY <1>1, <1>2, <2>1, <2>3 DEF SaveTyped, SavePcs, Flushing
<1>4. CASE zin # 0
  <2>1. PICK x \in Flushes :
          /\ Wrote(x)
          /\ IF x.w = -1 \/ ZBUF - Len(Unwritten(x)) = 0
             THEN /\ result' = -1 /\ savePc' = (IF x.w = -1 THEN "close" ELSE "finish")
                  /\ UNCHANGED zVars
             ELSE \E n \in 0..Lesser(ZBUF - Len(Unwritten(x)), Deflated - 1 - zmade) :
                    /\ zmade' = zmade + n /\ zout' = Unwritten(x) \o NewBytes(n)
                    /\ UNCHANGED <<result, savePc>>
    BY <1>4 DEF Deflate
  <2>2. Outcome(zout, x)
    BY <1>1, <1>2, SinkIs, FlushesOutcome
  <2>3. x.w \in -1..Len(zout) /\ unflushed' \in Seq(Nat) /\ (to.base # "file" => unflushed' = <<>>)
    BY <2>1, <2>2 DEF Outcome, Wrote
  <2>4. CASE x.w = -1 \/ ZBUF - Len(Unwritten(x)) = 0
    <3>1. /\ savePc' \in {"close", "finish"} /\ zout' = zout /\ zmade' = zmade
      BY <2>1, <2>4 DEF zVars
    <3>2. x.w # Len(zout)
      <4>1. CASE x.w = -1
        BY <1>2, <4>1
      <4>2. CASE x.w # -1
        <5>1. x.w \in 0..Len(zout)
          BY <1>2, <2>3, <4>2
        <5>2. x.w = Len(zout) => Len(Unwritten(x)) = 0
          BY <1>2, <5>1, UnwrittenIs, EmptySeq
        <5> QED BY <1>2, <2>4, <4>2, <5>2
      <4> QED BY <4>1, <4>2
    <3>3. ~Taken(x, Len(zout))
      BY <3>2 DEF Taken
    <3>4. SinkInv'
      BY <1>1, <1>2, <2>1, <2>2, <3>3, SinkGoes
    <3>5. SaveTyped'
      BY <1>1, <1>2, <2>3, <3>1 DEF SaveTyped, SavePcs, Flushing
    <3> QED BY <3>4, <3>5
  <2>5. CASE ~(x.w = -1 \/ ZBUF - Len(Unwritten(x)) = 0)
    <3>1. PICK n \in 0..Lesser(ZBUF - Len(Unwritten(x)), Deflated - 1 - zmade) :
            /\ zmade' = zmade + n /\ zout' = Unwritten(x) \o NewBytes(n)
            /\ UNCHANGED <<result, savePc>>
      BY <2>1, <2>5
    <3>2. x.w \in 0..Len(zout)
      BY <1>2, <2>3, <2>5
    <3>3. Len(Unwritten(x)) \in Nat
      BY <1>2, <3>2, UnwrittenIs, LenProperties
    <3>4. n \in Nat /\ n <= ZBUF - Len(Unwritten(x)) /\ zmade + n <= Deflated
      <4> DEFINE a == ZBUF - Len(Unwritten(x))
                 d == Deflated - 1 - zmade
      <4>1. a \in Int /\ d \in Int /\ n \in 0..Lesser(a, d)
        BY <1>2, <3>3
      <4>2. n \in Nat /\ n <= a /\ n <= d
        <5> HIDE DEF a, d
        <5> QED BY <4>1 DEF Lesser
      <4> QED BY <1>2, <4>2
    <3>5. savePc' \in {"deflate", "finish", "last"} /\ to' = to /\ Wrote(x)
      BY <1>1, <2>1, <3>1
    <3>6. /\ zout' \in Seq(Nat) /\ Len(zout') <= ZBUF /\ zmade' \in 0..Deflated
          /\ InSequence /\ Taken(x, Len(zout)) => InSequence'
      BY <1>1, <3>1, <3>2, <3>4, <3>5, MakesMore
    <3>7. SinkInv'
      BY <1>1, <1>2, <2>1, <2>2, <3>1, <3>6, SinkGoes
    <3>8. SaveTyped'
      BY <1>1, <1>2, <2>3, <3>1, <3>6 DEF SaveTyped, SavePcs, Flushing
    <3> QED BY <3>7, <3>8
  <2> QED BY <2>4, <2>5
<1> QED BY <1>3, <1>4

LEMMA FinishSaved ==
  ASSUME ValidSaves, SaveTyped, SinkInv, Finish
  PROVE  SaveTyped' /\ SinkInv'
<1>1. savePc = "finish" /\ UNCHANGED <<to, piece, taken, result>>
  BY DEF Finish
<1>2. /\ to.gzip /\ to.ok /\ zout \in Seq(Nat) /\ Len(zout) \in 0..ZBUF /\ zmade \in 0..Deflated
      /\ Deflated \in Nat /\ ZBUF \in Nat \ {0}
      /\ InSequence => NextIs(zout) /\ Len(sink) + Len(unflushed) + Len(zout) <= Total
  BY <1>1, Waits
<1>3. PICK x \in Flushes :
        LET room == ZBUF - Len(Unwritten(x))
            n == Lesser(room, Deflated - zmade)
        IN  /\ Wrote(x)
            /\ IF x.w = -1 \/ room = 0 THEN savePc' = "close" /\ UNCHANGED zVars
               ELSE /\ zmade' = zmade + n /\ zout' = Unwritten(x) \o NewBytes(n) /\ zin' = 0
                    /\ savePc' = IF zmade + n = Deflated THEN "last" ELSE "finish"
  BY DEF Finish
<1>4. Outcome(zout, x)
  BY <1>1, <1>2, SinkIs, FlushesOutcome
<1>5. x.w \in -1..Len(zout) /\ unflushed' \in Seq(Nat) /\ (to.base # "file" => unflushed' = <<>>)
  BY <1>3, <1>4 DEF Outcome, Wrote
<1>6. CASE x.w = -1 \/ ZBUF - Len(Unwritten(x)) = 0
  <2>1. savePc' = "close" /\ zout' = zout /\ zmade' = zmade
    BY <1>3, <1>6 DEF zVars
  <2>2. x.w # Len(zout)
    <3>1. CASE x.w = -1
      BY <1>2, <3>1
    <3>2. CASE x.w # -1
      <4>1. x.w \in 0..Len(zout)
        BY <1>2, <1>5, <3>2
      <4>2. x.w = Len(zout) => Len(Unwritten(x)) = 0
        BY <1>2, <4>1, UnwrittenIs, EmptySeq
      <4> QED BY <1>2, <1>6, <3>2, <4>2
    <3> QED BY <3>1, <3>2
  <2>3. ~Taken(x, Len(zout))
    BY <2>2 DEF Taken
  <2>4. SinkInv'
    BY <1>1, <1>2, <1>3, <1>4, <2>3, SinkGoes
  <2>5. SaveTyped'
    BY <1>1, <1>2, <1>5, <2>1 DEF SaveTyped, SavePcs, Flushing
  <2> QED BY <2>4, <2>5
<1>7. CASE ~(x.w = -1 \/ ZBUF - Len(Unwritten(x)) = 0)
  <2> DEFINE a == ZBUF - Len(Unwritten(x))
             n == Lesser(a, Deflated - zmade)
  <2>1. /\ zmade' = zmade + n /\ zout' = Unwritten(x) \o NewBytes(n)
        /\ savePc' = IF zmade + n = Deflated THEN "last" ELSE "finish"
    BY <1>3, <1>7
  <2>2. x.w \in 0..Len(zout)
    BY <1>2, <1>5, <1>7
  <2>3. Len(Unwritten(x)) \in Nat /\ Len(Unwritten(x)) <= Len(zout)
    <3>1. Unwritten(x) \in Seq(Nat) /\ Len(Unwritten(x)) = Len(zout) - x.w
      BY <1>2, <2>2, UnwrittenIs
    <3>2. Len(Unwritten(x)) \in Nat
      BY <3>1, LenProperties
    <3> QED BY <1>2, <2>2, <3>1, <3>2
  <2>4. n \in Nat /\ n <= a /\ zmade + n <= Deflated
    <3>1. a \in Nat /\ Deflated - zmade \in Nat
      BY <1>2, <2>3
    <3> HIDE DEF a
    <3> QED BY <1>2, <3>1 DEF Lesser
  <2> HIDE DEF n
  <2>5. savePc' \in {"deflate", "finish", "last"} /\ to' = to /\ Wrote(x)
        /\ (savePc' = "last" => zmade' = Deflated)
    BY <1>1, <1>3, <2>1
  <2>6. /\ zout' \in Seq(Nat) /\ Len(zout') <= ZBUF /\ zmade' \in 0..Deflated
        /\ InSequence /\ Taken(x, Len(zout)) => InSequence'
    BY <1>1, <2>1, <2>2, <2>4, <2>5, MakesMore
  <2>7. SinkInv'
    BY <1>1, <1>2, <1>3, <1>4, <2>6, SinkGoes
  <2>8. SaveTyped'
    BY <1>1, <1>2, <1>5, <2>1, <2>5, <2>6 DEF SaveTyped, SavePcs, Flushing
  <2> QED BY <2>7, <2>8
<1> QED BY <1>6, <1>7

LEMMA LastSaved ==
  ASSUME ValidSaves, SaveTyped, SinkInv, LastFlush
  PROVE  SaveTyped' /\ SinkInv'
<1>1. savePc = "last" /\ UNCHANGED <<to, piece, taken, zin, zout, zmade, result>> /\ zmade = Deflated
  BY DEF LastFlush, SaveTyped, zVars
<1>2. /\ to.gzip /\ to.ok /\ zout \in Seq(Nat) /\ Len(zout) \in 0..ZBUF /\ GZH \in Nat
      /\ Deflated \in Nat
      /\ InSequence => /\ NextIs(zout) /\ Len(sink) + Len(unflushed) + Len(zout) <= Total
                  /\ Len(sink) + Len(unflushed) + Len(zout) = GZH + zmade
  BY <1>1, Waits
<1>3. PICK x \in Flushes : Wrote(x) /\ savePc' = IF x.w = -1 THEN "close" ELSE "trailer"
  BY DEF LastFlush
<1>4. Outcome(zout, x)
  BY <1>1, <1>2, SinkIs, FlushesOutcome
<1>5. unflushed' \in Seq(Nat) /\ (to.base # "file" => unflushed' = <<>>)
  BY <1>3, <1>4 DEF Outcome, Wrote
<1>6. ASSUME InSequence, Taken(x, Len(zout)) PROVE InSequence'
  <2>1. Behind(x.sink, x.unflushed) /\ Len(x.sink) + Len(x.unflushed) = GZH + Deflated
    BY <1>1, <1>2, <1>6 DEF Taken
  <2>2. sink' = x.sink /\ unflushed' = x.unflushed /\ savePc' = "trailer"
    <3>1. x.w # -1
      BY <1>2, <1>6 DEF Taken
    <3> QED BY <1>3, <3>1 DEF Wrote
  <2>3. Waiting' = 0 /\ Produced' = GZH + Deflated
    BY <2>2 DEF Waiting, Produced, Flushing
  <2>4. Len(sink') + Len(unflushed') + Waiting' = Produced'
    <3>1. GZH + Deflated + 0 = GZH + Deflated
      BY <1>2
    <3> QED BY <2>1, <2>2, <2>3, <3>1
  <2> QED BY <2>1, <2>2, <2>4 DEF InSequence, Behind, Flushing
<1>7. SinkInv'
  BY <1>1, <1>2, <1>3, <1>4, <1>6, SinkGoes
<1>8. SaveTyped'
  BY <1>1, <1>2, <1>3, <1>5 DEF SaveTyped, SavePcs, Flushing
<1> QED BY <1>7, <1>8

LEMMA TrailerSaved ==
  ASSUME ValidSaves, SaveTyped, SinkInv, WriteTrailer
  PROVE  SaveTyped' /\ SinkInv'
<1> DEFINE b == Bytes(GZH + Deflated, GZT)
<1>1. /\ savePc = "trailer" /\ savePc' = "close" /\ UNCHANGED <<to, piece, taken, zVars, result>>
      /\ to.ok /\ to.gzip
  BY DEF WriteTrailer, SaveTyped
<1>2. PICK x \in Writes(b) : Wrote(x)
  BY DEF WriteTrailer
<1>3. GZH \in Nat /\ GZT \in Nat /\ Deflated \in Nat /\ GZH + Deflated \in Nat
  BY DEF ValidSaves
<1>4. b \in Seq(Nat) /\ Len(b) = GZT
  BY <1>3, BytesAre
<1>5. Len(sink) \in Nat /\ Len(unflushed) \in Nat
  BY <1>1, SinkIs
<1>6. InSequence => Len(sink) + Len(unflushed) = GZH + Deflated /\ NextIs(b)
  <2>1. SUFFICES ASSUME InSequence PROVE Len(sink) + Len(unflushed) = GZH + Deflated /\ NextIs(b)
    OBVIOUS
  <2>2. Len(sink) + Len(unflushed) + 0 = GZH + Deflated /\ Behind(sink, unflushed)
    BY <1>1, <2>1 DEF InSequence, Waiting, Produced, Flushing
  <2>3. Len(sink) + Len(unflushed) = GZH + Deflated
    BY <1>5, <2>2
  <2>4. b = Bytes(GZH + Deflated, Len(b))
    BY <1>4
  <2> HIDE DEF b
  <2> QED BY <2>2, <2>3, <2>4 DEF NextIs
<1> HIDE DEF b
<1>7. Outcome(b, x)
  BY <1>1, <1>4, <1>6, SinkIs, WritesOutcome
<1>8. InSequence => Len(sink) + Len(unflushed) + Len(b) <= Total
  BY <1>1, <1>3, <1>4, <1>6 DEF Total
<1>9. ASSUME InSequence, Taken(x, Len(b)) PROVE InSequence'
  <2>1. sink' = x.sink /\ unflushed' = x.unflushed
    BY <1>2 DEF Wrote
  <2>2. Behind(x.sink, x.unflushed) /\ Len(x.sink) + Len(x.unflushed) = GZH + Deflated + GZT
    BY <1>4, <1>6, <1>9 DEF Taken
  <2>3. Waiting' = 0 /\ Produced' = GZH + Deflated + GZT
    BY <1>1 DEF Waiting, Produced, Flushing, Total
  <2>4. GZH + Deflated + GZT + 0 = GZH + Deflated + GZT
    BY <1>3
  <2>5. Len(sink') + Len(unflushed') + Waiting' = Produced'
    BY <2>1, <2>2, <2>3, <2>4
  <2> QED BY <1>1, <2>1, <2>2, <2>5 DEF InSequence, Behind, Flushing
<1>10. SinkInv'
  BY <1>1, <1>2, <1>4, <1>6, <1>7, <1>8, <1>9, SinkGoes
<1>11. SaveTyped'
  <2>1. unflushed' \in Seq(Nat) /\ (to.base # "file" => unflushed' = <<>>)
    BY <1>2, <1>7 DEF Outcome, Wrote
  <2> QED BY <1>1, <2>1 DEF SaveTyped, SavePcs, Flushing, zVars
<1> QED BY <1>10, <1>11

LEMMA TotalNat == ASSUME ValidSaves, to.gzip \in BOOLEAN PROVE Total \in Nat
<1>1. Len(PieceEnds) \in Nat /\ Len(PieceEnds) + 1 \in 1..(Len(PieceEnds) + 1)
  BY LenProperties DEF ValidSaves
<1>2. Before(Len(PieceEnds) + 1) \in Nat
  BY <1>1, PieceBounds
<1> QED BY <1>2 DEF Total, ValidSaves

LEMMA CloseSinkSaved ==
  ASSUME ValidSaves, SaveTyped, SinkInv, CloseSink
  PROVE  SaveTyped' /\ SinkInv'
<1> DEFINE s == Len(sink)
           u == Len(unflushed)
           k == Lesser(u, to.room - s)
<1>1. /\ savePc = "close" /\ savePc' = "told" /\ sink' = Put(unflushed) /\ unflushed' = <<>>
      /\ UNCHANGED <<to, piece, taken, zVars, result>>
  BY DEF CloseSink
<1>2. /\ to \in Sinks /\ to.room \in Nat /\ Sunk(sink) /\ sink \in Seq(Nat)
      /\ unflushed \in Seq(Nat) /\ s \in Nat /\ u \in Nat /\ (InSequence \/ Full)
      /\ s <= to.room /\ sink = Bytes(0, s)
  BY <1>1, SinkIs DEF Sunk
<1>3. Total \in Nat /\ Total' = Total /\ <<>> \in Seq(Nat) /\ Len(<<>>) = 0
  BY <1>1, <1>2, Bases, TotalNat, EmptySeq DEF Total, Before
<1>4. SaveTyped'
  BY <1>1, <1>3 DEF SaveTyped, SavePcs, Flushing, zVars
<1>5. CASE InSequence
  <2>1. Behind(sink, unflushed) /\ s + u + 0 = IF to.ok THEN Total ELSE 0
    BY <1>1, <1>5 DEF InSequence, Waiting, Produced, Flushing
  <2>2. unflushed = Bytes(s, u) /\ s + u = IF to.ok THEN Total ELSE 0
    BY <1>2, <2>1 DEF Behind
  <2> HIDE DEF s, u
  <2>3. sink' = Bytes(0, s + k) /\ k \in 0..u
    BY <1>1, <1>2, <2>2, PutIs
  <2>4. (k = u /\ s + u <= to.room) \/ (k = to.room - s /\ s + u > to.room)
    <3>1. s \in Nat /\ u \in Nat /\ to.room \in Nat
      BY <1>2
    <3>2. k = IF u < to.room - s THEN u ELSE to.room - s
      BY DEF Lesser
    <3> HIDE DEF k
    <3> QED BY <3>1, <3>2
  <2> HIDE DEF k
  <2>5. sink' \in Seq(Nat) /\ Len(sink') = s + k /\ s + k <= to.room
    <3>1. s + k \in Nat /\ 0 \in Nat /\ s + k <= to.room
      BY <1>2, <2>3, <2>4
    <3>2. Bytes(0, s + k) \in Seq(Nat) /\ Len(Bytes(0, s + k)) = s + k
      BY <3>1, BytesAre
    <3> QED BY <2>3, <3>1, <3>2
  <2>6. Sunk(sink')
    BY <2>3, <2>5 DEF Sunk
  <2>7. k = u => InSequence'
    <3>1. SUFFICES ASSUME k = u PROVE InSequence'
      OBVIOUS
    <3>2. Len(sink') = s + u /\ Len(unflushed') = 0 /\ s + u \in Nat /\ s + u + 0 + 0 = s + u
      BY <1>1, <1>2, <1>3, <2>5, <3>1
    <3>3. Waiting' = 0 /\ Produced' = IF to.ok THEN Total ELSE 0
      BY <1>1, <1>3 DEF Waiting, Produced, Flushing
    <3>4. unflushed' = Bytes(Len(sink'), Len(unflushed'))
      BY <1>1, <3>2, NoBytes
    <3>5. Len(sink') + Len(unflushed') + Waiting' = Produced'
      BY <2>2, <3>2, <3>3
    <3> QED BY <1>1, <3>4, <3>5 DEF InSequence, Behind, Flushing
  <2>8. k # u => Full'
    <3>1. SUFFICES ASSUME k # u PROVE Len(sink') = to.room
      BY <1>1 DEF Full
    <3>2. s + k = to.room
      BY <1>2, <2>4, <3>1
    <3> QED BY <2>5, <3>2
  <2>9. to.room >= Total => k = u
    BY <1>2, <1>3, <2>2, <2>4
  <2>10. Sunk(sink)'
    BY <1>1, <2>6 DEF Sunk
  <2>11. to.room >= Total => (to.ok => result = 0)
    BY <1>1 DEF SinkInv
  <2>12. to' = to /\ result' = result
    BY <1>1
  <2> QED BY <1>3, <1>4, <2>7, <2>8, <2>9, <2>10, <2>11, <2>12 DEF SinkInv
<1>6. CASE ~InSequence
  <2>1. Full /\ ~(to.room >= Total)
    BY <1>1, <1>2, <1>6 DEF SinkInv
  <2>2. sink' = sink
    BY <1>1, <1>2, <2>1, PutFull
  <2> QED BY <1>1, <1>2, <1>3, <1>4, <2>1, <2>2 DEF SinkInv, Full, Sunk
<1> QED BY <1>5, <1>6

LEMMA ToldSaved ==
  ASSUME ValidSaves, SaveTyped, SinkInv, Told
  PROVE  SaveTyped' /\ SinkInv'
<1>1. /\ savePc' = "idle" /\ sink' = <<>> /\ unflushed' = <<>> /\ piece' = 1
      /\ zout' = <<>> /\ zmade' = 0 /\ result' = 0
  BY DEF Told
<1>2. /\ <<>> \in Seq(Nat) /\ Len(<<>>) = 0 /\ Len(PieceEnds) \in Nat
      /\ ZBUF \in Nat /\ Deflated \in Nat
  BY EmptySeq, LenProperties DEF ValidSaves
<1>3. 1 \in 1..(Len(PieceEnds) + 1) /\ 0 \in 0..Deflated /\ 0 <= ZBUF
  BY <1>2
<1>4. SaveTyped'
  BY <1>1, <1>2, <1>3 DEF SaveTyped, SavePcs
<1> QED BY <1>1, <1>4 DEF SinkInv

LEMMA SaveSaved ==
  ASSUME ValidSaves, SaveTyped, SinkInv, Save
  PROVE  SaveTyped' /\ SinkInv'
<1>1. /\ savePc = "idle" /\ sink' = <<>> /\ unflushed' = <<>> /\ UNCHANGED <<piece, zout, zmade>>
      /\ piece = 1 /\ zout = <<>> /\ zmade = 0 /\ result = 0
  BY DEF Save, SaveTyped, fileVars, zVars
<1>2. PICK s \in Sinks :
        /\ to' = s
        /\ IF ~s.ok THEN Fails
           ELSE savePc' = (IF s.gzip THEN "header" ELSE "piece") /\ UNCHANGED result
  BY DEF Save
<1>3. /\ s.room \in Nat /\ s.gzip \in BOOLEAN /\ s.ok \in BOOLEAN
      /\ <<>> \in Seq(Nat) /\ Len(<<>>) = 0 /\ 0 \in Nat
  BY EmptySeq DEF ValidSaves
<1>4. Before(1) = 0
  BY DEF Before
<1>5. \/ ~s.ok /\ savePc' = "close"
      \/ s.ok /\ s.gzip /\ savePc' = "header" /\ result' = 0
      \/ s.ok /\ ~s.gzip /\ savePc' = "piece" /\ result' = 0
  BY <1>1, <1>2, <1>3 DEF Fails
<1>6. SaveTyped'
  BY <1>1, <1>2, <1>3, <1>5 DEF SaveTyped, SavePcs, Flushing
<1>7. <<>> = Bytes(0, 0) /\ 0 <= s.room /\ 0 + 0 = 0 /\ 0 + 0 + 0 = 0
  BY <1>3, NoBytes
<1>8. Sunk(sink)'
  BY <1>1, <1>2, <1>3, <1>7 DEF Sunk
<1>9. Waiting' = 0
  BY <1>1, <1>3 DEF Waiting
<1>10. Produced' = 0
  BY <1>1, <1>2, <1>4, <1>5 DEF Produced, Flushing, Before
<1>11. InSequence'
  <2>1. Len(sink') = 0 /\ Len(unflushed') = 0 /\ Len(zout') = 0
    BY <1>1, <1>3
  <2>2. unflushed' = Bytes(Len(sink'), Len(unflushed'))
        /\ zout' = Bytes(Len(sink') + Len(unflushed'), Len(zout'))
    BY <1>1, <1>7, <2>1
  <2>3. Len(sink') + Len(unflushed') + Waiting' = Produced'
    BY <1>7, <1>9, <1>10, <2>1
  <2> QED BY <2>2, <2>3 DEF InSequence, Behind
<1>12. to'.ok => result' = 0
  BY <1>2, <1>5
<1> QED BY <1>6, <1>8, <1>11, <1>12 DEF SinkInv

LEMMA SaveStutters ==
  ASSUME SaveTyped, SinkInv, UNCHANGED saveVars
  PROVE  SaveTyped' /\ SinkInv'
<1>1. UNCHANGED <<to, sink, unflushed, piece, zout, zmade, result, savePc>>
  BY DEF saveVars, fileVars, zVars
<1>2. SaveTyped'
  BY <1>1 DEF SaveTyped
<1>3. InSequence' = InSequence /\ Full' = Full /\ Sunk(sink)' = Sunk(sink) /\ Total' = Total
  BY <1>1 DEF InSequence, Behind, Waiting, Produced, Total, Before, Full, Sunk
<1>4. SinkInv'
  BY <1>1, <1>3 DEF SinkInv
<1> QED BY <1>2, <1>4

LEMMA SavesInit == ValidSaves /\ SaveInit => SaveTyped /\ SinkInv
<1> SUFFICES ASSUME ValidSaves, SaveInit PROVE SaveTyped /\ SinkInv
  OBVIOUS
<1>1. /\ <<>> \in Seq(Nat) /\ Len(<<>>) = 0 /\ Len(PieceEnds) \in Nat
      /\ ZBUF \in Nat /\ Deflated \in Nat
  BY EmptySeq, LenProperties DEF ValidSaves
<1>2. 1 \in 1..(Len(PieceEnds) + 1) /\ 0 \in 0..Deflated /\ 0 <= ZBUF
  BY <1>1
<1> QED BY <1>1, <1>2 DEF SaveInit, SaveTyped, SavePcs, SinkInv

LEMMA SavesStep ==
  ASSUME ValidSaves, SaveTyped, SinkInv, [SaveNext]_saveVars
  PROVE  SaveTyped' /\ SinkInv'
<1>1. CASE Save
  BY <1>1, SaveSaved
<1>2. CASE Header
  BY <1>2, HeaderSaved
<1>3. CASE WritePiece
  BY <1>3, PieceSaved
<1>4. CASE ZWrite
  BY <1>4, ZWriteSaved
<1>5. CASE Deflate
  BY <1>5, DeflateSaved
<1>6. CASE Finish
  BY <1>6, FinishSaved
<1>7. CASE LastFlush
  BY <1>7, LastSaved
<1>8. CASE WriteTrailer
  BY <1>8, TrailerSaved
<1>9. CASE CloseSink
  BY <1>9, CloseSinkSaved
<1>10. CASE Told
  BY <1>10, ToldSaved
<1>11. CASE UNCHANGED saveVars
  BY <1>11, SaveStutters
<1> QED BY <1>1, <1>2, <1>3, <1>4, <1>5, <1>6, <1>7, <1>8, <1>9, <1>10, <1>11 DEF SaveNext

LEMMA SavedWhole == ASSUME ValidSaves, SaveTyped, SinkInv PROVE SavedInOrder
<1>1. sink = Bytes(0, Len(sink))
  <2>1. CASE savePc = "idle"
    <3>1. sink = <<>> /\ Len(sink) = 0 /\ 0 \in Nat
      BY <2>1, EmptySeq DEF SaveTyped
    <3> QED BY <3>1, NoBytes
  <2>2. CASE savePc # "idle"
    BY <2>2 DEF SinkInv, Sunk
  <2> QED BY <2>1, <2>2
<1>2. ASSUME savePc = "told", to.ok, to.room >= Total PROVE result = 0 /\ Len(sink) = Total
  <2>1. InSequence /\ result = 0
    BY <1>2 DEF SinkInv
  <2>2. Len(unflushed) = 0 /\ Len(sink) \in Nat
    BY <1>2, SinkIs, EmptySeq DEF SaveTyped
  <2>3. Len(sink) + Len(unflushed) + 0 = Total
    BY <1>2, <2>1 DEF InSequence, Waiting, Produced, Flushing
  <2>4. Len(sink) + 0 + 0 = Len(sink)
    BY <2>2
  <2> QED BY <2>1, <2>2, <2>3, <2>4
<1> QED BY <1>1, <1>2 DEF SavedInOrder

(* For all sizes of pieces, buffers and sinks: what file68_save_uri()      *)
(* leaves in a file is a beginning of the saved disk, and all of it, with  *)
(* no error, where there is room (file68.c, vfs68_z.c).                    *)
THEOREM SavesInOrder == ValidSaves => (SaveSpec => []SavedInOrder)
<1>1. ValidSaves /\ SaveInit => SaveTyped /\ SinkInv
  BY SavesInit
<1>2. ValidSaves /\ (SaveTyped /\ SinkInv) /\ [SaveNext]_saveVars => (SaveTyped /\ SinkInv)'
  BY SavesStep
<1>3. ValidSaves /\ SaveTyped /\ SinkInv => SavedInOrder
  BY SavedWhole
<1>4. ValidSaves => ValidSaves'
  OBVIOUS
<1> QED BY <1>1, <1>2, <1>3, <1>4, PTL DEF SaveSpec

(* Both together: a disk is loaded whole or not at all, and saved in       *)
(* order, whole where there is room (file68_load() and file68_save() over  *)
(* vfs68, file68.c).                                                       *)
THEOREM FilesAreWhole ==
  ValidStreams /\ ValidSaves => (VfsSpec /\ SaveSpec => []WholeFiles)
<1>1. ValidStreams => (VfsSpec => []FileOrNothing)
  BY LoadsFileOrNothing
<1>2. ValidSaves => (SaveSpec => []SavedInOrder)
  BY SavesInOrder
<1>3. FileOrNothing /\ SavedInOrder => WholeFiles
  BY DEF WholeFiles
<1> QED BY <1>1, <1>2, <1>3, PTL

-----------------------------------------------------------------------------
(* What streams hold is of its kind and fits: a block of the ring its      *)
(* bytes, a read of curl the tries it has left, a buffer of the gzip       *)
(* stream what was put there, as isf_fill_input_buffer() asks its base for *)
(* no more than buffer_in and inflate() has no more room than buffer_out.  *)
SourceTyped == /\ src \in Sources \cup {NoSource} /\ length \in Nat \cup {-1}
               /\ fail \in BOOLEAN /\ short \in BOOLEAN
RingSized == /\ \A b \in 0..(BLKS - 1) : cache[b].bytes \in 0..BLK
             /\ call.left \in -1..TRIES
Zipped(s) == Len(s.out) <= OBUF /\ Len(s.acc) <= OBUF /\ Len(s.in) <= IBUF
ZSized == /\ Zipped(z)
          /\ vfsPc = "base" /\ call.who = "fill" => call.want = IBUF
          /\ vfsPc = "fill" => Len(given) <= IBUF
StreamSized == SourceTyped /\ RingSized /\ ZSized

LEMMA SizedTypes == ASSUME ValidStreams, StreamInv, StreamSized PROVE VfsTypeOK
<1>1. Len(call.got) <= call.want
  <2>1. CASE vfsPc = "base"
    BY <2>1 DEF StreamInv, Reading
  <2>2. CASE vfsPc # "base"
    <3>1. call.got = <<>> /\ call.want \in Nat
      BY <2>2 DEF StreamInv, Reading, StreamTyped
    <3> QED BY <3>1, EmptySeq
  <2> QED BY <2>1, <2>2
<1>2. length >= -1
  BY DEF StreamSized, SourceTyped
<1>3. \A b \in DOMAIN cache : cache[b].bytes \in 0..BLK
  BY DEF StreamSized, RingSized, StreamInv, StreamTyped, RingTyped
<1> QED BY <1>1, <1>2, <1>3
        DEF VfsTypeOK, StreamSized, SourceTyped, RingSized, ZSized, Zipped, StreamInv, StreamTyped

LEMMA SizedInit == ValidStreams /\ VfsInit => StreamSized
<1> SUFFICES ASSUME ValidStreams, VfsInit PROVE StreamSized
  OBVIOUS
<1>1. BLK \in Nat /\ TRIES \in Nat /\ IBUF \in Nat /\ OBUF \in Nat /\ Len(<<>>) = 0
  BY EmptySeq DEF ValidStreams
<1>2. SourceTyped
  <2>1. fail \in BOOLEAN /\ short \in BOOLEAN
    BY DEF VfsInit
  <2> QED BY <2>1 DEF VfsInit, SourceTyped
<1>3. RingSized
  BY <1>1 DEF VfsInit, RingSized, NoCache, NoCall
<1>4. ZSized
  BY <1>1 DEF VfsInit, ZSized, Zipped, NoZ, NoCall
<1> QED BY <1>2, <1>3, <1>4 DEF StreamSized

(* Where the source, the length and the two errors come from.              *)
LEMMA SourceStep ==
  ASSUME ValidStreams, SourceTyped, StreamInv, [VfsNext]_vfsVars
  PROVE  SourceTyped'
<1> USE DEF SourceTyped
<1>1. bad \in BOOLEAN
  BY DEF StreamInv, StreamTyped
<1>2. ASSUME NEW b, NEW f \in BOOLEAN, Answer(b, f), UNCHANGED <<src, length>> PROVE SourceTyped'
  BY <1>2 DEF Answer, Deliver
<1>3. ASSUME NEW b, NEW f \in BOOLEAN, Gives(b, f), UNCHANGED restOfZ PROVE SourceTyped'
  BY <1>3 DEF Gives, Deliver, restOfZ, baseVars
<1>4. ASSUME UNCHANGED restOfZ, UNCHANGED short PROVE SourceTyped'
  BY <1>4 DEF restOfZ, baseVars
<1>5. ASSUME Inflated, UNCHANGED restOfZ PROVE SourceTyped'
  BY <1>3, <1>4, <1>5 DEF Inflated, ZGoto
<1>6. CASE BaseRead
  <2>1. PICK k : Answer(Bytes(pos, k), k = -1)
    BY <1>6 DEF BaseRead
  <2>2. (k = -1) \in BOOLEAN /\ UNCHANGED <<src, length>>
    BY <1>6 DEF BaseRead
  <2> QED BY <1>2, <2>1, <2>2
<1>7. CASE CurlCopy
  BY <1>7 DEF CurlCopy, baseVars, loadVars
<1>8. CASE CurlReturns
  BY <1>1, <1>2, <1>8 DEF CurlReturns
<1>9. CASE CurlPerform
  BY <1>2, <1>9 DEF CurlPerform
<1>10. CASE ZRead
  BY <1>3, <1>4, <1>10 DEF ZRead, ZGoto
<1>11. CASE Inflate
  BY <1>3, <1>4, <1>5, <1>11 DEF Inflate, ZGoto, Ask
<1>12. CASE Fill
  BY <1>3, <1>4, <1>5, <1>12 DEF Fill, ZGoto
<1>13. CASE DataEnd \/ Trailer
  BY <1>4, <1>13 DEF DataEnd, Trailer, ZGoto
<1>14. CASE TailDue
  BY <1>4, <1>5, <1>14 DEF TailDue, Ask
<1>15. CASE GzHeader
  BY <1>15 DEF GzHeader, Ends, Ask, baseVars
<1>16. CASE ReadId \/ ReadBase \/ ReadIce \/ ReadData
  BY <1>16 DEF ReadId, ReadBase, ReadIce, ReadData, Ends, Reads, baseVars
<1>17. CASE ReadHeader
  BY <1>17 DEF ReadHeader, Ends, Reads
<1>18. CASE OpenStream
  BY <1>18 DEF OpenStream, ValidStreams
<1>19. CASE CloseStream
  <2>1. fail' \in BOOLEAN /\ short' \in BOOLEAN
    BY <1>19 DEF CloseStream
  <2> QED BY <1>19, <2>1 DEF CloseStream
<1>20. CASE UNCHANGED vfsVars
  BY <1>20 DEF vfsVars, baseVars, loadVars
<1> QED BY <1>6, <1>7, <1>8, <1>9, <1>10, <1>11, <1>12, <1>13, <1>14, <1>15, <1>16, <1>17,
           <1>18, <1>19, <1>20 DEF VfsNext, LoadStep

(* isf_write_cb() fills blocks, and a perform without a byte costs a try.  *)
LEMMA RingFits ==
  ASSUME ValidStreams, NEW c, NEW p \in Nat, NEW k \in Nat, Transfer(p, c, k),
         DOMAIN c = 0..(BLKS - 1), \A b \in 0..(BLKS - 1) : c[b].bytes \in 0..BLK
  PROVE  \A b \in 0..(BLKS - 1) : cache'[b].bytes \in 0..BLK
<1>1. (p + k) % BLK \in 0..BLK /\ BLK \in 0..BLK
  BY DEF ValidStreams
<1>2. \A b \in 0..(BLKS - 1) : Written(c, p, k)[b].bytes \in 0..BLK
  BY <1>1 DEF Written
<1> QED BY <1>2 DEF Transfer

LEMMA RingStep ==
  ASSUME ValidStreams, RingSized, StreamInv, [VfsNext]_vfsVars
  PROVE  RingSized'
<1>1. TRIES \in Nat /\ -1..TRIES \subseteq Int /\ 0 \in -1..TRIES /\ TRIES \in -1..TRIES
  BY DEF ValidStreams
<1>2. ASSUME UNCHANGED cache, call'.left \in -1..TRIES PROVE RingSized'
  BY <1>2 DEF RingSized
<1>3. ASSUME UNCHANGED cache, UNCHANGED call PROVE RingSized'
  BY <1>2, <1>3 DEF RingSized
<1>4. ASSUME UNCHANGED cache, NEW who, NEW n, Call(who, n) PROVE RingSized'
  BY <1>1, <1>2, <1>4 DEF Call
<1>5. ASSUME UNCHANGED cache, NEW b, NEW f, Answer(b, f) PROVE RingSized'
  BY <1>1, <1>2, <1>5 DEF Answer, NoCall
<1>6. CASE BaseRead
  BY <1>5, <1>6 DEF BaseRead
<1>7. CASE CurlCopy
  <2>1. call'.left = call.left /\ UNCHANGED cache
    BY <1>7 DEF CurlCopy, baseVars, StreamInv, StreamTyped
  <2> QED BY <1>2, <2>1 DEF RingSized
<1>8. CASE CurlReturns
  BY <1>5, <1>8 DEF CurlReturns
<1>9. CASE CurlPerform
  <2>1. CASE \E b \in BOOLEAN : Answer(call.got, b) /\ UNCHANGED cache
    BY <1>5, <2>1
  <2>2. CASE \E k \in 0..Rest(curl_pos) :
               /\ Transfer(curl_pos, cache, k)
               /\ call' = [call EXCEPT !.left = IF k = 0 THEN @ - 1 ELSE TRIES]
    <3>1. curl_pos \in Nat /\ Rest(curl_pos) \in Nat /\ DOMAIN cache = 0..(BLKS - 1) /\ call.left >= 0
      BY <1>9, RestIs DEF CurlPerform, StreamInv, StreamTyped, RingTyped
    <3>2. PICK k \in Nat : /\ Transfer(curl_pos, cache, k)
                           /\ call' = [call EXCEPT !.left = IF k = 0 THEN @ - 1 ELSE TRIES]
      BY <2>2, <3>1
    <3>3. call'.left = IF k = 0 THEN call.left - 1 ELSE TRIES
      BY <3>2 DEF StreamInv, StreamTyped
    <3>4. call'.left \in -1..TRIES
      BY <1>1, <3>1, <3>3 DEF RingSized
    <3>5. \A b \in 0..(BLKS - 1) : cache'[b].bytes \in 0..BLK
      BY <3>1, <3>2, RingFits DEF RingSized
    <3> QED BY <3>4, <3>5 DEF RingSized
  <2> QED BY <1>9, <2>1, <2>2 DEF CurlPerform
<1>10. CASE ZRead \/ Fill \/ DataEnd \/ Trailer
  BY <1>3, <1>10 DEF ZRead, Fill, DataEnd, Trailer, Inflated, Gives, ZGoto, restOfZ, baseVars
<1>11. CASE Inflate \/ TailDue
  BY <1>3, <1>4, <1>11 DEF Inflate, TailDue, Inflated, Gives, ZGoto, Ask, restOfZ, baseVars
<1>12. CASE GzHeader
  BY <1>3, <1>4, <1>12 DEF GzHeader, Ends, Ask, baseVars
<1>13. CASE ReadId \/ ReadBase \/ ReadIce \/ ReadData
  BY <1>3, <1>4, <1>13 DEF ReadId, ReadBase, ReadIce, ReadData, Ends, Reads, baseVars
<1>14. CASE ReadHeader
  BY <1>3, <1>4, <1>14 DEF ReadHeader, Ends, Reads
<1>15. CASE OpenStream
  <2>1. PICK s \in Sources : \E k \in 0..(IF s.base = "curl" THEN s.has ELSE 0) : Transfer(0, NoCache, k)
    BY <1>15 DEF OpenStream
  <2>2. PICK k \in Nat : Transfer(0, NoCache, k)
    BY <2>1 DEF ValidStreams
  <2>3. DOMAIN NoCache = 0..(BLKS - 1) /\ \A b \in 0..(BLKS - 1) : NoCache[b].bytes \in 0..BLK
    BY DEF NoCache, ValidStreams
  <2>4. \A b \in 0..(BLKS - 1) : cache'[b].bytes \in 0..BLK
    BY <2>2, <2>3, RingFits
  <2>5. call'.left \in -1..TRIES
    BY <1>1, <1>15 DEF OpenStream, Call
  <2> QED BY <2>4, <2>5 DEF RingSized
<1>16. CASE CloseStream
  BY <1>1, <1>16 DEF CloseStream, RingSized, NoCache, NoCall, ValidStreams
<1>17. CASE UNCHANGED vfsVars
  BY <1>3, <1>17 DEF vfsVars, baseVars
<1> QED BY <1>6, <1>7, <1>8, <1>9, <1>10, <1>11, <1>12, <1>13, <1>14, <1>15, <1>16, <1>17
        DEF VfsNext, LoadStep

(* What the input, or what is made, becomes in a step of the gzip stream.  *)
LEMMA CutFits ==
  ASSUME NEW s \in Seq(Nat), NEW n \in Nat, n <= Len(s)
  PROVE  Len(SubSeq(s, n + 1, Len(s))) <= Len(s)
<1>1. Len(s) \in Nat
  BY LenProperties
<1>2. Len(SubSeq(s, n + 1, Len(s))) = Len(s) - n
  BY <1>1
<1> QED BY <1>1, <1>2

LEMMA EatenFits ==
  ASSUME ValidStreams, StreamInv, Zipped(z), vfsPc = "inflate", NEW n \in Nat,
         n <= Len(z.in), n <= (OBUF - Len(z.acc)) \div RATIO
  PROVE  Zipped(Eaten(n))
<1> DEFINE c == Len(z.acc)
           d == n * RATIO
           i == SubSeq(z.in, n + 1, Len(z.in))
           x == z.acc \o Bytes(z.fed * RATIO, d)
<1>1. /\ z \in ZType /\ z.in \in Seq(Nat) /\ z.acc \in Seq(Nat) /\ c \in Nat /\ z.fed \in Nat
      /\ Len(z.in) \in Nat
  BY LenProperties DEF StreamInv, StreamTyped, ZType
<1>2. RATIO \in Nat \ {0} /\ OBUF \in Nat /\ IBUF \in Nat /\ c <= OBUF /\ Len(z.in) <= IBUF
  BY DEF ValidStreams, Zipped
<1>3. d \in Nat /\ d <= OBUF - c
  <2>1. n <= (OBUF - c) \div RATIO
    OBVIOUS
  <2> HIDE DEF c
  <2>2. OBUF - c \in Nat
    BY <1>1, <1>2
  <2> QED BY <1>2, <2>1, <2>2, Stands, 0 \in Nat
<1>4. Len(x) <= OBUF
  <2>1. z.fed * RATIO \in Nat
    BY <1>1, <1>2
  <2>2. Bytes(z.fed * RATIO, d) \in Seq(Nat) /\ Len(Bytes(z.fed * RATIO, d)) = d
    BY <1>3, <2>1, BytesAre
  <2> DEFINE w == Bytes(z.fed * RATIO, d)
  <2> HIDE DEF d, w
  <2>3. Len(z.acc \o w) = Len(z.acc) + Len(w)
    BY <1>1, <2>2, ConcatProperties DEF w
  <2>4. Len(x) = c + d
    BY <2>2, <2>3 DEF w
  <2> HIDE DEF c, x
  <2> QED BY <1>1, <1>2, <1>3, <2>4
<1>5. Len(i) <= IBUF
  <2>1. Len(i) \in Nat /\ Len(i) <= Len(z.in)
    BY <1>1, CutFits, RestOf, LenProperties
  <2> QED BY <1>1, <1>2, <2>1
<1>6. Eaten(n).in = i /\ Eaten(n).acc = x /\ Eaten(n).out = z.out
  <2>1. Eaten(n) = [z EXCEPT !.fed = z.fed + n, !.in = i, !.acc = x]
    BY DEF Eaten
  <2> HIDE DEF i, x
  <2> QED BY <1>1, <2>1 DEF ZType
<1> QED BY <1>4, <1>5, <1>6 DEF Zipped

LEMMA ZAnswered ==
  ASSUME ValidStreams, ZSized, StreamInv, vfsPc = "base", UNCHANGED z,
         NEW b, NEW f \in BOOLEAN, Answer(b, f), f \/ Len(b) <= call.want
  PROVE  ZSized'
<1>1. vfsPc' = call.who /\ vfsPc' # "base" /\ given' = IF f THEN <<>> ELSE b
  BY DEF StreamInv, PlacesTyped, Answer
<1>2. vfsPc' = "fill" => Len(given') <= IBUF
  <2> SUFFICES ASSUME call.who = "fill" PROVE Len(given') <= IBUF
    BY <1>1
  <2>1. call.want = IBUF /\ IBUF \in Nat /\ Len(<<>>) = 0
    BY EmptySeq DEF ZSized, ValidStreams
  <2> QED BY <1>1, <2>1
<1> QED BY <1>1, <1>2 DEF ZSized, Zipped

LEMMA ZEmptied ==
  ASSUME ValidStreams, StreamInv, Zipped(z), NEW b, NEW f, Gives(b, f)
  PROVE  Zipped(z') /\ vfsPc' = "is"
<1>1. vfsPc' = "is" /\ z' = [z EXCEPT !.got = <<>>, !.acc = <<>>, !.sent = @ + Len(b)]
  BY DEF Gives
<1>2. z'.in = z.in /\ z'.out = z.out /\ z'.acc = <<>>
  BY <1>1 DEF StreamInv, StreamTyped, ZType
<1> QED BY <1>1, <1>2, EmptySeq DEF Zipped, ValidStreams

LEMMA ZInflated ==
  ASSUME ValidStreams, StreamInv, Zipped(z), Inflated
  PROVE  Zipped(z') /\ vfsPc' \in {"is", "z"}
<1>1. CASE Gives(z.got, FALSE)
  BY <1>1, ZEmptied
<1>2. CASE ZGoto("z", [z EXCEPT !.out = z.acc, !.acc = <<>>])
  <2>1. vfsPc' = "z" /\ z' = [z EXCEPT !.out = z.acc, !.acc = <<>>]
    BY <1>2 DEF ZGoto
  <2>2. z'.in = z.in /\ z'.out = z.acc /\ z'.acc = <<>>
    BY <2>1 DEF StreamInv, StreamTyped, ZType
  <2> QED BY <2>1, <2>2, EmptySeq DEF Zipped, ValidStreams
<1> QED BY <1>1, <1>2 DEF Inflated

(* A read through it takes from what is inflated.                          *)
LEMMA ZTaken ==
  ASSUME ValidStreams, ZSized, StreamInv, ZRead
  PROVE  ZSized'
<1>1. Zipped(z) /\ z \in ZType /\ z.out \in Seq(Nat) /\ z.got \in Seq(Nat) /\ want \in Nat
  BY DEF ZSized, StreamInv, StreamTyped, ZType
<1>2. Len(z.out) \in Nat /\ Len(z.got) \in Nat /\ Len(z.got) <= want /\ Len(z.out) <= OBUF /\ OBUF \in Nat
  <2>1. vfsPc \in Between
    BY DEF ZRead, Between
  <2> QED BY <1>1, <2>1, Unpacking, LenProperties DEF InOrder, Zipped, ValidStreams
<1> DEFINE n == Lesser(Len(z.out), want - Len(z.got))
           o == SubSeq(z.out, n + 1, Len(z.out))
<1>3. \/ Gives(z.got, FALSE)
      \/ ZGoto("inflate", z)
      \/ ZGoto("z", [z EXCEPT !.got = @ \o SubSeq(z.out, 1, n), !.out = o])
  BY DEF ZRead
<1>4. CASE Gives(z.got, FALSE)
  BY <1>1, <1>4, ZEmptied DEF ZSized
<1>5. CASE ZGoto("inflate", z)
  BY <1>1, <1>5 DEF ZGoto, ZSized
<1>6. CASE ZGoto("z", [z EXCEPT !.got = @ \o SubSeq(z.out, 1, n), !.out = o])
  <2>1. n \in Nat /\ n <= Len(z.out)
    <3>1. want - Len(z.got) \in Nat
      BY <1>1, <1>2
    <3> QED BY <1>2, <3>1 DEF Lesser
  <2> HIDE DEF n
  <2>2. Len(o) <= OBUF
    <3>1. Len(o) \in Nat /\ Len(o) <= Len(z.out)
      BY <1>1, <2>1, CutFits, RestOf, LenProperties
    <3> HIDE DEF o
    <3> QED BY <1>2, <3>1
  <2>3. vfsPc' = "z" /\ z' = [z EXCEPT !.got = @ \o SubSeq(z.out, 1, n), !.out = o]
    BY <1>6 DEF ZGoto
  <2> HIDE DEF o
  <2>4. z'.in = z.in /\ z'.out = o /\ z'.acc = z.acc
    BY <1>1, <2>3 DEF ZType
  <2> QED BY <1>1, <2>2, <2>3, <2>4 DEF ZSized, Zipped
<1> QED BY <1>3, <1>4, <1>5, <1>6

LEMMA ZMade ==
  ASSUME ValidStreams, ZSized, StreamInv, Inflate
  PROVE  ZSized'
<1> DEFINE m == (OBUF - Len(z.acc)) \div RATIO
           k == Lesser(Len(z.in), m)
           n == Lesser(Packed - z.fed, k)
<1>1. /\ vfsPc = "inflate" /\ vfsPc \in Between
      /\ \/ Inflated
         \/ Ask("fill", IBUF, z)
         \/ Gives(<<>>, TRUE)
         \/ ZGoto(IF z.fed + n = Packed THEN "end" ELSE "inflate", Eaten(n))
  BY DEF Inflate, Between
<1>2. Zipped(z) /\ InOrder /\ Packed \in Nat
  BY <1>1, Unpacking DEF ZSized
<1>3. CASE Inflated
  BY <1>2, <1>3, ZInflated DEF ZSized
<1>4. CASE Ask("fill", IBUF, z)
  <2>1. vfsPc' = "base" /\ z' = z /\ call'.want = IBUF
    BY <1>4 DEF Ask, Call
  <2> QED BY <1>2, <2>1 DEF ZSized
<1>5. CASE Gives(<<>>, TRUE)
  BY <1>2, <1>5, ZEmptied DEF ZSized
<1>6. CASE ZGoto(IF z.fed + n = Packed THEN "end" ELSE "inflate", Eaten(n))
  <2>1. vfsPc' \in {"end", "inflate"} /\ z' = Eaten(n)
    BY <1>6 DEF ZGoto
  <2>2. n \in Nat /\ n <= Len(z.in) /\ n <= m
    <3>1. Len(z.in) \in Nat /\ Packed - z.fed \in Nat
      BY <1>2, LenProperties DEF StreamInv, StreamTyped, ZType, InOrder
    <3>2. m \in Nat
      <4>1. OBUF - Len(z.acc) \in Nat
        BY <1>2, LenProperties DEF StreamInv, StreamTyped, ZType, InOrder, ValidStreams
      <4>2. RATIO \in Nat \ {0}
        BY DEF ValidStreams
      <4> QED BY <4>1, <4>2
    <3> HIDE DEF m
    <3> QED BY <3>1, <3>2 DEF Lesser
  <2> HIDE DEF n
  <2>3. Zipped(Eaten(n))
    BY <1>1, <1>2, <2>2, EatenFits
  <2> QED BY <2>1, <2>3 DEF ZSized
<1> QED BY <1>1, <1>3, <1>4, <1>5, <1>6

(* What is asked of its base is put in its input.                          *)
LEMMA ZFilled ==
  ASSUME ValidStreams, ZSized, StreamInv, Fill \/ DataEnd \/ TailDue \/ Trailer
  PROVE  ZSized'
<1>1. Zipped(z) /\ z \in ZType /\ z.in \in Seq(Nat) /\ Len(z.in) \in Nat /\ IBUF \in Nat /\ GZT \in Nat
      /\ Len(z.in) <= IBUF
  BY LenProperties DEF ZSized, Zipped, StreamInv, StreamTyped, ZType, ValidStreams
<1>2. CASE Fill
  <2>1. CASE Gives(<<>>, TRUE)
    BY <1>1, <2>1, ZEmptied DEF ZSized
  <2>2. CASE Inflated
    BY <1>1, <2>2, ZInflated DEF ZSized
  <2>3. CASE ZGoto("inflate", [z EXCEPT !.in = given])
    <3>1. vfsPc' = "inflate" /\ z'.in = given /\ z'.out = z.out /\ z'.acc = z.acc
      BY <1>1, <2>3 DEF ZGoto, ZType
    <3>2. Len(given) <= IBUF
      BY <1>2 DEF Fill, ZSized
    <3> QED BY <1>1, <3>1, <3>2 DEF ZSized, Zipped
  <2> QED BY <1>2, <2>1, <2>2, <2>3 DEF Fill
<1>3. CASE DataEnd
  <2> DEFINE n == Lesser(Len(z.in), GZT)
             i == SubSeq(z.in, n + 1, Len(z.in))
  <2>1. ZGoto("tail", [z EXCEPT !.in = i, !.tail = GZT - n])
    BY <1>3 DEF DataEnd
  <2>2. n \in Nat /\ n <= Len(z.in)
    BY <1>1 DEF Lesser
  <2> HIDE DEF n
  <2>3. Len(i) <= IBUF
    <3>1. Len(i) \in Nat /\ Len(i) <= Len(z.in)
      BY <1>1, <2>2, CutFits, RestOf, LenProperties
    <3> HIDE DEF i
    <3> QED BY <1>1, <3>1
  <2> HIDE DEF i
  <2>4. vfsPc' = "tail" /\ z'.in = i /\ z'.out = z.out /\ z'.acc = z.acc
    BY <1>1, <2>1 DEF ZGoto, ZType
  <2> QED BY <1>1, <2>3, <2>4 DEF ZSized, Zipped
<1>4. CASE TailDue
  <2>1. CASE Inflated
    BY <1>1, <2>1, ZInflated DEF ZSized
  <2>2. CASE Ask("trailer", z.tail, z)
    <3>1. vfsPc' = "base" /\ z' = z /\ call'.who = "trailer"
      BY <2>2 DEF Ask, Call
    <3> QED BY <1>1, <3>1 DEF ZSized
  <2> QED BY <1>4, <2>1, <2>2 DEF TailDue
<1>5. CASE Trailer
  <2> DEFINE t == IF given = <<>> THEN 0 ELSE z.tail - Len(given)
  <2>1. vfsPc' = "tail" /\ z' = [z EXCEPT !.tail = t]
    BY <1>5 DEF Trailer, ZGoto
  <2> HIDE DEF t
  <2>2. z'.in = z.in /\ z'.out = z.out /\ z'.acc = z.acc
    BY <1>1, <2>1 DEF ZType
  <2> QED BY <1>1, <2>1, <2>2 DEF ZSized, Zipped
<1> QED BY <1>2, <1>3, <1>4, <1>5

LEMMA ZStep ==
  ASSUME ValidStreams, ZSized, StreamInv, [VfsNext]_vfsVars
  PROVE  ZSized'
<1>1. Zipped(z) /\ z \in ZType /\ pos \in Nat /\ call.want \in Nat
  BY DEF ZSized, StreamInv, StreamTyped
<1>2. ASSUME UNCHANGED z, vfsPc' \notin {"base", "fill"} PROVE ZSized'
  BY <1>1, <1>2 DEF ZSized, Zipped
<1>3. ASSUME UNCHANGED z, NEW who, NEW n, who # "fill", Call(who, n) PROVE ZSized'
  BY <1>1, <1>3 DEF ZSized, Zipped, Call
<1>4. CASE BaseRead
  <2>1. vfsPc = "base" /\ src.base # "curl" /\ UNCHANGED z
    BY <1>4 DEF BaseRead
  <2>2. PICK k \in Counts(call.want) : Answer(Bytes(pos, k), k = -1)
    BY <1>4 DEF BaseRead
  <2>3. k \in -1..call.want
    <3>1. src.base \in {"mem", "fd", "file"} /\ Rest(pos) \in Nat
      BY <1>1, <2>1, RestIs DEF StreamInv, StreamTyped, ValidStreams
    <3> QED BY <1>1, <2>2, <3>1 DEF Counts, MemCounts, FileCounts, FdCounts, Lesser
  <2>4. k = -1 \/ Len(Bytes(pos, k)) <= call.want
    <3> SUFFICES ASSUME k # -1 PROVE Len(Bytes(pos, k)) <= call.want
      OBVIOUS
    <3>1. k \in Nat /\ k <= call.want
      BY <1>1, <2>3
    <3> QED BY <1>1, <3>1, BytesAre
  <2>5. (k = -1) \in BOOLEAN
    OBVIOUS
  <2> QED BY <2>1, <2>2, <2>4, <2>5, ZAnswered
<1>5. CASE CurlCopy
  <2>1. UNCHANGED <<z, vfsPc, given>> /\ call'.who = call.who /\ call'.want = call.want
    BY <1>5 DEF CurlCopy, StreamInv, StreamTyped
  <2> QED BY <2>1 DEF ZSized, Zipped
<1>6. CASE CurlReturns
  <2>1. vfsPc = "base" /\ UNCHANGED z /\ Answer(call.got, bad) /\ bad \in BOOLEAN
    BY <1>6 DEF CurlReturns, StreamInv, StreamTyped
  <2>2. Len(call.got) <= call.want
    BY <2>1 DEF StreamInv, Reading
  <2> QED BY <2>1, <2>2, ZAnswered
<1>7. CASE CurlPerform
  <2>1. vfsPc = "base" /\ UNCHANGED z
    BY <1>7 DEF CurlPerform
  <2>2. Len(call.got) <= call.want
    BY <2>1 DEF StreamInv, Reading
  <2>3. CASE \E b \in BOOLEAN : Answer(call.got, b)
    BY <2>1, <2>2, <2>3, ZAnswered
  <2>4. CASE \E k : /\ call' = [call EXCEPT !.left = IF k = 0 THEN @ - 1 ELSE TRIES]
                    /\ UNCHANGED <<given, vfsPc>>
    <3>1. call'.who = call.who /\ call'.want = call.want
      BY <2>4 DEF StreamInv, StreamTyped
    <3> QED BY <2>1, <2>4, <3>1 DEF ZSized, Zipped
  <2> QED BY <1>7, <2>3, <2>4 DEF CurlPerform
<1>8. CASE ZRead BY <1>8, ZTaken
<1>9. CASE Inflate BY <1>9, ZMade
<1>10. CASE Fill \/ DataEnd \/ TailDue \/ Trailer BY <1>10, ZFilled
<1>11. CASE GzHeader
  <2> DEFINE g == z.got \o given
  <2>1. \/ vfsPc' = "close" /\ UNCHANGED z
        \/ vfsPc' = "base" /\ call'.who = "gzhead" /\ z' = [z EXCEPT !.got = g]
        \/ vfsPc' = "z" /\ z' = NoZ
    BY <1>11 DEF GzHeader, Ends, Ask, Call
  <2> HIDE DEF g
  <2>2. Zipped([z EXCEPT !.got = g])
    BY <1>1 DEF Zipped, ZType
  <2>3. Zipped(NoZ)
    BY EmptySeq DEF Zipped, NoZ, ValidStreams
  <2> QED BY <1>1, <2>1, <2>2, <2>3 DEF ZSized
<1>12. CASE ReadId \/ ReadBase \/ ReadIce \/ ReadData
  <2>1. \/ \E disk : Ends(disk)
        \/ \E st, n : Reads(st, n)
    BY <1>12 DEF ReadId, ReadBase, ReadIce, ReadData
  <2> QED BY <1>2, <1>3, <2>1 DEF Ends, Reads
<1>13. CASE ReadHeader
  BY <1>2, <1>3, <1>13 DEF ReadHeader, Ends, Reads
<1>14. CASE OpenStream
  BY <1>3, <1>14 DEF OpenStream
<1>15. CASE CloseStream
  <2>1. Zipped(NoZ)
    BY EmptySeq DEF Zipped, NoZ, ValidStreams
  <2> QED BY <1>15, <2>1 DEF CloseStream, ZSized
<1>16. CASE UNCHANGED vfsVars
  BY <1>16 DEF vfsVars, ZSized, Zipped
<1> QED BY <1>4, <1>5, <1>6, <1>7, <1>8, <1>9, <1>10, <1>11, <1>12, <1>13, <1>14, <1>15, <1>16
        DEF VfsNext, LoadStep

LEMMA StreamsTyped ==
  ASSUME ValidStreams, StreamInv, StreamSized, [VfsNext]_vfsVars
  PROVE  StreamInv' /\ StreamSized'
BY EachStep, SourceStep, RingStep, ZStep DEF StreamSized

(* For every size of the ring and of the buffers, every source and all     *)
(* that servers do: what streams keep is of its type and within its        *)
(* bounds, each block of the ring, both buffers of the gzip stream and     *)
(* what a read has got (vfs68_curl.c, vfs68_z.c).                          *)
THEOREM VfsTypes == ValidStreams => (VfsSpec => []VfsTypeOK)
<1>1. ValidStreams /\ VfsInit => StreamInv /\ StreamSized
  BY InitInv, SizedInit
<1>2. ValidStreams /\ (StreamInv /\ StreamSized) /\ [VfsNext]_vfsVars => (StreamInv /\ StreamSized)'
  BY StreamsTyped
<1>3. ValidStreams /\ StreamInv /\ StreamSized => VfsTypeOK
  BY SizedTypes
<1>4. ValidStreams => ValidStreams'
  OBVIOUS
<1> QED BY <1>1, <1>2, <1>3, <1>4, PTL DEF VfsSpec

-----------------------------------------------------------------------------
(* What saving keeps is of its kind and fits; the gzip stream has taken no *)
(* more of a piece than there is, and nothing is taken without it.         *)
TakenFits == /\ taken \in Nat
             /\ ~Done => taken <= PieceSize
             /\ taken # 0 => savePc # "idle" /\ to.gzip
SaveSized == /\ to \in Sinks \cup {[base |-> "none"]} /\ result \in {0, -1}
             /\ Len(unflushed) <= FBUF /\ zin \in 0..ZBUF
             /\ TakenFits

LEMMA SaveSizedInit == ValidSaves /\ SaveInit => SaveSized
<1> SUFFICES ASSUME ValidSaves, SaveInit PROVE SaveSized
  OBVIOUS
<1>1. Len(<<>>) = 0 /\ FBUF \in Nat /\ ZBUF \in Nat /\ Len(PieceEnds) \in Nat
  BY EmptySeq, LenProperties DEF ValidSaves
<1>2. ~Done => PieceSize \in Nat
  <2>1. 1 \in 1..(Len(PieceEnds) + 1) /\ piece = 1
    BY <1>1 DEF SaveInit
  <2> QED BY <1>1, <2>1, PieceBounds DEF Done, PieceSize
<1>3. TakenFits
  <2>1. taken = 0 /\ savePc = "idle"
    BY DEF SaveInit
  <2> QED BY <1>2, <2>1 DEF TakenFits
<1> QED BY <1>1, <1>3 DEF SaveInit, SaveSized

LEMMA WritesFit ==
  ASSUME ValidSaves, SaveTyped, Len(unflushed) <= FBUF, savePc # "idle",
         NEW b, NEW x \in Writes(b)
  PROVE  Len(x.unflushed) <= FBUF
<1>1. to.base \in {"mem", "fd", "file"} /\ Len(<<>>) = 0 /\ FBUF \in Nat
  BY EmptySeq DEF ValidSaves, SaveTyped
<1>2. CASE to.base = "mem"
  BY <1>1, <1>2 DEF Writes, MemWrites
<1>3. CASE to.base = "fd"
  BY <1>1, <1>3 DEF Writes, FdWrites
<1>4. CASE to.base = "file"
  <2>1. x \in FileWrites(b)
    BY <1>4 DEF Writes
  <2>2. Len(unflushed \o b) <= FBUF \/ x.unflushed = <<>>
    BY <2>1 DEF FileWrites
  <2>3. Len(unflushed \o b) <= FBUF => x.unflushed = unflushed \o b
    BY <2>1 DEF FileWrites
  <2> QED BY <1>1, <2>2, <2>3
<1> QED BY <1>1, <1>2, <1>3, <1>4

LEMMA FlushesFit ==
  ASSUME ValidSaves, SaveTyped, Len(unflushed) <= FBUF, savePc # "idle", NEW x \in Flushes
  PROVE  Len(x.unflushed) <= FBUF
BY WritesFit DEF Flushes

(* A piece that is written whole leaves none of the next taken.            *)
LEMMA NextTaken ==
  ASSUME ValidSaves, SaveTyped, ~Done, piece' = piece + 1, taken' = 0
  PROVE  TakenFits'
<1>1. Len(PieceEnds) \in Nat /\ piece \in Nat /\ piece <= Len(PieceEnds)
  BY LenProperties DEF Done, SaveTyped, ValidSaves
<1> DEFINE p == piece + 1
<1>2. p \in 1..(Len(PieceEnds) + 1)
  <2>1. piece \in 1..(Len(PieceEnds) + 1)
    BY DEF SaveTyped
  <2> QED BY <1>1, <2>1
<1>3. p <= Len(PieceEnds) => 0 <= PieceEnds[p] - Before(p)
  <2> HIDE DEF p
  <2> QED BY <1>2, PieceBounds
<1>4. (~Done => taken <= PieceSize)'
  <2>1. Done' = ~(p <= Len(PieceEnds))
    BY <1>1 DEF Done
  <2>2. PieceSize' = PieceEnds[p] - Before(p)
    BY DEF PieceSize, Before
  <2> HIDE DEF p
  <2> QED BY <1>3, <2>1, <2>2
<1> QED BY <1>4 DEF TakenFits

LEMMA TakenStep ==
  ASSUME ValidSaves, SaveTyped, SaveSized, [SaveNext]_saveVars
  PROVE  TakenFits'
<1>1. TakenFits /\ zin \in 0..ZBUF /\ ZBUF \in Nat
  BY DEF SaveSized, ValidSaves
<1>2. ASSUME UNCHANGED <<piece, taken, to>>, savePc # "idle" => savePc' # "idle" PROVE TakenFits'
  BY <1>1, <1>2 DEF TakenFits, Done, PieceSize, Before
<1>3. CASE Save
  <2>1. UNCHANGED <<piece, taken>> /\ taken = 0
    BY <1>1, <1>3 DEF Save, TakenFits
  <2> QED BY <1>1, <2>1 DEF TakenFits, Done, PieceSize, Before
<1>4. CASE Header
  BY <1>2, <1>4 DEF Header, Fails
<1>5. CASE WritePiece
  <2>1. taken = 0 /\ taken' = 0 /\ to' = to /\ savePc' # "idle"
    BY <1>1, <1>5 DEF WritePiece, TakenFits, Fails
  <2>2. CASE piece' = piece
    BY <1>2, <2>1, <2>2
  <2>3. CASE piece' = piece + 1 /\ ~Done
    BY <2>1, <2>3, NextTaken
  <2> QED BY <1>5, <2>2, <2>3 DEF WritePiece, Fails
<1>6. CASE ZWrite
  <2> DEFINE n == Lesser(ZBUF - zin, PieceSize - taken)
  <2>1. to.gzip /\ to' = to /\ savePc' # "idle"
    BY <1>6 DEF ZWrite
  <2>2. CASE UNCHANGED <<piece, taken>>
    BY <1>2, <2>1, <2>2
  <2>3. CASE piece' = piece + 1 /\ taken' = 0 /\ ~Done
    BY <2>3, NextTaken
  <2>4. CASE taken' = taken + n /\ UNCHANGED piece /\ ~Done
    <3>1. PieceSize \in Nat
      <4>1. Len(PieceEnds) \in Nat /\ piece \in 1..(Len(PieceEnds) + 1)
        BY LenProperties DEF SaveTyped, ValidSaves
      <4>2. piece <= Len(PieceEnds)
        BY <2>4, <4>1 DEF Done
      <4> QED BY <4>1, <4>2, PieceBounds DEF PieceSize
    <3>2. PieceSize - taken \in Nat /\ ZBUF - zin \in Nat /\ taken \in Nat
      BY <1>1, <2>4, <3>1 DEF TakenFits
    <3>3. n \in Nat /\ n <= PieceSize - taken
      BY <3>2 DEF Lesser
    <3> HIDE DEF n
    <3>4. taken' \in Nat /\ taken' <= PieceSize
      BY <2>4, <3>1, <3>2, <3>3
    <3>5. PieceSize' = PieceSize
      BY <2>4 DEF PieceSize, Before
    <3> QED BY <2>1, <3>4, <3>5 DEF TakenFits
  <2> QED BY <1>6, <2>2, <2>3, <2>4 DEF ZWrite
<1>7. CASE Deflate \/ Finish \/ LastFlush \/ WriteTrailer \/ CloseSink
  BY <1>2, <1>7 DEF Deflate, Finish, LastFlush, WriteTrailer, CloseSink
<1>8. CASE Told
  <2>1. piece' = 1 /\ taken' = 0 /\ 1 \in 1..(Len(PieceEnds) + 1)
    BY <1>8, LenProperties DEF Told, ValidSaves
  <2>2. 1 <= Len(PieceEnds) => 0 <= PieceEnds[1] - Before(1)
    BY <2>1, PieceBounds
  <2>3. (~Done => taken <= PieceSize)'
    <3>1. Len(PieceEnds) \in Nat
      BY LenProperties DEF ValidSaves
    <3> QED BY <2>1, <2>2, <3>1 DEF Done, PieceSize, Before
  <2> QED BY <2>1, <2>3 DEF TakenFits
<1>9. CASE UNCHANGED saveVars
  BY <1>2, <1>9 DEF saveVars
<1> QED BY <1>3, <1>4, <1>5, <1>6, <1>7, <1>8, <1>9 DEF SaveNext

LEMMA SaveSizedStep ==
  ASSUME ValidSaves, SaveTyped, SaveSized, [SaveNext]_saveVars
  PROVE  SaveSized'
<1>1. TakenFits'
  BY TakenStep
<1>2. /\ to \in Sinks \cup {[base |-> "none"]} /\ result \in {0, -1}
      /\ Len(unflushed) <= FBUF /\ zin \in 0..ZBUF
  BY DEF SaveSized
<1>3. ZBUF \in Nat /\ FBUF \in Nat /\ Len(<<>>) = 0
  BY EmptySeq DEF ValidSaves
<1>4. (to \in Sinks \cup {[base |-> "none"]})'
  BY <1>2 DEF SaveNext, Save, Header, WritePiece, ZWrite, Deflate, Finish, LastFlush, WriteTrailer,
              CloseSink, Told, saveVars
<1>5. (result \in {0, -1})'
  BY <1>2 DEF SaveNext, Save, Header, WritePiece, ZWrite, Deflate, Finish, LastFlush, WriteTrailer,
              CloseSink, Told, saveVars, Fails
<1>6. (Len(unflushed) <= FBUF)'
  <2>1. CASE UNCHANGED unflushed
    BY <1>2, <2>1
  <2>2. CASE unflushed' = <<>>
    BY <1>3, <2>2
  <2>3. CASE savePc # "idle" /\ \E b : \E x \in Writes(b) : Wrote(x)
    BY <1>2, <2>3, WritesFit DEF Wrote
  <2>4. CASE savePc # "idle" /\ \E x \in Flushes : Wrote(x)
    BY <1>2, <2>4, FlushesFit DEF Wrote
  <2> QED BY <2>1, <2>2, <2>3, <2>4
          DEF SaveNext, Save, Header, WritePiece, ZWrite, Deflate, Finish, LastFlush, WriteTrailer,
              CloseSink, Told, saveVars, fileVars
<1>7. (zin \in 0..ZBUF)'
  <2>1. CASE UNCHANGED zin
    BY <1>2, <2>1
  <2>2. CASE ZWrite /\ zin' # zin
    <3> DEFINE n == Lesser(ZBUF - zin, PieceSize - taken)
    <3>1. ~Done /\ n # 0 /\ zin' = zin + n
      BY <2>2 DEF ZWrite
    <3>2. PieceSize - taken \in Nat /\ ZBUF - zin \in Nat
      <4>1. Len(PieceEnds) \in Nat /\ piece \in 1..(Len(PieceEnds) + 1)
        BY LenProperties DEF SaveTyped, ValidSaves
      <4>2. piece <= Len(PieceEnds)
        BY <3>1, <4>1 DEF Done
      <4>3. PieceSize \in Nat
        BY <4>1, <4>2, PieceBounds DEF PieceSize
      <4>4. taken \in Nat /\ taken <= PieceSize
        BY <3>1 DEF SaveSized, TakenFits
      <4> QED BY <1>2, <1>3, <4>3, <4>4
    <3>3. n \in Nat /\ n <= ZBUF - zin
      BY <3>2 DEF Lesser
    <3> HIDE DEF n
    <3> QED BY <1>2, <1>3, <3>1, <3>3
  <2>3. CASE \E left \in 0..zin : zin' = left
    BY <1>2, <1>3, <2>3
  <2>4. CASE zin' = 0
    BY <1>3, <2>4
  <2> QED BY <2>1, <2>2, <2>3, <2>4
          DEF SaveNext, Save, Header, WritePiece, ZWrite, Deflate, Finish, LastFlush, WriteTrailer,
              CloseSink, Told, saveVars, zVars
<1> QED BY <1>1, <1>4, <1>5, <1>6, <1>7 DEF SaveSized

LEMMA SaveSizedTypes == ASSUME SaveTyped, SaveSized PROVE SaveTypeOK
BY DEF SaveTypeOK, SaveTyped, SaveSized, TakenFits, SavePcs, Flushing

(* For all sizes of pieces, buffers and sinks: what saving keeps is of its *)
(* type and within its bounds, stdio's buffer and the two of the gzip      *)
(* stream, and no piece is taken past its end (vfs68_z.c, isf_write()).    *)
THEOREM SaveTypes == ValidSaves => (SaveSpec => []SaveTypeOK)
<1> DEFINE I == SaveTyped /\ SinkInv /\ SaveSized
<1>1. ValidSaves /\ SaveInit => I
  BY SavesInit, SaveSizedInit
<1>2. ValidSaves /\ I /\ [SaveNext]_saveVars => I'
  BY SavesStep, SaveSizedStep
<1>3. I => SaveTypeOK
  BY SaveSizedTypes
<1>4. ValidSaves => ValidSaves'
  OBVIOUS
<1> QED BY <1>1, <1>2, <1>3, <1>4, PTL DEF SaveSpec
=============================================================================
