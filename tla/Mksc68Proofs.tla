---------------------------- MODULE Mksc68Proofs ----------------------------
(***************************************************************************)
(* Safety of mksc68.  First the disk editor, whatever file is loaded and   *)
(* whatever is edited: every string it allocated has one holder, which     *)
(* frees it.  Then its background player, for any number of threads and    *)
(* disks, and commands typed whatever the thread is doing at the time:     *)
(* playinfo has no lock, what keeps its two users apart is where each is.  *)
(***************************************************************************)
EXTENDS MksPlay, Disk68, TLAPS, FiniteSetTheorems, SequenceTheorems, NaturalsInduction, WellFoundedInduction

(* Induction over the naturals, by sets.                                   *)
Less == {ss \in Nat \X Nat : ss[1] < ss[2]}

LEMMA Smallest == \A T \in SUBSET Nat : T # {} => \E x \in T : \A y \in T : x <= y
<1> SUFFICES ASSUME NEW T \in SUBSET Nat, T # {} PROVE \E x \in T : \A y \in T : x <= y
  OBVIOUS
<1>1. IsWellFoundedOn(Less, Nat)  BY NatLessThanWellFounded DEF OpToRel, Less
<1>2. PICK x \in T : \A y \in T : ~(<<y, x>> \in Less)  BY <1>1, WFMin
<1>3. ASSUME NEW y \in T PROVE x <= y
  <2>1. <<y, x>> \in Nat \X Nat /\ <<y, x>>[1] = y /\ <<y, x>>[2] = x  OBVIOUS
  <2>2. ~(y < x)  BY <1>2, <2>1 DEF Less
  <2> QED BY <2>2
<1> QED BY <1>3

LEMMA NatInd == \A T \in SUBSET Nat : 0 \in T /\ (\A n \in T : n + 1 \in T) => T = Nat
<1> SUFFICES ASSUME NEW T \in SUBSET Nat, 0 \in T, \A n \in T : n + 1 \in T, T # Nat PROVE FALSE
  OBVIOUS
<1> DEFINE U == Nat \ T
<1>1. PICK x \in U : \A y \in U : x <= y
  <2> U \in SUBSET Nat /\ U # {}  OBVIOUS
  <2> HIDE DEF U
  <2> QED BY Smallest
<1>2. x \in Nat /\ x # 0 /\ x - 1 \in Nat  OBVIOUS
<1>3. x - 1 \in T  BY <1>1, <1>2
<1> QED BY <1>2, <1>3

(* Up to a bound.                                                          *)
LEMMA UpTo ==
  ASSUME NEW k \in Nat, NEW T \in SUBSET Nat, 0 \in T, \A n \in T : n < k => n + 1 \in T
  PROVE  \A n \in 0..k : n \in T
<1> DEFINE U == {n \in Nat : n <= k => n \in T}
<1>1. 0 \in U /\ \A n \in U : n + 1 \in U  OBVIOUS
<1>2. U = Nat
  <2>1. U \in SUBSET Nat  OBVIOUS
  <2> HIDE DEF U
  <2> QED BY <1>1, <2>1, NatInd
<1> QED BY <1>2

LEMMA Stays ==
  ASSUME NEW S, NEW N \in Nat, NEW v, v[0] \in S, \A i \in 1..N : v[i - 1] \in S => v[i] \in S
  PROVE  \A i \in 0..N : v[i] \in S
<1> DEFINE T == {n \in Nat : v[n] \in S}
<1>1. 0 \in T  OBVIOUS
<1>2. ASSUME NEW n \in T, n < N PROVE n + 1 \in T
  <2>1. n + 1 \in 1..N /\ (n + 1) - 1 = n  BY <1>2
  <2> QED BY <2>1
<1>3. T \in SUBSET Nat  OBVIOUS
<1>4. \A i \in 0..N : i \in T
  <2> HIDE DEF T
  <2> QED BY <1>1, <1>2, <1>3, UpTo
<1> QED BY <1>4

(* What is repeated: a walk of N steps in S from a, F[i] being step i.     *)
Walks(t, S, N, a, F) ==
  t \in [0..N -> S] /\ t[0] = a /\ \A i \in 1..N : t[i] = F[i][t[i - 1]]

LEMMA WalkIs ==
  ASSUME NEW S, NEW a \in S, NEW N \in Nat, NEW F \in [1..N -> [S -> S]]
  PROVE  \E t : Walks(t, S, N, a, F)
<1> DEFINE Good(n, g) == g[0] = a /\ \A i \in 1..n : g[i] = F[i][g[i - 1]]
           T == {n \in Nat : \E g \in [0..n -> S] : Good(n, g)}
<1>1. 0 \in T
  <2>1. [i \in 0..0 |-> a] \in [0..0 -> S] /\ Good(0, [i \in 0..0 |-> a])  OBVIOUS
  <2> QED BY <2>1
<1>2. ASSUME NEW n \in T, n < N PROVE n + 1 \in T
  <2>1. PICK g \in [0..n -> S] : Good(n, g)  OBVIOUS
  <2> DEFINE h == [i \in 0..(n + 1) |-> IF i = n + 1 THEN F[n + 1][g[n]] ELSE g[i]]
  <2>2. n \in Nat /\ n + 1 \in 1..N /\ g[n] \in S /\ F[n + 1][g[n]] \in S  BY <1>2
  <2>3. h \in [0..(n + 1) -> S]  BY <2>2
  <2>4. Good(n + 1, h)
    <3>1. h[0] = a  BY <2>1, <2>2
    <3>2. ASSUME NEW i \in 1..(n + 1) PROVE h[i] = F[i][h[i - 1]]
      <4>1. CASE i = n + 1  BY <4>1, <2>2
      <4>2. CASE i # n + 1
        <5>1. i \in 1..n /\ h[i] = g[i] /\ h[i - 1] = g[i - 1]  BY <4>2, <2>2
        <5> QED BY <5>1, <2>1
      <4> QED BY <4>1, <4>2
    <3> HIDE DEF h
    <3> QED BY <3>1, <3>2
  <2>5. n + 1 \in Nat  BY <2>2
  <2> HIDE DEF h, Good
  <2> QED BY <2>3, <2>4, <2>5
<1>3. T \in SUBSET Nat  OBVIOUS
<1>4. N \in T
  <2> HIDE DEF T
  <2>1. \A n \in 0..N : n \in T  BY <1>1, <1>2, <1>3, UpTo
  <2> QED BY <2>1
<1> QED BY <1>4 DEF Walks

-----------------------------------------------------------------------------
(* Tags.  An array of tags is tidy when its first three have the keys they *)
(* were made with, no two others have the same, and none is without value. *)
Tidy(t) ==
  /\ t[TITLE].key.s = "title" /\ t[ARTIST].key.s = "artist"
  /\ t[GENRE].key.s \in {"genre", "format"}
  /\ \A i \in 1..GENRE : t[i].key.id = 0
  /\ \A i \in Custom : /\ t[i].key.s \notin DOMAIN Named
                       /\ t[i].key.s = Nil => t[i].key.id = 0 /\ t[i].val.id = 0
                       /\ t[i].val.s = Nil => t[i].key.s = Nil
  /\ \A i, j \in Custom : t[i].key.s = t[j].key.s /\ t[i].key.s # Nil => i = j

LEMMA Slots ==
  /\ TITLE \in 1..GENRE /\ ARTIST \in 1..GENRE /\ GENRE \in 1..GENRE
  /\ Custom \subseteq Tag /\ 1..GENRE \subseteq Tag /\ Tag \subseteq Nat \ {0} /\ Custom \subseteq Nat
  /\ \A i \in Tag : i \in Custom <=> i \notin 1..GENRE
  /\ 1..GENRE = {TITLE, ARTIST, GENRE}
  /\ IsFiniteSet(Custom) /\ IsFiniteSet(Tag)
<1>1. CUSTOM \in Nat  BY DiskAssumption
<1>2. IsFiniteSet(Custom) /\ IsFiniteSet(Tag)
  <2>1. GENRE + 1 \in Int /\ GENRE + CUSTOM \in Int /\ 1 \in Int  BY <1>1 DEF GENRE
  <2> QED BY <2>1, FS_Interval DEF Custom, Tag
<1> QED BY <1>1, <1>2 DEF TITLE, ARTIST, GENRE, Custom, Tag

LEMMA Texts0 ==
  /\ Nil \in STRING /\ Blank \in Text /\ Blank.s = Nil /\ Blank.id = 0
  /\ \A s \in STRING : Str(s) \in Text
  /\ \A s : Str(s).s = s /\ Str(s).id = 0
  /\ \A x \in Text : x.s \in STRING /\ x.id \in Nat
<1>1. Nil \in STRING /\ Blank.s = Nil /\ Blank.id = 0  BY LiteralAssumption DEF Blank
<1>2. 0 \in Nat  OBVIOUS
<1>3. Blank \in Text  BY <1>1, <1>2 DEF Blank, Text
<1>4. \A s \in STRING : Str(s) \in Text  BY <1>2 DEF Str, Text
<1>5. \A s : Str(s).s = s /\ Str(s).id = 0  BY DEF Str
<1>6. \A x \in Text : x.s \in STRING /\ x.id \in Nat  BY DEF Text
<1> QED BY <1>1, <1>3, <1>4, <1>5, <1>6

LEMMA LeastIs ==
  ASSUME NEW S \in SUBSET Nat, S # {}
  PROVE  Least(S) \in S /\ \A j \in S : Least(S) <= j
BY Smallest DEF Least

LEMMA NamedIs ==
  /\ DOMAIN Named = {"title", "album", "artist", "author", "genre", "format"}
  /\ Nil \notin DOMAIN Named
  /\ \A key \in DOMAIN Named : Named[key] \in 1..GENRE
  /\ Named["title"] = TITLE /\ Named["artist"] = ARTIST
  /\ Named["genre"] = GENRE /\ Named["format"] = GENRE
BY DEF Named, Nil, TITLE, ARTIST, GENRE

(* The slot that has a key, and the one that a value is given to.          *)
LEMMA FindTagIs ==
  ASSUME NEW t, NEW key
  PROVE  LET i == FindTag(t, key)
         IN  /\ key \in DOMAIN Named => i = Named[key] /\ i \in 1..GENRE
             /\ key \notin DOMAIN Named => \/ i = 0 /\ \A j \in Custom : t[j].key.s # key
                                           \/ i \in Custom /\ t[i].key.s = key
<1> DEFINE at == {i \in Custom : t[i].key.s = key}
<1>1. at \in SUBSET Nat  BY Slots
<1>2. at # {} => Least(at) \in at
  <2> HIDE DEF at
  <2> QED BY <1>1, LeastIs
<1>3. FindTag(t, key) = IF key \in DOMAIN Named THEN Named[key]
                        ELSE IF at = {} THEN 0 ELSE Least(at)
  BY Zenon DEF FindTag
<1>4. key \in DOMAIN Named => Named[key] \in 1..GENRE  BY NamedIs
<1>5. at = {} => \A j \in Custom : t[j].key.s # key  OBVIOUS
<1>6. \A i \in at : i \in Custom /\ t[i].key.s = key  OBVIOUS
<1> HIDE DEF at
<1> QED BY <1>2, <1>3, <1>4, <1>5, <1>6

SlotSet(t, key, val) == IF val.s = Nil THEN FindTag(t, key) ELSE SlotFor(t, key)

LEMMA SlotSetIs ==
  ASSUME NEW t, NEW key, NEW val
  PROVE  LET i == SlotSet(t, key, val)
         IN  /\ i \in Tag \cup {0}
             /\ i \in 1..GENRE => key \in DOMAIN Named /\ i = Named[key]
             /\ i \in Custom => /\ key \notin DOMAIN Named
                                /\ \/ t[i].key.s = key
                                   \/ /\ val.s # Nil /\ t[i].key.s = Nil
                                      /\ \A j \in Custom : t[j].key.s # key
<1> DEFINE a == FindTag(t, key)
           b == FindTag(t, Nil)
<1>1. /\ key \in DOMAIN Named => a = Named[key] /\ a \in 1..GENRE
      /\ key \notin DOMAIN Named => \/ a = 0 /\ \A j \in Custom : t[j].key.s # key
                                    \/ a \in Custom /\ t[a].key.s = key
  BY FindTagIs, Zenon
<1>2. b = 0 \/ (b \in Custom /\ t[b].key.s = Nil)  BY FindTagIs, NamedIs, Zenon
<1>3. SlotSet(t, key, val) = IF val.s = Nil THEN a ELSE IF a # 0 THEN a ELSE b
  BY Zenon DEF SlotSet, SlotFor
<1> HIDE DEF a, b
<1>4. 0 \notin 1..GENRE /\ 0 \notin Custom /\ \A i \in Custom : i \notin 1..GENRE
  BY Slots
<1> QED BY <1>1, <1>2, <1>3, <1>4, Slots

PutAt(t, i, key, val) ==
  [t EXCEPT ![i].val = val,
            ![i].key = IF val.s # Nil /\ @.s = Nil THEN key
                       ELSE IF val.s = Nil /\ i \in Custom THEN Blank ELSE @]

LEMMA SetAt ==
  ASSUME NEW t \in TagsType, NEW i \in Tag, NEW val \in Text, NEW key \in Text
  PROVE  /\ PutAt(t, i, key, val) \in TagsType
         /\ \A j \in Tag : j # i => PutAt(t, i, key, val)[j] = t[j]
         /\ PutAt(t, i, key, val)[i].val = val
         /\ PutAt(t, i, key, val)[i].key =
              IF val.s # Nil /\ t[i].key.s = Nil THEN key
              ELSE IF val.s = Nil /\ i \in Custom THEN Blank ELSE t[i].key
<1> Blank \in Text  BY Texts0
<1> QED BY DEF TagsType, PutAt

LEMMA SetTagIs ==
  ASSUME NEW t \in TagsType, NEW key \in Text, NEW val \in Text
  PROVE  LET i == SlotSet(t, key.s, val)
             u == SetTag(t, key, val)
         IN  /\ u \in TagsType
             /\ i = 0 => u = t
             /\ \A j \in Tag : j # i => u[j] = t[j]
             /\ i # 0 => /\ i \in Tag /\ u[i].val = val
                         /\ u[i].key = IF val.s # Nil /\ t[i].key.s = Nil THEN key
                                       ELSE IF val.s = Nil /\ i \in Custom THEN Blank ELSE t[i].key
<1> DEFINE i == SlotSet(t, key.s, val)
           u == SetTag(t, key, val)
<1>1. u = IF i = 0 THEN t ELSE PutAt(t, i, key, val)
  BY Zenon DEF SetTag, SlotSet, PutAt
<1>2. i \in Tag \cup {0}  BY SlotSetIs
<1> HIDE DEF i, u
<1>3. CASE i = 0
  <2> 0 \notin Tag  BY Slots
  <2> QED BY <1>1, <1>3 DEF u, i
<1>4. CASE i # 0
  <2>1. i \in Tag  BY <1>2, <1>4
  <2>2. /\ u \in TagsType
        /\ \A j \in Tag : j # i => u[j] = t[j]
        /\ u[i].val = val
        /\ u[i].key = IF val.s # Nil /\ t[i].key.s = Nil THEN key
                      ELSE IF val.s = Nil /\ i \in Custom THEN Blank ELSE t[i].key
    BY <1>1, <1>4, <2>1, SetAt
  <2> QED BY <1>4, <2>1, <2>2 DEF u, i
<1> QED BY <1>3, <1>4

SetTagged(t, key, val, i, u) ==
  /\ u \in TagsType
  /\ i = 0 => u = t
  /\ \A j \in Tag : j # i => u[j] = t[j]
  /\ i # 0 => /\ i \in Tag /\ u[i].val = val
              /\ u[i].key = IF val.s # Nil /\ t[i].key.s = Nil THEN key
                            ELSE IF val.s = Nil /\ i \in Custom THEN Blank ELSE t[i].key

LEMMA SetTagHow ==
  ASSUME NEW t \in TagsType, NEW key \in Text, NEW val \in Text
  PROVE  SetTagged(t, key, val, SlotSet(t, key.s, val), SetTag(t, key, val))
<1> DEFINE i == SlotSet(t, key.s, val)
           u == SetTag(t, key, val)
<1>1. /\ u \in TagsType
      /\ i = 0 => u = t
      /\ \A j \in Tag : j # i => u[j] = t[j]
      /\ i # 0 => /\ i \in Tag /\ u[i].val = val
                  /\ u[i].key = IF val.s # Nil /\ t[i].key.s = Nil THEN key
                                ELSE IF val.s = Nil /\ i \in Custom THEN Blank ELSE t[i].key
  BY SetTagIs, Zenon
<1> HIDE DEF i, u
<1>2. SetTagged(t, key, val, i, u)  BY <1>1 DEF SetTagged
<1> QED BY <1>2 DEF i, u

(* Setting a tag, or deleting one, leaves the array tidy.                  *)
LEMMA SetTagTidy ==
  ASSUME NEW t \in TagsType, Tidy(t), NEW key \in Text, NEW val \in Text, key.s # Nil,
         val.s = Nil => val.id = 0
  PROVE  Tidy(SetTag(t, key, val))
<1> DEFINE i == SlotSet(t, key.s, val)
           u == SetTag(t, key, val)
<1>1. /\ i = 0 => u = t
      /\ \A j \in Tag : j # i => u[j] = t[j]
      /\ i # 0 => /\ i \in Tag /\ u[i].val = val
                  /\ u[i].key = IF val.s # Nil /\ t[i].key.s = Nil THEN key
                                ELSE IF val.s = Nil /\ i \in Custom THEN Blank ELSE t[i].key
  <2>1. SetTagged(t, key, val, i, u)  BY SetTagHow
  <2> HIDE DEF i, u
  <2> QED BY <2>1 DEF SetTagged
<1>2. /\ i \in 1..GENRE => key.s \in DOMAIN Named /\ i = Named[key.s]
      /\ i \in Custom => /\ key.s \notin DOMAIN Named
                         /\ \/ t[i].key.s = key.s
                            \/ /\ val.s # Nil /\ t[i].key.s = Nil
                               /\ \A j \in Custom : t[j].key.s # key.s
  BY SlotSetIs, Zenon
<1> HIDE DEF i, u
<1>3. CASE i = 0  BY <1>1, <1>3 DEF u
<1>4. CASE i \in 1..GENRE
  <2>1. i \notin Custom /\ t[i].key.s # Nil  BY <1>4, Slots DEF Tidy, Nil
  <2>2. u[i].key = t[i].key  BY <1>1, <1>4, <2>1, Slots
  <2>3. \A j \in 1..GENRE : u[j].key = t[j].key  BY <1>1, <2>2, Slots
  <2>4. \A j \in Custom : u[j] = t[j]  BY <1>1, <2>1, Slots
  <2> QED BY <2>3, <2>4, Slots DEF Tidy, u
<1>5. CASE i \in Custom
  <2>1. i \notin 1..GENRE /\ i # 0  BY <1>5, Slots
  <2>2. \A j \in 1..GENRE : u[j] = t[j]  BY <1>1, <2>1, Slots
  <2>3. \A j \in Custom \ {i} : u[j] = t[j]  BY <1>1, Slots
  <2>4. val.s = Nil => u[i].key = Blank /\ u[i].val.id = 0  BY <1>1, <1>5, <2>1
  <2>5. val.s # Nil => u[i].key.s = key.s  BY <1>1, <1>2, <1>5, <2>1
  <2>6. \A j \in Custom \ {i} : t[j].key.s # key.s  BY <1>2, <1>5 DEF Tidy
  <2>7. u[i].key.s \notin DOMAIN Named
        /\ (u[i].key.s = Nil => u[i].key.id = 0 /\ u[i].val.id = 0)
        /\ (u[i].val.s = Nil => u[i].key.s = Nil)
    BY <1>1, <1>2, <1>5, <2>1, <2>4, <2>5, Texts0, NamedIs
  <2>8. u[i].key.s # Nil => u[i].key.s = key.s  BY <2>4, <2>5, Texts0
  <2> HIDE DEF u
  <2>9. /\ u[TITLE].key.s = "title" /\ u[ARTIST].key.s = "artist"
        /\ u[GENRE].key.s \in {"genre", "format"}
        /\ \A j \in 1..GENRE : u[j].key.id = 0
    BY <2>2, Slots DEF Tidy
  <2>10. \A j \in Custom : /\ u[j].key.s \notin DOMAIN Named
                           /\ u[j].key.s = Nil => u[j].key.id = 0 /\ u[j].val.id = 0
                           /\ u[j].val.s = Nil => u[j].key.s = Nil
    BY <2>3, <2>7 DEF Tidy
  <2>11. \A a, b \in Custom : u[a].key.s = u[b].key.s /\ u[a].key.s # Nil => a = b
    BY <2>3, <2>6, <2>8 DEF Tidy
  <2> QED BY <2>9, <2>10, <2>11 DEF Tidy, u
<1>6. i \in Tag \cup {0}  BY <1>1
<1> QED BY <1>3, <1>4, <1>5, <1>6, Slots DEF u

-----------------------------------------------------------------------------
(* The elements of a finite set of numbers, by rank.                       *)
Upto(F, k) == {j \in F : j <= k}

LEMMA RankOne ==
  ASSUME NEW M \in Nat, NEW F \in SUBSET (1..M), NEW n \in 1..Cardinality(F)
  PROVE  \E i \in F : Cardinality(Upto(F, i)) = n
<1>1. IsFiniteSet(F) /\ Cardinality(F) \in Nat
  <2>1. IsFiniteSet(1..M)  BY FS_Interval
  <2> QED BY <2>1, FS_Subset, FS_CardinalityType
<1>2. \A k : IsFiniteSet(Upto(F, k)) /\ Cardinality(Upto(F, k)) \in Nat
  <2> TAKE k
  <2>1. Upto(F, k) \in SUBSET F  BY DEF Upto
  <2> QED BY <1>1, <2>1, FS_Subset, FS_CardinalityType
<1> DEFINE T == {k \in Nat : Cardinality(Upto(F, k)) >= n}
<1>3. PICK k \in T : \A j \in T : k <= j
  <2> \A j \in F : j <= M  OBVIOUS
  <2>1. Upto(F, M) = F  BY DEF Upto
  <2>2. M \in T  BY <1>1, <2>1
  <2>3. T \in SUBSET Nat /\ T # {}  BY <2>2
  <2> HIDE DEF T
  <2> QED BY <2>3, Smallest
<1>4. k # 0
  <2> \A j \in F : ~(j <= 0)  OBVIOUS
  <2>1. Upto(F, 0) = {}  BY DEF Upto
  <2>2. Cardinality(Upto(F, 0)) = 0  BY <2>1, FS_EmptySet
  <2>3. n > 0  BY <1>1
  <2> QED BY <2>2, <2>3, <1>1
<1>5. k - 1 \in Nat /\ Cardinality(Upto(F, k - 1)) < n
  <2>1. k - 1 \in Nat /\ k - 1 < k  BY <1>4
  <2>2. k - 1 \notin T  BY <1>3, <2>1
  <2> QED BY <1>1, <1>2, <2>1, <2>2
<1>6. Upto(F, k) = Upto(F, k - 1) \cup (IF k \in F THEN {k} ELSE {})
  <2> \A j \in F : j \in Nat  OBVIOUS
  <2> \A j \in Nat : j <= k <=> (j <= k - 1 \/ j = k)  BY <1>5
  <2> QED BY DEF Upto
<1>7. k \in F
  <2> SUFFICES ASSUME k \notin F PROVE FALSE  OBVIOUS
  <2>1. Upto(F, k) = Upto(F, k - 1)  BY <1>6
  <2>2. Cardinality(Upto(F, k)) >= n  OBVIOUS
  <2> QED BY <1>1, <1>2, <1>5, <2>1, <2>2
<1>8. Cardinality(Upto(F, k)) <= Cardinality(Upto(F, k - 1)) + 1
  <2>1. Upto(F, k) = Upto(F, k - 1) \cup {k}  BY <1>6, <1>7
  <2> QED BY <1>2, <2>1, FS_AddElement
<1>9. Cardinality(Upto(F, k)) >= n  OBVIOUS
<1>10. Cardinality(Upto(F, k)) = n
  <2> DEFINE a == Cardinality(Upto(F, k))
             b == Cardinality(Upto(F, k - 1))
  <2>1. a \in Nat /\ b \in Nat /\ n \in Int  BY <1>1, <1>2
  <2> HIDE DEF a, b
  <2> QED BY <2>1, <1>5, <1>8, <1>9 DEF a, b
<1> QED BY <1>7, <1>10

RankedAs(F, n) == CHOOSE i \in F : Cardinality({j \in F : j <= i}) = n

LEMMA RankedIs ==
  ASSUME NEW M \in Nat, NEW F \in SUBSET (1..M), NEW n \in 1..Cardinality(F)
  PROVE  RankedAs(F, n) \in F /\ Cardinality(Upto(F, RankedAs(F, n))) = n
<1>1. \E i \in F : Cardinality(Upto(F, i)) = n  BY RankOne
<1>2. RankedAs(F, n) = CHOOSE i \in F : Cardinality(Upto(F, i)) = n  BY Zenon DEF RankedAs, Upto
<1> QED BY <1>1, <1>2, Zenon

(* Two blocks that are free.                                               *)
LEMMA FreshIs ==
  ASSUME IsFiniteSet(strings)
  PROVE  /\ Fresh(1) \in Nat \ {0} /\ Fresh(2) \in Nat \ {0}
         /\ Fresh(1) \notin strings /\ Fresh(2) \notin strings /\ Fresh(1) # Fresh(2)
<1> DEFINE M == Cardinality(strings) + 2
           free == (1..M) \ strings
<1>1. Cardinality(strings) \in Nat  BY FS_CardinalityType
<1>2. M \in Nat /\ IsFiniteSet(1..M) /\ Cardinality(1..M) = M
  <2>1. M \in Nat /\ M >= 1  BY <1>1
  <2> HIDE DEF M
  <2> QED BY <2>1, FS_Interval
<1>3. IsFiniteSet(free) /\ Cardinality(free) \in Nat /\ Cardinality(free) >= 2
  <2>1. Cardinality((1..M) \cap strings) <= Cardinality(strings)
        /\ Cardinality((1..M) \cap strings) \in Nat
    <3>1. (1..M) \cap strings \in SUBSET strings  OBVIOUS
    <3> QED BY <3>1, FS_Subset, FS_CardinalityType
  <2>2. IsFiniteSet(free) /\ Cardinality(free) = M - Cardinality((1..M) \cap strings)
    <3> HIDE DEF M
    <3> QED BY <1>2, FS_Difference
  <2> DEFINE c == Cardinality((1..M) \cap strings)
  <2>3. Cardinality(free) = M - c /\ c \in Nat /\ c <= M - 2  BY <1>1, <2>1, <2>2
  <2>4. M \in Nat  BY <1>2
  <2> HIDE DEF M, c
  <2> QED BY <2>2, <2>3, <2>4
<1>4. 1 \in 1..Cardinality(free) /\ 2 \in 1..Cardinality(free)
  <2> HIDE DEF free
  <2> QED BY <1>3
<1>5. free \in SUBSET (1..M)  OBVIOUS
<1>6. Fresh(1) = RankedAs(free, 1) /\ Fresh(2) = RankedAs(free, 2)  BY Zenon DEF Fresh, RankedAs
<1>7. /\ RankedAs(free, 1) \in free /\ Cardinality(Upto(free, RankedAs(free, 1))) = 1
      /\ RankedAs(free, 2) \in free /\ Cardinality(Upto(free, RankedAs(free, 2))) = 2
  <2> HIDE DEF free, M
  <2> QED BY <1>2, <1>4, <1>5, RankedIs
<1>8. RankedAs(free, 1) # RankedAs(free, 2)  BY <1>7
<1>9. \A x \in free : x \in Nat \ {0} /\ x \notin strings  BY <1>2
<1> HIDE DEF free
<1> QED BY <1>6, <1>7, <1>8, <1>9

(* Counting the tags keeps their types, and without a gap keeps them all.  *)
LEMMA CountTagsIs ==
  ASSUME NEW t \in TagsType
  PROVE  CountTags(t) \in TagsType /\ (~Gap(t) => CountTags(t) = t)
<1> DEFINE F == FullTags(t)
           c == Cardinality(F)
           M == GENRE + CUSTOM
           Moved(i) == i \in Custom /\ i - GENRE <= c
<1>1. M \in Nat /\ F \in SUBSET (1..M) /\ F \subseteq Custom
  BY DiskAssumption, Slots DEF FullTags, Custom, GENRE
<1>2. IsFiniteSet(F) /\ c \in Nat
  <2> HIDE DEF F
  <2> QED BY <1>1, Slots, FS_Subset, FS_CardinalityType
<1>3. CountTags(t) = [i \in Tag |-> IF Moved(i) THEN t[RankedAs(F, i - GENRE)] ELSE t[i]]
  BY Zenon DEF CountTags, RankedAs
<1>4. \A i \in Tag : Moved(i) => i - GENRE \in 1..c
  BY <1>2, DiskAssumption DEF Custom, GENRE
<1>5. \A i \in Tag : Moved(i) => RankedAs(F, i - GENRE) \in F
  <2> HIDE DEF F, M, Moved
  <2> QED BY <1>1, <1>4, RankedIs
<1>6. CountTags(t) \in TagsType
  <2>1. \A i \in Tag : Moved(i) => RankedAs(F, i - GENRE) \in Tag  BY <1>1, <1>5, Slots
  <2> HIDE DEF Moved, F
  <2> QED BY <1>3, <2>1 DEF TagsType
<1>7. ASSUME ~Gap(t), NEW i \in Tag, Moved(i) PROVE RankedAs(F, i - GENRE) = i
  <2> DEFINE r == RankedAs(F, i - GENRE)
  <2>1. r \in F /\ Cardinality(Upto(F, r)) = i - GENRE
    <3> HIDE DEF F, M, Moved
    <3> QED BY <1>1, <1>4, <1>7, RankedIs
  <2>2. r \in Custom  BY <1>1, <2>1
  <2>3. Upto(F, r) = (GENRE + 1)..r
    <3>1. \A j \in Custom : j < r => j \in F  BY <1>7, <2>1, <2>2 DEF Gap
    <3> HIDE DEF r, F
    <3>2. \A j \in (GENRE + 1)..r : j \in Custom /\ (j < r \/ j = r)
      BY <2>2, DiskAssumption DEF Custom, GENRE
    <3>3. \A j \in Custom : j <= r => j \in (GENRE + 1)..r
      BY <2>2, DiskAssumption DEF Custom, GENRE
    <3>4. \A j \in (GENRE + 1)..r : j <= r  BY <2>2, DiskAssumption DEF Custom, GENRE
    <3> QED BY <1>1, <2>1, <3>1, <3>2, <3>3, <3>4 DEF Upto
  <2>4. r \in Nat /\ r >= GENRE + 1  BY <2>2, DiskAssumption DEF Custom, GENRE
  <2>5. Cardinality((GENRE + 1)..r) = r - GENRE
    <3>1. GENRE + 1 \in Int /\ r \in Int  BY <2>4 DEF GENRE
    <3> HIDE DEF r
    <3>2. Cardinality((GENRE + 1)..r) = IF GENRE + 1 > r THEN 0 ELSE r - (GENRE + 1) + 1
      BY <3>1, FS_Interval
    <3> QED BY <2>4, <3>2 DEF GENRE
  <2>6. i \in Nat  BY Slots
  <2> HIDE DEF r, F
  <2> QED BY <2>1, <2>3, <2>4, <2>5, <2>6 DEF GENRE, r
<1>8. ~Gap(t) => CountTags(t) = t
  <2>1. t = [i \in Tag |-> t[i]]  BY DEF TagsType
  <2> HIDE DEF Moved, F
  <2> QED BY <1>3, <1>7, <2>1
<1> QED BY <1>6, <1>8

-----------------------------------------------------------------------------
(* Frames and milliseconds.                                                *)
LEMMA DivNat ==
  ASSUME NEW a \in Nat, NEW b \in Nat \ {0}
  PROVE  a \div b \in Nat /\ (a >= b => a \div b >= 1)
OBVIOUS

LEMMA MulNat ==
  ASSUME NEW a \in Nat, NEW b \in Nat
  PROVE  a * b \in Nat
OBVIOUS

(* Rates; a name, for the provers count to 1000 in ones.                   *)
Hertz == 1..1000

LEMMA FramesAre ==
  ASSUME NEW x \in Nat, NEW hz \in Hertz
  PROVE  /\ FrToMs(x, hz) \in Nat /\ MsInFr(x, hz) \in Nat
         /\ x > 0 => FrToMs(x, hz) > 0
<1>1. x * 1000 \in Nat /\ (x > 0 => x * 1000 >= hz) /\ hz \in Nat \ {0} /\ 1000 \in Nat \ {0}
  BY DEF Hertz
<1>2. x * hz \in Nat  BY MulNat, <1>1
<1>3. FrToMs(x, hz) \in Nat /\ (x > 0 => FrToMs(x, hz) >= 1)
  <2> DEFINE p == x * 1000
  <2>1. p \in Nat /\ (x > 0 => p >= hz)  BY <1>1
  <2>2. FrToMs(x, hz) = p \div hz  BY DEF FrToMs
  <2> HIDE DEF p
  <2>3. p \div hz \in Nat /\ (p >= hz => p \div hz >= 1)  BY <1>1, <2>1, DivNat
  <2> QED BY <2>1, <2>2, <2>3
<1>4. MsInFr(x, hz) \in Nat
  <2> DEFINE p == x * hz
  <2>1. p \in Nat /\ MsInFr(x, hz) = p \div 1000  BY <1>2 DEF MsInFr
  <2> HIDE DEF p
  <2> QED BY <1>1, <2>1, DivNat
<1>5. FrToMs(x, hz) >= 1 => FrToMs(x, hz) > 0  BY <1>3
<1> QED BY <1>3, <1>4, <1>5

LEMMA FrNat ==
  ASSUME NEW x \in Nat, NEW hz \in Hertz
  PROVE  FrToMs(x, hz) \in Nat
BY FramesAre

LEMMA FrPos ==
  ASSUME NEW x \in Nat, NEW hz \in Hertz, x > 0
  PROVE  FrToMs(x, hz) > 0
BY FramesAre

LEMMA MsNat ==
  ASSUME NEW x \in Nat, NEW hz \in Hertz
  PROVE  MsInFr(x, hz) \in Nat
BY FramesAre

-----------------------------------------------------------------------------
(* Disks, and what the editor's own pass over them changes.                *)
TrackSet ==
  [d0 : Int, a0 : Nat, pic : BOOLEAN, frq : Hertz, time : BOOLEAN, loop : BOOLEAN,
   sfx : BOOLEAN, first_ms : Nat, first_fr : Nat, loops_ms : Nat, loops_fr : Nat, loops : Nat,
   hw : SUBSET STRING, replay : Text, tags : TagsType, data : STRING \ {Nil}]
DskOf(n) ==
  [nb : {n}, def : 0..(n - 1), ms : Nat, hw : SUBSET STRING, tags : TagsType,
   mus : [1..n -> TrackSet]]

LEMMA PlayIs ==
  ASSUME NEW m \in TrackSet, m.loops > 0
  PROVE  PlayMs(m) \in Nat
<1>1. m.first_fr \in Nat /\ m.loops_fr \in Nat /\ m.loops - 1 \in Nat /\ m.frq \in Hertz
  BY DEF TrackSet
<1>2. m.loops_fr * (m.loops - 1) \in Nat  BY <1>1, MulNat
<1> DEFINE x == m.first_fr + m.loops_fr * (m.loops - 1)
<1>3. x \in Nat
  <2> DEFINE y == m.loops_fr * (m.loops - 1)
  <2>1. y \in Nat  BY <1>2
  <2> HIDE DEF y
  <2>2. m.first_fr + y \in Nat  BY <1>1, <2>1
  <2> QED BY <2>2 DEF y
<1> DEFINE f == m.frq
<1>4. PlayMs(m) = FrToMs(x, f) /\ f \in Hertz  BY <1>1 DEF PlayMs
<1> HIDE DEF x, f
<1>5. FrToMs(x, f) \in Nat  BY <1>3, <1>4, FrNat, Zenon
<1> QED BY <1>4, <1>5

LEMMA TracksSeq ==
  ASSUME NEW S, NEW n \in Nat, NEW mus \in [1..n -> S]
  PROVE  mus \in Seq(S) /\ Len(mus) = n /\ DOMAIN mus = 1..n
OBVIOUS

LEMMA TotalIs ==
  ASSUME NEW n \in Nat, NEW mus \in [1..n -> TrackSet], \A i \in 1..n : mus[i].loops > 0
  PROVE  TotalMs(mus) \in Nat
<1> DEFINE G(i, p) == p + PlayMs(mus[i])
           F == [i \in 1..n |-> [p \in Nat |-> G(i, p)]]
           P(t) == t = [i \in 0..n |-> IF i = 0 THEN 0 ELSE G(i, t[i - 1])]
           u == CHOOSE t : P(t)
<1>1. \A i \in 1..n : \A p \in Nat : G(i, p) \in Nat
  <2> SUFFICES ASSUME NEW i \in 1..n, NEW p \in Nat PROVE G(i, p) \in Nat  OBVIOUS
  <2>1. PlayMs(mus[i]) \in Nat  BY PlayIs
  <2> QED BY <2>1
<1>2. Len(mus) = n  BY TracksSeq
<1>3. TotalMs(mus) = u[n]  BY <1>2, Zenon DEF TotalMs
<1> HIDE DEF G
<1>4. F \in [1..n -> [Nat -> Nat]]  BY <1>1
<1>5. \E g : Walks(g, Nat, n, 0, F)
  <2> HIDE DEF F
  <2>1. 0 \in Nat  OBVIOUS
  <2> QED BY <1>4, <2>1, WalkIs
<1>6. PICK g : g \in [0..n -> Nat] /\ g[0] = 0 /\ \A i \in 1..n : g[i] = F[i][g[i - 1]]
  <2> HIDE DEF F
  <2> QED BY <1>5 DEF Walks
<1>7. P(g)
  <2>1. \A i \in 0..n : i # 0 => i \in 1..n /\ i - 1 \in 0..n  OBVIOUS
  <2>2. \A i \in 1..n : g[i - 1] \in Nat  BY <1>6
  <2>3. \A i \in 1..n : g[i] = G(i, g[i - 1])  BY <1>6, <2>2
  <2>4. g = [i \in 0..n |-> g[i]]  BY <1>6
  <2> QED BY <1>6, <2>1, <2>3, <2>4
<1>8. P(u)
  <2>1. \E x : P(x)  BY <1>7
  <2> HIDE DEF P
  <2> QED BY <2>1
<1> HIDE DEF u
<1>9. u[0] = 0 /\ \A i \in 1..n : u[i] = G(i, u[i - 1])  BY <1>8
<1>10. \A i \in 0..n : u[i] \in Nat
  <2>1. \A i \in 1..n : u[i - 1] \in Nat => u[i] \in Nat  BY <1>1, <1>9
  <2>2. u[0] \in Nat  BY <1>9
  <2> QED BY <2>1, <2>2, Stays
<1> QED BY <1>3, <1>10

LEMMA DskTrackIs ==
  ASSUME NEW m \in TrackSet
  PROVE  /\ DskTrack(m) \in TrackSet /\ DskTrack(m).loops > 0
         /\ DskTrack(m).tags = m.tags /\ DskTrack(m).replay = m.replay
<1>1. m.first_fr \in Nat /\ m.loops_fr \in Nat /\ m.loops \in Nat /\ m.frq \in Hertz
  BY DEF TrackSet
<1>2. FrToMs(m.first_fr, m.frq) \in Nat /\ FrToMs(m.loops_fr, m.frq) \in Nat
  BY <1>1, FrNat, Zenon
<1> DEFINE c == IF m.loops > 0 THEN m.loops ELSE 1
           a == FrToMs(m.first_fr, m.frq)
           b == FrToMs(m.loops_fr, m.frq)
           w1 == [m EXCEPT !.loops = c]
           w2 == [w1 EXCEPT !.first_ms = a]
           w3 == [w2 EXCEPT !.loops_ms = b]
<1>3. c \in Nat /\ c > 0  BY <1>1
<1>4. DskTrack(m) = [m EXCEPT !.loops = c, !.first_ms = a, !.loops_ms = b]
  BY Zenon DEF DskTrack
<1>5. a \in Nat /\ b \in Nat  BY <1>2
<1> HIDE DEF a, b, c
<1>6. w1 \in TrackSet /\ w1.loops > 0 /\ w1.tags = m.tags /\ w1.replay = m.replay
  BY <1>3 DEF TrackSet
<1>7. DskTrack(m) = w3  BY <1>4
<1> HIDE DEF w1
<1>8. w2 \in TrackSet /\ w2.loops > 0 /\ w2.tags = m.tags /\ w2.replay = m.replay
  BY <1>5, <1>6 DEF TrackSet
<1> HIDE DEF w2
<1>9. w3 \in TrackSet /\ w3.loops > 0 /\ w3.tags = m.tags /\ w3.replay = m.replay
  BY <1>5, <1>8 DEF TrackSet
<1> HIDE DEF w3
<1> QED BY <1>7, <1>9

LEMMA DskValidatedIs ==
  ASSUME NEW n \in Nat \ {0}, NEW d \in DskOf(n)
  PROVE  /\ DskValidated(d) \in DskOf(n) /\ DskValidated(d).tags = d.tags
         /\ \A i \in 1..n : /\ DskValidated(d).mus[i].tags = d.mus[i].tags
                            /\ DskValidated(d).mus[i].replay = d.mus[i].replay
<1> DEFINE mus == [i \in 1..n |-> DskTrack(d.mus[i])]
           e == [d EXCEPT !.mus = mus]
<1>1. d.nb = n /\ d.mus \in [1..n -> TrackSet]  BY DEF DskOf
<1>2. /\ mus \in [1..n -> TrackSet] /\ \A i \in 1..n : mus[i].loops > 0
      /\ \A i \in 1..n : mus[i].tags = d.mus[i].tags /\ mus[i].replay = d.mus[i].replay
  BY <1>1, DskTrackIs
<1>3. DskValidated(d) = DskTotal(e)  BY <1>1 DEF DskValidated
<1> HIDE DEF mus
<1>4. e \in DskOf(n) /\ e.nb = n /\ e.mus = mus /\ e.tags = d.tags  BY <1>2 DEF DskOf
<1>5. TotalMs(mus) \in Nat  BY <1>2, TotalIs
<1>6. DskFlags({mus[i].hw : i \in 1..n}) \in SUBSET STRING
  <2>1. \A i \in 1..n : mus[i].hw \in SUBSET STRING  BY <1>2 DEF TrackSet
  <2> QED BY <2>1 DEF DskFlags
<1>7. DskTotal(e) = [e EXCEPT !.ms = TotalMs(mus), !.hw = DskFlags({mus[i].hw : i \in 1..n})]
  BY <1>4 DEF DskTotal
<1> HIDE DEF e
<1>8. \A a \in Nat, h \in SUBSET STRING : LET w == [e EXCEPT !.ms = a, !.hw = h]
        IN  w \in DskOf(n) /\ w.tags = d.tags /\ w.mus = mus
  BY <1>4 DEF DskOf
<1>9. DskTotal(e) \in DskOf(n) /\ DskTotal(e).tags = d.tags /\ DskTotal(e).mus = mus
  BY <1>5, <1>6, <1>7, <1>8
<1> QED BY <1>2, <1>3, <1>9

-----------------------------------------------------------------------------
(* Who holds which block.                                                  *)
Owned(P, a, S) ==
  /\ \A p \in P : a[p] # 0 => a[p] \in S
  /\ \A p, q \in P : a[p] = a[q] /\ a[p] # 0 => p = q
  /\ \A x \in S : \E p \in P : a[p] = x

Ids(d) == [p \in Places(d) |-> IdAt(d, p)]

(* What an edit does to the places: those of W give their blocks back, and *)
(* the new blocks go to places that had none or are among them.            *)
Rewrites(P, a, b, W, given, blocks) ==
  /\ W \subseteq P
  /\ \A p \in W : a[p] \in given \cup {0}
  /\ \A x \in given : x = 0 \/ \E p \in W : a[p] = x
  /\ \A p \in W : b[p] \in blocks \cup {0}
  /\ \A p \in P \ W : b[p] = a[p] \/ (a[p] = 0 /\ b[p] \in blocks)
  /\ \A p, q \in P : b[p] = b[q] /\ b[p] \in blocks => p = q

LEMMA EditOwns ==
  ASSUME NEW P, NEW a, NEW b, NEW W, NEW given, NEW blocks, NEW S, NEW T,
         Owned(P, a, S), Rewrites(P, a, b, W, given, blocks),
         0 \notin S, 0 \notin blocks, blocks \cap S = {},
         \A x : x \in T <=> (x \in S /\ x \notin given) \/ (x \in blocks /\ \E p \in P : b[p] = x)
  PROVE  Owned(P, b, T)
<1>1. ASSUME NEW p \in P, b[p] # 0, b[p] \notin blocks
      PROVE  p \notin W /\ b[p] = a[p]
  BY <1>1 DEF Rewrites
<1>2. ASSUME NEW p \in P, b[p] # 0 PROVE b[p] \in T
  <2>1. CASE b[p] \in blocks  BY <2>1
  <2>2. CASE b[p] \notin blocks
    <3>1. p \notin W /\ b[p] = a[p] /\ a[p] \in S  BY <1>1, <1>2, <2>2 DEF Owned
    <3>2. a[p] \notin given
      <4>1. SUFFICES ASSUME a[p] \in given PROVE FALSE  OBVIOUS
      <4>2. PICK q \in W : a[q] = a[p]  BY <4>1, <3>1, <1>2 DEF Rewrites
      <4>3. q \in P /\ a[q] # 0  BY <4>2, <3>1, <1>2 DEF Rewrites
      <4> QED BY <3>1, <4>2, <4>3 DEF Owned
    <3> QED BY <3>1, <3>2
  <2> QED BY <2>1, <2>2
<1>3. ASSUME NEW p \in P, NEW q \in P, b[p] = b[q], b[p] # 0 PROVE p = q
  <2>1. CASE b[p] \in blocks  BY <1>3, <2>1 DEF Rewrites
  <2>2. CASE b[p] \notin blocks
    <3>1. b[p] = a[p] /\ b[q] = a[q]  BY <1>1, <1>3, <2>2
    <3> QED BY <1>3, <3>1 DEF Owned
  <2> QED BY <2>1, <2>2
<1>4. ASSUME NEW x \in T PROVE \E p \in P : b[p] = x
  <2>1. CASE x \in S /\ x \notin given
    <3>1. PICK p \in P : a[p] = x  BY <2>1 DEF Owned
    <3>2. x # 0 /\ x \notin blocks  BY <2>1
    <3>3. p \notin W  BY <2>1, <3>1, <3>2 DEF Rewrites
    <3>4. b[p] = a[p]  BY <3>1, <3>2, <3>3 DEF Rewrites
    <3> QED BY <3>1, <3>4
  <2>2. CASE x \in blocks /\ \E p \in P : b[p] = x  BY <2>2
  <2> QED BY <2>1, <2>2
<1> QED BY <1>2, <1>3, <1>4 DEF Owned

-----------------------------------------------------------------------------
LEMMA DiskIs ==
  ASSUME NEW n \in Nat \ {0}, NEW d \in DskOf(n)
  PROVE  /\ d.nb = n /\ d # EmptyDsk
         /\ d.mus \in [1..n -> TrackSet]
         /\ \A j \in 0..n : TagsAt(d, j) \in TagsType
<1>1. d.nb = n /\ d.mus \in [1..n -> TrackSet] /\ d.tags \in TagsType  BY DEF DskOf
<1>2. d # EmptyDsk
  <2>1. EmptyDsk.nb = 0  BY DEF EmptyDsk
  <2> QED BY <1>1, <2>1
<1>3. ASSUME NEW i \in 1..n PROVE d.mus[i].tags \in TagsType
  <2>1. d.mus[i] \in TrackSet  BY <1>1
  <2> QED BY <2>1 DEF TrackSet
<1>4. ASSUME NEW j \in 0..n PROVE TagsAt(d, j) \in TagsType
  <2>1. CASE j = 0  BY <1>1, <2>1 DEF TagsAt
  <2>2. CASE j # 0
    <3> j \in 1..n  BY <2>2
    <3> QED BY <1>3, <2>2 DEF TagsAt
  <2> QED BY <2>1, <2>2
<1> QED BY <1>1, <1>2, <1>4

LEMMA PutTagsIs ==
  ASSUME NEW n \in Nat \ {0}, NEW d \in DskOf(n), NEW m \in 0..n, NEW u \in TagsType
  PROVE  /\ PutTags(d, m, u) \in DskOf(n)
         /\ \A j \in 0..n : TagsAt(PutTags(d, m, u), j) = IF j = m THEN u ELSE TagsAt(d, j)
         /\ \A i \in 1..n : PutTags(d, m, u).mus[i].replay = d.mus[i].replay
<1>1. d.mus \in [1..n -> TrackSet]  BY DEF DskOf
<1>2. CASE m = 0
  <2> DEFINE e == [d EXCEPT !.tags = u]
  <2>1. PutTags(d, m, u) = e  BY <1>2 DEF PutTags
  <2>2. e \in DskOf(n) /\ e.tags = u /\ e.mus = d.mus  BY DEF DskOf
  <2> HIDE DEF e
  <2>3. \A j \in 0..n : TagsAt(e, j) = IF j = m THEN u ELSE TagsAt(d, j)
    BY <1>2, <2>2 DEF TagsAt
  <2> QED BY <2>1, <2>2, <2>3
<1>3. CASE m # 0
  <2> DEFINE w == [d.mus[m] EXCEPT !.tags = u]
             mus == [d.mus EXCEPT ![m] = w]
             e == [d EXCEPT !.mus = mus]
  <2>1. m \in 1..n  BY <1>3
  <2>2. w \in TrackSet /\ w.tags = u /\ w.replay = d.mus[m].replay
    <3> d.mus[m] \in TrackSet  BY <1>1, <2>1
    <3> QED BY DEF TrackSet
  <2>3. PutTags(d, m, u) = e  BY <1>3 DEF PutTags
  <2> HIDE DEF w
  <2>4. /\ mus \in [1..n -> TrackSet] /\ mus[m] = w
        /\ \A j \in 1..n : j # m => mus[j] = d.mus[j]
    BY <1>1, <2>1, <2>2
  <2> HIDE DEF mus
  <2>5. e \in DskOf(n) /\ e.tags = d.tags /\ e.mus = mus  BY <2>4 DEF DskOf
  <2> HIDE DEF e
  <2>6. ASSUME NEW j \in 0..n PROVE TagsAt(e, j) = IF j = m THEN u ELSE TagsAt(d, j)
    <3>1. CASE j = 0  BY <1>3, <2>5, <3>1 DEF TagsAt
    <3>2. CASE j # 0
      <4> j \in 1..n  BY <3>2
      <4> QED BY <2>2, <2>4, <2>5, <3>2 DEF TagsAt
    <3> QED BY <3>1, <3>2
  <2>7. \A i \in 1..n : e.mus[i].replay = d.mus[i].replay  BY <2>2, <2>4, <2>5
  <2> QED BY <2>3, <2>5, <2>6, <2>7
<1> QED BY <1>2, <1>3

(* Two disks whose strings are the same.                                   *)
SameStrings(n, d, e) ==
  /\ \A j \in 0..n : TagsAt(e, j) = TagsAt(d, j)
  /\ \A i \in 1..n : e.mus[i].replay = d.mus[i].replay

LEMMA ValidatedSame ==
  ASSUME NEW n \in Nat \ {0}, NEW d \in DskOf(n)
  PROVE  SameStrings(n, d, DskValidated(d))
<1>1. /\ DskValidated(d).tags = d.tags
      /\ \A i \in 1..n : /\ DskValidated(d).mus[i].tags = d.mus[i].tags
                         /\ DskValidated(d).mus[i].replay = d.mus[i].replay
  BY DskValidatedIs
<1>2. ASSUME NEW j \in 0..n PROVE TagsAt(DskValidated(d), j) = TagsAt(d, j)
  <2>1. j = 0 \/ j \in 1..n  OBVIOUS
  <2> QED BY <1>1, <2>1 DEF TagsAt
<1> QED BY <1>1, <1>2 DEF SameStrings

PlacesOf(n) == ((0..n) \X Tag \X {"key", "val"}) \cup ((1..n) \X {0} \X {"replay"})

LEMMA PlaceIs ==
  ASSUME NEW n \in Nat \ {0}, NEW d \in DskOf(n)
  PROVE  /\ Places(d) = PlacesOf(n)
         /\ \A p \in PlacesOf(n) : Ids(d)[p] = IdAt(d, p)
         /\ \A p \in PlacesOf(n) :
              \/ /\ p[1] \in 0..n /\ p[2] \in Tag /\ p[3] = "key" /\ p = <<p[1], p[2], "key">>
                 /\ IdAt(d, p) = TagsAt(d, p[1])[p[2]].key.id
              \/ /\ p[1] \in 0..n /\ p[2] \in Tag /\ p[3] = "val" /\ p = <<p[1], p[2], "val">>
                 /\ IdAt(d, p) = TagsAt(d, p[1])[p[2]].val.id
              \/ /\ p[1] \in 1..n /\ p[2] = 0 /\ p[3] = "replay" /\ p = <<p[1], 0, "replay">>
                 /\ IdAt(d, p) = d.mus[p[1]].replay.id
<1>1. Places(d) = PlacesOf(n)  BY DiskIs DEF Places, PlacesOf
<1>2. \A p \in PlacesOf(n) : Ids(d)[p] = IdAt(d, p)  BY <1>1 DEF Ids
<1>3. ASSUME NEW p \in PlacesOf(n)
      PROVE  \/ /\ p[1] \in 0..n /\ p[2] \in Tag /\ p[3] = "key" /\ p = <<p[1], p[2], "key">>
                /\ IdAt(d, p) = TagsAt(d, p[1])[p[2]].key.id
             \/ /\ p[1] \in 0..n /\ p[2] \in Tag /\ p[3] = "val" /\ p = <<p[1], p[2], "val">>
                /\ IdAt(d, p) = TagsAt(d, p[1])[p[2]].val.id
             \/ /\ p[1] \in 1..n /\ p[2] = 0 /\ p[3] = "replay" /\ p = <<p[1], 0, "replay">>
                /\ IdAt(d, p) = d.mus[p[1]].replay.id
  <2>1. CASE p \in (0..n) \X Tag \X {"key", "val"}
    <3>1. p[1] \in 0..n /\ p[2] \in Tag /\ p[3] \in {"key", "val"} /\ p = <<p[1], p[2], p[3]>>
      BY <2>1
    <3>2. p[3] # "replay"  BY <3>1
    <3>3. IdAt(d, p) = TagsAt(d, p[1])[p[2]][p[3]].id  BY <3>2, Zenon DEF IdAt
    <3>4. CASE p[3] = "key"  BY <3>1, <3>3, <3>4
    <3>5. CASE p[3] = "val"  BY <3>1, <3>3, <3>5
    <3> QED BY <3>1, <3>4, <3>5
  <2>2. CASE p \in (1..n) \X {0} \X {"replay"}
    <3>1. p[1] \in 1..n /\ p[2] = 0 /\ p[3] = "replay" /\ p = <<p[1], p[2], p[3]>>  BY <2>2
    <3>2. IdAt(d, p) = d.mus[p[1]].replay.id  BY <3>1, Zenon DEF IdAt
    <3> QED BY <3>1, <3>2
  <2> QED BY <2>1, <2>2 DEF PlacesOf
<1> QED BY <1>1, <1>2, <1>3

LEMMA SameIds ==
  ASSUME NEW n \in Nat \ {0}, NEW d \in DskOf(n), NEW e \in DskOf(n), SameStrings(n, d, e)
  PROVE  Places(e) = Places(d) /\ Ids(e) = Ids(d)
<1>1. Places(e) = Places(d) /\ Places(d) = PlacesOf(n)  BY PlaceIs
<1>2. ASSUME NEW p \in PlacesOf(n) PROVE IdAt(e, p) = IdAt(d, p)
  <2>1. p[1] \in 0..n /\ (p[3] = "replay" => p[1] \in 1..n)  BY PlaceIs
  <2> QED BY <2>1, Zenon DEF SameStrings, IdAt
<1> QED BY <1>1, <1>2 DEF Ids

-----------------------------------------------------------------------------
(* Each edit keeps the tags tidy, and every block with its one holder.     *)
AllTidy(n, d) == \A j \in 0..n : Tidy(TagsAt(d, j))
Sound(n, d, S) == d \in DskOf(n) /\ AllTidy(n, d) /\ Owned(Places(d), Ids(d), S)

LEMMA ValidatedSound ==
  ASSUME NEW n \in Nat \ {0}, NEW d \in DskOf(n), NEW S, Sound(n, d, S)
  PROVE  Sound(n, DskValidated(d), S)
<1>1. DskValidated(d) \in DskOf(n) /\ SameStrings(n, d, DskValidated(d))
  BY DskValidatedIs, ValidatedSame
<1>2. Places(DskValidated(d)) = Places(d) /\ Ids(DskValidated(d)) = Ids(d)  BY <1>1, SameIds
<1>3. AllTidy(n, DskValidated(d))  BY <1>1 DEF SameStrings, AllTidy, Sound
<1> QED BY <1>1, <1>2, <1>3 DEF Sound

(* Blocks an edit allocates are kept if the disk holds them.               *)
KeptBlocks(d, S, given, blocks) == (S \ given) \cup {b \in blocks : Holders(d, b) # {}}

LEMMA HoldersAre ==
  ASSUME NEW n \in Nat \ {0}, NEW d \in DskOf(n), NEW b
  PROVE  /\ Holders(d, b) # {} <=> \E p \in PlacesOf(n) : Ids(d)[p] = b
         /\ Holders(d, b) = {p \in PlacesOf(n) : Ids(d)[p] = b}
BY PlaceIs DEF Holders

LEMMA RewriteSound ==
  ASSUME NEW n \in Nat \ {0}, NEW d \in DskOf(n), NEW e \in DskOf(n), NEW S, NEW W,
         NEW given, NEW blocks, Sound(n, d, S), AllTidy(n, e),
         Rewrites(PlacesOf(n), Ids(d), Ids(e), W, given, blocks),
         0 \notin S, 0 \notin blocks, blocks \cap S = {}
  PROVE  Sound(n, e, KeptBlocks(e, S, given, blocks))
<1> DEFINE T == KeptBlocks(e, S, given, blocks)
           P == PlacesOf(n)
           a == Ids(d)
           b == Ids(e)
<1>1. Places(d) = P /\ Places(e) = P  BY PlaceIs
<1>2. \A x : x \in T <=> (x \in S /\ x \notin given) \/ (x \in blocks /\ \E p \in P : b[p] = x)
  <2>1. \A x : Holders(e, x) # {} <=> \E p \in P : b[p] = x  BY HoldersAre
  <2> HIDE DEF P, b
  <2> QED BY <2>1 DEF KeptBlocks
<1>3. Owned(P, a, S)  BY <1>1 DEF Sound
<1>4. Owned(P, b, T)
  <2> HIDE DEF T, P, a, b
  <2>1. Rewrites(P, a, b, W, given, blocks)  BY DEF P, a, b
  <2> QED BY <1>2, <1>3, <2>1, EditOwns
<1> QED BY <1>1, <1>4 DEF Sound

LEMMA EditTagSound ==
  ASSUME NEW n \in Nat \ {0}, NEW d \in DskOf(n), NEW S, Sound(n, d, S), 0 \notin S,
         NEW m \in 0..n, NEW k \in Text, NEW v \in Text, k.s # Nil, k.id # 0, k.id \notin S,
         v.s = Nil => v.id = 0, v.id \notin S, v.id # k.id
  PROVE  LET t == TagsAt(d, m)
             e == PutTags(d, m, SetTag(t, k, v))
         IN  e \in DskOf(n) /\ Sound(n, e, KeptBlocks(e, S, Freed(t, k.s, v), {k.id, v.id} \ {0}))
<1> DEFINE t == TagsAt(d, m)
           u == SetTag(t, k, v)
           e == PutTags(d, m, u)
           i == SlotSet(t, k.s, v)
           given == Freed(t, k.s, v)
           blocks == {k.id, v.id} \ {0}
           gone == v.s = Nil /\ i \in Custom
           W == IF i = 0 THEN {} ELSE {<<m, i, "val">>} \cup (IF gone THEN {<<m, i, "key">>} ELSE {})
<1>1. t \in TagsType /\ Tidy(t)  BY DiskIs DEF Sound, AllTidy
<1>2. /\ u \in TagsType
      /\ i = 0 => u = t
      /\ \A j \in Tag : j # i => u[j] = t[j]
      /\ i # 0 => /\ i \in Tag /\ u[i].val = v
                  /\ u[i].key = IF v.s # Nil /\ t[i].key.s = Nil THEN k
                                ELSE IF v.s = Nil /\ i \in Custom THEN Blank ELSE t[i].key
  <2>1. SetTagged(t, k, v, i, u)  BY <1>1, SetTagHow
  <2> HIDE DEF t, u, i
  <2> QED BY <2>1 DEF SetTagged
<1>3. Tidy(u)  BY <1>1, SetTagTidy
<1>4. given = IF i = 0 THEN {} ELSE {t[i].val.id} \cup (IF gone THEN {t[i].key.id} ELSE {})
  BY Zenon DEF Freed, SlotSet
<1> HIDE DEF t, u, i, given
<1>5. /\ e \in DskOf(n)
      /\ \A j \in 0..n : TagsAt(e, j) = IF j = m THEN u ELSE TagsAt(d, j)
      /\ \A j \in 1..n : e.mus[j].replay = d.mus[j].replay
  BY <1>2, PutTagsIs
<1> HIDE DEF e
<1>6. AllTidy(n, e)  BY <1>3, <1>5 DEF Sound, AllTidy
<1> DEFINE a == Ids(d)
           b == Ids(e)
           P == PlacesOf(n)
(* The identifiers before and after. *)
<1>7. ASSUME NEW p \in P
      PROVE  /\ p = <<m, i, "val">> => a[p] = t[i].val.id /\ b[p] = v.id /\ i # 0
             /\ p = <<m, i, "key">> => a[p] = t[i].key.id /\ b[p] = u[i].key.id /\ i # 0
             /\ p # <<m, i, "val">> /\ p # <<m, i, "key">> => b[p] = a[p]
  <2>1. a[p] = IdAt(d, p) /\ b[p] = IdAt(e, p)  BY PlaceIs, <1>5
  <2>2. 0 \notin Tag  BY Slots
  <2>3. CASE p[1] \in 0..n /\ p[2] \in Tag /\ p[3] = "key" /\ p = <<p[1], p[2], "key">>
    <3>1. IdAt(d, p) = TagsAt(d, p[1])[p[2]].key.id /\ IdAt(e, p) = TagsAt(e, p[1])[p[2]].key.id
      <4> p[3] # "val" /\ p[3] # "replay"  BY <2>3
      <4> QED BY PlaceIs, <1>5
    <3>2. CASE p[1] = m /\ p[2] = i
      BY <2>1, <2>2, <2>3, <3>1, <3>2, <1>5 DEF t
    <3>3. CASE p[1] = m /\ p[2] # i
      BY <2>1, <2>3, <3>1, <3>3, <1>2, <1>5 DEF t
    <3>4. CASE p[1] # m
      BY <2>1, <2>3, <3>1, <3>4, <1>5
    <3> QED BY <3>2, <3>3, <3>4
  <2>4. CASE p[1] \in 0..n /\ p[2] \in Tag /\ p[3] = "val" /\ p = <<p[1], p[2], "val">>
    <3>1. IdAt(d, p) = TagsAt(d, p[1])[p[2]].val.id /\ IdAt(e, p) = TagsAt(e, p[1])[p[2]].val.id
      <4> p[3] # "key" /\ p[3] # "replay"  BY <2>4
      <4> QED BY PlaceIs, <1>5
    <3>2. CASE p[1] = m /\ p[2] = i
      BY <1>2, <2>1, <2>2, <2>4, <3>1, <3>2, <1>5 DEF t
    <3>3. CASE p[1] = m /\ p[2] # i
      BY <2>1, <2>4, <3>1, <3>3, <1>2, <1>5 DEF t
    <3>4. CASE p[1] # m
      BY <2>1, <2>4, <3>1, <3>4, <1>5
    <3> QED BY <3>2, <3>3, <3>4
  <2>5. CASE p[1] \in 1..n /\ p[2] = 0 /\ p[3] = "replay" /\ p = <<p[1], 0, "replay">>
    <3>1. IdAt(d, p) = d.mus[p[1]].replay.id /\ IdAt(e, p) = e.mus[p[1]].replay.id
      <4> p[3] # "key" /\ p[3] # "val"  BY <2>5
      <4> QED BY PlaceIs, <1>5
    <3>2. p # <<m, i, "val">> /\ p # <<m, i, "key">>  BY <2>5
    <3> QED BY <1>5, <2>1, <2>5, <3>1, <3>2
  <2> QED BY <2>3, <2>4, <2>5, PlaceIs
<1>8. /\ k.id \in blocks /\ v.id \in blocks \cup {0} /\ v.id # k.id
      /\ \A x \in blocks : x # 0 /\ x \notin S /\ (x = k.id \/ x = v.id)
  OBVIOUS
<1>9. i # 0 => <<m, i, "val">> \in P /\ <<m, i, "key">> \in P
  BY <1>2 DEF PlacesOf
<1>10. \A p \in P : a[p] # 0 => a[p] \in S
  BY PlaceIs DEF Sound, Owned
(* A key that is new takes the place of none. *)
<1>11. i # 0 => \/ gone /\ u[i].key.id = 0
                \/ ~gone /\ u[i].key.id = t[i].key.id
                \/ ~gone /\ u[i].key.id = k.id /\ t[i].key.id = 0
  <2> SUFFICES ASSUME i # 0 PROVE \/ gone /\ u[i].key.id = 0
                                  \/ ~gone /\ u[i].key.id = t[i].key.id
                                  \/ ~gone /\ u[i].key.id = k.id /\ t[i].key.id = 0
    OBVIOUS
  <2>1. i \in Tag  BY <1>2
  <2>2. CASE v.s # Nil /\ t[i].key.s = Nil
    <3>1. t[i].key.id = 0  BY <1>1, <2>1, <2>2, Slots DEF Tidy
    <3> QED BY <1>2, <2>2, <3>1
  <2>3. CASE gone
    <3>1. u[i].key.id = 0  BY <1>2, <2>3, Texts0
    <3> QED BY <2>3, <3>1
  <2>4. CASE ~gone /\ ~(v.s # Nil /\ t[i].key.s = Nil)
    <3>1. u[i].key = t[i].key  BY <1>2, <2>4
    <3> QED BY <2>4, <3>1
  <2> QED BY <2>2, <2>3, <2>4
<1> HIDE DEF a, b, P, gone
<1>12. Rewrites(P, a, b, W, given, blocks)
  <2> HIDE DEF blocks
  <2>1. W \subseteq P  BY <1>9
  <2>2. \A p \in W : a[p] \in given \cup {0}
    BY <1>4, <1>7, <2>1
  <2>3. \A x \in given : x = 0 \/ \E p \in W : a[p] = x
    <3> SUFFICES ASSUME NEW x \in given PROVE \E p \in W : a[p] = x  OBVIOUS
    <3>1. i # 0  BY <1>4
    <3>2. CASE x = t[i].val.id
      <4> <<m, i, "val">> \in W /\ a[<<m, i, "val">>] = x  BY <1>7, <1>9, <3>1, <3>2
      <4> QED OBVIOUS
    <3>3. CASE gone /\ x = t[i].key.id
      <4> <<m, i, "key">> \in W /\ a[<<m, i, "key">>] = x  BY <1>7, <1>9, <3>1, <3>3
      <4> QED OBVIOUS
    <3> QED BY <1>4, <3>1, <3>2, <3>3
  <2>4. \A p \in W : b[p] \in blocks \cup {0}
    <3> SUFFICES ASSUME NEW p \in W PROVE b[p] \in blocks \cup {0}  OBVIOUS
    <3>1. i # 0 /\ p \in P  BY <2>1
    <3>2. CASE p = <<m, i, "val">>  BY <1>7, <1>8, <3>1, <3>2
    <3>3. CASE p = <<m, i, "key">> /\ gone
      <4>1. b[p] = u[i].key.id  BY <1>7, <3>1, <3>3
      <4> QED BY <1>11, <3>1, <3>3, <4>1
    <3> QED BY <3>1, <3>2, <3>3
  <2>5. \A p \in P \ W : b[p] = a[p] \/ (a[p] = 0 /\ b[p] \in blocks)
    <3> SUFFICES ASSUME NEW p \in P, p \notin W
                 PROVE  b[p] = a[p] \/ (a[p] = 0 /\ b[p] \in blocks)
      OBVIOUS
    <3>1. p # <<m, i, "val">>
      <4> SUFFICES ASSUME p = <<m, i, "val">> PROVE FALSE  OBVIOUS
      <4>1. i # 0  BY <1>7
      <4> QED BY <4>1
    <3>2. CASE p # <<m, i, "key">>  BY <1>7, <3>1, <3>2
    <3>3. CASE p = <<m, i, "key">>
      <4>1. i # 0 /\ a[p] = t[i].key.id /\ b[p] = u[i].key.id  BY <1>7, <3>3
      <4>2. ~gone  BY <3>3, <4>1
      <4> QED BY <1>8, <1>11, <4>1, <4>2
    <3> QED BY <3>2, <3>3
  <2>6. \A p, q \in P : b[p] = b[q] /\ b[p] \in blocks => p = q
    <3>1. ASSUME NEW p \in P, b[p] \in blocks
          PROVE  (p = <<m, i, "val">> /\ b[p] = v.id) \/ (p = <<m, i, "key">> /\ b[p] = k.id)
      <4>1. b[p] # a[p]  BY <1>8, <1>10, <3>1
      <4>2. CASE p = <<m, i, "val">>  BY <1>7, <4>2
      <4>3. CASE p = <<m, i, "key">>
        <5>1. i # 0 /\ a[p] = t[i].key.id /\ b[p] = u[i].key.id  BY <1>7, <4>3
        <5> QED BY <1>8, <1>11, <3>1, <4>1, <4>3, <5>1
      <4> QED BY <1>7, <4>1, <4>2, <4>3
    <3> QED BY <1>8, <3>1
  <2> HIDE DEF W
  <2> QED BY <2>1, <2>2, <2>3, <2>4, <2>5, <2>6 DEF Rewrites
<1>13. Sound(n, e, KeptBlocks(e, S, given, blocks))
  <2> HIDE DEF W
  <2>1. 0 \notin blocks /\ blocks \cap S = {}  BY <1>8
  <2> HIDE DEF blocks
  <2> QED BY <1>5, <1>6, <1>12, <2>1, RewriteSound DEF a, b, P
<1> QED BY <1>5, <1>13 DEF t, u, e, given

LEMMA SameSound ==
  ASSUME NEW n \in Nat \ {0}, NEW d \in DskOf(n), NEW e \in DskOf(n), NEW S, NEW blocks,
         Sound(n, d, S), SameStrings(n, d, e), blocks \subseteq S
  PROVE  Sound(n, e, KeptBlocks(e, S, {}, blocks))
<1>1. Places(e) = Places(d) /\ Ids(e) = Ids(d)  BY SameIds
<1>2. KeptBlocks(e, S, {}, blocks) = S  BY DEF KeptBlocks
<1>3. AllTidy(n, e)  BY DEF SameStrings, AllTidy, Sound
<1> QED BY <1>1, <1>2, <1>3 DEF Sound

(* The replay of a track.                                                  *)
PutReplay(d, m, r) == [d EXCEPT !.mus[m].replay = r]

ReplayPut(n, d, m, r, e) ==
  /\ e \in DskOf(n)
  /\ \A j \in 0..n : TagsAt(e, j) = TagsAt(d, j)
  /\ \A i \in 1..n : e.mus[i].replay = IF i = m THEN r ELSE d.mus[i].replay

LEMMA PutReplayIs ==
  ASSUME NEW n \in Nat \ {0}, NEW d \in DskOf(n), NEW m \in 1..n, NEW r \in Text
  PROVE  ReplayPut(n, d, m, r, PutReplay(d, m, r))
<1> DEFINE w == [d.mus[m] EXCEPT !.replay = r]
           mus == [d.mus EXCEPT ![m] = w]
           e == [d EXCEPT !.mus = mus]
<1>1. d.mus \in [1..n -> TrackSet] /\ d.mus[m] \in TrackSet  BY DEF DskOf
<1>2. w \in TrackSet /\ w.tags = d.mus[m].tags /\ w.replay = r
  BY <1>1 DEF TrackSet
<1>3. PutReplay(d, m, r) = e  BY DEF PutReplay
<1> HIDE DEF w
<1>4. /\ mus \in [1..n -> TrackSet] /\ mus[m] = w
      /\ \A j \in 1..n : j # m => mus[j] = d.mus[j]
  BY <1>1, <1>2
<1> HIDE DEF mus
<1>5. e \in DskOf(n) /\ e.tags = d.tags /\ e.mus = mus  BY <1>4 DEF DskOf
<1> HIDE DEF e
<1>6. ASSUME NEW j \in 0..n PROVE TagsAt(e, j) = TagsAt(d, j)
  <2>1. CASE j = 0  BY <1>5, <2>1 DEF TagsAt
  <2>2. CASE j # 0
    <3> j \in 1..n  BY <2>2
    <3> QED BY <1>2, <1>4, <1>5, <2>2 DEF TagsAt
  <2> QED BY <2>1, <2>2
<1>7. \A i \in 1..n : e.mus[i].replay = IF i = m THEN r ELSE d.mus[i].replay
  BY <1>2, <1>4, <1>5
<1>8. ReplayPut(n, d, m, r, e)  BY <1>5, <1>6, <1>7 DEF ReplayPut
<1> QED BY <1>3, <1>8

LEMMA ReplaySound ==
  ASSUME NEW n \in Nat \ {0}, NEW d \in DskOf(n), NEW S, Sound(n, d, S), 0 \notin S,
         NEW m \in 1..n, NEW r \in Text, r.id \notin S
  PROVE  Sound(n, PutReplay(d, m, r),
               KeptBlocks(PutReplay(d, m, r), S, {d.mus[m].replay.id}, {r.id} \ {0}))
<1> DEFINE e == PutReplay(d, m, r)
           given == {d.mus[m].replay.id}
           blocks == {r.id} \ {0}
           W == {<<m, 0, "replay">>}
           a == Ids(d)
           b == Ids(e)
           P == PlacesOf(n)
<1>1. /\ e \in DskOf(n)
      /\ \A j \in 0..n : TagsAt(e, j) = TagsAt(d, j)
      /\ \A i \in 1..n : e.mus[i].replay = IF i = m THEN r ELSE d.mus[i].replay
  <2>1. ReplayPut(n, d, m, r, e)  BY PutReplayIs
  <2> HIDE DEF e
  <2> QED BY <2>1 DEF ReplayPut
<1> HIDE DEF e
<1>2. AllTidy(n, e)  BY <1>1 DEF Sound, AllTidy
<1>3. ASSUME NEW p \in P
      PROVE  /\ p = <<m, 0, "replay">> => a[p] = d.mus[m].replay.id /\ b[p] = r.id
             /\ p # <<m, 0, "replay">> => b[p] = a[p]
  <2>1. a[p] = IdAt(d, p) /\ b[p] = IdAt(e, p)  BY PlaceIs, <1>1
  <2>2. p[1] \in 0..n /\ (p[3] = "replay" => p[1] \in 1..n /\ p = <<p[1], 0, "replay">>)
    BY PlaceIs
  <2>3. CASE p[3] = "replay"
    <3>1. IdAt(d, p) = d.mus[p[1]].replay.id /\ IdAt(e, p) = e.mus[p[1]].replay.id
      BY <2>3, Zenon DEF IdAt
    <3>2. p[1] = m <=> p = <<m, 0, "replay">>  BY <2>2, <2>3
    <3> QED BY <1>1, <2>1, <2>2, <2>3, <3>1, <3>2
  <2>4. CASE p[3] # "replay"
    <3>1. IdAt(e, p) = IdAt(d, p)  BY <1>1, <2>2, <2>4, Zenon DEF IdAt
    <3>2. p # <<m, 0, "replay">>  BY <2>4
    <3> QED BY <2>1, <3>1, <3>2
  <2> QED BY <2>3, <2>4
<1>4. <<m, 0, "replay">> \in P  BY DEF PlacesOf
<1>5. \A p \in P : a[p] # 0 => a[p] \in S  BY PlaceIs DEF Sound, Owned
<1>6. blocks \cap S = {} /\ 0 \notin blocks  OBVIOUS
<1> HIDE DEF a, b, P
<1>7. Rewrites(P, a, b, W, given, blocks)
  <2>1. \A p \in W : p \in P /\ a[p] \in given /\ b[p] = r.id  BY <1>3, <1>4
  <2>2. \A x \in given : \E p \in W : a[p] = x  BY <1>3, <1>4
  <2>3. \A p \in P \ W : b[p] = a[p]  BY <1>3
  <2>4. \A p \in P : b[p] \in blocks => p \in W
    <3> SUFFICES ASSUME NEW p \in P, b[p] \in blocks, p \notin W PROVE FALSE  OBVIOUS
    <3>1. b[p] = a[p]  BY <2>3
    <3> QED BY <3>1, <1>5, <1>6
  <2>5. \A p, q \in W : p = q  OBVIOUS
  <2>6. r.id \in blocks \cup {0}  OBVIOUS
  <2> HIDE DEF W, given, blocks
  <2> QED BY <2>1, <2>2, <2>3, <2>4, <2>5, <2>6 DEF Rewrites
<1>8. Sound(n, e, KeptBlocks(e, S, given, blocks))
  <2> HIDE DEF W, given, blocks
  <2> QED BY <1>1, <1>2, <1>6, <1>7, RewriteSound DEF a, b, P
<1> QED BY <1>8 DEF e

(* Lengths and hardware flags: no string is touched.                       *)
PutTrack(d, m, w) == [d EXCEPT !.mus[m] = w]

LEMMA PutTrackIs ==
  ASSUME NEW n \in Nat \ {0}, NEW d \in DskOf(n), NEW m \in 1..n, NEW w \in TrackSet,
         w.tags = d.mus[m].tags, w.replay = d.mus[m].replay
  PROVE  PutTrack(d, m, w) \in DskOf(n) /\ SameStrings(n, d, PutTrack(d, m, w))
<1> DEFINE mus == [d.mus EXCEPT ![m] = w]
           e == [d EXCEPT !.mus = mus]
<1>1. d.mus \in [1..n -> TrackSet]  BY DEF DskOf
<1>2. PutTrack(d, m, w) = e  BY DEF PutTrack
<1>3. /\ mus \in [1..n -> TrackSet] /\ mus[m] = w
      /\ \A j \in 1..n : j # m => mus[j] = d.mus[j]
  BY <1>1
<1> HIDE DEF mus
<1>4. e \in DskOf(n) /\ e.tags = d.tags /\ e.mus = mus  BY <1>3 DEF DskOf
<1> HIDE DEF e
<1>5. ASSUME NEW j \in 0..n PROVE TagsAt(e, j) = TagsAt(d, j)
  <2>1. CASE j = 0  BY <1>4, <2>1 DEF TagsAt
  <2>2. CASE j # 0
    <3> j \in 1..n  BY <2>2
    <3> QED BY <1>3, <1>4, <2>2 DEF TagsAt
  <2> QED BY <2>1, <2>2
<1>6. \A i \in 1..n : e.mus[i].replay = d.mus[i].replay  BY <1>3, <1>4
<1> QED BY <1>2, <1>4, <1>5, <1>6 DEF SameStrings

(* Counting tags without a gap.                                            *)
LEMMA CountedSame ==
  ASSUME NEW n \in Nat \ {0}, NEW d \in DskOf(n), NEW m \in 1..n
  PROVE  LET e == PutTags(PutTags(d, 0, CountTags(d.tags)), m, CountTags(d.mus[m].tags))
         IN  /\ e \in DskOf(n)
             /\ ~Gap(d.tags) /\ ~Gap(d.mus[m].tags) => SameStrings(n, d, e)
<1> DEFINE t == CountTags(d.tags)
           u == CountTags(d.mus[m].tags)
           c == PutTags(d, 0, t)
           e == PutTags(c, m, u)
<1>1. TagsAt(d, 0) = d.tags /\ TagsAt(d, m) = d.mus[m].tags  BY DEF TagsAt
<1>2. d.tags \in TagsType /\ d.mus[m].tags \in TagsType
  <2>1. 0 \in 0..n /\ m \in 0..n  OBVIOUS
  <2> QED BY <1>1, <2>1, DiskIs
<1>3. /\ t \in TagsType /\ (~Gap(d.tags) => t = d.tags)
      /\ u \in TagsType /\ (~Gap(d.mus[m].tags) => u = d.mus[m].tags)
  BY <1>2, CountTagsIs
<1> HIDE DEF t, u
<1>4. /\ c \in DskOf(n)
      /\ \A j \in 0..n : TagsAt(c, j) = IF j = 0 THEN t ELSE TagsAt(d, j)
      /\ \A i \in 1..n : c.mus[i].replay = d.mus[i].replay
  <2>1. 0 \in 0..n  OBVIOUS
  <2> QED BY <1>3, <2>1, PutTagsIs
<1> HIDE DEF c
<1>5. /\ e \in DskOf(n)
      /\ \A j \in 0..n : TagsAt(e, j) = IF j = m THEN u ELSE TagsAt(c, j)
      /\ \A i \in 1..n : e.mus[i].replay = c.mus[i].replay
  <2>1. m \in 0..n  OBVIOUS
  <2>2. c \in DskOf(n) /\ u \in TagsType  BY <1>3, <1>4
  <2> QED BY <2>1, <2>2, PutTagsIs
<1> HIDE DEF e
<1>6. ~Gap(d.tags) /\ ~Gap(d.mus[m].tags) => SameStrings(n, d, e)
  BY <1>1, <1>3, <1>4, <1>5 DEF SameStrings
<1> QED BY <1>5, <1>6 DEF e, c, t, u

-----------------------------------------------------------------------------
(* Purging the tags: step j deletes slot j, which its key finds.           *)
LEMMA FindsFlat ==
  ASSUME NEW w, NEW key
  PROVE  /\ key \in DOMAIN Named => FindTag(w, key) = Named[key]
         /\ key \notin DOMAIN Named => \/ FindTag(w, key) = 0 /\ \A k \in Custom : w[k].key.s # key
                                       \/ FindTag(w, key) \in Custom /\ w[FindTag(w, key)].key.s = key
<1> DEFINE a == FindTag(w, key)
<1>1. /\ key \in DOMAIN Named => a = Named[key] /\ a \in 1..GENRE
      /\ key \notin DOMAIN Named => \/ a = 0 /\ \A k \in Custom : w[k].key.s # key
                                    \/ a \in Custom /\ w[a].key.s = key
  BY FindTagIs, Zenon
<1> HIDE DEF a
<1> QED BY <1>1 DEF a

LEMMA SlotIs ==
  ASSUME NEW w, NEW key, NEW j \in Tag,
         \/ j \in 1..GENRE /\ key \in DOMAIN Named /\ Named[key] = j
         \/ /\ j \in Custom /\ key \notin DOMAIN Named /\ w[j].key.s = key
            /\ \A i \in Custom : w[i].key.s = key => i = j
  PROVE  FindTag(w, key) = j
<1> DEFINE a == FindTag(w, key)
<1>1. /\ key \in DOMAIN Named => a = Named[key]
      /\ key \notin DOMAIN Named => \/ a = 0 /\ \A k \in Custom : w[k].key.s # key
                                    \/ a \in Custom /\ w[a].key.s = key
  BY FindsFlat
<1> HIDE DEF a
<1> QED BY <1>1 DEF a

LEMMA TidyKey ==
  ASSUME NEW t \in TagsType, Tidy(t), NEW j \in Tag, t[j].key.s # Nil
  PROVE  /\ FindTag(t, t[j].key.s) = j
         /\ \/ j \in 1..GENRE /\ t[j].key.s \in DOMAIN Named /\ Named[t[j].key.s] = j
            \/ j \in Custom /\ j \notin 1..GENRE /\ t[j].key.s \notin DOMAIN Named
<1>1. CASE j \in 1..GENRE
  <2>1. t[j].key.s \in DOMAIN Named /\ Named[t[j].key.s] = j
    <3>1. CASE j = TITLE  BY <3>1, NamedIs DEF Tidy
    <3>2. CASE j = ARTIST  BY <3>2, NamedIs DEF Tidy
    <3>3. CASE j = GENRE  BY <3>3, NamedIs DEF Tidy
    <3> QED BY <1>1, <3>1, <3>2, <3>3, Slots
  <2> QED BY <1>1, <2>1, SlotIs
<1>2. CASE j \in Custom
  <2>1. t[j].key.s \notin DOMAIN Named /\ j \notin 1..GENRE  BY <1>2, Slots DEF Tidy
  <2>2. \A i \in Custom : t[i].key.s = t[j].key.s => i = j  BY <1>2 DEF Tidy
  <2> QED BY <1>2, <2>1, <2>2, SlotIs
<1> QED BY <1>1, <1>2, Slots

(* The slots up to j deleted.                                              *)
WipedTo(t, j, w) ==
  /\ w \in TagsType
  /\ \A i \in Tag :
       IF i <= j /\ t[i].key.s # Nil
       THEN w[i].val = Blank /\ w[i].key = IF i \in Custom THEN Blank ELSE t[i].key
       ELSE w[i] = t[i]

WipeNext(t, i, w) == IF t[i].key.s = Nil THEN w ELSE SetTag(w, t[i].key, Blank)

LEMMA WipeStep ==
  ASSUME NEW t \in TagsType, Tidy(t), NEW j \in Tag, NEW w, WipedTo(t, j - 1, w)
  PROVE  WipedTo(t, j, WipeNext(t, j, w))
<1> DEFINE u == SetTag(w, t[j].key, Blank)
<1>0. j \in Nat \ {0} /\ Tag \subseteq Nat  BY Slots
<1>1. CASE t[j].key.s = Nil
  <2>1. \A i \in Tag : i <= j /\ t[i].key.s # Nil <=> i <= j - 1 /\ t[i].key.s # Nil
    BY <1>0, <1>1
  <2>2. WipeNext(t, j, w) = w  BY <1>1 DEF WipeNext
  <2> QED BY <2>1, <2>2 DEF WipedTo
<1>2. CASE t[j].key.s # Nil
  <2>1. w \in TagsType /\ w[j] = t[j]  BY <1>0 DEF WipedTo
  <2>2. \/ j \in 1..GENRE /\ t[j].key.s \in DOMAIN Named /\ Named[t[j].key.s] = j
        \/ j \in Custom /\ j \notin 1..GENRE /\ t[j].key.s \notin DOMAIN Named
    BY <1>2, TidyKey
  <2>3. ASSUME j \in Custom, NEW i \in Custom, w[i].key.s = t[j].key.s PROVE i = j
    <3>1. i \in Tag  BY Slots
    <3>2. CASE i <= j - 1 /\ t[i].key.s # Nil
      <4>1. w[i].key = Blank  BY <3>1, <3>2 DEF WipedTo
      <4> QED BY <1>2, <2>3, <4>1, Texts0
    <3>3. CASE ~(i <= j - 1 /\ t[i].key.s # Nil)
      <4>1. w[i] = t[i]  BY <3>1, <3>3 DEF WipedTo
      <4> QED BY <1>2, <2>3, <4>1 DEF Tidy
    <3> QED BY <3>2, <3>3
  <2> DEFINE key == t[j].key.s
  <2>4. FindTag(w, key) = j
    <3>1. w[j].key.s = key  BY <2>1
    <3> HIDE DEF key
    <3>2. CASE j \in 1..GENRE /\ key \in DOMAIN Named /\ Named[key] = j  BY <3>2, SlotIs
    <3>3. CASE j \in Custom /\ key \notin DOMAIN Named
      <4>1. \A i \in Custom : w[i].key.s = key => i = j  BY <2>3, <3>3 DEF key
      <4> QED BY <3>1, <3>3, <4>1, SlotIs
    <3> QED BY <2>2, <3>2, <3>3 DEF key
  <2>5. Blank \in Text /\ Blank.s = Nil /\ t[j].key \in Text  BY Texts0 DEF TagsType
  <2>6. SlotSet(w, t[j].key.s, Blank) = j  BY <2>4, <2>5 DEF SlotSet
  <2>7. /\ u \in TagsType
        /\ \A i \in Tag : i # j => u[i] = w[i]
        /\ u[j].val = Blank
        /\ u[j].key = IF j \in Custom THEN Blank ELSE w[j].key
    <3> DEFINE i == SlotSet(w, key, Blank)
    <3>1. /\ u \in TagsType
          /\ \A k \in Tag : k # i => u[k] = w[k]
          /\ i # 0 => /\ u[i].val = Blank
                      /\ u[i].key = IF Blank.s # Nil /\ w[i].key.s = Nil THEN t[j].key
                                    ELSE IF Blank.s = Nil /\ i \in Custom THEN Blank ELSE w[i].key
      <4>1. SetTagged(w, t[j].key, Blank, i, u)  BY <2>1, <2>5, SetTagHow
      <4> HIDE DEF i, u
      <4> QED BY <4>1 DEF SetTagged
    <3>2. i = j  BY <2>6
    <3> HIDE DEF i, u, key
    <3> QED BY <1>0, <2>5, <3>1, <3>2
  <2>8. WipeNext(t, j, w) = u  BY <1>2 DEF WipeNext
  <2> HIDE DEF u
  <2>9. ASSUME NEW i \in Tag
        PROVE  IF i <= j /\ t[i].key.s # Nil
               THEN u[i].val = Blank /\ u[i].key = IF i \in Custom THEN Blank ELSE t[i].key
               ELSE u[i] = t[i]
    <3>1. CASE i = j  BY <1>2, <2>1, <2>7, <3>1, <1>0
    <3>2. CASE i # j
      <4>1. u[i] = w[i]  BY <2>7, <3>2
      <4>2. i <= j <=> i <= j - 1  BY <1>0, <3>2
      <4> QED BY <4>1, <4>2 DEF WipedTo
    <3> QED BY <3>1, <3>2
  <2> QED BY <2>7, <2>8, <2>9 DEF WipedTo
<1> QED BY <1>1, <1>2

LEMMA WipeTyped ==
  ASSUME NEW t \in TagsType, NEW i \in Tag, NEW w \in TagsType
  PROVE  WipeNext(t, i, w) \in TagsType
<1>1. Blank \in Text /\ t[i].key \in Text  BY Texts0 DEF TagsType
<1>2. SetTag(w, t[i].key, Blank) \in TagsType  BY <1>1, SetTagIs
<1> QED BY <1>2 DEF WipeNext

LEMMA PurgedIs ==
  ASSUME NEW t \in TagsType
  PROVE  Purged(t) \in TagsType /\ (Tidy(t) => WipedTo(t, GENRE + CUSTOM, Purged(t)))
<1> DEFINE N == GENRE + CUSTOM
           G(i, p) == WipeNext(t, i, p)
           F == [i \in 1..N |-> [p \in TagsType |-> G(i, p)]]
           P(x) == x = [i \in 0..N |-> IF i = 0 \/ t[i].key.s = Nil
                                       THEN IF i = 0 THEN t ELSE x[i - 1]
                                       ELSE SetTag(x[i - 1], t[i].key, Blank)]
           u == CHOOSE x : P(x)
<1>0. N \in Nat /\ Tag = 1..N  BY DiskAssumption DEF GENRE, Tag
<1>1. \A i \in 1..N : \A p \in TagsType : G(i, p) \in TagsType  BY <1>0, WipeTyped
<1>2. Purged(t) = u[N]  BY Zenon DEF Purged
<1>3. F \in [1..N -> [TagsType -> TagsType]]
  <2> HIDE DEF G
  <2> QED BY <1>1
<1> HIDE DEF N
<1>5. \E g : Walks(g, TagsType, N, t, F)
  <2> HIDE DEF F
  <2> QED BY <1>0, <1>3, WalkIs
<1>6. PICK g : g \in [0..N -> TagsType] /\ g[0] = t /\ \A i \in 1..N : g[i] = F[i][g[i - 1]]
  <2> HIDE DEF F
  <2> QED BY <1>5 DEF Walks
<1>7. P(g)
  <2>1. \A i \in 0..N : i # 0 => i \in 1..N /\ i - 1 \in 0..N  BY <1>0
  <2>2. \A i \in 1..N : g[i - 1] \in TagsType  BY <1>0, <1>6
  <2>3. \A i \in 1..N : g[i] = G(i, g[i - 1])
    <3> HIDE DEF G
    <3> QED BY <1>6, <2>2
  <2>4. g = [i \in 0..N |-> g[i]]  BY <1>6
  <2>5. \A i \in 0..N : g[i] = IF i = 0 \/ t[i].key.s = Nil
                               THEN IF i = 0 THEN t ELSE g[i - 1]
                               ELSE SetTag(g[i - 1], t[i].key, Blank)
    BY <1>6, <2>1, <2>3 DEF WipeNext
  <2> QED BY <2>4, <2>5
<1>8. P(u)
  <2>1. \E x : P(x)  BY <1>7
  <2> HIDE DEF P
  <2> QED BY <2>1
<1> HIDE DEF u
<1>9. u[0] = t /\ \A i \in 1..N : u[i] = G(i, u[i - 1])
  <2>1. \A i \in 1..N : i \in 0..N /\ i # 0  BY <1>0
  <2>2. 0 \in 0..N  BY <1>0
  <2> QED BY <1>8, <2>1, <2>2 DEF WipeNext
<1> HIDE DEF G
<1>10. \A i \in 0..N : u[i] \in TagsType
  <2>1. \A i \in 1..N : u[i - 1] \in TagsType => u[i] \in TagsType  BY <1>1, <1>9
  <2>2. u[0] \in TagsType  BY <1>9
  <2> QED BY <1>0, <2>1, <2>2, Stays
<1>11. Purged(t) \in TagsType  BY <1>0, <1>2, <1>10
<1>12. ASSUME Tidy(t) PROVE WipedTo(t, N, Purged(t))
  <2> DEFINE T == {n \in Nat : WipedTo(t, n, u[n])}
  <2>1. 0 \in T
    <3> \A i \in Tag : ~(i <= 0)  BY <1>0
    <3> QED BY <1>9 DEF WipedTo
  <2>2. ASSUME NEW n \in T, n < N PROVE n + 1 \in T
    <3>1. n \in Nat /\ n + 1 \in 1..N /\ (n + 1) - 1 = n  BY <2>2, <1>0
    <3>2. WipedTo(t, n, u[n])  OBVIOUS
    <3>3. u[n + 1] = WipeNext(t, n + 1, u[n])  BY <1>9, <3>1 DEF G
    <3>4. n + 1 \in Tag  BY <1>0, <3>1
    <3>5. WipedTo(t, n + 1, u[n + 1])  BY <1>12, <3>1, <3>2, <3>3, <3>4, WipeStep
    <3> QED BY <3>1, <3>5
  <2>3. T \in SUBSET Nat  OBVIOUS
  <2>4. \A n \in 0..N : n \in T
    <3> HIDE DEF T
    <3> QED BY <1>0, <2>1, <2>2, <2>3, UpTo
  <2>5. N \in T  BY <1>0, <2>4
  <2> QED BY <1>2, <2>5
<1> QED BY <1>11, <1>12 DEF N

(* What is left is tidy, and the blocks given back are those of the slots. *)
Cut(t) == UNION {Freed(t, t[i].key.s, Blank) : i \in Tag}

LEMMA PurgedTidy ==
  ASSUME NEW t \in TagsType, Tidy(t)
  PROVE  /\ Tidy(Purged(t))
         /\ \A i \in Tag : IF t[i].key.s # Nil
                           THEN Purged(t)[i].val = Blank
                                /\ Purged(t)[i].key = IF i \in Custom THEN Blank ELSE t[i].key
                           ELSE Purged(t)[i] = t[i]
<1> DEFINE u == Purged(t)
<1>1. WipedTo(t, GENRE + CUSTOM, u)  BY PurgedIs
<1>2. \A i \in Tag : i <= GENRE + CUSTOM  BY DiskAssumption DEF GENRE, Tag
<1> HIDE DEF u
<1>3. \A i \in Tag : IF t[i].key.s # Nil
                     THEN u[i].val = Blank /\ u[i].key = IF i \in Custom THEN Blank ELSE t[i].key
                     ELSE u[i] = t[i]
  BY <1>1, <1>2 DEF WipedTo
<1>4. \A i \in 1..GENRE : u[i].key = t[i].key
  <2> SUFFICES ASSUME NEW i \in 1..GENRE PROVE u[i].key = t[i].key  OBVIOUS
  <2>1. i \in Tag /\ i \notin Custom  BY Slots
  <2> QED BY <1>3, <2>1
<1>5. \A i \in Custom : IF t[i].key.s # Nil THEN u[i].key = Blank /\ u[i].val = Blank
                        ELSE u[i] = t[i]
  BY <1>3, Slots
<1>6. \A i \in Custom : u[i].key.s = Nil /\ u[i].key.id = 0 /\ u[i].val.id = 0
  BY <1>5, Texts0 DEF Tidy
<1>7. Tidy(u)
  <2>1. /\ u[TITLE].key.s = "title" /\ u[ARTIST].key.s = "artist"
        /\ u[GENRE].key.s \in {"genre", "format"}
        /\ \A j \in 1..GENRE : u[j].key.id = 0
    BY <1>4, Slots DEF Tidy
  <2> QED BY <1>6, <2>1, NamedIs DEF Tidy
<1> QED BY <1>3, <1>7 DEF u

LEMMA CutIs ==
  ASSUME NEW t \in TagsType, Tidy(t), NEW x
  PROVE  /\ x \in Cut(t) => \/ x = 0
                            \/ \E i \in Tag : /\ t[i].key.s # Nil
                                              /\ x = t[i].val.id \/ (i \in Custom /\ x = t[i].key.id)
         /\ \A i \in Tag : t[i].key.s # Nil =>
              t[i].val.id \in Cut(t) /\ (i \in Custom => t[i].key.id \in Cut(t))
<1>1. \A key : Freed(t, key, Blank) =
        IF FindTag(t, key) = 0 THEN {}
        ELSE {t[FindTag(t, key)].val.id}
               \cup (IF FindTag(t, key) \in Custom THEN {t[FindTag(t, key)].key.id} ELSE {})
  <2> Blank.s = Nil  BY Texts0
  <2> QED BY DEF Freed
<1>2. ASSUME NEW i \in Tag, t[i].key.s # Nil
      PROVE  Freed(t, t[i].key.s, Blank) =
               {t[i].val.id} \cup (IF i \in Custom THEN {t[i].key.id} ELSE {})
  <2>1. FindTag(t, t[i].key.s) = i  BY <1>2, TidyKey
  <2>2. i # 0  BY Slots
  <2> QED BY <1>1, <2>1, <2>2
<1>3. ASSUME NEW i \in Tag, t[i].key.s = Nil PROVE Freed(t, t[i].key.s, Blank) \subseteq {0}
  <2> DEFINE j == FindTag(t, Nil)
  <2>1. j = 0 \/ (j \in Custom /\ t[j].key.s = Nil)  BY FindTagIs, NamedIs, Zenon
  <2>2. Freed(t, Nil, Blank) = IF j = 0 THEN {}
          ELSE {t[j].val.id} \cup (IF j \in Custom THEN {t[j].key.id} ELSE {})
    BY <1>1, Zenon
  <2> HIDE DEF j
  <2>3. j # 0 => t[j].val.id = 0 /\ t[j].key.id = 0  BY <2>1 DEF Tidy
  <2> QED BY <1>3, <2>2, <2>3
<1>4. ASSUME x \in Cut(t)
      PROVE  \/ x = 0
             \/ \E i \in Tag : /\ t[i].key.s # Nil
                               /\ x = t[i].val.id \/ (i \in Custom /\ x = t[i].key.id)
  <2>1. PICK i \in Tag : x \in Freed(t, t[i].key.s, Blank)  BY <1>4 DEF Cut
  <2>2. CASE t[i].key.s = Nil  BY <1>3, <2>1, <2>2
  <2>3. CASE t[i].key.s # Nil  BY <1>2, <2>1, <2>3
  <2> QED BY <2>2, <2>3
<1>5. ASSUME NEW i \in Tag, t[i].key.s # Nil
      PROVE  t[i].val.id \in Cut(t) /\ (i \in Custom => t[i].key.id \in Cut(t))
  BY <1>2, <1>5 DEF Cut
<1> QED BY <1>4, <1>5

PurgedDisk(d) ==
  [d EXCEPT !.tags = Purged(d.tags),
            !.mus = [i \in 1..d.nb |-> [d.mus[i] EXCEPT !.tags = Purged(@)]]]

LEMMA PurgedDiskIs ==
  ASSUME NEW n \in Nat \ {0}, NEW d \in DskOf(n)
  PROVE  /\ PurgedDisk(d) \in DskOf(n)
         /\ \A j \in 0..n : TagsAt(PurgedDisk(d), j) = Purged(TagsAt(d, j))
         /\ \A i \in 1..n : PurgedDisk(d).mus[i].replay = d.mus[i].replay
<1> DEFINE mus == [i \in 1..n |-> [d.mus[i] EXCEPT !.tags = Purged(@)]]
           t == Purged(d.tags)
           e == [d EXCEPT !.tags = t, !.mus = mus]
<1>1. d.nb = n /\ d.mus \in [1..n -> TrackSet] /\ d.tags \in TagsType  BY DEF DskOf
<1>2. ASSUME NEW i \in 1..n
      PROVE  /\ mus[i] \in TrackSet /\ mus[i].tags = Purged(d.mus[i].tags)
             /\ mus[i].replay = d.mus[i].replay
  <2>0. d.mus[i] \in TrackSet
    <3> HIDE DEF mus, t, e
    <3> QED BY <1>1
  <2>1. d.mus[i] \in TrackSet /\ d.mus[i].tags \in TagsType
    <3> HIDE DEF mus, t, e
    <3> QED BY <2>0 DEF TrackSet
  <2> DEFINE u == Purged(d.mus[i].tags)
             w == [d.mus[i] EXCEPT !.tags = u]
  <2>2. u \in TagsType  BY <2>1, PurgedIs
  <2>3. mus[i] = w  OBVIOUS
  <2> HIDE DEF u, mus
  <2>4. w \in TrackSet /\ w.tags = u /\ w.replay = d.mus[i].replay  BY <2>1, <2>2 DEF TrackSet
  <2> HIDE DEF w
  <2> QED BY <2>3, <2>4 DEF u
<1>3. t \in TagsType  BY <1>1, PurgedIs
<1>4. PurgedDisk(d) = e  BY <1>1 DEF PurgedDisk
<1>5. mus = [i \in 1..n |-> mus[i]]  OBVIOUS
<1> HIDE DEF mus, t
<1>6. mus \in [1..n -> TrackSet]  BY <1>2, <1>5
<1>7. e \in DskOf(n) /\ e.tags = t /\ e.mus = mus  BY <1>3, <1>6 DEF DskOf
<1> HIDE DEF e
<1>8. ASSUME NEW j \in 0..n PROVE TagsAt(e, j) = Purged(TagsAt(d, j))
  <2>1. CASE j = 0  BY <1>7, <2>1 DEF TagsAt, t
  <2>2. CASE j # 0
    <3> j \in 1..n  BY <2>2
    <3> QED BY <1>2, <1>7, <2>2 DEF TagsAt
  <2> QED BY <2>1, <2>2
<1>9. \A i \in 1..n : e.mus[i].replay = d.mus[i].replay  BY <1>2, <1>7
<1> QED BY <1>4, <1>7, <1>8, <1>9

LEMMA PurgeSound ==
  ASSUME NEW n \in Nat \ {0}, NEW d \in DskOf(n), NEW S, Sound(n, d, S), 0 \notin S
  PROVE  Sound(n, PurgedDisk(d),
               KeptBlocks(PurgedDisk(d), S, UNION {Cut(TagsAt(d, j)) : j \in 0..n}, {}))
<1> DEFINE e == PurgedDisk(d)
           given == UNION {Cut(TagsAt(d, j)) : j \in 0..n}
           P == PlacesOf(n)
           a == Ids(d)
           b == Ids(e)
           Wiped(p) == /\ p[3] # "replay" /\ TagsAt(d, p[1])[p[2]].key.s # Nil
                       /\ p[3] = "key" => p[2] \in Custom
           W == {p \in P : Wiped(p)}
<1>1. /\ e \in DskOf(n)
      /\ \A j \in 0..n : TagsAt(e, j) = Purged(TagsAt(d, j))
      /\ \A i \in 1..n : e.mus[i].replay = d.mus[i].replay
  BY PurgedDiskIs
<1> HIDE DEF e
<1>2. \A j \in 0..n : TagsAt(d, j) \in TagsType /\ Tidy(TagsAt(d, j))
  BY DiskIs DEF Sound, AllTidy
<1>3. ASSUME NEW j \in 0..n, NEW i \in Tag
      PROVE  IF TagsAt(d, j)[i].key.s # Nil
             THEN /\ TagsAt(e, j)[i].val = Blank
                  /\ TagsAt(e, j)[i].key = IF i \in Custom THEN Blank ELSE TagsAt(d, j)[i].key
             ELSE TagsAt(e, j)[i] = TagsAt(d, j)[i]
  <2> DEFINE t == TagsAt(d, j)
  <2>1. t \in TagsType /\ Tidy(t) /\ TagsAt(e, j) = Purged(t)  BY <1>1, <1>2
  <2> HIDE DEF t
  <2>2. IF t[i].key.s # Nil
        THEN Purged(t)[i].val = Blank /\ Purged(t)[i].key = IF i \in Custom THEN Blank ELSE t[i].key
        ELSE Purged(t)[i] = t[i]
    BY <2>1, PurgedTidy
  <2> QED BY <2>1, <2>2 DEF t
<1>4. AllTidy(n, e)
  <2> SUFFICES ASSUME NEW j \in 0..n PROVE Tidy(TagsAt(e, j))  BY DEF AllTidy
  <2> QED BY <1>1, <1>2, PurgedTidy
<1>5. ASSUME NEW p \in P
      PROVE  /\ Wiped(p) => b[p] = 0 /\ a[p] \in given
             /\ ~Wiped(p) => b[p] = a[p]
  <2>1. a[p] = IdAt(d, p) /\ b[p] = IdAt(e, p)  BY PlaceIs, <1>1
  <2> DEFINE t == TagsAt(d, p[1])
             u == TagsAt(e, p[1])
             i == p[2]
  <2>2. CASE p[1] \in 0..n /\ p[2] \in Tag /\ p[3] = "key"
    <3>1. IdAt(d, p) = t[i].key.id /\ IdAt(e, p) = u[i].key.id
      <4> p[3] # "val" /\ p[3] # "replay"  BY <2>2
      <4> QED BY PlaceIs, <1>1
    <3>2. Wiped(p) <=> t[i].key.s # Nil /\ i \in Custom  BY <2>2
    <3>3. Wiped(p) => u[i].key = Blank  BY <1>3, <2>2, <3>2
    <3>4. ~Wiped(p) => u[i].key = t[i].key  BY <1>3, <2>2, <3>2
    <3>5. Wiped(p) => t[i].key.id \in Cut(t)
      <4>1. t \in TagsType /\ Tidy(t) /\ i \in Tag  BY <1>2, <2>2
      <4> HIDE DEF t, i
      <4>2. t[i].key.s # Nil => (i \in Custom => t[i].key.id \in Cut(t))  BY <4>1, CutIs
      <4> HIDE DEF Wiped
      <4> QED BY <3>2, <4>2
    <3> HIDE DEF Wiped
    <3> QED BY <2>1, <2>2, <3>1, <3>3, <3>4, <3>5, Texts0
  <2>3. CASE p[1] \in 0..n /\ p[2] \in Tag /\ p[3] = "val"
    <3>1. IdAt(d, p) = t[i].val.id /\ IdAt(e, p) = u[i].val.id
      <4> p[3] # "key" /\ p[3] # "replay"  BY <2>3
      <4> QED BY PlaceIs, <1>1
    <3>2. Wiped(p) <=> t[i].key.s # Nil
      <4> p[3] # "key" /\ p[3] # "replay"  BY <2>3
      <4> QED OBVIOUS
    <3>3. Wiped(p) => u[i].val = Blank  BY <1>3, <2>3, <3>2
    <3>4. ~Wiped(p) => u[i] = t[i]  BY <1>3, <2>3, <3>2
    <3>5. Wiped(p) => t[i].val.id \in Cut(t)
      <4>1. t \in TagsType /\ Tidy(t) /\ i \in Tag  BY <1>2, <2>3
      <4> HIDE DEF t, i
      <4>2. t[i].key.s # Nil => t[i].val.id \in Cut(t)  BY <4>1, CutIs
      <4> HIDE DEF Wiped
      <4> QED BY <3>2, <4>2
    <3> HIDE DEF Wiped
    <3> QED BY <2>1, <2>3, <3>1, <3>3, <3>4, <3>5, Texts0
  <2>4. CASE p[1] \in 1..n /\ p[3] = "replay"
    <3>1. IdAt(d, p) = d.mus[p[1]].replay.id /\ IdAt(e, p) = e.mus[p[1]].replay.id
      BY <2>4, Zenon DEF IdAt
    <3> QED BY <1>1, <2>1, <2>4, <3>1
  <2> QED BY <2>2, <2>3, <2>4, PlaceIs
<1>6. ASSUME NEW x \in given PROVE x = 0 \/ \E p \in W : a[p] = x
  <2>1. PICK j \in 0..n : x \in Cut(TagsAt(d, j))  OBVIOUS
  <2> DEFINE t == TagsAt(d, j)
  <2>2. t \in TagsType /\ Tidy(t)  BY <1>2
  <2>3. x = 0 \/ \E i \in Tag : t[i].key.s # Nil /\ (x = t[i].val.id \/ (i \in Custom /\ x = t[i].key.id))
    <3> HIDE DEF t
    <3> QED BY <2>1, <2>2, CutIs DEF t
  <2> SUFFICES ASSUME NEW i \in Tag, t[i].key.s # Nil,
                      x = t[i].val.id \/ (i \in Custom /\ x = t[i].key.id)
               PROVE  \E p \in W : a[p] = x
    BY <2>3
  <2>4. CASE x = t[i].val.id
    <3> DEFINE p == <<j, i, "val">>
    <3>1. p \in P  BY DEF PlacesOf
    <3>2. Wiped(p)  OBVIOUS
    <3>3. a[p] = IdAt(d, p) /\ p[1] = j /\ p[2] = i /\ p[3] = "val"  BY <3>1, PlaceIs
    <3>4. IdAt(d, p) = TagsAt(d, p[1])[p[2]].val.id
      <4> HIDE DEF p
      <4> p[3] # "key" /\ p[3] # "replay"  BY <3>3
      <4> QED BY <3>1, PlaceIs
    <3> HIDE DEF p, Wiped
    <3> QED BY <2>4, <3>1, <3>2, <3>3, <3>4
  <2>5. CASE i \in Custom /\ x = t[i].key.id
    <3> DEFINE p == <<j, i, "key">>
    <3>1. p \in P  BY DEF PlacesOf
    <3>2. Wiped(p)  BY <2>5
    <3>3. a[p] = IdAt(d, p) /\ p[1] = j /\ p[2] = i /\ p[3] = "key"  BY <3>1, PlaceIs
    <3>4. IdAt(d, p) = TagsAt(d, p[1])[p[2]].key.id
      <4> HIDE DEF p
      <4> p[3] # "val" /\ p[3] # "replay"  BY <3>3
      <4> QED BY <3>1, PlaceIs
    <3> HIDE DEF p, Wiped
    <3> QED BY <2>5, <3>1, <3>2, <3>3, <3>4
  <2> QED BY <2>4, <2>5
<1>7. Rewrites(P, a, b, W, given, {})
  <2> HIDE DEF P, a, b, Wiped, given
  <2>1. W \subseteq P /\ \A p \in W : a[p] \in given /\ b[p] = 0  BY <1>5
  <2>2. \A p \in P \ W : b[p] = a[p]  BY <1>5
  <2> HIDE DEF W
  <2> QED BY <1>6, <2>1, <2>2 DEF Rewrites
<1>8. Sound(n, e, KeptBlocks(e, S, given, {}))
  <2> HIDE DEF given, W
  <2> QED BY <1>1, <1>4, <1>7, RewriteSound DEF P, a, b
<1> QED BY <1>8 DEF e, given

-----------------------------------------------------------------------------
(* A file as it is read: no string of it is in a block of the heap.        *)
CleanText == [s : STRING, id : {0}]
CleanTags == {t \in [Tag -> [key : CleanText, val : CleanText]] : Tidy(t)}

LEMMA CleanAre ==
  /\ CleanText \subseteq Text /\ CleanTags \subseteq TagsType
  /\ \A s \in STRING : Str(s) \in CleanText
  /\ Blank \in CleanText
  /\ \A x \in Text : x.id = 0 => x \in CleanText
<1>1. CleanText \subseteq Text
  <2>1. {0} \subseteq Nat  OBVIOUS
  <2> QED BY <2>1 DEF CleanText, Text
<1>2. CleanTags \subseteq TagsType
  <2>1. [Tag -> [key : CleanText, val : CleanText]] \subseteq [Tag -> [key : Text, val : Text]]
    BY <1>1
  <2> QED BY <2>1 DEF CleanTags, TagsType
<1>3. \A s \in STRING : Str(s) \in CleanText  BY DEF Str, CleanText
<1>4. Blank \in CleanText
  <2> Nil \in STRING  BY Texts0
  <2> QED BY DEF Blank, CleanText
<1>5. \A x \in Text : x.id = 0 => x \in CleanText  BY DEF Text, CleanText
<1> QED BY <1>1, <1>2, <1>3, <1>4, <1>5

LEMMA CleanTagIs ==
  ASSUME NEW t \in CleanTags, NEW i \in Tag
  PROVE  /\ t[i].key \in CleanText /\ t[i].val \in CleanText
         /\ t[i].key.s \in STRING /\ t[i].val.s \in STRING
         /\ t[i].key.id = 0 /\ t[i].val.id = 0
BY DEF CleanTags, CleanText

LEMMA MadeClean ==
  ASSUME NEW t \in TagsType, Tidy(t), \A i \in Tag : t[i].key.id = 0 /\ t[i].val.id = 0
  PROVE  t \in CleanTags
<1>1. \A i \in Tag : t[i] \in [key : Text, val : Text]  BY DEF TagsType
<1>2. ASSUME NEW i \in Tag PROVE t[i] \in [key : CleanText, val : CleanText]
  <2>1. t[i].key \in CleanText /\ t[i].val \in CleanText  BY <1>1, CleanAre
  <2> QED BY <1>1, <2>1
<1>3. t = [i \in Tag |-> t[i]]  BY DEF TagsType
<1> QED BY <1>2, <1>3 DEF CleanTags

(* Giving a value to a slot, and setting a tag.                            *)
PutVal(t, i, v) == [t EXCEPT ![i].val = v]

LEMMA PutValClean ==
  ASSUME NEW t \in CleanTags, NEW i \in 1..GENRE, NEW v \in CleanText
  PROVE  PutVal(t, i, v) \in CleanTags
<1> DEFINE u == PutVal(t, i, v)
<1>1. i \in Tag /\ i \notin Custom  BY Slots
<1>2. t \in [Tag -> [key : CleanText, val : CleanText]] /\ Tidy(t)  BY DEF CleanTags
<1>3. /\ u \in [Tag -> [key : CleanText, val : CleanText]]
      /\ \A j \in Tag : u[j].key = t[j].key /\ (j # i => u[j] = t[j])
  BY <1>1, <1>2 DEF PutVal
<1> HIDE DEF u
<1>4. Tidy(u)
  <2>1. \A j \in Custom : u[j] = t[j]  BY <1>1, <1>3, Slots
  <2>2. \A j \in 1..GENRE : u[j].key = t[j].key  BY <1>3, Slots
  <2> QED BY <1>2, <2>1, <2>2, Slots DEF Tidy
<1> QED BY <1>3, <1>4 DEF CleanTags, u

LEMMA SetTagClean ==
  ASSUME NEW t \in CleanTags, NEW key \in CleanText, NEW val \in CleanText, key.s # Nil
  PROVE  SetTag(t, key, val) \in CleanTags
<1> DEFINE i == SlotSet(t, key.s, val)
           u == SetTag(t, key, val)
<1>1. t \in TagsType /\ Tidy(t) /\ key \in Text /\ val \in Text /\ key.id = 0 /\ val.id = 0
  <2>1. key.id = 0 /\ val.id = 0  BY DEF CleanText
  <2>2. Tidy(t)  BY DEF CleanTags
  <2> QED BY <2>1, <2>2, CleanAre
<1>2. /\ u \in TagsType
      /\ i = 0 => u = t
      /\ \A j \in Tag : j # i => u[j] = t[j]
      /\ i # 0 => /\ i \in Tag /\ u[i].val = val
                  /\ u[i].key = IF val.s # Nil /\ t[i].key.s = Nil THEN key
                                ELSE IF val.s = Nil /\ i \in Custom THEN Blank ELSE t[i].key
  BY <1>1, SetTagIs, Zenon
<1>3. Tidy(u)  BY <1>1, SetTagTidy
<1> HIDE DEF i, u
<1>4. \A j \in Tag : u[j].key.id = 0 /\ u[j].val.id = 0
  BY <1>1, <1>2, CleanTagIs, Texts0
<1> QED BY <1>2, <1>3, <1>4, MadeClean DEF u

LEMMA NewTagsClean ==
  ASSUME NEW genre \in {"genre", "format"}
  PROVE  NewTags(genre) \in CleanTags
<1> DEFINE t == NewTags(genre)
           k(i) == CASE i = TITLE -> Str("title") [] i = ARTIST -> Str("artist")
                     [] i = GENRE -> Str(genre) [] OTHER -> Blank
<1>1. t = [i \in Tag |-> [key |-> k(i), val |-> Blank]]  BY DEF NewTags
<1>2. TITLE # ARTIST /\ TITLE # GENRE /\ ARTIST # GENRE  BY DEF TITLE, ARTIST, GENRE
<1>3. /\ k(TITLE) = Str("title") /\ k(ARTIST) = Str("artist") /\ k(GENRE) = Str(genre)
      /\ \A i \in Custom : k(i) = Blank
  <2>1. k(TITLE) = Str("title")  BY <1>2
  <2>2. k(ARTIST) = Str("artist")  BY <1>2
  <2>3. k(GENRE) = Str(genre)  BY <1>2
  <2>4. ASSUME NEW i \in Custom PROVE k(i) = Blank
    <3> i # TITLE /\ i # ARTIST /\ i # GENRE  BY Slots
    <3> QED OBVIOUS
  <2> QED BY <2>1, <2>2, <2>3, <2>4
<1> HIDE DEF k
<1>4. \A i \in Tag : k(i) \in CleanText
  <2>1. {"title", "artist", genre} \subseteq STRING  BY LiteralAssumption
  <2>2. \A i \in Tag : i = TITLE \/ i = ARTIST \/ i = GENRE \/ i \in Custom  BY Slots
  <2> QED BY <1>3, <2>1, <2>2, CleanAre
<1>5. \A i \in Tag : t[i].key = k(i) /\ t[i].val = Blank  BY <1>1
<1>6. t \in [Tag -> [key : CleanText, val : CleanText]]  BY <1>1, <1>4, CleanAre
<1> HIDE DEF t
<1>7. Tidy(t)
  <2>1. \A i \in Custom : t[i].key = Blank /\ t[i].val = Blank  BY <1>3, <1>5, Slots
  <2>2. /\ t[TITLE].key = Str("title") /\ t[ARTIST].key = Str("artist") /\ t[GENRE].key = Str(genre)
    BY <1>3, <1>5, Slots
  <2>3. \A i \in 1..GENRE : t[i].key.id = 0  BY <2>2, Slots, Texts0
  <2> QED BY <2>1, <2>2, <2>3, Texts0, NamedIs DEF Tidy
<1> QED BY <1>6, <1>7 DEF CleanTags, t

(* The tags of a file.                                                     *)
Pairs == Seq((STRING \ {Nil}) \X STRING)

(* One after the other: u[i] are the tags when i of them are set.          *)
Adds(t, kvs, u) ==
  /\ u[0] = t
  /\ \A i \in 1..Len(kvs) : u[i] = SetTag(u[i - 1], Str(kvs[i][1]), Str(kvs[i][2]))
  /\ \A i \in 0..Len(kvs) : u[i] \in CleanTags

LEMMA WithTagsAdds ==
  ASSUME NEW t \in CleanTags, NEW kvs \in Pairs
  PROVE  \E u : Adds(t, kvs, u) /\ WithTags(t, kvs) = u[Len(kvs)]
<1> DEFINE N == Len(kvs)
           G(i, p) == SetTag(p, Str(kvs[i][1]), Str(kvs[i][2]))
           F == [i \in 1..N |-> [p \in CleanTags |-> G(i, p)]]
           P(x) == x = [i \in 0..N |-> IF i = 0 THEN t ELSE G(i, x[i - 1])]
           u == CHOOSE x : P(x)
<1>0. N \in Nat /\ \A i \in 1..N : kvs[i] \in (STRING \ {Nil}) \X STRING  BY DEF Pairs
<1>1. ASSUME NEW i \in 1..N, NEW p \in CleanTags PROVE G(i, p) \in CleanTags
  <2>1. kvs[i][1] \in STRING \ {Nil} /\ kvs[i][2] \in STRING  BY <1>0
  <2>2. Str(kvs[i][1]) \in CleanText /\ Str(kvs[i][2]) \in CleanText /\ Str(kvs[i][1]).s # Nil
    BY <2>1, CleanAre, Texts0
  <2> QED BY <2>2, SetTagClean
<1>2. WithTags(t, kvs) = u[N]  BY Zenon DEF WithTags
<1> HIDE DEF G, N
<1>3. F \in [1..N -> [CleanTags -> CleanTags]]  BY <1>1
<1>5. \E g : Walks(g, CleanTags, N, t, F)
  <2> HIDE DEF F
  <2> QED BY <1>0, <1>3, WalkIs
<1>6. PICK g : g \in [0..N -> CleanTags] /\ g[0] = t /\ \A i \in 1..N : g[i] = F[i][g[i - 1]]
  <2> HIDE DEF F
  <2> QED BY <1>5 DEF Walks
<1>7. P(g)
  <2>1. \A i \in 0..N : i # 0 => i \in 1..N /\ i - 1 \in 0..N  BY <1>0
  <2>2. \A i \in 1..N : g[i - 1] \in CleanTags  BY <1>0, <1>6
  <2>3. \A i \in 1..N : g[i] = G(i, g[i - 1])  BY <1>6, <2>2
  <2>4. g = [i \in 0..N |-> g[i]]  BY <1>6
  <2> QED BY <1>6, <2>1, <2>3, <2>4
<1>8. P(u)
  <2>1. \E x : P(x)  BY <1>7
  <2> HIDE DEF P
  <2> QED BY <2>1
<1> HIDE DEF u
<1>9. u[0] = t /\ \A i \in 1..N : u[i] = G(i, u[i - 1])  BY <1>0, <1>8
<1>10. \A i \in 0..N : u[i] \in CleanTags
  <2>1. \A i \in 1..N : u[i - 1] \in CleanTags => u[i] \in CleanTags  BY <1>1, <1>9
  <2>2. u[0] \in CleanTags  BY <1>9
  <2> QED BY <1>0, <2>1, <2>2, Stays
<1>11. Adds(t, kvs, u)  BY <1>9, <1>10 DEF Adds, G, N
<1> QED BY <1>2, <1>11 DEF N

LEMMA WithTagsClean ==
  ASSUME NEW t \in CleanTags, NEW kvs \in Pairs
  PROVE  WithTags(t, kvs) \in CleanTags
<1>1. PICK u : Adds(t, kvs, u) /\ WithTags(t, kvs) = u[Len(kvs)]  BY WithTagsAdds
<1>2. Len(kvs) \in 0..Len(kvs)  BY DEF Pairs
<1> QED BY <1>1, <1>2 DEF Adds

LEMMA TextsClean ==
  ASSUME NEW t \in CleanTags, NEW c, c.title \in STRING, c.artist \in STRING, c.cname \in STRING,
         c.tags \in Pairs
  PROVE  Texts(t, c) \in CleanTags
<1> DEFINE n1 == PutVal(t, TITLE, Str(c.title))
           named == PutVal(n1, ARTIST, Str(c.artist))
           by == SetTag(named, Str("composer"), Str(c.cname))
<1>1. n1 \in CleanTags  BY PutValClean, CleanAre, Slots
<1>2. named \in CleanTags
  <2> HIDE DEF n1
  <2> QED BY <1>1, PutValClean, CleanAre, Slots
<1>3. by \in CleanTags
  <2>1. Str("composer") \in CleanText /\ Str(c.cname) \in CleanText
    BY LiteralAssumption, CleanAre
  <2>2. Str("composer").s # Nil  BY Texts0 DEF Nil
  <2> HIDE DEF named
  <2> QED BY <1>2, <2>1, <2>2, SetTagClean
<1> DEFINE base == [t EXCEPT ![TITLE].val = Str(c.title), ![ARTIST].val = Str(c.artist)]
<1>4. named = base  BY DEF PutVal
<1>5. Texts(t, c) = WithTags(IF c.cname \in {Nil, c.artist} THEN named ELSE by, c.tags)
  <2>1. Texts(t, c) = WithTags(IF c.cname \in {Nil, c.artist} THEN base
                               ELSE SetTag(base, Str("composer"), Str(c.cname)), c.tags)
    BY Zenon DEF Texts
  <2> HIDE DEF named, base
  <2> QED BY <1>4, <2>1
<1> HIDE DEF named, by
<1>6. (IF c.cname \in {Nil, c.artist} THEN named ELSE by) \in CleanTags  BY <1>2, <1>3
<1> QED BY <1>5, <1>6, WithTagsClean

-----------------------------------------------------------------------------
(* The tracks of a file, as they are read and once they are timed.         *)
RawTrack ==
  [d0 : Int, a0 : Nat, pic : BOOLEAN, frq : 0..1000, time : BOOLEAN, loop : BOOLEAN,
   sfx : BOOLEAN, first_ms : Nat, first_fr : Nat, loops_ms : Nat, loops_fr : Nat, loops : Int,
   hw : SUBSET STRING, replay : CleanText, tags : CleanTags, data : STRING]
DoneTrack ==
  [d0 : Int, a0 : Nat, pic : BOOLEAN, frq : Hertz, time : BOOLEAN, loop : BOOLEAN,
   sfx : BOOLEAN, first_ms : Nat, first_fr : Nat, loops_ms : Nat, loops_fr : Nat, loops : Nat,
   hw : SUBSET STRING, replay : CleanText, tags : CleanTags, data : STRING]

LEMMA ChunkIs ==
  ASSUME NEW f \in FileSet, NEW i \in 1..Len(f.mus)
  PROVE  f.mus[i] \in ChunkSet /\ (f.fmt = "sndh" => f.mus[i].sec >= 0) /\ i \in Nat
BY DEF FileSet

LEMMA FlagsAre ==
  ASSUME NEW typ \in SUBSET STRING
  PROVE  /\ Flags(typ) \in SUBSET STRING
         /\ typ \cup (IF "XTD" \in typ THEN {} ELSE {"PSG", "DMA", "LMC"}) \in SUBSET STRING
<1> {"XTD", "PSG", "DMA", "LMC"} \subseteq STRING  BY LiteralAssumption
<1> QED BY DEF Flags

LEMMA ReadTrackIs ==
  ASSUME NEW f \in FileSet, NEW i \in 1..Len(f.mus)
  PROVE  ReadTrack(f, i) \in RawTrack /\ ReadTrack(f, i).data = f.mus[i].data
<1> DEFINE c == f.mus[i]
           sndh == f.fmt = "sndh"
           d0 == IF sndh THEN i ELSE c.d0
           loop == ~sndh /\ c.loopfr # Absent
           ms == IF sndh \/ c.sec \in 0..DAY THEN 1000 * c.sec ELSE 0
           fr == IF c.fr >= FR_MAX THEN 0 ELSE c.fr
           lfr == IF c.loopfr = Absent THEN 0 ELSE c.loopfr
           loops == IF sndh \/ c.loop < -1 THEN 0 ELSE c.loop
           hw == IF ~sndh THEN Flags(c.typ)
                 ELSE c.typ \cup (IF "XTD" \in c.typ THEN {} ELSE {"PSG", "DMA", "LMC"})
           tags == Texts(NewTags("genre"), c)
           replay == Str(c.replay)
           w == [d0 |-> d0, a0 |-> c.a0, pic |-> FALSE, frq |-> c.frq, time |-> FALSE,
                 loop |-> loop, sfx |-> c.sfx, first_ms |-> ms, first_fr |-> fr, loops_ms |-> 0,
                 loops_fr |-> lfr, loops |-> loops, hw |-> hw, replay |-> replay, tags |-> tags,
                 data |-> c.data]
<1>1. c \in ChunkSet /\ (sndh => c.sec >= 0) /\ i \in Nat  BY ChunkIs
<1>2. ReadTrack(f, i) = w  BY Zenon DEF ReadTrack
<1> HIDE DEF c, sndh
<1>3. /\ c.title \in STRING /\ c.artist \in STRING /\ c.cname \in STRING /\ c.tags \in Pairs
      /\ c.replay \in STRING /\ c.d0 \in Int /\ c.a0 \in Nat /\ c.frq \in 0..1000 /\ c.sec \in Int
      /\ c.fr \in Nat /\ c.loop \in Int /\ c.loopfr \in Nat \cup {Absent} /\ c.sfx \in BOOLEAN
      /\ c.typ \in SUBSET STRING /\ c.data \in STRING
  BY <1>1 DEF ChunkSet, Pairs
<1>4. tags \in CleanTags
  <2> NewTags("genre") \in CleanTags  BY NewTagsClean
  <2> QED BY <1>3, TextsClean
<1>5. d0 \in Int /\ loop \in BOOLEAN /\ fr \in Nat /\ lfr \in Nat /\ loops \in Int
  BY <1>1, <1>3
<1>6. ms \in Nat
  <2> DEFINE x == c.sec
  <2>1. x \in Int /\ (sndh => x >= 0)  BY <1>1, <1>3
  <2>2. ms = IF sndh \/ x \in 0..DAY THEN 1000 * x ELSE 0  OBVIOUS
  <2> HIDE DEF x, ms
  <2>3. CASE sndh \/ x \in 0..DAY
    <3> DAY \in Nat  BY DEF DAY
    <3>1. x \in Nat  BY <2>1, <2>3
    <3>2. 1000 * x \in Nat  BY <3>1
    <3> QED BY <2>2, <2>3, <3>2
  <2>4. CASE ~(sndh \/ x \in 0..DAY)
    <3>1. ms = 0  BY <2>2, <2>4
    <3> QED BY <3>1
  <2> QED BY <2>3, <2>4
<1>7. hw \in SUBSET STRING  BY <1>3, FlagsAre
<1>8. replay \in CleanText  BY <1>3, CleanAre
<1> HIDE DEF d0, loop, ms, fr, lfr, loops, hw, tags, replay
<1>9. w \in RawTrack /\ w.data = c.data
  <2> FALSE \in BOOLEAN /\ 0 \in Nat  OBVIOUS
  <2> QED BY <1>3, <1>4, <1>5, <1>6, <1>7, <1>8 DEF RawTrack
<1> QED BY <1>2, <1>9 DEF c

(* Times, loops and flags.                                                 *)
Content(m, w) == w.data = m.data /\ w.tags = m.tags

LEMMA DefaultsAre ==
  ASSUME NEW m \in RawTrack
  PROVE  WithDefaults(m) \in RawTrack /\ WithDefaults(m).frq # 0 /\ Content(m, WithDefaults(m))
<1> DEFINE pic == m.a0 = 0
           a0 == IF m.a0 = 0 THEN LOADADDR ELSE m.a0
           frq == IF m.frq = 0 THEN 50 ELSE m.frq
           w1 == [m EXCEPT !.pic = pic]
           w2 == [w1 EXCEPT !.a0 = a0]
           w3 == [w2 EXCEPT !.frq = frq]
<1>1. pic \in BOOLEAN /\ a0 \in Nat /\ frq \in 1..1000  BY DEF RawTrack, LOADADDR
<1>2. WithDefaults(m) = [m EXCEPT !.pic = pic, !.a0 = a0, !.frq = frq]  BY Zenon DEF WithDefaults
<1> HIDE DEF pic, a0, frq
<1>3. WithDefaults(m) = w3  BY <1>2
<1>4. w1 \in RawTrack /\ Content(m, w1)  BY <1>1 DEF RawTrack, Content
<1> HIDE DEF w1
<1>5. w2 \in RawTrack /\ Content(m, w2)  BY <1>1, <1>4 DEF RawTrack, Content
<1> HIDE DEF w2
<1>6. frq \in 0..1000 /\ frq # 0  BY <1>1
<1>7. w3 \in RawTrack /\ w3.frq # 0 /\ Content(m, w3)  BY <1>5, <1>6 DEF RawTrack, Content
<1> HIDE DEF w3
<1> QED BY <1>3, <1>7

LEMMA NoFrames ==
  ASSUME NEW hz \in Hertz
  PROVE  MsInFr(0, hz) = 0
BY DEF MsInFr, Hertz

LEMMA TimedIs ==
  ASSUME NEW m \in RawTrack, m.frq # 0
  PROVE  /\ Timed(m) \in RawTrack /\ Content(m, Timed(m)) /\ Timed(m).frq # 0
         /\ Timed(m).first_fr > 0 => Timed(m).first_ms > 0
<1> DEFINE time == m.first_fr > 0 \/ m.first_ms > 0
           ms == IF m.first_fr > 0 THEN FrToMs(m.first_fr, m.frq) ELSE m.first_ms
           fr == IF m.first_fr > 0 THEN m.first_fr ELSE MsInFr(m.first_ms, m.frq)
           w1 == [m EXCEPT !.time = time]
           w2 == [w1 EXCEPT !.first_ms = ms]
           w3 == [w2 EXCEPT !.first_fr = fr]
<1>1. m.first_fr \in Nat /\ m.first_ms \in Nat /\ m.frq \in Hertz
  <2> m.frq \in 0..1000  BY DEF RawTrack
  <2> QED BY DEF RawTrack, Hertz
<1>2. /\ FrToMs(m.first_fr, m.frq) \in Nat /\ MsInFr(m.first_ms, m.frq) \in Nat
      /\ m.first_fr > 0 => FrToMs(m.first_fr, m.frq) > 0
  <2> DEFINE x == m.first_fr
             y == m.first_ms
             f == m.frq
  <2>1. x \in Nat /\ y \in Nat /\ f \in Hertz  BY <1>1
  <2> HIDE DEF x, y, f, time, ms, fr, w1, w2, w3
  <2>2. FrToMs(x, f) \in Nat  BY <2>1, FrNat, Zenon
  <2>3. x > 0 => FrToMs(x, f) > 0  BY <2>1, FrPos, Zenon
  <2>4. MsInFr(y, f) \in Nat  BY <2>1, MsNat, Zenon
  <2> QED BY <2>2, <2>3, <2>4 DEF x, y, f
<1>3. time \in BOOLEAN /\ ms \in Nat /\ fr \in Nat /\ (fr > 0 => ms > 0)
  <2>1. m.first_ms = 0 => MsInFr(m.first_ms, m.frq) = 0  BY <1>1, NoFrames
  <2>2. CASE m.first_fr > 0  BY <1>1, <1>2, <2>2
  <2>3. CASE ~(m.first_fr > 0)  BY <1>1, <1>2, <2>1, <2>3
  <2> QED BY <2>2, <2>3
<1>4. Timed(m) = [m EXCEPT !.time = time, !.first_ms = ms, !.first_fr = fr]  BY Zenon DEF Timed
<1> HIDE DEF time, ms, fr
<1>5. Timed(m) = w3  BY <1>4
<1>6. w1 \in RawTrack /\ Content(m, w1) /\ w1.frq # 0  BY <1>3 DEF RawTrack, Content
<1> HIDE DEF w1
<1>7. w2 \in RawTrack /\ Content(m, w2) /\ w2.frq # 0 /\ w2.first_ms = ms
  BY <1>3, <1>6 DEF RawTrack, Content
<1> HIDE DEF w2
<1>8. /\ w3 \in RawTrack /\ Content(m, w3) /\ w3.frq # 0
      /\ w3.first_ms = ms /\ w3.first_fr = fr
  BY <1>3, <1>7 DEF RawTrack, Content
<1> HIDE DEF w3
<1> QED BY <1>3, <1>5, <1>8

LEMMA FromDbIs ==
  ASSUME NEW fmt, NEW i, NEW m \in RawTrack, m.frq # 0, m.first_fr > 0 => m.first_ms > 0
  PROVE  /\ FromDb(fmt, i, m) \in RawTrack /\ Content(m, FromDb(fmt, i, m))
         /\ FromDb(fmt, i, m).frq # 0
         /\ FromDb(fmt, i, m).first_fr > 0 => FromDb(fmt, i, m).first_ms > 0
<1> DEFINE fr == TimeDb[i].fr
           ms == FrToMs(fr, m.frq)
           hw == {"XTD"} \cup TimeDb[i].hw
           known == fmt = "sndh" /\ (~m.time \/ "XTD" \notin m.hw) /\ i \in DOMAIN TimeDb
           w1 == [m EXCEPT !.time = TRUE]
           w2 == [w1 EXCEPT !.first_fr = fr]
           w3 == [w2 EXCEPT !.first_ms = ms]
           w4 == [w3 EXCEPT !.hw = hw]
<1>1. CASE ~known
  <2>1. FromDb(fmt, i, m) = m  BY <1>1, Zenon DEF FromDb
  <2> QED BY <2>1 DEF Content
<1>2. CASE known
  <2>1. fr \in Nat /\ hw \in SUBSET STRING /\ m.frq \in Hertz
    <3>1. TimeDb[i] \in [fr : Nat, hw : SUBSET STRING]  BY <1>2, DiskAssumption
    <3>2. {"XTD"} \subseteq STRING  BY LiteralAssumption
    <3>3. m.frq \in 0..1000  BY DEF RawTrack
    <3> HIDE DEF known
    <3> QED BY <3>1, <3>2, <3>3 DEF Hertz
  <2>2. FromDb(fmt, i, m) = [m EXCEPT !.time = TRUE, !.first_fr = fr, !.first_ms = ms, !.hw = hw]
    BY <1>2, Zenon DEF FromDb
  <2> HIDE DEF fr, hw
  <2>3. ms \in Nat /\ (fr > 0 => ms > 0)
    <3>1. ms \in Nat  BY <2>1, FrNat, Zenon
    <3>2. fr > 0 => ms > 0  BY <2>1, FrPos, Zenon
    <3> QED BY <3>1, <3>2
  <2> HIDE DEF ms, known
  <2>4. FromDb(fmt, i, m) = w4  BY <2>2
  <2>5. w1 \in RawTrack /\ Content(m, w1) /\ w1.frq # 0
    <3> DEFINE yes == TRUE
    <3>1. yes \in BOOLEAN /\ w1 = [m EXCEPT !.time = yes]  OBVIOUS
    <3> HIDE DEF yes, w1
    <3>2. w1 \in RawTrack  BY <3>1 DEF RawTrack
    <3>3. w1.data = m.data /\ w1.tags = m.tags /\ w1.frq = m.frq  BY <3>1 DEF RawTrack
    <3> QED BY <3>2, <3>3, Zenon DEF Content
  <2> HIDE DEF w1
  <2>6. w2 \in RawTrack /\ Content(m, w2) /\ w2.frq # 0 /\ w2.first_fr = fr
    BY <2>1, <2>5 DEF RawTrack, Content
  <2> HIDE DEF w2
  <2>7. w3 \in RawTrack /\ Content(m, w3) /\ w3.frq # 0 /\ w3.first_fr = fr /\ w3.first_ms = ms
    BY <2>3, <2>6 DEF RawTrack, Content
  <2> HIDE DEF w3
  <2>8. /\ w4 \in RawTrack /\ Content(m, w4) /\ w4.frq # 0
        /\ w4.first_fr = fr /\ w4.first_ms = ms
    BY <2>1, <2>7 DEF RawTrack, Content
  <2> HIDE DEF w4
  <2> QED BY <2>3, <2>4, <2>8
<1> QED BY <1>1, <1>2

LEMMA WithLoopIs ==
  ASSUME NEW m \in RawTrack, m.frq # 0, m.first_fr > 0 => m.first_ms > 0
  PROVE  /\ WithLoop(m) \in RawTrack /\ Content(m, WithLoop(m)) /\ WithLoop(m).frq # 0
         /\ WithLoop(m).loops_fr > 0 => WithLoop(m).loops_ms > 0
<1> DEFINE ms == IF m.loop THEN FrToMs(m.loops_fr, m.frq) ELSE m.first_ms
           fr == IF m.loop THEN m.loops_fr ELSE m.first_fr
           w1 == [m EXCEPT !.loops_fr = fr]
           w2 == [w1 EXCEPT !.loops_ms = ms]
<1>1. /\ m.first_fr \in Nat /\ m.first_ms \in Nat /\ m.loops_fr \in Nat /\ m.frq \in Hertz
      /\ m.loop \in BOOLEAN
  <2> m.frq \in 0..1000  BY DEF RawTrack
  <2> QED BY DEF RawTrack, Hertz
<1>2. FrToMs(m.loops_fr, m.frq) \in Nat /\ (m.loops_fr > 0 => FrToMs(m.loops_fr, m.frq) > 0)
  <2> DEFINE x == m.loops_fr
             f == m.frq
  <2>1. x \in Nat /\ f \in Hertz  BY <1>1
  <2> HIDE DEF x, f, ms, fr, w1, w2
  <2>2. FrToMs(x, f) \in Nat  BY <2>1, FrNat, Zenon
  <2>3. x > 0 => FrToMs(x, f) > 0  BY <2>1, FrPos, Zenon
  <2> QED BY <2>2, <2>3 DEF x, f
<1>3. ms \in Nat /\ fr \in Nat /\ (fr > 0 => ms > 0)  BY <1>1, <1>2
<1>4. WithLoop(m) = w2
  <2>1. CASE m.loop
    <3>1. WithLoop(m) = [m EXCEPT !.loops_ms = ms] /\ fr = m.loops_fr  BY <2>1 DEF WithLoop
    <3> HIDE DEF ms, fr
    <3>2. w1 = m  BY <3>1 DEF RawTrack
    <3> QED BY <3>1, <3>2
  <2>2. CASE ~m.loop
    <3>1. WithLoop(m) = [m EXCEPT !.loops_fr = fr, !.loops_ms = ms]  BY <2>2 DEF WithLoop
    <3> HIDE DEF ms, fr
    <3> QED BY <3>1
  <2> QED BY <2>1, <2>2
<1> HIDE DEF ms, fr
<1>5. w1 \in RawTrack /\ Content(m, w1) /\ w1.frq # 0 /\ w1.loops_fr = fr
  BY <1>3 DEF RawTrack, Content
<1> HIDE DEF w1
<1>6. /\ w2 \in RawTrack /\ Content(m, w2) /\ w2.frq # 0
      /\ w2.loops_fr = fr /\ w2.loops_ms = ms
  BY <1>3, <1>5 DEF RawTrack, Content
<1> HIDE DEF w2
<1> QED BY <1>3, <1>4, <1>6

LEMMA GuessedIs ==
  ASSUME NEW m \in RawTrack, m.loops_ms > 0
  PROVE  GuessedLoops(m) \in Nat
<1> DEFINE a == m.first_ms
           b == m.loops_ms
           h == b \div 2
           q == (MIN_MS - a + h) \div b
           more == IF a < MIN_MS THEN q ELSE 0
<1>1. a \in Nat /\ b \in Nat \ {0} /\ MIN_MS \in Nat /\ MAX_LP \in Nat
  BY DiskAssumption DEF RawTrack
<1>2. GuessedLoops(m) = IF 1 + more > MAX_LP THEN MAX_LP ELSE 1 + more
  BY Zenon DEF GuessedLoops
<1> HIDE DEF a, b
<1>3. h \in Nat
  <2> 2 \in Nat \ {0}  OBVIOUS
  <2> QED BY <1>1, DivNat
<1> HIDE DEF h
<1>4. a < MIN_MS => q \in Nat
  <2> DEFINE x == MIN_MS - a + h
  <2>1. a < MIN_MS => x \in Nat  BY <1>1, <1>3
  <2> HIDE DEF x
  <2>2. a < MIN_MS => x \div b \in Nat  BY <1>1, <2>1, DivNat
  <2> QED BY <2>2 DEF x
<1> HIDE DEF q
<1>5. more \in Nat  BY <1>4
<1> HIDE DEF more
<1> QED BY <1>1, <1>2, <1>5

LEMMA LoopedIs ==
  ASSUME NEW m \in RawTrack, m.frq # 0, m.loops_fr > 0 => m.loops_ms > 0
  PROVE  Looped(m) \in DoneTrack /\ Content(m, Looped(m))
<1> DEFINE loops == CASE m.loops_fr = 0 -> 1
                      [] m.loops_fr # 0 /\ m.loops = 0 -> GuessedLoops(m)
                      [] m.loops_fr # 0 /\ m.loops > 0 -> m.loops
                      [] m.loops_fr # 0 /\ m.loops < 0 -> 0
           hw == IF m.hw = {} THEN {"PSG"} ELSE m.hw
           w1 == [m EXCEPT !.loops = loops]
           w2 == [w1 EXCEPT !.hw = hw]
<1>1. m.loops_fr \in Nat /\ m.loops_ms \in Nat /\ m.loops \in Int /\ m.hw \in SUBSET STRING
  BY DEF RawTrack
<1>2. loops \in Nat
  <2>1. m.loops_fr # 0 => GuessedLoops(m) \in Nat  BY <1>1, GuessedIs
  <2>2. CASE m.loops_fr = 0
    <3>1. loops = 1  BY <2>2
    <3> HIDE DEF loops
    <3> QED BY <3>1
  <2>3. CASE m.loops_fr # 0 /\ m.loops = 0
    <3> loops = GuessedLoops(m)  BY <2>3
    <3> QED BY <2>1, <2>3
  <2>4. CASE m.loops_fr # 0 /\ m.loops > 0
    <3> loops = m.loops  BY <1>1, <2>4
    <3> QED BY <1>1, <2>4
  <2>5. CASE m.loops_fr # 0 /\ m.loops < 0
    <3>1. loops = 0  BY <1>1, <2>5
    <3> HIDE DEF loops
    <3> QED BY <3>1
  <2> QED BY <1>1, <2>2, <2>3, <2>4, <2>5
<1>3. hw \in SUBSET STRING
  <2> {"PSG"} \subseteq STRING  BY LiteralAssumption
  <2> QED BY <1>1
<1>4. Looped(m) = [m EXCEPT !.loops = loops, !.hw = hw]  BY Zenon DEF Looped
<1> HIDE DEF loops, hw
<1>5. Looped(m) = w2  BY <1>4
<1>6. w1 \in RawTrack /\ w1.loops \in Nat /\ w1.frq # 0 /\ Content(m, w1)
  BY <1>2 DEF RawTrack, Content
<1> HIDE DEF w1
<1>7. w2 \in RawTrack /\ w2.loops \in Nat /\ w2.frq # 0 /\ Content(m, w2)
  BY <1>3, <1>6 DEF RawTrack, Content
<1> HIDE DEF w2
<1>8. w2 \in DoneTrack
  <2> \A x \in 0..1000 : x # 0 => x \in Hertz  BY DEF Hertz
  <2> QED BY <1>7 DEF RawTrack, DoneTrack
<1> QED BY <1>5, <1>7, <1>8

TimedTrack(fmt, i, m) == Looped(WithLoop(FromDb(fmt, i, Timed(WithDefaults(m)))))

LEMMA TimedTrackIs ==
  ASSUME NEW fmt, NEW i, NEW m \in RawTrack
  PROVE  TimedTrack(fmt, i, m) \in DoneTrack /\ Content(m, TimedTrack(fmt, i, m))
<1> DEFINE a == WithDefaults(m)
           b == Timed(a)
           c == FromDb(fmt, i, b)
           d == WithLoop(c)
           e == Looped(d)
<1>1. a \in RawTrack /\ a.frq # 0 /\ Content(m, a)  BY DefaultsAre
<1> HIDE DEF a
<1>2. b \in RawTrack /\ Content(a, b) /\ b.frq # 0 /\ (b.first_fr > 0 => b.first_ms > 0)
  BY <1>1, TimedIs
<1> HIDE DEF b
<1>3. c \in RawTrack /\ Content(b, c) /\ c.frq # 0 /\ (c.first_fr > 0 => c.first_ms > 0)
  BY <1>2, FromDbIs
<1> HIDE DEF c
<1>4. d \in RawTrack /\ Content(c, d) /\ d.frq # 0 /\ (d.loops_fr > 0 => d.loops_ms > 0)
  BY <1>3, WithLoopIs
<1> HIDE DEF d
<1>5. e \in DoneTrack /\ Content(d, e)  BY <1>4, LoopedIs
<1>6. TimedTrack(fmt, i, m) = e  BY Zenon DEF TimedTrack, a, b, c, d
<1> HIDE DEF e
<1> QED BY <1>1, <1>2, <1>3, <1>4, <1>5, <1>6 DEF Content

-----------------------------------------------------------------------------
(* What valid() does with the tags.                                        *)
LEMMA SplitIs ==
  ASSUME NEW s \in DOMAIN Split
  PROVE  Str(Split[s][1]) \in CleanText /\ Str(Split[s][2]) \in CleanText
<1>1. Split[s] \in STRING \X STRING  BY DiskAssumption
<1>2. Split[s][1] \in STRING /\ Split[s][2] \in STRING  BY <1>1
<1> QED BY <1>2, CleanAre

LEMMA KeysAre ==
  /\ Str("aka") \in CleanText /\ Str("aka").s # Nil
  /\ Str("year") \in CleanText /\ Str("year").s # Nil
  /\ Str("n/a") \in CleanText
<1>1. {"aka", "year", "n/a"} \subseteq STRING  BY LiteralAssumption
<1>2. "aka" # Nil /\ "year" # Nil  BY DEF Nil
<1> QED BY <1>1, <1>2, CleanAre, Texts0

LEMMA DecodeAkaClean ==
  ASSUME NEW t \in CleanTags
  PROVE  DecodeAka(t) \in CleanTags
<1> DEFINE xy == Split[t[ARTIST].val.s]
           u == PutVal(t, ARTIST, Str(xy[1]))
<1>1. CASE ~AkaSplits(t)  BY <1>1 DEF DecodeAka
<1>2. CASE AkaSplits(t)
  <2>1. t[ARTIST].val.s \in DOMAIN Split  BY <1>2 DEF AkaSplits
  <2>2. Str(xy[1]) \in CleanText /\ Str(xy[2]) \in CleanText  BY <2>1, SplitIs
  <2>3. DecodeAka(t) = SetTag(u, Str("aka"), Str(xy[2]))  BY <1>2, Zenon DEF DecodeAka, PutVal
  <2> HIDE DEF xy
  <2>4. u \in CleanTags  BY <2>2, PutValClean, Slots
  <2> HIDE DEF u
  <2> QED BY <2>2, <2>3, <2>4, SetTagClean, KeysAre
<1> QED BY <1>1, <1>2

LEMMA YearlessClean ==
  ASSUME NEW t \in CleanTags, YearAt(t) # {}
  PROVE  Yearless(t) \in CleanTags /\ YearOf(t) \in CleanText
<1> DEFINE S == YearAt(t)
           i == Least(S)
           v == Str(Split[t[i].val.s][1])
<1>1. S \in SUBSET Nat /\ S # {} /\ S \subseteq {TITLE, ARTIST}
      /\ \A k \in S : t[k].val.s \in DOMAIN Split
  BY DEF YearAt, TITLE, ARTIST
<1>2. Yearless(t) = PutVal(t, i, v) /\ YearOf(t) = Str(Split[t[i].val.s][2])
  BY Zenon DEF Yearless, YearOf, PutVal
<1> HIDE DEF S
<1>3. i \in S  BY <1>1, LeastIs
<1> HIDE DEF i
<1>4. i \in 1..GENRE /\ t[i].val.s \in DOMAIN Split  BY <1>1, <1>3, Slots
<1>5. v \in CleanText /\ Str(Split[t[i].val.s][2]) \in CleanText  BY <1>4, SplitIs
<1> HIDE DEF v
<1> QED BY <1>2, <1>4, <1>5, PutValClean

LEMMA DiskDecodedClean ==
  ASSUME NEW fmt, NEW t \in CleanTags
  PROVE  DiskDecoded(fmt, t) \in CleanTags
<1>1. CASE fmt = "sc68"  BY <1>1, DecodeAkaClean DEF DiskDecoded
<1>2. CASE fmt # "sc68" /\ GivesYear(t, t)
  <2>1. Yearless(t) \in CleanTags /\ YearOf(t) \in CleanText  BY <1>2, YearlessClean DEF GivesYear
  <2>2. SetTag(Yearless(t), Str("year"), YearOf(t)) \in CleanTags
    BY <2>1, SetTagClean, KeysAre
  <2> QED BY <1>2, <2>2 DEF DiskDecoded
<1>3. CASE fmt # "sc68" /\ ~GivesYear(t, t)  BY <1>3 DEF DiskDecoded
<1> QED BY <1>1, <1>2, <1>3

LEMMA AliasClean ==
  ASSUME NEW t \in CleanTags, NEW alias \in CleanText
  PROVE  WithAlias(t, alias) \in CleanTags /\ Alias(t) \in CleanText
<1>1. WithAlias(t, alias) \in CleanTags
  <2>1. SetTag(t, Str("aka"), alias) \in CleanTags  BY SetTagClean, KeysAre
  <2> QED BY <2>1 DEF WithAlias
<1>2. TagOf(t, "aka") \in STRING
  <2> DEFINE i == FindTag(t, "aka")
  <2>1. TagOf(t, "aka") = IF i = 0 THEN Nil ELSE t[i].val.s  BY Zenon DEF TagOf
  <2>2. i \in Tag \cup {0}  BY FindsFlat, NamedIs, Slots
  <2> HIDE DEF i
  <2> QED BY <2>1, <2>2, CleanTagIs, Texts0
<1> QED BY <1>1, <1>2, CleanAre DEF Alias

(* From a track to the next.                                               *)
Carried ==
  [title : CleanText, artist : CleanText, alias : CleanText, data : STRING, dtags : CleanTags,
   mus : Seq(DoneTrack)]

LEMMA TitledClean ==
  ASSUME NEW a \in Carried, NEW t \in CleanTags, NEW hw
  PROVE  Genred(hw, Titled(a, t)) \in CleanTags
<1> DEFINE u == Titled(a, t)
           g == Str(IF "AGA" \in hw THEN "Amiga chiptune" ELSE "Atari-ST chiptune")
<1>1. a.title \in CleanText  BY DEF Carried
<1>2. PutVal(t, TITLE, a.title) \in CleanTags  BY <1>1, PutValClean, Slots
<1>3. u \in CleanTags  BY <1>2 DEF Titled, PutVal
<1> HIDE DEF u
<1>4. g \in CleanText  BY LiteralAssumption, CleanAre
<1> HIDE DEF g
<1>5. PutVal(u, GENRE, g) \in CleanTags  BY <1>3, <1>4, PutValClean, Slots
<1>6. Genred(hw, u) = IF u[GENRE].val.s # Nil THEN u ELSE PutVal(u, GENRE, g)
  BY Zenon DEF Genred, PutVal, g
<1> QED BY <1>3, <1>5, <1>6 DEF u

LEMMA SignedClean ==
  ASSUME NEW fmt, NEW a \in Carried, NEW t \in CleanTags
  PROVE  Signed(fmt, a, t) \in CleanTags
<1>1. CASE t[ARTIST].val.s = Nil
  <2> DEFINE u == PutVal(t, ARTIST, a.artist)
  <2>1. a.artist \in CleanText /\ a.alias \in CleanText  BY DEF Carried
  <2>2. u \in CleanTags  BY <2>1, PutValClean, Slots
  <2>3. Signed(fmt, a, t) = WithAlias(u, a.alias)  BY <1>1 DEF Signed, PutVal
  <2> HIDE DEF u
  <2> QED BY <2>1, <2>2, <2>3, AliasClean
<1>2. CASE t[ARTIST].val.s # Nil /\ fmt = "sc68"
  <2>1. Signed(fmt, a, t) = DecodeAka(t)  BY <1>2 DEF Signed
  <2> QED BY <2>1, DecodeAkaClean
<1>3. CASE t[ARTIST].val.s # Nil /\ fmt # "sc68"
  <2>1. Signed(fmt, a, t) = IF GivesYear(a.dtags, t) THEN Yearless(t) ELSE t
    BY <1>3 DEF Signed
  <2>2. GivesYear(a.dtags, t) => Yearless(t) \in CleanTags  BY YearlessClean DEF GivesYear
  <2> QED BY <2>1, <2>2
<1> QED BY <1>1, <1>2, <1>3

LEMMA AppendTo ==
  ASSUME NEW S, NEW s \in Seq(S), NEW e \in S
  PROVE  /\ Append(s, e) \in Seq(S) /\ Len(Append(s, e)) = Len(s) + 1
         /\ Append(s, e)[Len(s) + 1] = e
         /\ \A i \in 1..Len(s) : Append(s, e)[i] = s[i]
OBVIOUS

(* The music data a track ends up with.                                    *)
DataAfter(a, m) == IF m.data = Nil THEN a.data ELSE m.data

HandedOver(b, a, m) ==
  /\ b \in Carried /\ b.data = DataAfter(a, m)
  /\ \E w \in DoneTrack : w.data = DataAfter(a, m) /\ b.mus = Append(a.mus, w)

LEMMA HandOverIs ==
  ASSUME NEW fmt, NEW a \in Carried, NEW m \in DoneTrack, NEW t \in CleanTags,
         NEW signed \in CleanTags
  PROVE  HandedOver(HandOver(fmt, a, m, t, signed), a, m)
<1> DEFINE own == t[ARTIST].val.s # Nil
           data == DataAfter(a, m)
           w1 == [m EXCEPT !.tags = signed]
           w == [w1 EXCEPT !.data = data]
           title == signed[TITLE].val
           artist == IF own THEN signed[ARTIST].val ELSE a.artist
           alias == IF own THEN Alias(signed) ELSE a.alias
           dtags == IF own /\ fmt = "sndh" /\ GivesYear(a.dtags, t)
                    THEN SetTag(a.dtags, Str("year"), YearOf(t)) ELSE a.dtags
           b == [title |-> title, artist |-> artist, alias |-> alias, data |-> data,
                 dtags |-> dtags, mus |-> Append(a.mus, w)]
<1>1. /\ a.artist \in CleanText /\ a.alias \in CleanText /\ a.data \in STRING
      /\ a.dtags \in CleanTags /\ a.mus \in Seq(DoneTrack)
  BY DEF Carried
<1>2. data \in STRING
  <2> m.data \in STRING  BY DEF DoneTrack
  <2> QED BY <1>1 DEF DataAfter
<1>3. title \in CleanText /\ artist \in CleanText
  <2> TITLE \in Tag /\ ARTIST \in Tag  BY Slots
  <2> QED BY <1>1, CleanTagIs
<1>4. alias \in CleanText
  <2> Alias(signed) \in CleanText  BY <1>1, AliasClean
  <2> QED BY <1>1
<1>5. dtags \in CleanTags
  <2>1. GivesYear(a.dtags, t) => YearOf(t) \in CleanText  BY YearlessClean DEF GivesYear
  <2>2. GivesYear(a.dtags, t) => SetTag(a.dtags, Str("year"), YearOf(t)) \in CleanTags
    BY <1>1, <2>1, SetTagClean, KeysAre
  <2> QED BY <1>1, <2>2
<1>6. HandOver(fmt, a, m, t, signed) =
        [title |-> title, artist |-> artist, alias |-> alias, data |-> data, dtags |-> dtags,
         mus |-> Append(a.mus, [m EXCEPT !.tags = signed, !.data = data])]
  BY Zenon DEF HandOver, DataAfter
<1> HIDE DEF data, title, artist, alias, dtags
<1>7. w1 \in DoneTrack  BY DEF DoneTrack
<1>8. w = [m EXCEPT !.tags = signed, !.data = data]  OBVIOUS
<1> HIDE DEF w1
<1>9. w \in DoneTrack /\ w.data = data  BY <1>2, <1>7 DEF DoneTrack
<1>10. HandOver(fmt, a, m, t, signed) = b
  <2> HIDE DEF w
  <2> QED BY <1>6, <1>8
<1> HIDE DEF w
<1>11. Append(a.mus, w) \in Seq(DoneTrack)  BY <1>1, <1>9, AppendTo
<1>12. b \in Carried /\ b.data = data /\ b.mus = Append(a.mus, w)
  BY <1>2, <1>3, <1>4, <1>5, <1>11 DEF Carried
<1> HIDE DEF b
<1> QED BY <1>9, <1>10, <1>12 DEF data, HandedOver

LEMMA InheritIs ==
  ASSUME NEW fmt, NEW a \in Carried, NEW i, NEW m \in RawTrack
  PROVE  HandedOver(Inherit(fmt, a, i, m), a, m)
<1> DEFINE n == TimedTrack(fmt, i, m)
           t == Genred(n.hw, Titled(a, n.tags))
           signed == Signed(fmt, a, t)
<1>1. n \in DoneTrack /\ n.data = m.data  BY TimedTrackIs DEF Content
<1>2. Inherit(fmt, a, i, m) = HandOver(fmt, a, n, t, signed)
  BY Zenon DEF Inherit, InheritTimed, InheritWith, TimedTrack
<1> HIDE DEF n
<1>3. n.tags \in CleanTags  BY <1>1 DEF DoneTrack
<1>4. t \in CleanTags  BY <1>3, TitledClean
<1> HIDE DEF t
<1>5. signed \in CleanTags  BY <1>4, SignedClean
<1> HIDE DEF signed
<1>6. HandedOver(HandOver(fmt, a, n, t, signed), a, n)  BY <1>1, <1>4, <1>5, HandOverIs
<1>7. DataAfter(a, n) = DataAfter(a, m)  BY <1>1 DEF DataAfter
<1> QED BY <1>2, <1>6, <1>7 DEF HandedOver

FullTrack == {w \in DoneTrack : w.data # Nil}

LEMMA FullTrackIs ==
  ASSUME NEW w \in FullTrack
  PROVE  w \in TrackSet /\ w.tags \in CleanTags /\ w.replay \in CleanText /\ w.hw \in SUBSET STRING
BY CleanAre DEF FullTrack, DoneTrack, TrackSet

(* The tracks in turn: what is carried before and after each.              *)
Turns(fmt, N, mus, first, u) ==
  /\ u[0] = first
  /\ \A i \in 1..N : u[i] = Inherit(fmt, u[i - 1], i, mus[i])

LEMMA InheritTurns ==
  ASSUME NEW fmt, NEW N \in Nat \ {0}, NEW mus \in [1..N -> RawTrack], NEW first \in Carried
  PROVE  \E u : /\ Turns(fmt, N, mus, first, u) /\ InheritAll(fmt, mus, first) = u[N]
                /\ \A i \in 0..N : u[i] \in Carried
<1> DEFINE G(i, p) == Inherit(fmt, p, i, mus[i])
           F == [i \in 1..N |-> [p \in Carried |-> G(i, p)]]
           P(x) == x = [i \in 0..N |-> IF i = 0 THEN first ELSE G(i, x[i - 1])]
           u == CHOOSE x : P(x)
<1>1. ASSUME NEW i \in 1..N, NEW p \in Carried PROVE G(i, p) \in Carried
  <2>1. HandedOver(Inherit(fmt, p, i, mus[i]), p, mus[i])  BY InheritIs
  <2> QED BY <2>1 DEF HandedOver
<1>2. Len(mus) = N  BY TracksSeq
<1>3. InheritAll(fmt, mus, first) = u[N]  BY <1>2, Zenon DEF InheritAll
<1> HIDE DEF G
<1>4. F \in [1..N -> [Carried -> Carried]]  BY <1>1
<1>5. \E g : Walks(g, Carried, N, first, F)
  <2> HIDE DEF F
  <2>1. N \in Nat  OBVIOUS
  <2> QED BY <1>4, <2>1, WalkIs
<1>6. PICK g : g \in [0..N -> Carried] /\ g[0] = first /\ \A i \in 1..N : g[i] = F[i][g[i - 1]]
  <2> HIDE DEF F
  <2> QED BY <1>5 DEF Walks
<1>7. P(g)
  <2>1. \A i \in 0..N : i # 0 => i \in 1..N /\ i - 1 \in 0..N  OBVIOUS
  <2>2. \A i \in 1..N : g[i - 1] \in Carried  BY <1>6
  <2>3. \A i \in 1..N : g[i] = G(i, g[i - 1])  BY <1>6, <2>2
  <2>4. g = [i \in 0..N |-> g[i]]  BY <1>6
  <2> QED BY <1>6, <2>1, <2>3, <2>4
<1>8. P(u)
  <2>1. \E x : P(x)  BY <1>7
  <2> HIDE DEF P
  <2> QED BY <2>1
<1> HIDE DEF u
<1>9. u[0] = first /\ \A i \in 1..N : u[i] = G(i, u[i - 1])  BY <1>8
<1>10. \A i \in 0..N : u[i] \in Carried
  <2>1. \A i \in 1..N : u[i - 1] \in Carried => u[i] \in Carried  BY <1>1, <1>9
  <2>2. u[0] \in Carried /\ N \in Nat  BY <1>9
  <2> QED BY <2>1, <2>2, Stays
<1>11. Turns(fmt, N, mus, first, u)  BY <1>9 DEF G, Turns
<1> QED BY <1>3, <1>10, <1>11

LEMMA InheritAllIs ==
  ASSUME NEW fmt, NEW N \in Nat \ {0}, NEW mus \in [1..N -> RawTrack], mus[1].data # Nil,
         NEW first \in Carried, first.mus = <<>>
  PROVE  /\ InheritAll(fmt, mus, first).dtags \in CleanTags
         /\ InheritAll(fmt, mus, first).mus \in [1..N -> FullTrack]
<1>3. PICK u : /\ Turns(fmt, N, mus, first, u) /\ InheritAll(fmt, mus, first) = u[N]
               /\ \A i \in 0..N : u[i] \in Carried
  BY InheritTurns
<1>9. u[0] = first /\ \A i \in 1..N : u[i] = Inherit(fmt, u[i - 1], i, mus[i])
  BY <1>3 DEF Turns
<1> DEFINE Good(n) == /\ u[n] \in Carried /\ Len(u[n].mus) = n
                      /\ \A i \in 1..n : u[n].mus[i].data # Nil
                      /\ n > 0 => u[n].data # Nil
           T == {n \in Nat : Good(n)}
<1>10. 0 \in T
  <2>1. Good(0)  BY <1>9
  <2> QED BY <2>1
<1>11. ASSUME NEW n \in T, n < N PROVE n + 1 \in T
  <2>1. n \in Nat /\ n + 1 \in 1..N /\ (n + 1) - 1 = n  BY <1>11
  <2> DEFINE a == u[n]
             b == u[n + 1]
             m == mus[n + 1]
  <2>2. b = Inherit(fmt, a, n + 1, m)  BY <1>9, <2>1
  <2>3. a \in Carried /\ Len(a.mus) = n /\ (\A i \in 1..n : a.mus[i].data # Nil)
        /\ (n > 0 => a.data # Nil)
    OBVIOUS
  <2>4. n = 0 => m.data # Nil  OBVIOUS
  <2>5. HandedOver(b, a, m)
    <3>1. m \in RawTrack  BY <2>1
    <3> HIDE DEF a, b, m
    <3> QED BY <2>2, <2>3, <3>1, InheritIs
  <2> HIDE DEF a, b, m
  <2>6. DataAfter(a, m) # Nil
    <3>1. CASE n = 0  BY <2>4, <3>1 DEF DataAfter
    <3>2. CASE n > 0  BY <2>3, <3>2 DEF DataAfter
    <3> QED BY <2>1, <3>1, <3>2
  <2>7. PICK w \in DoneTrack : w.data = DataAfter(a, m) /\ b.mus = Append(a.mus, w)
    BY <2>5 DEF HandedOver
  <2>8. a.mus \in Seq(DoneTrack)  BY <2>3 DEF Carried
  <2>9. /\ Len(b.mus) = n + 1 /\ b.mus[n + 1] = w
        /\ \A i \in 1..n : b.mus[i] = a.mus[i]
    BY <2>3, <2>7, <2>8, AppendTo
  <2>10. \A i \in 1..(n + 1) : i \in 1..n \/ i = n + 1  BY <2>1
  <2>11. b \in Carried /\ b.data # Nil  BY <2>5, <2>6 DEF HandedOver
  <2>12. \A i \in 1..(n + 1) : b.mus[i].data # Nil  BY <2>3, <2>6, <2>7, <2>9, <2>10
  <2>13. Good(n + 1)  BY <2>9, <2>11, <2>12 DEF b
  <2> HIDE DEF Good
  <2> QED BY <2>1, <2>13
<1>12. N \in T
  <2>1. T \in SUBSET Nat /\ N \in Nat  OBVIOUS
  <2>2. \A n \in 0..N : n \in T
    <3> HIDE DEF T
    <3> QED BY <1>10, <1>11, <2>1, UpTo
  <2> QED BY <2>2
<1> DEFINE c == u[N]
<1>13. c \in Carried /\ Len(c.mus) = N /\ \A i \in 1..N : c.mus[i].data # Nil  BY <1>12
<1> HIDE DEF c
<1>14. c.mus \in Seq(DoneTrack) /\ c.dtags \in CleanTags  BY <1>13 DEF Carried
<1>15. c.mus \in [1..N -> FullTrack]
  <2>1. c.mus \in [1..N -> DoneTrack]  BY <1>13, <1>14
  <2> QED BY <1>13, <2>1 DEF FullTrack
<1> QED BY <1>3, <1>14, <1>15 DEF c

(* A disk none of whose strings is in the heap.                            *)
Clean(n, d) ==
  /\ d \in DskOf(n) /\ d.tags \in CleanTags
  /\ \A i \in 1..n : d.mus[i].tags \in CleanTags /\ d.mus[i].replay \in CleanText

LEMMA CleanSound ==
  ASSUME NEW n \in Nat \ {0}, NEW d, Clean(n, d)
  PROVE  Sound(n, d, {})
<1>1. d \in DskOf(n)  BY DEF Clean
<1>2. ASSUME NEW j \in 0..n PROVE TagsAt(d, j) \in CleanTags
  <2>1. j = 0 \/ j \in 1..n  OBVIOUS
  <2> QED BY <2>1 DEF TagsAt, Clean
<1>3. AllTidy(n, d)  BY <1>2 DEF AllTidy, CleanTags
<1>4. ASSUME NEW p \in PlacesOf(n) PROVE Ids(d)[p] = 0
  <2>1. Ids(d)[p] = IdAt(d, p)  BY <1>1, PlaceIs
  <2>2. \/ /\ p[1] \in 0..n /\ p[2] \in Tag
           /\ IdAt(d, p) = TagsAt(d, p[1])[p[2]].key.id \/ IdAt(d, p) = TagsAt(d, p[1])[p[2]].val.id
        \/ p[1] \in 1..n /\ IdAt(d, p) = d.mus[p[1]].replay.id
    BY <1>1, PlaceIs
  <2>3. CASE p[1] \in 0..n /\ p[2] \in Tag
    <3>1. TagsAt(d, p[1])[p[2]].key.id = 0 /\ TagsAt(d, p[1])[p[2]].val.id = 0
      BY <1>2, <2>3, CleanTagIs
    <3>2. p[1] \in 1..n => d.mus[p[1]].replay.id = 0  BY DEF Clean, CleanText
    <3> QED BY <2>1, <2>2, <3>1, <3>2
  <2>4. CASE p[1] \in 1..n /\ IdAt(d, p) = d.mus[p[1]].replay.id
    <3>1. d.mus[p[1]].replay.id = 0  BY <2>4 DEF Clean, CleanText
    <3> QED BY <2>1, <2>4, <3>1
  <2> QED BY <2>2, <2>3, <2>4
<1>5. Owned(Places(d), Ids(d), {})  BY <1>1, <1>4, PlaceIs DEF Owned
<1> QED BY <1>1, <1>3, <1>5 DEF Sound

LEMMA DiskSignedClean ==
  ASSUME NEW t \in CleanTags, NEW by \in CleanTags
  PROVE  DiskSigned(t, by) \in CleanTags
<1> DEFINE u == PutVal(t, ARTIST, by[ARTIST].val)
<1>1. by[ARTIST].val \in CleanText  BY CleanTagIs, Slots
<1>2. u \in CleanTags  BY <1>1, PutValClean, Slots
<1>3. DiskSigned(t, by) = IF t[ARTIST].val.s # Nil THEN t ELSE WithAlias(u, Alias(by))
  BY Zenon DEF DiskSigned, PutVal
<1> HIDE DEF u
<1>4. Alias(by) \in CleanText  BY AliasClean, CleanAre
<1>5. WithAlias(u, Alias(by)) \in CleanTags  BY <1>2, <1>4, AliasClean
<1> QED BY <1>3, <1>5

LEMMA CompletedIs ==
  ASSUME NEW n \in Nat \ {0}, NEW d, NEW tags0, NEW mus0, NEW hw0, NEW def0,
         d = [nb |-> n, def |-> def0, ms |-> 0, hw |-> hw0, tags |-> tags0, mus |-> mus0],
         NEW all, all.dtags \in CleanTags, all.mus \in [1..n -> FullTrack],
         NEW def \in 0..(n - 1)
  PROVE  Clean(n, Completed(d, all, def))
<1> DEFINE tags == DiskSigned(all.dtags, all.mus[def + 1].tags)
           mus == all.mus
           ms == IF \A i \in 1..n : mus[i].loops > 0 THEN TotalMs(mus) ELSE 0
           hw == UNION {mus[i].hw : i \in 1..n}
           e == [nb |-> n, def |-> def, ms |-> ms, hw |-> hw, tags |-> tags, mus |-> mus]
<1>1. d.nb = n  OBVIOUS
<1>2. Completed(d, all, def) = [d EXCEPT !.def = def, !.tags = tags, !.mus = mus, !.ms = ms, !.hw = hw]
  BY <1>1 DEF Completed
<1>3. def + 1 \in 1..n  OBVIOUS
<1>4. \A i \in 1..n : /\ mus[i] \in TrackSet /\ mus[i].tags \in CleanTags
                      /\ mus[i].replay \in CleanText /\ mus[i].hw \in SUBSET STRING
  BY FullTrackIs
<1>5. tags \in CleanTags
  <2>1. all.mus[def + 1].tags \in CleanTags  BY <1>3, <1>4
  <2> QED BY <2>1, DiskSignedClean
<1> HIDE DEF tags
<1>6. mus \in [1..n -> TrackSet]  BY <1>4
<1> HIDE DEF mus
<1>7. ms \in Nat
  <2>1. (\A i \in 1..n : mus[i].loops > 0) => TotalMs(mus) \in Nat  BY <1>6, TotalIs
  <2> QED BY <2>1
<1>8. hw \in SUBSET STRING  BY <1>4
<1> HIDE DEF ms, hw
<1>9. Completed(d, all, def) = e  BY <1>2
<1>10. tags \in TagsType  BY <1>5, CleanAre
<1>11. e \in DskOf(n) /\ e.tags = tags /\ e.mus = mus  BY <1>6, <1>7, <1>8, <1>10 DEF DskOf
<1> HIDE DEF e
<1> QED BY <1>4, <1>5, <1>9, <1>11 DEF Clean

(* What is loaded: the tags of the disk as they are read, named and        *)
(* decoded, the tracks as they are read, and what is carried to the first. *)
HeadTags(f) == PutVal(Texts(NewTags("format"), f.head), GENRE, Str(f.fmt))
NamedTags(f) ==
  PutVal(HeadTags(f), TITLE,
         IF HeadTags(f)[TITLE].val.s = Nil THEN Str("n/a") ELSE HeadTags(f)[TITLE].val)
DecodedTags(f) == DiskDecoded(f.fmt, NamedTags(f))
TracksRead(f) == [i \in 1..Len(f.mus) |-> ReadTrack(f, i)]
FirstOf(f) == FromDisk(NamedTags(f), DecodedTags(f))
AllOf(f) == InheritAll(f.fmt, TracksRead(f), FirstOf(f))
DefOf(f) == IF f.head.def \in 0..(Len(f.mus) - 1) THEN f.head.def ELSE 0

ReadsOf(f) ==
  /\ Len(f.mus) \in Nat \ {0} /\ DefOf(f) \in 0..(Len(f.mus) - 1)
  /\ HeadTags(f) \in CleanTags /\ NamedTags(f) \in CleanTags /\ DecodedTags(f) \in CleanTags
  /\ TracksRead(f) \in [1..Len(f.mus) -> RawTrack] /\ TracksRead(f)[1].data # Nil
  /\ FirstOf(f) \in Carried /\ FirstOf(f).mus = <<>>
  /\ AllOf(f).dtags \in CleanTags /\ AllOf(f).mus \in [1..Len(f.mus) -> FullTrack]
  /\ LoadedDisk(f) = Completed(ReadFile(f), AllOf(f), DefOf(f))
  /\ ReadFile(f) = [nb |-> Len(f.mus), def |-> f.head.def, ms |-> 0, hw |-> {},
                    tags |-> HeadTags(f), mus |-> TracksRead(f)]

LEMMA ReadsAre ==
  ASSUME NEW f \in FileSet, Loadable(f)
  PROVE  ReadsOf(f)
<1> DEFINE n == Len(f.mus)
           d == ReadFile(f)
           t == NamedTags(f)
           u == DecodedTags(f)
           first == FirstOf(f)
           all == AllOf(f)
<1>1. /\ f.fmt \in STRING /\ f.head \in HeadSet /\ f.mus \in Seq(ChunkSet)
      /\ n \in Nat \ {0} /\ f.mus[1].data # Nil
  <2>1. f \in [fmt : {"sc68", "sndh"}, head : HeadSet, mus : Seq(ChunkSet)]  BY DEF FileSet
  <2>2. f.fmt \in STRING
    <3> {"sc68", "sndh"} \subseteq STRING  BY LiteralAssumption
    <3> QED BY <2>1
  <2>3. f.mus \in Seq(ChunkSet) /\ f.head \in HeadSet  BY <2>1
  <2>4. n \in Nat /\ n > 0 /\ f.mus[1].data # Nil  BY <2>3 DEF Loadable
  <2> QED BY <2>2, <2>3, <2>4
<1> DEFINE tags0 == Texts(NewTags("format"), f.head)
           tags == HeadTags(f)
           mus == TracksRead(f)
<1>2. d = [nb |-> n, def |-> f.head.def, ms |-> 0, hw |-> {}, tags |-> tags, mus |-> mus]
  BY Zenon DEF ReadFile, PutVal, HeadTags, TracksRead
<1>3. tags \in CleanTags
  <2>1. NewTags("format") \in CleanTags  BY NewTagsClean
  <2>2. /\ f.head.title \in STRING /\ f.head.artist \in STRING /\ f.head.cname \in STRING
        /\ f.head.tags \in Pairs
    BY <1>1 DEF HeadSet, Pairs
  <2>3. tags0 \in CleanTags  BY <2>1, <2>2, TextsClean
  <2>4. tags = PutVal(tags0, GENRE, Str(f.fmt))  BY Zenon DEF HeadTags
  <2> HIDE DEF tags0, tags
  <2> QED BY <1>1, <2>3, <2>4, PutValClean, CleanAre, Slots
<1>4. mus \in [1..n -> RawTrack] /\ mus[1].data # Nil
  <2>1. \A i \in 1..n : ReadTrack(f, i) \in RawTrack /\ ReadTrack(f, i).data = f.mus[i].data
    BY ReadTrackIs
  <2>2. 1 \in 1..n  BY <1>1
  <2>3. mus = [i \in 1..n |-> ReadTrack(f, i)]  BY DEF TracksRead
  <2> HIDE DEF n, mus
  <2> QED BY <1>1, <2>1, <2>2, <2>3
<1> HIDE DEF tags, mus
<1>5. d.nb = n /\ d.tags = tags /\ d.mus = mus /\ d.def = f.head.def
  <2> HIDE DEF n, d
  <2> QED BY <1>2
<1>6. LoadedDisk(f) = Completed(d, all, DefOf(f))
  <2>1. LoadedDisk(f) = ValidatedAs(f.fmt, d, PutVal(d.tags, TITLE, IF d.tags[TITLE].val.s = Nil
                                              THEN Str("n/a") ELSE d.tags[TITLE].val))
    BY Zenon DEF LoadedDisk, Validated, PutVal
  <2>2. LoadedDisk(f) = ValidatedAs(f.fmt, d, t)
    BY <1>5, <2>1, Zenon DEF NamedTags, tags
  <2>3. LoadedDisk(f) = Completed(d, InheritAll(f.fmt, d.mus, FromDisk(t, DiskDecoded(f.fmt, t))),
                                  IF d.def \in 0..(d.nb - 1) THEN d.def ELSE 0)
    BY <2>2, Zenon DEF ValidatedAs
  <2> QED BY <1>5, <2>3, Zenon DEF AllOf, FirstOf, DecodedTags, DefOf, mus
<1>7. t \in CleanTags
  <2> DEFINE v == IF tags[TITLE].val.s = Nil THEN Str("n/a") ELSE tags[TITLE].val
  <2>1. t = PutVal(tags, TITLE, v)  BY Zenon DEF NamedTags, tags
  <2>2. v \in CleanText  BY <1>3, CleanTagIs, KeysAre, Slots
  <2> HIDE DEF v, t
  <2>3. PutVal(tags, TITLE, v) \in CleanTags  BY <1>3, <2>2, PutValClean, Slots
  <2> QED BY <2>1, <2>3
<1> HIDE DEF d, n
<1>8. u \in CleanTags
  <2> HIDE DEF t
  <2> QED BY <1>7, DiskDecodedClean DEF DecodedTags, t
<1>9. first \in Carried /\ first.mus = <<>>
  <2> DEFINE title == u[TITLE].val
             artist == IF t[ARTIST].val.s = Nil THEN Str("n/a") ELSE u[ARTIST].val
             alias == Alias(u)
  <2>1. first = [title |-> title, artist |-> artist, alias |-> alias, data |-> Nil, dtags |-> u,
                 mus |-> <<>>]
    BY DEF FirstOf, FromDisk
  <2>2. title \in CleanText /\ artist \in CleanText  BY <1>8, CleanTagIs, KeysAre, Slots
  <2>3. alias \in CleanText  BY <1>8, AliasClean, CleanAre
  <2>4. <<>> \in Seq(DoneTrack) /\ Nil \in STRING  BY Texts0
  <2> HIDE DEF title, artist, alias, first, u
  <2> QED BY <1>8, <2>1, <2>2, <2>3, <2>4 DEF Carried
<1> HIDE DEF first, t, u
<1>10. all.dtags \in CleanTags /\ all.mus \in [1..n -> FullTrack]
  <2>1. all = InheritAll(f.fmt, mus, first)  BY DEF AllOf, mus, first
  <2>2. /\ InheritAll(f.fmt, mus, first).dtags \in CleanTags
        /\ InheritAll(f.fmt, mus, first).mus \in [1..n -> FullTrack]
    <3> HIDE DEF n
    <3> QED BY <1>1, <1>4, <1>9, InheritAllIs
  <2> HIDE DEF all
  <2> QED BY <2>1, <2>2
<1>11. DefOf(f) \in 0..(n - 1)  BY <1>1 DEF DefOf, n
<1> HIDE DEF all
<1> QED BY <1>1, <1>2, <1>3, <1>4, <1>6, <1>7, <1>8, <1>9, <1>10, <1>11
        DEF ReadsOf, n, d, t, u, first, all, tags, mus

LEMMA LoadedIs ==
  ASSUME NEW f \in FileSet, Loadable(f)
  PROVE  Clean(Len(f.mus), LoadedDisk(f)) /\ Len(f.mus) \in Nat \ {0}
<1>1. ReadsOf(f)  BY ReadsAre
<1> DEFINE n == Len(f.mus)
           d == ReadFile(f)
           all == AllOf(f)
           def == DefOf(f)
<1>2. /\ n \in Nat \ {0} /\ def \in 0..(n - 1) /\ all.dtags \in CleanTags
      /\ all.mus \in [1..n -> FullTrack] /\ LoadedDisk(f) = Completed(d, all, def)
      /\ d = [nb |-> n, def |-> f.head.def, ms |-> 0, hw |-> {}, tags |-> HeadTags(f),
              mus |-> TracksRead(f)]
  BY <1>1 DEF ReadsOf
<1> HIDE DEF n, d, all, def
<1>3. Clean(n, Completed(d, all, def))  BY <1>2, CompletedIs
<1> QED BY <1>2, <1>3 DEF n

-----------------------------------------------------------------------------
(* What the format can say of a track, once it is timed: of a player and   *)
(* its address one, no frames without a time, and no loop of its own       *)
(* without saying so.                                                      *)
Sayable(m) ==
  /\ m.pic => m.a0 = LOADADDR
  /\ ~m.pic => m.a0 # 0
  /\ ~m.time => m.first_fr = 0
  /\ ~m.loop => m.loops_fr = m.first_fr

(* What each stage of the timing leaves alone, and what it makes.          *)
Place0(m, w) == w.d0 = m.d0 /\ w.sfx = m.sfx /\ w.replay = m.replay /\ w.loop = m.loop
Place1(m, w) == Place0(m, w) /\ w.pic = m.pic /\ w.a0 = m.a0 /\ w.frq = m.frq
Loops0(m, w) == w.loops_fr = m.loops_fr /\ w.loops = m.loops /\ w.hw = m.hw
First0(m, w) == w.first_fr = m.first_fr /\ w.first_ms = m.first_ms /\ w.time = m.time
Player(m, w) ==
  /\ w.pic = (m.a0 = 0) /\ w.a0 = (IF m.a0 = 0 THEN LOADADDR ELSE m.a0)
  /\ w.frq = (IF m.frq = 0 THEN 50 ELSE m.frq)
Timing(m, w) ==
  /\ w.time = (m.first_fr > 0 \/ m.first_ms > 0)
  /\ w.first_ms = (IF m.first_fr > 0 THEN FrToMs(m.first_fr, m.frq) ELSE m.first_ms)
  /\ w.first_fr = (IF m.first_fr > 0 THEN m.first_fr ELSE MsInFr(m.first_ms, m.frq))

LEMMA DefaultsDo ==
  ASSUME NEW m \in RawTrack
  PROVE  LET w == WithDefaults(m) IN Place0(m, w) /\ Player(m, w) /\ First0(m, w) /\ Loops0(m, w)
BY DEF WithDefaults, RawTrack, Place0, Player, First0, Loops0

LEMMA TimedDo ==
  ASSUME NEW m \in RawTrack
  PROVE  LET w == Timed(m) IN Place1(m, w) /\ Timing(m, w) /\ Loops0(m, w)
BY DEF Timed, RawTrack, Place0, Place1, Timing, Loops0

LEMMA FromDbDo ==
  ASSUME NEW fmt, NEW i, NEW m \in RawTrack
  PROVE  LET w == FromDb(fmt, i, m)
         IN  Place1(m, w) /\ (fmt = "sc68" \/ ~w.time => w = m)
<1>1. FromDb(fmt, i, m) = m \/ (fmt = "sndh" /\ FromDb(fmt, i, m) =
        [m EXCEPT !.time = TRUE, !.first_fr = TimeDb[i].fr,
                  !.first_ms = FrToMs(TimeDb[i].fr, m.frq), !.hw = {"XTD"} \cup TimeDb[i].hw])
  BY Zenon DEF FromDb
<1>2. CASE FromDb(fmt, i, m) = m  BY <1>2 DEF Place0, Place1
<1>3. CASE fmt = "sndh" /\ FromDb(fmt, i, m) =
        [m EXCEPT !.time = TRUE, !.first_fr = TimeDb[i].fr,
                  !.first_ms = FrToMs(TimeDb[i].fr, m.frq), !.hw = {"XTD"} \cup TimeDb[i].hw]
  <2> DEFINE fr == TimeDb[i].fr
             ms == FrToMs(fr, m.frq)
             hw == {"XTD"} \cup TimeDb[i].hw
             w == FromDb(fmt, i, m)
  <2>1. w = [m EXCEPT !.time = TRUE, !.first_fr = fr, !.first_ms = ms, !.hw = hw]  BY <1>3
  <2> HIDE DEF fr, ms, hw, w
  <2>2. Place1(m, w) /\ w.time = TRUE  BY <2>1 DEF RawTrack, Place0, Place1
  <2> QED BY <1>3, <2>2 DEF w
<1> QED BY <1>1, <1>2, <1>3

LEMMA WithLoopDo ==
  ASSUME NEW m \in RawTrack
  PROVE  LET w == WithLoop(m)
         IN  /\ Place1(m, w) /\ First0(m, w) /\ w.hw = m.hw /\ w.loops = m.loops
             /\ w.loops_fr = IF m.loop THEN m.loops_fr ELSE m.first_fr
BY DEF WithLoop, RawTrack, Place0, Place1, First0

LEMMA LoopedDo ==
  ASSUME NEW m \in RawTrack
  PROVE  LET w == Looped(m)
         IN  /\ Place1(m, w) /\ First0(m, w) /\ w.loops_fr = m.loops_fr
             /\ m.loops_fr # 0 /\ m.loops > 0 => w.loops = m.loops
             /\ m.hw # {} => w.hw = m.hw
<1> DEFINE loops == CASE m.loops_fr = 0 -> 1
                      [] m.loops_fr # 0 /\ m.loops = 0 -> GuessedLoops(m)
                      [] m.loops_fr # 0 /\ m.loops > 0 -> m.loops
                      [] m.loops_fr # 0 /\ m.loops < 0 -> 0
           hw == IF m.hw = {} THEN {"PSG"} ELSE m.hw
           w == Looped(m)
<1>1. m.loops_fr # 0 /\ m.loops > 0 => loops = m.loops
  <2> m.loops \in Int  BY DEF RawTrack
  <2> QED OBVIOUS
<1>2. w = [m EXCEPT !.loops = loops, !.hw = hw]  BY Zenon DEF Looped
<1>3. m.hw # {} => hw = m.hw  OBVIOUS
<1> HIDE DEF loops, hw, w
<1>4. Place1(m, w) /\ First0(m, w) /\ w.loops_fr = m.loops_fr /\ w.loops = loops /\ w.hw = hw
  BY <1>2 DEF RawTrack, Place0, Place1, First0
<1> QED BY <1>1, <1>3, <1>4 DEF w

LEMMA NoMs ==
  ASSUME NEW hz \in Hertz
  PROVE  FrToMs(0, hz) = 0
BY DEF FrToMs, Hertz

(* What a track m of a file is once timed, w, if the file gives it no      *)
(* seconds.                                                                *)
SaysSo(m, w) ==
  /\ Player(m, w) /\ Place0(m, w)
  /\ w.first_fr = m.first_fr /\ w.first_ms = FrToMs(w.first_fr, w.frq)
  /\ w.loops_fr = (IF m.loop THEN m.loops_fr ELSE w.first_fr)
  /\ m.loops > 0 /\ w.loops_fr # 0 => w.loops = m.loops
  /\ m.hw # {} => w.hw = m.hw

LEMMA TimedSays ==
  ASSUME NEW fmt, NEW i, NEW m \in RawTrack
  PROVE  /\ Sayable(TimedTrack(fmt, i, m))
         /\ fmt = "sc68" /\ m.first_ms = 0 => SaysSo(m, TimedTrack(fmt, i, m))
<1> DEFINE a == WithDefaults(m)
           b == Timed(a)
           c == FromDb(fmt, i, b)
           d == WithLoop(c)
           e == Looped(d)
<1>1. a \in RawTrack /\ a.frq # 0  BY DefaultsAre
<1>2. Place0(m, a) /\ Player(m, a) /\ First0(m, a) /\ Loops0(m, a)  BY DefaultsDo, Zenon
<1> HIDE DEF a
<1>3. b \in RawTrack /\ b.frq # 0 /\ (b.first_fr > 0 => b.first_ms > 0)  BY <1>1, TimedIs
<1>4. Place1(a, b) /\ Timing(a, b) /\ Loops0(a, b)  BY <1>1, TimedDo, Zenon
<1> HIDE DEF b
<1>5. c \in RawTrack /\ c.frq # 0 /\ (c.first_fr > 0 => c.first_ms > 0)  BY <1>3, FromDbIs
<1>6. Place1(b, c) /\ (fmt = "sc68" \/ ~c.time => c = b)  BY <1>3, FromDbDo, Zenon
<1> HIDE DEF c
<1>7. d \in RawTrack  BY <1>5, WithLoopIs
<1>8. /\ Place1(c, d) /\ First0(c, d) /\ d.hw = c.hw /\ d.loops = c.loops
      /\ d.loops_fr = IF c.loop THEN c.loops_fr ELSE c.first_fr
  BY <1>5, WithLoopDo, Zenon
<1> HIDE DEF d
<1>9. /\ Place1(d, e) /\ First0(d, e) /\ e.loops_fr = d.loops_fr
      /\ d.loops_fr # 0 /\ d.loops > 0 => e.loops = d.loops
      /\ d.hw # {} => e.hw = d.hw
  BY <1>7, LoopedDo, Zenon
<1>10. TimedTrack(fmt, i, m) = e  BY Zenon DEF TimedTrack, a, b, c, d
<1> HIDE DEF e
<1>11. Place0(m, e) /\ Player(m, e) /\ e.frq = a.frq
  BY <1>2, <1>4, <1>6, <1>8, <1>9 DEF Place0, Place1, Player
<1>12. a.frq \in Hertz /\ a.first_ms \in Nat /\ a.first_fr \in Nat
  <2> a.frq \in 0..1000  BY <1>1 DEF RawTrack
  <2> QED BY <1>1 DEF RawTrack, Hertz
<1>13. ~e.time => e.first_fr = 0
  <2> SUFFICES ASSUME ~e.time PROVE e.first_fr = 0  OBVIOUS
  <2>1. c = b /\ ~b.time /\ e.first_fr = b.first_fr  BY <1>6, <1>8, <1>9 DEF First0
  <2>2. a.first_fr = 0 /\ a.first_ms = 0
    <3>1. ~(a.first_fr > 0) /\ ~(a.first_ms > 0)
      <4>1. b.time = (a.first_fr > 0 \/ a.first_ms > 0)  BY <1>4 DEF Timing
      <4> QED BY <2>1, <4>1, Zenon
    <3> QED BY <1>12, <3>1
  <2>3. b.first_fr = MsInFr(0, a.frq)
    <3>1. b.first_fr = (IF a.first_fr > 0 THEN a.first_fr ELSE MsInFr(a.first_ms, a.frq))
      BY <1>4 DEF Timing
    <3> QED BY <2>2, <3>1
  <2> QED BY <1>12, <2>1, <2>3, NoFrames
<1>14. e.loops_fr = IF e.loop THEN c.loops_fr ELSE e.first_fr
  BY <1>8, <1>9 DEF First0, Place0, Place1
<1>15. e.pic => e.a0 = LOADADDR  BY <1>11 DEF Player
<1>16. ~e.pic => e.a0 # 0  BY <1>11 DEF Player
<1>17. Sayable(e)  BY <1>13, <1>14, <1>15, <1>16 DEF Sayable
<1>18. ASSUME fmt = "sc68", m.first_ms = 0 PROVE SaysSo(m, e)
  <2>1. c = b /\ a.first_ms = 0 /\ a.first_fr = m.first_fr  BY <1>2, <1>6, <1>18 DEF First0
  <2>2. b.first_fr = a.first_fr /\ b.first_ms = FrToMs(a.first_fr, a.frq)
    <3>1. CASE a.first_fr > 0  BY <1>4, <3>1 DEF Timing
    <3>2. CASE ~(a.first_fr > 0)
      <4>1. a.first_fr = 0  BY <1>12, <3>2
      <4>2. b.first_ms = 0 /\ b.first_fr = MsInFr(0, a.frq)  BY <1>4, <2>1, <3>2 DEF Timing
      <4> QED BY <1>12, <4>1, <4>2, NoFrames, NoMs
    <3> QED BY <3>1, <3>2
  <2>3. e.first_fr = m.first_fr /\ e.first_ms = FrToMs(e.first_fr, e.frq)
    BY <1>8, <1>9, <1>11, <2>1, <2>2 DEF First0
  <2>4. c.loops_fr = m.loops_fr /\ c.loops = m.loops /\ c.hw = m.hw
    BY <1>2, <1>4, <2>1 DEF Loops0
  <2>5. e.loop = m.loop  BY <1>11 DEF Place0
  <2>6. m.loops > 0 /\ e.loops_fr # 0 => e.loops = m.loops  BY <1>8, <1>9, <2>4
  <2>7. m.hw # {} => e.hw = m.hw  BY <1>8, <1>9, <2>4
  <2> QED BY <1>11, <1>14, <2>3, <2>4, <2>5, <2>6, <2>7 DEF SaysSo
<1> QED BY <1>10, <1>17, <1>18

(* A track of the disk loaded, and what it hands over.                     *)
SignedTags(fmt, a, n) == Signed(fmt, a, Genred(n.hw, Titled(a, n.tags)))
Ended(fmt, a, i, m) ==
  [TimedTrack(fmt, i, m) EXCEPT !.tags = SignedTags(fmt, a, TimedTrack(fmt, i, m)),
                                !.data = DataAfter(a, m)]
Passed(fmt, a, i, m, b) ==
  LET n == TimedTrack(fmt, i, m)
      own == Genred(n.hw, Titled(a, n.tags))[ARTIST].val.s # Nil
      signed == SignedTags(fmt, a, n)
  IN  /\ b.title = signed[TITLE].val
      /\ b.artist = IF own THEN signed[ARTIST].val ELSE a.artist
      /\ b.data = DataAfter(a, m) /\ b.mus = Append(a.mus, Ended(fmt, a, i, m))
      /\ fmt = "sc68" => b.dtags = a.dtags

LEMMA InheritDoes ==
  ASSUME NEW fmt, NEW a, NEW i, NEW m \in RawTrack
  PROVE  Passed(fmt, a, i, m, Inherit(fmt, a, i, m))
<1> DEFINE n == TimedTrack(fmt, i, m)
           t == Genred(n.hw, Titled(a, n.tags))
           signed == SignedTags(fmt, a, n)
           own == t[ARTIST].val.s # Nil
           alias == IF own THEN Alias(signed) ELSE a.alias
           dtags == IF own /\ fmt = "sndh" /\ GivesYear(a.dtags, t)
                    THEN SetTag(a.dtags, Str("year"), YearOf(t)) ELSE a.dtags
           data == DataAfter(a, n)
           w == [n EXCEPT !.tags = signed, !.data = data]
           b == Inherit(fmt, a, i, m)
<1>1. b = HandOver(fmt, a, n, t, signed)
  BY Zenon DEF Inherit, InheritTimed, InheritWith, TimedTrack, SignedTags
<1>2. b = [title |-> signed[TITLE].val, artist |-> IF own THEN signed[ARTIST].val ELSE a.artist,
           alias |-> alias, data |-> data, dtags |-> dtags, mus |-> Append(a.mus, w)]
  BY <1>1, Zenon DEF HandOver, DataAfter
<1>3. fmt = "sc68" => dtags = a.dtags  OBVIOUS
<1>4. n.data = m.data  BY TimedTrackIs DEF Content
<1>5. data = DataAfter(a, m)  BY <1>4 DEF DataAfter
<1>6. w = Ended(fmt, a, i, m)  BY <1>5, Zenon DEF Ended
<1> HIDE DEF signed, alias, data, dtags, w, b, n
<1>7. /\ b.title = signed[TITLE].val /\ b.artist = IF own THEN signed[ARTIST].val ELSE a.artist
      /\ b.data = data /\ b.mus = Append(a.mus, w) /\ b.dtags = dtags
  <2> HIDE DEF own
  <2> QED BY <1>2
<1> QED BY <1>3, <1>5, <1>6, <1>7, Zenon DEF Passed, b, n, signed

(* The tracks of the disk, each as it ended.                               *)
AllEnd(fmt, N, mus, u) ==
  /\ \A i \in 1..N : Passed(fmt, u[i - 1], i, mus[i], u[i])
  /\ \A i \in 1..N : u[N].mus[i] = Ended(fmt, u[i - 1], i, mus[i])

LEMMA TurnsEnd ==
  ASSUME NEW fmt, NEW N \in Nat \ {0}, NEW mus \in [1..N -> RawTrack], NEW first \in Carried,
         first.mus = <<>>, NEW u, Turns(fmt, N, mus, first, u), \A i \in 0..N : u[i] \in Carried
  PROVE  AllEnd(fmt, N, mus, u)
<1>1. \A i \in 1..N : u[i] = Inherit(fmt, u[i - 1], i, mus[i])  BY DEF Turns
<1>2. \A i \in 1..N : Passed(fmt, u[i - 1], i, mus[i], u[i])  BY <1>1, InheritDoes
<1>3. ASSUME NEW i \in 1..N PROVE u[i].mus = Append(u[i - 1].mus, Ended(fmt, u[i - 1], i, mus[i]))
  BY <1>2, Zenon DEF Passed
<1> DEFINE E(i) == Ended(fmt, u[i - 1], i, mus[i])
           Good(n) == Len(u[n].mus) = n /\ \A i \in 1..n : u[n].mus[i] = E(i)
           T == {n \in Nat : Good(n)}
<1>4. 0 \in T
  <2>1. u[0].mus = <<>>  BY DEF Turns
  <2> QED BY <2>1
<1>5. ASSUME NEW n \in T, n < N PROVE n + 1 \in T
  <2>1. n \in Nat /\ n + 1 \in 1..N /\ (n + 1) - 1 = n /\ n \in 0..N  BY <1>5
  <2> DEFINE a == u[n].mus
             b == u[n + 1].mus
             w == E(n + 1)
  <2>2. b = Append(a, w)
    <3>1. u[n + 1].mus = Append(u[(n + 1) - 1].mus, E(n + 1))  BY <1>3, <2>1, Zenon
    <3> HIDE DEF E
    <3> QED BY <2>1, <3>1
  <2>3. Good(n)  OBVIOUS
  <2>4. a \in Seq(DoneTrack)  BY <2>1 DEF Carried
  <2> HIDE DEF E
  <2>5. Len(a) = n /\ \A i \in 1..n : a[i] = E(i)  BY <2>3
  <2> HIDE DEF a, w
  <2>6. a \in Seq(DoneTrack \cup {w}) /\ w \in DoneTrack \cup {w}  BY <2>4
  <2>7. Len(b) = n + 1 /\ b[n + 1] = w /\ \A i \in 1..n : b[i] = a[i]
    BY <2>2, <2>5, <2>6, AppendTo
  <2>8. \A i \in 1..(n + 1) : i \in 1..n \/ i = n + 1  BY <2>1
  <2> HIDE DEF b
  <2>9. Len(b) = n + 1 /\ \A i \in 1..(n + 1) : b[i] = E(i)  BY <2>5, <2>7, <2>8 DEF w
  <2>10. Good(n + 1)  BY <2>9 DEF b
  <2> HIDE DEF Good
  <2> QED BY <2>1, <2>10
<1>6. \A n \in 0..N : n \in T
  <2>1. T \in SUBSET Nat /\ N \in Nat  OBVIOUS
  <2> HIDE DEF T
  <2> QED BY <1>4, <1>5, <2>1, UpTo
<1>7. N \in T  BY <1>6
<1>8. \A i \in 1..N : u[N].mus[i] = Ended(fmt, u[i - 1], i, mus[i])  BY <1>7
<1> QED BY <1>2, <1>8, Zenon DEF AllEnd

(* So each track loaded can be said.                                       *)
LEMMA EndedSays ==
  ASSUME NEW fmt, NEW a, NEW i, NEW m \in RawTrack
  PROVE  /\ Sayable(Ended(fmt, a, i, m))
         /\ fmt = "sc68" /\ m.first_ms = 0 => SaysSo(m, Ended(fmt, a, i, m))
         /\ Ended(fmt, a, i, m).data = DataAfter(a, m)
         /\ Ended(fmt, a, i, m).tags = SignedTags(fmt, a, TimedTrack(fmt, i, m))
<1> DEFINE n == TimedTrack(fmt, i, m)
           tags == SignedTags(fmt, a, n)
           data == DataAfter(a, m)
           w == Ended(fmt, a, i, m)
<1>1. n \in DoneTrack /\ Sayable(n) /\ (fmt = "sc68" /\ m.first_ms = 0 => SaysSo(m, n))
  BY TimedTrackIs, TimedSays
<1>2. w = [n EXCEPT !.tags = tags, !.data = data]  BY Zenon DEF Ended
<1> HIDE DEF n, tags, data, w
<1>3. /\ w.d0 = n.d0 /\ w.a0 = n.a0 /\ w.pic = n.pic /\ w.frq = n.frq /\ w.time = n.time
      /\ w.loop = n.loop /\ w.sfx = n.sfx /\ w.first_ms = n.first_ms /\ w.first_fr = n.first_fr
      /\ w.loops_fr = n.loops_fr /\ w.loops = n.loops /\ w.hw = n.hw /\ w.replay = n.replay
      /\ w.tags = tags /\ w.data = data
  BY <1>1, <1>2 DEF DoneTrack
<1>4. Sayable(w)  BY <1>1, <1>3 DEF Sayable
<1>5. fmt = "sc68" /\ m.first_ms = 0 => SaysSo(m, w)
  BY <1>1, <1>3 DEF SaysSo, Player, Place0
<1> QED BY <1>3, <1>4, <1>5 DEF n, tags, data, w

LEMMA LoadedSays ==
  ASSUME NEW f \in FileSet, Loadable(f)
  PROVE  \A i \in 1..Len(f.mus) : Sayable(LoadedDisk(f).mus[i])
<1> DEFINE n == Len(f.mus)
           mus == TracksRead(f)
           first == FirstOf(f)
           all == AllOf(f)
<1>1. ReadsOf(f)  BY ReadsAre
<1>2. /\ n \in Nat \ {0} /\ mus \in [1..n -> RawTrack] /\ first \in Carried /\ first.mus = <<>>
      /\ LoadedDisk(f).mus = all.mus
  <2>1. ReadFile(f) = [nb |-> Len(f.mus), def |-> f.head.def, ms |-> 0, hw |-> {},
                       tags |-> HeadTags(f), mus |-> TracksRead(f)]
        /\ LoadedDisk(f) = Completed(ReadFile(f), AllOf(f), DefOf(f))
    BY <1>1 DEF ReadsOf
  <2>2. LoadedDisk(f).mus = all.mus
    <3> HIDE DEF all
    <3> QED BY <2>1 DEF Completed, all
  <2> QED BY <1>1, <2>2 DEF ReadsOf
<1>3. all = InheritAll(f.fmt, mus, first)  BY DEF AllOf
<1> HIDE DEF n, mus, first, all
<1>4. PICK u : /\ Turns(f.fmt, n, mus, first, u) /\ InheritAll(f.fmt, mus, first) = u[n]
               /\ \A i \in 0..n : u[i] \in Carried
  BY <1>2, InheritTurns
<1>5. \A i \in 1..n : u[n].mus[i] = Ended(f.fmt, u[i - 1], i, mus[i])
  <2> DEFINE fmt == f.fmt
  <2>1. Turns(fmt, n, mus, first, u)  BY <1>4
  <2> HIDE DEF fmt
  <2>2. AllEnd(fmt, n, mus, u)  BY <1>2, <1>4, <2>1, TurnsEnd
  <2> QED BY <2>2, Zenon DEF fmt, AllEnd
<1>6. ASSUME NEW i \in 1..n PROVE Sayable(all.mus[i])
  <2>1. mus[i] \in RawTrack  BY <1>2
  <2>2. Sayable(Ended(f.fmt, u[i - 1], i, mus[i]))  BY <2>1, EndedSays
  <2> QED BY <1>3, <1>4, <1>5, <2>2
<1> QED BY <1>2, <1>6 DEF n

-----------------------------------------------------------------------------
(* What is saved is a file that can be read.                               *)
LEMMA CustomSavedIs ==
  ASSUME NEW t \in TagsType
  PROVE  CustomSaved(t) \in Pairs
<1> DEFINE full == {i \in Custom : t[i].key.s \notin {Nil, ""} /\ t[i].val.s \notin {Nil, ""}}
           M == GENRE + CUSTOM
           c == Cardinality(full)
<1>1. M \in Nat /\ full \in SUBSET (1..M) /\ full \subseteq Custom
  <2>1. full \subseteq Custom  OBVIOUS
  <2>2. M \in Nat /\ Custom \subseteq 1..M  BY DiskAssumption DEF Custom, GENRE
  <2> HIDE DEF full, M
  <2> QED BY <2>1, <2>2
<1>2. CustomSaved(t) = [n \in 1..c |-> <<t[RankedAs(full, n)].key.s, t[RankedAs(full, n)].val.s>>]
  BY Zenon DEF CustomSaved, RankedAs
<1>3. c \in Nat
  <2> HIDE DEF full
  <2> QED BY <1>1, Slots, FS_Subset, FS_CardinalityType
<1>4. \A i \in full : t[i].key.s \in STRING \ {Nil} /\ t[i].val.s \in STRING
  <2> SUFFICES ASSUME NEW i \in full PROVE t[i].key.s \in STRING \ {Nil} /\ t[i].val.s \in STRING
    OBVIOUS
  <2>1. i \in Tag /\ t[i].key.s # Nil  BY Slots
  <2>2. t[i].key \in Text /\ t[i].val \in Text  BY <2>1 DEF TagsType
  <2> QED BY <2>1, <2>2, Texts0
<1>5. \A n \in 1..c : RankedAs(full, n) \in full
  <2> HIDE DEF full, M
  <2> QED BY <1>1, RankedIs
<1> HIDE DEF full, c
<1>6. \A n \in 1..c : <<t[RankedAs(full, n)].key.s, t[RankedAs(full, n)].val.s>>
                        \in (STRING \ {Nil}) \X STRING
  BY <1>4, <1>5
<1> DEFINE F == [n \in 1..c |-> <<t[RankedAs(full, n)].key.s, t[RankedAs(full, n)].val.s>>]
<1>7. F \in [1..c -> (STRING \ {Nil}) \X STRING]  BY <1>6
<1>8. CustomSaved(t) = F  BY <1>2
<1> HIDE DEF F
<1>9. F \in Seq((STRING \ {Nil}) \X STRING)  BY <1>3, <1>7
<1> QED BY <1>8, <1>9 DEF Pairs

LEMMA WrittenIs ==
  ASSUME NEW s \in STRING
  PROVE  WrittenText(s) \in STRING /\ NotNoName(s) \in STRING
BY Texts0 DEF WrittenText, NotNoName

LEMMA SavedTrackIs ==
  ASSUME NEW n \in Nat \ {0}, NEW d \in DskOf(n), NEW i \in 1..n
  PROVE  SavedTrack(d, i) \in ChunkSet /\ (i = 1 => SavedTrack(d, i).data # Nil)
<1> DEFINE m == d.mus[i]
           title == Differs(d, TITLE, i)
           artist == Differs(d, ARTIST, i)
           tags == CustomSaved(m.tags)
           replay == WrittenText(m.replay.s)
           a0 == IF ~m.pic THEN m.a0 ELSE 0
           frq == IF m.frq # 50 THEN m.frq ELSE 0
           fr == IF m.time THEN m.first_fr ELSE 0
           loop == IF m.loop THEN m.loops ELSE 0
           loopfr == IF m.loop THEN m.loops_fr ELSE Absent
           data == IF i > 1 /\ m.data = d.mus[i - 1].data THEN Nil ELSE m.data
           w == [title |-> title, artist |-> artist, cname |-> Nil, tags |-> tags,
                 replay |-> replay, d0 |-> m.d0, a0 |-> a0, frq |-> frq, sec |-> 0, fr |-> fr,
                 loop |-> loop, loopfr |-> loopfr, sfx |-> m.sfx, typ |-> m.hw, data |-> data]
<1>1. SavedTrack(d, i) = w  BY Zenon DEF SavedTrack
<1>2. m \in TrackSet  BY DEF DskOf
<1> HIDE DEF m
<1>3. /\ m.d0 \in Int /\ m.a0 \in Nat /\ m.frq \in Hertz /\ m.first_fr \in Nat
      /\ m.loops \in Nat /\ m.loops_fr \in Nat /\ m.sfx \in BOOLEAN /\ m.hw \in SUBSET STRING
      /\ m.data \in STRING \ {Nil} /\ m.tags \in TagsType /\ m.replay \in Text
  BY <1>2 DEF TrackSet
<1>4. ASSUME NEW slot \in 1..GENRE PROVE Differs(d, slot, i) \in STRING
  <2>1. m.tags[slot].val \in Text  BY <1>3, Slots DEF TagsType
  <2>2. m.tags[slot].val.s \in STRING  BY <2>1, Texts0
  <2> DEFINE str == m.tags[slot].val.s
  <2>3. Differs(d, slot, i) = IF str = LastBefore(d, slot, i) THEN Nil ELSE WrittenText(str)
    BY Zenon DEF Differs, m
  <2> HIDE DEF str
  <2>4. WrittenText(str) \in STRING  BY <2>2, WrittenIs DEF str
  <2> QED BY <2>3, <2>4, Texts0
<1>5. title \in STRING /\ artist \in STRING  BY <1>4, Slots
<1>6. tags \in Seq((STRING \ {Nil}) \X STRING)  BY <1>3, CustomSavedIs DEF Pairs
<1>7. replay \in STRING
  <2> DEFINE str == m.replay.s
  <2>1. str \in STRING  BY <1>3, Texts0
  <2>2. WrittenText(str) \in STRING
    <3> HIDE DEF str
    <3> QED BY <2>1, WrittenIs
  <2> QED BY <2>2
<1>8. /\ a0 \in Nat /\ frq \in 0..1000 /\ fr \in Nat /\ loop \in Int
      /\ loopfr \in Nat \cup {Absent}
  <2>1. m.frq \in 1..1000  BY <1>3 DEF Hertz
  <2> QED BY <1>3, <2>1
<1>9. data \in STRING /\ (i = 1 => data # Nil)  BY <1>3, Texts0
<1>10. Nil \in STRING /\ 0 \in Int  BY Texts0
<1> HIDE DEF title, artist, tags, replay, a0, frq, fr, loop, loopfr, data
<1>11. w \in ChunkSet /\ w.data = data
  BY <1>3, <1>5, <1>6, <1>7, <1>8, <1>9, <1>10 DEF ChunkSet
<1> HIDE DEF w
<1> QED BY <1>1, <1>9, <1>11

LEMMA SavedIs ==
  ASSUME NEW n \in Nat \ {0}, NEW d \in DskOf(n)
  PROVE  Saved(d) \in FileSet /\ Loadable(Saved(d))
<1> DEFINE title == NotNoName(d.tags[TITLE].val.s)
           artist == NotNoName(d.tags[ARTIST].val.s)
           tags == CustomSaved(d.tags)
           head == [title |-> title, artist |-> artist, cname |-> Nil, def |-> d.def, tags |-> tags]
           mus == [i \in 1..n |-> SavedTrack(d, i)]
           w == [fmt |-> "sc68", head |-> head, mus |-> mus]
<1>1. d.nb = n /\ d.tags \in TagsType /\ d.def \in Int  BY DEF DskOf
<1>2. Saved(d) = w  BY <1>1, Zenon DEF Saved
<1>3. title \in STRING /\ artist \in STRING
  <2>1. d.tags[TITLE].val \in Text /\ d.tags[ARTIST].val \in Text  BY <1>1, Slots DEF TagsType
  <2>2. d.tags[TITLE].val.s \in STRING /\ d.tags[ARTIST].val.s \in STRING  BY <2>1, Texts0
  <2> QED BY <2>2, WrittenIs
<1>4. tags \in Seq((STRING \ {Nil}) \X STRING)  BY <1>1, CustomSavedIs DEF Pairs
<1> HIDE DEF title, artist, tags
<1>5. head \in HeadSet  BY <1>1, <1>3, <1>4, Texts0 DEF HeadSet
<1>6. \A i \in 1..n : SavedTrack(d, i) \in ChunkSet /\ (i = 1 => SavedTrack(d, i).data # Nil)
  BY SavedTrackIs
<1>7. mus \in Seq(ChunkSet) /\ Len(mus) = n /\ mus[1].data # Nil
  <2>1. mus \in [1..n -> ChunkSet] /\ mus[1].data # Nil  BY <1>6
  <2> HIDE DEF mus
  <2> QED BY <2>1, TracksSeq
<1> HIDE DEF head, mus
<1>8. w \in FileSet /\ w.mus = mus /\ w.fmt = "sc68"  BY <1>5, <1>7 DEF FileSet
<1> HIDE DEF w
<1> QED BY <1>2, <1>7, <1>8 DEF Loadable

-----------------------------------------------------------------------------
(* The inductive invariant: the types, whatever was counted, and unless    *)
(* tags were counted over a deleted one, each block with its holder.       *)
EditorTyped ==
  /\ edits \in 0..MaxEdit /\ mixed \in BOOLEAN
  /\ strings \subseteq Nat \ {0} /\ IsFiniteSet(strings)
  /\ edited = EmptyDsk \/ \E n \in Nat \ {0} : edited \in DskOf(n)
  /\ stored = NoFile \/ stored \in FileSet
EditorOwned ==
  mixed \/ IF edited = EmptyDsk THEN strings = {} ELSE Sound(edited.nb, edited, strings)
EditorInv == EditorTyped /\ EditorOwned

LEMMA EditStep ==
  ASSUME EditorInv, NEW n \in Nat \ {0}, NEW d \in DskOf(n),
         NEW given, NEW blocks \in SUBSET (Nat \ {0}), IsFiniteSet(blocks),
         ~mixed => Sound(n, d, KeptBlocks(d, strings, given, blocks)), Edit(d, given, blocks)
  PROVE  EditorInv'
<1> DEFINE e == DskValidated(d)
           T == KeptBlocks(d, strings, given, blocks)
<1>1. /\ edits' = edits + 1 /\ edits < MaxEdit /\ edited' = e /\ strings' = T
      /\ stored' = stored /\ mixed' = mixed
  BY DEF Edit, KeptBlocks
<1>2. e \in DskOf(n) /\ (~mixed => Sound(n, e, T))  BY DskValidatedIs, ValidatedSound
<1>3. T \subseteq Nat \ {0} /\ IsFiniteSet(T)
  <2>1. strings \ given \in SUBSET strings /\ {b \in blocks : Holders(d, b) # {}} \in SUBSET blocks
    OBVIOUS
  <2>2. IsFiniteSet(strings \ given) /\ IsFiniteSet({b \in blocks : Holders(d, b) # {}})
    BY <2>1, FS_Subset DEF EditorInv, EditorTyped
  <2>3. IsFiniteSet(T)  BY <2>2, FS_Union DEF KeptBlocks
  <2> QED BY <2>3 DEF KeptBlocks, EditorInv, EditorTyped
<1> HIDE DEF e, T
<1>4. e.nb = n /\ e # EmptyDsk  BY <1>2, DiskIs
<1>5. edits' \in 0..MaxEdit
  <2> edits \in 0..MaxEdit /\ MaxEdit \in Nat  BY DiskAssumption DEF EditorInv, EditorTyped
  <2> QED BY <1>1
<1>6. EditorTyped'  BY <1>1, <1>2, <1>3, <1>5 DEF EditorInv, EditorTyped
<1>7. EditorOwned'  BY <1>1, <1>2, <1>4 DEF EditorInv, EditorOwned
<1> QED BY <1>6, <1>7 DEF EditorInv

LEMMA EditorIs ==
  ASSUME EditorInv, edited # EmptyDsk
  PROVE  /\ edited.nb \in Nat \ {0} /\ edited \in DskOf(edited.nb)
         /\ ~mixed => Sound(edited.nb, edited, strings)
         /\ 0 \notin strings /\ IsFiniteSet(strings)
<1>1. PICK n \in Nat \ {0} : edited \in DskOf(n)  BY DEF EditorInv, EditorTyped
<1>2. edited.nb = n  BY <1>1, DiskIs
<1> QED BY <1>1, <1>2 DEF EditorInv, EditorTyped, EditorOwned

LEMMA EditTagStep ==
  ASSUME EditorInv, NEW m \in Nat, NEW key \in Keys, NEW val \in Vals \cup {Nil},
         EditTag(m, key, val)
  PROVE  EditorInv'
<1> DEFINE n == edited.nb
           t == TagsAt(edited, m)
           k == [s |-> key, id |-> Fresh(1)]
           v == IF val = Nil THEN Blank ELSE [s |-> val, id |-> Fresh(2)]
           d == PutTags(edited, m, SetTag(t, k, v))
           given == Freed(t, key, v)
           blocks == {k.id, v.id} \ {0}
<1>1. edited # EmptyDsk /\ m \in 0..n /\ Edit(d, given, blocks)  BY Zenon DEF EditTag
<1>2. /\ n \in Nat \ {0} /\ edited \in DskOf(n) /\ (~mixed => Sound(n, edited, strings))
      /\ 0 \notin strings /\ IsFiniteSet(strings)
  BY <1>1, EditorIs
<1>3. /\ key \in STRING \ {Nil} /\ val \in STRING
  BY DiskAssumption, Texts0
<1>4. /\ Fresh(1) \in Nat \ {0} /\ Fresh(2) \in Nat \ {0}
      /\ Fresh(1) \notin strings /\ Fresh(2) \notin strings /\ Fresh(1) # Fresh(2)
  BY <1>2, FreshIs
<1>5. k \in Text /\ k.s = key /\ k.s # Nil /\ k.id # 0 /\ k.id \notin strings
  BY <1>3, <1>4 DEF Text
<1>6. /\ v \in Text /\ (v.s = Nil => v.id = 0) /\ v.id \notin strings /\ v.id # k.id
  <2>1. CASE val = Nil
    <3>1. v = Blank  BY <2>1
    <3> QED BY <1>2, <1>4, <3>1, Texts0
  <2>2. CASE val # Nil
    <3>1. v = [s |-> val, id |-> Fresh(2)]  BY <2>2
    <3>2. v.s = val /\ v.id = Fresh(2) /\ v \in Text  BY <3>1, <1>3, <1>4 DEF Text
    <3> QED BY <1>4, <2>2, <3>2
  <2> QED BY <2>1, <2>2
<1>7. blocks \in SUBSET (Nat \ {0}) /\ IsFiniteSet(blocks)
  <2>1. k.id \in Nat /\ v.id \in Nat  BY <1>5, <1>6, Texts0
  <2>2. IsFiniteSet({k.id, v.id})
    <3>1. IsFiniteSet({k.id})  BY FS_Singleton
    <3>2. IsFiniteSet({k.id} \cup {v.id})  BY <3>1, FS_AddElement
    <3>3. {k.id, v.id} = {k.id} \cup {v.id}  OBVIOUS
    <3> QED BY <3>2, <3>3
  <2>3. blocks \in SUBSET {k.id, v.id}  OBVIOUS
  <2>4. IsFiniteSet(blocks)  BY <2>2, <2>3, FS_Subset
  <2> QED BY <2>1, <2>4
<1>8. d \in DskOf(n)
  <2>1. t \in TagsType  BY <1>1, <1>2, DiskIs
  <2> HIDE DEF t, k, v, n
  <2>2. SetTag(t, k, v) \in TagsType  BY <2>1, <1>5, <1>6, SetTagIs
  <2> QED BY <1>1, <1>2, <2>2, PutTagsIs
<1>9. ~mixed => Sound(n, d, KeptBlocks(d, strings, given, blocks))
  <2> HIDE DEF k, v, n
  <2> SUFFICES ASSUME ~mixed PROVE Sound(n, d, KeptBlocks(d, strings, given, blocks))
    OBVIOUS
  <2>1. Sound(n, d, KeptBlocks(d, strings, Freed(t, k.s, v), {k.id, v.id} \ {0}))
    BY <1>1, <1>2, <1>5, <1>6, EditTagSound
  <2> QED BY <1>5, <2>1
<1> HIDE DEF d, given, blocks, n
<1> QED BY <1>1, <1>2, <1>7, <1>8, <1>9, EditStep

LEMMA ReplayStep ==
  ASSUME EditorInv, NEW m \in Nat, NEW val \in Vals \cup {Nil}, EditReplay(m, val)
  PROVE  EditorInv'
<1> DEFINE n == edited.nb
           old == edited.mus[m].replay
           new == IF val = Nil THEN Blank
                  ELSE IF val = old.s THEN old ELSE [s |-> val, id |-> Fresh(1)]
           d == PutReplay(edited, m, new)
           given == IF new = old THEN {} ELSE {old.id}
           blocks == {new.id} \ {0}
<1>1. edited # EmptyDsk /\ m \in 1..n /\ Edit(d, given, blocks)  BY Zenon DEF EditReplay, PutReplay
<1>2. /\ n \in Nat \ {0} /\ edited \in DskOf(n) /\ (~mixed => Sound(n, edited, strings))
      /\ 0 \notin strings /\ IsFiniteSet(strings)
  BY <1>1, EditorIs
<1>3. val \in STRING  BY DiskAssumption, Texts0
<1>4. Fresh(1) \in Nat \ {0} /\ Fresh(1) \notin strings  BY <1>2, FreshIs
<1>5. old \in Text
  <2> HIDE DEF n
  <2>1. edited.mus[m] \in TrackSet  BY <1>1, <1>2, DiskIs
  <2> QED BY <2>1 DEF TrackSet
<1> HIDE DEF old
<1>6. new \in Text /\ (new # old => new.id \notin strings)
  <2>1. CASE val = Nil
    <3>1. new = Blank  BY <2>1
    <3> QED BY <1>2, <3>1, Texts0
  <2>2. CASE val # Nil /\ val = old.s
    <3>1. new = old  BY <2>2
    <3> QED BY <1>5, <3>1
  <2>3. CASE val # Nil /\ val # old.s
    <3>1. new = [s |-> val, id |-> Fresh(1)]  BY <2>3
    <3>2. new.id = Fresh(1) /\ new \in Text  BY <3>1, <1>3, <1>4 DEF Text
    <3> QED BY <1>4, <3>2
  <2> QED BY <2>1, <2>2, <2>3
<1> HIDE DEF new
<1>7. blocks \in SUBSET (Nat \ {0}) /\ IsFiniteSet(blocks)
  <2>1. new.id \in Nat  BY <1>6, Texts0
  <2>2. blocks \in SUBSET {new.id} /\ IsFiniteSet({new.id})  BY FS_Singleton
  <2>3. IsFiniteSet(blocks)  BY <2>2, FS_Subset
  <2> QED BY <2>1, <2>3
<1> HIDE DEF n
<1>8. /\ d \in DskOf(n)
      /\ \A j \in 0..n : TagsAt(d, j) = TagsAt(edited, j)
      /\ \A i \in 1..n : d.mus[i].replay = IF i = m THEN new ELSE edited.mus[i].replay
  <2>1. ReplayPut(n, edited, m, new, d)
    <3>1. d = PutReplay(edited, m, new)  BY <1>1, <1>2
    <3> HIDE DEF d
    <3> QED BY <1>1, <1>2, <1>6, <3>1, PutReplayIs
  <2> QED BY <2>1 DEF ReplayPut
<1>9. ~mixed => Sound(n, d, KeptBlocks(d, strings, given, blocks))
  <2> SUFFICES ASSUME ~mixed PROVE Sound(n, d, KeptBlocks(d, strings, given, blocks))
    OBVIOUS
  <2>1. CASE new # old
    <3>1. given = {edited.mus[m].replay.id}  BY <2>1 DEF old
    <3> QED BY <1>1, <1>2, <1>6, <2>1, <3>1, ReplaySound
  <2>2. CASE new = old
    <3>1. SameStrings(n, edited, d)  BY <1>8, <2>2 DEF SameStrings, old
    <3>2. blocks \subseteq strings
      <4> DEFINE p == <<m, 0, "replay">>
      <4>1. p \in PlacesOf(n)  BY <1>1 DEF PlacesOf
      <4>2. p[1] = m /\ p[3] = "replay"  OBVIOUS
      <4> HIDE DEF p
      <4>3. IdAt(edited, p) = old.id  BY <4>2, Zenon DEF IdAt, old
      <4>4. Places(edited) = PlacesOf(n) /\ Ids(edited)[p] = old.id  BY <1>2, <4>1, <4>3, PlaceIs
      <4>5. old.id # 0 => old.id \in strings  BY <1>2, <4>1, <4>4 DEF Sound, Owned
      <4> QED BY <2>2, <4>5
    <3>3. given = {}  BY <2>2
    <3> HIDE DEF d, blocks, given
    <3> QED BY <1>2, <1>8, <3>1, <3>2, <3>3, SameSound
  <2> QED BY <2>1, <2>2
<1> HIDE DEF d, given, blocks
<1> QED BY <1>1, <1>2, <1>7, <1>8, <1>9, EditStep

(* An edit of a track that touches no string.                              *)
LEMMA TrackStep ==
  ASSUME EditorInv, edited # EmptyDsk, NEW m \in 1..edited.nb, NEW w \in TrackSet,
         w.tags = edited.mus[m].tags, w.replay = edited.mus[m].replay,
         Edit(PutTrack(edited, m, w), {}, {})
  PROVE  EditorInv'
<1> DEFINE n == edited.nb
           d == PutTrack(edited, m, w)
<1>1. /\ n \in Nat \ {0} /\ edited \in DskOf(n) /\ (~mixed => Sound(n, edited, strings))
  BY EditorIs
<1>2. Edit(d, {}, {})  OBVIOUS
<1>3. m \in 1..n  OBVIOUS
<1> HIDE DEF n
<1>4. d \in DskOf(n) /\ SameStrings(n, edited, d)  BY <1>1, <1>3, PutTrackIs
<1> HIDE DEF d
<1>5. {} \in SUBSET (Nat \ {0}) /\ IsFiniteSet({}) /\ {} \subseteq strings  BY FS_EmptySet
<1>6. ~mixed => Sound(n, d, KeptBlocks(d, strings, {}, {}))  BY <1>1, <1>4, <1>5, SameSound
<1> QED BY <1>1, <1>2, <1>4, <1>5, <1>6, EditStep

LEMMA LengthStep ==
  ASSUME EditorInv, NEW m \in Nat, NEW ms \in Lengths \cup {0}, EditLength(m, ms)
  PROVE  EditorInv'
<1> DEFINE o == edited.mus[m]
           time == ms > 0
           fr == MsInFr(ms, o.frq)
           w1 == [o EXCEPT !.time = time]
           w2 == [w1 EXCEPT !.first_ms = ms]
           w3 == [w2 EXCEPT !.loops_ms = ms]
           w4 == [w3 EXCEPT !.first_fr = fr]
           w5 == [w4 EXCEPT !.loops_fr = fr]
           w == [o EXCEPT !.time = time, !.first_ms = ms, !.loops_ms = ms, !.first_fr = fr,
                          !.loops_fr = fr]
<1>1. edited # EmptyDsk /\ m \in 1..edited.nb /\ Edit(PutTrack(edited, m, w), {}, {})
  BY Zenon DEF EditLength, PutTrack
<1>2. o \in TrackSet  BY <1>1, EditorIs, DiskIs
<1> HIDE DEF o
<1>3. ms \in Nat  BY DiskAssumption
<1>4. fr \in Nat
  <2> DEFINE f == o.frq
  <2>1. f \in Hertz  BY <1>2 DEF TrackSet
  <2> HIDE DEF f, w
  <2>2. MsInFr(ms, f) \in Nat  BY <1>3, <2>1, MsNat, Zenon
  <2> QED BY <2>2 DEF f
<1>5. time \in BOOLEAN  OBVIOUS
<1> HIDE DEF fr, time
<1>6. w = w5  OBVIOUS
<1>7. w1 \in TrackSet /\ w1.tags = o.tags /\ w1.replay = o.replay  BY <1>2, <1>5 DEF TrackSet
<1> HIDE DEF w1
<1>8. w2 \in TrackSet /\ w2.tags = o.tags /\ w2.replay = o.replay  BY <1>3, <1>7 DEF TrackSet
<1> HIDE DEF w2
<1>9. w3 \in TrackSet /\ w3.tags = o.tags /\ w3.replay = o.replay  BY <1>3, <1>8 DEF TrackSet
<1> HIDE DEF w3
<1>10. w4 \in TrackSet /\ w4.tags = o.tags /\ w4.replay = o.replay  BY <1>4, <1>9 DEF TrackSet
<1> HIDE DEF w4
<1>11. w5 \in TrackSet /\ w5.tags = o.tags /\ w5.replay = o.replay  BY <1>4, <1>10 DEF TrackSet
<1> HIDE DEF w5, w
<1> QED BY <1>1, <1>6, <1>11, TrackStep DEF o

LEMMA HardwareStep ==
  ASSUME EditorInv, NEW m \in Nat, NEW hw \in HwSets \cup {{}}, EditHardware(m, hw)
  PROVE  EditorInv'
<1> DEFINE o == edited.mus[m]
           w == [o EXCEPT !.hw = hw]
<1>1. edited # EmptyDsk /\ m \in 1..edited.nb /\ Edit(PutTrack(edited, m, w), {}, {})
  BY Zenon DEF EditHardware, PutTrack
<1>2. o \in TrackSet  BY <1>1, EditorIs, DiskIs
<1> HIDE DEF o
<1>3. hw \in SUBSET STRING  BY DiskAssumption
<1>4. w \in TrackSet /\ w.tags = o.tags /\ w.replay = o.replay  BY <1>2, <1>3 DEF TrackSet
<1> HIDE DEF w
<1> QED BY <1>1, <1>4, TrackStep DEF o

LEMMA PurgeStep ==
  ASSUME EditorInv, Purge
  PROVE  EditorInv'
<1> DEFINE n == edited.nb
           d == PurgedDisk(edited)
           given == UNION {Cut(TagsAt(edited, j)) : j \in 0..n}
<1>1. edited # EmptyDsk /\ Edit(d, given, {})
  BY Zenon DEF Purge, PurgedDisk, Cut
<1>2. /\ n \in Nat \ {0} /\ edited \in DskOf(n) /\ (~mixed => Sound(n, edited, strings))
      /\ 0 \notin strings
  BY <1>1, EditorIs
<1> HIDE DEF n
<1>3. d \in DskOf(n)  BY <1>2, PurgedDiskIs
<1>4. ~mixed => Sound(n, d, KeptBlocks(d, strings, given, {}))  BY <1>2, PurgeSound
<1>5. {} \in SUBSET (Nat \ {0}) /\ IsFiniteSet({})  BY FS_EmptySet
<1> HIDE DEF d, given
<1> QED BY <1>1, <1>2, <1>3, <1>4, <1>5, EditStep

LEMMA DskLoadStep ==
  ASSUME EditorInv, NEW f \in FileSet, DskLoad(f)
  PROVE  EditorInv'
<1>1. PICK n \in Nat \ {0} : Clean(n, LoadedDisk(f))  BY LoadedIs, Zenon DEF DskLoad
<1> DEFINE e == LoadedDisk(f)
<1>2. edited' = e /\ strings' = strings \ Held(edited) /\ mixed' = mixed  BY DEF DskLoad
<1>3. e \in DskOf(n) /\ e.nb = n /\ e # EmptyDsk /\ Sound(n, e, {})
  BY <1>1, DiskIs, CleanSound DEF Clean
<1> HIDE DEF e
<1>4. /\ edits' \in 0..MaxEdit
      /\ stored' = NoFile \/ stored' \in FileSet
  <2>1. CASE f = stored  BY <2>1 DEF DskLoad, EditorInv, EditorTyped
  <2>2. CASE f # stored
    <3>1. stored' = NoFile /\ edits' = 0  BY <2>2 DEF DskLoad
    <3> QED BY <3>1, DiskAssumption
  <2> QED BY <2>1, <2>2
<1>5. strings' \subseteq Nat \ {0} /\ IsFiniteSet(strings')
  <2>1. strings \ Held(edited) \in SUBSET strings  OBVIOUS
  <2> QED BY <1>2, <2>1, FS_Subset DEF EditorInv, EditorTyped
<1>6. ~mixed => strings \ Held(edited) = {}
  <2> SUFFICES ASSUME ~mixed PROVE strings \ Held(edited) = {}  OBVIOUS
  <2>1. CASE edited = EmptyDsk  BY <2>1 DEF EditorInv, EditorOwned
  <2>2. CASE edited # EmptyDsk
    <3>1. /\ edited.nb \in Nat \ {0} /\ edited \in DskOf(edited.nb)
          /\ Sound(edited.nb, edited, strings)
      BY <2>2, EditorIs
    <3> DEFINE k == edited.nb
    <3>2. Places(edited) = PlacesOf(k)  BY <3>1, PlaceIs
    <3>3. \A x \in strings : \E p \in PlacesOf(k) : Ids(edited)[p] = x
      BY <3>1, <3>2 DEF Sound, Owned
    <3>4. \A x \in strings : Holders(edited, x) # {}  BY <3>1, <3>3, HoldersAre
    <3> QED BY <2>2, <3>4 DEF Held
  <2> QED BY <2>1, <2>2
<1>7. EditorTyped'  BY <1>2, <1>3, <1>4, <1>5 DEF EditorTyped, EditorInv
<1>8. EditorOwned'  BY <1>2, <1>3, <1>6 DEF EditorOwned
<1> QED BY <1>7, <1>8 DEF EditorInv

LEMMA KillStep ==
  ASSUME EditorInv, DskKill
  PROVE  EditorInv'
<1>1. /\ edited # EmptyDsk /\ edited' = EmptyDsk /\ strings' = strings \ Held(edited)
      /\ stored' = NoFile /\ edits' = 0 /\ mixed' = mixed
  BY DEF DskKill
<1>2. strings' \subseteq Nat \ {0} /\ IsFiniteSet(strings')
  <2>1. strings \ Held(edited) \in SUBSET strings  OBVIOUS
  <2> QED BY <1>1, <2>1, FS_Subset DEF EditorInv, EditorTyped
<1>3. ~mixed => strings \ Held(edited) = {}
  <2> SUFFICES ASSUME ~mixed PROVE strings \ Held(edited) = {}  OBVIOUS
  <2>1. /\ edited.nb \in Nat \ {0} /\ edited \in DskOf(edited.nb)
        /\ Sound(edited.nb, edited, strings)
    BY <1>1, EditorIs
  <2> DEFINE k == edited.nb
  <2>2. Places(edited) = PlacesOf(k)  BY <2>1, PlaceIs
  <2>3. \A x \in strings : \E p \in PlacesOf(k) : Ids(edited)[p] = x
    BY <2>1, <2>2 DEF Sound, Owned
  <2>4. \A x \in strings : Holders(edited, x) # {}  BY <2>1, <2>3, HoldersAre
  <2> QED BY <1>1, <2>4 DEF Held
<1>4. 0 \in 0..MaxEdit  BY DiskAssumption
<1>5. EditorTyped'  BY <1>1, <1>2, <1>4 DEF EditorTyped, EditorInv
<1>6. EditorOwned'  BY <1>1, <1>3 DEF EditorOwned
<1> QED BY <1>5, <1>6 DEF EditorInv

LEMMA SaveStep ==
  ASSUME EditorInv, DskSave
  PROVE  EditorInv'
<1> DEFINE n == edited.nb
           e == DskValidated(edited)
<1>1. /\ edited # EmptyDsk /\ edited' = e /\ stored' = Saved(e)
      /\ strings' = strings /\ mixed' = mixed /\ edits' = edits
  BY DEF DskSave
<1>2. /\ n \in Nat \ {0} /\ edited \in DskOf(n) /\ (~mixed => Sound(n, edited, strings))
  BY <1>1, EditorIs
<1> HIDE DEF n
<1>3. e \in DskOf(n) /\ (~mixed => Sound(n, e, strings))
  BY <1>2, DskValidatedIs, ValidatedSound
<1> HIDE DEF e
<1>4. e.nb = n /\ e # EmptyDsk /\ Saved(e) \in FileSet  BY <1>2, <1>3, DiskIs, SavedIs
<1>5. EditorTyped'  BY <1>1, <1>2, <1>3, <1>4 DEF EditorTyped, EditorInv
<1>6. EditorOwned'  BY <1>1, <1>3, <1>4 DEF EditorOwned
<1> QED BY <1>5, <1>6 DEF EditorInv

LEMMA InfoStep ==
  ASSUME EditorInv, NEW m \in Nat, MusicInfo(m)
  PROVE  EditorInv'
<1> DEFINE n == edited.nb
           e == PutTags(PutTags(edited, 0, CountTags(edited.tags)), m, CountTags(edited.mus[m].tags))
<1>1. /\ edited # EmptyDsk /\ m \in 1..n /\ edited' = e
      /\ mixed' = (mixed \/ Gap(edited.tags) \/ Gap(edited.mus[m].tags))
      /\ strings' = strings /\ stored' = stored /\ edits' = edits
  BY DEF MusicInfo
<1>2. /\ n \in Nat \ {0} /\ edited \in DskOf(n) /\ (~mixed => Sound(n, edited, strings))
  BY <1>1, EditorIs
<1> HIDE DEF n
<1>3. /\ e \in DskOf(n)
      /\ ~Gap(edited.tags) /\ ~Gap(edited.mus[m].tags) => SameStrings(n, edited, e)
  BY <1>1, <1>2, CountedSame
<1> HIDE DEF e
<1>4. e.nb = n /\ e # EmptyDsk  BY <1>2, <1>3, DiskIs
<1>5. ~mixed' => Sound(n, e, strings)
  <2> SUFFICES ASSUME ~mixed' PROVE Sound(n, e, strings)  OBVIOUS
  <2>1. Sound(n, edited, strings) /\ SameStrings(n, edited, e)  BY <1>1, <1>2, <1>3
  <2>2. Sound(n, e, KeptBlocks(e, strings, {}, {}))  BY <1>2, <1>3, <2>1, SameSound
  <2>3. KeptBlocks(e, strings, {}, {}) = strings  BY DEF KeptBlocks
  <2> QED BY <2>2, <2>3
<1>6. mixed' \in BOOLEAN  BY <1>1 DEF Gap, EditorInv, EditorTyped
<1>7. EditorTyped'  BY <1>1, <1>2, <1>3, <1>6 DEF EditorTyped, EditorInv
<1>8. EditorOwned'  BY <1>1, <1>4, <1>5 DEF EditorOwned
<1> QED BY <1>7, <1>8 DEF EditorInv

LEMMA EditorNext ==
  ASSUME EditorInv, [DiskNext]_editorVars
  PROVE  EditorInv'
<1>1. CASE \E f \in IF edited = EmptyDsk THEN Files ELSE {stored} \ {NoFile} : DskLoad(f)
  <2>1. PICK f \in IF edited = EmptyDsk THEN Files ELSE {stored} \ {NoFile} : DskLoad(f)
    BY <1>1
  <2>2. f \in FileSet  BY DiskAssumption DEF EditorInv, EditorTyped
  <2> QED BY <2>1, <2>2, DskLoadStep
<1>2. CASE \E n \in 0..2, key \in Keys, val \in Vals \cup {Nil} : EditTag(n, key, val)
  <2>1. PICK n \in 0..2, key \in Keys, val \in Vals \cup {Nil} : EditTag(n, key, val)  BY <1>2
  <2>2. n \in Nat  OBVIOUS
  <2> QED BY <2>1, <2>2, EditTagStep
<1>3. ASSUME NEW n \in 1..2,
             \/ \E val \in Vals \cup {Nil} : EditReplay(n, val)
             \/ \E ms \in Lengths \cup {0} : EditLength(n, ms)
             \/ \E hw \in HwSets \cup {{}} : EditHardware(n, hw)
             \/ MusicInfo(n)
      PROVE  EditorInv'
  <2>1. n \in Nat  OBVIOUS
  <2>2. CASE \E val \in Vals \cup {Nil} : EditReplay(n, val)  BY <2>1, <2>2, ReplayStep
  <2>3. CASE \E ms \in Lengths \cup {0} : EditLength(n, ms)  BY <2>1, <2>3, LengthStep
  <2>4. CASE \E hw \in HwSets \cup {{}} : EditHardware(n, hw)  BY <2>1, <2>4, HardwareStep
  <2>5. CASE MusicInfo(n)  BY <2>1, <2>5, InfoStep
  <2> QED BY <1>3, <2>2, <2>3, <2>4, <2>5
<1>4. CASE Purge  BY <1>4, PurgeStep
<1>5. CASE DskSave  BY <1>5, SaveStep
<1>6. CASE DskKill  BY <1>6, KillStep
<1>7. CASE UNCHANGED editorVars
  <2>1. /\ edited' = edited /\ strings' = strings /\ mixed' = mixed /\ stored' = stored
        /\ edits' = edits
    BY <1>7 DEF editorVars
  <2> QED BY <2>1 DEF EditorInv, EditorTyped, EditorOwned
<1> QED BY <1>1, <1>2, <1>3, <1>4, <1>5, <1>6, <1>7 DEF DiskNext

LEMMA EditorInit == DiskInit => EditorInv
<1> SUFFICES ASSUME DiskInit PROVE EditorInv  OBVIOUS
<1>1. IsFiniteSet({})  BY FS_EmptySet
<1>2. 0 \in 0..MaxEdit  BY DiskAssumption
<1> QED BY <1>1, <1>2 DEF DiskInit, EditorInv, EditorTyped, EditorOwned

LEMMA EditorAlways == DiskSpec => []EditorInv
<1>1. DiskInit => EditorInv  BY EditorInit
<1>2. EditorInv /\ [DiskNext]_editorVars => EditorInv'  BY EditorNext
<1> QED BY <1>1, <1>2, PTL DEF DiskSpec

LEMMA EditorTypes == EditorInv => DiskTypeOK
<1> SUFFICES ASSUME EditorInv PROVE DiskTypeOK  OBVIOUS
<1>1. CASE edited = EmptyDsk  BY <1>1 DEF EditorInv, EditorTyped, DiskTypeOK
<1>2. CASE edited # EmptyDsk
  <2> DEFINE n == edited.nb
  <2>1. n \in Nat \ {0} /\ edited \in DskOf(n)  BY <1>2, EditorIs
  <2>2. \A j \in 0..n : TagsAt(edited, j) \in TagsType  BY <2>1, DiskIs
  <2>3. edited.def \in 0..(n - 1) /\ edited.ms \in Nat /\ n > 0  BY <2>1 DEF DskOf
  <2>4. \A i \in 1..n : edited.mus[i] \in TrackSet  BY <2>1, DiskIs
  <2> HIDE DEF n
  <2>5. ASSUME NEW i \in 1..n
        PROVE  LET m == edited.mus[i] IN
                 /\ m.frq > 0 /\ m.loops >= 0 /\ m.data # Nil
                 /\ {m.first_ms, m.first_fr, m.loops_ms, m.loops_fr} \subseteq Nat
    <3> DEFINE m == edited.mus[i]
    <3>1. m \in TrackSet  BY <2>4
    <3> HIDE DEF m
    <3>2. /\ m.frq > 0 /\ m.loops >= 0 /\ m.data # Nil
          /\ {m.first_ms, m.first_fr, m.loops_ms, m.loops_fr} \subseteq Nat
      BY <3>1 DEF TrackSet, Hertz
    <3> QED BY <3>2 DEF m
  <2> QED BY <2>2, <2>3, <2>5 DEF n, EditorInv, EditorTyped, DiskTypeOK
<1> QED BY <1>1, <1>2

LEMMA EditorHolds == EditorInv => StringsOwned
<1> SUFFICES ASSUME EditorInv, ~mixed, NEW id \in strings
             PROVE  edited # EmptyDsk /\ Cardinality(Holders(edited, id)) = 1
  BY DEF StringsOwned
<1>1. edited # EmptyDsk  BY DEF EditorInv, EditorOwned
<1> DEFINE n == edited.nb
<1>2. n \in Nat \ {0} /\ edited \in DskOf(n) /\ Sound(n, edited, strings) /\ 0 \notin strings
  BY <1>1, EditorIs
<1> HIDE DEF n
<1>3. Places(edited) = PlacesOf(n) /\ Owned(PlacesOf(n), Ids(edited), strings)
  BY <1>2, PlaceIs DEF Sound
<1>4. PICK p \in PlacesOf(n) : Ids(edited)[p] = id  BY <1>3 DEF Owned
<1>5. Holders(edited, id) = {p}
  <2>1. Holders(edited, id) = {q \in PlacesOf(n) : Ids(edited)[q] = id}  BY <1>2, HoldersAre
  <2>2. \A q \in PlacesOf(n) : Ids(edited)[q] = id => q = p  BY <1>2, <1>3, <1>4 DEF Owned
  <2> QED BY <1>4, <2>1, <2>2
<1> QED BY <1>1, <1>5, FS_Singleton

-----------------------------------------------------------------------------
(* What the editor makes of a disk it loaded can be said in a file.        *)
SaysAs(m, w) ==
  /\ w.pic = m.pic /\ w.a0 = m.a0 /\ w.time = m.time /\ w.first_fr = m.first_fr
  /\ w.loop = m.loop /\ w.loops_fr = m.loops_fr
AllSaid(n, d) == \A i \in 1..n : Sayable(d.mus[i])

(* A disk ready to be saved.                                               *)
DskReady(n, d) ==
  /\ d \in DskOf(n) /\ AllSaid(n, d)
  /\ \A i \in 1..n : /\ d.mus[i].loops > 0
                     /\ d.mus[i].first_ms = FrToMs(d.mus[i].first_fr, d.mus[i].frq)

LEMMA SaidAs ==
  ASSUME NEW m, NEW w, SaysAs(m, w), Sayable(m)
  PROVE  Sayable(w)
BY DEF SaysAs, Sayable

LEMMA AllSaidAs ==
  ASSUME NEW n, NEW d, NEW e, AllSaid(n, d), \A i \in 1..n : SaysAs(d.mus[i], e.mus[i])
  PROVE  AllSaid(n, e)
BY SaidAs DEF AllSaid

LEMMA DskTrackSays ==
  ASSUME NEW m \in TrackSet
  PROVE  /\ SaysAs(m, DskTrack(m)) /\ DskTrack(m).loops > 0
         /\ DskTrack(m).first_ms = FrToMs(DskTrack(m).first_fr, DskTrack(m).frq)
<1> DEFINE c == IF m.loops > 0 THEN m.loops ELSE 1
           a == FrToMs(m.first_fr, m.frq)
           b == FrToMs(m.loops_fr, m.frq)
           w == DskTrack(m)
<1>1. w = [m EXCEPT !.loops = c, !.first_ms = a, !.loops_ms = b]  BY Zenon DEF DskTrack
<1>2. w.loops > 0  BY DskTrackIs
<1> HIDE DEF a, b, c, w
<1>3. SaysAs(m, w) /\ w.first_ms = a /\ w.frq = m.frq  BY <1>1 DEF TrackSet, SaysAs
<1> QED BY <1>2, <1>3 DEF a, w, SaysAs

LEMMA ValidatedReady ==
  ASSUME NEW n \in Nat \ {0}, NEW d \in DskOf(n), AllSaid(n, d)
  PROVE  DskReady(n, DskValidated(d))
<1> DEFINE mus == [i \in 1..n |-> DskTrack(d.mus[i])]
           a == TotalMs(mus)
           h == DskFlags({mus[i].hw : i \in 1..n})
           e == DskValidated(d)
<1>1. d.nb = n /\ d.mus \in [1..n -> TrackSet]  BY DEF DskOf
<1>2. e = [d EXCEPT !.mus = mus, !.ms = a, !.hw = h]
  <2>1. [d EXCEPT !.mus = [i \in 1..d.nb |-> DskTrack(@[i])]] = [d EXCEPT !.mus = mus]  BY <1>1
  <2> DEFINE x == [d EXCEPT !.mus = mus]
  <2>2. x.nb = n /\ x.mus = mus
    <3> HIDE DEF mus
    <3> QED BY <1>1 DEF DskOf
  <2>3. e = DskTotal(x)  BY <2>1, Zenon DEF DskValidated
  <2>4. DskTotal(x) = [x EXCEPT !.ms = a, !.hw = h]
    <3> HIDE DEF x, mus
    <3> QED BY <2>2 DEF DskTotal
  <2> HIDE DEF mus, a, h
  <2> QED BY <2>3, <2>4
<1> HIDE DEF a, h, e
<1>3. e.mus = mus
  <2> HIDE DEF mus
  <2> QED BY <1>2 DEF DskOf
<1>4. ASSUME NEW i \in 1..n
      PROVE  /\ SaysAs(d.mus[i], e.mus[i]) /\ e.mus[i].loops > 0
             /\ e.mus[i].first_ms = FrToMs(e.mus[i].first_fr, e.mus[i].frq)
  <2>1. e.mus[i] = DskTrack(d.mus[i])  BY <1>3
  <2>2. d.mus[i] \in TrackSet  BY <1>1
  <2> QED BY <2>1, <2>2, DskTrackSays
<1>5. AllSaid(n, e)  BY <1>4, AllSaidAs
<1>6. e \in DskOf(n)  BY DskValidatedIs DEF e
<1> QED BY <1>4, <1>5, <1>6 DEF DskReady, e

LEMMA PutTagsSays ==
  ASSUME NEW n \in Nat \ {0}, NEW d \in DskOf(n), NEW m \in 0..n, NEW u
  PROVE  \A i \in 1..n : SaysAs(d.mus[i], PutTags(d, m, u).mus[i])
<1>1. d.mus \in [1..n -> TrackSet]  BY DEF DskOf
<1>2. CASE m = 0
  <2> DEFINE e == [d EXCEPT !.tags = u]
  <2>1. PutTags(d, m, u) = e  BY <1>2 DEF PutTags
  <2>2. e.mus = d.mus  BY DEF DskOf
  <2> QED BY <2>1, <2>2 DEF SaysAs
<1>3. CASE m # 0
  <2> DEFINE w == [d.mus[m] EXCEPT !.tags = u]
             mus == [d.mus EXCEPT ![m] = w]
             e == [d EXCEPT !.mus = mus]
  <2>1. m \in 1..n  BY <1>3
  <2>2. SaysAs(d.mus[m], w)
    <3> d.mus[m] \in TrackSet  BY <1>1, <2>1
    <3> QED BY DEF TrackSet, SaysAs
  <2>3. PutTags(d, m, u) = e  BY <1>3 DEF PutTags
  <2> HIDE DEF w
  <2>4. mus[m] = w /\ \A j \in 1..n : j # m => mus[j] = d.mus[j]  BY <1>1, <2>1
  <2> HIDE DEF mus
  <2>5. e.mus = mus  BY DEF DskOf
  <2> HIDE DEF e
  <2>6. ASSUME NEW i \in 1..n PROVE SaysAs(d.mus[i], e.mus[i])
    <3>1. CASE i = m  BY <2>2, <2>4, <2>5, <3>1
    <3>2. CASE i # m  BY <2>4, <2>5, <3>2 DEF SaysAs
    <3> QED BY <3>1, <3>2
  <2> QED BY <2>3, <2>6
<1> QED BY <1>2, <1>3

LEMMA PutReplaySays ==
  ASSUME NEW n \in Nat \ {0}, NEW d \in DskOf(n), NEW m \in 1..n, NEW r
  PROVE  \A i \in 1..n : SaysAs(d.mus[i], PutReplay(d, m, r).mus[i])
<1> DEFINE w == [d.mus[m] EXCEPT !.replay = r]
           mus == [d.mus EXCEPT ![m] = w]
           e == [d EXCEPT !.mus = mus]
<1>1. d.mus \in [1..n -> TrackSet] /\ d.mus[m] \in TrackSet  BY DEF DskOf
<1>2. SaysAs(d.mus[m], w)  BY <1>1 DEF TrackSet, SaysAs
<1>3. PutReplay(d, m, r) = e  BY DEF PutReplay
<1> HIDE DEF w
<1>4. mus[m] = w /\ \A j \in 1..n : j # m => mus[j] = d.mus[j]  BY <1>1
<1> HIDE DEF mus
<1>5. e.mus = mus  BY DEF DskOf
<1> HIDE DEF e
<1>6. ASSUME NEW i \in 1..n PROVE SaysAs(d.mus[i], e.mus[i])
  <2>1. CASE i = m  BY <1>2, <1>4, <1>5, <2>1
  <2>2. CASE i # m  BY <1>4, <1>5, <2>2 DEF SaysAs
  <2> QED BY <2>1, <2>2
<1> QED BY <1>3, <1>6

LEMMA PutTrackSays ==
  ASSUME NEW n \in Nat \ {0}, NEW d \in DskOf(n), AllSaid(n, d), NEW m \in 1..n, NEW w, Sayable(w)
  PROVE  AllSaid(n, PutTrack(d, m, w))
<1> DEFINE mus == [d.mus EXCEPT ![m] = w]
           e == [d EXCEPT !.mus = mus]
<1>1. d.mus \in [1..n -> TrackSet]  BY DEF DskOf
<1>2. PutTrack(d, m, w) = e  BY DEF PutTrack
<1>3. mus[m] = w /\ \A j \in 1..n : j # m => mus[j] = d.mus[j]  BY <1>1
<1> HIDE DEF mus
<1>4. e.mus = mus  BY DEF DskOf
<1> HIDE DEF e
<1>5. AllSaid(n, e)  BY <1>3, <1>4 DEF AllSaid
<1> QED BY <1>2, <1>5

LEMMA PurgedSays ==
  ASSUME NEW n \in Nat \ {0}, NEW d \in DskOf(n)
  PROVE  \A i \in 1..n : SaysAs(d.mus[i], PurgedDisk(d).mus[i])
<1> DEFINE mus == [i \in 1..n |-> [d.mus[i] EXCEPT !.tags = Purged(@)]]
           t == Purged(d.tags)
           e == [d EXCEPT !.tags = t, !.mus = mus]
<1>1. d.nb = n /\ d.mus \in [1..n -> TrackSet]  BY DEF DskOf
<1>2. ASSUME NEW i \in 1..n PROVE SaysAs(d.mus[i], mus[i])
  <2> DEFINE u == Purged(d.mus[i].tags)
             w == [d.mus[i] EXCEPT !.tags = u]
  <2>1. d.mus[i] \in TrackSet
    <3> HIDE DEF mus, t, e
    <3> QED BY <1>1
  <2>2. mus[i] = w  OBVIOUS
  <2> HIDE DEF u, mus
  <2>3. SaysAs(d.mus[i], w)  BY <2>1 DEF TrackSet, SaysAs
  <2> QED BY <2>2, <2>3
<1>3. PurgedDisk(d) = e  BY <1>1 DEF PurgedDisk
<1> HIDE DEF mus, t
<1>4. e.mus = mus  BY DEF DskOf
<1> HIDE DEF e
<1> QED BY <1>2, <1>3, <1>4

(* So what is edited can be said, and the file last saved says what was    *)
(* kept of it.                                                             *)
EditorSaid == edited # EmptyDsk => AllSaid(edited.nb, edited)
EditorKept ==
  \/ stored = NoFile
  \/ stored = Saved(kept) /\ \E n \in Nat \ {0} : DskReady(n, kept) /\ (~mixed => AllTidy(n, kept))
EditorTold == EditorSaid /\ EditorKept

LEMMA EditTold ==
  ASSUME EditorTold, NEW n \in Nat \ {0}, NEW d \in DskOf(n), AllSaid(n, d),
         NEW given, NEW blocks, Edit(d, given, blocks)
  PROVE  EditorTold'
<1> DEFINE e == DskValidated(d)
<1>1. /\ edited' = e /\ stored' = stored /\ kept' = kept /\ mixed' = mixed  BY DEF Edit
<1>2. DskReady(n, e)  BY ValidatedReady
<1> HIDE DEF e
<1>3. e.nb = n /\ AllSaid(n, e)  BY <1>2, DiskIs DEF DskReady
<1>4. EditorSaid'  BY <1>1, <1>3 DEF EditorSaid
<1>5. EditorKept'  BY <1>1 DEF EditorTold, EditorKept
<1> QED BY <1>4, <1>5 DEF EditorTold

LEMMA EditedIs ==
  ASSUME EditorInv, EditorTold, edited # EmptyDsk
  PROVE  /\ edited.nb \in Nat \ {0} /\ edited \in DskOf(edited.nb) /\ AllSaid(edited.nb, edited)
         /\ ~mixed => AllTidy(edited.nb, edited)
BY EditorIs DEF EditorTold, EditorSaid, Sound

LEMMA TagTold ==
  ASSUME EditorInv, EditorTold, NEW m \in Nat, NEW key \in Keys, NEW val \in Vals \cup {Nil},
         EditTag(m, key, val)
  PROVE  EditorTold'
<1> DEFINE n == edited.nb
           t == TagsAt(edited, m)
           k == [s |-> key, id |-> Fresh(1)]
           v == IF val = Nil THEN Blank ELSE [s |-> val, id |-> Fresh(2)]
           d == PutTags(edited, m, SetTag(t, k, v))
           given == Freed(t, key, v)
           blocks == {k.id, v.id} \ {0}
<1>1. edited # EmptyDsk /\ m \in 0..n /\ Edit(d, given, blocks)  BY Zenon DEF EditTag
<1>2. n \in Nat \ {0} /\ edited \in DskOf(n) /\ AllSaid(n, edited) /\ IsFiniteSet(strings)
  BY <1>1, EditedIs, EditorIs
<1>3. key \in STRING /\ val \in STRING  BY DiskAssumption, Texts0
<1>4. Fresh(1) \in Nat /\ Fresh(2) \in Nat  BY <1>2, FreshIs
<1>5. k \in Text /\ v \in Text
  <2>1. val = Nil => v = Blank  OBVIOUS
  <2> QED BY <1>3, <1>4, <2>1, Texts0 DEF Text
<1>6. t \in TagsType  BY <1>1, <1>2, DiskIs
<1> HIDE DEF t, k, v, n, given, blocks
<1>7. SetTag(t, k, v) \in TagsType  BY <1>5, <1>6, SetTagIs
<1>8. d \in DskOf(n) /\ \A i \in 1..n : SaysAs(edited.mus[i], d.mus[i])
  BY <1>1, <1>2, <1>7, PutTagsIs, PutTagsSays
<1> HIDE DEF d
<1>9. AllSaid(n, d)  BY <1>2, <1>8, AllSaidAs
<1> QED BY <1>1, <1>2, <1>8, <1>9, EditTold

LEMMA ReplayTold ==
  ASSUME EditorInv, EditorTold, NEW m \in Nat, NEW val \in Vals \cup {Nil}, EditReplay(m, val)
  PROVE  EditorTold'
<1> DEFINE n == edited.nb
           old == edited.mus[m].replay
           new == IF val = Nil THEN Blank
                  ELSE IF val = old.s THEN old ELSE [s |-> val, id |-> Fresh(1)]
           d == PutReplay(edited, m, new)
           given == IF new = old THEN {} ELSE {old.id}
           blocks == {new.id} \ {0}
<1>1. edited # EmptyDsk /\ m \in 1..n /\ Edit(d, given, blocks)  BY Zenon DEF EditReplay, PutReplay
<1>2. n \in Nat \ {0} /\ edited \in DskOf(n) /\ AllSaid(n, edited) /\ IsFiniteSet(strings)
  BY <1>1, EditedIs, EditorIs
<1>3. val \in STRING  BY DiskAssumption, Texts0
<1>4. Fresh(1) \in Nat  BY <1>2, FreshIs
<1>5. old \in Text
  <2> HIDE DEF n
  <2>1. edited.mus[m] \in TrackSet  BY <1>1, <1>2, DiskIs
  <2> QED BY <2>1 DEF TrackSet
<1> HIDE DEF old
<1>6. new \in Text
  <2>1. [s |-> val, id |-> Fresh(1)] \in Text  BY <1>3, <1>4 DEF Text
  <2> QED BY <1>5, <2>1, Texts0
<1> HIDE DEF new, n, given, blocks
<1>7. d \in DskOf(n) /\ \A i \in 1..n : SaysAs(edited.mus[i], d.mus[i])
  BY <1>1, <1>2, <1>6, PutReplayIs, PutReplaySays DEF ReplayPut
<1> HIDE DEF d
<1>8. AllSaid(n, d)  BY <1>2, <1>7, AllSaidAs
<1> QED BY <1>1, <1>2, <1>7, <1>8, EditTold

LEMMA TrackTold ==
  ASSUME EditorInv, EditorTold, edited # EmptyDsk, NEW m \in 1..edited.nb, NEW w \in TrackSet,
         w.tags = edited.mus[m].tags, w.replay = edited.mus[m].replay,
         Sayable(edited.mus[m]) => Sayable(w), Edit(PutTrack(edited, m, w), {}, {})
  PROVE  EditorTold'
<1> DEFINE n == edited.nb
           d == PutTrack(edited, m, w)
<1>1. n \in Nat \ {0} /\ edited \in DskOf(n) /\ AllSaid(n, edited)  BY EditedIs
<1>2. m \in 1..n /\ Edit(d, {}, {})  OBVIOUS
<1> HIDE DEF n
<1>3. d \in DskOf(n)  BY <1>1, <1>2, PutTrackIs
<1>4. AllSaid(n, d)  BY <1>1, <1>2, PutTrackSays DEF AllSaid
<1> HIDE DEF d
<1> QED BY <1>1, <1>2, <1>3, <1>4, EditTold

LEMMA LengthTold ==
  ASSUME EditorInv, EditorTold, NEW m \in Nat, NEW ms \in Lengths \cup {0}, EditLength(m, ms)
  PROVE  EditorTold'
<1> DEFINE o == edited.mus[m]
           time == ms > 0
           fr == MsInFr(ms, o.frq)
           w == [o EXCEPT !.time = time, !.first_ms = ms, !.loops_ms = ms, !.first_fr = fr,
                          !.loops_fr = fr]
<1>1. edited # EmptyDsk /\ m \in 1..edited.nb /\ Edit(PutTrack(edited, m, w), {}, {})
  BY Zenon DEF EditLength, PutTrack
<1>2. o \in TrackSet  BY <1>1, EditorIs, DiskIs
<1> HIDE DEF o
<1>3. ms \in Nat  BY DiskAssumption
<1>4. fr \in Nat /\ (~time => fr = 0)
  <2> DEFINE f == o.frq
  <2>1. f \in Hertz  BY <1>2 DEF TrackSet
  <2> HIDE DEF f, w
  <2>2. MsInFr(ms, f) \in Nat  BY <1>3, <2>1, MsNat, Zenon
  <2>3. ~time => ms = 0  BY <1>3
  <2>4. MsInFr(0, f) = 0  BY <2>1, NoFrames
  <2> QED BY <2>2, <2>3, <2>4 DEF f
<1>5. time \in BOOLEAN  OBVIOUS
<1> HIDE DEF fr, time
<1>6. /\ w.pic = o.pic /\ w.a0 = o.a0 /\ w.time = time /\ w.first_fr = fr /\ w.loops_fr = fr
      /\ w.tags = o.tags /\ w.replay = o.replay
  BY <1>2 DEF TrackSet
<1>7. w \in TrackSet
  <2> DEFINE w1 == [o EXCEPT !.time = time]
             w2 == [w1 EXCEPT !.first_ms = ms]
             w3 == [w2 EXCEPT !.loops_ms = ms]
             w4 == [w3 EXCEPT !.first_fr = fr]
             w5 == [w4 EXCEPT !.loops_fr = fr]
  <2>1. w = w5  OBVIOUS
  <2>2. w1 \in TrackSet  BY <1>2, <1>5 DEF TrackSet
  <2> HIDE DEF w1
  <2>3. w2 \in TrackSet  BY <1>3, <2>2 DEF TrackSet
  <2> HIDE DEF w2
  <2>4. w3 \in TrackSet  BY <1>3, <2>3 DEF TrackSet
  <2> HIDE DEF w3
  <2>5. w4 \in TrackSet  BY <1>4, <2>4 DEF TrackSet
  <2> HIDE DEF w4
  <2>6. w5 \in TrackSet  BY <1>4, <2>5 DEF TrackSet
  <2> HIDE DEF w5, w
  <2> QED BY <2>1, <2>6
<1> HIDE DEF w
<1>8. Sayable(o) => Sayable(w)  BY <1>4, <1>6 DEF Sayable
<1> QED BY <1>1, <1>6, <1>7, <1>8, TrackTold DEF o

LEMMA HardwareTold ==
  ASSUME EditorInv, EditorTold, NEW m \in Nat, NEW hw \in HwSets \cup {{}}, EditHardware(m, hw)
  PROVE  EditorTold'
<1> DEFINE o == edited.mus[m]
           w == [o EXCEPT !.hw = hw]
<1>1. edited # EmptyDsk /\ m \in 1..edited.nb /\ Edit(PutTrack(edited, m, w), {}, {})
  BY Zenon DEF EditHardware, PutTrack
<1>2. o \in TrackSet  BY <1>1, EditorIs, DiskIs
<1> HIDE DEF o
<1>3. hw \in SUBSET STRING  BY DiskAssumption
<1>4. w \in TrackSet /\ w.tags = o.tags /\ w.replay = o.replay /\ SaysAs(o, w)
  BY <1>2, <1>3 DEF TrackSet, SaysAs
<1> HIDE DEF w
<1> QED BY <1>1, <1>4, SaidAs, TrackTold DEF o

LEMMA PurgeTold ==
  ASSUME EditorInv, EditorTold, Purge
  PROVE  EditorTold'
<1> DEFINE n == edited.nb
           d == PurgedDisk(edited)
           given == UNION {Cut(TagsAt(edited, j)) : j \in 0..n}
<1>1. edited # EmptyDsk /\ Edit(d, given, {})
  BY Zenon DEF Purge, PurgedDisk, Cut
<1>2. n \in Nat \ {0} /\ edited \in DskOf(n) /\ AllSaid(n, edited)  BY <1>1, EditedIs
<1> HIDE DEF n
<1>3. d \in DskOf(n) /\ \A i \in 1..n : SaysAs(edited.mus[i], d.mus[i])
  BY <1>2, PurgedDiskIs, PurgedSays
<1> HIDE DEF d, given
<1>4. AllSaid(n, d)  BY <1>2, <1>3, AllSaidAs
<1> QED BY <1>1, <1>2, <1>3, <1>4, EditTold

LEMMA LoadTold ==
  ASSUME EditorTold, NEW f \in FileSet, DskLoad(f)
  PROVE  EditorTold'
<1> DEFINE e == LoadedDisk(f)
           n == Len(f.mus)
<1>1. Clean(n, e) /\ n \in Nat \ {0}  BY LoadedIs, Zenon DEF DskLoad
<1>2. AllSaid(n, e)  BY LoadedSays DEF DskLoad, AllSaid
<1>3. edited' = e /\ mixed' = mixed  BY DEF DskLoad
<1> HIDE DEF e, n
<1>4. e.nb = n  BY <1>1, DiskIs DEF Clean
<1>5. EditorSaid'  BY <1>2, <1>3, <1>4 DEF EditorSaid
<1>6. EditorKept'
  <2>1. CASE f = stored
    <3>1. stored' = stored /\ kept' = kept  BY <2>1 DEF DskLoad
    <3> QED BY <1>3, <3>1 DEF EditorTold, EditorKept
  <2>2. CASE f # stored
    <3>1. stored' = NoFile  BY <2>2 DEF DskLoad
    <3> QED BY <3>1 DEF EditorKept
  <2> QED BY <2>1, <2>2
<1> QED BY <1>5, <1>6 DEF EditorTold

LEMMA SaveTold ==
  ASSUME EditorInv, EditorTold, DskSave
  PROVE  EditorTold'
<1> DEFINE n == edited.nb
           e == DskValidated(edited)
<1>1. /\ edited # EmptyDsk /\ edited' = e /\ stored' = Saved(e) /\ kept' = e /\ mixed' = mixed
  BY DEF DskSave
<1>2. /\ n \in Nat \ {0} /\ edited \in DskOf(n) /\ AllSaid(n, edited)
      /\ ~mixed => AllTidy(n, edited)
  BY <1>1, EditedIs
<1> HIDE DEF n
<1>3. DskReady(n, e) /\ SameStrings(n, edited, e)  BY <1>2, ValidatedReady, ValidatedSame
<1> HIDE DEF e
<1>4. ~mixed => AllTidy(n, e)  BY <1>2, <1>3 DEF SameStrings, AllTidy
<1>5. e.nb = n /\ AllSaid(n, e)  BY <1>2, <1>3, DiskIs DEF DskReady
<1>6. EditorSaid'  BY <1>1, <1>5 DEF EditorSaid
<1>7. EditorKept'  BY <1>1, <1>2, <1>3, <1>4 DEF EditorKept
<1> QED BY <1>6, <1>7 DEF EditorTold

LEMMA InfoTold ==
  ASSUME EditorInv, EditorTold, NEW m \in Nat, MusicInfo(m)
  PROVE  EditorTold'
<1> DEFINE n == edited.nb
           t == CountTags(edited.tags)
           u == CountTags(edited.mus[m].tags)
           c == PutTags(edited, 0, t)
           e == PutTags(c, m, u)
<1>1. /\ edited # EmptyDsk /\ m \in 1..n /\ edited' = e
      /\ mixed' = (mixed \/ Gap(edited.tags) \/ Gap(edited.mus[m].tags))
      /\ stored' = stored /\ kept' = kept
  BY DEF MusicInfo
<1>2. n \in Nat \ {0} /\ edited \in DskOf(n) /\ AllSaid(n, edited)  BY <1>1, EditedIs
<1> HIDE DEF n
<1>3. e \in DskOf(n)  BY <1>1, <1>2, CountedSame
<1>4. t \in TagsType
  <2>1. TagsAt(edited, 0) = edited.tags /\ 0 \in 0..n  BY <1>2 DEF TagsAt
  <2> QED BY <1>2, <2>1, DiskIs, CountTagsIs
<1> HIDE DEF t, u
<1>5. /\ c \in DskOf(n)
      /\ \A i \in 1..n : SaysAs(edited.mus[i], c.mus[i])
  BY <1>2, <1>4, PutTagsIs, PutTagsSays
<1> HIDE DEF c
<1>6. \A i \in 1..n : SaysAs(c.mus[i], e.mus[i])  BY <1>1, <1>2, <1>5, PutTagsSays
<1> HIDE DEF e
<1>7. AllSaid(n, e)
  <2>1. AllSaid(n, c)  BY <1>2, <1>5, AllSaidAs
  <2> QED BY <1>6, <2>1, AllSaidAs
<1>8. e.nb = n  BY <1>2, <1>3, DiskIs
<1>9. EditorSaid'  BY <1>1, <1>7, <1>8 DEF EditorSaid
<1>10. ~mixed' => ~mixed  BY <1>1
<1>11. EditorKept'  BY <1>1, <1>10 DEF EditorTold, EditorKept
<1> QED BY <1>9, <1>11 DEF EditorTold

LEMMA ToldNext ==
  ASSUME EditorInv, EditorTold, [DiskNext]_editorVars
  PROVE  EditorTold'
<1>1. CASE \E f \in IF edited = EmptyDsk THEN Files ELSE {stored} \ {NoFile} : DskLoad(f)
  <2>1. PICK f \in IF edited = EmptyDsk THEN Files ELSE {stored} \ {NoFile} : DskLoad(f)
    BY <1>1
  <2>2. f \in FileSet  BY DiskAssumption DEF EditorInv, EditorTyped
  <2> QED BY <2>1, <2>2, LoadTold
<1>2. CASE \E n \in 0..2, key \in Keys, val \in Vals \cup {Nil} : EditTag(n, key, val)
  <2>1. PICK n \in 0..2, key \in Keys, val \in Vals \cup {Nil} : EditTag(n, key, val)  BY <1>2
  <2>2. n \in Nat  OBVIOUS
  <2> QED BY <2>1, <2>2, TagTold
<1>3. ASSUME NEW n \in 1..2,
             \/ \E val \in Vals \cup {Nil} : EditReplay(n, val)
             \/ \E ms \in Lengths \cup {0} : EditLength(n, ms)
             \/ \E hw \in HwSets \cup {{}} : EditHardware(n, hw)
             \/ MusicInfo(n)
      PROVE  EditorTold'
  <2>1. n \in Nat  OBVIOUS
  <2>2. CASE \E val \in Vals \cup {Nil} : EditReplay(n, val)  BY <2>1, <2>2, ReplayTold
  <2>3. CASE \E ms \in Lengths \cup {0} : EditLength(n, ms)  BY <2>1, <2>3, LengthTold
  <2>4. CASE \E hw \in HwSets \cup {{}} : EditHardware(n, hw)  BY <2>1, <2>4, HardwareTold
  <2>5. CASE MusicInfo(n)  BY <2>1, <2>5, InfoTold
  <2> QED BY <1>3, <2>2, <2>3, <2>4, <2>5
<1>4. CASE Purge  BY <1>4, PurgeTold
<1>5. CASE DskSave  BY <1>5, SaveTold
<1>6. CASE DskKill
  <2>1. edited' = EmptyDsk /\ stored' = NoFile  BY <1>6 DEF DskKill
  <2> QED BY <2>1 DEF EditorTold, EditorSaid, EditorKept
<1>7. CASE UNCHANGED editorVars
  <2>1. edited' = edited /\ mixed' = mixed /\ stored' = stored /\ kept' = kept
    BY <1>7 DEF editorVars
  <2> QED BY <2>1 DEF EditorTold, EditorSaid, EditorKept
<1> QED BY <1>1, <1>2, <1>3, <1>4, <1>5, <1>6, <1>7 DEF DiskNext

LEMMA ToldAlways == DiskSpec => []EditorTold
<1>1. DiskInit => EditorTold  BY DEF DiskInit, EditorTold, EditorSaid, EditorKept
<1>2. EditorInv /\ EditorTold /\ [DiskNext]_editorVars => EditorTold'  BY ToldNext
<1>3. DiskSpec => []EditorInv  BY EditorAlways
<1> QED BY <1>1, <1>2, <1>3, PTL DEF DiskSpec

-----------------------------------------------------------------------------
(* Tags saved and read again.  Those that are saved, in the order of their *)
(* slots.                                                                  *)
LEMMA RankOnce ==
  ASSUME NEW F, IsFiniteSet(F), F \subseteq Nat, NEW a \in F, NEW b \in F,
         Cardinality(Upto(F, a)) = Cardinality(Upto(F, b))
  PROVE  a = b
<1>1. \A x, y \in F : /\ x <= y => Upto(F, x) \in SUBSET Upto(F, y)
                      /\ x \in Upto(F, y) <=> x <= y
  <2> SUFFICES ASSUME NEW x \in F, NEW y \in F
               PROVE  /\ x <= y => Upto(F, x) \in SUBSET Upto(F, y)
                      /\ x \in Upto(F, y) <=> x <= y
    OBVIOUS
  <2>1. \A j \in F : j <= x /\ x <= y => j <= y  OBVIOUS
  <2> QED BY <2>1 DEF Upto
<1>2. IsFiniteSet(Upto(F, a)) /\ IsFiniteSet(Upto(F, b))
  <2>1. Upto(F, a) \in SUBSET F /\ Upto(F, b) \in SUBSET F  BY DEF Upto
  <2> QED BY <2>1, FS_Subset
<1>3. a <= b \/ b <= a  OBVIOUS
<1>4. Upto(F, a) = Upto(F, b)  BY <1>1, <1>2, <1>3, FS_Subset
<1>5. a <= b /\ b <= a  BY <1>1, <1>4
<1> QED BY <1>5

SavedSlots(t) == {i \in Custom : t[i].key.s \notin {Nil, ""} /\ t[i].val.s \notin {Nil, ""}}
PairAt(t, i) == <<t[i].key.s, t[i].val.s>>
Saves(t, kvs) ==
  /\ kvs \in Pairs /\ Len(kvs) \in 0..CUSTOM
  /\ \A j \in 1..Len(kvs) : \E i \in SavedSlots(t) : kvs[j] = PairAt(t, i)
  /\ \A i \in SavedSlots(t) : \E j \in 1..Len(kvs) : kvs[j] = PairAt(t, i)
  /\ \A j, k \in 1..Len(kvs) : kvs[j][1] = kvs[k][1] => j = k

LEMMA CustomSavedAre ==
  ASSUME NEW t \in TagsType, Tidy(t)
  PROVE  Saves(t, CustomSaved(t))
<1> DEFINE F == SavedSlots(t)
           M == GENRE + CUSTOM
           c == Cardinality(F)
           kvs == CustomSaved(t)
           at(n) == RankedAs(F, n)
<1>1. M \in Nat /\ F \in SUBSET (1..M) /\ F \subseteq Custom
  <2>1. F \subseteq Custom  BY DEF SavedSlots
  <2>2. M \in Nat /\ Custom \subseteq 1..M  BY DiskAssumption DEF Custom, GENRE
  <2> HIDE DEF F, M
  <2> QED BY <2>1, <2>2
<1>2. F = {i \in Custom : t[i].key.s \notin {Nil, ""} /\ t[i].val.s \notin {Nil, ""}}
  BY DEF SavedSlots
<1>3. kvs = [n \in 1..c |-> PairAt(t, at(n))]
  BY Zenon DEF CustomSaved, RankedAs, PairAt, SavedSlots
<1>4. kvs \in Pairs  BY CustomSavedIs
<1> HIDE DEF F
<1>5. IsFiniteSet(F) /\ F \subseteq Nat /\ c \in 0..CUSTOM
  <2>1. IsFiniteSet(F) /\ c <= Cardinality(Custom) /\ c \in Nat
    BY <1>1, Slots, FS_Subset, FS_CardinalityType
  <2>2. Cardinality(Custom) = CUSTOM
    <3>1. GENRE + 1 \in Int /\ GENRE + CUSTOM \in Int  BY DiskAssumption DEF GENRE
    <3>2. Cardinality(Custom) = IF GENRE + 1 > GENRE + CUSTOM THEN 0
                                ELSE (GENRE + CUSTOM) - (GENRE + 1) + 1
      BY <3>1, FS_Interval DEF Custom
    <3> QED BY <3>2, DiskAssumption DEF GENRE
  <2>3. F \subseteq Nat  BY <1>1
  <2> HIDE DEF c
  <2> QED BY <2>1, <2>2, <2>3, DiskAssumption
<1>6. \A n \in 1..c : at(n) \in F /\ Cardinality(Upto(F, at(n))) = n
  <2> HIDE DEF M
  <2> QED BY <1>1, RankedIs
<1> HIDE DEF at, kvs
<1>7. Len(kvs) = c /\ \A j \in 1..c : kvs[j] = PairAt(t, at(j))
  <2> HIDE DEF c
  <2> QED BY <1>3, <1>5
<1>8. ASSUME NEW i \in F PROVE \E j \in 1..c : i = at(j)
  <2> DEFINE r == Cardinality(Upto(F, i))
  <2>1. r \in 1..c
    <3>1. Upto(F, i) \in SUBSET F /\ i \in Upto(F, i)  BY <1>5 DEF Upto
    <3>2. IsFiniteSet(Upto(F, i)) /\ r <= c /\ r \in Nat
      BY <1>5, <3>1, FS_Subset, FS_CardinalityType
    <3>3. r # 0  BY <3>1, <3>2, FS_EmptySet
    <3> HIDE DEF r, c
    <3> QED BY <1>5, <3>2, <3>3
  <2>2. at(r) \in F /\ Cardinality(Upto(F, at(r))) = r  BY <1>6, <2>1
  <2>3. i = at(r)
    <3> DEFINE b == at(r)
    <3>1. b \in F /\ Cardinality(Upto(F, b)) = Cardinality(Upto(F, i))  BY <2>2
    <3> HIDE DEF b
    <3>2. i = b  BY <1>5, <3>1, RankOnce
    <3> QED BY <3>2 DEF b
  <2> HIDE DEF r
  <2> QED BY <2>1, <2>3
<1>9. ASSUME NEW j \in 1..c, NEW k \in 1..c, kvs[j][1] = kvs[k][1] PROVE j = k
  <2>1. at(j) \in F /\ at(k) \in F  BY <1>6
  <2>2. t[at(j)].key.s = t[at(k)].key.s  BY <1>7, <1>9 DEF PairAt
  <2>3. at(j) \in Custom /\ at(k) \in Custom /\ t[at(j)].key.s # Nil  BY <1>1, <1>2, <2>1
  <2>4. at(j) = at(k)  BY <2>2, <2>3 DEF Tidy
  <2> HIDE DEF c
  <2> QED BY <1>6, <2>4
<1>10. \A j \in 1..c : \E i \in F : kvs[j] = PairAt(t, i)
  <2> HIDE DEF c
  <2> QED BY <1>6, <1>7
<1>11. \A i \in F : \E j \in 1..c : kvs[j] = PairAt(t, i)
  <2> HIDE DEF c
  <2> QED BY <1>7, <1>8
<1> HIDE DEF c
<1> QED BY <1>4, <1>5, <1>7, <1>9, <1>10, <1>11 DEF Saves, kvs, F

(* Set in that order they fill the slots from the first.                   *)
SlotsFilled(t0, kvs, m, w) ==
  /\ w \in CleanTags
  /\ \A i \in 1..GENRE : w[i] = t0[i]
  /\ \A j \in 1..m : w[GENRE + j].key.s = kvs[j][1] /\ w[GENRE + j].val.s = kvs[j][2]
  /\ \A i \in Custom : i > GENRE + m => w[i].key.s = Nil

LEMMA FillOne ==
  ASSUME NEW t \in TagsType, Tidy(t), NEW kvs, Saves(t, kvs), NEW t0, NEW m \in Nat, m < Len(kvs),
         NEW w, SlotsFilled(t0, kvs, m, w), NEW u,
         u = SetTag(w, Str(kvs[m + 1][1]), Str(kvs[m + 1][2])), u \in CleanTags
  PROVE  SlotsFilled(t0, kvs, m + 1, u)
<1> DEFINE key == kvs[m + 1][1]
           val == kvs[m + 1][2]
           i0 == GENRE + (m + 1)
<1>1. m + 1 \in 1..Len(kvs) /\ Len(kvs) \in Nat /\ Len(kvs) <= CUSTOM /\ CUSTOM \in Nat
  BY DiskAssumption DEF Saves
<1>2. PICK g \in SavedSlots(t) : kvs[m + 1] = PairAt(t, g)  BY <1>1 DEF Saves
<1>3. /\ key \in STRING \ {Nil} /\ key \notin DOMAIN Named
      /\ val \in STRING /\ val # Nil
  <2>1. g \in Custom /\ t[g].key.s # Nil /\ t[g].val.s # Nil  BY <1>2 DEF SavedSlots
  <2>2. key = t[g].key.s /\ val = t[g].val.s  BY <1>2 DEF PairAt
  <2>3. t[g].key.s \in STRING /\ t[g].val.s \in STRING
    <3>1. t[g].key \in Text /\ t[g].val \in Text  BY <2>1, Slots DEF TagsType
    <3> QED BY <3>1, Texts0
  <2>4. t[g].key.s \notin DOMAIN Named  BY <2>1 DEF Tidy
  <2> HIDE DEF key, val
  <2> QED BY <2>1, <2>2, <2>3, <2>4
<1>4. \A j \in 1..m : kvs[j][1] # key
  <2>1. \A j \in 1..m : j \in 1..Len(kvs) /\ j # m + 1  BY <1>1
  <2> QED BY <1>1, <2>1 DEF Saves
<1> HIDE DEF key, val
<1>5. i0 \in Custom /\ i0 > GENRE + m /\ \A i \in Custom : i > GENRE + m => i >= i0
  BY <1>1 DEF Custom, GENRE
<1>6. \A i \in Custom : w[i].key.s # key
  <2> SUFFICES ASSUME NEW a \in Custom PROVE w[a].key.s # key  OBVIOUS
  <2>1. CASE a > GENRE + m  BY <2>1, <1>3 DEF SlotsFilled
  <2>2. CASE ~(a > GENRE + m)
    <3>1. a - GENRE \in 1..m /\ a = GENRE + (a - GENRE)  BY <2>2, DiskAssumption DEF Custom, GENRE
    <3> DEFINE j == a - GENRE
    <3>2. j \in 1..m /\ w[GENRE + j].key.s = kvs[j][1]  BY <3>1 DEF SlotsFilled
    <3> QED BY <1>4, <3>1, <3>2
  <2> QED BY <2>1, <2>2
<1>7. FindTag(w, Nil) = i0
  <2> DEFINE at == {j \in Custom : w[j].key.s = Nil}
  <2>1. FindTag(w, Nil) = IF at = {} THEN 0 ELSE Least(at)  BY NamedIs, Zenon DEF FindTag
  <2>2. at \in SUBSET Nat /\ i0 \in at  BY <1>5, Slots DEF SlotsFilled
  <2>3. \A j \in at : j \in Custom /\ j > GENRE + m
    <3> SUFFICES ASSUME NEW a \in at, ~(a > GENRE + m) PROVE FALSE
      <4>1. \A a \in at : a \in Custom  OBVIOUS
      <4> QED BY <4>1
    <3>1. a \in Custom /\ w[a].key.s = Nil  OBVIOUS
    <3> HIDE DEF at
    <3>2. a - GENRE \in 1..m /\ a = GENRE + (a - GENRE)  BY <3>1, DiskAssumption DEF Custom, GENRE
    <3> DEFINE j == a - GENRE
    <3>3. j \in 1..m /\ w[GENRE + j].key.s = kvs[j][1]  BY <3>2 DEF SlotsFilled
    <3>4. kvs[j][1] = Nil  BY <3>1, <3>2, <3>3
    <3>5. j \in 1..Len(kvs)  BY <1>1, <3>3
    <3>6. kvs[j] \in (STRING \ {Nil}) \X STRING  BY <3>5 DEF Saves, Pairs
    <3> QED BY <3>4, <3>6
  <2> HIDE DEF at, i0
  <2>4. Least(at) \in at /\ \A j \in at : Least(at) <= j  BY <2>2, LeastIs
  <2>5. Least(at) >= i0 /\ Least(at) <= i0 /\ Least(at) \in Nat /\ i0 \in Nat
    BY <1>5, <2>2, <2>3, <2>4
  <2>6. Least(at) = i0  BY <2>5
  <2> QED BY <2>1, <2>2, <2>6
<1>8. SlotSet(w, key, Str(val)) = i0
  <2>1. FindTag(w, key) = 0  BY <1>3, <1>6, FindsFlat
  <2>2. Str(val).s # Nil  BY <1>3, Texts0
  <2> QED BY <1>7, <2>1, <2>2 DEF SlotSet, SlotFor
<1>9. SetTagged(w, Str(key), Str(val), i0, u)
  <2>1. w \in TagsType /\ Str(key) \in Text /\ Str(val) \in Text /\ Str(key).s = key
    BY <1>3, CleanAre, Texts0 DEF SlotsFilled
  <2>2. u = SetTag(w, Str(key), Str(val))  BY DEF key, val
  <2> HIDE DEF i0
  <2>3. SetTagged(w, Str(key), Str(val), SlotSet(w, Str(key).s, Str(val)), SetTag(w, Str(key), Str(val)))
    BY <2>1, SetTagHow
  <2> QED BY <1>8, <2>1, <2>2, <2>3
<1>10. /\ \A j \in Tag : j # i0 => u[j] = w[j]
       /\ u[i0].key.s = key /\ u[i0].val.s = val
  <2>1. i0 # 0 /\ w[i0].key.s = Nil /\ Str(val).s = val /\ Str(key).s = key
    <3> HIDE DEF i0
    <3> QED BY <1>5, Slots, Texts0 DEF SlotsFilled
  <2> HIDE DEF i0
  <2> QED BY <1>3, <1>9, <2>1 DEF SetTagged
<1>11. \A i \in 1..GENRE : u[i] = t0[i]
  <2>1. \A i \in 1..GENRE : i \in Tag /\ i # i0
    <3> HIDE DEF i0
    <3> QED BY <1>5, Slots
  <2> QED BY <1>10, <2>1 DEF SlotsFilled
<1>12. \A j \in 1..(m + 1) : u[GENRE + j].key.s = kvs[j][1] /\ u[GENRE + j].val.s = kvs[j][2]
  <2> SUFFICES ASSUME NEW j \in 1..(m + 1)
               PROVE  u[GENRE + j].key.s = kvs[j][1] /\ u[GENRE + j].val.s = kvs[j][2]
    OBVIOUS
  <2>1. CASE j = m + 1
    <3>1. GENRE + j = i0  BY <2>1
    <3> HIDE DEF i0
    <3> QED BY <1>10, <2>1, <3>1 DEF key, val
  <2>2. CASE j # m + 1
    <3>1. j \in 1..m /\ GENRE + j \in Tag /\ GENRE + j # i0
      BY <1>1, <2>2 DEF Tag, GENRE
    <3> DEFINE x == GENRE + j
    <3>2. w[x].key.s = kvs[j][1] /\ w[x].val.s = kvs[j][2]  BY <3>1 DEF SlotsFilled
    <3>3. u[x] = w[x]  BY <1>10, <3>1
    <3> QED BY <3>2, <3>3
  <2> QED BY <2>1, <2>2
<1>13. \A i \in Custom : i > GENRE + (m + 1) => u[i].key.s = Nil
  <2> SUFFICES ASSUME NEW a \in Custom, a > GENRE + (m + 1) PROVE u[a].key.s = Nil  OBVIOUS
  <2>1. a # i0 /\ a > GENRE + m /\ a \in Tag  BY Slots DEF GENRE
  <2> HIDE DEF i0
  <2> QED BY <1>10, <2>1 DEF SlotsFilled
<1> QED BY <1>11, <1>12, <1>13 DEF SlotsFilled

(* So the array read has what was saved, and nothing else.                 *)
Brings(t, r) ==
  /\ \A i \in SavedSlots(t) : TagOf(r, t[i].key.s) = t[i].val.s /\ FindTag(r, t[i].key.s) # 0
  /\ \A key : key \notin DOMAIN Named /\ key # Nil /\ FindTag(r, key) # 0 =>
       \E i \in SavedSlots(t) : t[i].key.s = key
Copies(t, t0, r) == r \in CleanTags /\ (\A i \in 1..GENRE : r[i] = t0[i]) /\ Brings(t, r)

LEMMA RoundTags ==
  ASSUME NEW t \in TagsType, Tidy(t), NEW t0 \in CleanTags, \A i \in Custom : t0[i].key.s = Nil
  PROVE  Copies(t, t0, WithTags(t0, CustomSaved(t)))
<1> DEFINE kvs == CustomSaved(t)
           N == Len(kvs)
<1>1. Saves(t, kvs)  BY CustomSavedAre
<1> HIDE DEF kvs
<1>2. kvs \in Pairs /\ N \in Nat /\ N <= CUSTOM /\ CUSTOM \in Nat  BY <1>1, DiskAssumption DEF Saves
<1>3. PICK u : Adds(t0, kvs, u) /\ WithTags(t0, kvs) = u[N]  BY <1>2, WithTagsAdds
<1> HIDE DEF N
<1> DEFINE T == {m \in Nat : SlotsFilled(t0, kvs, m, u[m])}
<1>4. 0 \in T
  <2>1. u[0] = t0  BY <1>3 DEF Adds
  <2>2. SlotsFilled(t0, kvs, 0, u[0])  BY <2>1 DEF SlotsFilled
  <2> QED BY <2>2
<1>5. ASSUME NEW m \in T, m < N PROVE m + 1 \in T
  <2>1. m \in Nat /\ SlotsFilled(t0, kvs, m, u[m]) /\ m + 1 \in 1..N /\ m + 1 \in 0..N /\ (m + 1) - 1 = m
    BY <1>2, <1>5
  <2>2. u[m + 1] \in CleanTags  BY <1>3, <2>1 DEF Adds, N
  <2>3. u[m + 1] = SetTag(u[m], Str(kvs[m + 1][1]), Str(kvs[m + 1][2]))
    <3>1. u[m + 1] = SetTag(u[(m + 1) - 1], Str(kvs[m + 1][1]), Str(kvs[m + 1][2]))
      BY <1>3, <2>1 DEF Adds, N
    <3> QED BY <2>1, <3>1
  <2>4. m < Len(kvs)  BY <1>5 DEF N
  <2> HIDE DEF T
  <2>5. SlotsFilled(t0, kvs, m + 1, u[m + 1])  BY <1>1, <2>1, <2>2, <2>3, <2>4, FillOne
  <2> QED BY <2>1, <2>5 DEF T
<1>6. SlotsFilled(t0, kvs, N, u[N])
  <2>1. T \in SUBSET Nat  OBVIOUS
  <2>2. \A m \in 0..N : m \in T
    <3> HIDE DEF T
    <3> QED BY <1>2, <1>4, <1>5, <2>1, UpTo
  <2> QED BY <1>2, <2>2
<1> DEFINE r == u[N]
<1>7. SlotsFilled(t0, kvs, N, r)  BY <1>6
<1> HIDE DEF r, T
<1>8. r \in CleanTags /\ Tidy(r)  BY <1>7 DEF SlotsFilled, CleanTags
<1>9. ASSUME NEW i \in SavedSlots(t)
      PROVE  TagOf(r, t[i].key.s) = t[i].val.s /\ FindTag(r, t[i].key.s) # 0
  <2>1. PICK j \in 1..N : kvs[j] = PairAt(t, i)  BY <1>1 DEF Saves, N
  <2> DEFINE k == GENRE + j
             key == t[i].key.s
  <2>2. k \in Custom /\ k # 0 /\ k \in Tag  BY <1>2 DEF Custom, Tag, GENRE
  <2>3. r[k].key.s = key /\ r[k].val.s = t[i].val.s  BY <1>7, <2>1 DEF SlotsFilled, PairAt
  <2>4. key # Nil /\ key \notin DOMAIN Named  BY DEF SavedSlots, Tidy
  <2> HIDE DEF k, key
  <2>5. \A a \in Custom : r[a].key.s = key => a = k  BY <1>8, <2>2, <2>3, <2>4 DEF Tidy
  <2>6. FindTag(r, key) = k  BY <2>2, <2>3, <2>4, <2>5, SlotIs
  <2>7. TagOf(r, key) = t[i].val.s  BY <2>2, <2>3, <2>6 DEF TagOf
  <2> QED BY <2>2, <2>6, <2>7 DEF key
<1>10. ASSUME NEW key, key \notin DOMAIN Named, key # Nil, FindTag(r, key) # 0
       PROVE  \E i \in SavedSlots(t) : t[i].key.s = key
  <2> DEFINE k == FindTag(r, key)
  <2>1. k \in Custom /\ r[k].key.s = key  BY <1>10, FindsFlat
  <2> HIDE DEF k
  <2>2. ~(k > GENRE + N)  BY <1>7, <1>10, <2>1 DEF SlotsFilled
  <2>3. k - GENRE \in 1..N /\ k = GENRE + (k - GENRE)  BY <1>2, <2>1, <2>2 DEF Custom, GENRE
  <2> DEFINE j == k - GENRE
  <2>4. j \in 1..N /\ k = GENRE + j  BY <2>3
  <2> HIDE DEF j
  <2>5. kvs[j][1] = key  BY <1>7, <2>1, <2>4 DEF SlotsFilled
  <2>6. PICK i \in SavedSlots(t) : kvs[j] = PairAt(t, i)  BY <1>1, <2>4 DEF Saves, N
  <2> QED BY <2>5, <2>6 DEF PairAt
<1>11. \A i \in 1..GENRE : r[i] = t0[i]  BY <1>7 DEF SlotsFilled
<1>12. Brings(t, r)  BY <1>9, <1>10 DEF Brings
<1> QED BY <1>3, <1>8, <1>11, <1>12 DEF Copies, r, kvs

(* What valid() does to the tags leaves those of other keys alone.         *)
SameFinds(t, u) ==
  \A key : key \notin DOMAIN Named =>
    FindTag(u, key) = FindTag(t, key) /\ TagOf(u, key) = TagOf(t, key)
LikeBut(t, u) ==
  \A key : key \notin DOMAIN Named /\ key # Nil /\ key # "aka" => TagOf(u, key) = TagOf(t, key)

LEMMA FindsSame ==
  ASSUME NEW t, NEW u, \A k \in Custom : u[k] = t[k]
  PROVE  SameFinds(t, u)
<1> SUFFICES ASSUME NEW key, key \notin DOMAIN Named
             PROVE  FindTag(u, key) = FindTag(t, key) /\ TagOf(u, key) = TagOf(t, key)
  BY DEF SameFinds
<1> DEFINE at == {i \in Custom : t[i].key.s = key}
           au == {i \in Custom : u[i].key.s = key}
<1>1. FindTag(t, key) = IF at = {} THEN 0 ELSE Least(at)  BY Zenon DEF FindTag
<1>2. FindTag(u, key) = IF au = {} THEN 0 ELSE Least(au)  BY Zenon DEF FindTag
<1>3. at = au  OBVIOUS
<1> HIDE DEF at, au
<1>4. FindTag(u, key) = FindTag(t, key)  BY <1>1, <1>2, <1>3
<1>5. FindTag(t, key) = 0 \/ FindTag(t, key) \in Custom  BY FindsFlat
<1> QED BY <1>4, <1>5 DEF TagOf

LEMMA AkaApart ==
  ASSUME NEW t \in CleanTags, NEW v \in CleanText, NEW u, u = SetTag(t, Str("aka"), v)
  PROVE  LikeBut(t, u) /\ \A i \in 1..GENRE : u[i] = t[i]
<1> DEFINE i == SlotSet(t, "aka", v)
<1>1. /\ t \in TagsType /\ Str("aka") \in Text /\ v \in Text /\ Tidy(t) /\ Str("aka").s = "aka"
      /\ "aka" \notin DOMAIN Named /\ "aka" # Nil
  <2>1. "aka" \notin DOMAIN Named /\ "aka" # Nil  BY NamedIs DEF Nil
  <2>2. Tidy(t)  BY DEF CleanTags
  <2> QED BY <2>1, <2>2, CleanAre, KeysAre, Texts0
<1>2. SetTagged(t, Str("aka"), v, i, u)
  <2>1. SetTagged(t, Str("aka"), v, SlotSet(t, Str("aka").s, v), SetTag(t, Str("aka"), v))
    BY <1>1, SetTagHow
  <2> QED BY <1>1, <2>1
<1>3. Tidy(u)
  <2>1. u \in CleanTags  BY KeysAre, SetTagClean
  <2> QED BY <2>1 DEF CleanTags
<1>4. /\ i \in Tag \cup {0} /\ i \notin 1..GENRE
      /\ i \in Custom => t[i].key.s = "aka" \/ t[i].key.s = Nil
  BY <1>1, SlotSetIs, Zenon
<1> HIDE DEF i
<1>5. i \in Custom => u[i].key.s = "aka" \/ u[i].key.s = Nil
  <2> SUFFICES ASSUME i \in Custom PROVE u[i].key.s = "aka" \/ u[i].key.s = Nil  OBVIOUS
  <2>1. i # 0  BY Slots
  <2>2. u[i].key = IF v.s # Nil /\ t[i].key.s = Nil THEN Str("aka")
                   ELSE IF v.s = Nil /\ i \in Custom THEN Blank ELSE t[i].key
    BY <1>2, <2>1 DEF SetTagged
  <2> QED BY <1>1, <1>4, <2>2, Texts0
<1>6. \A j \in Tag : j # i => u[j] = t[j]  BY <1>2 DEF SetTagged
<1>7. ASSUME NEW key, key \notin DOMAIN Named, key # Nil, key # "aka"
      PROVE  TagOf(u, key) = TagOf(t, key)
  <2> DEFINE a == FindTag(t, key)
  <2>1. \/ a = 0 /\ \A k \in Custom : t[k].key.s # key
        \/ a \in Custom /\ t[a].key.s = key
    BY <1>7, FindsFlat
  <2>2. CASE a = 0 /\ \A k \in Custom : t[k].key.s # key
    <3>1. ASSUME NEW k \in Custom PROVE u[k].key.s # key
      <4>1. CASE k = i  BY <1>5, <1>7, <4>1
      <4>2. CASE k # i  BY <1>6, <2>2, <4>2, Slots
      <4> QED BY <4>1, <4>2
    <3>2. FindTag(u, key) = 0  BY <1>7, <3>1, FindsFlat
    <3> QED BY <2>2, <3>2 DEF TagOf
  <2>3. CASE a \in Custom /\ t[a].key.s = key
    <3> HIDE DEF a
    <3>1. a # i /\ a \in Tag /\ a # 0  BY <1>4, <1>7, <2>3, Slots
    <3>2. u[a] = t[a]  BY <1>6, <3>1
    <3>3. \A k \in Custom : u[k].key.s = key => k = a  BY <1>3, <1>7, <2>3, <3>2 DEF Tidy
    <3>4. FindTag(u, key) = a  BY <1>7, <2>3, <3>1, <3>2, <3>3, SlotIs
    <3> QED BY <3>1, <3>2, <3>4 DEF TagOf, a
  <2> QED BY <2>1, <2>2, <2>3
<1>8. ASSUME NEW j \in 1..GENRE PROVE u[j] = t[j]
  <2>1. j # i /\ j \in Tag  BY <1>4, Slots
  <2> QED BY <1>6, <2>1
<1> QED BY <1>7, <1>8 DEF LikeBut

LEMMA AliasApart ==
  ASSUME NEW t \in CleanTags, NEW v \in CleanText
  PROVE  LikeBut(t, WithAlias(t, v)) /\ \A i \in 1..GENRE : WithAlias(t, v)[i] = t[i]
<1>1. CASE v.s = Nil
  <2>1. WithAlias(t, v) = t  BY <1>1 DEF WithAlias
  <2> QED BY <2>1 DEF LikeBut
<1>2. CASE v.s # Nil
  <2>1. WithAlias(t, v) = SetTag(t, Str("aka"), v)  BY <1>2 DEF WithAlias
  <2> QED BY <2>1, AkaApart
<1> QED BY <1>1, <1>2

(* A value given to one of the first three.                                *)
LEMMA PutValApart ==
  ASSUME NEW t \in CleanTags, NEW i \in 1..GENRE, NEW v
  PROVE  /\ SameFinds(t, PutVal(t, i, v)) /\ LikeBut(t, PutVal(t, i, v))
         /\ PutVal(t, i, v)[i].val = v
         /\ \A j \in 1..GENRE : j # i => PutVal(t, i, v)[j] = t[j]
<1> DEFINE u == PutVal(t, i, v)
<1>1. i \in Tag /\ i \notin Custom  BY Slots
<1>2. t \in [Tag -> [key : CleanText, val : CleanText]]  BY DEF CleanTags
<1>3. u[i].val = v /\ \A j \in Tag : j # i => u[j] = t[j]
  BY <1>1, <1>2 DEF PutVal
<1> HIDE DEF u
<1>4. \A j \in Custom : u[j] = t[j]  BY <1>1, <1>3, Slots
<1>5. SameFinds(t, u)  BY <1>4, FindsSame
<1>6. LikeBut(t, u)  BY <1>5 DEF SameFinds, LikeBut
<1> QED BY <1>3, <1>5, <1>6, Slots DEF u

LEMMA DecodeApart ==
  ASSUME NEW t \in CleanTags
  PROVE  /\ LikeBut(t, DecodeAka(t)) /\ DecodeAka(t)[TITLE] = t[TITLE]
         /\ ~AkaSplits(t) => DecodeAka(t) = t
<1> DEFINE xy == Split[t[ARTIST].val.s]
           u == PutVal(t, ARTIST, Str(xy[1]))
<1>1. CASE ~AkaSplits(t)  BY <1>1 DEF DecodeAka, LikeBut
<1>2. CASE AkaSplits(t)
  <2>1. t[ARTIST].val.s \in DOMAIN Split  BY <1>2 DEF AkaSplits
  <2>2. Str(xy[1]) \in CleanText /\ Str(xy[2]) \in CleanText  BY <2>1, SplitIs
  <2>3. DecodeAka(t) = SetTag(u, Str("aka"), Str(xy[2]))  BY <1>2, Zenon DEF DecodeAka, PutVal
  <2> HIDE DEF xy
  <2>4. u \in CleanTags /\ LikeBut(t, u)  BY <2>2, PutValClean, PutValApart, Slots
  <2>5. u[TITLE] = t[TITLE]
    <3>1. TITLE # ARTIST  BY DEF TITLE, ARTIST
    <3> QED BY <3>1, PutValApart, Slots
  <2> HIDE DEF u
  <2>6. LikeBut(u, DecodeAka(t)) /\ DecodeAka(t)[TITLE] = u[TITLE]  BY <2>2, <2>3, <2>4, AkaApart, Slots
  <2> QED BY <1>2, <2>4, <2>5, <2>6 DEF LikeBut
<1> QED BY <1>1, <1>2

(* The tags of a track as they are read and as valid() leaves them.        *)
SignsAs(a, r, u) ==
  /\ u[TITLE].val = IF r[TITLE].val.s # Nil THEN r[TITLE].val ELSE a.title
  /\ r[ARTIST].val.s = Nil => u[ARTIST].val = a.artist
  /\ r[ARTIST].val.s \notin {Nil} \cup (DOMAIN Split \ Unknown) => u[ARTIST].val = r[ARTIST].val
  /\ LikeBut(r, u)
  /\ r[ARTIST].val.s # Nil =>
       \E w : u = DecodeAka(w) /\ w \in CleanTags /\ SameFinds(r, w) /\ w[ARTIST] = r[ARTIST]

LEMMA SignedIs ==
  ASSUME NEW a \in Carried, NEW r \in CleanTags, NEW hw
  PROVE  /\ SignsAs(a, r, Signed("sc68", a, Genred(hw, Titled(a, r))))
         /\ Genred(hw, Titled(a, r))[ARTIST].val = r[ARTIST].val
<1> DEFINE r1 == Titled(a, r)
           w == Genred(hw, r1)
           u == Signed("sc68", a, w)
           g == Str(IF "AGA" \in hw THEN "Amiga chiptune" ELSE "Atari-ST chiptune")
<1>0. TITLE # ARTIST /\ GENRE # ARTIST /\ GENRE # TITLE  BY DEF TITLE, ARTIST, GENRE
<1>1. a.title \in CleanText /\ a.artist \in CleanText /\ a.alias \in CleanText  BY DEF Carried
<1>2. /\ r1 \in CleanTags /\ SameFinds(r, r1) /\ r1[ARTIST] = r[ARTIST]
      /\ r1[TITLE].val = IF r[TITLE].val.s # Nil THEN r[TITLE].val ELSE a.title
  <2>1. CASE r[TITLE].val.s # Nil  BY <2>1 DEF Titled, SameFinds
  <2>2. CASE r[TITLE].val.s = Nil
    <3>1. r1 = PutVal(r, TITLE, a.title)  BY <2>2 DEF Titled, PutVal
    <3> DEFINE v == a.title
    <3>2. v \in CleanText  BY <1>1
    <3> HIDE DEF v
    <3>3. /\ PutVal(r, TITLE, v) \in CleanTags /\ SameFinds(r, PutVal(r, TITLE, v))
          /\ PutVal(r, TITLE, v)[TITLE].val = v /\ PutVal(r, TITLE, v)[ARTIST] = r[ARTIST]
      BY <1>0, <3>2, PutValClean, PutValApart, Slots
    <3> HIDE DEF r1
    <3> QED BY <2>2, <3>1, <3>3 DEF v
  <2> QED BY <2>1, <2>2
<1> HIDE DEF r1
<1>3. /\ w \in CleanTags /\ SameFinds(r1, w) /\ w[ARTIST] = r1[ARTIST] /\ w[TITLE] = r1[TITLE]
  <2>1. CASE r1[GENRE].val.s # Nil  BY <1>2, <2>1 DEF Genred, SameFinds
  <2>2. CASE r1[GENRE].val.s = Nil
    <3>1. w = PutVal(r1, GENRE, g)  BY <2>2, Zenon DEF Genred, PutVal
    <3>2. g \in CleanText  BY LiteralAssumption, CleanAre
    <3> HIDE DEF w, g
    <3> QED BY <1>0, <1>2, <3>1, <3>2, PutValClean, PutValApart, Slots
  <2> QED BY <2>1, <2>2
<1>4. SameFinds(r, w) /\ w[ARTIST] = r[ARTIST]  BY <1>2, <1>3 DEF SameFinds
<1>5. LikeBut(r, w)  BY <1>4 DEF SameFinds, LikeBut
<1> HIDE DEF w
<1>6. CASE r[ARTIST].val.s = Nil
  <2> DEFINE x == PutVal(w, ARTIST, a.artist)
  <2>1. u = WithAlias(x, a.alias)  BY <1>4, <1>6 DEF Signed, PutVal
  <2>2. /\ x \in CleanTags /\ LikeBut(w, x) /\ x[ARTIST].val = a.artist /\ x[TITLE] = w[TITLE]
    <3> DEFINE v == a.artist
    <3>1. v \in CleanText  BY <1>1
    <3> HIDE DEF v
    <3>2. /\ PutVal(w, ARTIST, v) \in CleanTags /\ LikeBut(w, PutVal(w, ARTIST, v))
          /\ PutVal(w, ARTIST, v)[ARTIST].val = v /\ PutVal(w, ARTIST, v)[TITLE] = w[TITLE]
      BY <1>0, <1>3, <3>1, PutValClean, PutValApart, Slots
    <3> QED BY <3>2 DEF v
  <2> HIDE DEF x, u
  <2>3. LikeBut(x, u) /\ u[ARTIST] = x[ARTIST] /\ u[TITLE] = x[TITLE]
    BY <1>1, <2>1, <2>2, AliasApart, Slots
  <2>4. LikeBut(r, u)  BY <1>5, <2>2, <2>3 DEF LikeBut
  <2>5. SignsAs(a, r, u)  BY <1>2, <1>3, <1>6, <2>2, <2>3, <2>4 DEF SignsAs
  <2> QED BY <1>4, <2>5 DEF u, w, r1
<1>7. CASE r[ARTIST].val.s # Nil
  <2>1. u = DecodeAka(w)  BY <1>4, <1>7 DEF Signed
  <2> HIDE DEF u
  <2>2. LikeBut(w, u) /\ u[TITLE] = w[TITLE] /\ (~AkaSplits(w) => u = w)  BY <1>3, <2>1, DecodeApart
  <2>3. LikeBut(r, u)  BY <1>5, <2>2 DEF LikeBut
  <2>4. r[ARTIST].val.s \notin DOMAIN Split \ Unknown => ~AkaSplits(w)  BY <1>4 DEF AkaSplits
  <2>5. \E y : u = DecodeAka(y) /\ y \in CleanTags /\ SameFinds(r, y) /\ y[ARTIST] = r[ARTIST]
    BY <1>3, <1>4, <2>1
  <2>6. SignsAs(a, r, u)  BY <1>2, <1>3, <1>4, <1>7, <2>2, <2>3, <2>4, <2>5 DEF SignsAs
  <2> QED BY <1>4, <2>6 DEF u, w, r1
<1> QED BY <1>6, <1>7

(* The tags of a file that saved those of t.                               *)
LEMMA TextsBring ==
  ASSUME NEW t \in TagsType, Tidy(t), NEW genre \in {"genre", "format"}, NEW c,
         c.title \in STRING, c.artist \in STRING, c.cname = Nil, c.tags = CustomSaved(t)
  PROVE  LET r == Texts(NewTags(genre), c)
         IN  /\ r \in CleanTags /\ Brings(t, r)
             /\ r[TITLE].val.s = c.title /\ r[ARTIST].val.s = c.artist
<1> DEFINE t0 == NewTags(genre)
           n1 == PutVal(t0, TITLE, Str(c.title))
           named == PutVal(n1, ARTIST, Str(c.artist))
           r == Texts(t0, c)
<1>0. TITLE # ARTIST  BY DEF TITLE, ARTIST
<1>1. t0 \in CleanTags /\ \A i \in Custom : t0[i].key.s = Nil
  <2>1. t0 \in CleanTags  BY NewTagsClean
  <2>2. ASSUME NEW i \in Custom PROVE t0[i].key.s = Nil
    <3>1. i \in Tag /\ i # TITLE /\ i # ARTIST /\ i # GENRE  BY Slots
    <3>2. t0[i].key = Blank  BY <3>1 DEF NewTags
    <3> QED BY <3>2, Texts0
  <2> QED BY <2>1, <2>2
<1> HIDE DEF t0
<1>2. Str(c.title) \in CleanText /\ Str(c.artist) \in CleanText  BY CleanAre
<1>3. n1 \in CleanTags /\ n1[TITLE].val = Str(c.title)
  <2> DEFINE v == Str(c.title)
  <2>1. v \in CleanText /\ TITLE \in 1..GENRE  BY <1>2, Slots
  <2> HIDE DEF v
  <2>2. PutVal(t0, TITLE, v) \in CleanTags  BY <1>1, <2>1, PutValClean
  <2>3. PutVal(t0, TITLE, v)[TITLE].val = v  BY <1>1, <2>1, PutValApart
  <2> QED BY <2>2, <2>3, Zenon DEF v
<1>4. \A i \in Custom : n1[i] = t0[i]
  <2>1. t0 \in [Tag -> [key : CleanText, val : CleanText]]  BY <1>1 DEF CleanTags
  <2>2. \A i \in Custom : i \in Tag /\ i # TITLE  BY Slots
  <2> QED BY <2>1, <2>2 DEF PutVal
<1> HIDE DEF n1
<1>5. named \in CleanTags /\ named[ARTIST].val = Str(c.artist) /\ named[TITLE] = n1[TITLE]
  <2> DEFINE v == Str(c.artist)
  <2>1. v \in CleanText /\ ARTIST \in 1..GENRE /\ TITLE \in 1..GENRE  BY <1>2, Slots
  <2> HIDE DEF v
  <2>2. PutVal(n1, ARTIST, v) \in CleanTags  BY <1>3, <2>1, PutValClean
  <2>3. /\ PutVal(n1, ARTIST, v)[ARTIST].val = v
        /\ \A j \in 1..GENRE : j # ARTIST => PutVal(n1, ARTIST, v)[j] = n1[j]
    BY <1>3, <2>1, PutValApart
  <2>4. PutVal(n1, ARTIST, v)[TITLE] = n1[TITLE]  BY <1>0, <2>1, <2>3, Zenon
  <2> QED BY <2>2, <2>3, <2>4, Zenon DEF v
<1>6. \A i \in Custom : named[i] = n1[i]
  <2>1. n1 \in [Tag -> [key : CleanText, val : CleanText]]  BY <1>3 DEF CleanTags
  <2>2. \A i \in Custom : i \in Tag /\ i # ARTIST  BY Slots
  <2> QED BY <2>1, <2>2 DEF PutVal
<1>7. r = WithTags(named, CustomSaved(t))
  <2> DEFINE base == [t0 EXCEPT ![TITLE].val = Str(c.title), ![ARTIST].val = Str(c.artist)]
  <2>1. named = base  BY DEF PutVal, n1
  <2>2. c.cname \in {Nil, c.artist}  OBVIOUS
  <2>3. r = WithTags(base, c.tags)  BY <2>2, Zenon DEF Texts
  <2> HIDE DEF base, named
  <2> QED BY <2>1, <2>3
<1> HIDE DEF named, r
<1>8. Copies(t, named, r)  BY <1>1, <1>4, <1>5, <1>6, <1>7, RoundTags
<1>9. r[TITLE] = named[TITLE] /\ r[ARTIST] = named[ARTIST]  BY <1>8, Slots DEF Copies
<1>10. /\ r \in CleanTags /\ Brings(t, r)
       /\ r[TITLE].val.s = c.title /\ r[ARTIST].val.s = c.artist
  BY <1>3, <1>5, <1>8, <1>9, Texts0 DEF Copies
<1> QED BY <1>10 DEF r, t0

(* So the tags of t are those of u, and its alias is if it was read.       *)
Plain(s) == Lasting(s) /\ s \notin (DOMAIN Split \ Unknown) \cup {"n/a"}

LEMMA TextsSame ==
  ASSUME NEW t \in TagsType, Tidy(t), NEW r, Brings(t, r), NEW u, LikeBut(r, u),
         Lasting(t[TITLE].val.s) => u[TITLE].val.s = t[TITLE].val.s,
         Plain(t[ARTIST].val.s) => u[ARTIST].val.s = t[ARTIST].val.s
  PROVE  SameTexts(t, u)
<1>1. ASSUME NEW i \in FullTags(t), t[i].key.s # "aka", Lasting(t[i].key.s), Lasting(t[i].val.s)
      PROVE  TagOf(u, t[i].key.s) = t[i].val.s
  <2> DEFINE key == t[i].key.s
  <2>1. i \in SavedSlots(t)  BY <1>1 DEF FullTags, SavedSlots, Lasting
  <2>2. TagOf(r, key) = t[i].val.s  BY <2>1 DEF Brings
  <2>3. key \notin DOMAIN Named /\ key # Nil /\ key # "aka"  BY <1>1 DEF FullTags, Tidy
  <2> QED BY <2>2, <2>3 DEF LikeBut
<1> QED BY <1>1 DEF SameTexts, Plain

LEMMA AliasSame ==
  ASSUME NEW t \in TagsType, Tidy(t), NEW r \in CleanTags, Brings(t, r),
         r[ARTIST].val.s = t[ARTIST].val.s, NEW u, ~AkaSplits(r) => TagOf(u, "aka") = TagOf(r, "aka")
  PROVE  SameAlias(t, u)
<1> SUFFICES ASSUME ~AkaSplits(t), TagOf(t, "aka") # "" PROVE TagOf(u, "aka") = TagOf(t, "aka")
  BY DEF SameAlias
<1>1. "aka" \notin DOMAIN Named /\ "aka" # Nil /\ "aka" # ""  BY NamedIs DEF Nil
<1> DEFINE a == FindTag(t, "aka")
<1>2. \/ a = 0 /\ \A k \in Custom : t[k].key.s # "aka"
      \/ a \in Custom /\ t[a].key.s = "aka"
  <2> DEFINE key == "aka"
  <2>1. key \notin DOMAIN Named  BY <1>1
  <2> HIDE DEF key
  <2>2. \/ FindTag(t, key) = 0 /\ \A k \in Custom : t[k].key.s # key
        \/ FindTag(t, key) \in Custom /\ t[FindTag(t, key)].key.s = key
    BY <2>1, FindsFlat
  <2> QED BY <2>2, Zenon DEF key
<1>3. TagOf(t, "aka") = IF a = 0 THEN Nil ELSE t[a].val.s  BY Zenon DEF TagOf
<1>4. CASE a = 0 /\ \A k \in Custom : t[k].key.s # "aka"
  <2>1. FindTag(r, "aka") = 0  BY <1>1, <1>4 DEF Brings, SavedSlots
  <2>2. TagOf(r, "aka") = Nil  BY <2>1 DEF TagOf
  <2>3. ~AkaSplits(r)  BY <1>4 DEF AkaSplits
  <2> QED BY <1>3, <1>4, <2>2, <2>3
<1>5. CASE a \in Custom /\ t[a].key.s = "aka"
  <2> HIDE DEF a
  <2>1. a # 0 /\ t[a].val.s # "" /\ t[a].val.s # Nil
    <3>1. a # 0  BY <1>5, Slots
    <3> QED BY <1>1, <1>3, <1>5, <3>1 DEF Tidy
  <2>2. a \in SavedSlots(t)  BY <1>1, <1>5, <2>1 DEF SavedSlots
  <2>3. TagOf(r, "aka") = t[a].val.s /\ FindTag(r, "aka") # 0  BY <1>5, <2>2 DEF Brings
  <2>4. ~AkaSplits(r)  BY <2>3 DEF AkaSplits
  <2> QED BY <1>3, <2>1, <2>3, <2>4
<1> QED BY <1>2, <1>4, <1>5

-----------------------------------------------------------------------------
(* A track saved and read again.                                           *)
LEMMA BringsSame ==
  ASSUME NEW t \in TagsType, Tidy(t), NEW r, NEW w, Brings(t, r), SameFinds(r, w)
  PROVE  Brings(t, w)
<1>1. \A i \in SavedSlots(t) : t[i].key.s \notin DOMAIN Named  BY DEF SavedSlots, Tidy
<1> QED BY <1>1 DEF Brings, SameFinds

ReadsBack(c, i, q) ==
  LET m == c.mus[i]
  IN  /\ q.d0 = m.d0 /\ q.a0 = (IF m.pic THEN 0 ELSE m.a0)
      /\ q.frq = (IF m.frq = 50 THEN 0 ELSE m.frq)
      /\ q.loop = m.loop /\ q.sfx = m.sfx /\ q.first_ms = 0
      /\ m.first_fr < FR_MAX /\ (~m.time => m.first_fr = 0) => q.first_fr = m.first_fr
      /\ m.loop => q.loops_fr = m.loops_fr /\ q.loops = m.loops
      /\ q.hw = Flags(m.hw) /\ q.replay.s = WrittenText(m.replay.s)
      /\ q.tags = Texts(NewTags("genre"), SavedTrack(c, i))
      /\ q.data = SavedTrack(c, i).data

LEMMA ReadSaved ==
  ASSUME NEW n \in Nat \ {0}, NEW c \in DskOf(n), NEW i \in 1..n
  PROVE  ReadsBack(c, i, ReadTrack(Saved(c), i))
<1> DEFINE m == c.mus[i]
           k == SavedTrack(c, i)
           a0 == IF ~m.pic THEN m.a0 ELSE 0
           frq == IF m.frq # 50 THEN m.frq ELSE 0
           fr == IF m.time THEN m.first_fr ELSE 0
           loop == IF m.loop THEN m.loops ELSE 0
           loopfr == IF m.loop THEN m.loops_fr ELSE Absent
           replay == WrittenText(m.replay.s)
           q == ReadTrack(Saved(c), i)
<1>1. c.nb = n /\ m \in TrackSet  BY DEF DskOf
<1>2. /\ k.d0 = m.d0 /\ k.a0 = a0 /\ k.frq = frq /\ k.sec = 0 /\ k.fr = fr /\ k.loop = loop
      /\ k.loopfr = loopfr /\ k.sfx = m.sfx /\ k.typ = m.hw /\ k.replay = replay
  <2> DEFINE title == Differs(c, TITLE, i)
             artist == Differs(c, ARTIST, i)
             tags == CustomSaved(m.tags)
             data == IF i > 1 /\ m.data = c.mus[i - 1].data THEN Nil ELSE m.data
  <2>1. k = [title |-> title, artist |-> artist, cname |-> Nil, tags |-> tags,
             replay |-> replay, d0 |-> m.d0, a0 |-> a0, frq |-> frq, sec |-> 0, fr |-> fr,
             loop |-> loop, loopfr |-> loopfr, sfx |-> m.sfx, typ |-> m.hw, data |-> data]
    BY Zenon DEF SavedTrack
  <2> HIDE DEF title, artist, tags, replay, a0, frq, fr, loop, loopfr, data, k
  <2> QED BY <2>1
<1>3. Saved(c).mus[i] = k /\ Saved(c).fmt = "sc68"
  <2>1. Saved(c).mus = [j \in 1..c.nb |-> SavedTrack(c, j)] /\ Saved(c).fmt = "sc68"
    BY DEF Saved
  <2> HIDE DEF k
  <2> QED BY <1>1, <2>1 DEF k
<1> DEFINE rloop == k.loopfr # Absent
           rms == IF k.sec \in 0..DAY THEN 1000 * k.sec ELSE 0
           rfr == IF k.fr >= FR_MAX THEN 0 ELSE k.fr
           rlfr == IF k.loopfr = Absent THEN 0 ELSE k.loopfr
           rloops == IF k.loop < -1 THEN 0 ELSE k.loop
           rhw == Flags(k.typ)
           rtags == Texts(NewTags("genre"), k)
<1>4. /\ q.d0 = k.d0 /\ q.a0 = k.a0 /\ q.frq = k.frq /\ q.loop = rloop /\ q.sfx = k.sfx
      /\ q.first_ms = rms /\ q.first_fr = rfr /\ q.loops_fr = rlfr /\ q.loops = rloops
      /\ q.hw = rhw /\ q.replay = Str(k.replay) /\ q.tags = rtags /\ q.data = k.data
  <2> DEFINE f == Saved(c)
  <2>1. f.mus[i] = k /\ f.fmt = "sc68"  BY <1>3
  <2> HIDE DEF k, f
  <2>2. q = [d0 |-> k.d0, a0 |-> k.a0, pic |-> FALSE, frq |-> k.frq, time |-> FALSE,
             loop |-> rloop, sfx |-> k.sfx, first_ms |-> rms, first_fr |-> rfr, loops_ms |-> 0,
             loops_fr |-> rlfr, loops |-> rloops, hw |-> rhw, replay |-> Str(k.replay),
             tags |-> rtags, data |-> k.data]
    <3>1. q = ReadTrack(f, i)  BY DEF f
    <3> HIDE DEF q
    <3> QED BY <2>1, <3>1 DEF ReadTrack
  <2> HIDE DEF q, rloop, rms, rfr, rlfr, rloops, rhw, rtags
  <2> QED BY <2>2
<1> HIDE DEF q
<1>5. /\ m.first_fr \in Nat /\ m.loops \in Nat /\ m.loops_fr \in Nat /\ m.pic \in BOOLEAN
      /\ m.loop \in BOOLEAN /\ m.time \in BOOLEAN /\ FR_MAX \in Nat
  BY <1>1, DiskAssumption DEF TrackSet
<1> HIDE DEF m, k
<1>6. rloop = m.loop /\ (m.loop => rlfr = m.loops_fr /\ rloops = m.loops)
  BY <1>2, <1>5 DEF Absent
<1>7. rms = 0  BY <1>2 DEF DAY
<1>8. m.first_fr < FR_MAX /\ (~m.time => m.first_fr = 0) => rfr = m.first_fr  BY <1>2, <1>5
<1>9. q.replay.s = replay /\ q.hw = Flags(m.hw)  BY <1>2, <1>4, Texts0
<1>10. q.a0 = (IF m.pic THEN 0 ELSE m.a0) /\ q.frq = (IF m.frq = 50 THEN 0 ELSE m.frq)
  BY <1>2, <1>4
<1> HIDE DEF rloop, rms, rfr, rlfr, rloops, rhw, rtags, replay
<1>11. q.tags = Texts(NewTags("genre"), SavedTrack(c, i)) /\ q.data = SavedTrack(c, i).data
  BY <1>4 DEF rtags, k
<1> QED BY <1>2, <1>4, <1>6, <1>7, <1>8, <1>9, <1>10, <1>11 DEF ReadsBack, m, q, replay

(* It is the same but for its tags and its music data.                     *)
SameButTexts(m, n) ==
  /\ n.d0 = m.d0 /\ n.a0 = m.a0 /\ n.pic = m.pic /\ n.frq = m.frq /\ n.sfx = m.sfx
  /\ (Lasting(m.replay.s) => n.replay.s = m.replay.s)
  /\ m.first_fr < FR_MAX => /\ n.first_fr = m.first_fr /\ n.first_ms = m.first_ms
                            /\ n.loops_fr = m.loops_fr /\ n.loop = m.loop
  /\ m.loop /\ m.loops_fr > 0 => n.loops = m.loops
  /\ m.hw # {} => n.hw = Flags(m.hw)

LEMMA TrackSaid ==
  ASSUME NEW n \in Nat \ {0}, NEW c, DskReady(n, c), NEW i \in 1..n, NEW q, ReadsBack(c, i, q),
         NEW w, SaysSo(q, w)
  PROVE  SameButTexts(c.mus[i], w)
<1> DEFINE m == c.mus[i]
<1>1. m \in TrackSet /\ Sayable(m) /\ m.loops > 0 /\ m.first_ms = FrToMs(m.first_fr, m.frq)
  BY DEF DskReady, AllSaid, DskOf
<1>2. /\ q.d0 = m.d0 /\ q.a0 = (IF m.pic THEN 0 ELSE m.a0)
      /\ q.frq = (IF m.frq = 50 THEN 0 ELSE m.frq)
      /\ q.loop = m.loop /\ q.sfx = m.sfx
      /\ m.first_fr < FR_MAX /\ (~m.time => m.first_fr = 0) => q.first_fr = m.first_fr
      /\ m.loop => q.loops_fr = m.loops_fr /\ q.loops = m.loops
      /\ q.hw = Flags(m.hw) /\ q.replay.s = WrittenText(m.replay.s)
  BY DEF ReadsBack
<1> HIDE DEF m
<1>3. /\ m.pic \in BOOLEAN /\ m.frq \in 1..1000 /\ m.loop \in BOOLEAN /\ m.loops \in Nat
      /\ m.loops_fr \in Nat /\ m.first_fr \in Nat
  <2>1. m \in TrackSet  BY <1>1
  <2>2. /\ m.pic \in BOOLEAN /\ m.frq \in Hertz /\ m.loop \in BOOLEAN /\ m.loops \in Nat
        /\ m.loops_fr \in Nat /\ m.first_fr \in Nat
    BY <2>1 DEF TrackSet
  <2> QED BY <2>2, Zenon DEF Hertz
<1>4. /\ w.pic = (q.a0 = 0) /\ w.a0 = (IF q.a0 = 0 THEN LOADADDR ELSE q.a0)
      /\ w.frq = (IF q.frq = 0 THEN 50 ELSE q.frq)
      /\ w.d0 = q.d0 /\ w.sfx = q.sfx /\ w.replay = q.replay /\ w.loop = q.loop
  BY DEF SaysSo, Player, Place0
<1>5. w.a0 = m.a0 /\ w.pic = m.pic
  <2>1. CASE m.pic
    <3>1. m.a0 = LOADADDR  BY <1>1, <2>1, Zenon DEF Sayable
    <3>2. q.a0 = 0  BY <1>2, <2>1, Zenon
    <3>3. w.a0 = LOADADDR /\ w.pic = TRUE  BY <1>4, <3>2, Zenon
    <3>4. m.pic \in BOOLEAN  BY <1>3
    <3>5. w.pic = m.pic  BY <2>1, <3>3, <3>4, Zenon
    <3> QED BY <3>1, <3>3, <3>5, Zenon
  <2>2. CASE ~m.pic
    <3>1. m.a0 # 0  BY <1>1, <2>2, Zenon DEF Sayable
    <3>2. q.a0 = m.a0  BY <1>2, <2>2, Zenon
    <3>3. q.a0 # 0  BY <3>1, <3>2, Zenon
    <3>4. w.a0 = q.a0 /\ w.pic = FALSE  BY <1>4, <3>3, Zenon
    <3>5. m.pic \in BOOLEAN  BY <1>3
    <3>6. w.pic = m.pic  BY <2>2, <3>4, <3>5, Zenon
    <3> QED BY <3>2, <3>4, <3>6, Zenon
  <2> QED BY <2>1, <2>2
<1>6. w.frq = m.frq
  <2> DEFINE x == m.frq
             y == q.frq
             v == w.frq
  <2>1. y = (IF x = 50 THEN 0 ELSE x) /\ v = (IF y = 0 THEN 50 ELSE y) /\ x \in 1..1000
    BY <1>2, <1>3, <1>4
  <2> HIDE DEF x, y, v
  <2>2. v = x  BY <2>1
  <2> QED BY <2>2 DEF x, v
<1>7. w.d0 = m.d0 /\ w.sfx = m.sfx /\ w.loop = m.loop  BY <1>2, <1>4
<1>8. Lasting(m.replay.s) => w.replay.s = m.replay.s  BY <1>2, <1>4 DEF Lasting, WrittenText
<1>9. ASSUME m.first_fr < FR_MAX
      PROVE  w.first_fr = m.first_fr /\ w.first_ms = m.first_ms /\ w.loops_fr = m.loops_fr
  <2>1. q.first_fr = m.first_fr  BY <1>1, <1>2, <1>9 DEF Sayable
  <2>2. w.first_fr = m.first_fr /\ w.first_ms = FrToMs(w.first_fr, w.frq)  BY <2>1 DEF SaysSo
  <2>3. w.loops_fr = (IF m.loop THEN m.loops_fr ELSE m.first_fr)  BY <1>2, <2>2 DEF SaysSo
  <2> QED BY <1>1, <1>6, <2>2, <2>3 DEF Sayable
<1>10. ASSUME m.loop, m.loops_fr > 0 PROVE w.loops = m.loops
  <2>1. q.loops = m.loops /\ q.loops > 0  BY <1>1, <1>2, <1>10
  <2>2. w.loops_fr = m.loops_fr /\ w.loops_fr # 0  BY <1>2, <1>3, <1>10 DEF SaysSo
  <2> QED BY <2>1, <2>2 DEF SaysSo
<1>11. ASSUME m.hw # {} PROVE w.hw = Flags(m.hw)
  <2>1. q.hw # {}  BY <1>2, <1>11 DEF Flags
  <2> QED BY <1>2, <2>1 DEF SaysSo
<1> QED BY <1>5, <1>6, <1>7, <1>8, <1>9, <1>10, <1>11 DEF SameButTexts, m

-----------------------------------------------------------------------------
(* What a track is not to repeat, and what the tracks before hand over.    *)
StrAt(c, slot, i) == c.mus[i].tags[slot].val.s

LEMMA LastBeforeIs ==
  ASSUME NEW c, NEW slot, NEW i \in Nat \ {0}
  PROVE  /\ LastBefore(c, slot, 1) = c.tags[slot].val.s
         /\ LastBefore(c, slot, i + 1) = IF StrAt(c, slot, i) # Nil THEN StrAt(c, slot, i)
                                         ELSE LastBefore(c, slot, i)
<1> DEFINE S(x) == {j \in 1..(x - 1) : StrAt(c, slot, j) # Nil}
           M(x) == CHOOSE j \in S(x) : \A k \in S(x) : k <= j
           L(x) == IF S(x) = {} THEN c.tags[slot].val.s ELSE StrAt(c, slot, M(x))
<1>1. ASSUME NEW x PROVE LastBefore(c, slot, x) = L(x)
  BY Zenon DEF LastBefore, StrAt
<1>2. S(1) = {}  OBVIOUS
<1>3. CASE StrAt(c, slot, i) # Nil
  <2>1. i \in S(i + 1) /\ \A k \in S(i + 1) : k <= i /\ k \in Int  BY <1>3
  <2> DEFINE m == M(i + 1)
             T == S(i + 1)
  <2>2. m \in T /\ \A k \in T : k <= m
    <3>1. \E j \in T : \A k \in T : k <= j  BY <2>1
    <3>2. m = CHOOSE j \in T : \A k \in T : k <= j  OBVIOUS
    <3> HIDE DEF T, m
    <3> QED BY <3>1, <3>2
  <2>3. m = i
    <3>1. i \in T /\ \A k \in T : k <= i /\ k \in Int  BY <2>1
    <3> HIDE DEF T, m
    <3> QED BY <2>2, <3>1
  <2>4. T # {}  BY <2>1
  <2>5. L(i + 1) = StrAt(c, slot, m)  BY <2>4, Zenon
  <2> HIDE DEF m, L
  <2> QED BY <1>1, <1>2, <1>3, <2>3, <2>5 DEF L
<1>4. CASE StrAt(c, slot, i) = Nil
  <2>1. ASSUME NEW j PROVE j \in S(i + 1) <=> j \in S(i)
    <3>1. j \in 1..((i + 1) - 1) <=> (j \in 1..(i - 1) \/ j = i)  OBVIOUS
    <3> QED BY <1>4, <3>1
  <2>2. S(i + 1) = S(i)
    <3> HIDE DEF S
    <3> QED BY <2>1
  <2>3. M(i + 1) = M(i)
    <3> HIDE DEF S
    <3> QED BY <2>2
  <2>4. L(i + 1) = L(i)
    <3> HIDE DEF S, M
    <3> QED BY <2>2, <2>3
  <2> HIDE DEF L
  <2> QED BY <1>1, <1>2, <1>4, <2>4 DEF L
<1> QED BY <1>3, <1>4

(* What a track is written says what it is heard as.                       *)
LEMMA HeirIs ==
  ASSUME NEW c, NEW slot, NEW i \in Nat \ {0}
  PROVE  /\ Lasting(LastBefore(c, slot, i + 1)) =>
              \/ Differs(c, slot, i) = LastBefore(c, slot, i + 1)
              \/ /\ Differs(c, slot, i) = Nil
                 /\ LastBefore(c, slot, i + 1) = LastBefore(c, slot, i)
         /\ Lasting(StrAt(c, slot, i)) => LastBefore(c, slot, i + 1) = StrAt(c, slot, i)
         /\ Differs(c, slot, i) # Nil => Differs(c, slot, i) = StrAt(c, slot, i)
<1> DEFINE s == StrAt(c, slot, i)
           l == LastBefore(c, slot, i)
           k == LastBefore(c, slot, i + 1)
           r == Differs(c, slot, i)
<1>1. k = IF s # Nil THEN s ELSE l  BY LastBeforeIs
<1>2. r = IF s = l THEN Nil ELSE WrittenText(s)  BY Zenon DEF Differs, StrAt
<1> HIDE DEF s, l, k, r
<1>3. Lasting(k) => r = k \/ (r = Nil /\ k = l)
  BY <1>1, <1>2 DEF Lasting, WrittenText
<1>4. Lasting(s) => k = s  BY <1>1 DEF Lasting
<1>5. r # Nil => r = s  BY <1>2 DEF WrittenText
<1> QED BY <1>3, <1>4, <1>5 DEF s, l, k, r

Heard(c, dtags, i, a) ==
  /\ Lasting(LastBefore(c, TITLE, i)) => a.title.s = LastBefore(c, TITLE, i)
  /\ Plain(LastBefore(c, ARTIST, i)) => a.artist.s = LastBefore(c, ARTIST, i)
  /\ i > 1 => a.data = c.mus[i - 1].data
  /\ a.dtags = dtags

(* From a to b, over the track w that was saved as q.                      *)
Turned(a, q, b, w) ==
  /\ SignsAs(a, q.tags, w.tags) /\ SaysSo(q, w)
  /\ b.title = w.tags[TITLE].val /\ b.artist = w.tags[ARTIST].val
  /\ b.data = w.data /\ w.data = DataAfter(a, q) /\ b.dtags = a.dtags

LEMMA TurnSays ==
  ASSUME NEW a \in Carried, NEW i, NEW q \in RawTrack, q.first_ms = 0, NEW b,
         Passed("sc68", a, i, q, b)
  PROVE  Turned(a, q, b, Ended("sc68", a, i, q))
<1> DEFINE n == TimedTrack("sc68", i, q)
           w == Ended("sc68", a, i, q)
           r == q.tags
           hw == n.hw
           own == Genred(hw, Titled(a, n.tags))[ARTIST].val.s # Nil
           signed == SignedTags("sc68", a, n)
<1>1. /\ SaysSo(q, w) /\ w.data = DataAfter(a, q) /\ w.tags = signed
  BY EndedSays, Zenon
<1>2. n.tags = r /\ r \in CleanTags
  <2>1. r \in CleanTags  BY DEF RawTrack
  <2> QED BY <2>1, TimedTrackIs DEF Content
<1>3. /\ b.title = signed[TITLE].val /\ b.artist = (IF own THEN signed[ARTIST].val ELSE a.artist)
      /\ b.data = DataAfter(a, q) /\ b.dtags = a.dtags
  BY Zenon DEF Passed
<1> HIDE DEF w, hw
<1>4. signed = Signed("sc68", a, Genred(hw, Titled(a, r)))
  BY <1>2, Zenon DEF SignedTags, hw
<1>5. own = (Genred(hw, Titled(a, r))[ARTIST].val.s # Nil)  BY <1>2, Zenon
<1> HIDE DEF n, r, signed, own
<1>6. SignsAs(a, r, signed) /\ own = (r[ARTIST].val.s # Nil)  BY <1>2, <1>4, <1>5, SignedIs
<1>7. b.artist = signed[ARTIST].val  BY <1>3, <1>6 DEF SignsAs
<1> QED BY <1>1, <1>3, <1>6, <1>7 DEF Turned, r, w

(* So what each track is saved as says it again, and the next is heard.    *)
LEMMA HeardNext ==
  ASSUME NEW n \in Nat \ {0}, NEW c, DskReady(n, c), AllTidy(n, c), NEW i \in 1..n, NEW a, NEW q,
         NEW b, NEW w, NEW dtags, ReadsBack(c, i, q), Turned(a, q, b, w), Heard(c, dtags, i, a)
  PROVE  /\ Heard(c, dtags, i + 1, b) /\ SameTrack(c.mus[i], w)
         /\ SavedTrack(c, i).artist # Nil => SameAlias(c.mus[i].tags, w.tags)
<1> DEFINE m == c.mus[i]
           t == m.tags
           k == SavedTrack(c, i)
           r == q.tags
           u == w.tags
<1>1. c \in DskOf(n) /\ m \in TrackSet /\ t \in TagsType /\ m.data # Nil /\ i \in Nat \ {0}
  <2>1. c \in DskOf(n)  BY DEF DskReady
  <2>2. m \in TrackSet  BY <2>1 DEF DskOf
  <2> QED BY <2>1, <2>2 DEF TrackSet
<1>2. Tidy(t)
  <2>1. i \in 0..n /\ TagsAt(c, i) = t  BY DEF TagsAt
  <2> QED BY <2>1, Zenon DEF AllTidy
<1>3. /\ k.title = Differs(c, TITLE, i) /\ k.artist = Differs(c, ARTIST, i) /\ k.cname = Nil
      /\ k.tags = CustomSaved(t)
      /\ k.data = (IF i > 1 /\ m.data = c.mus[i - 1].data THEN Nil ELSE m.data)
  BY DEF SavedTrack
<1>4. k.title \in STRING /\ k.artist \in STRING
  <2>1. SavedTrack(c, i) \in ChunkSet
    <3>1. c \in DskOf(n)  BY <1>1
    <3> HIDE DEF m, t, k
    <3> QED BY <3>1, SavedTrackIs, Zenon
  <2>2. k \in ChunkSet  BY <2>1, Zenon
  <2> HIDE DEF k
  <2> QED BY <2>2 DEF ChunkSet
<1>5. r = Texts(NewTags("genre"), k) /\ q.data = k.data  BY DEF ReadsBack
<1>6. SameButTexts(m, w)  BY TrackSaid DEF Turned
<1>7. /\ SignsAs(a, r, u) /\ b.title = u[TITLE].val /\ b.artist = u[ARTIST].val
      /\ b.data = w.data /\ w.data = DataAfter(a, q) /\ b.dtags = a.dtags
  BY DEF Turned
<1>8. w.data = m.data
  <2>1. i > 1 => a.data = c.mus[i - 1].data  BY DEF Heard
  <2> HIDE DEF m, k
  <2> QED BY <1>1, <1>3, <1>5, <1>7, <2>1 DEF DataAfter
<1> HIDE DEF k, r
<1>9. r \in CleanTags /\ Brings(t, r) /\ r[TITLE].val.s = k.title /\ r[ARTIST].val.s = k.artist
  <2> HIDE DEF t
  <2>1. "genre" \in {"genre", "format"}  OBVIOUS
  <2> QED BY <1>1, <1>2, <1>3, <1>4, <1>5, <2>1, TextsBring
<1> DEFINE title == LastBefore(c, TITLE, i + 1)
           artist == LastBefore(c, ARTIST, i + 1)
<1>10. /\ Lasting(title) => k.title = title \/ (k.title = Nil /\ title = LastBefore(c, TITLE, i))
       /\ Lasting(t[TITLE].val.s) => title = t[TITLE].val.s
  BY <1>1, <1>3, HeirIs DEF StrAt
<1>11. /\ Lasting(artist) => k.artist = artist
                             \/ (k.artist = Nil /\ artist = LastBefore(c, ARTIST, i))
       /\ Lasting(t[ARTIST].val.s) => artist = t[ARTIST].val.s
       /\ k.artist # Nil => k.artist = t[ARTIST].val.s
  BY <1>1, <1>3, HeirIs DEF StrAt
<1> HIDE DEF title, artist, t, u
<1>12. ASSUME Lasting(title) PROVE u[TITLE].val.s = title
  <2>1. u[TITLE].val = IF r[TITLE].val.s # Nil THEN r[TITLE].val ELSE a.title
    BY <1>7 DEF SignsAs
  <2>2. CASE k.title = title
    <3>1. r[TITLE].val.s = title /\ title # Nil  BY <1>9, <1>12, <2>2 DEF Lasting
    <3> QED BY <2>1, <3>1
  <2>3. CASE k.title = Nil /\ title = LastBefore(c, TITLE, i)
    <3>1. a.title.s = title  BY <1>12, <2>3 DEF Heard
    <3> QED BY <1>9, <2>1, <2>3, <3>1
  <2> QED BY <1>10, <1>12, <2>2, <2>3
<1>13. ASSUME Plain(artist) PROVE u[ARTIST].val.s = artist
  <2>1. Lasting(artist) /\ artist # Nil /\ artist \notin DOMAIN Split \ Unknown
    BY <1>13 DEF Plain, Lasting
  <2>2. CASE k.artist = artist
    <3>1. r[ARTIST].val.s = artist  BY <1>9, <2>2
    <3>2. u[ARTIST].val = r[ARTIST].val  BY <1>7, <2>1, <3>1 DEF SignsAs
    <3> QED BY <3>1, <3>2
  <2>3. CASE k.artist = Nil /\ artist = LastBefore(c, ARTIST, i)
    <3>1. a.artist.s = artist  BY <1>13, <2>3 DEF Heard
    <3>2. u[ARTIST].val = a.artist  BY <1>7, <1>9, <2>3 DEF SignsAs
    <3> QED BY <3>1, <3>2
  <2> QED BY <1>11, <2>1, <2>2, <2>3
<1>14. Lasting(t[TITLE].val.s) => u[TITLE].val.s = t[TITLE].val.s  BY <1>10, <1>12
<1>15. Plain(t[ARTIST].val.s) => u[ARTIST].val.s = t[ARTIST].val.s
  <2> SUFFICES ASSUME Plain(t[ARTIST].val.s) PROVE u[ARTIST].val.s = t[ARTIST].val.s  OBVIOUS
  <2>1. artist = t[ARTIST].val.s  BY <1>11 DEF Plain
  <2>2. Plain(artist)  BY <2>1
  <2> QED BY <1>13, <2>1, <2>2
<1>16. SameTexts(t, u)
  <2>1. LikeBut(r, u)  BY <1>7 DEF SignsAs
  <2> QED BY <1>1, <1>2, <1>9, <1>14, <1>15, <2>1, TextsSame
<1>17. SameTrack(m, w)
  <2> HIDE DEF m
  <2> QED BY <1>6, <1>8, <1>16 DEF SameTrack, SameButTexts, t, u
<1>18. ASSUME k.artist # Nil PROVE SameAlias(t, u)
  <2>1. r[ARTIST].val.s = t[ARTIST].val.s /\ r[ARTIST].val.s # Nil  BY <1>9, <1>11, <1>18
  <2>2. PICK y : u = DecodeAka(y) /\ y \in CleanTags /\ SameFinds(r, y) /\ y[ARTIST] = r[ARTIST]
    BY <1>7, <2>1 DEF SignsAs
  <2>3. Brings(t, y)  BY <1>1, <1>2, <1>9, <2>2, BringsSame
  <2>4. ~AkaSplits(y) => TagOf(u, "aka") = TagOf(y, "aka")  BY <2>2, DecodeApart
  <2>5. y[ARTIST].val.s = t[ARTIST].val.s  BY <2>1, <2>2
  <2> QED BY <1>1, <1>2, <2>2, <2>3, <2>4, <2>5, AliasSame
<1>19. Heard(c, dtags, i + 1, b)
  <2>1. Lasting(title) => b.title.s = title  BY <1>7, <1>12
  <2>2. Plain(artist) => b.artist.s = artist  BY <1>7, <1>13
  <2>3. b.data = c.mus[i].data /\ (i + 1) - 1 = i  BY <1>1, <1>7, <1>8
  <2>4. b.dtags = dtags  BY <1>7 DEF Heard
  <2> HIDE DEF m
  <2> QED BY <2>1, <2>2, <2>3, <2>4 DEF Heard, title, artist
<1> QED BY <1>17, <1>18, <1>19 DEF k, t, u

(* The tags of the disk, and what the first track is to hear.              *)
LEMMA HeadBack ==
  ASSUME NEW n \in Nat \ {0}, NEW c, DskReady(n, c), AllTidy(n, c), NEW f, f = Saved(c), ReadsOf(f)
  PROVE  /\ Heard(c, DecodedTags(f), 1, FirstOf(f))
         /\ \A by \in CleanTags :
              /\ SameTexts(c.tags, DiskSigned(DecodedTags(f), by))
              /\ f.head.artist # Nil => SameAlias(c.tags, DiskSigned(DecodedTags(f), by))
<1> DEFINE t == c.tags
           h == f.head
           r == Texts(NewTags("format"), h)
           hd == HeadTags(f)
           v == NamedTags(f)
           z == DecodedTags(f)
           a == FirstOf(f)
<1>0. TITLE # ARTIST /\ GENRE # ARTIST /\ GENRE # TITLE  BY DEF TITLE, ARTIST, GENRE
<1>1. t \in TagsType /\ Tidy(t)
  <2>1. t \in TagsType  BY DEF DskReady, DskOf
  <2>2. 0 \in 0..n /\ TagsAt(c, 0) = t  BY DEF TagsAt
  <2> QED BY <2>1, <2>2, Zenon DEF AllTidy
<1>2. /\ h.title = NotNoName(t[TITLE].val.s) /\ h.artist = NotNoName(t[ARTIST].val.s)
      /\ h.cname = Nil /\ h.tags = CustomSaved(t) /\ f.fmt = "sc68"
  BY DEF Saved
<1>3. h.title \in STRING /\ h.artist \in STRING
  <2>1. t[TITLE].val \in Text /\ t[ARTIST].val \in Text  BY <1>1, Slots DEF TagsType
  <2>2. t[TITLE].val.s \in STRING /\ t[ARTIST].val.s \in STRING  BY <2>1, Texts0
  <2> HIDE DEF t, h
  <2> QED BY <1>2, <2>2, WrittenIs
<1> HIDE DEF t, h
<1>4. r \in CleanTags /\ Brings(t, r) /\ r[TITLE].val.s = h.title /\ r[ARTIST].val.s = h.artist
  <2>1. "format" \in {"genre", "format"}  OBVIOUS
  <2> QED BY <1>1, <1>2, <1>3, <2>1, TextsBring
<1> HIDE DEF r
<1>5. /\ hd \in CleanTags /\ SameFinds(r, hd) /\ hd[TITLE] = r[TITLE] /\ hd[ARTIST] = r[ARTIST]
  <2> DEFINE g == Str(f.fmt)
  <2>1. hd = PutVal(r, GENRE, g)  BY DEF HeadTags, r, h
  <2>2. hd \in CleanTags  BY DEF ReadsOf
  <2> HIDE DEF hd, g
  <2> QED BY <1>0, <1>4, <2>1, <2>2, PutValApart, Slots
<1>6. /\ v \in CleanTags /\ SameFinds(hd, v) /\ v[ARTIST] = hd[ARTIST]
      /\ v[TITLE].val = IF hd[TITLE].val.s = Nil THEN Str("n/a") ELSE hd[TITLE].val
  <2> DEFINE x == IF hd[TITLE].val.s = Nil THEN Str("n/a") ELSE hd[TITLE].val
  <2>1. v = PutVal(hd, TITLE, x)  BY DEF NamedTags
  <2>2. v \in CleanTags  BY DEF ReadsOf
  <2> HIDE DEF v, x, hd
  <2>3. /\ SameFinds(hd, v) /\ v[ARTIST] = hd[ARTIST] /\ v[TITLE].val = x
    BY <1>0, <1>5, <2>1, PutValApart, Slots
  <2> QED BY <2>2, <2>3 DEF x
<1>7. z = DecodeAka(v)  BY <1>2 DEF DecodedTags, DiskDecoded
<1>8. /\ z \in CleanTags
      /\ a.title = z[TITLE].val /\ a.dtags = z
      /\ a.artist = IF v[ARTIST].val.s = Nil THEN Str("n/a") ELSE z[ARTIST].val
  <2>1. z \in CleanTags  BY DEF ReadsOf
  <2> HIDE DEF z, v
  <2> QED BY <2>1 DEF FirstOf, FromDisk, z, v
<1> HIDE DEF hd, v, z, a
<1>9. LikeBut(v, z) /\ z[TITLE] = v[TITLE] /\ (~AkaSplits(v) => z = v)  BY <1>6, <1>7, DecodeApart
<1>10. Brings(t, hd) /\ Brings(t, v)  BY <1>1, <1>4, <1>5, <1>6, BringsSame
<1>11. v[ARTIST].val.s = h.artist  BY <1>4, <1>5, <1>6
<1>12. Lasting(t[TITLE].val.s) => z[TITLE].val.s = t[TITLE].val.s
  <2> DEFINE s == t[TITLE].val.s
  <2>1. hd[TITLE].val.s = NotNoName(s)  BY <1>2, <1>4, <1>5
  <2>2. v[TITLE].val.s = IF NotNoName(s) = Nil THEN "n/a" ELSE NotNoName(s)
    BY <1>6, <2>1, Texts0
  <2> HIDE DEF s
  <2>3. Lasting(s) => v[TITLE].val.s = s
    BY <2>2 DEF Lasting, NotNoName, WrittenText
  <2> QED BY <1>9, <2>3 DEF s
<1>13. Plain(t[ARTIST].val.s) => z = v /\ v[ARTIST].val.s = t[ARTIST].val.s
                                 /\ v[ARTIST].val.s # Nil
  <2> DEFINE s == t[ARTIST].val.s
  <2>1. v[ARTIST].val.s = NotNoName(s)  BY <1>2, <1>11
  <2> HIDE DEF s
  <2>2. Plain(s) => v[ARTIST].val.s = s /\ s # Nil /\ s \notin DOMAIN Split \ Unknown
    BY <2>1 DEF Plain, Lasting, NotNoName, WrittenText
  <2>3. Plain(s) => ~AkaSplits(v)  BY <2>2 DEF AkaSplits
  <2> QED BY <1>9, <2>2, <2>3 DEF s
<1>14. Heard(c, z, 1, a)
  <2>1. LastBefore(c, TITLE, 1) = t[TITLE].val.s /\ LastBefore(c, ARTIST, 1) = t[ARTIST].val.s
    <3> 1 \in Nat \ {0}  OBVIOUS
    <3> QED BY LastBeforeIs DEF t
  <2>2. ~(1 > 1)  OBVIOUS
  <2> QED BY <1>8, <1>12, <1>13, <2>1, <2>2 DEF Heard
<1>15. ASSUME NEW by \in CleanTags
       PROVE  /\ SameTexts(t, DiskSigned(z, by))
              /\ h.artist # Nil => SameAlias(t, DiskSigned(z, by))
  <2> DEFINE e == DiskSigned(z, by)
  <2>1. LikeBut(z, e) /\ e[TITLE] = z[TITLE] /\ (z[ARTIST].val.s # Nil => e = z)
    <3>1. CASE z[ARTIST].val.s # Nil  BY <3>1 DEF DiskSigned, LikeBut
    <3>2. CASE z[ARTIST].val.s = Nil
      <4> DEFINE x == by[ARTIST].val
                 y == PutVal(z, ARTIST, x)
                 al == Alias(by)
      <4>1. e = WithAlias(y, al)  BY <3>2, Zenon DEF DiskSigned, PutVal
      <4>2. x \in CleanText /\ al \in CleanText  BY CleanTagIs, AliasClean, CleanAre, Slots
      <4> HIDE DEF x, e, al
      <4>3. y \in CleanTags /\ LikeBut(z, y) /\ y[TITLE] = z[TITLE]
        BY <1>0, <1>8, <4>2, PutValClean, PutValApart, Slots
      <4> HIDE DEF y
      <4>4. LikeBut(y, e) /\ e[TITLE] = y[TITLE]  BY <4>1, <4>2, <4>3, AliasApart, Slots
      <4> QED BY <3>2, <4>3, <4>4 DEF LikeBut
    <3> QED BY <3>1, <3>2
  <2> HIDE DEF e
  <2>2. LikeBut(v, e)  BY <1>9, <2>1 DEF LikeBut
  <2>3. Lasting(t[TITLE].val.s) => e[TITLE].val.s = t[TITLE].val.s  BY <1>12, <2>1
  <2>4. Plain(t[ARTIST].val.s) => e[ARTIST].val.s = t[ARTIST].val.s  BY <1>13, <2>1
  <2>5. SameTexts(t, e)  BY <1>1, <1>10, <2>2, <2>3, <2>4, TextsSame
  <2>6. ASSUME h.artist # Nil PROVE SameAlias(t, e)
    <3>1. v[ARTIST].val.s = t[ARTIST].val.s
      <4> DEFINE s == t[ARTIST].val.s
      <4>1. h.artist = NotNoName(s)  BY <1>2
      <4> HIDE DEF s
      <4>2. h.artist = s  BY <2>6, <4>1 DEF NotNoName, WrittenText
      <4> QED BY <1>11, <4>2 DEF s
    <3>2. ~AkaSplits(v) => TagOf(e, "aka") = TagOf(v, "aka")
      <4> SUFFICES ASSUME ~AkaSplits(v) PROVE e = v  OBVIOUS
      <4>1. z = v /\ z[ARTIST].val.s # Nil  BY <1>9, <1>11, <2>6
      <4> QED BY <2>1, <4>1
    <3> QED BY <1>1, <1>6, <1>10, <3>1, <3>2, AliasSame
  <2> QED BY <2>5, <2>6 DEF e
<1> QED BY <1>14, <1>15 DEF t, h, z, a

(* The tracks in turn, as they end, and the disk they make.                *)
EndsIn(fmt, N, mus, first, all, u) ==
  /\ u[0] = first /\ all = u[N] /\ \A i \in 0..N : u[i] \in Carried
  /\ AllEnd(fmt, N, mus, u)

LEMMA InheritEnds ==
  ASSUME NEW fmt, NEW N \in Nat \ {0}, NEW mus \in [1..N -> RawTrack], NEW first \in Carried,
         first.mus = <<>>
  PROVE  \E u : EndsIn(fmt, N, mus, first, InheritAll(fmt, mus, first), u)
<1>1. PICK u : /\ Turns(fmt, N, mus, first, u) /\ InheritAll(fmt, mus, first) = u[N]
               /\ \A i \in 0..N : u[i] \in Carried
  BY InheritTurns
<1>2. AllEnd(fmt, N, mus, u)  BY <1>1, TurnsEnd
<1>3. u[0] = first  BY <1>1 DEF Turns
<1> DEFINE all == InheritAll(fmt, mus, first)
<1>4. all = u[N]  BY <1>1
<1> HIDE DEF all
<1>5. EndsIn(fmt, N, mus, first, all, u)  BY <1>1, <1>2, <1>3, <1>4 DEF EndsIn
<1> QED BY <1>5 DEF all

(* The disk saved is the disk loaded.                                      *)
LEMMA SavedBack ==
  ASSUME NEW n \in Nat \ {0}, NEW c, DskReady(n, c), AllTidy(n, c)
  PROVE  Loadable(Saved(c)) /\ SameDisk(Saved(c), c, LoadedDisk(Saved(c)))
<1> DEFINE f == Saved(c)
           mus == TracksRead(f)
           first == FirstOf(f)
           all == AllOf(f)
           def == DefOf(f)
           z == DecodedTags(f)
           d == LoadedDisk(f)
<1>1. c \in DskOf(n)  BY DEF DskReady
<1>2. f \in FileSet /\ Loadable(f) /\ ReadsOf(f)  BY <1>1, SavedIs, ReadsAre
<1>3. /\ f.fmt = "sc68" /\ f.head.def = c.def /\ f.mus = [i \in 1..n |-> SavedTrack(c, i)]
      /\ c.nb = n /\ c.def \in 0..(n - 1)
  BY <1>1 DEF Saved, DskOf
<1>4. Len(f.mus) = n  BY <1>3
<1> HIDE DEF f
<1>5. /\ mus \in [1..n -> RawTrack] /\ first \in Carried /\ first.mus = <<>>
      /\ all.mus \in [1..n -> FullTrack]
      /\ d = Completed(ReadFile(f), all, def)
      /\ ReadFile(f) = [nb |-> n, def |-> c.def, ms |-> 0, hw |-> {}, tags |-> HeadTags(f),
                        mus |-> mus]
  BY <1>2, <1>3, <1>4 DEF ReadsOf
<1>6. def = c.def /\ def + 1 \in 1..n
  <2>1. def = c.def  BY <1>3, <1>4 DEF DefOf
  <2> HIDE DEF def
  <2> QED BY <1>3, <2>1
<1>7. all = InheritAll("sc68", mus, first)  BY <1>3 DEF AllOf
<1>8. \A i \in 1..n : mus[i] = ReadTrack(f, i)  BY <1>4 DEF TracksRead
<1>9. d.nb = n /\ d.def = def /\ d.mus = all.mus /\ d.tags = DiskSigned(all.dtags, all.mus[def + 1].tags)
  <2> HIDE DEF all, def, mus, d
  <2> QED BY <1>5 DEF Completed
<1> HIDE DEF mus, first, all, def, d
<1>10. PICK u : EndsIn("sc68", n, mus, first, all, u)  BY <1>5, <1>7, InheritEnds
<1> DEFINE w(i) == Ended("sc68", u[i - 1], i, mus[i])
<1>11. /\ u[0] = first /\ all = u[n] /\ \A i \in 0..n : u[i] \in Carried
       /\ \A i \in 1..n : Passed("sc68", u[i - 1], i, mus[i], u[i])
       /\ \A i \in 1..n : all.mus[i] = w(i)
  <2>1. u[0] = first /\ all = u[n] /\ \A i \in 0..n : u[i] \in Carried  BY <1>10, Zenon DEF EndsIn
  <2>2. AllEnd("sc68", n, mus, u)  BY <1>10, Zenon DEF EndsIn
  <2> QED BY <2>1, <2>2, Zenon DEF AllEnd
<1>12. ASSUME NEW i \in 1..n
       PROVE  ReadsBack(c, i, mus[i]) /\ Turned(u[i - 1], mus[i], u[i], w(i))
  <2>1. ReadsBack(c, i, mus[i])  BY <1>1, <1>8, ReadSaved DEF f
  <2>2. u[i - 1] \in Carried /\ mus[i] \in RawTrack
    <3> i - 1 \in 0..n  OBVIOUS
    <3> QED BY <1>5, <1>11
  <2>3. mus[i].first_ms = 0  BY <2>1 DEF ReadsBack
  <2>4. Turned(u[i - 1], mus[i], u[i], w(i))  BY <1>11, <2>2, <2>3, TurnSays
  <2> QED BY <2>1, <2>4
<1>13. /\ Heard(c, z, 1, first)
       /\ \A by \in CleanTags : /\ SameTexts(c.tags, DiskSigned(z, by))
                                /\ f.head.artist # Nil => SameAlias(c.tags, DiskSigned(z, by))
  BY <1>2, HeadBack DEF f, first
<1> HIDE DEF w, z
<1>14. ASSUME NEW i \in 1..n, Heard(c, z, i, u[i - 1])
       PROVE  /\ Heard(c, z, i + 1, u[i]) /\ SameTrack(c.mus[i], w(i))
              /\ SavedTrack(c, i).artist # Nil => SameAlias(c.mus[i].tags, w(i).tags)
  BY <1>12, <1>14, HeardNext
<1> DEFINE T == {k \in Nat : Heard(c, z, k + 1, u[k])}
<1>15. 0 \in T  BY <1>11, <1>13
<1>16. ASSUME NEW k \in T, k < n PROVE k + 1 \in T
  <2>1. k \in Nat /\ k + 1 \in 1..n /\ (k + 1) - 1 = k /\ Heard(c, z, k + 1, u[k])  BY <1>16
  <2> DEFINE i == k + 1
  <2>2. i \in 1..n /\ Heard(c, z, i, u[i - 1])  BY <2>1
  <2> HIDE DEF i
  <2>3. Heard(c, z, i + 1, u[i])  BY <1>14, <2>2
  <2> QED BY <2>1, <2>3 DEF i
<1>17. \A k \in 0..n : k \in T
  <2>1. T \in SUBSET Nat /\ n \in Nat  OBVIOUS
  <2> HIDE DEF T
  <2> QED BY <1>15, <1>16, <2>1, UpTo
<1>18. ASSUME NEW i \in 1..n
       PROVE  /\ SameTrack(c.mus[i], d.mus[i])
              /\ f.mus[i].artist # Nil => SameAlias(c.mus[i].tags, d.mus[i].tags)
  <2>1. i - 1 \in 0..n /\ (i - 1) + 1 = i  OBVIOUS
  <2>2. i - 1 \in T  BY <1>17, <2>1
  <2>3. Heard(c, z, i, u[i - 1])  BY <2>1, <2>2
  <2>4. d.mus[i] = w(i)  BY <1>9, <1>11
  <2>5. f.mus[i] = SavedTrack(c, i)  BY <1>3
  <2> QED BY <1>14, <2>3, <2>4, <2>5
<1>19. d.tags = DiskSigned(z, all.mus[def + 1].tags) /\ all.mus[def + 1].tags \in CleanTags
  <2>1. n \in T  BY <1>17
  <2>2. u[n].dtags = z  BY <2>1 DEF Heard
  <2>3. all.mus[def + 1] \in FullTrack  BY <1>5, <1>6
  <2> QED BY <1>9, <1>11, <2>2, <2>3, FullTrackIs
<1>20. SameTexts(c.tags, d.tags) /\ (f.head.artist # Nil => SameAlias(c.tags, d.tags))
  <2> DEFINE by == all.mus[def + 1].tags
  <2>1. by \in CleanTags /\ d.tags = DiskSigned(z, by)  BY <1>19
  <2> HIDE DEF by
  <2> QED BY <1>13, <2>1
<1>21. SameDisk(f, c, d)  BY <1>3, <1>6, <1>9, <1>18, <1>20 DEF SameDisk
<1> QED BY <1>2, <1>21 DEF f, d

(* A disk saved by save_sc68() and loaded again by file68_load() and       *)
(* valid() is the disk that was saved, as long as no deleted tag was       *)
(* counted over: the tags, the tracks with their player, their times, their*)
(* loops, their flags and their music data, but for what the format cannot *)
(* say.                                                                    *)
THEOREM SavedReloads == DiskSpec => []SavedIsLoaded
<1>1. EditorTold => SavedIsLoaded
  <2> SUFFICES ASSUME EditorTold, stored # NoFile, ~mixed
               PROVE  Loadable(stored) /\ SameDisk(stored, kept, LoadedDisk(stored))
    BY DEF SavedIsLoaded
  <2>1. stored = Saved(kept) /\ \E n \in Nat \ {0} : DskReady(n, kept) /\ AllTidy(n, kept)
    BY DEF EditorTold, EditorKept
  <2>2. PICK n \in Nat \ {0} : DskReady(n, kept) /\ AllTidy(n, kept)  BY <2>1
  <2>3. Loadable(Saved(kept)) /\ SameDisk(Saved(kept), kept, LoadedDisk(Saved(kept)))
    BY <2>2, SavedBack
  <2> QED BY <2>1, <2>3
<1> QED BY <1>1, ToldAlways, PTL

(* Types of the disk editor: the file loaded, completed and saved again.   *)
THEOREM DiskTypes == DiskSpec => []DiskTypeOK
BY EditorAlways, EditorTypes, PTL

(* mksc68_dsk.c: every string the editor allocated is held by one tag or   *)
(* one replay name, which frees it.                                        *)
THEOREM StringsAreOwned == DiskSpec => []StringsOwned
BY EditorAlways, EditorHolds, PTL

-----------------------------------------------------------------------------
(* The background player.                                                  *)
Place == Running \cup {"none", "done"}
Inst == [live: BOOLEAN, disk: DskId \cup {NoDsk}, req: {"none", "play", "stop"},
         mus: BOOLEAN, beat: BOOLEAN]
Owning == InInit \cup {"ready", "run"}

Nobody == \A t \in Thread : ~Live(t)

(* The mark in playinfo says that the only thread there is has started and *)
(* is not over, or that it was cancelled.                                  *)
Marks ==
  /\ \A t \in Thread :
       /\ Live(t) => t = thread /\ t \notin joined
       /\ tpc[t] = "start" => isplaying = 0
       /\ Live(t) /\ isplaying = 0 => tpc[t] = "start"
  /\ isplaying # 0 => thread \in Thread /\ (Live(thread) \/ thread \in cancelled)
  /\ code = 1 => thread \in Thread /\ (tpc[thread] = "run" \/ thread \in cancelled)
  /\ \A t \in cancelled : tpc[t] # "none"

(* Whose instance playinfo.sc68 is, and whether it is still there.         *)
Owns ==
  /\ sc68 \in {Null, thread}
  /\ \A t \in Thread :
       /\ tpc[t] \in {"start", "out", "create"} => sc68 = Null /\ ~inst[t].live
       /\ tpc[t] \in Owning => sc68 = t /\ inst[t].live
       /\ tpc[t] \in {"end", "destroy"} => (inst[t].live <=> sc68 = t)
       /\ tpc[t] \in {"forget", "over"} => ~inst[t].live
       /\ tpc[t] = "over" => sc68 = Null
       /\ tpc[t] = "done" /\ inst[t].live => t \in cancelled

(* What a thread finds in its instance: a disk once it has opened one, and *)
(* an order to play and then a music, unless it was told to stop meanwhile.*)
Mailbox ==
  \A t \in Thread :
    /\ tpc[t] \in Owning \ {"open"} => inst[t].disk # NoDsk
    /\ tpc[t] = "first" /\ inst[t].req # "play" => t \in deaf
    /\ tpc[t] \in {"ready", "run"} /\ ~inst[t].mus => t \in deaf

(* The interpreter stops the thread of playinfo; when it then waits for it *)
(* the thread was cancelled, or told in time, or is past play_run().       *)
ToldToStop ==
  \/ thread \in cancelled \cup deaf
  \/ tpc[thread] \in {"ready", "run"} /\ inst[thread].req = "stop"
  \/ tpc[thread] \in {"end", "destroy", "forget", "over", "done"}

Stops ==
  /\ mpc \in {"look", "ask", "join"} =>
       /\ thread \in Thread /\ tpc[thread] # "none"
       /\ thread \in joined => thread \in cancelled
  /\ mpc \in {"look", "ask"} => why # "wait"
  /\ mpc = "ask" =>
       /\ held = thread /\ tpc[thread] \notin {"start", "out", "create"}
       /\ tpc[thread] \in {"end", "destroy"} => sc68 = thread
  /\ mpc = "join" /\ why # "wait" => ToldToStop
  /\ mpc \in {"reset", "spawn"} => Nobody
  /\ mpc = "spawn" => sc68 = Null /\ isplaying = 0 /\ code = 0

(* What holds until a `play' is typed too early.                           *)
MksSolo == Marks /\ Owns /\ Mailbox /\ Stops /\ "twice" \notin harm
MksInv == MksTypeOK /\ (~early => MksSolo)

-----------------------------------------------------------------------------
(* Types: whatever the order of commands and thread steps.                 *)
LEMMA InstTyped ==
  ASSUME MksTypeOK, NEW s \in Thread, NEW i \in Inst, inst' = [inst EXCEPT ![s] = i]
  PROVE  inst' \in [Thread -> Inst]
BY DEF MksTypeOK, Inst

LEMMA ThreadTyped ==
  ASSUME MksTypeOK, NEW t \in Thread, ThreadStep(t)
  PROVE  MksTypeOK'
<1> USE MksAssumption DEF AtStep, Jump, JumpUnlessCancelled, Fail, playinfo, threads, main, history
<1>1. /\ inst \in [Thread -> Inst] /\ \A s \in Thread : inst[s] \in Inst
      /\ sc68 \in Thread \cup {Null} /\ dsk \in DskId \cup {NoDsk}
  BY DEF MksTypeOK, Inst
<1>2. ASSUME inst' \in [Thread -> Inst], tpc' \in [Thread -> Place],
             harm' \subseteq harm \cup {"disk", "nullmus", "twice"},
             isplaying' \in 0..3, code' \in {-1, 0, 1}, sc68' \in Thread \cup {Null},
             UNCHANGED <<dsk, dead, thread, cancelled, joined, main, history>>
      PROVE  MksTypeOK'
  BY <1>2 DEF MksTypeOK, Place, Inst
<1>3. ASSUME NEW p \in Place, tpc' = [tpc EXCEPT ![t] = p] PROVE tpc' \in [Thread -> Place]
  BY <1>3 DEF MksTypeOK, Place
<1>4. isplaying \in 0..3 /\ code \in {-1, 0, 1}
  BY DEF MksTypeOK
<1>5. CASE Start(t) \/ RunStart(t) \/ EndStart(t) \/ EndForget(t) \/ EndOver(t)
  <2>1. inst' = inst /\ harm' = harm /\ isplaying' \in 0..3 /\ code' \in {-1, 0, 1}
        /\ sc68' \in {sc68, Null} /\ UNCHANGED <<dsk, dead, thread, cancelled, joined, main, history>>
    BY <1>4, <1>5 DEF Start, RunStart, EndStart, EndForget, EndOver, IdleMark
  <2>2. \E p \in {"out", "run", "destroy", "over", "done"} : tpc' = [tpc EXCEPT ![t] = p]
    BY <1>5 DEF Start, RunStart, EndStart, EndForget, EndOver
  <2>3. tpc' \in [Thread -> Place]
    BY <1>3, <2>2 DEF Place, Running
  <2> QED BY <1>1, <1>2, <2>1, <2>3
<1>6. ASSUME NEW ok \in BOOLEAN, OpenOut(t, ok) PROVE MksTypeOK'
  <2>1. inst' = inst /\ harm' = harm /\ UNCHANGED playinfo
        /\ UNCHANGED <<dsk, dead, thread, cancelled, joined, main, history>>
    BY <1>6 DEF OpenOut
  <2>2. \E p \in {"create", "end", "done"} : tpc' = [tpc EXCEPT ![t] = p]
    BY <1>6 DEF OpenOut
  <2>3. tpc' \in [Thread -> Place]
    BY <1>3, <2>2 DEF Place, Running
  <2> QED BY <1>1, <1>2, <1>4, <2>1, <2>3
<1>7. ASSUME NEW ok \in BOOLEAN, Create(t, ok) PROVE MksTypeOK'
  <2>1. harm' = harm /\ sc68' \in {t, Null} /\ UNCHANGED <<isplaying, code>>
        /\ UNCHANGED <<dsk, dead, thread, cancelled, joined, main, history>>
    BY <1>7 DEF Create
  <2>2. \E p \in {"open", "end"} : tpc' = [tpc EXCEPT ![t] = p]
    BY <1>7 DEF Create
  <2>3. tpc' \in [Thread -> Place]
    BY <1>3, <2>2 DEF Place, Running, InInit
  <2>4. [NoInst EXCEPT !.live = TRUE] \in Inst
    BY DEF NoInst, Inst
  <2>5. inst' \in [Thread -> Inst]
    BY <1>1, <1>7, <2>4, InstTyped DEF Create
  <2> QED BY <1>1, <1>2, <1>4, <2>1, <2>3, <2>5
<1>8. CASE OpenDisk(t) \/ PostPlay(t)
  <2>1. harm' = harm /\ UNCHANGED playinfo
        /\ UNCHANGED <<dsk, dead, thread, cancelled, joined, main, history>>
    BY <1>8 DEF OpenDisk, PostPlay
  <2>2. \E p \in {"end", "play", "first"} : tpc' = [tpc EXCEPT ![t] = p]
    BY <1>8 DEF OpenDisk, PostPlay
  <2>3. tpc' \in [Thread -> Place]
    BY <1>3, <2>2 DEF Place, Running
  <2>4. inst' \in [Thread -> Inst]
    <3>1. CASE inst' = inst
      BY <1>1, <3>1
    <3>2. CASE inst' # inst
      <4> DEFINE i == [inst[sc68] EXCEPT !.disk = dsk, !.req = "play"]
                 j == [inst[sc68] EXCEPT !.req = "play"]
      <4>1. sc68 \in Thread
        BY <1>1, <1>8, <3>2 DEF OpenDisk, PostPlay
      <4>2. i \in Inst /\ j \in Inst
        BY <1>1, <4>1 DEF Inst
      <4>3. inst' = [inst EXCEPT ![sc68] = i] \/ inst' = [inst EXCEPT ![sc68] = j]
        BY <1>1, <1>8, <3>2 DEF OpenDisk, PostPlay
      <4> HIDE DEF i, j
      <4> QED BY <4>1, <4>2, <4>3, InstTyped
    <3> QED BY <3>1, <3>2
  <2> QED BY <1>1, <1>2, <1>4, <2>1, <2>3, <2>4
<1>9. CASE FirstProcess(t)
  <2>1. harm' \subseteq harm \cup {"disk"} /\ code' \in {code, 0} /\ UNCHANGED <<isplaying, sc68>>
        /\ UNCHANGED <<dsk, dead, thread, cancelled, joined, main, history>>
    BY <1>9 DEF FirstProcess
  <2>2. \E p \in {"end", "load", "ready"} : tpc' = [tpc EXCEPT ![t] = p]
    BY <1>9 DEF FirstProcess
  <2>3. tpc' \in [Thread -> Place]
    BY <1>3, <2>2 DEF Place, Running
  <2>4. inst' \in [Thread -> Inst]
    <3>1. CASE sc68 = Null
      BY <1>1, <1>9, <3>1 DEF FirstProcess
    <3>2. CASE sc68 # Null
      <4> DEFINE i == [inst[sc68] EXCEPT !.req = "none"]
      <4>1. sc68 \in Thread /\ i \in Inst
        BY <1>1, <3>2 DEF Inst
      <4>2. inst' = [inst EXCEPT ![sc68] = i]
        BY <1>1, <1>9, <3>2 DEF FirstProcess
      <4> HIDE DEF i
      <4> QED BY <4>1, <4>2, InstTyped
    <3> QED BY <3>1, <3>2
  <2> QED BY <1>1, <1>2, <1>4, <2>1, <2>3, <2>4
<1>10. ASSUME NEW ok \in BOOLEAN, LoadTrack(t, ok) PROVE MksTypeOK'
  <2>1. harm' = harm /\ code' \in {-1, 0} /\ UNCHANGED <<isplaying, sc68>>
        /\ UNCHANGED <<dsk, dead, thread, cancelled, joined, main, history>>
    BY <1>10 DEF LoadTrack
  <2>2. \E p \in {"end", "ready"} : tpc' = [tpc EXCEPT ![t] = p]
    BY <1>10 DEF LoadTrack
  <2>3. tpc' \in [Thread -> Place]
    BY <1>3, <2>2 DEF Place, Running
  <2>4. inst' \in [Thread -> Inst]
    <3>1. CASE sc68 = Null
      BY <1>1, <1>10, <3>1 DEF LoadTrack
    <3>2. CASE sc68 # Null
      <4> DEFINE i == [inst[sc68] EXCEPT !.req = "none", !.mus = ok]
      <4>1. sc68 \in Thread /\ i \in Inst
        BY <1>1, <3>2 DEF Inst
      <4>2. inst' = [inst EXCEPT ![sc68] = i]
        BY <1>1, <1>10, <3>2 DEF LoadTrack
      <4> HIDE DEF i
      <4> QED BY <4>1, <4>2, InstTyped
    <3> QED BY <3>1, <3>2
  <2> QED BY <1>1, <1>2, <1>4, <2>1, <2>3, <2>4
<1>11. ASSUME NEW what \in {"more", "end", "error"}, PlayPass(t, what) PROVE MksTypeOK'
  <2>1. harm' \subseteq harm \cup {"disk", "nullmus"} /\ UNCHANGED <<isplaying, sc68>>
        /\ UNCHANGED <<dsk, dead, thread, cancelled, joined, main, history>>
    BY <1>11 DEF PlayPass
  <2>2. code' \in {code, 0, -1}
    BY <1>11 DEF PlayPass, RunCode
  <2>3. \E p \in {"run", "end", "done"} : tpc' = [tpc EXCEPT ![t] = p]
    BY <1>11 DEF PlayPass
  <2>4. tpc' \in [Thread -> Place]
    BY <1>3, <2>3 DEF Place, Running
  <2>5. inst' \in [Thread -> Inst]
    <3>1. CASE sc68 = Null
      BY <1>1, <1>11, <3>1 DEF PlayPass
    <3>2. CASE sc68 # Null
      <4> DEFINE i == [inst[sc68] EXCEPT !.req = "none", !.mus = FALSE]
                 j == [inst[sc68] EXCEPT !.beat = ~@]
      <4>1. sc68 \in Thread /\ i \in Inst /\ j \in Inst
        BY <1>1, <3>2 DEF Inst
      <4>2. inst' = [inst EXCEPT ![sc68] = i] \/ inst' = [inst EXCEPT ![sc68] = j]
        BY <1>1, <1>11, <3>2 DEF PlayPass
      <4> HIDE DEF i, j
      <4> QED BY <4>1, <4>2, InstTyped
    <3> QED BY <3>1, <3>2
  <2> QED BY <1>1, <1>2, <1>4, <2>1, <2>2, <2>4, <2>5
<1>12. CASE EndDestroy(t)
  <2>1. harm' \subseteq harm \cup {"twice"} /\ UNCHANGED playinfo
        /\ UNCHANGED <<dsk, dead, thread, cancelled, joined, main, history>>
    BY <1>12 DEF EndDestroy
  <2>2. tpc' \in [Thread -> Place]
    BY <1>3, <1>12 DEF EndDestroy, Place, Running
  <2>3. inst' \in [Thread -> Inst]
    <3>1. CASE sc68 = Null
      BY <1>1, <1>12, <3>1 DEF EndDestroy
    <3>2. CASE sc68 # Null
      <4> DEFINE i == [inst[sc68] EXCEPT !.live = FALSE, !.beat = FALSE]
      <4>1. sc68 \in Thread /\ i \in Inst
        BY <1>1, <3>2 DEF Inst
      <4>2. inst' = [inst EXCEPT ![sc68] = i]
        BY <1>1, <1>12, <3>2 DEF EndDestroy, DestroyInst
      <4> HIDE DEF i
      <4> QED BY <4>1, <4>2, InstTyped
    <3> QED BY <3>1, <3>2
  <2> QED BY <1>1, <1>2, <1>4, <2>1, <2>2, <2>3
<1> QED BY <1>5, <1>6, <1>7, <1>8, <1>9, <1>10, <1>11, <1>12 DEF ThreadStep

LEMMA CommandTyped ==
  ASSUME MksTypeOK, Typed \/ Main
  PROVE  MksTypeOK'
<1> USE MksAssumption DEF Fail, playinfo, threads, main, history
<1>1. CASE Typed
  <2>1. /\ UNCHANGED <<playinfo, threads, held, harm, deaf>> /\ early' \in BOOLEAN
        /\ dsk' \in DskId \cup {NoDsk} /\ dead' \subseteq DskId /\ err' \in {err, -1}
        /\ mpc' \in {mpc, "look", "reset", "exit", "idle"}
        /\ why' \in {why, "playfg", "playbg", "quit", "stop"}
    BY <1>1 DEF Typed, CmdPlay, CmdStop, CmdDisk, MksTypeOK
  <2> QED BY <2>1 DEF MksTypeOK
<1>2. CASE StopLook
  BY <1>2 DEF StopLook, Cancel, MksTypeOK
<1>3. CASE StopAsk
  <2>1. PICK s \in {held, sc68} :
          /\ harm' \in {harm, harm \cup {"freed"}}
          /\ inst' = IF s # Null /\ inst[s].disk # NoDsk
                     THEN [inst EXCEPT ![s].req = "stop"] ELSE inst
    BY <1>3 DEF StopAsk
  <2>2. inst' \in [Thread -> Inst]
    <3>1. CASE inst' = inst
      BY <3>1 DEF MksTypeOK, Inst
    <3>2. CASE inst' # inst
      <4> DEFINE i == [inst[s] EXCEPT !.req = "stop"]
      <4>1. s \in Thread /\ i \in Inst
        BY <2>1, <3>2 DEF MksTypeOK, Inst
      <4>2. inst' = [inst EXCEPT ![s] = i]
        BY <2>1, <3>2, <4>1 DEF MksTypeOK
      <4> HIDE DEF i
      <4> QED BY <4>1, <4>2, InstTyped
    <3> QED BY <3>1, <3>2
  <2>3. deaf' \subseteq Thread
    BY <1>3 DEF StopAsk, MksTypeOK
  <2>4. /\ mpc' = "join" /\ held' = Null
        /\ UNCHANGED <<dsk, dead, playinfo, tpc, cancelled, joined, why, err, early>>
    BY <1>3 DEF StopAsk
  <2> QED BY <2>1, <2>2, <2>3, <2>4 DEF MksTypeOK, Inst
<1>4. CASE Join
  BY <1>4 DEF Join, MksTypeOK
<1>5. CASE Reset
  BY <1>5 DEF Reset, MksTypeOK
<1>6. ASSUME NEW t \in Thread, Spawn(t) PROVE MksTypeOK'
  <2>1. tpc' \in [Thread -> Running \cup {"none", "done"}]
    BY <1>6 DEF Spawn, Jump, MksTypeOK, Running
  <2>2. NoInst \in Inst
    BY DEF NoInst, Inst
  <2>3. inst' \in [Thread -> Inst]
    BY <1>6, <2>2, InstTyped DEF Spawn
  <2> QED BY <1>6, <2>1, <2>3 DEF Spawn, MksTypeOK, Inst
<1>7. CASE SpawnFails
  BY <1>7 DEF SpawnFails, MksTypeOK
<1>8. CASE Exit
  <2>1. NoInst \in Inst
    BY DEF NoInst, Inst
  <2>2. inst' \in [Thread -> Inst]
    BY <1>8, <2>1 DEF Exit
  <2>3. tpc' \in [Thread -> Running \cup {"none", "done"}]
    BY <1>8 DEF Exit
  <2>4. /\ dsk' = NoDsk /\ sc68' = Null /\ thread' = Null /\ held' = Null
        /\ isplaying' = 0 /\ code' = 0 /\ err' = 0 /\ mpc' = "idle" /\ why' = "none"
    BY <1>8 DEF Exit
  <2>5. dead' = {} /\ cancelled' = {} /\ joined' = {} /\ harm' = {} /\ deaf' = {} /\ early' = FALSE
    BY <1>8 DEF Exit
  <2>6. /\ dead' \subseteq DskId /\ cancelled' \subseteq Thread /\ joined' \subseteq Thread
        /\ harm' \subseteq {"disk", "nullmus", "twice", "freed", "join"}
        /\ deaf' \subseteq Thread /\ early' \in BOOLEAN
    BY <2>5
  <2> QED BY <2>2, <2>3, <2>4, <2>6 DEF MksTypeOK, Inst
<1> QED BY <1>1, <1>2, <1>3, <1>4, <1>5, <1>6, <1>7, <1>8 DEF Main

-----------------------------------------------------------------------------
(* The thread that takes a step is the one in playinfo, and the instance   *)
(* it uses is its own.                                                     *)
LEMMA TheOne ==
  ASSUME MksTypeOK, MksSolo, NEW t \in Thread, ThreadStep(t)
  PROVE  /\ t = thread /\ t \notin joined /\ t # Null /\ tpc[t] \in Running
         /\ \A u \in Thread : u # t => tpc[u] \notin Running
         /\ sc68 \in {Null, t}
         /\ mpc \notin {"reset", "spawn"}
<1>1. tpc[t] \in Running
  BY DEF ThreadStep, Start, OpenDisk, PostPlay, FirstProcess, OpenOut, Create, LoadTrack, RunStart,
         PlayPass, EndStart, EndDestroy, EndForget, EndOver, AtStep, Running
<1>2. t = thread /\ t \notin joined /\ \A u \in Thread : u # t => tpc[u] \notin Running
  BY <1>1 DEF MksSolo, Marks, Live
<1>3. sc68 \in {Null, t}
  BY <1>2 DEF MksSolo, Owns
<1>4. mpc \notin {"reset", "spawn"}
  BY <1>1 DEF MksSolo, Stops, Nobody, Live
<1> QED BY <1>1, <1>2, <1>3, <1>4, MksAssumption

(* It moves itself and writes playinfo; the rest is as it was.             *)
Moves(t) ==
  /\ UNCHANGED <<dsk, dead, thread, cancelled, joined, main, history>>
  /\ tpc' \in [Thread -> Place]
  /\ \A u \in Thread : u # t => tpc'[u] = tpc[u]

LEMMA ThreadMoves ==
  ASSUME MksTypeOK, NEW t \in Thread, ThreadStep(t)
  PROVE  Moves(t)
<1> USE DEF AtStep, Jump, JumpUnlessCancelled, MksTypeOK, Place, Running, playinfo, threads, main,
            history, Moves
<1>1. CASE Start(t) \/ OpenDisk(t) \/ PostPlay(t) \/ FirstProcess(t) \/ RunStart(t)
  BY <1>1 DEF Start, OpenDisk, PostPlay, FirstProcess, RunStart
<1>2. ASSUME NEW ok \in BOOLEAN, OpenOut(t, ok) \/ Create(t, ok) \/ LoadTrack(t, ok)
      PROVE  Moves(t)
  BY <1>2 DEF OpenOut, Create, LoadTrack
<1>3. ASSUME NEW what, PlayPass(t, what)
      PROVE  Moves(t)
  BY <1>3 DEF PlayPass
<1>4. CASE EndStart(t) \/ EndDestroy(t) \/ EndForget(t) \/ EndOver(t)
  BY <1>4 DEF EndStart, EndDestroy, EndForget, EndOver
<1> QED BY <1>1, <1>2, <1>3, <1>4 DEF ThreadStep

(* What it may do to instances: nothing, or change its own.                *)
Becomes(t, live, open, req, mus) ==
  /\ \A u \in Thread : u # t => inst'[u] = inst[u]
  /\ inst'[t].live = live /\ (inst'[t].disk # NoDsk) = open
  /\ inst'[t].req = req /\ inst'[t].mus = mus
Opened(t) == inst[t].disk # NoDsk
Keeps(t) == Becomes(t, inst[t].live, Opened(t), inst[t].req, inst[t].mus)

LEMMA BecomesOne ==
  ASSUME MksTypeOK, NEW t \in Thread, NEW i \in Inst, inst' = [inst EXCEPT ![t] = i]
  PROVE  Becomes(t, i.live, i.disk # NoDsk, i.req, i.mus)
BY DEF MksTypeOK, Inst, Becomes

Leaves(mark, s, c) == isplaying' = mark /\ sc68' = s /\ code' = c

(* The course of a play thread: where it goes and what it leaves.          *)
Course(t, from, to) == tpc[t] = from /\ tpc'[t] = to
Course1(t) ==
  \/ Course(t, "start", "out") /\ Leaves(2, sc68, -1) /\ Keeps(t)
  \/ Course(t, "out", "create") /\ Leaves(isplaying, sc68, code) /\ Keeps(t)
  \/ Course(t, "out", "end") /\ Leaves(isplaying, sc68, code) /\ Keeps(t)
  \/ Course(t, "out", "done") /\ t \in cancelled /\ Leaves(isplaying, sc68, code) /\ Keeps(t)
  \/ Course(t, "create", "open") /\ Leaves(isplaying, t, code) /\ Becomes(t, TRUE, FALSE, "none", FALSE)
  \/ Course(t, "create", "end") /\ Leaves(isplaying, Null, code) /\ Keeps(t)
  \/ Course(t, "open", "end") /\ Leaves(isplaying, sc68, code) /\ Keeps(t)
  \/ /\ Course(t, "open", "play") /\ Leaves(isplaying, sc68, code)
     /\ Becomes(t, inst[t].live, TRUE, "play", inst[t].mus)
  \/ Course(t, "play", "end") /\ Leaves(isplaying, sc68, code) /\ Keeps(t)
  \/ /\ Course(t, "play", "first") /\ Leaves(isplaying, sc68, code)
     /\ Becomes(t, inst[t].live, Opened(t), "play", inst[t].mus)
Course2(t) ==
  \/ /\ Course(t, "first", "load") /\ Leaves(isplaying, sc68, code)
     /\ Becomes(t, inst[t].live, Opened(t), "none", inst[t].mus)
  \/ /\ Course(t, "first", "ready") /\ Leaves(isplaying, sc68, 0) /\ inst[t].req # "play"
     /\ Becomes(t, inst[t].live, Opened(t), "none", inst[t].mus)
  \/ /\ Course(t, "load", "ready") /\ Leaves(isplaying, sc68, 0)
     /\ Becomes(t, inst[t].live, Opened(t), "none", TRUE)
  \/ /\ Course(t, "load", "end") /\ Leaves(isplaying, sc68, -1)
     /\ Becomes(t, inst[t].live, Opened(t), "none", FALSE)
  \/ Course(t, "ready", "run") /\ Leaves(1, sc68, 1) /\ Keeps(t)
Course3(t) ==
  \/ Course(t, "run", "run") /\ Leaves(isplaying, sc68, code) /\ Keeps(t)
     /\ t \notin cancelled /\ inst[t].req # "stop"
  \/ /\ Course(t, "run", "end") /\ \E c \in {0, -1} : Leaves(isplaying, sc68, c)
     /\ Keeps(t) \/ Becomes(t, inst[t].live, Opened(t), "none", FALSE)
  \/ /\ Course(t, "run", "done") /\ t \in cancelled /\ Leaves(isplaying, sc68, code)
     /\ Keeps(t) \/ Becomes(t, inst[t].live, Opened(t), "none", FALSE)
Course4(t) ==
  \/ Course(t, "end", "destroy") /\ Leaves(3, sc68, code) /\ Keeps(t)
  \/ /\ Course(t, "destroy", "forget") /\ Leaves(isplaying, sc68, code)
     /\ \/ sc68 = Null /\ Keeps(t)
        \/ sc68 = t /\ Becomes(t, FALSE, Opened(t), inst[t].req, inst[t].mus)
  \/ Course(t, "forget", "over") /\ Leaves(isplaying, Null, code) /\ Keeps(t)
  \/ Course(t, "over", "done") /\ Leaves(0, sc68, code) /\ Keeps(t)
SomeCourse(t) == Course1(t) \/ Course2(t) \/ Course3(t) \/ Course4(t)

LEMMA Courses ==
  ASSUME MksTypeOK, MksSolo, NEW t \in Thread, ThreadStep(t)
  PROVE  "twice" \notin harm' /\ SomeCourse(t)
<1> USE DEF AtStep, playinfo, Leaves
<1>1. /\ t \in Thread /\ t # Null /\ sc68 \in {Null, t} /\ "twice" \notin harm
      /\ tpc \in [Thread -> Place]
  BY TheOne DEF MksSolo, MksTypeOK, Place
<1>2. inst[t] \in Inst /\ inst \in [Thread -> Inst]
  BY <1>1 DEF MksTypeOK, Inst
<1>3. ASSUME NEW p, Jump(t, p) PROVE tpc'[t] = p
  BY <1>1, <1>3 DEF Jump
<1>4. ASSUME inst' = inst PROVE Keeps(t)
  BY <1>4 DEF Keeps, Becomes, Opened
<1>5. CASE Start(t)
  <2>1. Course1(t) /\ harm' = harm
    BY <1>3, <1>4, <1>5 DEF Start, Course1, Course
  <2> QED BY <1>1, <2>1 DEF SomeCourse
<1>6. ASSUME NEW ok \in BOOLEAN, OpenOut(t, ok)
      PROVE  "twice" \notin harm' /\ SomeCourse(t)
  <2>1. Course1(t) /\ harm' = harm
    BY <1>3, <1>4, <1>6 DEF OpenOut, JumpUnlessCancelled, Course1, Course
  <2> QED BY <1>1, <2>1 DEF SomeCourse
<1>7. ASSUME NEW ok \in BOOLEAN, Create(t, ok)
      PROVE  "twice" \notin harm' /\ SomeCourse(t)
  <2>1. CASE ok
    <3> DEFINE i == [NoInst EXCEPT !.live = TRUE]
    <3>1. i \in Inst /\ i.live = TRUE /\ i.disk = NoDsk /\ i.req = "none" /\ i.mus = FALSE
      BY DEF Inst, NoInst
    <3>2. inst' = [inst EXCEPT ![t] = i]
      BY <1>7, <2>1 DEF Create
    <3> HIDE DEF i
    <3>3. Becomes(t, TRUE, FALSE, "none", FALSE)
      BY <1>1, <3>1, <3>2, BecomesOne
    <3>4. Course1(t) /\ harm' = harm
      BY <1>3, <1>7, <2>1, <3>3 DEF Create, Course1, Course
    <3> QED BY <1>1, <3>4 DEF SomeCourse
  <2>2. CASE ~ok
    <3>1. Course1(t) /\ harm' = harm
      BY <1>3, <1>4, <1>7, <2>2 DEF Create, Course1, Course
    <3> QED BY <1>1, <3>1 DEF SomeCourse
  <2> QED BY <2>1, <2>2
<1>8. CASE OpenDisk(t)
  <2>1. CASE sc68 = Null \/ dsk = NoDsk
    <3>1. Course1(t) /\ harm' = harm
      BY <1>3, <1>4, <1>8, <2>1 DEF OpenDisk, Course1, Course
    <3> QED BY <1>1, <3>1 DEF SomeCourse
  <2>2. CASE sc68 = t /\ dsk # NoDsk
    <3> DEFINE i == [inst[t] EXCEPT !.disk = dsk, !.req = "play"]
    <3>1. i \in Inst /\ i.live = inst[t].live /\ i.disk # NoDsk /\ i.req = "play" /\ i.mus = inst[t].mus
      BY <1>1, <1>2, <2>2 DEF Inst, MksTypeOK
    <3>2. inst' = [inst EXCEPT ![t] = i]
      BY <1>1, <1>2, <1>8, <2>2 DEF OpenDisk
    <3> HIDE DEF i
    <3>3. Becomes(t, inst[t].live, TRUE, "play", inst[t].mus)
      BY <1>1, <3>1, <3>2, BecomesOne
    <3>4. Course1(t) /\ harm' = harm
      BY <1>1, <1>3, <1>8, <2>2, <3>3 DEF OpenDisk, Course1, Course
    <3> QED BY <1>1, <3>4 DEF SomeCourse
  <2> QED BY <1>1, <2>1, <2>2
<1>9. CASE PostPlay(t)
  <2>1. CASE sc68 = Null \/ inst[sc68].disk = NoDsk
    <3>1. Course1(t) /\ harm' = harm
      BY <1>3, <1>4, <1>9, <2>1 DEF PostPlay, Course1, Course
    <3> QED BY <1>1, <3>1 DEF SomeCourse
  <2>2. CASE sc68 = t /\ inst[sc68].disk # NoDsk
    <3> DEFINE i == [inst[t] EXCEPT !.req = "play"]
    <3>1. /\ i \in Inst /\ i.live = inst[t].live /\ i.disk = inst[t].disk /\ i.req = "play"
          /\ i.mus = inst[t].mus
      BY <1>2 DEF Inst
    <3>2. inst' = [inst EXCEPT ![t] = i]
      BY <1>1, <1>2, <1>9, <2>2 DEF PostPlay
    <3> HIDE DEF i
    <3>3. Becomes(t, inst[t].live, Opened(t), "play", inst[t].mus)
      BY <1>1, <3>1, <3>2, BecomesOne DEF Opened
    <3>4. Course1(t) /\ harm' = harm
      BY <1>1, <1>3, <1>9, <2>2, <3>3 DEF PostPlay, Course1, Course
    <3> QED BY <1>1, <3>4 DEF SomeCourse
  <2> QED BY <1>1, <2>1, <2>2
<1>10. CASE FirstProcess(t)
  <2>1. sc68 = t
    BY <1>10 DEF FirstProcess, MksSolo, Owns, Owning, InInit
  <2> DEFINE i == [inst[t] EXCEPT !.req = "none"]
  <2>2. /\ i \in Inst /\ i.live = inst[t].live /\ i.disk = inst[t].disk /\ i.req = "none"
        /\ i.mus = inst[t].mus
    BY <1>2 DEF Inst
  <2>3. inst' = [inst EXCEPT ![t] = i]
    BY <1>1, <1>2, <1>10, <2>1 DEF FirstProcess
  <2> HIDE DEF i
  <2>4. Becomes(t, inst[t].live, Opened(t), "none", inst[t].mus)
    BY <1>1, <2>2, <2>3, BecomesOne DEF Opened
  <2>5. \/ inst[t].req = "play" /\ tpc'[t] = "load" /\ code' = code
        \/ inst[t].req # "play" /\ tpc'[t] = "ready" /\ code' = 0
    BY <1>1, <1>3, <1>10, <2>1 DEF FirstProcess
  <2>6. harm' \subseteq harm \cup {"disk"}
    BY <1>1, <1>10, <2>1 DEF FirstProcess, Fail
  <2>7. Course2(t)
    BY <1>10, <2>4, <2>5 DEF FirstProcess, Course2, Course
  <2> QED BY <1>1, <2>6, <2>7 DEF SomeCourse
<1>11. ASSUME NEW ok \in BOOLEAN, LoadTrack(t, ok)
       PROVE  "twice" \notin harm' /\ SomeCourse(t)
  <2>1. sc68 = t
    BY <1>11 DEF LoadTrack, MksSolo, Owns, Owning, InInit
  <2> DEFINE i == [inst[t] EXCEPT !.req = "none", !.mus = ok]
  <2>2. i \in Inst /\ i.live = inst[t].live /\ i.disk = inst[t].disk /\ i.req = "none" /\ i.mus = ok
    BY <1>2 DEF Inst
  <2>3. inst' = [inst EXCEPT ![t] = i]
    BY <1>1, <1>2, <1>11, <2>1 DEF LoadTrack
  <2> HIDE DEF i
  <2>4. Becomes(t, inst[t].live, Opened(t), "none", ok)
    BY <1>1, <2>2, <2>3, BecomesOne DEF Opened
  <2>5. Course2(t) /\ harm' = harm
    <3>1. CASE ok = TRUE
      BY <1>1, <1>3, <1>11, <2>1, <2>4, <3>1 DEF LoadTrack, Loaded, Course2, Course
    <3>2. CASE ok = FALSE
      BY <1>1, <1>3, <1>11, <2>1, <2>4, <3>2 DEF LoadTrack, Loaded, Course2, Course
    <3> QED BY <3>1, <3>2
  <2> QED BY <1>1, <2>5 DEF SomeCourse
<1>12. CASE RunStart(t)
  <2>1. Course2(t) /\ harm' = harm
    BY <1>3, <1>4, <1>12 DEF RunStart, Course2, Course
  <2> QED BY <1>1, <2>1 DEF SomeCourse
<1>13. ASSUME NEW what \in {"more", "end", "error"}, PlayPass(t, what)
       PROVE  "twice" \notin harm' /\ SomeCourse(t)
  <2>1. sc68 = t /\ sc68 # Null
    BY <1>1, <1>13 DEF PlayPass, MksSolo, Owns, Owning
  <2>2. "twice" \notin harm' /\ UNCHANGED <<isplaying, sc68>> /\ tpc[t] = "run"
        /\ (inst[t].req = "stop" => what = "end")
    BY <1>1, <1>13, <2>1 DEF PlayPass, Allowed
  <2>3. \/ t \in cancelled /\ tpc'[t] = "done" /\ code' = code
        \/ t \notin cancelled /\ what = "more" /\ tpc'[t] = "run" /\ code' = code
        \/ t \notin cancelled /\ what # "more" /\ tpc'[t] = "end" /\ code' \in {0, -1}
    BY <1>3, <1>13 DEF PlayPass, JumpUnlessCancelled, RunCode
  <2>4. IF what = "end" THEN Becomes(t, inst[t].live, Opened(t), "none", FALSE) ELSE Keeps(t)
    <3> DEFINE i == [inst[t] EXCEPT !.req = "none", !.mus = FALSE]
               j == [inst[t] EXCEPT !.beat = ~@]
    <3>1. i \in Inst /\ i.live = inst[t].live /\ i.disk = inst[t].disk /\ i.req = "none" /\ i.mus = FALSE
      BY <1>2 DEF Inst
    <3>2. j \in Inst /\ j.live = inst[t].live /\ j.disk = inst[t].disk /\ j.req = inst[t].req
          /\ j.mus = inst[t].mus
      BY <1>2 DEF Inst
    <3>3. inst' = IF what = "end" THEN [inst EXCEPT ![t] = i] ELSE [inst EXCEPT ![t] = j]
      BY <1>1, <1>2, <1>13, <2>1 DEF PlayPass
    <3> HIDE DEF i, j
    <3>4. CASE what = "end"
      BY <1>1, <3>1, <3>3, <3>4, BecomesOne DEF Opened
    <3>5. CASE what # "end"
      BY <1>1, <3>2, <3>3, <3>5, BecomesOne DEF Opened, Keeps
    <3> QED BY <3>4, <3>5
  <2>5. Course3(t)
    BY <2>2, <2>3, <2>4 DEF Course3, Course
  <2> QED BY <2>2, <2>5 DEF SomeCourse
<1>14. CASE EndStart(t) \/ EndForget(t) \/ EndOver(t)
  <2>1. Course4(t) /\ harm' = harm
    BY <1>3, <1>4, <1>14 DEF EndStart, EndForget, EndOver, IdleMark, Course4, Course
  <2> QED BY <1>1, <2>1 DEF SomeCourse
<1>15. CASE EndDestroy(t)
  <2>1. CASE sc68 = Null
    <3>1. Course4(t) /\ harm' = harm
      BY <1>3, <1>4, <1>15, <2>1 DEF EndDestroy, Fail, Course4, Course
    <3> QED BY <1>1, <3>1 DEF SomeCourse
  <2>2. CASE sc68 = t
    <3> DEFINE i == [inst[t] EXCEPT !.live = FALSE, !.beat = FALSE]
    <3>1. /\ i \in Inst /\ i.live = FALSE /\ i.disk = inst[t].disk /\ i.req = inst[t].req
          /\ i.mus = inst[t].mus
      BY <1>2 DEF Inst
    <3>2. inst' = [inst EXCEPT ![t] = i]
      BY <1>1, <1>2, <1>15, <2>2 DEF EndDestroy, DestroyInst
    <3> HIDE DEF i
    <3>3. Becomes(t, FALSE, Opened(t), inst[t].req, inst[t].mus)
      BY <1>1, <3>1, <3>2, BecomesOne DEF Opened
    <3>4. harm' = harm
      BY <1>1, <1>15, <2>2 DEF EndDestroy, Fail, MksSolo, Owns
    <3>5. Course4(t)
      BY <1>1, <1>3, <1>15, <2>2, <3>3 DEF EndDestroy, Course4, Course
    <3> QED BY <1>1, <3>4, <3>5 DEF SomeCourse
  <2> QED BY <1>1, <2>1, <2>2
<1> QED BY <1>5, <1>6, <1>7, <1>8, <1>9, <1>10, <1>11, <1>12, <1>13, <1>14, <1>15 DEF ThreadStep

LEMMA ThreadStepInv ==
  ASSUME MksTypeOK, MksSolo, NEW t \in Thread, ThreadStep(t)
  PROVE  MksSolo'
<1> USE DEF Course, Leaves, Running, InInit, Place
<1>1. /\ t = thread /\ t \notin joined /\ tpc[t] \in Running /\ sc68 \in {Null, t} /\ t # Null
      /\ \A u \in Thread : u # t => tpc[u] \notin Running
      /\ mpc \notin {"reset", "spawn"}
  BY TheOne
<1>2. /\ UNCHANGED <<thread, cancelled, joined, mpc, why, held, deaf>>
      /\ tpc' \in [Thread -> Place]
      /\ \A u \in Thread : u # t => tpc'[u] = tpc[u]
  BY ThreadMoves DEF Moves, main, history
<1>3. "twice" \notin harm' /\ SomeCourse(t)
  BY Courses
<1>4. \A u \in Thread : u # t => inst'[u] = inst[u]
  <2>1. CASE Course1(t)
    BY <2>1 DEF Course1, Becomes, Keeps
  <2>2. CASE Course2(t)
    BY <2>2 DEF Course2, Becomes, Keeps
  <2>3. CASE Course3(t)
    BY <2>3 DEF Course3, Becomes, Keeps
  <2>4. CASE Course4(t)
    BY <2>4 DEF Course4, Becomes, Keeps
  <2> QED BY <1>3, <2>1, <2>2, <2>3, <2>4 DEF SomeCourse
<1>5. sc68' \in {Null, t}
  BY <1>1, <1>3 DEF SomeCourse, Course1, Course2, Course3, Course4
<1>6. Marks'
  <2> DEFINE Marked ==
        /\ tpc'[t] \notin {"start", "none"}
        /\ tpc'[t] \in Running /\ isplaying' = 0 => FALSE
        /\ isplaying' # 0 => tpc'[t] \in Running \/ t \in cancelled
        /\ code' = 1 => tpc'[t] = "run" \/ t \in cancelled
  <2>1. /\ tpc[t] # "start" => isplaying # 0
        /\ code = 1 => tpc[t] = "run" \/ t \in cancelled
    BY <1>1 DEF MksSolo, Marks, Live
  <2>2. ASSUME Course1(t) PROVE Marked
    BY <2>1, <2>2 DEF Course1, Becomes, Keeps, Opened
  <2>3. ASSUME Course2(t) PROVE Marked
    BY <2>1, <2>3 DEF Course2, Becomes, Keeps, Opened
  <2>4. ASSUME Course3(t) PROVE Marked
    BY <2>1, <2>4 DEF Course3, Becomes, Keeps, Opened
  <2>5. ASSUME Course4(t) PROVE Marked
    BY <2>1, <2>5 DEF Course4, Becomes, Keeps, Opened
  <2>6. Marked
    BY <1>3, <2>2, <2>3, <2>4, <2>5 DEF SomeCourse
  <2>7. \A u \in Thread : u # t => ~Live(u)' /\ tpc'[u] # "start"
    BY <1>1, <1>2 DEF Live
  <2>8. \A u \in cancelled : tpc'[u] # "none"
    BY <1>1, <1>2, <2>6 DEF MksSolo, Marks, MksTypeOK
  <2> QED BY <1>1, <1>2, <2>6, <2>7, <2>8 DEF Marks, Live
<1>7. Owns'
  <2> DEFINE HoldsOwn ==
        /\ tpc'[t] \in {"start", "out", "create"} => sc68' = Null /\ ~inst'[t].live
        /\ tpc'[t] \in Owning => sc68' = t /\ inst'[t].live
        /\ tpc'[t] \in {"end", "destroy"} => (inst'[t].live <=> sc68' = t)
        /\ tpc'[t] \in {"forget", "over"} => ~inst'[t].live
        /\ tpc'[t] = "over" => sc68' = Null
        /\ tpc'[t] = "done" /\ inst'[t].live => t \in cancelled
  <2>1. /\ tpc[t] \in {"start", "out", "create"} => sc68 = Null /\ ~inst[t].live
        /\ tpc[t] \in Owning => sc68 = t /\ inst[t].live
        /\ tpc[t] \in {"end", "destroy"} => (inst[t].live <=> sc68 = t)
        /\ tpc[t] \in {"forget", "over"} => ~inst[t].live
        /\ tpc[t] = "over" => sc68 = Null
    BY DEF MksSolo, Owns
  <2>2. ASSUME Course1(t) PROVE HoldsOwn
    BY <1>1, <2>1, <2>2 DEF Course1, Becomes, Keeps, Owning
  <2>3. ASSUME Course2(t) PROVE HoldsOwn
    BY <1>1, <2>1, <2>3 DEF Course2, Becomes, Keeps, Owning
  <2>4. ASSUME Course3(t) PROVE HoldsOwn
    BY <1>1, <2>1, <2>4 DEF Course3, Becomes, Keeps, Owning
  <2>5. ASSUME Course4(t) PROVE HoldsOwn
    BY <1>1, <2>1, <2>5 DEF Course4, Becomes, Keeps, Owning
  <2>6. HoldsOwn
    BY <1>3, <2>2, <2>3, <2>4, <2>5 DEF SomeCourse
  <2>7. ASSUME NEW u \in Thread, u # t
        PROVE  /\ tpc'[u] \notin Running \cup Owning
               /\ tpc'[u] = "done" /\ inst'[u].live => u \in cancelled'
    BY <1>1, <1>2, <1>4, <2>7 DEF MksSolo, Owns, Owning
  <2> HIDE DEF Owning
  <2> QED BY <1>1, <1>2, <1>5, <2>6, <2>7 DEF Owns
<1>8. Mailbox'
  <2> DEFINE Found ==
        /\ tpc'[t] \in Owning \ {"open"} => inst'[t].disk # NoDsk
        /\ tpc'[t] = "first" /\ inst'[t].req # "play" => t \in deaf
        /\ tpc'[t] \in {"ready", "run"} /\ ~inst'[t].mus => t \in deaf
  <2>1. /\ tpc[t] \in Owning \ {"open"} => inst[t].disk # NoDsk
        /\ tpc[t] = "first" /\ inst[t].req # "play" => t \in deaf
        /\ tpc[t] \in {"ready", "run"} /\ ~inst[t].mus => t \in deaf
    BY DEF MksSolo, Mailbox
  <2>2. ASSUME Course1(t) PROVE Found
    BY <2>1, <2>2 DEF Course1, Becomes, Keeps, Owning, Opened
  <2>3. ASSUME Course2(t) PROVE Found
    BY <2>1, <2>3 DEF Course2, Becomes, Keeps, Owning, Opened
  <2>4. ASSUME Course3(t) PROVE Found
    BY <2>1, <2>4 DEF Course3, Becomes, Keeps, Owning, Opened
  <2>5. ASSUME Course4(t) PROVE Found
    BY <2>1, <2>5 DEF Course4, Becomes, Keeps, Owning, Opened
  <2>6. Found
    BY <1>3, <2>2, <2>3, <2>4, <2>5 DEF SomeCourse
  <2>7. ASSUME NEW u \in Thread, u # t PROVE tpc'[u] \notin Owning \cup {"first", "ready", "run"}
    BY <1>1, <1>2, <2>7 DEF Owning
  <2> HIDE DEF Owning
  <2> QED BY <1>2, <2>6, <2>7 DEF Mailbox
<1>9. Stops'
  <2> DEFINE Stopped ==
        /\ tpc'[t] # "none"
        /\ mpc = "ask" => /\ tpc'[t] \notin {"start", "out", "create"}
                          /\ tpc'[t] \in {"end", "destroy"} => sc68' = t
        /\ mpc = "join" /\ why # "wait" =>
             \/ t \in cancelled \cup deaf
             \/ tpc'[t] \in {"ready", "run"} /\ inst'[t].req = "stop"
             \/ tpc'[t] \in {"end", "destroy", "forget", "over", "done"}
  <2>1. /\ mpc = "ask" => /\ held = t /\ tpc[t] \notin {"start", "out", "create"}
                          /\ tpc[t] \in {"end", "destroy"} => sc68 = t
        /\ tpc[t] \in Owning => sc68 = t
        /\ mpc = "join" /\ why # "wait" =>
             \/ t \in cancelled \cup deaf
             \/ tpc[t] \in {"ready", "run"} /\ inst[t].req = "stop"
             \/ tpc[t] \in {"end", "destroy", "forget", "over", "done"}
        /\ mpc \in {"look", "ask"} => why # "wait"
    BY <1>1 DEF MksSolo, Stops, Owns, ToldToStop
  <2>2. ASSUME Course1(t) PROVE Stopped
    BY <2>1, <2>2 DEF Course1, Owning
  <2>3. ASSUME Course2(t) PROVE Stopped
    BY <2>1, <2>3 DEF Course2, Keeps, Becomes, Owning
  <2>4. ASSUME Course3(t) PROVE Stopped
    BY <2>1, <2>4 DEF Course3, Owning
  <2>5. ASSUME Course4(t) PROVE Stopped
    BY <2>1, <2>5 DEF Course4, Owning
  <2>6. Stopped
    BY <1>3, <2>2, <2>3, <2>4, <2>5 DEF SomeCourse
  <2> QED BY <1>1, <1>2, <2>1, <2>6 DEF Stops, ToldToStop
<1> QED BY <1>3, <1>6, <1>7, <1>8, <1>9 DEF MksSolo

-----------------------------------------------------------------------------
(* A `play' typed while no mark is set finds no thread, or is early.       *)
LEMMA TypedInv ==
  ASSUME MksTypeOK, MksSolo, Typed, ~early'
  PROVE  MksSolo'
<1> USE DEF playinfo, threads
<1>1. /\ UNCHANGED <<playinfo, threads, held, harm, deaf>>
  BY DEF Typed, CmdPlay, CmdStop, CmdDisk, main, history
<1>2. Marks' /\ Owns' /\ Mailbox' /\ "twice" \notin harm'
  <2>1. Marks'  BY <1>1 DEF MksSolo, Marks, Live
  <2>2. Owns'  BY <1>1 DEF MksSolo, Owns
  <2>3. Mailbox'  BY <1>1 DEF MksSolo, Mailbox
  <2> QED BY <1>1, <2>1, <2>2, <2>3 DEF MksSolo
<1>3. isplaying # 0 => /\ thread \in Thread /\ tpc[thread] # "none"
                       /\ thread \in joined => thread \in cancelled
  BY DEF MksSolo, Marks, Live, Running, InInit
<1>4. ASSUME NEW fg \in BOOLEAN, CmdPlay(fg) PROVE Stops'
  <2>1. mpc' = (IF isplaying # 0 THEN "look" ELSE "reset") /\ why' # "wait"
    BY <1>4 DEF CmdPlay, NeedsStop
  <2>2. isplaying = 0 => Nobody
    BY <1>4 DEF CmdPlay, Nobody
  <2> QED BY <1>1, <1>3, <2>1, <2>2 DEF Stops, Nobody, Live
<1>5. ASSUME NEW quit \in BOOLEAN, CmdStop(quit) PROVE Stops'
  <2>1. /\ isplaying # 0 => mpc' = "look"
        /\ isplaying = 0 => mpc' \in {"exit", "idle"}
        /\ why' # "wait"
    BY <1>5 DEF CmdStop
  <2> QED BY <1>1, <1>3, <2>1 DEF Stops
<1>6. ASSUME NEW d, CmdDisk(d) PROVE Stops'
  BY <1>1, <1>6 DEF CmdDisk, Command, main, Stops
<1> QED BY <1>2, <1>4, <1>5, <1>6 DEF Typed, MksSolo

-----------------------------------------------------------------------------
(* The interpreter stops the thread it finds marked, waits for it and      *)
(* starts the next.                                                        *)
LEMMA LookInv ==
  ASSUME MksTypeOK, MksSolo, StopLook
  PROVE  MksSolo'
<1> USE MksAssumption DEF Fail, playinfo
<1>1. /\ UNCHANGED <<playinfo, tpc, inst, joined, why, deaf>>
      /\ held' = sc68 /\ mpc' = IF sc68 = Null THEN "join" ELSE "ask"
      /\ cancelled' = IF sc68 = Null THEN cancelled \cup ({thread} \ {Null}) ELSE cancelled
      /\ harm' \subseteq harm \cup {"join"}
  BY DEF StopLook, Cancel, history
<1>2. /\ thread \in Thread /\ tpc[thread] # "none" /\ why # "wait"
      /\ thread \in joined => thread \in cancelled
      /\ sc68 \in {Null, thread}
  BY DEF StopLook, MksSolo, Stops, Owns
<1>3. Marks'
  BY <1>1, <1>2 DEF MksSolo, Marks, Live
<1>4. Owns'
  BY <1>1 DEF MksSolo, Owns
<1>5. Mailbox'
  BY <1>1 DEF MksSolo, Mailbox
<1>6. sc68 # Null => /\ tpc[thread] \notin {"start", "out", "create"}
                     /\ tpc[thread] \in {"end", "destroy"} => sc68 = thread
  BY <1>2 DEF MksSolo, Owns
<1>7. Stops'
  BY <1>1, <1>2, <1>6 DEF Stops, ToldToStop
<1> QED BY <1>1, <1>3, <1>4, <1>5, <1>7 DEF MksSolo

LEMMA AskInv ==
  ASSUME MksTypeOK, MksSolo, StopAsk
  PROVE  MksSolo'
<1> USE MksAssumption DEF Fail, playinfo
<1>1. PICK i \in {held, sc68} :
        /\ harm' \in {harm, harm \cup {"freed"}}
        /\ inst' = IF i # Null /\ inst[i].disk # NoDsk
                   THEN [inst EXCEPT ![i].req = "stop"] ELSE inst
  BY DEF StopAsk
<1>2. /\ UNCHANGED <<playinfo, tpc, cancelled, joined, why>> /\ mpc' = "join"
      /\ deaf' = deaf \cup {t \in {thread} \cap Thread : tpc[t] \in InInit}
  BY DEF StopAsk
<1>3. /\ thread \in Thread /\ tpc[thread] # "none" /\ why # "wait" /\ held = thread
      /\ thread \in joined => thread \in cancelled
      /\ tpc[thread] \notin {"start", "out", "create"}
      /\ sc68 \in {Null, thread}
      /\ tpc[thread] \in {"end", "destroy"} => sc68 = thread
      /\ tpc[thread] \in Owning => sc68 = thread /\ inst[thread].live
      /\ tpc[thread] \in Owning \ {"open"} => inst[thread].disk # NoDsk
      /\ tpc[thread] \in Place
  BY DEF StopAsk, MksSolo, Stops, Owns, Mailbox, MksTypeOK, Place
<1>4. \A t \in Thread : /\ inst'[t].live = inst[t].live /\ inst'[t].disk = inst[t].disk
                        /\ inst'[t].mus = inst[t].mus
                        /\ t # thread => inst'[t].req = inst[t].req
  <2>1. i \in {Null, thread} /\ inst \in [Thread -> Inst]
    BY <1>1, <1>3 DEF MksTypeOK, Inst
  <2>2. CASE inst' = inst
    BY <2>2
  <2>3. CASE inst' # inst
    BY <1>1, <2>1, <2>3 DEF Inst
  <2> QED BY <2>2, <2>3
<1>5. tpc[thread] \in {"ready", "run"} => inst'[thread].req = "stop"
  <2> SUFFICES ASSUME tpc[thread] \in {"ready", "run"} PROVE inst'[thread].req = "stop"
    OBVIOUS
  <2>1. sc68 = thread /\ inst[thread].disk # NoDsk /\ thread # Null /\ i = thread
    BY <1>1, <1>3 DEF Owning, InInit
  <2>2. inst \in [Thread -> Inst] /\ inst' = [inst EXCEPT ![thread].req = "stop"]
    BY <1>1, <2>1 DEF MksTypeOK, Inst
  <2> QED BY <1>3, <2>2 DEF Inst
<1>6. Marks'
  BY <1>2 DEF MksSolo, Marks, Live
<1>7. Owns'
  BY <1>2, <1>4 DEF MksSolo, Owns
<1>8. Mailbox'
  <2>1. ASSUME NEW t \in Thread
        PROVE  /\ tpc[t] \in Owning \ {"open"} => inst'[t].disk # NoDsk
               /\ tpc[t] = "first" /\ inst'[t].req # "play" => t \in deaf'
               /\ tpc[t] \in {"ready", "run"} /\ ~inst'[t].mus => t \in deaf'
    BY <1>2, <1>4 DEF MksSolo, Mailbox, InInit
  <2> QED BY <1>2, <2>1 DEF Mailbox
<1>9. ToldToStop'
  BY <1>2, <1>3, <1>5 DEF ToldToStop, Place, Running, InInit
<1>10. Stops'
  BY <1>2, <1>3, <1>9 DEF Stops
<1> QED BY <1>1, <1>6, <1>7, <1>8, <1>10 DEF MksSolo

LEMMA JoinInv ==
  ASSUME MksTypeOK, MksSolo, Join
  PROVE  MksSolo'
<1> USE MksAssumption DEF Fail, playinfo
<1>1. /\ UNCHANGED <<playinfo, tpc, inst, cancelled, why, held, deaf>>
      /\ mpc' \in {"reset", "exit", "idle"} /\ harm' \subseteq harm \cup {"join"}
      /\ joined' = joined \cup ({thread} \ {Null})
  BY DEF Join, history
<1>2. Nobody
  BY DEF Join, JoinReady, MksSolo, Marks, Nobody
<1>3. Marks'
  BY <1>1, <1>2 DEF MksSolo, Marks, Nobody, Live
<1>4. Owns'
  BY <1>1 DEF MksSolo, Owns
<1>5. Mailbox'
  BY <1>1 DEF MksSolo, Mailbox
<1>6. Stops'
  BY <1>1, <1>2 DEF Stops, Nobody, Live
<1> QED BY <1>1, <1>3, <1>4, <1>5, <1>6 DEF MksSolo

LEMMA SpawnInv ==
  ASSUME MksTypeOK, MksSolo, Reset \/ (\E t \in Thread : Spawn(t)) \/ SpawnFails
  PROVE  MksSolo'
<1> USE MksAssumption DEF playinfo, threads
<1>1. Nobody /\ (mpc = "spawn" => sc68 = Null /\ isplaying = 0 /\ code = 0)
  BY DEF Reset, Spawn, SpawnFails, MksSolo, Stops
<1>2. \A t \in Thread : tpc[t] \in {"none", "done"}
  BY <1>1 DEF Nobody, Live, MksTypeOK
<1>3. CASE Reset \/ SpawnFails
  <2>1. /\ UNCHANGED <<threads, harm, deaf>>
        /\ isplaying' = 0 /\ sc68' = Null /\ code' = 0 /\ thread' \in {thread, Null}
        /\ mpc' \in {"spawn", "idle"}
    BY <1>1, <1>3 DEF Reset, SpawnFails, history
  <2>2. Marks' /\ Stops'
    BY <1>2, <2>1 DEF MksSolo, Marks, Stops, Nobody, Live, Running, InInit
  <2>3. Owns'
    BY <1>2, <2>1 DEF MksSolo, Owns, Owning, InInit
  <2>4. Mailbox'
    BY <2>1 DEF MksSolo, Mailbox
  <2> QED BY <2>1, <2>2, <2>3, <2>4 DEF MksSolo
<1>4. ASSUME NEW t \in Thread, Spawn(t) PROVE MksSolo'
  <2>1. /\ UNCHANGED <<isplaying, sc68, code, harm>> /\ isplaying = 0 /\ sc68 = Null /\ code = 0
        /\ thread' = t /\ tpc'[t] = "start" /\ t \notin joined' /\ t \notin cancelled'
        /\ cancelled' \subseteq cancelled /\ ~inst'[t].live
        /\ \A u \in Thread : u # t => /\ tpc'[u] = tpc[u] /\ inst'[u] = inst[u]
                                      /\ u \in cancelled => u \in cancelled'
        /\ mpc' \in {"join", "idle"} /\ (mpc' = "join" => why' = "wait")
    BY <1>1, <1>4 DEF Spawn, Jump, MksTypeOK, NoInst
  <2>2. Marks'
    BY <1>2, <2>1 DEF MksSolo, Marks, Live, Running, InInit, MksTypeOK
  <2>3. Owns'
    BY <1>2, <2>1 DEF MksSolo, Owns, Owning, InInit
  <2>4. Mailbox'
    BY <1>2, <2>1 DEF Mailbox, Owning, InInit
  <2>5. Stops'
    BY <2>1 DEF Stops
  <2> QED BY <2>1, <2>2, <2>3, <2>4, <2>5 DEF MksSolo
<1> QED BY <1>3, <1>4

(* mksc68 as it starts, for the first time or again.                       *)
AtStartup ==
  /\ isplaying = 0 /\ sc68 = Null /\ code = 0
  /\ \A t \in Thread : tpc[t] = "none"
  /\ cancelled = {} /\ mpc = "idle" /\ harm = {}

LEMMA StartupSolo == AtStartup => MksSolo
<1> SUFFICES ASSUME AtStartup PROVE MksSolo
  OBVIOUS
<1> USE DEF AtStartup, Running, InInit, Owning
<1>1. Marks  BY DEF Marks, Live
<1>2. Owns  BY DEF Owns
<1>3. Mailbox  BY DEF Mailbox
<1>4. Stops  BY DEF Stops
<1> QED BY <1>1, <1>2, <1>3, <1>4 DEF MksSolo

LEMMA ExitRestarts == Exit => AtStartup'
BY DEF Exit, AtStartup

LEMMA InitHolds == MksInit => MksInv
<1> SUFFICES ASSUME MksInit PROVE MksInv
  OBVIOUS
<1>1. AtStartup
  BY DEF MksInit, AtStartup
<1>2. NoInst \in Inst
  BY DEF NoInst, Inst
<1>3. inst \in [Thread -> Inst] /\ tpc \in [Thread -> Running \cup {"none", "done"}]
  BY <1>2 DEF MksInit
<1>4. /\ dsk = NoDsk /\ sc68 = Null /\ thread = Null /\ held = Null
      /\ isplaying = 0 /\ code = 0 /\ err = 0 /\ mpc = "idle" /\ why = "none"
  BY DEF MksInit
<1>5. dead = {} /\ cancelled = {} /\ joined = {} /\ harm = {} /\ deaf = {} /\ early = FALSE
  BY DEF MksInit
<1>6. /\ dead \subseteq DskId /\ cancelled \subseteq Thread /\ joined \subseteq Thread
      /\ harm \subseteq {"disk", "nullmus", "twice", "freed", "join"}
      /\ deaf \subseteq Thread /\ early \in BOOLEAN
  BY <1>5
<1>7. MksTypeOK
  BY <1>3, <1>4, <1>6 DEF MksTypeOK, Inst
<1> QED BY <1>1, <1>7, StartupSolo DEF MksInv

LEMMA IdleInv == ASSUME MksInv, UNCHANGED mksVars PROVE MksInv'
<1> USE DEF mksVars, playinfo, threads, main, history
<1>1. MksTypeOK'  BY DEF MksInv, MksTypeOK
<1>2. early' = early  OBVIOUS
<1>3. ASSUME MksSolo PROVE MksSolo'
  BY <1>3 DEF MksSolo, Marks, Owns, Mailbox, Stops, ToldToStop, Nobody, Live
<1> QED BY <1>1, <1>2, <1>3 DEF MksInv

LEMMA EachMoves == ASSUME MksInv, [MksNext]_mksVars PROVE MksInv'
<1>1. CASE UNCHANGED mksVars
  BY <1>1, IdleInv
<1>2. CASE MksNext
  <2>1. MksTypeOK /\ MksTypeOK'
    BY <1>2, ThreadTyped, CommandTyped DEF MksNext, MksInv
  <2>2. SUFFICES ASSUME ~early' PROVE MksSolo'
    BY <2>1 DEF MksInv
  <2>3. CASE Exit
    BY <2>3, ExitRestarts, StartupSolo, PTL
  <2>4. CASE ~Exit
    <3>1. ~early
      BY <1>2, <2>2, <2>4, ThreadMoves, <2>1
         DEF MksNext, Typed, CmdPlay, CmdStop, CmdDisk, Main, StopLook, StopAsk, Join, Reset, Spawn,
             SpawnFails, Moves, main, history
    <3>2. MksSolo
      BY <3>1 DEF MksInv
    <3> QED BY <1>2, <2>1, <2>2, <2>4, <3>2, ThreadStepInv, TypedInv, LookInv, AskInv, JoinInv, SpawnInv
         DEF MksNext, Main
  <2> QED BY <2>3, <2>4
<1> QED BY <1>1, <1>2

THEOREM MksInvariant == MksSpec => []MksInv
<1>1. MksInv /\ [MksNext]_mksVars => MksInv'
  BY EachMoves
<1> QED BY <1>1, InitHolds, PTL DEF MksSpec

(* The fields of playinfo, the threads, their instances and the state of   *)
(* the interpreter in mksc68_cmd_play.c are of their types.                *)
THEOREM MksTypes == MksSpec => []MksTypeOK
<1>1. MksInv => MksTypeOK  BY DEF MksInv
<1> QED BY <1>1, MksInvariant, PTL

-----------------------------------------------------------------------------
LEMMA OneThread == MksInv => OneAtATime
<1> SUFFICES ASSUME MksTypeOK, MksSolo PROVE OneAtATime
  BY DEF MksInv, OneAtATime
<1>1. \A t \in Thread : Live(t) => t = thread /\ t \notin joined
  BY DEF MksSolo, Marks
<1>2. isplaying # 0 => thread \in cancelled \/ (thread \in Thread /\ Live(thread))
  BY DEF MksSolo, Marks
<1>3. code = 1 => thread \in cancelled \/ Live(thread)
  BY DEF MksSolo, Marks, Live, Running
<1>4. mpc \in {"look", "ask", "join"} =>
        thread \in Thread /\ (thread \in joined => thread \in cancelled)
  BY DEF MksSolo, Stops
<1> QED BY <1>1, <1>2, <1>3, <1>4 DEF OneAtATime

LEMMA Destroyed == MksInv => InstancesSound
<1> SUFFICES ASSUME MksTypeOK, MksSolo PROVE InstancesSound
  BY DEF MksInv, InstancesSound
<1>1. \A t \in Thread :
        /\ tpc[t] \in InInit \cup {"ready", "run"} => sc68 = t /\ inst[t].live
        /\ tpc[t] = "done" /\ inst[t].live => t \in cancelled
        /\ tpc[t] = "run" /\ ~inst[t].mus => t \in deaf
  BY DEF MksSolo, Owns, Owning, Mailbox
<1>2. mpc = "ask" /\ ~inst[held].live => tpc[held] \in {"forget", "over", "done"}
  <2> SUFFICES ASSUME mpc = "ask", ~inst[held].live
               PROVE  tpc[held] \in {"forget", "over", "done"}
    OBVIOUS
  <2>1. /\ held = thread /\ thread \in Thread
        /\ tpc[thread] \notin {"none", "start", "out", "create"}
        /\ tpc[thread] \in {"end", "destroy"} => sc68 = thread
    BY DEF MksSolo, Stops
  <2>2. tpc[thread] \notin Owning \cup {"end", "destroy"}
    BY <2>1 DEF MksSolo, Owns
  <2> QED BY <2>1, <2>2 DEF Owning, InInit, MksTypeOK, Running
<1>3. "twice" \notin harm
  BY DEF MksSolo
<1> QED BY <1>1, <1>2, <1>3 DEF InstancesSound

LEMMA Kept == MksInv => StopsKept
<1> SUFFICES ASSUME MksTypeOK, MksSolo, StopLost PROVE thread \in deaf
  BY DEF MksInv, StopsKept
<1>1. /\ thread \in Thread /\ thread \notin cancelled /\ inst[thread].req # "stop"
      /\ tpc[thread] \in InInit \cup {"start", "out", "create", "ready", "run"}
  BY DEF StopLost
<1>2. ToldToStop
  BY DEF StopLost, MksSolo, Stops
<1>3. tpc[thread] \notin {"end", "destroy", "forget", "over", "done"}
  BY <1>1 DEF InInit
<1> QED BY <1>1, <1>2, <1>3 DEF ToldToStop

(* One play at a time, though playinfo has no lock and isplaying outlives  *)
(* a cancelled thread: dsk_play() joins the thread of the last play before *)
(* it clears playinfo and creates another, as long as no `play' is typed   *)
(* before that thread has run play_init()'s first line.                    *)
THEOREM PlaysOneAtATime == MksSpec => []OneAtATime
BY MksInvariant, OneThread, PTL

(* Whatever the order of commands and thread steps, cancellation included: *)
(* play_end() destroys an instance once, the thread that plays finds its   *)
(* own and a music in it unless its stop came during play_init(), and      *)
(* dsk_stop() holds a destroyed one only past play_end()'s destruction.    *)
THEOREM InstancesGo == MksSpec => []InstancesSound
BY MksInvariant, Destroyed, PTL

(* A stop is lost only in play_init(): posted later it is in the mailbox   *)
(* until the thread has left play_run().                                   *)
THEOREM StopsStay == MksSpec => []StopsKept
BY MksInvariant, Kept, PTL
=============================================================================
