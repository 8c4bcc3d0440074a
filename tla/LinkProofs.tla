----------------------------- MODULE LinkProofs -----------------------------
(***************************************************************************)
(* Proofs about the serial line.  From the host to the firmware            *)
(* (SlipLink), for every set of packets, every noise and all sizes of the  *)
(* buffers.  From the firmware to the host, the two writers of the serial  *)
(* port (DeviceTx), for every frame length, pool size and bound.  And the  *)
(* bytes of a frame with its checksum and the key of the tunnel (Checksum, *)
(* Codec), for frames, sums and keys of any size.                          *)
(***************************************************************************)
EXTENDS SlipLink, DeviceTx, Codec, FiniteSetTheorems, SequenceTheorems,
        WellFoundedInduction, NaturalsInduction, TLAPS


-----------------------------------------------------------------------------
(***************************************************************************)
(* The frame of a packet.                                                  *)
(***************************************************************************)
Special(b) == b \in {END, ESC}

LEMMA LeastMember ==
  ASSUME NEW S \in SUBSET Nat, S # {}
  PROVE  \E n \in S : \A k \in S : n <= k
<1> DEFINE R == {ss \in Nat \X Nat : ss[1] < ss[2]}
<1>1. IsWellFoundedOn(R, Nat)
  BY NatLessThanWellFounded DEF OpToRel
<1>2. \A x, y \in Nat : <<y, x>> \in R <=> y < x
  OBVIOUS
<1> HIDE DEF R
<1>3. PICK x \in S : \A y \in S : ~(<<y, x>> \in R)
  BY <1>1, WFMin
<1>4. ASSUME NEW y \in S PROVE x <= y
  <2>1. x \in Nat /\ y \in Nat
    OBVIOUS
  <2>2. ~(y < x)
    BY <1>2, <1>3, <2>1
  <2> QED
    BY <2>1, <2>2
<1> QED
  BY <1>4

\* The escapes in front of byte i.
Escapes(p, i) == {j \in 1 .. i - 1 : Special(p[j])}

LEMMA PlaceEscapes ==
  ASSUME NEW p, NEW i \in Nat
  PROVE  /\ Place(p, i) = i + 1 + Cardinality(Escapes(p, i))
         /\ IsFiniteSet(Escapes(p, i))
         /\ Cardinality(Escapes(p, i)) \in Nat
<1>1. IsFiniteSet(1 .. i - 1)
  BY FS_Interval
<1>2. Escapes(p, i) \subseteq 1 .. i - 1
  BY DEF Escapes
<1>3. IsFiniteSet(Escapes(p, i))
  BY <1>1, <1>2, FS_Subset
<1> QED
  BY <1>3, FS_CardinalityType DEF Place, Escapes, Special

\* The first byte is behind the first END; an escape takes one more place.
LEMMA PlaceStep ==
  ASSUME NEW p, NEW i \in Nat \ {0}
  PROVE  /\ Place(p, 1) = 2
         /\ Place(p, i) \in Nat /\ i + 1 <= Place(p, i)
         /\ Place(p, i + 1) = IF Special(p[i]) THEN Place(p, i) + 2
                                               ELSE Place(p, i) + 1
<1>1. Place(p, 1) = 2
  <2>1. Escapes(p, 1) = {}
    BY DEF Escapes
  <2> QED
    BY <2>1, PlaceEscapes, FS_EmptySet
<1> DEFINE A == Cardinality(Escapes(p, i))
           B == Cardinality(Escapes(p, i + 1))
<1>2. /\ A \in Nat /\ Place(p, i) = i + 1 + A
      /\ Place(p, i + 1) = i + 1 + 1 + B
  BY PlaceEscapes, i + 1 \in Nat
<1>3. i \notin Escapes(p, i)
  BY DEF Escapes
<1>4. Special(p[i]) => Escapes(p, i + 1) = Escapes(p, i) \cup {i}
  BY DEF Escapes
<1>5. ~Special(p[i]) => Escapes(p, i + 1) = Escapes(p, i)
  BY DEF Escapes
<1>6. B = IF Special(p[i]) THEN A + 1 ELSE A
  BY <1>3, <1>4, <1>5, PlaceEscapes, FS_AddElement
<1> HIDE DEF A, B
<1> QED
  BY <1>1, <1>2, <1>6

LEMMA PlaceGrows ==
  ASSUME NEW p, NEW i \in Nat \ {0}, NEW j \in Nat, i < j
  PROVE  Place(p, i + 1) <= Place(p, j)
<1>1. i + 1 \in Nat
  OBVIOUS
<1>2. Escapes(p, i + 1) \subseteq Escapes(p, j)
  BY DEF Escapes
<1>3. Cardinality(Escapes(p, i + 1)) <= Cardinality(Escapes(p, j))
  BY <1>1, <1>2, PlaceEscapes, FS_Subset
<1> DEFINE A == Cardinality(Escapes(p, i + 1))
           B == Cardinality(Escapes(p, j))
<1>4. A \in Nat /\ B \in Nat /\ A <= B
  BY <1>1, <1>3, PlaceEscapes
<1>5. Place(p, i + 1) = i + 1 + 1 + A /\ Place(p, j) = j + 1 + B
  BY <1>1, PlaceEscapes
<1> HIDE DEF A, B
<1> QED
  BY <1>4, <1>5

\* Every place between the two ENDs belongs to exactly one byte.
Covers(p, i, n) == Place(p, i) <= n /\ n < Place(p, i + 1)

LEMMA CoversUnique ==
  ASSUME NEW p, NEW i \in Nat \ {0}, NEW j \in Nat \ {0}, NEW n \in Nat,
         Covers(p, i, n), Covers(p, j, n)
  PROVE  i = j
<1>1. ~(i < j)
  BY PlaceGrows, PlaceStep DEF Covers
<1>2. ~(j < i)
  BY PlaceGrows, PlaceStep DEF Covers
<1> QED
  BY <1>1, <1>2

LEMMA CoversExists ==
  ASSUME NEW p \in Seq(Char), NEW n \in 2 .. Place(p, Len(p) + 1) - 1
  PROVE  \E i \in DOMAIN p : Covers(p, i, n)
<1> DEFINE S == {i \in Nat \ {0} : n < Place(p, i + 1)}
<1>1. Len(p) \in Nat /\ DOMAIN p = 1 .. Len(p) /\ n \in Nat
  BY PlaceStep
<1>2. Place(p, Len(p) + 1) \in Nat /\ Place(p, 1) = 2
  BY <1>1, PlaceStep, Len(p) + 1 \in Nat \ {0}
<1>3. n < Place(p, Len(p) + 1) /\ 2 <= n
  BY <1>2
<1>4. Len(p) # 0
  BY <1>1, <1>2, <1>3, Len(p) = 0 => Place(p, Len(p) + 1) = Place(p, 1)
<1>5. Len(p) \in S
  BY <1>1, <1>3, <1>4
<1>6. PICK i \in S : \A k \in S : i <= k
  BY <1>5, LeastMember
<1>7. i \in Nat \ {0} /\ n < Place(p, i + 1) /\ i <= Len(p)
  BY <1>5, <1>6
<1>8. Place(p, i) <= n
  <2>1. CASE i = 1
    BY <1>2, <1>3, <2>1
  <2>2. CASE i # 1
    <3>1. i - 1 \in Nat \ {0} /\ i - 1 + 1 = i
      BY <1>7, <2>2
    <3>2. i - 1 \notin S
      BY <1>6, <1>7, <3>1
    <3>3. ~(n < Place(p, i))
      BY <3>1, <3>2
    <3> QED
      BY <1>1, <1>7, <3>3, PlaceStep
  <2> QED
    BY <2>1, <2>2
<1> QED
  BY <1>1, <1>7, <1>8 DEF Covers

LEMMA ByteAtIs ==
  ASSUME NEW p \in Seq(Char), NEW i \in DOMAIN p, NEW n \in Nat, Covers(p, i, n)
  PROVE  ByteAt(p, n) = i
<1>1. DOMAIN p \subseteq Nat \ {0}
  OBVIOUS
<1>2. \A j \in DOMAIN p : Covers(p, j, n) => j = i
  BY <1>1, CoversUnique
<1>3. ByteAt(p, n) = CHOOSE j \in DOMAIN p : Covers(p, j, n)
  BY DEF ByteAt, Covers
<1> QED
  BY <1>2, <1>3

\* The length of the frame, its last END included.
FrameEnd(p) == Place(p, Len(p) + 1)

LEMMA InsideFrame ==
  ASSUME NEW p \in Seq(Char), NEW i \in DOMAIN p, NEW n \in Nat, Covers(p, i, n)
  PROVE  /\ n \in 2 .. FrameEnd(p) - 1
         /\ Frame(p)[n] = Stuff(p[i])[n - Place(p, i) + 1]
         /\ n - Place(p, i) + 1 \in 1 .. (IF Special(p[i]) THEN 2 ELSE 1)
<1>1. /\ Len(p) \in Nat /\ Len(p) + 1 \in Nat \ {0}
      /\ i \in Nat \ {0} /\ i + 1 \in Nat \ {0} /\ i < Len(p) + 1
  OBVIOUS
<1>2. /\ Place(p, i) \in Nat /\ Place(p, i + 1) \in Nat /\ FrameEnd(p) \in Nat
      /\ 2 <= Place(p, i)
  <2>1. Place(p, i) \in Nat /\ i + 1 <= Place(p, i)
    BY <1>1, PlaceStep
  <2>2. Place(p, i + 1) \in Nat
    BY <1>1, PlaceStep
  <2>3. FrameEnd(p) \in Nat
    BY <1>1, PlaceStep DEF FrameEnd
  <2> QED
    BY <1>1, <2>1, <2>2, <2>3
<1>3. Place(p, i + 1) <= FrameEnd(p)
  BY <1>1, PlaceGrows DEF FrameEnd
<1>4. Place(p, i) <= n /\ n < Place(p, i + 1)
  BY DEF Covers
<1>5. n \in 2 .. FrameEnd(p) - 1
  BY <1>2, <1>3, <1>4
<1>6. n \in 1 .. FrameEnd(p) /\ n \notin {1, FrameEnd(p)}
  BY <1>2, <1>5
<1>7. Frame(p)[n] = Stuff(p[ByteAt(p, n)])[n - Place(p, ByteAt(p, n)) + 1]
  BY <1>6 DEF Frame, FrameEnd
<1>8. Frame(p)[n] = Stuff(p[i])[n - Place(p, i) + 1]
  BY <1>7, ByteAtIs
<1>9. Place(p, i + 1) = IF Special(p[i]) THEN Place(p, i) + 2 ELSE Place(p, i) + 1
  BY <1>1, PlaceStep
<1>10. n - Place(p, i) + 1 \in 1 .. (IF Special(p[i]) THEN 2 ELSE 1)
  BY <1>2, <1>4, <1>9
<1> QED
  BY <1>5, <1>8, <1>10

LEMMA StuffFacts ==
  ASSUME NEW b \in Char
  PROVE  /\ ~Special(b) => Stuff(b) = <<b>>
         /\ Special(b) => /\ Stuff(b)[1] = ESC /\ Unstuff(Stuff(b)[2]) = b
                          /\ Stuff(b)[2] \in Char
         /\ \A m \in 1 .. (IF Special(b) THEN 2 ELSE 1) : Stuff(b)[m] \in Char
  BY DEF Special, Stuff, Unstuff, Char, END, ESC, ESC_END, ESC_ESC

\* The frame of a packet has an END at both ends and no END between them.
LEMMA FrameFacts ==
  ASSUME NEW p \in Seq(Char)
  PROVE  /\ FrameEnd(p) \in Nat /\ 2 <= FrameEnd(p) /\ Len(p) + 2 <= FrameEnd(p)
         /\ Frame(p) \in Seq(Char) /\ Len(Frame(p)) = FrameEnd(p)
         /\ DOMAIN Frame(p) = 1 .. FrameEnd(p)
         /\ Frame(p)[1] = END /\ Frame(p)[FrameEnd(p)] = END
<1>1. FrameEnd(p) \in Nat /\ Len(p) + 2 <= FrameEnd(p) /\ Len(p) \in Nat
  <2>1. Len(p) \in Nat /\ Len(p) + 1 \in Nat \ {0}
    OBVIOUS
  <2> QED
    BY <2>1, PlaceStep DEF FrameEnd
<1>2. DOMAIN Frame(p) = 1 .. FrameEnd(p)
  BY DEF Frame, FrameEnd
<1>3. 1 \in 1 .. FrameEnd(p) /\ FrameEnd(p) \in 1 .. FrameEnd(p)
  BY <1>1
<1>4. Frame(p)[1] = END /\ Frame(p)[FrameEnd(p)] = END
  BY <1>3 DEF Frame, FrameEnd
<1>5. ASSUME NEW n \in 1 .. FrameEnd(p) PROVE Frame(p)[n] \in Char
  <2>1. CASE n = 1 \/ n = FrameEnd(p)
    BY <1>4, <2>1 DEF END, Char
  <2>2. CASE n # 1 /\ n # FrameEnd(p)
    <3>1. n \in 2 .. FrameEnd(p) - 1 /\ n \in Nat
      BY <1>1, <2>2
    <3>2. PICK i \in DOMAIN p : Covers(p, i, n)
      BY <3>1, CoversExists DEF FrameEnd
    <3>3. p[i] \in Char
      OBVIOUS
    <3> QED
      BY <3>1, <3>2, <3>3, InsideFrame, StuffFacts
  <2> QED
    BY <2>1, <2>2
<1>6. Frame(p) \in [1 .. FrameEnd(p) -> Char]
  <2>1. Frame(p) = [n \in 1 .. FrameEnd(p) |-> Frame(p)[n]]
    BY DEF Frame, FrameEnd
  <2> QED
    BY <1>5, <2>1
<1>7. Frame(p) \in Seq(Char) /\ Len(Frame(p)) = FrameEnd(p)
  BY <1>1, <1>6, <1>2
<1> QED
  BY <1>1, <1>2, <1>4, <1>7

\* Where the characters of byte i are.
LEMMA FrameByte ==
  ASSUME NEW p \in Seq(Char), NEW i \in DOMAIN p
  PROVE  /\ Place(p, i) \in 2 .. FrameEnd(p) - 1
         /\ ~Special(p[i]) => /\ Frame(p)[Place(p, i)] = p[i]
                              /\ Place(p, i + 1) = Place(p, i) + 1
         /\ Special(p[i]) => /\ Frame(p)[Place(p, i)] = ESC
                             /\ Place(p, i) + 1 \in 2 .. FrameEnd(p) - 1
                             /\ Unstuff(Frame(p)[Place(p, i) + 1]) = p[i]
                             /\ Place(p, i + 1) = Place(p, i) + 2
<1> DEFINE m == Place(p, i)
<1>1. i \in Nat \ {0} /\ p[i] \in Char
  OBVIOUS
<1>2. m \in Nat /\ Place(p, i + 1) = IF Special(p[i]) THEN m + 2 ELSE m + 1
  BY <1>1, PlaceStep
<1> HIDE DEF m
<1>3. Covers(p, i, m)
  BY <1>2 DEF Covers, m
<1>4. /\ m \in 2 .. FrameEnd(p) - 1
      /\ Frame(p)[m] = Stuff(p[i])[m - Place(p, i) + 1]
  BY <1>2, <1>3, InsideFrame
<1>5. m - Place(p, i) + 1 = 1
  BY <1>2 DEF m
<1>6. ASSUME Special(p[i])
      PROVE  /\ m + 1 \in 2 .. FrameEnd(p) - 1
             /\ Frame(p)[m + 1] = Stuff(p[i])[2]
  <2>1. Covers(p, i, m + 1) /\ m + 1 \in Nat
    BY <1>2, <1>6 DEF Covers, m
  <2>2. (m + 1) - Place(p, i) + 1 = 2
    BY <1>2 DEF m
  <2>3. /\ m + 1 \in 2 .. FrameEnd(p) - 1
        /\ Frame(p)[m + 1] = Stuff(p[i])[(m + 1) - Place(p, i) + 1]
    BY <2>1, InsideFrame
  <2> QED
    BY <2>2, <2>3
<1>7. ~Special(p[i]) => Frame(p)[m] = p[i] /\ Place(p, i + 1) = m + 1
  BY <1>1, <1>2, <1>4, <1>5, StuffFacts
<1>8. Special(p[i]) => /\ Frame(p)[m] = ESC
                       /\ Unstuff(Frame(p)[m + 1]) = p[i]
                       /\ Place(p, i + 1) = m + 2
  BY <1>1, <1>2, <1>4, <1>5, <1>6, StuffFacts
<1> QED
  BY <1>4, <1>6, <1>7, <1>8 DEF m
-----------------------------------------------------------------------------
(***************************************************************************)
(* What comes next in a sequence of characters that t will follow.         *)
(***************************************************************************)
NextOf(s, t) == IF s # << >> THEN Head(s) ELSE t
Follow(s, t, j) == IF j < Len(s) THEN s[j + 1] ELSE t

\* What comes next when the first character is taken away.
TailFollows(s, t) ==
  /\ 1 \in DOMAIN s /\ NextOf(s, t) = s[1] /\ Head(s) = s[1]
  /\ NextOf(Tail(s), t) = Follow(s, t, 1)
  /\ \A j \in DOMAIN Tail(s) :
       /\ j + 1 \in DOMAIN s /\ Tail(s)[j] = s[j + 1]
       /\ Follow(Tail(s), t, j) = Follow(s, t, j + 1)

LEMMA FollowTail ==
  ASSUME NEW s \in Seq(LineChar), s # << >>, NEW t
  PROVE  TailFollows(s, t)
<1>1. /\ Len(s) \in Nat \ {0} /\ DOMAIN s = 1 .. Len(s)
      /\ Tail(s) \in Seq(LineChar) /\ Len(Tail(s)) = Len(s) - 1
      /\ DOMAIN Tail(s) = 1 .. Len(s) - 1
      /\ \A j \in 1 .. Len(s) - 1 : Tail(s)[j] = s[j + 1]
      /\ Head(s) = s[1]
  OBVIOUS
<1>2. NextOf(Tail(s), t) = Follow(s, t, 1)
  <2>1. CASE Len(s) = 1
    <3>1. Tail(s) = << >>
      BY <1>1, <2>1, EmptySeq
    <3> QED
      BY <2>1, <3>1 DEF NextOf, Follow
  <2>2. CASE Len(s) # 1
    <3>1. Tail(s) # << >> /\ Head(Tail(s)) = Tail(s)[1]
      <4>1. Tail(s) \in Seq(LineChar) /\ Len(Tail(s)) # 0
        BY <1>1, <2>2
      <4> QED
        BY <4>1, \A r \in Seq(LineChar) : Len(r) # 0 => r # << >> /\ Head(r) = r[1]
    <3>2. Tail(s)[1] = s[1 + 1] /\ 1 < Len(s)
      BY <1>1, <2>2
    <3> QED
      BY <3>1, <3>2 DEF NextOf, Follow
  <2> QED
    BY <2>1, <2>2
<1>3. ASSUME NEW j \in DOMAIN Tail(s)
      PROVE  /\ j + 1 \in DOMAIN s /\ Tail(s)[j] = s[j + 1]
             /\ Follow(Tail(s), t, j) = Follow(s, t, j + 1)
  <2>1. /\ j \in 1 .. Len(s) - 1 /\ j + 1 \in 1 .. Len(s)
        /\ j < Len(s) - 1 <=> j + 1 < Len(s)
        /\ j + 1 < Len(s) => j + 1 \in 1 .. Len(s) - 1
    BY <1>1
  <2>2. Follow(Tail(s), t, j) = IF j + 1 < Len(s) THEN Tail(s)[j + 1] ELSE t
    BY <1>1, <2>1 DEF Follow
  <2> QED
    BY <1>1, <2>1, <2>2 DEF Follow
<1> QED
  BY <1>1, <1>2, <1>3 DEF NextOf, TailFollows

LEMMA NextAppend ==
  ASSUME NEW s \in Seq(LineChar), NEW x \in LineChar, NEW t
  PROVE  NextOf(Append(s, x), t) = NextOf(s, x)
<1> DEFINE a == Append(s, x)
<1>1. /\ Len(s) \in Nat /\ DOMAIN s = 1 .. Len(s)
      /\ a \in Seq(LineChar) /\ Len(a) = Len(s) + 1 /\ DOMAIN a = 1 .. Len(s) + 1
      /\ \A j \in 1 .. Len(s) : a[j] = s[j]
      /\ a[Len(s) + 1] = x
  OBVIOUS
<1> HIDE DEF a
<1>2. NextOf(a, t) = NextOf(s, x)
  <2>1. a # << >> /\ Head(a) = a[1]
    BY <1>1
  <2>2. CASE s = << >>
    BY <1>1, <2>1, <2>2 DEF NextOf
  <2>3. CASE s # << >>
    <3>1. Head(s) = s[1] /\ 1 \in 1 .. Len(s)
      BY <2>3
    <3> QED
      BY <1>1, <2>1, <2>3, <3>1 DEF NextOf
  <2> QED
    BY <2>2, <2>3
<1> QED
  BY <1>2 DEF a

\* What comes next in two sequences, one behind the other.
ConcatFollows(s, u, t) ==
  /\ NextOf(s \o u, t) = NextOf(s, u[1])
  /\ \A j \in DOMAIN s : /\ (s \o u)[j] = s[j]
                         /\ Follow(s \o u, t, j) = Follow(s, u[1], j)
  /\ \A j \in DOMAIN (s \o u) \ DOMAIN s :
       /\ j - Len(s) \in DOMAIN u
       /\ (s \o u)[j] = u[j - Len(s)]
       /\ Follow(s \o u, t, j) = Follow(u, t, j - Len(s))

LEMMA FollowConcat ==
  ASSUME NEW s \in Seq(LineChar), NEW u \in Seq(LineChar), u # << >>, NEW t
  PROVE  ConcatFollows(s, u, t)
<1> DEFINE a == s \o u
<1>1. /\ Len(s) \in Nat /\ DOMAIN s = 1 .. Len(s)
      /\ Len(u) \in Nat \ {0} /\ DOMAIN u = 1 .. Len(u)
      /\ a \in Seq(LineChar)
      /\ Len(a) = Len(s) + Len(u) /\ DOMAIN a = 1 .. Len(s) + Len(u)
      /\ \A j \in 1 .. Len(s) + Len(u) :
           a[j] = IF j <= Len(s) THEN s[j] ELSE u[j - Len(s)]
  OBVIOUS
<1> HIDE DEF a
<1>2. NextOf(a, t) = NextOf(s, u[1])
  <2>1. a # << >> /\ Head(a) = a[1] /\ 1 \in 1 .. Len(s) + Len(u)
    BY <1>1
  <2>2. CASE s = << >>
    <3>1. Len(s) = 0
      BY <2>2
    <3>2. a[1] = u[1]
      BY <1>1, <2>1, <3>1
    <3> QED
      BY <2>1, <2>2, <3>2 DEF NextOf
  <2>3. CASE s # << >>
    <3>1. Head(s) = s[1] /\ 1 <= Len(s)
      BY <2>3
    <3> QED
      BY <1>1, <2>1, <2>3, <3>1 DEF NextOf
  <2> QED
    BY <2>2, <2>3
<1>3. ASSUME NEW j \in DOMAIN s
      PROVE  a[j] = s[j] /\ Follow(a, t, j) = Follow(s, u[1], j)
  <2>1. /\ j \in 1 .. Len(s) + Len(u) /\ j <= Len(s)
        /\ j < Len(a) /\ j + 1 \in 1 .. Len(s) + Len(u)
    BY <1>1
  <2>2. CASE j < Len(s)
    BY <1>1, <2>1, <2>2 DEF Follow
  <2>3. CASE ~(j < Len(s))
    <3>1. j = Len(s) /\ ~(j + 1 <= Len(s)) /\ j + 1 - Len(s) = 1
      BY <1>1, <2>1, <2>3
    <3>2. a[j + 1] = u[1]
      BY <1>1, <2>1, <3>1
    <3> QED
      BY <1>1, <2>1, <2>3, <3>2 DEF Follow
  <2> QED
    BY <2>2, <2>3
<1>4. ASSUME NEW j \in DOMAIN a \ DOMAIN s
      PROVE  /\ j - Len(s) \in DOMAIN u
             /\ a[j] = u[j - Len(s)]
             /\ Follow(a, t, j) = Follow(u, t, j - Len(s))
  <2>1. /\ j \in 1 .. Len(s) + Len(u) /\ ~(j <= Len(s)) /\ j - Len(s) \in 1 .. Len(u)
        /\ j < Len(a) <=> j - Len(s) < Len(u)
    BY <1>1
  <2>2. j < Len(a) => a[j + 1] = u[j - Len(s) + 1]
    <3>1. /\ j < Len(a) => j + 1 \in 1 .. Len(s) + Len(u)
          /\ ~(j + 1 <= Len(s)) /\ j + 1 - Len(s) = j - Len(s) + 1
      BY <1>1, <2>1
    <3> QED
      BY <1>1, <3>1
  <2> QED
    BY <1>1, <2>1, <2>2 DEF Follow
<1> QED
  BY <1>1, <1>2, <1>3, <1>4 DEF a, ConcatFollows
-----------------------------------------------------------------------------
(***************************************************************************)
(* Types.  A character on the line belongs to a packet; one in charQueue   *)
(* that begins a frame does.                                               *)
(***************************************************************************)
Marks == /\ \A j \in DOMAIN line : line[j].k # 0
         /\ \A j \in DOMAIN charQueue : charQueue[j].n = 1 => charQueue[j].k # 0

LinkShape == TypeOK /\ Marks

LEMMA PacketFacts ==
  ASSUME NEW p \in Packet
  PROVE  p \in Seq(Char) /\ p # << >> /\ Len(p) <= BUF_SIZE
  BY LinkAssumption

LEMMA BoundFacts ==
  /\ TX_MAX_NUM \in Nat /\ RX_MAX_NUM \in Nat /\ BUF_SIZE \in Nat
  /\ MaxSent \in Nat /\ MaxLine \in Nat /\ MaxFault \in Nat
  BY LinkAssumption

\* What gs_tx_buff takes of the frame of packet k.
Buffered(p, k) == TxBuff(Tagged(k, Frame(p)))

LEMMA BufferedFacts ==
  ASSUME NEW p \in Packet, NEW k \in 1 .. MaxSent
  PROVE  /\ Len(Tagged(k, Frame(p))) = FrameEnd(p)
         /\ Buffered(p, k) \in Seq(LineChar)
         /\ Len(Buffered(p, k)) = IF FrameEnd(p) <= TX_MAX_NUM THEN FrameEnd(p)
                                                              ELSE TX_MAX_NUM
         /\ \A j \in DOMAIN Buffered(p, k) :
              /\ j \in DOMAIN Frame(p)
              /\ Buffered(p, k)[j] = [c |-> Frame(p)[j], k |-> k, n |-> j]
<1> DEFINE e == FrameEnd(p)
           f == Tagged(k, Frame(p))
           m == IF e <= TX_MAX_NUM THEN e ELSE TX_MAX_NUM
<1>1. /\ e \in Nat /\ Frame(p) \in Seq(Char) /\ DOMAIN Frame(p) = 1 .. e
      /\ \A j \in 1 .. e : Frame(p)[j] \in Char
  <2>1. p \in Seq(Char)
    BY PacketFacts
  <2> QED
    BY <2>1, FrameFacts
<1>2. f = [n \in 1 .. e |-> [c |-> Frame(p)[n], k |-> k, n |-> n]]
  BY <1>1 DEF Tagged
<1> DEFINE T == [c : Char, k : 0 .. MaxSent, n : Nat]
<1>3. f \in Seq(T) /\ Len(f) = e
  <2>1. k \in 0 .. MaxSent
    BY BoundFacts
  <2>2. ASSUME NEW n \in 1 .. e
        PROVE  [c |-> Frame(p)[n], k |-> k, n |-> n] \in T
    BY <1>1, <2>1
  <2> HIDE DEF T
  <2>3. f \in [1 .. e -> T]
    BY <1>2, <2>2
  <2>4. DOMAIN f = 1 .. e
    BY <1>2
  <2> HIDE DEF f, e
  <2>5. f \in Seq(T)
    BY <1>1, <2>3
  <2> QED
    BY <1>1, <2>4, <2>5
<1>4. Buffered(p, k) = SubSeq(f, 1, m)
  BY <1>3 DEF Buffered, TxBuff
<1>5. m \in Nat /\ m <= e /\ m <= TX_MAX_NUM
  BY <1>1, BoundFacts
<1>6. \A j \in 1 .. m : /\ j \in 1 .. e /\ j \in 0 .. TX_MAX_NUM
                       /\ f[j] = [c |-> Frame(p)[j], k |-> k, n |-> j]
  BY <1>1, <1>2, <1>5, BoundFacts
<1>7. ASSUME NEW j \in 1 .. m PROVE f[j] \in LineChar
  <2>1. Frame(p)[j] \in Char /\ k \in 0 .. MaxSent /\ j \in 0 .. TX_MAX_NUM
    BY <1>1, <1>6, BoundFacts
  <2>2. f[j] = [c |-> Frame(p)[j], k |-> k, n |-> j]
    BY <1>6
  <2> HIDE DEF f
  <2> QED
    BY <2>1, <2>2 DEF LineChar
<1> HIDE DEF f, m, e, T
<1>8. SubSeq(f, 1, m) = [j \in 1 .. m |-> f[j]]
  <2>1. SubSeq(f, 1, m) \in Seq(T) /\ Len(SubSeq(f, 1, m)) = m
    BY <1>1, <1>3, <1>5, SubSeqProperties
  <2>2. \A j \in 1 .. m : SubSeq(f, 1, m)[j] = f[1 + j - 1]
    BY <1>1, <1>3, <1>5
  <2>3. \A j \in 1 .. m : 1 + j - 1 = j
    BY <1>5
  <2> QED
    BY <2>1, <2>2, <2>3, <1>5
<1>9. SubSeq(f, 1, m) \in Seq(LineChar) /\ Len(SubSeq(f, 1, m)) = m
  BY <1>5, <1>7, <1>8
<1>10. \A j \in 1 .. m : SubSeq(f, 1, m)[j] = [c |-> Frame(p)[j], k |-> k, n |-> j]
  BY <1>6, <1>8
<1>11. DOMAIN SubSeq(f, 1, m) = 1 .. m
  BY <1>8
<1> QED
  BY <1>1, <1>3, <1>4, <1>6, <1>9, <1>10, <1>11 DEF e, m, f

\* send_packet in the terms of the proofs: the frame is written, or it is lost.
LEMMA SendFacts ==
  ASSUME TypeOK, NEW p \in Packet, send_packet(p)
  PROVE  /\ Len(sent) + 1 \in 1 .. MaxSent /\ Len(sent) \in Nat
         /\ sent' = Append(sent, p) /\ sent' \in Seq(Packet)
         /\ Len(sent') = Len(sent) + 1
         /\ \/ /\ line' = line \o Buffered(p, Len(sent) + 1)
               /\ hurt' = IF FrameEnd(p) <= TX_MAX_NUM THEN hurt
                          ELSE hurt \cup {Len(sent) + 1}
               /\ faults' = faults
            \/ /\ line' = line /\ hurt' = hurt \cup {Len(sent) + 1}
               /\ faults < MaxFault /\ faults' = faults + 1
         /\ UNCHANGED <<charQueue, rx, out, noisy, cut>>
<1>1. /\ Len(sent) + 1 \in 1 .. MaxSent /\ Len(sent) \in Nat
      /\ sent' = Append(sent, p)
  BY BoundFacts DEF TypeOK, send_packet
<1>2. sent' \in Seq(Packet) /\ Len(sent') = Len(sent) + 1
  BY <1>1 DEF TypeOK
<1>3. Len(Tagged(Len(sent) + 1, Frame(p))) = FrameEnd(p)
  BY <1>1, BufferedFacts
<1> QED
  BY <1>1, <1>2, <1>3 DEF send_packet, Buffered

\* Enqueue keeps a character or drops it.
LEMMA EnqueueFacts ==
  ASSUME TypeOK, NEW x \in LineChar, Enqueue(x)
  PROVE  /\ charQueue' \in Seq(LineChar) /\ Len(charQueue') <= RX_MAX_NUM
         /\ \/ Len(charQueue) < RX_MAX_NUM /\ charQueue' = Append(charQueue, x)
            \/ ~(Len(charQueue) < RX_MAX_NUM) /\ charQueue' = charQueue
<1>1. CASE Len(charQueue) < RX_MAX_NUM
  <2>1. charQueue' = Append(charQueue, x)
    BY <1>1 DEF Enqueue
  <2>2. charQueue \in Seq(LineChar)
    BY DEF TypeOK
  <2>3. charQueue' \in Seq(LineChar) /\ Len(charQueue') = Len(charQueue) + 1
    BY <2>1, <2>2
  <2> QED
    BY <1>1, <2>1, <2>2, <2>3, BoundFacts
<1>2. CASE ~(Len(charQueue) < RX_MAX_NUM)
  BY <1>2 DEF Enqueue, TypeOK
<1> QED
  BY <1>1, <1>2

LEMMA LineFacts ==
  ASSUME LinkShape, line # << >>
  PROVE  /\ 1 \in DOMAIN line /\ Head(line) = line[1] /\ Head(line) \in LineChar
         /\ Head(line).k \in 1 .. MaxSent /\ Head(line).n \in Nat
         /\ Tail(line) \in Seq(LineChar)
<1>1. line \in Seq(LineChar)
  BY DEF LinkShape, TypeOK
<1>2. /\ 1 \in DOMAIN line /\ Head(line) = line[1] /\ Head(line) \in LineChar
      /\ Tail(line) \in Seq(LineChar)
  BY <1>1
<1>3. Head(line).k \in 0 .. MaxSent /\ Head(line).n \in 0 .. TX_MAX_NUM
  BY <1>2 DEF LineChar
<1>4. Head(line).k # 0
  BY <1>2 DEF LinkShape, Marks
<1> QED
  BY <1>2, <1>3, <1>4, BoundFacts

\* Noise belongs to no packet.
LEMMA NoiseFacts ==
  ASSUME NEW c \in Noise
  PROVE  NoiseChar(c) \in LineChar /\ NoiseChar(c).n = 0 /\ NoiseChar(c).k = 0
<1>1. c \in Char /\ 0 \in 0 .. MaxSent /\ 0 \in 0 .. TX_MAX_NUM
  BY LinkAssumption, BoundFacts
<1> QED
  BY <1>1 DEF NoiseChar, LineChar

\* recv_packet stores no more than its caller's buffer holds.
LEMMA ReceivedFacts ==
  ASSUME TypeOK, NEW x \in LineChar
  PROVE  /\ Received(rx, x, BUF_SIZE).buf \in Seq(LineChar)
         /\ Len(Received(rx, x, BUF_SIZE).buf) <= BUF_SIZE
         /\ Received(rx, x, BUF_SIZE).esc \in BOOLEAN
         /\ Received(rx, x, BUF_SIZE).esc <=> ~rx.esc /\ x.c = ESC
<1> DEFINE y == [x EXCEPT !.c = Unstuff(x.c)]
<1>1. y \in LineChar
  <2>1. x.c \in Char /\ Unstuff(x.c) \in Char
    BY DEF LineChar, Unstuff, Char, END, ESC
  <2> QED
    BY <2>1 DEF LineChar
<1>2. ASSUME NEW z \in LineChar
      PROVE  /\ Store(rx, z, BUF_SIZE).buf \in Seq(LineChar)
             /\ Len(Store(rx, z, BUF_SIZE).buf) <= BUF_SIZE
             /\ Store(rx, z, BUF_SIZE).esc = FALSE
  <2>1. /\ rx.buf \in Seq(LineChar) /\ Len(rx.buf) <= BUF_SIZE
        /\ Append(rx.buf, z) \in Seq(LineChar)
        /\ Len(Append(rx.buf, z)) = Len(rx.buf) + 1 /\ Len(rx.buf) \in Nat
    BY DEF TypeOK
  <2> QED
    BY <2>1, BoundFacts DEF Store, Receiving
<1>3. /\ Idle.buf = << >> /\ Idle.esc = FALSE
      /\ Receiving(rx.buf, TRUE).buf = rx.buf /\ Receiving(rx.buf, TRUE).esc = TRUE
  BY DEF Idle, Receiving
<1>4. /\ rx.buf \in Seq(LineChar) /\ Len(rx.buf) <= BUF_SIZE /\ rx.esc \in BOOLEAN
      /\ << >> \in Seq(LineChar) /\ Len(<< >>) <= BUF_SIZE
  BY BoundFacts DEF TypeOK
<1>5. CASE rx.esc
  <2>1. Received(rx, x, BUF_SIZE) = Store(rx, y, BUF_SIZE)
    BY <1>5 DEF Received
  <2> QED
    BY <1>1, <1>2, <1>5, <2>1
<1>6. CASE ~rx.esc /\ x.c = ESC
  <2>1. Received(rx, x, BUF_SIZE) = Receiving(rx.buf, TRUE)
    BY <1>6 DEF Received, END, ESC
  <2> QED
    BY <1>3, <1>4, <1>6, <2>1
<1>7. CASE ~rx.esc /\ x.c = END
  <2>1. Received(rx, x, BUF_SIZE) = Idle
    BY <1>7 DEF Received, END, ESC
  <2>2. Received(rx, x, BUF_SIZE).buf = << >> /\ Received(rx, x, BUF_SIZE).esc = FALSE
    BY <1>3, <2>1
  <2>3. x.c # ESC
    BY <1>7 DEF END, ESC
  <2>4. Len(<< >>) = 0 /\ 0 <= BUF_SIZE
    BY BoundFacts
  <2> QED
    BY <1>4, <2>2, <2>3, <2>4
<1>8. CASE ~rx.esc /\ x.c # ESC /\ x.c # END
  <2>1. Received(rx, x, BUF_SIZE) = Store(rx, x, BUF_SIZE)
    BY <1>8 DEF Received
  <2> QED
    BY <1>2, <1>8, <2>1
<1> QED
  BY <1>5, <1>6, <1>7, <1>8

LEMMA LinkShapeInit == Init => LinkShape
<1>1. << >> \in Seq(LineChar) /\ << >> \in Seq(Packet) /\ << >> \in Seq(Seq(LineChar))
      /\ Len(<< >>) = 0
  OBVIOUS
<1>2. Idle.buf = << >> /\ Idle.esc = FALSE
  BY DEF Idle, Receiving
<1>3. Init => TypeOK
  <2>1. /\ Len(<< >>) <= MaxSent /\ Len(<< >>) <= RX_MAX_NUM /\ Len(<< >>) <= BUF_SIZE
        /\ 0 \in 0 .. MaxFault
    BY <1>1, BoundFacts
  <2> QED
    BY <1>1, <1>2, <2>1 DEF Init, TypeOK
<1>4. Init => Marks
  BY DEF Init, Marks
<1> QED
  BY <1>3, <1>4 DEF LinkShape

LEMMA LinkShapeStep ==
  ASSUME LinkShape, [Next]_vars
  PROVE  LinkShape'
<1> USE DEF LinkShape
<1>1. ASSUME NEW p \in Packet, send_packet(p) PROVE LinkShape'
  <2> DEFINE k == Len(sent) + 1
             u == Buffered(p, k)
  <2>1. /\ k \in 1 .. MaxSent /\ sent' \in Seq(Packet) /\ Len(sent') = k
        /\ charQueue' = charQueue /\ rx' = rx /\ out' = out /\ noisy' = noisy
        /\ cut' = cut
    BY <1>1, SendFacts
  <2>2. \/ (line' = line /\ faults < MaxFault /\ faults' = faults + 1)
        \/ (line' = line \o u /\ faults' = faults)
    BY <1>1, SendFacts
  <2>3. hurt' \subseteq hurt \cup {k}
    BY <1>1, SendFacts
  <2>4. u \in Seq(LineChar) /\ \A j \in DOMAIN u : u[j].k = k
    BY <2>1, BufferedFacts
  <2> HIDE DEF u
  <2>5. line' \in Seq(LineChar) /\ faults' \in 0 .. MaxFault
    <3>1. line \in Seq(LineChar) /\ faults \in 0 .. MaxFault
      BY DEF TypeOK
    <3>2. line \o u \in Seq(LineChar)
      BY <2>4, <3>1
    <3>3. line' \in Seq(LineChar)
      BY <2>2, <3>1, <3>2
    <3>4. faults' = faults \/ (faults < MaxFault /\ faults' = faults + 1)
      BY <2>2
    <3> QED
      BY <3>1, <3>3, <3>4, BoundFacts
  <2>6. \A j \in DOMAIN line' : line'[j].k # 0
    <3>1. line \in Seq(LineChar)
      BY DEF TypeOK
    <3>2. CASE line' = line
      BY <3>2 DEF Marks
    <3>3. CASE line' = line \o u
      <4>1. ASSUME NEW j \in DOMAIN (line \o u) PROVE (line \o u)[j].k # 0
        <5>1. CASE j \in DOMAIN line
          BY <2>4, <3>1, <5>1 DEF Marks
        <5>2. CASE j \notin DOMAIN line
          <6>1. j - Len(line) \in DOMAIN u /\ (line \o u)[j] = u[j - Len(line)]
            BY <2>4, <3>1, <5>2
          <6> QED
            BY <2>1, <2>4, <6>1
        <5> QED
          BY <5>1, <5>2
      <4> QED
        BY <3>3, <4>1
    <3> QED
      BY <2>2, <3>2, <3>3
  <2>7. hurt' \subseteq 1 .. MaxSent
    BY <2>1, <2>3 DEF TypeOK
  <2>8. Len(sent') <= MaxSent
    BY <2>1
  <2> QED
    BY <2>1, <2>5, <2>6, <2>7, <2>8 DEF TypeOK, Marks
<1>2. ASSUME NEW x \in LineChar, x.n = 1 => x.k # 0, Enqueue(x)
      PROVE  /\ charQueue' \in Seq(LineChar) /\ Len(charQueue') <= RX_MAX_NUM
             /\ \A j \in DOMAIN charQueue' : charQueue'[j].n = 1 => charQueue'[j].k # 0
  <2>1. charQueue \in Seq(LineChar)
    BY DEF TypeOK
  <2>2. \A j \in DOMAIN Append(charQueue, x) :
          \/ Append(charQueue, x)[j] = x
          \/ j \in DOMAIN charQueue /\ Append(charQueue, x)[j] = charQueue[j]
    BY <1>2, <2>1
  <2>3. \A j \in DOMAIN Append(charQueue, x) :
          Append(charQueue, x)[j].n = 1 => Append(charQueue, x)[j].k # 0
    BY <1>2, <2>2 DEF Marks
  <2> QED
    BY <1>2, <2>3, EnqueueFacts DEF Marks
<1>3. ASSUME line # << >>, line' = Tail(line)
      PROVE  line' \in Seq(LineChar) /\ \A j \in DOMAIN line' : line'[j].k # 0
  <2>1. line \in Seq(LineChar)
    BY DEF TypeOK
  <2>2. \A j \in DOMAIN Tail(line) : j + 1 \in DOMAIN line /\ Tail(line)[j] = line[j + 1]
    BY <1>3, <2>1
  <2> QED
    BY <1>3, <2>2, LineFacts DEF Marks
<1>4. ASSUME faults < MaxFault, faults' = faults + 1 PROVE faults' \in 0 .. MaxFault
  BY <1>4, BoundFacts DEF TypeOK
<1>5. CASE uart2_irq_handler
  <2>1. /\ line # << >> /\ line' = Tail(line) /\ Enqueue(Head(line))
        /\ UNCHANGED <<sent, rx, out, noisy, cut>>
    BY <1>5 DEF uart2_irq_handler
  <2>2. /\ Head(line) \in LineChar /\ Head(line).k \in 1 .. MaxSent
    BY <2>1, LineFacts
  <2>3. hurt' \subseteq 1 .. MaxSent /\ faults' \in 0 .. MaxFault
    <3>1. hurt \subseteq 1 .. MaxSent /\ faults \in 0 .. MaxFault
      BY DEF TypeOK
    <3>2. \/ hurt' = hurt /\ faults' = faults
          \/ hurt' = hurt \cup {Head(line).k} /\ faults < MaxFault /\ faults' = faults + 1
      BY <1>5 DEF uart2_irq_handler
    <3> QED
      BY <1>4, <2>2, <3>1, <3>2
  <2>4. /\ charQueue' \in Seq(LineChar) /\ Len(charQueue') <= RX_MAX_NUM
        /\ \A j \in DOMAIN charQueue' : charQueue'[j].n = 1 => charQueue'[j].k # 0
    BY <1>2, <2>1, <2>2
  <2>5. line' \in Seq(LineChar) /\ \A j \in DOMAIN line' : line'[j].k # 0
    BY <1>3, <2>1
  <2> QED
    BY <2>1, <2>3, <2>4, <2>5 DEF TypeOK, Marks
<1>6. CASE LineLoss
  <2>1. /\ line # << >> /\ line' = Tail(line) /\ hurt' = hurt \cup {Head(line).k}
        /\ faults < MaxFault /\ faults' = faults + 1
        /\ UNCHANGED <<sent, charQueue, rx, out, noisy, cut>>
    BY <1>6 DEF LineLoss
  <2>2. Head(line).k \in 1 .. MaxSent
    BY <2>1, LineFacts
  <2>3. line' \in Seq(LineChar) /\ \A j \in DOMAIN line' : line'[j].k # 0
    BY <1>3, <2>1
  <2>4. faults' \in 0 .. MaxFault
    BY <1>4, <2>1
  <2> QED
    BY <2>1, <2>2, <2>3, <2>4 DEF TypeOK, Marks
<1>7. ASSUME NEW c \in Noise, LineNoise(c) PROVE LinkShape'
  <2>1. /\ Enqueue(NoiseChar(c)) /\ faults < MaxFault /\ faults' = faults + 1
        /\ UNCHANGED <<sent, line, rx, out, cut>>
    BY <1>7 DEF LineNoise
  <2>2. NextFrame \in 1 .. MaxSent + 1
    <3>1. CASE line # << >>
      <4>1. NextFrame \in 1 .. MaxSent
        BY <3>1, LineFacts DEF NextFrame
      <4> QED
        BY <4>1, BoundFacts
    <3>2. CASE line = << >>
      BY <3>2, BoundFacts DEF NextFrame, TypeOK
    <3> QED
      BY <3>1, <3>2
  <2>3. hurt' \subseteq 1 .. MaxSent /\ noisy' \subseteq 1 .. MaxSent + 1
    <3>1. CASE line # << >> /\ Head(line).n > 1
      <4>1. hurt' = hurt \cup {Head(line).k} /\ noisy' = noisy
        BY <1>7, <3>1 DEF LineNoise
      <4> QED
        BY <3>1, <4>1, LineFacts DEF TypeOK
    <3>2. CASE ~(line # << >> /\ Head(line).n > 1)
      <4>1. hurt' = hurt /\ noisy' = noisy \cup {NextFrame}
        BY <1>7, <3>2 DEF LineNoise
      <4> QED
        BY <2>2, <4>1 DEF TypeOK
    <3> QED
      BY <3>1, <3>2
  <2>4. /\ charQueue' \in Seq(LineChar) /\ Len(charQueue') <= RX_MAX_NUM
        /\ \A j \in DOMAIN charQueue' : charQueue'[j].n = 1 => charQueue'[j].k # 0
    <3>1. NoiseChar(c) \in LineChar /\ (NoiseChar(c).n = 1 => NoiseChar(c).k # 0)
      BY NoiseFacts
    <3> QED
      BY <1>2, <2>1, <3>1
  <2>5. faults' \in 0 .. MaxFault
    BY <1>4, <2>1
  <2> QED
    BY <2>1, <2>3, <2>4, <2>5 DEF TypeOK, Marks
<1>8. CASE recv_packet
  <2> DEFINE x == Head(charQueue)
  <2>1. /\ charQueue # << >> /\ charQueue' = Tail(charQueue)
        /\ rx' = Received(rx, x, BUF_SIZE)
        /\ out' = IF Completes(rx, x) THEN Append(out, rx.buf) ELSE out
        /\ cut' = IF rx.esc /\ x.n = 1 THEN cut \cup {x.k} ELSE cut
        /\ UNCHANGED <<sent, line, hurt, noisy, faults>>
    BY <1>8 DEF recv_packet
  <2>2. charQueue \in Seq(LineChar) /\ Len(charQueue) <= RX_MAX_NUM
    BY DEF TypeOK
  <2>3. x \in LineChar /\ x = charQueue[1] /\ 1 \in DOMAIN charQueue
    BY <2>1, <2>2
  <2>4. /\ Tail(charQueue) \in Seq(LineChar)
        /\ Len(Tail(charQueue)) = Len(charQueue) - 1 /\ Len(charQueue) \in Nat
        /\ \A j \in DOMAIN Tail(charQueue) :
             j + 1 \in DOMAIN charQueue /\ Tail(charQueue)[j] = charQueue[j + 1]
    BY <2>1, <2>2
  <2> HIDE DEF x
  <2>5. rx'.buf \in Seq(LineChar) /\ Len(rx'.buf) <= BUF_SIZE /\ rx'.esc \in BOOLEAN
    BY <2>1, <2>3, ReceivedFacts
  <2>6. out' \in Seq(Seq(LineChar))
    <3>1. rx.buf \in Seq(LineChar) /\ out \in Seq(Seq(LineChar))
      BY DEF TypeOK
    <3>2. Append(out, rx.buf) \in Seq(Seq(LineChar))
      BY <3>1
    <3> QED
      BY <2>1, <3>1, <3>2
  <2>7. cut' \subseteq 1 .. MaxSent
    <3>1. x.k \in 0 .. MaxSent /\ (x.n = 1 => x.k # 0)
      BY <2>3 DEF Marks, LineChar
    <3>2. x.n = 1 => x.k \in 1 .. MaxSent
      BY <3>1, BoundFacts
    <3> QED
      BY <2>1, <3>2 DEF TypeOK
  <2>8. Len(charQueue') <= RX_MAX_NUM /\ charQueue' \in Seq(LineChar)
    BY <2>1, <2>2, <2>4, BoundFacts
  <2>9. \A j \in DOMAIN charQueue' : charQueue'[j].n = 1 => charQueue'[j].k # 0
    BY <2>1, <2>4 DEF Marks
  <2> QED
    BY <2>1, <2>5, <2>6, <2>7, <2>8, <2>9 DEF TypeOK, Marks
<1>9. CASE UNCHANGED vars
  BY <1>9 DEF vars, TypeOK, Marks
<1> QED
  BY <1>1, <1>5, <1>6, <1>7, <1>8, <1>9 DEF Next

(***************************************************************************)
(* The buffers of the link keep their limits, whatever is sent, lost or    *)
(* added: charQueue its length, the buffer of recv_packet the len of its   *)
(* caller (slip.c writes no byte beyond it).                               *)
(***************************************************************************)
THEOREM LinkTypes == Spec => []TypeOK
<1>1. Init => LinkShape
  BY LinkShapeInit
<1>2. LinkShape /\ [Next]_vars => LinkShape'
  BY LinkShapeStep
<1>3. LinkShape => TypeOK
  BY DEF LinkShape
<1> QED
  BY <1>1, <1>2, <1>3, PTL DEF Spec
-----------------------------------------------------------------------------
(***************************************************************************)
(* Where an ESC can swallow the first END of a frame.  When the frame of   *)
(* packet z.k begins at z, Owed says that the packet before it is damaged  *)
(* or that noise came between the two.  Passed says of neighbours x and z  *)
(* on the line that the packet before z's is x's own, unless it is hurt,   *)
(* and that x is no ESC unless it is.                                      *)
(***************************************************************************)
Owed(z, H, N) == z.n = 1 => (z.k - 1) \in H \/ z.k \in N

Passed(x, z, H) == z.n = 1 => /\ (z.k - 1) \in H \cup {x.k}
                              /\ x.c = ESC => (z.k - 1) \in H

\* Every ESC of the queue q, which t follows, is owed.
QueueOwed(q, t, H, N) ==
  \A j \in DOMAIN q : q[j].c = ESC => Owed(Follow(q, t, j), H, N)

LinePassed(l, t, H) == \A j \in DOMAIN l : Passed(l[j], Follow(l, t, j), H)

\* The next frame to be sent begins here.
Start(k) == [c |-> END, k |-> k, n |-> 1]
OnLine == NextOf(line, Start(Len(sent) + 1))
Upcoming == NextOf(charQueue, OnLine)

EscOwed == rx.esc => Owed(Upcoming, hurt, noisy)

OrderInv == /\ LinkShape
            /\ LinePassed(line, Start(Len(sent) + 1), hurt)
            /\ QueueOwed(charQueue, OnLine, hurt, noisy)
            /\ EscOwed
            /\ ResyncWithinOneFrame

LEMMA QueueOwedMore ==
  ASSUME NEW q, NEW t, NEW t1, NEW H, NEW N, NEW H1, NEW N1,
         H \subseteq H1, N \subseteq N1,
         Owed(t, H, N) => Owed(t1, H1, N1)
  PROVE  /\ QueueOwed(q, t, H, N) => QueueOwed(q, t1, H1, N1)
         /\ Owed(NextOf(q, t), H, N) => Owed(NextOf(q, t1), H1, N1)
<1>1. \A z : Owed(z, H, N) => Owed(z, H1, N1)
  BY DEF Owed
<1>2. \A j : Owed(Follow(q, t, j), H, N) => Owed(Follow(q, t1, j), H1, N1)
  BY <1>1 DEF Follow
<1> QED
  BY <1>1, <1>2 DEF QueueOwed, NextOf

LEMMA QueueOwedAppend ==
  ASSUME NEW q \in Seq(LineChar), NEW x \in LineChar, NEW t, NEW H, NEW N,
         QueueOwed(q, x, H, N), x.c = ESC => Owed(t, H, N)
  PROVE  QueueOwed(Append(q, x), t, H, N) /\ NextOf(Append(q, x), t) = NextOf(q, x)
<1>1. NextOf(Append(q, x), t) = NextOf(q, x)
  BY NextAppend
<1>2. /\ DOMAIN Append(q, x) = DOMAIN q \cup {Len(q) + 1}
      /\ Append(q, x)[Len(q) + 1] = x
      /\ \A j \in DOMAIN q : Append(q, x)[j] = q[j]
  OBVIOUS
<1>3. Follow(Append(q, x), t, Len(q) + 1) = t
  BY DEF Follow
<1>4. ASSUME NEW j \in DOMAIN q PROVE Follow(Append(q, x), t, j) = Follow(q, x, j)
  BY DEF Follow
<1> QED
  BY <1>1, <1>2, <1>3, <1>4 DEF QueueOwed

LEMMA QueueOwedTail ==
  ASSUME NEW q \in Seq(LineChar), q # << >>, NEW t, NEW H, NEW N,
         QueueOwed(q, t, H, N)
  PROVE  /\ QueueOwed(Tail(q), t, H, N)
         /\ Head(q).c = ESC => Owed(NextOf(Tail(q), t), H, N)
<1>1. TailFollows(q, t)
  BY FollowTail
<1> QED
  BY <1>1 DEF TailFollows, QueueOwed

LEMMA LinePassedMore ==
  ASSUME NEW l, NEW t, NEW t1, NEW H, NEW H1, LinePassed(l, t, H),
         H \subseteq H1, \A x : Passed(x, t, H) => Passed(x, t1, H1)
  PROVE  LinePassed(l, t1, H1)
<1>1. \A x, z : Passed(x, z, H) => Passed(x, z, H1)
  BY DEF Passed
<1>2. \A x, j : Passed(x, Follow(l, t, j), H) => Passed(x, Follow(l, t1, j), H1)
  BY <1>1 DEF Follow
<1> QED
  BY <1>2 DEF LinePassed

LEMMA LinePassedTail ==
  ASSUME NEW l \in Seq(LineChar), l # << >>, NEW t, NEW H, LinePassed(l, t, H)
  PROVE  /\ LinePassed(Tail(l), t, H)
         /\ Passed(Head(l), NextOf(Tail(l), t), H)
         /\ NextOf(l, t) = Head(l)
<1>1. TailFollows(l, t)
  BY FollowTail
<1> QED
  BY <1>1 DEF TailFollows, LinePassed

LEMMA LinePassedConcat ==
  ASSUME NEW l \in Seq(LineChar), NEW u \in Seq(LineChar), u # << >>, NEW t, NEW H,
         LinePassed(l, u[1], H), LinePassed(u, t, H)
  PROVE  LinePassed(l \o u, t, H) /\ NextOf(l \o u, t) = NextOf(l, u[1])
<1>1. ConcatFollows(l, u, t)
  BY FollowConcat
<1>2. \A j \in DOMAIN l : Passed((l \o u)[j], Follow(l \o u, t, j), H)
  BY <1>1 DEF LinePassed, ConcatFollows
<1>3. \A j \in DOMAIN (l \o u) \ DOMAIN l :
        Passed((l \o u)[j], Follow(l \o u, t, j), H)
  BY <1>1 DEF LinePassed, ConcatFollows
<1>4. NextOf(l \o u, t) = NextOf(l, u[1])
  BY <1>1 DEF ConcatFollows
<1> QED
  BY <1>2, <1>3, <1>4 DEF LinePassed

LEMMA OrderInit == Init => OrderInv
<1>1. Init => LinkShape
  BY LinkShapeInit
<1>2. Init => rx.esc = FALSE
  BY DEF Init, Idle, Receiving
<1> QED
  BY <1>1, <1>2 DEF Init, OrderInv, LinePassed, QueueOwed, EscOwed, ResyncWithinOneFrame

\* send_packet: the frame begins where its predecessor has ended.
LEMMA OrderSend ==
  ASSUME OrderInv, NEW p \in Packet, send_packet(p)
  PROVE  /\ LinePassed(line, Start(Len(sent) + 1), hurt)'
         /\ Owed(OnLine, hurt, noisy) => Owed(OnLine, hurt, noisy)'
         /\ hurt \subseteq hurt' /\ UNCHANGED <<charQueue, rx, noisy, cut>>
<1> DEFINE k == Len(sent) + 1
           u == Buffered(p, k)
           s == Start(k)
           t == Start(k + 1)
<1>1. /\ k \in 1 .. MaxSent /\ Len(sent') = k
      /\ \/ /\ line' = line \o u
            /\ hurt' = IF FrameEnd(p) <= TX_MAX_NUM THEN hurt ELSE hurt \cup {k}
         \/ line' = line /\ hurt' = hurt \cup {k}
      /\ UNCHANGED <<charQueue, rx, noisy, cut>>
  BY SendFacts DEF OrderInv, LinkShape
<1>2. /\ u \in Seq(LineChar)
      /\ Len(u) = IF FrameEnd(p) <= TX_MAX_NUM THEN FrameEnd(p) ELSE TX_MAX_NUM
      /\ \A j \in DOMAIN u : u[j] = [c |-> Frame(p)[j], k |-> k, n |-> j]
  BY <1>1, BufferedFacts
<1>3. line \in Seq(LineChar) /\ LinePassed(line, s, hurt)
  BY DEF OrderInv, LinkShape, TypeOK
<1>4. FrameEnd(p) \in Nat \ {0} /\ Frame(p)[1] = END /\ Frame(p)[FrameEnd(p)] = END
  BY PacketFacts, FrameFacts
<1>5. k \in Nat /\ k + 1 - 1 = k
  BY <1>1
<1>6. s.n = 1 /\ s.k = k /\ t.n = 1 /\ t.k = k + 1
  BY DEF Start
<1>7. OnLine = NextOf(line, s) /\ OnLine' = NextOf(line', t) /\ hurt \subseteq hurt'
  BY <1>1 DEF OnLine
<1>8. Start(Len(sent) + 1)' = t
  BY <1>1
<1> HIDE DEF k, u, s, t
<1>9. ASSUME line' = line, k \in hurt'
      PROVE  /\ LinePassed(line', t, hurt')
             /\ Owed(OnLine, hurt, noisy) => Owed(OnLine', hurt', noisy')
  <2>1. Owed(t, hurt', noisy') /\ \A x : Passed(x, t, hurt')
    BY <1>5, <1>6, <1>9 DEF Owed, Passed
  <2>2. LinePassed(line, t, hurt')
    BY <1>3, <1>7, <2>1, LinePassedMore
  <2>3. Owed(NextOf(line, s), hurt, noisy) => Owed(NextOf(line, t), hurt', noisy')
    BY <1>1, <1>7, <2>1, QueueOwedMore
  <2> QED
    BY <1>7, <1>9, <2>2, <2>3
<1>10. ASSUME line' = line \o u, u # << >>,
              hurt' = IF FrameEnd(p) <= TX_MAX_NUM THEN hurt ELSE hurt \cup {k}
       PROVE  /\ LinePassed(line', t, hurt')
              /\ Owed(OnLine, hurt, noisy) => Owed(OnLine', hurt', noisy')
  <2>1. Len(u) \in Nat \ {0} /\ DOMAIN u = 1 .. Len(u)
    BY <1>2, <1>10
  <2>2. u[1] = s
    BY <1>2, <1>4, <2>1 DEF s, Start
  <2>3. LinePassed(line, u[1], hurt')
    BY <1>3, <1>7, <2>2, LinePassedMore DEF Passed
  <2>4. ASSUME NEW j \in DOMAIN u PROVE Passed(u[j], Follow(u, t, j), hurt')
    <3>1. CASE j < Len(u)
      <4>1. Follow(u, t, j) = u[j + 1] /\ j + 1 \in DOMAIN u /\ j + 1 # 1
        BY <2>1, <3>1 DEF Follow
      <4>2. Follow(u, t, j).n # 1
        BY <1>2, <4>1
      <4> QED
        BY <4>2 DEF Passed
    <3>2. CASE ~(j < Len(u))
      <4>1. Follow(u, t, j) = t /\ j = Len(u)
        BY <2>1, <3>2 DEF Follow
      <4>2. u[j].k = k /\ u[j].c = Frame(p)[j]
        BY <1>2
      <4>3. CASE FrameEnd(p) <= TX_MAX_NUM
        <5>1. u[j].c = END
          BY <1>2, <1>4, <4>1, <4>2, <4>3
        <5> QED
          BY <1>5, <1>6, <4>1, <4>2, <5>1 DEF Passed, END, ESC
      <4>4. CASE ~(FrameEnd(p) <= TX_MAX_NUM)
        <5>1. k \in hurt'
          BY <1>10, <4>4
        <5> QED
          BY <1>5, <1>6, <4>1, <5>1 DEF Passed
      <4> QED
        BY <4>3, <4>4
    <3> QED
      BY <3>1, <3>2
  <2>5. LinePassed(u, t, hurt')
    BY <2>4 DEF LinePassed
  <2>6. LinePassed(line \o u, t, hurt') /\ NextOf(line \o u, t) = NextOf(line, u[1])
    BY <1>2, <1>3, <1>10, <2>3, <2>5, LinePassedConcat
  <2>7. OnLine' = OnLine
    BY <1>7, <1>10, <2>2, <2>6
  <2> QED
    BY <1>1, <1>7, <1>10, <2>6, <2>7 DEF Owed
<1>11. /\ LinePassed(line', t, hurt')
       /\ Owed(OnLine, hurt, noisy) => Owed(OnLine', hurt', noisy')
  <2>1. CASE line' = line /\ hurt' = hurt \cup {k}
    BY <1>9, <2>1
  <2>2. CASE /\ line' = line \o u
             /\ hurt' = IF FrameEnd(p) <= TX_MAX_NUM THEN hurt ELSE hurt \cup {k}
    <3>1. CASE u # << >>
      BY <1>10, <2>2, <3>1
    <3>2. CASE u = << >>
      <4>1. line' = line
        BY <1>3, <2>2, <3>2
      <4>2. ~(FrameEnd(p) <= TX_MAX_NUM)
        BY <1>2, <1>4, <3>2
      <4> QED
        BY <1>9, <2>2, <4>1, <4>2
    <3> QED
      BY <3>1, <3>2
  <2> QED
    BY <1>1, <2>1, <2>2
<1> QED
  BY <1>1, <1>7, <1>8, <1>11

\* A character leaves the line and reaches charQueue, or is lost.
LEMMA OrderArrival ==
  ASSUME OrderInv, line # << >>, line' = Tail(line), sent' = sent, rx' = rx,
         noisy' = noisy, cut' = cut,
         \/ charQueue' = Append(charQueue, Head(line)) /\ hurt' = hurt
         \/ charQueue' = charQueue /\ hurt' = hurt \cup {Head(line).k}
  PROVE  /\ LinePassed(line, Start(Len(sent) + 1), hurt)'
         /\ QueueOwed(charQueue, OnLine, hurt, noisy)'
         /\ EscOwed'
<1> DEFINE s == Start(Len(sent) + 1)
           x == Head(line)
           z == NextOf(Tail(line), s)
<1>1. line \in Seq(LineChar) /\ charQueue \in Seq(LineChar) /\ x \in LineChar
  BY LineFacts DEF OrderInv, LinkShape, TypeOK
<1>2. /\ LinePassed(Tail(line), s, hurt) /\ Passed(x, z, hurt)
      /\ NextOf(line, s) = x
  BY <1>1, LinePassedTail DEF OrderInv
<1>3. /\ QueueOwed(charQueue, x, hurt, noisy)
      /\ rx.esc => Owed(NextOf(charQueue, x), hurt, noisy)
  BY <1>2 DEF OrderInv, OnLine, EscOwed, Upcoming
<1>4. s' = s /\ OnLine' = z /\ Upcoming' = NextOf(charQueue', z)
  BY DEF OnLine, Upcoming
<1> HIDE DEF s, x, z
<1>5. hurt \subseteq hurt'
  OBVIOUS
<1>6. LinePassed(line', s, hurt')
  <2>1. \A y : Passed(y, s, hurt) => Passed(y, s, hurt')
    BY <1>5 DEF Passed
  <2> QED
    BY <1>2, <1>5, <2>1, LinePassedMore
<1>7. /\ QueueOwed(charQueue', z, hurt', noisy')
      /\ rx.esc => Owed(NextOf(charQueue', z), hurt', noisy')
  <2>1. CASE charQueue' = Append(charQueue, Head(line)) /\ hurt' = hurt
    <3>1. x.c = ESC => Owed(z, hurt, noisy)
      BY <1>2 DEF Passed, Owed
    <3>2. /\ QueueOwed(Append(charQueue, x), z, hurt, noisy)
          /\ NextOf(Append(charQueue, x), z) = NextOf(charQueue, x)
      BY <1>1, <1>3, <3>1, QueueOwedAppend
    <3> QED
      BY <1>3, <2>1, <3>2 DEF x
  <2>2. CASE charQueue' = charQueue /\ hurt' = hurt \cup {Head(line).k}
    <3>1. Owed(z, hurt', noisy')
      BY <1>2, <2>2 DEF Passed, Owed, x
    <3>2. /\ QueueOwed(charQueue, z, hurt', noisy')
          /\ Owed(NextOf(charQueue, x), hurt, noisy) =>
               Owed(NextOf(charQueue, z), hurt', noisy')
      BY <1>3, <1>5, <3>1, QueueOwedMore
    <3> QED
      BY <1>3, <2>2, <3>2
  <2> QED
    BY <2>1, <2>2
<1>8. LinePassed(line, Start(Len(sent) + 1), hurt)'
  BY <1>4, <1>6 DEF s
<1> QED
  BY <1>4, <1>7, <1>8 DEF EscOwed

LEMMA OrderStep ==
  ASSUME OrderInv, [Next]_vars
  PROVE  OrderInv'
<1>1. LinkShape'
  BY LinkShapeStep DEF OrderInv
<1>2. ASSUME cut' = cut, hurt \subseteq hurt', noisy \subseteq noisy'
      PROVE  ResyncWithinOneFrame'
  BY <1>2 DEF OrderInv, ResyncWithinOneFrame
<1>3. ASSUME NEW p \in Packet, send_packet(p) PROVE OrderInv'
  <2>1. /\ LinePassed(line, Start(Len(sent) + 1), hurt)'
        /\ Owed(OnLine, hurt, noisy) => Owed(OnLine', hurt', noisy')
        /\ hurt \subseteq hurt' /\ charQueue' = charQueue /\ rx' = rx
        /\ noisy' = noisy /\ cut' = cut
    BY <1>3, OrderSend
  <2>2. /\ QueueOwed(charQueue, OnLine, hurt, noisy)
        /\ rx.esc => Owed(NextOf(charQueue, OnLine), hurt, noisy)
    BY DEF OrderInv, EscOwed, Upcoming
  <2>3. /\ QueueOwed(charQueue, OnLine', hurt', noisy')
        /\ rx.esc => Owed(NextOf(charQueue, OnLine'), hurt', noisy')
    BY <2>1, <2>2, QueueOwedMore
  <2>4. EscOwed' /\ QueueOwed(charQueue, OnLine, hurt, noisy)'
    BY <2>1, <2>3 DEF EscOwed, Upcoming
  <2> QED
    BY <1>1, <1>2, <2>1, <2>4 DEF OrderInv
<1>4. CASE uart2_irq_handler
  <2>1. /\ line # << >> /\ line' = Tail(line) /\ Enqueue(Head(line))
        /\ UNCHANGED <<sent, rx, noisy, cut>>
    BY <1>4 DEF uart2_irq_handler
  <2>2. \/ charQueue' = Append(charQueue, Head(line)) /\ hurt' = hurt
        \/ charQueue' = charQueue /\ hurt' = hurt \cup {Head(line).k}
    BY <1>4 DEF uart2_irq_handler, Enqueue
  <2>3. hurt \subseteq hurt' /\ noisy \subseteq noisy'
    BY <2>1, <2>2
  <2> QED
    BY <1>1, <1>2, <2>1, <2>2, <2>3, OrderArrival DEF OrderInv
<1>5. CASE LineLoss
  <2>1. /\ line # << >> /\ line' = Tail(line) /\ hurt' = hurt \cup {Head(line).k}
        /\ charQueue' = charQueue /\ UNCHANGED <<sent, rx, noisy, cut>>
    BY <1>5 DEF LineLoss
  <2> QED
    BY <1>1, <1>2, <2>1, OrderArrival DEF OrderInv
<1>6. ASSUME NEW c \in Noise, LineNoise(c) PROVE OrderInv'
  <2> DEFINE y == NoiseChar(c)
  <2>1. /\ Enqueue(y) /\ UNCHANGED <<sent, line, rx, cut>>
    BY <1>6 DEF LineNoise
  <2>2. y \in LineChar /\ y.n = 0
    BY NoiseFacts
  <2> HIDE DEF y
  <2>3. charQueue' = Append(charQueue, y) \/ charQueue' = charQueue
    BY <2>1 DEF Enqueue
  <2>4. /\ hurt \subseteq hurt' /\ noisy \subseteq noisy'
        /\ Owed(OnLine, hurt', noisy')
    <3>1. CASE line # << >> /\ Head(line).n > 1
      <4>1. hurt' = hurt \cup {Head(line).k} /\ noisy' = noisy
        BY <1>6, <3>1 DEF LineNoise
      <4>2. OnLine = Head(line) /\ OnLine.n # 1
        BY <3>1, LineFacts DEF OnLine, NextOf, OrderInv
      <4> QED
        BY <4>1, <4>2 DEF Owed
    <3>2. CASE ~(line # << >> /\ Head(line).n > 1)
      <4>1. hurt' = hurt /\ noisy' = noisy \cup {NextFrame}
        BY <1>6, <3>2 DEF LineNoise
      <4>2. OnLine.k = NextFrame
        BY DEF OnLine, NextOf, NextFrame, Start
      <4> QED
        BY <4>1, <4>2 DEF Owed
    <3> QED
      BY <3>1, <3>2
  <2>5. OnLine' = OnLine
    BY <2>1 DEF OnLine
  <2>6. /\ QueueOwed(charQueue, OnLine, hurt, noisy)
        /\ rx.esc => Owed(NextOf(charQueue, OnLine), hurt, noisy)
        /\ charQueue \in Seq(LineChar)
    BY DEF OrderInv, EscOwed, Upcoming, LinkShape, TypeOK
  <2>7. Owed(y, hurt', noisy')
    BY <2>2 DEF Owed
  <2>8. /\ QueueOwed(charQueue', OnLine, hurt', noisy')
        /\ rx.esc => Owed(NextOf(charQueue', OnLine), hurt', noisy')
    <3>1. CASE charQueue' = charQueue
      BY <2>4, <2>6, <3>1, QueueOwedMore
    <3>2. CASE charQueue' = Append(charQueue, y)
      <4>1. /\ QueueOwed(charQueue, y, hurt', noisy')
            /\ rx.esc => Owed(NextOf(charQueue, y), hurt', noisy')
        BY <2>4, <2>6, <2>7, QueueOwedMore
      <4>2. /\ QueueOwed(Append(charQueue, y), OnLine, hurt', noisy')
            /\ NextOf(Append(charQueue, y), OnLine) = NextOf(charQueue, y)
        BY <2>2, <2>4, <2>6, <4>1, QueueOwedAppend
      <4> QED
        BY <3>2, <4>1, <4>2
    <3> QED
      BY <2>3, <3>1, <3>2
  <2>9. LinePassed(line, Start(Len(sent) + 1), hurt)'
    <3> DEFINE s == Start(Len(sent) + 1)
    <3>1. LinePassed(line, s, hurt) /\ s' = s /\ line' = line
      BY <2>1 DEF OrderInv
    <3> HIDE DEF s
    <3>2. \A x : Passed(x, s, hurt) => Passed(x, s, hurt')
      BY <2>4 DEF Passed
    <3>3. LinePassed(line, s, hurt')
      BY <2>4, <3>1, <3>2, LinePassedMore
    <3> QED
      BY <3>1, <3>3 DEF s
  <2>10. EscOwed' /\ QueueOwed(charQueue, OnLine, hurt, noisy)'
    BY <2>1, <2>5, <2>8 DEF EscOwed, Upcoming
  <2> QED
    BY <1>1, <1>2, <2>1, <2>4, <2>9, <2>10 DEF OrderInv
<1>7. CASE recv_packet
  <2> DEFINE x == Head(charQueue)
  <2>1. /\ charQueue # << >> /\ charQueue' = Tail(charQueue)
        /\ rx' = Received(rx, x, BUF_SIZE)
        /\ cut' = IF rx.esc /\ x.n = 1 THEN cut \cup {x.k} ELSE cut
        /\ UNCHANGED <<sent, line, hurt, noisy, faults>>
    BY <1>7 DEF recv_packet
  <2>2. charQueue \in Seq(LineChar) /\ x \in LineChar
    BY <2>1 DEF OrderInv, LinkShape, TypeOK
  <2>3. Upcoming = x /\ OnLine' = OnLine
    BY <2>1 DEF Upcoming, OnLine, NextOf
  <2>4. /\ QueueOwed(Tail(charQueue), OnLine, hurt, noisy)
        /\ x.c = ESC => Owed(NextOf(Tail(charQueue), OnLine), hurt, noisy)
    BY <2>1, <2>2, QueueOwedTail DEF OrderInv
  <2> HIDE DEF x
  <2>5. rx'.esc => x.c = ESC
    BY <2>1, <2>2, ReceivedFacts DEF OrderInv, LinkShape
  <2>6. EscOwed'
    BY <2>1, <2>3, <2>4, <2>5 DEF EscOwed, Upcoming
  <2>7. ResyncWithinOneFrame'
    <3>1. rx.esc /\ x.n = 1 => (x.k - 1) \in hurt \/ x.k \in noisy
      BY <2>3 DEF OrderInv, EscOwed, Owed
    <3> QED
      BY <2>1, <3>1 DEF OrderInv, ResyncWithinOneFrame
  <2>8. LinePassed(line, Start(Len(sent) + 1), hurt)'
    BY <2>1 DEF OrderInv
  <2>9. QueueOwed(charQueue, OnLine, hurt, noisy)'
    BY <2>1, <2>3, <2>4
  <2> QED
    BY <1>1, <2>6, <2>7, <2>8, <2>9 DEF OrderInv
<1>8. CASE UNCHANGED vars
  <2>1. UNCHANGED <<sent, line, charQueue, rx, hurt, noisy, cut>>
    BY <1>8 DEF vars
  <2>2. OnLine' = OnLine /\ Upcoming' = Upcoming
    BY <2>1 DEF OnLine, Upcoming
  <2> QED
    BY <1>1, <1>2, <2>1, <2>2 DEF OrderInv, EscOwed
<1> QED
  BY <1>3, <1>4, <1>5, <1>6, <1>7, <1>8 DEF Next

(***************************************************************************)
(* A frame loses its first END to a pending ESC only when the packet just  *)
(* before it was damaged or noise came between the two, for every set of   *)
(* packets, every noise and every size of the buffers on the way.          *)
(***************************************************************************)
THEOREM DamageEndsAtOneFrame == Spec => []ResyncWithinOneFrame
<1>1. Init => OrderInv
  BY OrderInit
<1>2. OrderInv /\ [Next]_vars => OrderInv'
  BY OrderStep
<1>3. OrderInv => ResyncWithinOneFrame
  BY DEF OrderInv
<1> QED
  BY <1>1, <1>2, <1>3, PTL DEF Spec
-----------------------------------------------------------------------------
(***************************************************************************)
(* The line while nothing was lost, added or misread.  Every character is  *)
(* the one its packet's frame has at its place, neighbours are neighbours  *)
(* in their frame or the end and the beginning of two successive frames,   *)
(* and recv_packet has stored what lies before the character it gets next. *)
(***************************************************************************)
Clean == hurt = {} /\ noisy = {}

Genuine(x, s) == /\ x.k \in DOMAIN s /\ x.n \in 1 .. FrameEnd(s[x.k])
                 /\ x.c = Frame(s[x.k])[x.n]

Succeeds(z, x, s) == IF x.n < FrameEnd(s[x.k])
                     THEN z.k = x.k /\ z.n = x.n + 1
                     ELSE z.k = x.k + 1 /\ z.n = 1

InStep(l, t, s) ==
  \A j \in DOMAIN l : Genuine(l[j], s) /\ Succeeds(Follow(l, t, j), l[j], s)

\* r has stored the first i bytes of packet k and nothing else.
Stored(r, k, i, s) ==
  /\ Len(r.buf) = i
  /\ \A j \in 1 .. i : r.buf[j].k = k /\ r.buf[j].c = s[k][j]

\* recv_packet is between two frames, in front of byte i, or behind its ESC.
Between(z, r) == z.n = 1 /\ r = Idle
AtByte(z, i, s, r) ==
  z.n = Place(s[z.k], i) /\ r.esc = FALSE /\ Stored(r, z.k, i - 1, s)
AtEscaped(z, i, s, r) ==
  /\ z.n = Place(s[z.k], i) + 1 /\ r.esc = TRUE /\ Special(s[z.k][i])
  /\ Stored(r, z.k, i - 1, s)

RxAt(z, s, r) ==
  \/ Between(z, r)
  \/ /\ z.k \in DOMAIN s
     /\ \/ \E i \in 1 .. Len(s[z.k]) + 1 : AtByte(z, i, s, r)
        \/ \E i \in DOMAIN s[z.k] : AtEscaped(z, i, s, r)

AllPackets == \A k \in DOMAIN out : IsPacket(out[k], k)

CleanParts == /\ InStep(line, Start(Len(sent) + 1), sent)
              /\ InStep(charQueue, OnLine, sent)
              /\ Len(out) = Upcoming.k - 1
              /\ RxAt(Upcoming, sent, rx)
              /\ AllPackets

CleanInv == LinkShape /\ (Clean => CleanParts)

LEMMA InStepTail ==
  ASSUME NEW l \in Seq(LineChar), l # << >>, NEW t, NEW s, InStep(l, t, s)
  PROVE  /\ InStep(Tail(l), t, s) /\ NextOf(l, t) = Head(l)
         /\ Genuine(Head(l), s) /\ Succeeds(NextOf(Tail(l), t), Head(l), s)
<1>1. TailFollows(l, t)
  BY FollowTail
<1> QED
  BY <1>1 DEF TailFollows, InStep

LEMMA InStepAppend ==
  ASSUME NEW q \in Seq(LineChar), NEW x \in LineChar, NEW t, NEW s,
         InStep(q, x, s), Genuine(x, s), Succeeds(t, x, s)
  PROVE  InStep(Append(q, x), t, s) /\ NextOf(Append(q, x), t) = NextOf(q, x)
<1>1. NextOf(Append(q, x), t) = NextOf(q, x)
  BY NextAppend
<1>2. /\ DOMAIN Append(q, x) = DOMAIN q \cup {Len(q) + 1}
      /\ Append(q, x)[Len(q) + 1] = x
      /\ \A j \in DOMAIN q : Append(q, x)[j] = q[j]
  OBVIOUS
<1>3. Follow(Append(q, x), t, Len(q) + 1) = t
  BY DEF Follow
<1>4. ASSUME NEW j \in DOMAIN q PROVE Follow(Append(q, x), t, j) = Follow(q, x, j)
  BY DEF Follow
<1> QED
  BY <1>1, <1>2, <1>3, <1>4 DEF InStep

LEMMA InStepConcat ==
  ASSUME NEW l \in Seq(LineChar), NEW u \in Seq(LineChar), u # << >>, NEW t, NEW s,
         InStep(l, u[1], s), InStep(u, t, s)
  PROVE  InStep(l \o u, t, s) /\ NextOf(l \o u, t) = NextOf(l, u[1])
<1>1. ConcatFollows(l, u, t)
  BY FollowConcat
<1> DEFINE Ok(j) == /\ Genuine((l \o u)[j], s)
                    /\ Succeeds(Follow(l \o u, t, j), (l \o u)[j], s)
<1>2. \A j \in DOMAIN l : Ok(j)
  BY <1>1 DEF InStep, ConcatFollows
<1>3. \A j \in DOMAIN (l \o u) \ DOMAIN l : Ok(j)
  BY <1>1 DEF InStep, ConcatFollows
<1>4. NextOf(l \o u, t) = NextOf(l, u[1])
  BY <1>1 DEF ConcatFollows
<1> QED
  BY <1>2, <1>3, <1>4 DEF InStep

\* A packet more does not change what is said of those before it.
LEMMA InStepMore ==
  ASSUME NEW s \in Seq(Packet), NEW p \in Packet, NEW l, NEW t, InStep(l, t, s)
  PROVE  InStep(l, t, Append(s, p))
<1>1. \A k \in DOMAIN s : k \in DOMAIN Append(s, p) /\ Append(s, p)[k] = s[k]
  OBVIOUS
<1> QED
  BY <1>1 DEF InStep, Genuine, Succeeds

LEMMA RxAtMore ==
  ASSUME NEW s \in Seq(Packet), NEW p \in Packet, NEW z, NEW r, RxAt(z, s, r)
  PROVE  RxAt(z, Append(s, p), r)
<1> DEFINE a == Append(s, p)
<1>1. \A k \in DOMAIN s : k \in DOMAIN a /\ a[k] = s[k]
  OBVIOUS
<1> HIDE DEF a
<1>2. \A k \in DOMAIN s : \A i : Stored(r, k, i, s) => Stored(r, k, i, a)
  BY <1>1 DEF Stored
<1>3. z.k \in DOMAIN s => \A i : AtByte(z, i, s, r) => AtByte(z, i, a, r)
  BY <1>1, <1>2 DEF AtByte
<1>4. z.k \in DOMAIN s => \A i : AtEscaped(z, i, s, r) => AtEscaped(z, i, a, r)
  BY <1>1, <1>2 DEF AtEscaped
<1>5. RxAt(z, a, r)
  BY <1>1, <1>3, <1>4 DEF RxAt
<1> QED
  BY <1>5 DEF a

\* Byte i of packet k is stored behind those before it, and there is room.
LEMMA StoreByte ==
  ASSUME TypeOK, NEW k \in DOMAIN sent, NEW i \in DOMAIN sent[k],
         Stored(rx, k, i - 1, sent),
         NEW y \in LineChar, y.k = k, y.c = sent[k][i]
  PROVE  /\ Stored(Store(rx, y, BUF_SIZE), k, i, sent)
         /\ Store(rx, y, BUF_SIZE).esc = FALSE
<1> DEFINE b == rx.buf
           a == Append(b, y)
<1>1. sent[k] \in Packet
  BY DEF TypeOK
<1>2. /\ sent[k] \in Seq(Char) /\ Len(sent[k]) <= BUF_SIZE
      /\ i \in 1 .. Len(sent[k]) /\ Len(sent[k]) \in Nat
  BY <1>1, PacketFacts
<1>3. b \in Seq(LineChar)
  BY DEF TypeOK
<1>4. Len(b) = i - 1 /\ \A j \in 1 .. i - 1 : b[j].k = k /\ b[j].c = sent[k][j]
  BY DEF Stored
<1>5. Len(b) < BUF_SIZE
  BY <1>2, <1>4, BoundFacts
<1>6. Store(rx, y, BUF_SIZE).buf = a /\ Store(rx, y, BUF_SIZE).esc = FALSE
  BY <1>5 DEF Store, Receiving
<1>7. Len(a) = i /\ a[i] = y /\ \A j \in 1 .. i - 1 : a[j] = b[j]
  BY <1>2, <1>3, <1>4
<1> HIDE DEF a, b
<1>8. ASSUME NEW j \in 1 .. i PROVE a[j].k = k /\ a[j].c = sent[k][j]
  <2>1. CASE j = i
    BY <1>7, <2>1
  <2>2. CASE j # i
    <3>1. j \in 1 .. i - 1
      BY <1>2, <2>2
    <3> QED
      BY <1>4, <1>7, <3>1
  <2> QED
    BY <2>1, <2>2
<1> QED
  BY <1>6, <1>7, <1>8 DEF Stored

\* One character of recv_packet on a clean line.
LEMMA RxStep ==
  ASSUME TypeOK, NEW x \in LineChar, NEW z,
         Genuine(x, sent), Succeeds(z, x, sent), RxAt(x, sent, rx),
         Len(out) = x.k - 1, AllPackets,
         rx' = Received(rx, x, BUF_SIZE),
         out' = IF Completes(rx, x) THEN Append(out, rx.buf) ELSE out,
         sent' = sent
  PROVE  RxAt(z, sent, rx') /\ Len(out') = z.k - 1 /\ AllPackets'
<1> DEFINE p == sent[x.k]
<1>1. /\ x.k \in DOMAIN sent /\ x.n \in 1 .. FrameEnd(p) /\ x.c = Frame(p)[x.n]
  BY DEF Genuine
<1>2. p \in Packet /\ x.k \in Nat
  BY <1>1 DEF TypeOK
<1>3. p \in Seq(Char) /\ p # << >> /\ Len(p) \in Nat \ {0} /\ DOMAIN p = 1 .. Len(p)
  BY <1>2, PacketFacts
<1>4. /\ FrameEnd(p) \in Nat /\ Len(p) + 2 <= FrameEnd(p)
      /\ Frame(p)[1] = END /\ Frame(p)[FrameEnd(p)] = END
  BY <1>3, FrameFacts
<1>5. /\ x.n < FrameEnd(p) => z.k = x.k /\ z.n = x.n + 1
      /\ ~(x.n < FrameEnd(p)) => z.k = x.k + 1 /\ z.n = 1
  BY DEF Succeeds
<1>6. Idle.buf = << >> /\ Idle.esc = FALSE
  BY DEF Idle, Receiving
<1> HIDE DEF p
<1>7. ASSUME ~Completes(rx, x), z.k = x.k
      PROVE  Len(out') = z.k - 1 /\ AllPackets'
  <2>1. out' = out
    BY <1>7
  <2> QED
    BY <1>7, <2>1 DEF AllPackets, IsPacket
<1>8. ASSUME NEW i \in DOMAIN p, z.k = x.k, z.n = Place(p, i + 1),
             Stored(rx', x.k, i, sent), rx'.esc = FALSE
      PROVE  RxAt(z, sent, rx')
  <2>1. i + 1 \in 1 .. Len(p) + 1 /\ i + 1 - 1 = i
    BY <1>3
  <2>2. AtByte(z, i + 1, sent, rx')
    <3>1. Stored(rx', z.k, i + 1 - 1, sent)
      BY <1>8, <2>1
    <3> QED
      BY <1>8, <3>1 DEF AtByte, p
  <2> QED
    BY <1>1, <1>8, <2>1, <2>2 DEF RxAt, p
<1>9. CASE Between(x, rx)
  <2>1. x.n = 1 /\ rx.buf = << >> /\ rx.esc = FALSE
    BY <1>6, <1>9 DEF Between
  <2>2. x.c = END /\ x.c # ESC
    BY <1>1, <1>4, <2>1 DEF END, ESC
  <2>3. rx' = Idle
    BY <2>1, <2>2 DEF Received
  <2>4. ~Completes(rx, x)
    BY <2>1 DEF Completes
  <2>5. z.k = x.k /\ z.n = 2
    BY <1>3, <1>4, <1>5, <2>1
  <2>6. AtByte(z, 1, sent, rx')
    <3>1. Place(p, 1) = 2
      BY PlaceStep, 1 \in Nat \ {0}
    <3>2. Stored(rx', z.k, 1 - 1, sent)
      BY <1>6, <2>3 DEF Stored
    <3> QED
      BY <1>6, <2>3, <2>5, <3>1, <3>2 DEF AtByte, p
  <2>7. RxAt(z, sent, rx')
    <3>1. 1 \in 1 .. Len(p) + 1
      BY <1>3
    <3> QED
      BY <1>1, <2>5, <2>6, <3>1 DEF RxAt, p
  <2> QED
    BY <1>7, <2>4, <2>5, <2>7
<1>10. ASSUME NEW i \in DOMAIN p, AtByte(x, i, sent, rx)
       PROVE  RxAt(z, sent, rx') /\ Len(out') = z.k - 1 /\ AllPackets'
  <2>1. /\ x.n = Place(p, i) /\ rx.esc = FALSE /\ Stored(rx, x.k, i - 1, sent)
    BY <1>10 DEF AtByte, p
  <2>2. Place(p, i) \in 2 .. FrameEnd(p) - 1
    BY <1>3, FrameByte
  <2>3. z.k = x.k /\ z.n = Place(p, i) + 1
    BY <1>4, <1>5, <2>1, <2>2
  <2>4. CASE Special(p[i])
    <3>1. x.c = ESC
      BY <1>1, <1>3, <2>1, <2>4, FrameByte
    <3>2. rx' = Receiving(rx.buf, TRUE)
      <4>1. ~rx.esc /\ x.c = ESC /\ x.c # END
        BY <2>1, <3>1 DEF END, ESC
      <4> QED
        BY <4>1 DEF Received
    <3>3. rx'.buf = rx.buf /\ rx'.esc = TRUE
      BY <3>2 DEF Receiving
    <3>4. AtEscaped(z, i, sent, rx')
      BY <2>1, <2>3, <2>4, <3>3 DEF AtEscaped, Stored, p
    <3>5. RxAt(z, sent, rx')
      BY <1>1, <2>3, <3>4 DEF RxAt, p
    <3>6. ~Completes(rx, x)
      BY <3>1 DEF Completes, END, ESC
    <3> QED
      BY <1>7, <2>3, <3>5, <3>6
  <2>5. CASE ~Special(p[i])
    <3>1. x.c = p[i] /\ Place(p, i + 1) = Place(p, i) + 1
      BY <1>1, <1>3, <2>1, <2>5, FrameByte
    <3>2. x.c # END /\ x.c # ESC
      BY <2>5, <3>1 DEF Special
    <3>3. rx' = Store(rx, x, BUF_SIZE)
      BY <2>1, <3>2 DEF Received
    <3>4. Stored(rx', x.k, i, sent) /\ rx'.esc = FALSE
      BY <1>1, <2>1, <3>1, <3>3, StoreByte DEF p
    <3>5. RxAt(z, sent, rx')
      BY <1>8, <2>3, <3>1, <3>4
    <3>6. ~Completes(rx, x)
      BY <3>2 DEF Completes
    <3> QED
      BY <1>7, <2>3, <3>5, <3>6
  <2> QED
    BY <2>4, <2>5
<1>11. ASSUME AtByte(x, Len(p) + 1, sent, rx)
       PROVE  RxAt(z, sent, rx') /\ Len(out') = z.k - 1 /\ AllPackets'
  <2>1. /\ x.n = FrameEnd(p) /\ rx.esc = FALSE /\ Stored(rx, x.k, Len(p), sent)
    <3>1. Len(p) + 1 - 1 = Len(p)
      BY <1>3
    <3> QED
      BY <1>11, <3>1 DEF AtByte, FrameEnd, p
  <2>2. x.c = END /\ x.c # ESC
    BY <1>1, <1>4, <2>1 DEF END, ESC
  <2>3. rx' = Idle
    BY <2>1, <2>2 DEF Received
  <2>4. z.k = x.k + 1 /\ z.n = 1
    BY <1>4, <1>5, <2>1
  <2>5. RxAt(z, sent, rx')
    BY <2>3, <2>4 DEF RxAt, Between
  <2>6. rx.buf \in Seq(LineChar) /\ Len(rx.buf) = Len(p)
    BY <2>1 DEF TypeOK, Stored
  <2>7. Completes(rx, x)
    BY <1>3, <2>1, <2>2, <2>6 DEF Completes
  <2>8. out' = Append(out, rx.buf) /\ out \in Seq(Seq(LineChar))
    BY <2>7 DEF TypeOK
  <2>9. /\ Len(out') = x.k /\ DOMAIN out' = DOMAIN out \cup {x.k}
        /\ out'[x.k] = rx.buf /\ \A m \in DOMAIN out : out'[m] = out[m]
    BY <1>2, <2>6, <2>8
  <2>10. IsPacket(rx.buf, x.k)
    <3>1. DOMAIN rx.buf = 1 .. Len(p)
      BY <2>6
    <3>2. \A i \in 1 .. Len(p) : rx.buf[i].k = x.k /\ rx.buf[i].c = p[i]
      BY <2>1 DEF Stored, p
    <3>3. [i \in 1 .. Len(p) |-> rx.buf[i].c] = p
      <4>1. p = [i \in 1 .. Len(p) |-> p[i]]
        BY <1>3
      <4> QED
        BY <3>2, <4>1
    <3> QED
      BY <3>1, <3>2, <3>3 DEF IsPacket, p
  <2>11. AllPackets'
    <3>1. ASSUME NEW m \in DOMAIN out' PROVE IsPacket(out[m], m)'
      <4>1. CASE m = x.k
        BY <2>9, <2>10, <4>1 DEF IsPacket
      <4>2. CASE m # x.k
        <5>1. m \in DOMAIN out /\ out'[m] = out[m]
          BY <2>9, <4>2
        <5> QED
          BY <5>1 DEF AllPackets, IsPacket
      <4> QED
        BY <4>1, <4>2
    <3> QED
      BY <3>1 DEF AllPackets
  <2>12. Len(out') = z.k - 1
    BY <1>2, <2>4, <2>9
  <2> QED
    BY <2>5, <2>11, <2>12
<1>12. ASSUME NEW i \in DOMAIN p, AtEscaped(x, i, sent, rx)
       PROVE  RxAt(z, sent, rx') /\ Len(out') = z.k - 1 /\ AllPackets'
  <2>1. /\ x.n = Place(p, i) + 1 /\ rx.esc = TRUE /\ Special(p[i])
        /\ Stored(rx, x.k, i - 1, sent)
    BY <1>12 DEF AtEscaped, p
  <2>2. /\ Place(p, i) \in Nat /\ x.n \in 2 .. FrameEnd(p) - 1
        /\ Unstuff(x.c) = p[i] /\ Place(p, i + 1) = Place(p, i) + 2
    <3>1. /\ Place(p, i) \in 2 .. FrameEnd(p) - 1
          /\ Place(p, i) + 1 \in 2 .. FrameEnd(p) - 1
          /\ Unstuff(Frame(p)[Place(p, i) + 1]) = p[i]
          /\ Place(p, i + 1) = Place(p, i) + 2
      BY <1>3, <2>1, FrameByte
    <3> QED
      BY <1>1, <2>1, <3>1
  <2>3. z.k = x.k /\ z.n = Place(p, i + 1)
    <3>1. x.n < FrameEnd(p) /\ x.n + 1 = Place(p, i + 1)
      BY <1>4, <2>1, <2>2
    <3> QED
      BY <1>5, <3>1
  <2> DEFINE y == [x EXCEPT !.c = Unstuff(x.c)]
  <2>4. rx' = Store(rx, y, BUF_SIZE)
    BY <2>1 DEF Received
  <2>5. y \in LineChar /\ y.k = x.k /\ y.c = p[i]
    <3>1. p[i] \in Char
      BY <1>3
    <3> QED
      BY <2>2, <3>1 DEF LineChar
  <2> HIDE DEF y
  <2>6. Stored(rx', x.k, i, sent) /\ rx'.esc = FALSE
    BY <1>1, <2>1, <2>4, <2>5, StoreByte DEF p
  <2>7. RxAt(z, sent, rx')
    BY <1>8, <2>3, <2>6
  <2>8. ~Completes(rx, x)
    BY <2>1 DEF Completes
  <2> QED
    BY <1>7, <2>3, <2>7, <2>8
<1>13. \/ Between(x, rx)
       \/ \E i \in 1 .. Len(p) + 1 : AtByte(x, i, sent, rx)
       \/ \E i \in DOMAIN p : AtEscaped(x, i, sent, rx)
  BY DEF RxAt, p
<1>14. \A i \in 1 .. Len(p) + 1 : i \in DOMAIN p \/ i = Len(p) + 1
  BY <1>3
<1> QED
  BY <1>9, <1>10, <1>11, <1>12, <1>13, <1>14

\* recv_packet is never ahead of send_packet.
LEMMA UpcomingFacts ==
  ASSUME TypeOK, CleanParts
  PROVE  Upcoming.k \in 1 .. Len(sent) + 1 /\ Len(out) <= Len(sent)
<1>1. Len(sent) \in Nat /\ line \in Seq(LineChar) /\ charQueue \in Seq(LineChar)
  BY DEF TypeOK
<1>2. /\ \A j \in DOMAIN line : line[j].k \in DOMAIN sent
      /\ \A j \in DOMAIN charQueue : charQueue[j].k \in DOMAIN sent
  BY DEF CleanParts, InStep, Genuine
<1>3. DOMAIN sent = 1 .. Len(sent)
  BY DEF TypeOK
<1>4. OnLine.k \in 1 .. Len(sent) + 1
  <2>1. CASE line = << >>
    BY <1>1, <2>1 DEF OnLine, NextOf, Start
  <2>2. CASE line # << >>
    <3>1. OnLine = line[1] /\ 1 \in DOMAIN line
      BY <1>1, <2>2 DEF OnLine, NextOf
    <3> QED
      BY <1>1, <1>2, <1>3, <3>1
  <2> QED
    BY <2>1, <2>2
<1>5. Upcoming.k \in 1 .. Len(sent) + 1
  <2>1. CASE charQueue = << >>
    BY <1>4, <2>1 DEF Upcoming, NextOf
  <2>2. CASE charQueue # << >>
    <3>1. Upcoming = charQueue[1] /\ 1 \in DOMAIN charQueue
      BY <1>1, <2>2 DEF Upcoming, NextOf
    <3> QED
      BY <1>1, <1>2, <1>3, <3>1
  <2> QED
    BY <2>1, <2>2
<1>6. Len(out) = Upcoming.k - 1
  BY DEF CleanParts
<1> QED
  BY <1>1, <1>5, <1>6

LEMMA CleanInit == Init => CleanInv
<1> SUFFICES ASSUME Init PROVE CleanInv
  OBVIOUS
<1>1. LinkShape
  BY LinkShapeInit
<1>2. /\ sent = << >> /\ line = << >> /\ charQueue = << >> /\ out = << >>
      /\ rx = Idle
  BY DEF Init
<1>3. Len(<< >>) = 0 /\ DOMAIN << >> = {}
  OBVIOUS
<1>4. Upcoming.k = 1 /\ Upcoming.n = 1
  BY <1>2, <1>3 DEF Upcoming, OnLine, NextOf, Start
<1>5. InStep(line, Start(Len(sent) + 1), sent) /\ InStep(charQueue, OnLine, sent)
  BY <1>2 DEF InStep
<1>6. Len(out) = Upcoming.k - 1
  BY <1>2, <1>3, <1>4
<1>7. RxAt(Upcoming, sent, rx) /\ AllPackets
  BY <1>2, <1>4 DEF RxAt, Between, AllPackets
<1> QED
  BY <1>1, <1>5, <1>6, <1>7 DEF CleanInv, CleanParts

\* send_packet on a clean line puts the whole frame behind the last one.
LEMMA CleanSend ==
  ASSUME LinkShape, CleanParts, Clean', NEW p \in Packet, send_packet(p)
  PROVE  CleanParts'
<1> DEFINE k == Len(sent) + 1
           u == Buffered(p, k)
           t == Start(k + 1)
<1>1. /\ k \in 1 .. MaxSent /\ Len(sent') = k /\ sent' = Append(sent, p)
      /\ Len(sent) \in Nat
      /\ \/ /\ line' = line \o u
            /\ hurt' = IF FrameEnd(p) <= TX_MAX_NUM THEN hurt ELSE hurt \cup {k}
         \/ line' = line /\ hurt' = hurt \cup {k}
      /\ UNCHANGED <<charQueue, rx, out>>
  BY SendFacts DEF LinkShape
<1>2. line' = line \o u /\ FrameEnd(p) <= TX_MAX_NUM
  BY <1>1 DEF Clean
<1>3. /\ u \in Seq(LineChar) /\ Len(u) = FrameEnd(p)
      /\ \A j \in DOMAIN u : u[j] = [c |-> Frame(p)[j], k |-> k, n |-> j]
  BY <1>1, <1>2, BufferedFacts
<1>4. FrameEnd(p) \in Nat \ {0} /\ Frame(p)[1] = END
  BY PacketFacts, FrameFacts
<1>5. k \in DOMAIN sent' /\ sent'[k] = p /\ sent \in Seq(Packet) /\ line \in Seq(LineChar)
  BY <1>1 DEF LinkShape, TypeOK
<1>6. Start(Len(sent) + 1)' = t /\ t.k = k + 1 /\ t.n = 1
  BY <1>1 DEF Start
<1>7. OnLine = NextOf(line, Start(k)) /\ OnLine' = NextOf(line', t)
  BY <1>1 DEF OnLine
<1>8. InStep(line, Start(k), sent)
  BY DEF CleanParts
<1> HIDE DEF k, u, t
<1>9. u # << >> /\ DOMAIN u = 1 .. FrameEnd(p) /\ u[1] = Start(k)
  <2>1. DOMAIN u = 1 .. FrameEnd(p) /\ u # << >>
    BY <1>3, <1>4
  <2>2. 1 \in DOMAIN u
    BY <1>4, <2>1
  <2> QED
    BY <1>3, <1>4, <2>1, <2>2 DEF Start
<1>10. ASSUME NEW j \in DOMAIN u
       PROVE  Genuine(u[j], sent') /\ Succeeds(Follow(u, t, j), u[j], sent')
  <2>1. u[j].k = k /\ u[j].n = j /\ u[j].c = Frame(p)[j] /\ j \in 1 .. FrameEnd(p)
    BY <1>3, <1>9
  <2>2. Genuine(u[j], sent')
    BY <1>5, <2>1 DEF Genuine
  <2>3. CASE j < FrameEnd(p)
    <3>1. Follow(u, t, j) = u[j + 1] /\ j + 1 \in DOMAIN u
      BY <1>3, <1>4, <1>9, <2>1, <2>3 DEF Follow
    <3>2. Follow(u, t, j).k = k /\ Follow(u, t, j).n = j + 1
      BY <1>3, <3>1
    <3> QED
      BY <1>5, <2>1, <2>2, <2>3, <3>2 DEF Succeeds
  <2>4. CASE ~(j < FrameEnd(p))
    <3>1. Follow(u, t, j) = t
      BY <1>3, <2>4 DEF Follow
    <3> QED
      BY <1>5, <1>6, <2>1, <2>2, <2>4, <3>1 DEF Succeeds
  <2> QED
    BY <2>3, <2>4
<1>11. InStep(u, t, sent')
  BY <1>10 DEF InStep
<1>12. InStep(line, u[1], sent')
  BY <1>1, <1>5, <1>8, <1>9, InStepMore
<1>13. InStep(line \o u, t, sent') /\ NextOf(line \o u, t) = NextOf(line, u[1])
  BY <1>3, <1>5, <1>9, <1>11, <1>12, InStepConcat
<1>14. OnLine' = OnLine /\ Upcoming' = Upcoming
  BY <1>1, <1>2, <1>7, <1>9, <1>13 DEF Upcoming
<1>15. InStep(charQueue, OnLine, sent') /\ RxAt(Upcoming, sent', rx)
  BY <1>1, <1>5, InStepMore, RxAtMore DEF CleanParts
<1>16. AllPackets'
  <2>1. Len(out) <= Len(sent) /\ out \in Seq(Seq(LineChar))
    BY UpcomingFacts DEF LinkShape, TypeOK
  <2>2. \A m \in DOMAIN out : m \in DOMAIN sent
    BY <1>1, <1>5, <2>1
  <2>3. \A m \in DOMAIN sent : sent'[m] = sent[m]
    BY <1>1, <1>5
  <2> QED
    BY <1>1, <2>2, <2>3 DEF CleanParts, AllPackets, IsPacket
<1>17. InStep(line, Start(Len(sent) + 1), sent)'
  BY <1>2, <1>6, <1>13
<1> QED
  BY <1>1, <1>14, <1>15, <1>16, <1>17 DEF CleanParts

LEMMA CleanStep ==
  ASSUME CleanInv, [Next]_vars
  PROVE  CleanInv'
<1>1. LinkShape /\ LinkShape'
  BY LinkShapeStep DEF CleanInv
<1> SUFFICES ASSUME Clean' PROVE CleanParts'
  BY <1>1 DEF CleanInv
<1>2. ASSUME hurt \subseteq hurt', noisy \subseteq noisy' PROVE CleanParts
  BY <1>2 DEF Clean, CleanInv
<1>3. ASSUME NEW p \in Packet, send_packet(p) PROVE CleanParts'
  <2>1. hurt \subseteq hurt' /\ noisy' = noisy
    BY <1>1, <1>3, SendFacts DEF LinkShape
  <2> QED
    BY <1>1, <1>2, <1>3, <2>1, CleanSend
<1>4. CASE uart2_irq_handler
  <2> DEFINE s == Start(Len(sent) + 1)
             x == Head(line)
             z == NextOf(Tail(line), s)
  <2>1. /\ line # << >> /\ line' = Tail(line) /\ UNCHANGED <<sent, rx, out, noisy>>
        /\ \/ charQueue' = Append(charQueue, x) /\ hurt' = hurt
           \/ hurt' = hurt \cup {x.k}
    BY <1>4 DEF uart2_irq_handler, Enqueue
  <2>2. charQueue' = Append(charQueue, x) /\ hurt' = hurt
    BY <2>1 DEF Clean
  <2>3. CleanParts
    BY <1>2, <2>1, <2>2
  <2>4. line \in Seq(LineChar) /\ charQueue \in Seq(LineChar) /\ x \in LineChar
    BY <1>1, <2>1, LineFacts DEF LinkShape, TypeOK
  <2>5. /\ InStep(Tail(line), s, sent) /\ OnLine = x
        /\ Genuine(x, sent) /\ Succeeds(z, x, sent)
    BY <2>1, <2>3, <2>4, InStepTail DEF CleanParts, OnLine
  <2>6. InStep(charQueue, x, sent) /\ Upcoming = NextOf(charQueue, x)
    BY <2>3, <2>5 DEF CleanParts, Upcoming
  <2>7. OnLine' = z /\ s' = s
    BY <2>1 DEF OnLine
  <2> HIDE DEF s, x, z
  <2>8. /\ InStep(Append(charQueue, x), z, sent)
        /\ NextOf(Append(charQueue, x), z) = NextOf(charQueue, x)
    BY <2>4, <2>5, <2>6, InStepAppend
  <2>9. Upcoming' = Upcoming
    BY <2>2, <2>6, <2>7, <2>8 DEF Upcoming
  <2>10. AllPackets'
    BY <2>1, <2>3 DEF CleanParts, AllPackets, IsPacket
  <2>11. InStep(line, Start(Len(sent) + 1), sent)'
    BY <2>1, <2>5, <2>7 DEF s
  <2>12. InStep(charQueue, OnLine, sent)'
    BY <2>1, <2>2, <2>7, <2>8
  <2> QED
    BY <2>1, <2>3, <2>9, <2>10, <2>11, <2>12 DEF CleanParts
<1>5. CASE LineLoss
  BY <1>5 DEF LineLoss, Clean
<1>6. ASSUME NEW c \in Noise, LineNoise(c) PROVE CleanParts'
  <2>1. hurt' # {} \/ noisy' # {}
    BY <1>6 DEF LineNoise
  <2> QED
    BY <2>1 DEF Clean
<1>7. CASE recv_packet
  <2> DEFINE x == Head(charQueue)
             z == NextOf(Tail(charQueue), OnLine)
  <2>1. /\ charQueue # << >> /\ charQueue' = Tail(charQueue)
        /\ rx' = Received(rx, x, BUF_SIZE)
        /\ out' = IF Completes(rx, x) THEN Append(out, rx.buf) ELSE out
        /\ UNCHANGED <<sent, line, hurt, noisy>>
    BY <1>7 DEF recv_packet
  <2>2. CleanParts
    BY <1>2, <2>1
  <2>3. TypeOK /\ charQueue \in Seq(LineChar) /\ x \in LineChar
    BY <1>1, <2>1 DEF LinkShape, TypeOK
  <2>4. /\ InStep(Tail(charQueue), OnLine, sent) /\ Upcoming = x
        /\ Genuine(x, sent) /\ Succeeds(z, x, sent)
    BY <2>1, <2>2, <2>3, InStepTail DEF CleanParts, Upcoming
  <2>5. OnLine' = OnLine /\ Upcoming' = z
    BY <2>1 DEF OnLine, Upcoming
  <2> HIDE DEF x, z
  <2>6. RxAt(x, sent, rx) /\ Len(out) = x.k - 1 /\ AllPackets
    BY <2>2, <2>4 DEF CleanParts
  <2>7. sent' = sent
    BY <2>1
  <2>8. RxAt(z, sent, rx') /\ Len(out') = z.k - 1 /\ AllPackets'
    BY <2>1, <2>3, <2>4, <2>6, <2>7, RxStep
  <2>9. InStep(line, Start(Len(sent) + 1), sent)'
    BY <2>1, <2>2 DEF CleanParts
  <2>10. InStep(charQueue, OnLine, sent)'
    BY <2>1, <2>4, <2>5
  <2>11. RxAt(Upcoming, sent, rx)' /\ (Len(out) = Upcoming.k - 1)'
    BY <2>5, <2>7, <2>8
  <2> QED
    BY <2>8, <2>9, <2>10, <2>11 DEF CleanParts
<1>8. CASE UNCHANGED vars
  <2>1. UNCHANGED <<sent, line, charQueue, rx, out, hurt, noisy>>
    BY <1>8 DEF vars
  <2>2. OnLine' = OnLine /\ Upcoming' = Upcoming
    BY <2>1 DEF OnLine, Upcoming
  <2>3. CleanParts
    BY <1>2, <2>1
  <2> QED
    BY <2>1, <2>2, <2>3 DEF CleanParts, AllPackets, IsPacket
<1> QED
  BY <1>3, <1>4, <1>5, <1>6, <1>7, <1>8 DEF Next

(***************************************************************************)
(* recv_packet never invents, repeats or reorders a packet: on a clean     *)
(* line it returns the packets given to send_packet, byte for byte, for    *)
(* packets of any content and length up to its buffer.                     *)
(***************************************************************************)
THEOREM CleanLineDelivers == Spec => []CleanLineInOrder
<1>1. Init => CleanInv
  BY CleanInit
<1>2. CleanInv /\ [Next]_vars => CleanInv'
  BY CleanStep
<1>3. CleanInv => CleanLineInOrder
  <2> SUFFICES ASSUME CleanInv, hurt = {}, noisy = {}
               PROVE  Len(out) <= Len(sent) /\ \A k \in DOMAIN out : IsPacket(out[k], k)
    BY DEF CleanLineInOrder
  <2>1. TypeOK /\ CleanParts
    BY DEF CleanInv, Clean, LinkShape
  <2> QED
    BY <2>1, UpcomingFacts DEF CleanParts, AllPackets
<1> QED
  BY <1>1, <1>2, <1>3, PTL DEF Spec
-----------------------------------------------------------------------------
(***************************************************************************)
(* Everything TxTypeOK says except the pool's limits.                      *)
(***************************************************************************)
Shape == /\ slip_used \in {0, 1}
         /\ pc \in [Thread -> SlipLabel \cup RxLabel]
         /\ pc["slip"] \in SlipLabel /\ pc["rx"] \in RxLabel
         /\ inbox \in [Thread -> SlipInput \cup {"none", "frame"}]
         /\ pos \in [Thread -> 0 .. FrameLen - 1]
         /\ uart \in Seq([w : Thread, n : 1 .. FrameLen])
         /\ count \in [Thread -> 0 .. MaxIn]

LEMMA TypeIsShape == TxTypeOK <=> Shape /\ free \in 0 .. PoolSize
  BY DEF TxTypeOK, Shape

LEMMA ShapeStep ==
  ASSUME Shape, [TxNext]_txVars
  PROVE  Shape'
<1>1. ASSUME NEW kind \in SlipInput, PacketFromHost(kind)
      PROVE  Shape'
  <2>1. count' \in [Thread -> 0 .. MaxIn]
    BY <1>1, TxAssumption DEF Shape, PacketFromHost, Thread
  <2>2. inbox' \in [Thread -> SlipInput \cup {"none", "frame"}]
    BY <1>1 DEF Shape, PacketFromHost
  <2> QED
    BY <1>1, <2>1, <2>2 DEF Shape, PacketFromHost
<1>2. CASE FrameFromAP
  <2>1. count' \in [Thread -> 0 .. MaxIn]
    BY <1>2, TxAssumption DEF Shape, FrameFromAP, Thread
  <2>2. inbox' \in [Thread -> SlipInput \cup {"none", "frame"}]
    BY <1>2 DEF Shape, FrameFromAP
  <2> QED
    BY <1>2, <2>1, <2>2 DEF Shape, FrameFromAP
<1>3. ASSUME NEW t \in Thread, send_char(t)
      PROVE  Shape'
  <2>1. pos[t] + 1 \in 1 .. FrameLen /\ pos \in [Thread -> 0 .. FrameLen - 1]
    BY TxAssumption DEF Shape
  <2>2. uart' \in Seq([w : Thread, n : 1 .. FrameLen])
    BY <1>3, <2>1 DEF Shape, send_char
  <2>3. pos' \in [Thread -> 0 .. FrameLen - 1]
    BY <1>3, <2>1, TxAssumption DEF send_char
  <2>4. /\ pc' \in [Thread -> SlipLabel \cup RxLabel]
        /\ pc'["slip"] \in SlipLabel /\ pc'["rx"] \in RxLabel
    BY <1>3 DEF Shape, send_char, Goto, Thread, SlipLabel, RxLabel
  <2> QED
    BY <1>3, <2>2, <2>3, <2>4 DEF Shape, send_char
<1> USE DEF Shape, Goto, Thread, SlipLabel, RxLabel
<1>4. CASE Recv
  BY <1>4 DEF Recv
<1>5. CASE Reply \/ Replied \/ PbufAlloc \/ Output
  BY <1>5 DEF Reply, Replied, PbufAlloc, Output
<1>6. CASE CheckUsed \/ CheckSkb \/ PbufFree
  BY <1>6 DEF CheckUsed, CheckSkb, PbufFree
<1>7. CASE UNCHANGED txVars
  BY <1>7 DEF txVars
<1> QED
  BY <1>1, <1>2, <1>3, <1>4, <1>5, <1>6, <1>7 DEF TxNext

(***************************************************************************)
(* What a step adds to the buffers in use it takes from the pool.          *)
(***************************************************************************)
LEMMA BalanceStep ==
  ASSUME TxTypeOK, NoPbufLeak, [TxNext]_txVars
  PROVE  NoPbufLeak' /\ free' \in Nat
<1> DEFINE s == pc["slip"] = "output"
           r == pc["rx"] # "wait"
           w == inbox["rx"] # "none"
<1>0. /\ free \in Nat /\ PoolSize \in Nat
      /\ pc \in [Thread -> SlipLabel \cup RxLabel]
      /\ inbox \in [Thread -> SlipInput \cup {"none", "frame"}]
  BY TxAssumption DEF TxTypeOK
<1>1. ASSUME free' = free, s' = s, r' = r, w' = w
      PROVE  NoPbufLeak' /\ free' \in Nat
  BY <1>0, <1>1 DEF NoPbufLeak, InUse
<1>2. ASSUME NEW kind \in SlipInput, PacketFromHost(kind)
      PROVE  NoPbufLeak' /\ free' \in Nat
  BY <1>0, <1>1, <1>2 DEF PacketFromHost, Thread
<1>3. CASE FrameFromAP
  <2>1. s' = s /\ r' = r /\ ~w /\ w' /\ free' = free - 1 /\ free > 0
    BY <1>0, <1>3 DEF FrameFromAP, Thread
  <2> QED
    BY <1>0, <2>1 DEF NoPbufLeak, InUse
<1>4. ASSUME NEW t \in Thread, send_char(t)
      PROVE  NoPbufLeak' /\ free' \in Nat
  <2>1. free' = free /\ w' = w /\ s' = s /\ r' = r
    BY <1>0, <1>4 DEF send_char, Goto, Thread
  <2> QED
    BY <1>1, <2>1
<1>5. CASE Recv \/ Reply \/ Replied
  <2>1. free' = free /\ s' = s /\ r' = r /\ w' = w
    BY <1>0, <1>5 DEF Recv, Reply, Replied, Goto, Thread
  <2> QED
    BY <1>1, <2>1
<1>6. CASE PbufAlloc
  <2>1. /\ r' = r /\ w' = w /\ ~s
        /\ \/ free > 0 /\ free' = free - 1 /\ s'
           \/ free' = free /\ ~s'
    BY <1>0, <1>6 DEF PbufAlloc, Goto, Thread
  <2> QED
    BY <1>0, <2>1 DEF NoPbufLeak, InUse
<1>7. CASE Output
  <2>1. r' = r /\ w' = w /\ s /\ ~s' /\ free' = free + 1
    BY <1>0, <1>7 DEF Output, Goto, Thread
  <2> QED
    BY <1>0, <2>1 DEF NoPbufLeak, InUse
<1>8. CASE CheckUsed
  <2>1. /\ s' = s /\ ~r /\ w /\ ~w'
        /\ \/ ~r' /\ free' = free + 1
           \/ r' /\ free' = free
    BY <1>0, <1>8 DEF CheckUsed, Runs, Ready, Goto, Thread
  <2> QED
    BY <1>0, <2>1 DEF NoPbufLeak, InUse
<1>9. CASE CheckSkb \/ PbufFree
  <2>1. /\ s' = s /\ w' = w /\ r
        /\ \/ ~r' /\ free' = free + 1
           \/ r' /\ free' = free
    BY <1>0, <1>9 DEF CheckSkb, PbufFree, Goto, Thread
  <2> QED
    BY <1>0, <2>1 DEF NoPbufLeak, InUse
<1>10. CASE UNCHANGED txVars
  BY <1>1, <1>10 DEF txVars
<1> QED
  BY <1>2, <1>3, <1>4, <1>5, <1>6, <1>7, <1>8, <1>9, <1>10 DEF TxNext

(***************************************************************************)
(* For any priorities and any arrivals, slip2ip_task_proc and              *)
(* from_ap_input give back every pbuf they take.                           *)
(***************************************************************************)
THEOREM NeverLeaks == TxSpec => [](TxTypeOK /\ NoPbufLeak)
<1>1. TxInit => TxTypeOK /\ NoPbufLeak
  BY TxAssumption DEF TxInit, TxTypeOK, NoPbufLeak, InUse, Thread, SlipInput,
                      SlipLabel, RxLabel
<1>2. (TxTypeOK /\ NoPbufLeak) /\ [TxNext]_txVars => (TxTypeOK /\ NoPbufLeak)'
  <2> SUFFICES ASSUME TxTypeOK, NoPbufLeak, [TxNext]_txVars
               PROVE  TxTypeOK' /\ NoPbufLeak'
    OBVIOUS
  <2>1. Shape' /\ NoPbufLeak' /\ free' \in Nat
    BY TypeIsShape, ShapeStep, BalanceStep
  <2>2. InUse' \in Nat
    BY DEF InUse
  <2>3. free' \in 0 .. PoolSize
    <3>1. free' + InUse' = PoolSize
      BY <2>1 DEF NoPbufLeak
    <3>2. PoolSize \in Nat /\ free' \in Nat
      BY <2>1, TxAssumption
    <3>3. \A a, b, c \in Nat : a + b = c => a \in 0 .. c
      OBVIOUS
    <3> QED
      BY <2>2, <3>1, <3>2, <3>3, Zenon
  <2> QED
    BY <2>1, <2>3 DEF Shape, TxTypeOK
<1> QED
  BY <1>1, <1>2, PTL DEF TxSpec
-----------------------------------------------------------------------------
(***************************************************************************)
(* Why frames stay whole when the receive thread has the higher priority.  *)
(* slip_used covers the SLIP task's whole frame; while it is set the       *)
(* receive thread, which only starts when the SLIP task is preempted or    *)
(* blocked, turns back at its first test.  A frame that is under way is    *)
(* the one its writer's position says, and it is at the end of the line.   *)
(***************************************************************************)
FlagCoversFrame == slip_used = 1 <=> pc["slip"] \in {"send", "sent"}
FlagKeepsRxOut == slip_used = 1 => pc["rx"] = "wait"
OnlySendersInFrame == \A t \in Thread : pos[t] > 0 => pc[t] = "send"

LastSent == uart[Len(uart)]
LineEnd == /\ \A t \in Thread :
                pos[t] > 0 => uart # << >> /\ LastSent = [w |-> t, n |-> pos[t]]
           /\ (\A t \in Thread : pos[t] = 0) => uart = << >> \/ LastSent.n = FrameLen

Inv == /\ TxTypeOK
       /\ FlagCoversFrame /\ FlagKeepsRxOut /\ OnlySendersInFrame
       /\ LineEnd
       /\ FramesContiguous

(***************************************************************************)
(* The one step that touches the line appends the next character of the    *)
(* only frame that can be under way.                                       *)
(***************************************************************************)
LEMMA SendCharStep ==
  ASSUME Inv, TxTypeOK', NEW t \in Thread, send_char(t)
  PROVE  Inv'
<1> DEFINE x == [w |-> t, n |-> pos[t] + 1]
           L == Len(uart)
<1>1. /\ uart \in Seq([w : Thread, n : 1 .. FrameLen])
      /\ x \in [w : Thread, n : 1 .. FrameLen]
      /\ uart' = Append(uart, x)
      /\ pos \in [Thread -> 0 .. FrameLen - 1]
      /\ FrameLen \in Nat \ {0}
  BY TxAssumption DEF Inv, TxTypeOK, send_char
<1>2. /\ L \in Nat /\ Len(uart') = L + 1 /\ uart'[L + 1] = x
      /\ \A i \in 1 .. L : uart'[i] = uart[i]
      /\ DOMAIN uart' = 1 .. L + 1 /\ DOMAIN uart = 1 .. L
  BY <1>1
<1>3. \A u \in Thread : u # t => pos[u] = 0 /\ pc[u] # "send"
  BY DEF Inv, TxTypeOK, send_char, FlagCoversFrame, FlagKeepsRxOut,
         OnlySendersInFrame, Thread
<1>4. FlagCoversFrame' /\ FlagKeepsRxOut' /\ OnlySendersInFrame'
  <2>1. pos' = [pos EXCEPT ![t] = IF pos[t] + 1 = FrameLen THEN 0 ELSE pos[t] + 1]
    BY DEF send_char
  <2>2. pc' = [pc EXCEPT ![t] = IF pos[t] + 1 = FrameLen THEN "sent" ELSE "send"]
        /\ slip_used' = slip_used /\ pc[t] = "send"
    BY DEF send_char, Goto
  <2>3. OnlySendersInFrame'
    BY <1>1, <1>3, <2>1, <2>2 DEF Inv, TxTypeOK, OnlySendersInFrame
  <2>4. FlagCoversFrame' /\ FlagKeepsRxOut'
    BY <2>2 DEF Inv, TxTypeOK, FlagCoversFrame, FlagKeepsRxOut, Thread
  <2> QED
    BY <2>3, <2>4
<1>5. LineEnd'
  <2>1. LastSent' = x /\ uart' # << >>
    BY <1>2 DEF LastSent
  <2>2. pos' = [pos EXCEPT ![t] = IF pos[t] + 1 = FrameLen THEN 0 ELSE pos[t] + 1]
    BY DEF send_char
  <2>3. ASSUME NEW u \in Thread, pos'[u] > 0
        PROVE  LastSent' = [w |-> u, n |-> pos'[u]]
    BY <1>1, <1>3, <2>1, <2>2, <2>3
  <2>4. (\A u \in Thread : pos'[u] = 0) => LastSent'.n = FrameLen
    BY <1>1, <2>1, <2>2
  <2> QED
    BY <2>1, <2>3, <2>4 DEF LineEnd
<1>6. FramesContiguous'
  <2>1. ASSUME NEW i \in 1 .. L + 1
        PROVE  IF uart'[i].n = 1
               THEN i = 1 \/ uart'[i - 1].n = FrameLen
               ELSE i > 1 /\ uart'[i - 1] = [w |-> uart'[i].w, n |-> uart'[i].n - 1]
    <3>1. CASE i \in 1 .. L
      <4>1. uart'[i] = uart[i] /\ (i > 1 => uart'[i - 1] = uart[i - 1])
        BY <1>2, <3>1
      <4> QED
        BY <1>2, <3>1, <4>1 DEF Inv, FramesContiguous
    <3>2. CASE i = L + 1 /\ pos[t] = 0
      <4>1. uart = << >> \/ LastSent.n = FrameLen
        BY <1>1, <1>3, <3>2 DEF Inv, LineEnd
      <4>2. L > 0 => uart'[L].n = LastSent.n
        BY <1>2 DEF LastSent
      <4>3. uart'[i].n = 1
        BY <1>1, <1>2, <3>2
      <4>4. uart = << >> => i = 1
        BY <3>2
      <4> QED
        BY <1>2, <3>2, <4>1, <4>2, <4>3, <4>4
    <3>3. CASE i = L + 1 /\ pos[t] > 0
      <4>1. uart # << >> /\ LastSent = [w |-> t, n |-> pos[t]]
        BY <3>3 DEF Inv, LineEnd
      <4>2. L > 0
        BY <1>1, <4>1
      <4>3. uart'[L] = LastSent
        BY <1>2, <4>2 DEF LastSent
      <4>4. uart'[i].n = pos[t] + 1 /\ uart'[i].w = t /\ pos[t] \in Nat
        BY <1>1, <1>2, <3>3
      <4>5. i - 1 = L
        BY <1>2, <3>3
      <4> HIDE DEF L
      <4> QED
        BY <1>2, <3>3, <4>1, <4>2, <4>3, <4>4, <4>5
    <3>4. pos[t] \in Nat
      BY <1>1
    <3> HIDE DEF L
    <3> QED
      BY <1>2, <3>1, <3>2, <3>3, <3>4
  <2> QED
    BY <1>2, <2>1 DEF FramesContiguous
<1> QED
  BY <1>4, <1>5, <1>6 DEF Inv

(***************************************************************************)
(* When the thread that calls from_ap_input has a higher priority than the *)
(* SLIP task, every frame the firmware sends reaches the line in one       *)
(* piece, for any frame length and any traffic.                            *)
(***************************************************************************)
THEOREM FramesStayWhole ==
  ASSUME RxPrio > SlipPrio
  PROVE  TxSpec => []FramesContiguous
<1>1. TxInit => Inv
  BY TxAssumption DEF TxInit, Inv, TxTypeOK, Thread, SlipInput, SlipLabel, RxLabel,
     FlagCoversFrame, FlagKeepsRxOut, OnlySendersInFrame, LineEnd, FramesContiguous
<1>2. Inv /\ TxTypeOK' /\ [TxNext]_txVars => Inv'
  <2> SUFFICES ASSUME Inv, TxTypeOK', [TxNext]_txVars
               PROVE  Inv'
    OBVIOUS
  <2>1. ASSUME NEW t \in Thread, send_char(t)
        PROVE  Inv'
    BY <2>1, SendCharStep
  <2>2. ASSUME UNCHANGED <<pos, uart>>
        PROVE  LineEnd' /\ FramesContiguous'
    BY <2>2 DEF Inv, LineEnd, LastSent, FramesContiguous
  <2>3. ASSUME NEW t \in Thread, NEW label, Goto(t, label), UNCHANGED pos,
               pc[t] # "send"
        PROVE  OnlySendersInFrame'
    BY <2>3 DEF Inv, TxTypeOK, Goto, OnlySendersInFrame
  <2>4. Runs("slip") => pc["rx"] = "wait"
    BY TxAssumption DEF Runs, Ready, Prio, Thread
  <2> USE DEF Inv, TxTypeOK, FlagCoversFrame, FlagKeepsRxOut, Thread
  <2>5. ASSUME UNCHANGED <<pc, slip_used, pos, uart>>
        PROVE  Inv'
    BY <2>2, <2>5 DEF OnlySendersInFrame
  <2>6. CASE Recv
    <3>1. OnlySendersInFrame'
      BY <2>6, <2>3 DEF Recv
    <3> QED
      BY <2>2, <2>6, <3>1 DEF Recv, Goto
  <2>7. CASE Reply
    <3>1. OnlySendersInFrame'
      BY <2>7, <2>3 DEF Reply
    <3> QED
      BY <2>2, <2>4, <2>7, <3>1 DEF Reply, Goto
  <2>8. CASE Replied
    <3>1. OnlySendersInFrame'
      BY <2>8, <2>3 DEF Replied
    <3> QED
      BY <2>2, <2>8, <3>1 DEF Replied, Goto
  <2>9. CASE PbufAlloc
    <3>1. OnlySendersInFrame'
      BY <2>9, <2>3 DEF PbufAlloc
    <3> QED
      BY <2>2, <2>9, <3>1 DEF PbufAlloc, Goto
  <2>10. CASE Output
    <3>1. OnlySendersInFrame'
      BY <2>10, <2>3 DEF Output
    <3> QED
      BY <2>2, <2>10, <3>1 DEF Output, Goto
  <2>11. CASE CheckUsed
    <3>1. OnlySendersInFrame'
      BY <2>11, <2>3 DEF CheckUsed
    <3> QED
      BY <2>2, <2>11, <3>1 DEF CheckUsed, Goto
  <2>12. CASE CheckSkb
    <3>1. OnlySendersInFrame'
      BY <2>12, <2>3 DEF CheckSkb
    <3> QED
      BY <2>2, <2>12, <3>1 DEF CheckSkb, Goto
  <2>13. CASE PbufFree
    <3>1. OnlySendersInFrame'
      BY <2>13, <2>3 DEF PbufFree
    <3> QED
      BY <2>2, <2>13, <3>1 DEF PbufFree, Goto
  <2>14. CASE (\E kind \in SlipInput : PacketFromHost(kind)) \/ FrameFromAP
    BY <2>5, <2>14 DEF PacketFromHost, FrameFromAP
  <2>15. CASE UNCHANGED txVars
    BY <2>5, <2>15 DEF txVars
  <2> QED
    BY <2>1, <2>6, <2>7, <2>8, <2>9, <2>10, <2>11, <2>12, <2>13, <2>14, <2>15
    DEF TxNext
<1>3. Inv => FramesContiguous
  BY DEF Inv
<1>4. TxSpec => [](TxTypeOK /\ NoPbufLeak)
  BY NeverLeaks
<1>5. [](TxTypeOK /\ NoPbufLeak) => []TxTypeOK
  BY PTL
<1> QED
  BY <1>1, <1>2, <1>3, <1>4, <1>5, PTL DEF TxSpec
-----------------------------------------------------------------------------
LEMMA LowIs == \A s \in Nat : Low(s) = 127 - (s % 128)
  BY DEF Low, Complement

(***************************************************************************)
(* The byte that if_api_calculate_checksum writes last tells two sums      *)
(* apart exactly when they differ by no multiple of 128.                   *)
(***************************************************************************)
THEOREM LowTellsApart ==
  \A s, t \in Nat : Low(s) = Low(t) <=> s % 128 = t % 128
  BY LowIs

(***************************************************************************)
(* A byte that changes on the line changes the sum by less than 256:       *)
(* if_api_check notices it unless it changed by exactly 128, however long  *)
(* the frame is and whatever else it holds.                                *)
(***************************************************************************)
THEOREM ByteChangeCaught ==
  ASSUME NEW rest \in Nat, NEW old \in Byte, NEW new \in Byte, old # new,
         Low(rest + old) = Low(rest + new)
  PROVE  new - old \in {-128, 128}
<1>1. (rest + old) % 128 = (rest + new) % 128
  BY LowTellsApart DEF Byte
<1> QED
  BY <1>1 DEF Byte
-----------------------------------------------------------------------------
(***************************************************************************)
(* The bytes of a frame (Codec).                                           *)
(*                                                                         *)
(* A set of places of a frame that holds no first place is empty.          *)
(***************************************************************************)
LEMMA NoFirstPlace ==
  ASSUME NEW n \in Nat, NEW Bad \in SUBSET (0 .. n), 0 \notin Bad,
         \A i \in 1 .. n : i - 1 \notin Bad => i \notin Bad
  PROVE  Bad = {}
<1> SUFFICES ASSUME Bad # {} PROVE FALSE
  OBVIOUS
<1>1. Bad \in SUBSET Nat
  OBVIOUS
<1>2. PICK k \in Bad : \A j \in Bad : k <= j
  BY <1>1, LeastMember
<1>3. k \in 1 .. n /\ ~(k <= k - 1)
  OBVIOUS
<1> QED
  BY <1>2, <1>3

LEMMA ByteIs == \A b \in Byte : b \in Nat /\ b \in Int /\ 0 <= b /\ b <= 255
  BY DEF Byte

(***************************************************************************)
(* A running sum over s up to its byte n, what the loop of                 *)
(* if_api_calculate_checksum has in sum.  There is one for every frame:    *)
(* the sums up to one byte can be continued by the next.                   *)
(***************************************************************************)
IsSums(g, base, s, n) ==
  g = [i \in 0 .. n |-> IF i = 0 THEN base ELSE g[i - 1] + s[i]]

LEMMA SumsExist ==
  ASSUME NEW base \in Nat, NEW s \in Seq(Byte)
  PROVE  \E g : IsSums(g, base, s, Len(s))
<1> DEFINE Bad == {n \in 0 .. Len(s) : ~ \E g : IsSums(g, base, s, n)}
<1>1. 0 \notin Bad
  <2>1. IsSums([i \in 0 .. 0 |-> base], base, s, 0)
    BY DEF IsSums
  <2> QED
    BY <2>1
<1>2. ASSUME NEW n \in 1 .. Len(s), n - 1 \notin Bad PROVE n \notin Bad
  <2>1. n - 1 \in 0 .. Len(s)
    OBVIOUS
  <2>2. PICK g : IsSums(g, base, s, n - 1)
    BY <1>2, <2>1
  <2> DEFINE h == [i \in 0 .. n |-> IF i = n THEN g[n - 1] + s[n] ELSE g[i]]
  <2>3. IsSums(h, base, s, n)
    BY <2>2 DEF IsSums
  <2> QED
    BY <2>3
<1>3. Bad \in SUBSET (0 .. Len(s)) /\ Len(s) \in Nat
  OBVIOUS
<1>4. (\E g : IsSums(g, base, s, Len(s))) \/ Len(s) \in Bad
  BY <1>3
<1> HIDE DEF Bad
<1>5. Bad = {}
  BY <1>1, <1>2, <1>3, NoFirstPlace
<1> QED
  BY <1>4, <1>5

LEMMA SumsStep ==
  ASSUME NEW base \in Nat, NEW s \in Seq(Byte)
  PROVE  /\ SumsFrom(base, s)[0] = base
         /\ \A i \in 1 .. Len(s) :
              SumsFrom(base, s)[i] = SumsFrom(base, s)[i - 1] + s[i]
<1> DEFINE E(g) == g = [i \in 0 .. Len(s) |-> IF i = 0 THEN base ELSE g[i - 1] + s[i]]
           f == CHOOSE g : E(g)
<1>1. E(f)
  BY SumsExist DEF IsSums
<1>2. SumsFrom(base, s) = f
  BY DEF SumsFrom
<1> HIDE DEF f
<1> QED
  BY <1>1, <1>2

LEMMA SumsType ==
  ASSUME NEW base \in Nat, NEW s \in Seq(Byte)
  PROVE  \A i \in 0 .. Len(s) : SumsFrom(base, s)[i] \in Nat
<1> DEFINE g == SumsFrom(base, s)
           Bad == {n \in 0 .. Len(s) : g[n] \notin Nat}
<1>1. 0 \notin Bad
  BY SumsStep
<1>2. ASSUME NEW n \in 1 .. Len(s), n - 1 \notin Bad PROVE n \notin Bad
  <2>1. g[n - 1] \in Nat
    BY <1>2
  <2>2. s[n] \in Byte
    OBVIOUS
  <2>3. g[n] = g[n - 1] + s[n]
    BY SumsStep
  <2> HIDE DEF g
  <2>4. g[n] \in Nat
    BY <2>1, <2>2, <2>3, ByteIs
  <2> QED
    BY <2>4
<1>3. Bad \in SUBSET (0 .. Len(s)) /\ Len(s) \in Nat
  OBVIOUS
<1>4. Bad = {} => \A i \in 0 .. Len(s) : g[i] \in Nat
  OBVIOUS
<1> HIDE DEF Bad
<1>5. Bad = {}
  BY <1>1, <1>2, <1>3, NoFirstPlace
<1> QED
  BY <1>4, <1>5

Changed(s, k, b, t) == t = [s EXCEPT ![k] = b]

(***************************************************************************)
(* One changed byte changes the sum by the difference: the sums in front   *)
(* of it stay as they are, those behind it change by that much.            *)
(***************************************************************************)
LEMMA SumsOfChanged ==
  ASSUME NEW base \in Nat, NEW s \in Seq(Byte), NEW k \in 1 .. Len(s), NEW b \in Byte,
         NEW t \in Seq(Byte), Changed(s, k, b, t)
  PROVE  SumsFrom(base, t)[Len(t)] = SumsFrom(base, s)[Len(s)] + (b - s[k])
<1> DEFINE g == SumsFrom(base, s)
           h == SumsFrom(base, t)
           d(i) == IF i < k THEN 0 ELSE b - s[k]
           Bad == {n \in 0 .. Len(s) : h[n] # g[n] + d(n)}
<1>1. Len(t) = Len(s) /\ \A i \in 1 .. Len(s) : t[i] = IF i = k THEN b ELSE s[i]
  BY DEF Changed
<1>2. g[0] = base /\ \A i \in 1 .. Len(s) : g[i] = g[i - 1] + s[i]
  BY SumsStep
<1>3. h[0] = base /\ \A i \in 1 .. Len(s) : h[i] = h[i - 1] + t[i]
  <2>1. h[0] = base /\ \A i \in 1 .. Len(t) : h[i] = h[i - 1] + t[i]
    BY SumsStep
  <2> HIDE DEF h
  <2> QED
    BY <1>1, <2>1
<1>4. \A i \in 0 .. Len(s) : g[i] \in Nat
  BY SumsType
<1>5. Bad \in SUBSET (0 .. Len(s)) /\ Len(s) \in Nat
  OBVIOUS
<1>6. Bad = {} => \A i \in 0 .. Len(s) : h[i] = g[i] + d(i)
  OBVIOUS
<1> HIDE DEF g, h
<1>7. 0 \notin Bad
  BY <1>2, <1>3
<1>8. ASSUME NEW n \in 1 .. Len(s), n - 1 \notin Bad PROVE n \notin Bad
  <2>1. n - 1 \in 0 .. Len(s)
    OBVIOUS
  <2>2. h[n - 1] = g[n - 1] + d(n - 1)
    BY <1>8, <2>1
  <2>3. h[n] = h[n - 1] + t[n] /\ g[n] = g[n - 1] + s[n]
    BY <1>2, <1>3
  <2>4. s[n] \in Byte /\ s[k] \in Byte /\ g[n - 1] \in Int
    BY <1>4, <2>1
  <2>5. t[n] = IF n = k THEN b ELSE s[n]
    BY <1>1
  <2>6. /\ s[n] \in Int /\ s[k] \in Int /\ b \in Int /\ k \in Int /\ n \in Int
        /\ n = k => s[n] = s[k]
    BY <2>4, ByteIs
  <2>7. d(n) = d(n - 1) + (t[n] - s[n])
    BY <2>5, <2>6
  <2>8. d(n - 1) \in Int /\ t[n] \in Int /\ d(n) \in Int
    BY <2>5, <2>6
  <2> HIDE DEF d
  <2>9. h[n] = g[n] + d(n)
    BY <2>2, <2>3, <2>4, <2>6, <2>7, <2>8
  <2> QED
    BY <2>9
<1> HIDE DEF Bad
<1>9. Bad = {}
  BY <1>5, <1>7, <1>8, NoFirstPlace
<1>10. h[Len(t)] = g[Len(s)] + d(Len(s)) /\ d(Len(s)) = b - s[k]
  BY <1>1, <1>6, <1>9
<1> QED
  BY <1>10 DEF g, h

LEMMA ChecksumBytes ==
  \A sum \in Nat : High(sum) \in Byte /\ Low(sum) \in Byte
  BY DEF High, Low, Complement, Byte

LEMMA SmallChange ==
  ASSUME NEW old \in Byte, NEW new \in Byte, old # new,
         NEW x \in Nat, NEW y \in Nat, y = x + (new - old), Low(x) = Low(y)
  PROVE  new - old \in {-128, 128}
<1>1. x % 128 = y % 128
  BY LowTellsApart
<1>2. new - old \in -255 .. 255 /\ new - old # 0
  BY DEF Byte
<1> QED
  BY <1>1, <1>2

LEMMA TakePrefix ==
  ASSUME NEW s \in Seq(Byte), NEW t \in Seq(Byte), Len(s) <= Len(t),
         \A i \in 1 .. Len(s) : t[i] = s[i]
  PROVE  SubSeq(t, 1, Len(s)) = s
<1> DEFINE u == SubSeq(t, 1, Len(s))
<1>1. u \in Seq(Byte) /\ Len(u) = Len(s) /\ \A i \in 1 .. Len(s) : u[i] = t[i]
  OBVIOUS
<1> HIDE DEF u
<1>2. u = s
  BY <1>1
<1> QED
  BY <1>2 DEF u

LEMMA CalculateFacts ==
  ASSUME front \in Nat, NEW s \in Seq(Byte)
  PROVE  /\ SumOf(s) \in Nat
         /\ if_api_calculate_checksum(s) \in Seq(Byte)
         /\ Len(if_api_calculate_checksum(s)) = Len(s) + 2
         /\ \A i \in 1 .. Len(s) : if_api_calculate_checksum(s)[i] = s[i]
         /\ if_api_calculate_checksum(s)[Len(s) + 2] = Low(SumOf(s))
         /\ SubSeq(if_api_calculate_checksum(s), 1, Len(s)) = s
<1>1. SumOf(s) \in Nat
  BY SumsType DEF SumOf
<1>2. High(SumOf(s)) \in Byte /\ Low(SumOf(s)) \in Byte
  BY <1>1, ChecksumBytes
<1> DEFINE c == <<High(SumOf(s)), Low(SumOf(s))>>
<1>3. c \in Seq(Byte) /\ Len(c) = 2 /\ c[2] = Low(SumOf(s))
  BY <1>2
<1>4. if_api_calculate_checksum(s) = s \o c
  BY DEF if_api_calculate_checksum
<1> HIDE DEF c
<1>5. /\ s \o c \in Seq(Byte) /\ Len(s \o c) = Len(s) + Len(c)
      /\ \A i \in 1 .. Len(s) + Len(c) :
           (s \o c)[i] = IF i <= Len(s) THEN s[i] ELSE c[i - Len(s)]
  BY <1>3, ConcatProperties
<1> DEFINE t == s \o c
<1> HIDE DEF t
<1>6. /\ t \in Seq(Byte) /\ Len(t) = Len(s) + 2 /\ \A i \in 1 .. Len(s) : t[i] = s[i]
      /\ t[Len(s) + 2] = c[2]
  BY <1>3, <1>5 DEF t
<1>7. SubSeq(t, 1, Len(s)) = s
  BY <1>6, TakePrefix
<1> QED
  BY <1>1, <1>3, <1>4, <1>6, <1>7 DEF t

(***************************************************************************)
(* if_api_check undoes if_api_calculate_checksum, and accepts nothing      *)
(* else.                                                                   *)
(***************************************************************************)
LEMMA CheckFacts ==
  ASSUME front \in Nat, NEW t \in Seq(Byte)
  PROVE  /\ if_api_check(t) \in {-1, Len(t) - 2}
         /\ if_api_check(t) # -1 => if_api_check(t) >= 0
         /\ if_api_check(t) >= 0
              => t = if_api_calculate_checksum(SubSeq(t, 1, if_api_check(t)))
  BY DEF if_api_check

LEMMA CheckUndoes ==
  ASSUME front \in Nat, NEW s \in Seq(Byte)
  PROVE  if_api_check(if_api_calculate_checksum(s)) = Len(s)
<1> DEFINE t == if_api_calculate_checksum(s)
<1>1. Len(t) - 2 = Len(s) /\ Len(s) >= 0 /\ SubSeq(t, 1, Len(s)) = s
  BY CalculateFacts
<1> QED
  BY <1>1 DEF if_api_check

(***************************************************************************)
(* Where one byte of a packet is another, if_api_check says so, unless the *)
(* byte lies in the frame and changed by 128.                              *)
(***************************************************************************)
LEMMA ChangeSeen ==
  ASSUME front \in Nat, NEW s \in Seq(Byte), NEW t \in Seq(Byte),
         NEW k \in 1 .. Len(s) + 2, NEW b \in Byte,
         b # if_api_calculate_checksum(s)[k],
         Changed(if_api_calculate_checksum(s), k, b, t),
         if_api_check(t) >= 0
  PROVE  /\ k <= if_api_check(t)
         /\ b - if_api_calculate_checksum(s)[k] \in {-128, 128}
<1> DEFINE p == if_api_calculate_checksum(s)
           n == Len(s)
           u == SubSeq(t, 1, n)
<1>1. /\ SumOf(s) \in Nat /\ p \in Seq(Byte) /\ Len(p) = n + 2
      /\ \A i \in 1 .. n : p[i] = s[i]
      /\ p[n + 2] = Low(SumOf(s)) /\ SubSeq(p, 1, n) = s
  BY CalculateFacts
<1> HIDE DEF p
<1>2. /\ n \in Nat /\ Len(t) = n + 2
      /\ \A i \in 1 .. n + 2 : t[i] = IF i = k THEN b ELSE p[i]
  BY <1>1 DEF p, Changed
<1>3. if_api_check(t) = n
  <2>1. if_api_check(t) \in {-1, Len(t) - 2}
    BY CheckFacts
  <2> QED
    BY <1>2, <2>1
<1>4. t = if_api_calculate_checksum(u)
  BY <1>3, CheckFacts
<1>5. u \in Seq(Byte) /\ Len(u) = n /\ \A i \in 1 .. n : u[i] = t[i]
  BY <1>2
<1> HIDE DEF u
<1>6. t[n + 2] = Low(SumOf(u))
  BY <1>4, <1>5, CalculateFacts
<1>7. CASE k > n
  <2>1. \A i \in 1 .. n : u[i] = s[i]
    BY <1>1, <1>2, <1>5, <1>7
  <2>2. u = s
    BY <1>5, <2>1
  <2>3. t[k] = b /\ t = p
    BY <1>2, <1>4, <2>2 DEF p
  <2> QED
    BY <2>3 DEF p
<1>8. CASE k <= n
  <2>1. k \in 1 .. n /\ p[k] = s[k] /\ s[k] \in Byte
    BY <1>1, <1>8
  <2>2. Changed(s, k, b, u)
    <3> DEFINE v == [s EXCEPT ![k] = b]
    <3>1. /\ v \in Seq(Byte) /\ Len(v) = n
          /\ \A i \in 1 .. n : v[i] = IF i = k THEN b ELSE s[i]
      BY <2>1
    <3>2. \A i \in 1 .. n : u[i] = IF i = k THEN b ELSE s[i]
      BY <1>1, <1>2, <1>5
    <3> HIDE DEF v
    <3>3. u = v
      BY <1>5, <3>1, <3>2
    <3> QED
      BY <3>3 DEF v, Changed
  <2>3. SumsFrom(front, u)[Len(u)] = SumsFrom(front, s)[Len(s)] + (b - s[k])
    BY <1>5, <2>1, <2>2, SumsOfChanged
  <2>4. SumOf(u) = SumOf(s) + (b - s[k])
    BY <2>3 DEF SumOf
  <2>5. t[n + 2] = p[n + 2]
    BY <1>2, <2>1
  <2>6. Low(SumOf(u)) = Low(SumOf(s))
    BY <1>1, <1>6, <2>5
  <2>7. SumOf(s) \in Nat /\ SumOf(u) \in Nat
    BY <1>5, CalculateFacts
  <2>8. b # s[k]
    BY <2>1 DEF p
  <2>9. b - s[k] \in {-128, 128}
    BY <2>1, <2>4, <2>6, <2>7, <2>8, SmallChange
  <2> QED
    BY <1>3, <1>8, <2>1, <2>9 DEF p
<1> QED
  BY <1>2, <1>7, <1>8

(***************************************************************************)
(* The key: combining a byte with it twice gives the byte back.  The bits  *)
(* of the combination are the sums of the bits, without carry.             *)
(***************************************************************************)
XorBit(a, b, w) == (a \div w + b \div w) % 2

LEMMA XorSum ==
  ASSUME NEW a, NEW b
  PROVE  ByteXor(a, b) = 1 * XorBit(a, b, 1) + 2 * XorBit(a, b, 2) + 4 * XorBit(a, b, 4)
                         + 8 * XorBit(a, b, 8) + 16 * XorBit(a, b, 16)
                         + 32 * XorBit(a, b, 32) + 64 * XorBit(a, b, 64)
                         + 128 * XorBit(a, b, 128)
  BY DEF ByteXor, XorBit

LEMMA XorBits ==
  ASSUME NEW a \in Byte, NEW b \in Byte
  PROVE  /\ ByteXor(a, b) \in Byte
         /\ (ByteXor(a, b) \div 1) % 2 = XorBit(a, b, 1)
         /\ (ByteXor(a, b) \div 2) % 2 = XorBit(a, b, 2)
         /\ (ByteXor(a, b) \div 4) % 2 = XorBit(a, b, 4)
         /\ (ByteXor(a, b) \div 8) % 2 = XorBit(a, b, 8)
         /\ (ByteXor(a, b) \div 16) % 2 = XorBit(a, b, 16)
         /\ (ByteXor(a, b) \div 32) % 2 = XorBit(a, b, 32)
         /\ (ByteXor(a, b) \div 64) % 2 = XorBit(a, b, 64)
         /\ (ByteXor(a, b) \div 128) % 2 = XorBit(a, b, 128)
<1>1. /\ XorBit(a, b, 1) \in 0 .. 1 /\ XorBit(a, b, 2) \in 0 .. 1
      /\ XorBit(a, b, 4) \in 0 .. 1 /\ XorBit(a, b, 8) \in 0 .. 1
      /\ XorBit(a, b, 16) \in 0 .. 1 /\ XorBit(a, b, 32) \in 0 .. 1
      /\ XorBit(a, b, 64) \in 0 .. 1 /\ XorBit(a, b, 128) \in 0 .. 1
  BY DEF XorBit, Byte
<1> QED
  BY <1>1, XorSum DEF Byte

LEMMA ByteOfBits ==
  ASSUME NEW a \in Byte
  PROVE  a = 1 * ((a \div 1) % 2) + 2 * ((a \div 2) % 2) + 4 * ((a \div 4) % 2)
             + 8 * ((a \div 8) % 2) + 16 * ((a \div 16) % 2) + 32 * ((a \div 32) % 2)
             + 64 * ((a \div 64) % 2) + 128 * ((a \div 128) % 2)
  BY DEF Byte

LEMMA AddTwice ==
  ASSUME NEW x \in Int, NEW y \in Int, NEW z \in Int, z % 2 = (x + y) % 2
  PROVE  (z + y) % 2 = x % 2
  OBVIOUS

LEMMA XorBitTwice ==
  ASSUME NEW a \in Byte, NEW b \in Byte, NEW x \in Byte, NEW w \in Nat \ {0},
         (x \div w) % 2 = XorBit(a, b, w)
  PROVE  XorBit(x, b, w) = (a \div w) % 2
<1>1. a \div w \in Int /\ b \div w \in Int /\ x \div w \in Int
  BY DEF Byte
<1> QED
  BY <1>1, AddTwice DEF XorBit

LEMMA XorTwice ==
  ASSUME NEW a \in Byte, NEW b \in Byte
  PROVE  ByteXor(a, b) \in Byte /\ ByteXor(ByteXor(a, b), b) = a
<1> DEFINE x == ByteXor(a, b)
<1> HIDE DEF x
<1>1. x \in Byte
  BY XorBits DEF x
<1>2. /\ XorBit(x, b, 1) = (a \div 1) % 2 /\ XorBit(x, b, 2) = (a \div 2) % 2
      /\ XorBit(x, b, 4) = (a \div 4) % 2 /\ XorBit(x, b, 8) = (a \div 8) % 2
      /\ XorBit(x, b, 16) = (a \div 16) % 2 /\ XorBit(x, b, 32) = (a \div 32) % 2
      /\ XorBit(x, b, 64) = (a \div 64) % 2 /\ XorBit(x, b, 128) = (a \div 128) % 2
  <2>1. /\ (x \div 1) % 2 = XorBit(a, b, 1) /\ (x \div 2) % 2 = XorBit(a, b, 2)
        /\ (x \div 4) % 2 = XorBit(a, b, 4) /\ (x \div 8) % 2 = XorBit(a, b, 8)
        /\ (x \div 16) % 2 = XorBit(a, b, 16) /\ (x \div 32) % 2 = XorBit(a, b, 32)
        /\ (x \div 64) % 2 = XorBit(a, b, 64) /\ (x \div 128) % 2 = XorBit(a, b, 128)
    BY XorBits DEF x
  <2> QED
    BY <1>1, <2>1, XorBitTwice
<1>3. ByteXor(x, b) = a
  BY <1>2, XorSum, ByteOfBits
<1> QED
  BY <1>1, <1>3 DEF x

LEMMA KeyFacts ==
  /\ KeySize \in Nat /\ MaxLen \in Nat /\ MaxLen <= KeySize
  /\ \A j \in 0 .. KeySize - 1 : key[j] \in Byte
<1>1. KeySize \in Nat /\ MaxLen \in Nat /\ MaxLen <= KeySize
  BY CodecAssumption
<1>2. ASSUME NEW j \in 0 .. KeySize - 1 PROVE key[j] \in Byte
  <2>1. j * j + 128 \in Nat
    BY <1>1
  <2>2. \A m \in Nat : m % 256 \in 0 .. 255
    OBVIOUS
  <2>3. key[j] = (j * j + 128) % 256
    BY DEF key
  <2> QED
    BY <2>1, <2>2, <2>3 DEF Byte
<1> QED
  BY <1>1, <1>2

LEMMA KeyXorFacts ==
  ASSUME NEW s \in Seq(Byte), Len(s) <= KeySize
  PROVE  /\ key_xor(s) \in Seq(Byte) /\ Len(key_xor(s)) = Len(s)
         /\ \A i \in 1 .. Len(s) :
              /\ key[KeySize - Len(s) + i - 1] \in Byte
              /\ key_xor(s)[i] = ByteXor(s[i], key[KeySize - Len(s) + i - 1])
<1>1. ASSUME NEW i \in 1 .. Len(s)
      PROVE  key[KeySize - Len(s) + i - 1] \in Byte /\ s[i] \in Byte
  <2>1. KeySize - Len(s) + i - 1 \in 0 .. KeySize - 1
    BY KeyFacts
  <2> QED
    BY <2>1, KeyFacts
<1>2. \A i \in 1 .. Len(s) : ByteXor(s[i], key[KeySize - Len(s) + i - 1]) \in Byte
  BY <1>1, XorTwice
<1>3. key_xor(s) = [i \in 1 .. Len(s) |-> ByteXor(s[i], key[KeySize - Len(s) + i - 1])]
  BY DEF key_xor
<1> QED
  BY <1>1, <1>2, <1>3

LEMMA KeyXorTwice ==
  ASSUME NEW s \in Seq(Byte), Len(s) <= KeySize
  PROVE  key_xor(key_xor(s)) = s
<1> DEFINE t == key_xor(s)
           u == key_xor(t)
<1>1. /\ t \in Seq(Byte) /\ Len(t) = Len(s)
      /\ \A i \in 1 .. Len(s) : /\ key[KeySize - Len(s) + i - 1] \in Byte
                                /\ t[i] = ByteXor(s[i], key[KeySize - Len(s) + i - 1])
  BY KeyXorFacts
<1> HIDE DEF t
<1>2. /\ u \in Seq(Byte) /\ Len(u) = Len(t)
      /\ \A i \in 1 .. Len(t) : u[i] = ByteXor(t[i], key[KeySize - Len(t) + i - 1])
  BY <1>1, KeyXorFacts
<1> HIDE DEF u
<1>3. ASSUME NEW i \in 1 .. Len(s) PROVE u[i] = s[i]
  <2>1. s[i] \in Byte /\ key[KeySize - Len(s) + i - 1] \in Byte
    BY <1>1
  <2>2. u[i] = ByteXor(ByteXor(s[i], key[KeySize - Len(s) + i - 1]),
                       key[KeySize - Len(s) + i - 1])
    BY <1>1, <1>2
  <2> QED
    BY <2>1, <2>2, XorTwice
<1>4. u = s
  BY <1>1, <1>2, <1>3
<1> QED
  BY <1>4 DEF t, u

(***************************************************************************)
(* The frame in a chain of pbufs, as pbuf_copy_partial copies it: the      *)
(* bytes up to pbuf n are those up to the one before, and its own.  \o is  *)
(* kept closed while the recursion is unfolded.                            *)
(***************************************************************************)
Joined(s, t) == s \o t
FlatTo(c, n) == FlattenSeq(SubSeq(c, 1, n))

IsFlat(g, c, n) ==
  g = [i \in 1 .. n |-> IF i = 1 THEN c[i] ELSE Joined(g[i - 1], c[i])]

LEMMA FlatExists ==
  ASSUME NEW c \in Seq(Seq(Byte))
  PROVE  \E g : IsFlat(g, c, Len(c))
<1> DEFINE Bad == {n \in 0 .. Len(c) : ~ \E g : IsFlat(g, c, n)}
<1>1. 0 \notin Bad
  <2>1. IsFlat([i \in 1 .. 0 |-> c[i]], c, 0)
    BY DEF IsFlat
  <2> QED
    BY <2>1
<1>2. ASSUME NEW n \in 1 .. Len(c), n - 1 \notin Bad PROVE n \notin Bad
  <2>1. n - 1 \in 0 .. Len(c)
    OBVIOUS
  <2>2. PICK g : IsFlat(g, c, n - 1)
    BY <1>2, <2>1
  <2> DEFINE last == IF n = 1 THEN c[1] ELSE Joined(g[n - 1], c[n])
             h == [i \in 1 .. n |-> IF i = n THEN last ELSE g[i]]
  <2>3. \A i \in 1 .. n - 1 : g[i] = IF i = 1 THEN c[i] ELSE Joined(g[i - 1], c[i])
    BY <2>2 DEF IsFlat
  <2>4. ASSUME NEW i \in 1 .. n
        PROVE  h[i] = IF i = 1 THEN c[i] ELSE Joined(h[i - 1], c[i])
    <3>1. CASE i = n
      <4>1. n # 1 => n - 1 \in 1 .. n /\ n - 1 # n
        OBVIOUS
      <4>2. n # 1 => h[n - 1] = g[n - 1]
        BY <4>1
      <4>3. h[n] = last
        OBVIOUS
      <4> HIDE DEF h
      <4> QED
        BY <3>1, <4>2, <4>3
    <3>2. CASE i # n
      <4>1. i \in 1 .. n - 1 /\ (i # 1 => i - 1 \in 1 .. n /\ i - 1 # n)
        BY <3>2
      <4>2. h[i] = g[i] /\ (i # 1 => h[i - 1] = g[i - 1])
        BY <3>2, <4>1
      <4> HIDE DEF h
      <4> QED
        BY <2>3, <4>1, <4>2
    <3> QED
      BY <3>1, <3>2
  <2>5. h = [i \in 1 .. n |-> h[i]]
    OBVIOUS
  <2> HIDE DEF h
  <2>6. IsFlat(h, c, n)
    BY <2>4, <2>5 DEF IsFlat
  <2> QED
    BY <2>6
<1>3. Bad \in SUBSET (0 .. Len(c)) /\ Len(c) \in Nat
  OBVIOUS
<1>4. (\E g : IsFlat(g, c, Len(c))) \/ Len(c) \in Bad
  BY <1>3
<1> HIDE DEF Bad
<1>5. Bad = {}
  BY <1>1, <1>2, <1>3, NoFirstPlace
<1> QED
  BY <1>4, <1>5

LEMMA FlatUnique ==
  ASSUME NEW c \in Seq(Seq(Byte)), NEW n \in 0 .. Len(c), NEW m \in 0 .. n,
         NEW g, IsFlat(g, c, n), NEW h, IsFlat(h, c, m)
  PROVE  \A i \in 1 .. m : g[i] = h[i]
<1> DEFINE Bad == {i \in 1 .. m : g[i] # h[i]}
<1>1. /\ \A i \in 1 .. n : g[i] = IF i = 1 THEN c[i] ELSE Joined(g[i - 1], c[i])
      /\ \A i \in 1 .. m : h[i] = IF i = 1 THEN c[i] ELSE Joined(h[i - 1], c[i])
  BY DEF IsFlat
<1>2. Bad \in SUBSET (0 .. m) /\ 0 \notin Bad /\ m \in Nat
  OBVIOUS
<1>3. ASSUME NEW i \in 1 .. m, i - 1 \notin Bad PROVE i \notin Bad
  <2>1. i \in 1 .. n
    OBVIOUS
  <2>2. i # 1 => g[i - 1] = h[i - 1]
    BY <1>3
  <2>3. g[i] = h[i]
    BY <1>1, <2>1, <2>2
  <2> QED
    BY <2>3
<1>4. Bad = {} => \A i \in 1 .. m : g[i] = h[i]
  OBVIOUS
<1> HIDE DEF Bad
<1>5. Bad = {}
  BY <1>2, <1>3, NoFirstPlace
<1> QED
  BY <1>4, <1>5

LEMMA FlatToIs ==
  ASSUME NEW c \in Seq(Seq(Byte)), NEW n \in 1 .. Len(c)
  PROVE  \E g : IsFlat(g, c, n) /\ FlatTo(c, n) = g[n]
<1> DEFINE w == SubSeq(c, 1, n)
           E(f) == f = [i \in 1 .. Len(w) |->
                          IF i = 1 THEN w[i] ELSE Joined(f[i - 1], w[i])]
           g == CHOOSE f : E(f)
<1>1. w \in Seq(Seq(Byte)) /\ Len(w) = n /\ \A i \in 1 .. n : w[i] = c[i]
  OBVIOUS
<1> HIDE DEF w
<1>2. E(g)
  BY <1>1, FlatExists DEF IsFlat
<1>3. FlattenSeq(w) = g[Len(w)]
  BY <1>1 DEF FlattenSeq, Joined
<1> HIDE DEF g
<1>4. IsFlat(g, c, n)
  BY <1>1, <1>2 DEF IsFlat
<1> QED
  BY <1>1, <1>3, <1>4 DEF FlatTo, w

LEMMA FlatStep ==
  ASSUME NEW c \in Seq(Seq(Byte))
  PROVE  /\ FlatTo(c, 0) = << >> /\ FlatTo(c, Len(c)) = FlattenSeq(c)
         /\ \A n \in 1 .. Len(c) : FlatTo(c, n) = FlatTo(c, n - 1) \o c[n]
<1>1. FlatTo(c, 0) = << >>
  <2>1. SubSeq(c, 1, 0) = << >>
    OBVIOUS
  <2> QED
    BY <2>1 DEF FlatTo, FlattenSeq
<1>2. FlatTo(c, Len(c)) = FlattenSeq(c)
  <2>1. SubSeq(c, 1, Len(c)) = c
    OBVIOUS
  <2> QED
    BY <2>1 DEF FlatTo
<1>3. ASSUME NEW n \in 1 .. Len(c) PROVE FlatTo(c, n) = Joined(FlatTo(c, n - 1), c[n])
  <2>1. PICK g : IsFlat(g, c, n) /\ FlatTo(c, n) = g[n]
    BY FlatToIs
  <2>2. \A i \in 1 .. n : g[i] = IF i = 1 THEN c[i] ELSE Joined(g[i - 1], c[i])
    BY <2>1 DEF IsFlat
  <2>3. CASE n = 1
    <3>1. FlatTo(c, 1) = c[1] /\ FlatTo(c, 1 - 1) = << >>
      BY <1>1, <2>1, <2>2, <2>3
    <3>2. c[1] \in Seq(Byte)
      BY <2>3
    <3>3. Joined(<< >>, c[1]) = c[1]
      BY <3>2 DEF Joined
    <3> QED
      BY <2>3, <3>1, <3>3
  <2>4. CASE n # 1
    <3>1. n - 1 \in 1 .. Len(c) /\ n - 1 \in 0 .. n /\ n \in 0 .. Len(c)
      BY <2>4
    <3>2. PICK h : IsFlat(h, c, n - 1) /\ FlatTo(c, n - 1) = h[n - 1]
      BY <3>1, FlatToIs
    <3>3. g[n - 1] = h[n - 1]
      <4>1. n - 1 \in 1 .. n - 1
        BY <3>1
      <4> QED
        BY <2>1, <3>1, <3>2, <4>1, FlatUnique
    <3> QED
      BY <2>1, <2>2, <2>4, <3>2, <3>3
  <2> QED
    BY <2>3, <2>4
<1> QED
  BY <1>1, <1>2, <1>3 DEF Joined

LEMMA FlatType ==
  ASSUME NEW c \in Seq(Seq(Byte))
  PROVE  \A n \in 0 .. Len(c) : FlatTo(c, n) \in Seq(Byte)
<1> DEFINE Bad == {n \in 0 .. Len(c) : FlatTo(c, n) \notin Seq(Byte)}
<1>1. 0 \notin Bad
  <2>1. FlatTo(c, 0) = << >>
    BY FlatStep
  <2>2. << >> \in Seq(Byte)
    OBVIOUS
  <2>3. FlatTo(c, 0) \in Seq(Byte)
    BY <2>1, <2>2
  <2> QED
    BY <2>3
<1>2. ASSUME NEW n \in 1 .. Len(c), n - 1 \notin Bad PROVE n \notin Bad
  <2>1. FlatTo(c, n - 1) \in Seq(Byte)
    BY <1>2
  <2>2. c[n] \in Seq(Byte)
    OBVIOUS
  <2>3. FlatTo(c, n) = FlatTo(c, n - 1) \o c[n]
    BY FlatStep
  <2>4. FlatTo(c, n) \in Seq(Byte)
    BY <2>1, <2>2, <2>3, ConcatProperties
  <2> QED
    BY <2>4
<1>3. Bad \in SUBSET (0 .. Len(c)) /\ Len(c) \in Nat
  OBVIOUS
<1>4. Bad = {} => \A n \in 0 .. Len(c) : FlatTo(c, n) \in Seq(Byte)
  OBVIOUS
<1> HIDE DEF Bad
<1>5. Bad = {}
  BY <1>1, <1>2, <1>3, NoFirstPlace
<1> QED
  BY <1>4, <1>5

LEMMA FlatGrows ==
  ASSUME NEW c \in Seq(Seq(Byte)), NEW n \in 1 .. Len(c)
  PROVE  Len(FlatTo(c, n)) = Len(FlatTo(c, n - 1)) + Len(c[n])
<1>1. FlatTo(c, n - 1) \in Seq(Byte) /\ c[n] \in Seq(Byte)
  BY FlatType
<1>2. FlatTo(c, n) = FlatTo(c, n - 1) \o c[n]
  BY FlatStep
<1> QED
  BY <1>1, <1>2, ConcatProperties

LEMMA FlatFits ==
  ASSUME NEW c \in Seq(Seq(Byte))
  PROVE  \A n \in 0 .. Len(c) : Len(FlatTo(c, n)) <= Len(FlattenSeq(c))
<1> DEFINE L(n) == Len(FlatTo(c, n))
           N == Len(FlattenSeq(c))
           Bad == {k \in 0 .. Len(c) : ~(L(Len(c) - k) <= N)}
<1>1. /\ \A n \in 0 .. Len(c) : L(n) \in Nat
      /\ L(Len(c)) = N
      /\ \A n \in 1 .. Len(c) : L(n) = L(n - 1) + Len(c[n]) /\ Len(c[n]) \in Nat
  <2>1. \A n \in 1 .. Len(c) : c[n] \in Seq(Byte)
    OBVIOUS
  <2>2. \A n \in 1 .. Len(c) : Len(c[n]) \in Nat
    BY <2>1
  <2>3. \A n \in 0 .. Len(c) : L(n) \in Nat
    BY FlatType
  <2> QED
    BY <2>2, <2>3, FlatStep, FlatGrows
<1> HIDE DEF L, N
<1>2. Bad \in SUBSET (0 .. Len(c)) /\ Len(c) \in Nat
  OBVIOUS
<1>3. 0 \notin Bad
  BY <1>1, <1>2
<1>4. ASSUME NEW k \in 1 .. Len(c), k - 1 \notin Bad PROVE k \notin Bad
  <2> DEFINE n == Len(c) - (k - 1)
  <2>1. n \in 1 .. Len(c) /\ n - 1 \in 0 .. Len(c) /\ n - 1 = Len(c) - k
    OBVIOUS
  <2>2. L(n) <= N
    BY <1>4
  <2> HIDE DEF n
  <2>3. L(n - 1) <= N
    <3>1. L(n) = L(n - 1) + Len(c[n]) /\ Len(c[n]) \in Nat /\ L(n - 1) \in Nat
      BY <1>1, <2>1
    <3>2. N \in Nat
      BY <1>1, <1>2
    <3> QED
      BY <2>2, <3>1, <3>2
  <2> QED
    BY <2>1, <2>3
<1>5. Bad = {} => \A n \in 0 .. Len(c) : L(n) <= N
  <2> SUFFICES ASSUME Bad = {}, NEW n \in 0 .. Len(c) PROVE L(n) <= N
    OBVIOUS
  <2>1. Len(c) - n \in 0 .. Len(c) /\ Len(c) - (Len(c) - n) = n
    OBVIOUS
  <2> QED
    BY <2>1
<1> HIDE DEF Bad
<1>6. Bad = {}
  BY <1>2, <1>3, <1>4, NoFirstPlace
<1> QED
  BY <1>5, <1>6 DEF L, N

LEMMA FlatWhole ==
  ASSUME NEW c \in Seq(Seq(Byte))
  PROVE  FlattenSeq(c) \in Seq(Byte)
<1>1. Len(c) \in 0 .. Len(c)
  OBVIOUS
<1>2. FlatTo(c, Len(c)) \in Seq(Byte)
  BY <1>1, FlatType
<1> QED
  BY <1>2, FlatStep

(***************************************************************************)
(* From place j of the key there is room for pbuf n, when the whole frame  *)
(* ends with the key.                                                      *)
(***************************************************************************)
LEMMA FlatRoom ==
  ASSUME NEW c \in Seq(Seq(Byte)), NEW n \in 1 .. Len(c), NEW j \in Nat,
         j + Len(FlattenSeq(c)) <= KeySize
  PROVE  /\ c[n] \in Seq(Byte) /\ FlatTo(c, n - 1) \in Seq(Byte)
         /\ j + Len(FlatTo(c, n - 1)) \in Nat
         /\ j + Len(FlatTo(c, n - 1)) + Len(c[n]) <= KeySize
<1> DEFINE before == Len(FlatTo(c, n - 1))
           here == Len(c[n])
           all == Len(FlattenSeq(c))
<1>1. n - 1 \in 0 .. Len(c) /\ n \in 0 .. Len(c)
  OBVIOUS
<1>2. FlatTo(c, n - 1) \in Seq(Byte) /\ c[n] \in Seq(Byte)
  BY <1>1, FlatType
<1>3. FlattenSeq(c) \in Seq(Byte)
  BY FlatWhole
<1>4. before \in Nat /\ here \in Nat /\ all \in Nat /\ KeySize \in Nat
  BY <1>2, <1>3, KeyFacts
<1>5. Len(FlatTo(c, n)) = before + here
  BY FlatGrows
<1>6. Len(FlatTo(c, n)) <= all
  BY <1>1, FlatFits
<1>7. j + all <= KeySize
  OBVIOUS
<1> HIDE DEF before, here, all
<1>8. j + before \in Nat /\ j + before + here <= KeySize
  BY <1>4, <1>5, <1>6, <1>7
<1> QED
  BY <1>2, <1>8 DEF before, here

(***************************************************************************)
(* The key laid along s from its place j.  Along two parts of a frame it   *)
(* runs on, which is what j does in sbuf_key_xor.                          *)
(***************************************************************************)
PbufXor(s, j) == [k \in DOMAIN s |-> ByteXor(s[k], key[j + k - 1])]

LEMMA PbufXorFacts ==
  ASSUME NEW a \in Seq(Byte), NEW j \in Nat, j + Len(a) <= KeySize
  PROVE  /\ PbufXor(a, j) \in Seq(Byte) /\ Len(PbufXor(a, j)) = Len(a)
         /\ \A k \in 1 .. Len(a) : PbufXor(a, j)[k] = ByteXor(a[k], key[j + k - 1])
<1>1. ASSUME NEW k \in 1 .. Len(a) PROVE ByteXor(a[k], key[j + k - 1]) \in Byte
  <2>1. j + k - 1 \in 0 .. KeySize - 1 /\ a[k] \in Byte
    BY KeyFacts
  <2> QED
    BY <2>1, KeyFacts, XorTwice
<1>2. PbufXor(a, j) = [k \in 1 .. Len(a) |-> ByteXor(a[k], key[j + k - 1])]
  BY DEF PbufXor
<1> QED
  BY <1>1, <1>2

LEMMA PbufXorRunsOn ==
  ASSUME NEW s \in Seq(Byte), NEW t \in Seq(Byte), NEW j \in Nat,
         j + Len(s) + Len(t) <= KeySize
  PROVE  PbufXor(s \o t, j) = PbufXor(s, j) \o PbufXor(t, j + Len(s))
<1> DEFINE n == Len(s) + Len(t)
           st == s \o t
           x == PbufXor(s, j)
           y == PbufXor(t, j + Len(s))
           u == PbufXor(st, j)
           v == x \o y
<1>1. KeySize \in Nat /\ n \in Nat /\ Len(s) \in Nat /\ Len(t) \in Nat
  BY KeyFacts
<1>2. /\ st \in Seq(Byte) /\ Len(st) = n
      /\ \A i \in 1 .. n : st[i] = IF i <= Len(s) THEN s[i] ELSE t[i - Len(s)]
  BY ConcatProperties
<1>3. /\ x \in Seq(Byte) /\ Len(x) = Len(s)
      /\ \A k \in 1 .. Len(s) : x[k] = ByteXor(s[k], key[j + k - 1])
  <2>1. j + Len(s) <= KeySize
    BY <1>1
  <2> QED
    BY <2>1, PbufXorFacts
<1>4. /\ y \in Seq(Byte) /\ Len(y) = Len(t)
      /\ \A k \in 1 .. Len(t) : y[k] = ByteXor(t[k], key[j + Len(s) + k - 1])
  <2>1. j + Len(s) \in Nat
    BY <1>1
  <2> QED
    BY <2>1, PbufXorFacts
<1> HIDE DEF st
<1>5. /\ u \in Seq(Byte) /\ Len(u) = n
      /\ \A i \in 1 .. n : u[i] = ByteXor(st[i], key[j + i - 1])
  <2>1. j + Len(st) <= KeySize
    BY <1>1, <1>2
  <2>2. /\ u \in Seq(Byte) /\ Len(u) = Len(st)
        /\ \A i \in 1 .. Len(st) : u[i] = ByteXor(st[i], key[j + i - 1])
    BY <1>2, <2>1, PbufXorFacts
  <2> HIDE DEF u
  <2> QED
    BY <1>2, <2>2
<1> HIDE DEF x, y, u
<1>6. /\ v \in Seq(Byte) /\ Len(v) = n
      /\ \A i \in 1 .. n : v[i] = IF i <= Len(s) THEN x[i] ELSE y[i - Len(s)]
  <2>1. /\ v \in Seq(Byte) /\ Len(v) = Len(x) + Len(y)
        /\ \A i \in 1 .. Len(x) + Len(y) :
             v[i] = IF i <= Len(x) THEN x[i] ELSE y[i - Len(x)]
    BY <1>3, <1>4, ConcatProperties
  <2> HIDE DEF v
  <2> QED
    BY <1>3, <1>4, <2>1
<1> HIDE DEF v
<1>7. ASSUME NEW i \in 1 .. n PROVE u[i] = v[i]
  <2>1. CASE i <= Len(s)
    <3>1. i \in 1 .. Len(s)
      BY <2>1
    <3> QED
      BY <1>2, <1>3, <1>5, <1>6, <2>1, <3>1
  <2>2. CASE i > Len(s)
    <3>1. /\ i - Len(s) \in 1 .. Len(t) /\ ~(i <= Len(s))
          /\ j + Len(s) + (i - Len(s)) - 1 = j + i - 1
      BY <1>1, <2>2
    <3>2. y[i - Len(s)] = ByteXor(t[i - Len(s)], key[j + i - 1])
      BY <1>4, <3>1
    <3> QED
      BY <1>2, <1>5, <1>6, <3>1, <3>2
  <2> QED
    BY <1>1, <2>1, <2>2
<1>8. u = v
  BY <1>5, <1>6, <1>7
<1> QED
  BY <1>8 DEF u, v, x, y, st

LEMMA ChainXor ==
  ASSUME NEW c \in Seq(Seq(Byte)), Len(FlattenSeq(c)) <= KeySize
  PROVE  /\ sbuf_key_xor(c) \in Seq(Seq(Byte)) /\ Len(sbuf_key_xor(c)) = Len(c)
         /\ \A p \in 1 .. Len(c) :
              sbuf_key_xor(c)[p]
                = PbufXor(c[p], KeySize - Len(FlattenSeq(c)) + Len(FlatTo(c, p - 1)))
<1> DEFINE N == Len(FlattenSeq(c))
           j(p) == KeySize - N + Len(FlatTo(c, p - 1))
           d == sbuf_key_xor(c)
<1>1. d = [p \in 1 .. Len(c) |-> PbufXor(c[p], j(p))]
  BY DEF sbuf_key_xor, PbufXor, FlatTo
<1>2. KeySize - N \in Nat /\ KeySize - N + N <= KeySize
  <2>1. N \in Nat /\ KeySize \in Nat /\ N <= KeySize
    BY FlatWhole, KeyFacts
  <2> HIDE DEF N
  <2> QED
    BY <2>1
<1>3. ASSUME NEW p \in 1 .. Len(c) PROVE PbufXor(c[p], j(p)) \in Seq(Byte)
  <2>1. c[p] \in Seq(Byte) /\ j(p) \in Nat /\ j(p) + Len(c[p]) <= KeySize
    BY <1>2, FlatRoom
  <2> HIDE DEF j
  <2> QED
    BY <2>1, PbufXorFacts
<1> HIDE DEF d
<1>4. d \in Seq(Seq(Byte)) /\ Len(d) = Len(c)
  BY <1>1, <1>3
<1> QED
  BY <1>1, <1>4 DEF d

LEMMA ChainAgrees ==
  ASSUME NEW c \in Seq(Seq(Byte)), Len(FlattenSeq(c)) <= KeySize
  PROVE  FlattenSeq(sbuf_key_xor(c)) = key_xor(FlattenSeq(c))
<1> DEFINE N == Len(FlattenSeq(c))
           j == KeySize - N
           d == sbuf_key_xor(c)
           Bad == {n \in 0 .. Len(c) : FlatTo(d, n) # PbufXor(FlatTo(c, n), j)}
<1>1. /\ d \in Seq(Seq(Byte)) /\ Len(d) = Len(c)
      /\ \A p \in 1 .. Len(c) : d[p] = PbufXor(c[p], j + Len(FlatTo(c, p - 1)))
  BY ChainXor
<1> HIDE DEF d
<1>2. FlattenSeq(c) \in Seq(Byte)
  BY FlatWhole
<1>3. KeySize \in Nat /\ N \in Nat /\ j \in Nat /\ j + N <= KeySize
  <2>1. KeySize \in Nat /\ N \in Nat /\ N <= KeySize
    BY <1>2, KeyFacts
  <2> HIDE DEF N
  <2> QED
    BY <2>1
<1>4. 0 \notin Bad
  <2>1. FlatTo(d, 0) = << >> /\ FlatTo(c, 0) = << >>
    BY <1>1, FlatStep
  <2>2. PbufXor(<< >>, j) = << >>
    BY DEF PbufXor
  <2> QED
    BY <2>1, <2>2
<1>5. ASSUME NEW n \in 1 .. Len(c), n - 1 \notin Bad PROVE n \notin Bad
  <2> DEFINE s == FlatTo(c, n - 1)
  <2>1. n - 1 \in 0 .. Len(c)
    OBVIOUS
  <2>2. FlatTo(d, n - 1) = PbufXor(s, j)
    BY <1>5, <2>1
  <2>3. FlatTo(c, n) = s \o c[n]
    BY FlatStep
  <2>4. FlatTo(d, n) = FlatTo(d, n - 1) \o d[n]
    BY <1>1, FlatStep
  <2>5. d[n] = PbufXor(c[n], j + Len(s))
    BY <1>1
  <2>6. s \in Seq(Byte) /\ c[n] \in Seq(Byte)
    BY <2>1, FlatType
  <2>7. j + Len(s) + Len(c[n]) <= KeySize
    BY <1>3, FlatRoom
  <2> HIDE DEF s, N, j
  <2>8. PbufXor(s \o c[n], j) = PbufXor(s, j) \o PbufXor(c[n], j + Len(s))
    BY <1>3, <2>6, <2>7, PbufXorRunsOn
  <2>9. FlatTo(d, n) = PbufXor(FlatTo(c, n), j)
    BY <2>2, <2>3, <2>4, <2>5, <2>8
  <2> QED
    BY <2>9
<1>6. Bad \in SUBSET (0 .. Len(c)) /\ Len(c) \in 0 .. Len(c) /\ Len(c) \in Nat
  OBVIOUS
<1>7. Bad = {} => FlatTo(d, Len(c)) = PbufXor(FlatTo(c, Len(c)), j)
  BY <1>6
<1> HIDE DEF Bad
<1>8. Bad = {}
  BY <1>4, <1>5, <1>6, NoFirstPlace
<1>9. FlattenSeq(d) = PbufXor(FlattenSeq(c), j)
  BY <1>1, <1>7, <1>8, FlatStep
<1>10. PbufXor(FlattenSeq(c), j) = key_xor(FlattenSeq(c))
  BY DEF PbufXor, key_xor
<1> QED
  BY <1>9, <1>10 DEF d

(***************************************************************************)
(* The inductive invariant.  It follows one frame: the packet the sender   *)
(* makes of it, what the line made of the packet, and what if_api_check    *)
(* said.                                                                   *)
(***************************************************************************)
Flat == FlattenSeq(chain)
Packed == if_api_calculate_checksum(Flat)

Fits == Len(Flat) <= MaxLen

\* What the record of the damage says of buf.
DamageIs ==
  /\ damage = NoDamage => buf = Packed
  /\ damage.kind = "change"
       => \E k \in 1 .. Len(Packed), b \in Byte :
            /\ b # Packed[k] /\ Changed(Packed, k, b, buf)
            /\ damage.at = k /\ damage.delta = b - Packed[k]

PackedOnLine == stage = "line" => buf = Packed /\ damage = NoDamage
Arrived == stage \notin {"output", "line"} => DamageIs
Judged == /\ stage \in {"accepted", "tunnelled"} => len = if_api_check(buf) /\ len >= 0
          /\ stage = "rejected" => if_api_check(buf) = -1
Combined == stage = "tunnelled" => tunnelled = key_xor(SubSeq(buf, 1, len))

CodecInv == /\ CodecTypeOK /\ Fits
            /\ (stage = "output" => damage = NoDamage)
            /\ PackedOnLine /\ Arrived /\ Judged /\ Combined

LEMMA FlatFacts ==
  ASSUME CodecTypeOK, Fits
  PROVE  chain \in Seq(Seq(Byte)) /\ Flat \in Seq(Byte) /\ Len(Flat) <= MaxLen
<1>1. chain \in Seq(Seq(Byte))
  BY DEF CodecTypeOK
<1> QED
  BY <1>1, FlatWhole DEF Flat, Fits

LEMMA PackedFacts ==
  ASSUME CodecTypeOK, Fits
  PROVE  /\ Packed \in Seq(Byte) /\ Len(Packed) = Len(Flat) + 2
         /\ Len(Packed) <= MaxLen + 2
         /\ if_api_check(Packed) = Len(Flat) /\ SubSeq(Packed, 1, Len(Flat)) = Flat
<1>1. front \in Nat /\ Flat \in Seq(Byte) /\ Len(Flat) <= MaxLen
  BY FlatFacts DEF CodecTypeOK
<1>2. /\ Packed \in Seq(Byte) /\ Len(Packed) = Len(Flat) + 2
      /\ SubSeq(Packed, 1, Len(Flat)) = Flat
  BY <1>1, CalculateFacts DEF Packed
<1>3. if_api_check(Packed) = Len(Flat)
  BY <1>1, CheckUndoes DEF Packed
<1> QED
  BY <1>1, <1>2, <1>3, KeyFacts

(***************************************************************************)
(* No step touches the frame itself.                                       *)
(***************************************************************************)
LEMMA FrameKept ==
  ASSUME chain' = chain, front' = front
  PROVE  /\ Flat' = Flat /\ Packed' = Packed /\ (Fits' <=> Fits)
         /\ (buf' = buf => if_api_check(buf)' = if_api_check(buf))
  BY DEF Flat, Packed, Fits, if_api_check, if_api_calculate_checksum, SumOf

LEMMA SliceFacts ==
  ASSUME NEW s \in Seq(Byte), NEW a \in 0 .. Len(s), NEW b \in 0 .. Len(s), a <= b
  PROVE  SubSeq(s, a + 1, b) \in Seq(Byte) /\ Len(SubSeq(s, a + 1, b)) = b - a
  OBVIOUS

(***************************************************************************)
(* However a frame is cut into a chain, what lies in front of a cut is as  *)
(* long as the cut says.                                                   *)
(***************************************************************************)
CutAt(s, n, cuts, c) ==
  /\ cuts \in [0 .. n -> 0 .. Len(s)]
  /\ cuts[0] = 0 /\ cuts[n] = Len(s)
  /\ \A p \in 1 .. n : cuts[p - 1] <= cuts[p]
  /\ c = [p \in 1 .. n |-> SubSeq(s, cuts[p - 1] + 1, cuts[p])]

LEMMA CutLengths ==
  ASSUME NEW s \in Seq(Byte), NEW n \in Nat \ {0}, NEW cuts, NEW c,
         CutAt(s, n, cuts, c)
  PROVE  c \in Seq(Seq(Byte)) /\ Len(FlattenSeq(c)) = Len(s)
<1>1. ASSUME NEW p \in 1 .. n
      PROVE  /\ c[p] \in Seq(Byte) /\ Len(c[p]) = cuts[p] - cuts[p - 1]
             /\ cuts[p - 1] \in Int /\ cuts[p] \in Int
  <2>1. /\ cuts[p - 1] \in 0 .. Len(s) /\ cuts[p] \in 0 .. Len(s)
        /\ cuts[p - 1] <= cuts[p]
    BY DEF CutAt
  <2>2. c[p] = SubSeq(s, cuts[p - 1] + 1, cuts[p])
    BY DEF CutAt
  <2> QED
    BY <2>1, <2>2, SliceFacts
<1>2. c \in Seq(Seq(Byte)) /\ Len(c) = n
  <2>1. c = [p \in 1 .. n |-> c[p]]
    BY DEF CutAt
  <2> QED
    BY <1>1, <2>1
<1> DEFINE Bad == {p \in 0 .. n : Len(FlatTo(c, p)) # cuts[p]}
<1>3. 0 \notin Bad
  <2>1. FlatTo(c, 0) = << >>
    BY <1>2, FlatStep
  <2>2. Len(<< >>) = 0 /\ cuts[0] = 0
    BY DEF CutAt
  <2> QED
    BY <2>1, <2>2
<1>4. ASSUME NEW p \in 1 .. n, p - 1 \notin Bad PROVE p \notin Bad
  <2>1. Len(FlatTo(c, p - 1)) = cuts[p - 1]
    <3>1. p - 1 \in 0 .. n
      OBVIOUS
    <3> QED
      BY <1>4, <3>1
  <2>2. Len(FlatTo(c, p)) = Len(FlatTo(c, p - 1)) + Len(c[p])
    BY <1>2, FlatGrows
  <2>3. Len(c[p]) = cuts[p] - cuts[p - 1] /\ cuts[p - 1] \in Int /\ cuts[p] \in Int
    BY <1>1
  <2>4. cuts[p - 1] + (cuts[p] - cuts[p - 1]) = cuts[p]
    BY <2>3
  <2>5. Len(FlatTo(c, p)) = cuts[p]
    BY <2>1, <2>2, <2>3, <2>4
  <2> QED
    BY <2>5
<1>5. Bad \in SUBSET (0 .. n)
  OBVIOUS
<1>6. Bad = {} => Len(FlatTo(c, n)) = cuts[n]
  <2>1. n \in 0 .. n
    OBVIOUS
  <2> QED
    BY <2>1
<1> HIDE DEF Bad
<1>7. Bad = {}
  BY <1>3, <1>4, <1>5, NoFirstPlace
<1>8. cuts[n] = Len(s)
  BY DEF CutAt
<1> QED
  BY <1>2, <1>6, <1>7, <1>8, FlatStep

LEMMA InitInv == CodecInit => CodecInv
<1> SUFFICES ASSUME CodecInit PROVE CodecInv
  OBVIOUS
<1>1. PICK s \in BoundedSeq(Bytes, MaxLen), n \in 1 .. MaxPbufs :
      \E cuts : CutAt(s, n, cuts, chain)
  BY DEF CodecInit, CutAt
<1>2. s \in Seq(Byte) /\ Len(s) <= MaxLen
  BY CodecAssumption DEF BoundedSeq, SeqOf
<1>3. n \in Nat \ {0}
  BY CodecAssumption
<1>4. chain \in Seq(Seq(Byte)) /\ Len(FlattenSeq(chain)) = Len(s)
  BY <1>1, <1>2, <1>3, CutLengths
<1>5. Fits
  BY <1>2, <1>4 DEF Fits, Flat
<1>6. CodecTypeOK
  <2>1. /\ stage = "output" /\ front \in Nat /\ buf = << >> /\ damage = NoDamage
        /\ len = 0 /\ tunnelled = << >>
    BY CodecAssumption DEF CodecInit
  <2>2. << >> \in Seq(Byte) /\ Len(<< >>) = 0 /\ 0 <= MaxLen + 2 /\ 0 \in -1 .. MaxLen
    BY CodecAssumption
  <2> QED
    BY <1>4, <2>1, <2>2 DEF CodecTypeOK, NoDamage
<1> QED
  BY <1>5, <1>6 DEF CodecInit, CodecInv, PackedOnLine, Arrived, Judged, Combined

LEMMA InvStep ==
  ASSUME CodecInv, [CodecNext]_codecVars
  PROVE  CodecInv'
<1>1. CodecTypeOK /\ Fits
  BY DEF CodecInv
<1>2. /\ Packed \in Seq(Byte) /\ Len(Packed) <= MaxLen + 2
      /\ KeySize \in Nat /\ MaxLen \in Nat /\ MaxLen <= KeySize
  BY <1>1, PackedFacts, KeyFacts
<1>3. chain' = chain /\ front' = front
  BY DEF CodecNext, codecVars, ethoslipif_low_level_output, Transfer, Check, Tunnel
<1>4. /\ Flat' = Flat /\ Packed' = Packed /\ Fits'
      /\ (buf' = buf => if_api_check(buf)' = if_api_check(buf))
  BY <1>1, <1>3, FrameKept
<1>5. CASE ethoslipif_low_level_output
  <2>1. buf' = Packed /\ damage' = NoDamage /\ stage' = "line"
    BY <1>5 DEF ethoslipif_low_level_output, Packed, Flat, CodecInv
  <2>2. CodecTypeOK'
    BY <1>1, <1>2, <1>5, <2>1 DEF ethoslipif_low_level_output, CodecTypeOK
  <2> QED
    BY <1>4, <2>1, <2>2 DEF CodecInv, PackedOnLine, Arrived, Judged, Combined
<1>6. CASE Transfer
  <2>1. /\ stage = "line" /\ buf = Packed /\ damage = NoDamage
        /\ stage' = "check" /\ len' = len /\ tunnelled' = tunnelled
    BY <1>6 DEF Transfer, CodecInv, PackedOnLine
  <2>2. CASE UNCHANGED <<buf, damage>>
    <3>1. CodecTypeOK'
      BY <1>1, <1>3, <2>1, <2>2 DEF CodecTypeOK
    <3>2. DamageIs'
      BY <1>4, <2>1, <2>2 DEF DamageIs, NoDamage
    <3> QED
      BY <1>4, <2>1, <3>1, <3>2 DEF CodecInv, PackedOnLine, Arrived, Judged, Combined
  <2>3. ASSUME NEW k \in DOMAIN buf, NEW b \in Bytes \ {buf[k]},
               buf' = [buf EXCEPT ![k] = b],
               damage' = [kind |-> "change", at |-> k, delta |-> b - buf[k]]
        PROVE  CodecInv'
    <3>1. k \in 1 .. Len(Packed) /\ b \in Byte /\ b # Packed[k]
      BY <1>2, <2>1, CodecAssumption
    <3>2. buf' \in Seq(Byte) /\ Len(buf') = Len(Packed)
      BY <1>2, <2>1, <2>3, <3>1
    <3>3. b - Packed[k] \in Int /\ k \in Nat
      BY <1>2, <3>1, ByteIs
    <3>4. CodecTypeOK'
      BY <1>1, <1>2, <1>3, <2>1, <2>3, <3>2, <3>3 DEF CodecTypeOK
    <3>5. Changed(Packed, k, b, buf')
      BY <2>1, <2>3 DEF Changed
    <3>6. damage'.kind = "change" /\ damage'.at = k /\ damage'.delta = b - Packed[k]
      BY <2>1, <2>3
    <3>7. damage' # NoDamage
      BY <3>6 DEF NoDamage
    <3>8. DamageIs'
      BY <1>4, <3>1, <3>5, <3>6, <3>7 DEF DamageIs
    <3> QED
      BY <1>4, <2>1, <3>4, <3>8 DEF CodecInv, PackedOnLine, Arrived, Judged, Combined
  <2>4. ASSUME NEW k \in 1 .. Len(buf) - 1,
               buf' = [buf EXCEPT ![k] = buf[k + 1], ![k + 1] = buf[k]],
               damage' = [kind |-> "exchange", at |-> k, delta |-> 0]
        PROVE  CodecInv'
    <3>1. buf' \in Seq(Byte) /\ Len(buf') = Len(Packed)
      BY <1>2, <2>1, <2>4
    <3>2. CodecTypeOK'
      BY <1>1, <1>2, <1>3, <2>1, <2>4, <3>1 DEF CodecTypeOK
    <3>3. DamageIs'
      BY <2>4 DEF DamageIs, NoDamage
    <3> QED
      BY <1>4, <2>1, <3>2, <3>3 DEF CodecInv, PackedOnLine, Arrived, Judged, Combined
  <2>5. ASSUME NEW k \in 0 .. Len(buf) - 1,
               buf' = SubSeq(buf, 1, k),
               damage' = [kind |-> "cut", at |-> k, delta |-> 0]
        PROVE  CodecInv'
    <3>1. buf' \in Seq(Byte) /\ Len(buf') <= Len(Packed)
      BY <1>2, <2>1, <2>5
    <3>2. CodecTypeOK'
      BY <1>1, <1>2, <1>3, <2>1, <2>5, <3>1 DEF CodecTypeOK
    <3>3. DamageIs'
      BY <2>5 DEF DamageIs, NoDamage
    <3> QED
      BY <1>4, <2>1, <3>2, <3>3 DEF CodecInv, PackedOnLine, Arrived, Judged, Combined
  <2> QED
    BY <1>6, <2>2, <2>3, <2>4, <2>5 DEF Transfer
<1>7. CASE Check
  <2>1. /\ stage = "check" /\ buf' = buf /\ damage' = damage /\ tunnelled' = tunnelled
        /\ len' = if_api_check(buf)
        /\ stage' = IF len' >= 0 THEN "accepted" ELSE "rejected"
    BY <1>7 DEF Check
  <2>2. /\ buf \in Seq(Byte) /\ Len(buf) <= MaxLen + 2 /\ front \in Nat
    BY <1>1 DEF CodecTypeOK
  <2>3. /\ if_api_check(buf) \in {-1, Len(buf) - 2}
        /\ if_api_check(buf) # -1 => if_api_check(buf) >= 0
    BY <2>2, CheckFacts
  <2>4. len' \in -1 .. MaxLen /\ (~(len' >= 0) => len' = -1)
    BY <1>2, <2>1, <2>2, <2>3
  <2>5. CodecTypeOK'
    BY <1>1, <1>3, <2>1, <2>4 DEF CodecTypeOK
  <2>6. DamageIs'
    BY <1>4, <2>1 DEF CodecInv, Arrived, DamageIs
  <2>7. if_api_check(buf)' = len'
    BY <1>4, <2>1
  <2> QED
    BY <1>4, <2>1, <2>4, <2>5, <2>6, <2>7
    DEF CodecInv, PackedOnLine, Arrived, Judged, Combined
<1>8. CASE Tunnel
  <2>1. /\ stage = "accepted" /\ stage' = "tunnelled" /\ buf' = buf /\ damage' = damage
        /\ len' = len /\ tunnelled' = key_xor(SubSeq(buf, 1, len))
    BY <1>8 DEF Tunnel
  <2>2. /\ buf \in Seq(Byte) /\ front \in Nat /\ len \in -1 .. MaxLen
        /\ len = if_api_check(buf) /\ len >= 0
    BY <1>1, <2>1 DEF CodecInv, CodecTypeOK, Judged
  <2>3. len = Len(buf) - 2
    BY <2>2, CheckFacts
  <2>4. SubSeq(buf, 1, len) \in Seq(Byte) /\ Len(SubSeq(buf, 1, len)) <= KeySize
    BY <1>2, <2>2, <2>3
  <2>5. tunnelled' \in Seq(Byte)
    BY <2>1, <2>4, KeyXorFacts
  <2>6. CodecTypeOK'
    BY <1>1, <1>3, <2>1, <2>5 DEF CodecTypeOK
  <2>7. DamageIs'
    BY <1>4, <2>1 DEF CodecInv, Arrived, DamageIs
  <2>8. Combined'
    BY <2>1 DEF Combined, key_xor
  <2>9. if_api_check(buf)' = len' /\ len' >= 0
    BY <1>4, <2>1, <2>2
  <2> QED
    BY <1>4, <2>1, <2>6, <2>7, <2>8, <2>9 DEF CodecInv, PackedOnLine, Arrived, Judged
<1>9. CASE UNCHANGED codecVars
  <2>1. /\ stage' = stage /\ buf' = buf /\ damage' = damage /\ len' = len
        /\ tunnelled' = tunnelled
    BY <1>9 DEF codecVars
  <2>2. CodecTypeOK'
    BY <1>1, <1>3, <2>1 DEF CodecTypeOK
  <2>3. DamageIs' <=> DamageIs
    BY <1>4, <2>1 DEF DamageIs
  <2>4. (Judged' <=> Judged) /\ (Combined' <=> Combined)
    BY <1>4, <2>1 DEF Judged, Combined, key_xor
  <2> QED
    BY <1>4, <2>1, <2>2, <2>3, <2>4 DEF CodecInv, PackedOnLine, Arrived
<1> QED
  BY <1>5, <1>6, <1>7, <1>8, <1>9 DEF CodecNext

LEMMA CodecInvariant == CodecSpec => []CodecInv
  BY InitInv, InvStep, PTL DEF CodecSpec

(***************************************************************************)
(* A frame that the line leaves alone passes if_api_check and is what the  *)
(* stack handed over, however long it is and over however many pbufs it is *)
(* spread.                                                                 *)
(***************************************************************************)
THEOREM IntactFrameAccepted == CodecSpec => []IntactAccepted
<1>1. ASSUME CodecInv PROVE IntactAccepted
  <2> SUFFICES ASSUME damage = NoDamage
               PROVE  /\ stage # "rejected"
                      /\ stage = "accepted" => SubSeq(buf, 1, len) = FlattenSeq(chain)
    BY DEF IntactAccepted
  <2>1. CodecTypeOK /\ Fits
    BY <1>1 DEF CodecInv
  <2>2. if_api_check(Packed) = Len(Flat) /\ SubSeq(Packed, 1, Len(Flat)) = Flat
    BY <2>1, PackedFacts
  <2>3. Len(Flat) \in Nat
    BY <2>1, FlatFacts
  <2>4. stage \in {"accepted", "rejected"} => buf = Packed
    BY <1>1 DEF CodecInv, Arrived, DamageIs
  <2>5. stage # "rejected"
    BY <1>1, <2>2, <2>3, <2>4 DEF CodecInv, Judged
  <2>6. stage = "accepted" => SubSeq(buf, 1, len) = Flat
    BY <1>1, <2>2, <2>4 DEF CodecInv, Judged
  <2> QED
    BY <2>5, <2>6 DEF Flat
<1> QED
  BY <1>1, CodecInvariant, PTL

(***************************************************************************)
(* One byte that the line changes is noticed by if_api_check, in the frame *)
(* and in the checksum itself, unless it is a byte of the frame that       *)
(* changed by 128: for frames of any length and any bytes.                 *)
(***************************************************************************)
THEOREM SingleChangeCaught == CodecSpec => []ChangeCaught
<1>1. ASSUME CodecInv PROVE ChangeCaught
  <2> SUFFICES ASSUME stage = "accepted", damage.kind = "change"
               PROVE  damage.at <= len /\ damage.delta \in {-128, 128}
    BY DEF ChangeCaught
  <2>1. CodecTypeOK /\ Fits
    BY <1>1 DEF CodecInv
  <2>2. front \in Nat /\ buf \in Seq(Byte) /\ Flat \in Seq(Byte)
    BY <2>1, FlatFacts DEF CodecTypeOK
  <2>3. Len(Packed) = Len(Flat) + 2
    BY <2>1, PackedFacts
  <2>4. len = if_api_check(buf) /\ len >= 0
    BY <1>1 DEF CodecInv, Judged
  <2>5. PICK k \in 1 .. Len(Packed), b \in Byte :
          /\ b # Packed[k] /\ Changed(Packed, k, b, buf)
          /\ damage.at = k /\ damage.delta = b - Packed[k]
    BY <1>1 DEF CodecInv, Arrived, DamageIs
  <2>6. k <= if_api_check(buf) /\ b - Packed[k] \in {-128, 128}
    BY <2>2, <2>3, <2>4, <2>5, ChangeSeen DEF Packed
  <2> QED
    BY <2>4, <2>5, <2>6
<1> QED
  BY <1>1, CodecInvariant, PTL

(***************************************************************************)
(* sbuf_key_xor on the chain and key_xor on the copy give the same bytes,  *)
(* and key_xor at the other end of the tunnel gives the frame back, for    *)
(* every frame that is no longer than the key.                             *)
(***************************************************************************)
THEOREM TunnelWaysAgree == CodecSpec => []TunnelAgrees
<1>1. ASSUME CodecInv PROVE TunnelAgrees
  <2> SUFFICES ASSUME stage = "tunnelled", damage = NoDamage
               PROVE  /\ tunnelled = FlattenSeq(sbuf_key_xor(chain))
                      /\ key_xor(tunnelled) = FlattenSeq(chain)
    BY DEF TunnelAgrees
  <2>1. CodecTypeOK /\ Fits
    BY <1>1 DEF CodecInv
  <2>2. if_api_check(Packed) = Len(Flat) /\ SubSeq(Packed, 1, Len(Flat)) = Flat
    BY <2>1, PackedFacts
  <2>3. buf = Packed /\ len = if_api_check(buf)
    BY <1>1 DEF CodecInv, Arrived, DamageIs, Judged
  <2>4. tunnelled = key_xor(SubSeq(buf, 1, len))
    BY <1>1 DEF CodecInv, Combined
  <2>5. tunnelled = key_xor(Flat)
    BY <2>2, <2>3, <2>4
  <2>6. chain \in Seq(Seq(Byte)) /\ Flat \in Seq(Byte) /\ Len(Flat) <= MaxLen
    BY <2>1, FlatFacts
  <2>7. Len(Flat) <= KeySize
    <3>1. Len(Flat) \in Nat
      BY <2>6
    <3> QED
      BY <2>6, <3>1, KeyFacts
  <2>8. key_xor(key_xor(Flat)) = Flat
    BY <2>6, <2>7, KeyXorTwice
  <2>9. FlattenSeq(sbuf_key_xor(chain)) = key_xor(Flat)
    BY <2>6, <2>7, ChainAgrees DEF Flat
  <2> QED
    BY <2>5, <2>8, <2>9 DEF Flat
<1> QED
  BY <1>1, CodecInvariant, PTL
=============================================================================
