---------------------------- MODULE UdpPieceProofs ----------------------------
(***************************************************************************)
(* Proofs about module UdpPiece, for every piece size, capacity and list   *)
(* of messages; what the ring does is taken from RingBufferProofs.         *)
(***************************************************************************)
EXTENDS UdpPiece, RingBufferProofs, FiniteSetTheorems

----------------------------------------------------------------------------
(* Arithmetic of pieces.  The provers are good at sums and bad at products *)
(* and quotients: these have names.                                        *)

At(i) == PIECE_FIX_SIZE * i
Quo(s) == s \div PIECE_FIX_SIZE
Rem(s) == s % PIECE_FIX_SIZE

(* Piece i + 1 starts where a full piece i ends.                           *)
LEMMA AtNext ==
  ASSUME NEW i \in Nat
  PROVE  /\ At(i) \in Nat /\ At(i + 1) = At(i) + PIECE_FIX_SIZE
         /\ At(0) = 0 /\ i =< At(i)
  <1>1. PIECE_FIX_SIZE \in Nat /\ PIECE_FIX_SIZE >= 1
    BY PieceAssumption
  <1>2. PIECE_FIX_SIZE * i \in Nat /\ PIECE_FIX_SIZE * 0 = 0
    BY <1>1
  <1>3. PIECE_FIX_SIZE * (i + 1) = PIECE_FIX_SIZE * i + PIECE_FIX_SIZE
    BY <1>1
  <1>4. i =< PIECE_FIX_SIZE * i
    BY <1>1
  <1> QED BY <1>2, <1>3, <1>4 DEF At

(* Pieces lie one behind the other.                                        *)
LEMMA AtGrows ==
  ASSUME NEW a \in Nat, NEW b \in Nat, a =< b
  PROVE  At(a) =< At(b)
  <1> DEFINE c == b - a
  <1>1. c \in Nat /\ b = a + c /\ PIECE_FIX_SIZE \in Nat
    BY PieceAssumption
  <1> HIDE DEF c
  <1>2. PIECE_FIX_SIZE * (a + c) = PIECE_FIX_SIZE * a + PIECE_FIX_SIZE * c
    BY <1>1
  <1>3. PIECE_FIX_SIZE * c \in Nat /\ PIECE_FIX_SIZE * a \in Nat
    BY <1>1
  <1>4. At(b) = At(a) + At(c) /\ At(a) \in Nat /\ At(c) \in Nat
    BY <1>1, <1>2, <1>3 DEF At
  <1> QED BY <1>4

(* Division by the piece size.                                             *)
LEMMA Divide ==
  ASSUME NEW s \in Nat
  PROVE  /\ Quo(s) \in Nat /\ Rem(s) \in 0 .. PIECE_FIX_SIZE - 1
         /\ s = At(Quo(s)) + Rem(s)
  <1> DEFINE p == PIECE_FIX_SIZE
             q == s \div p
             r == s % p
  <1>1. p \in Nat /\ p >= 1
    BY PieceAssumption
  <1> HIDE DEF p
  <1>2. q \in Int /\ r \in 0 .. p - 1 /\ s = p * q + r
    BY <1>1
  <1> HIDE DEF q, r
  <1>3. q >= 0
    BY <1>1, <1>2
  <1> QED BY <1>2, <1>3 DEF p, q, r, At, Quo, Rem

(* The number of pieces fits into its field, the last piece is the last.   *)
LEMMA CutFits ==
  ASSUME NEW s \in Nat, 0 < s, s < 65536
  PROVE  /\ Cut(s) \in Nat /\ 0 < Cut(s) /\ Cut(s) < 65536
         /\ Cut(s) = IF Rem(s) > 0 THEN Quo(s) + 1 ELSE Quo(s)
  <1>1. PIECE_FIX_SIZE \in Nat /\ PIECE_FIX_SIZE >= 1
    BY PieceAssumption
  <1>2. Quo(s) \in Nat /\ Rem(s) \in 0 .. PIECE_FIX_SIZE - 1 /\ s = At(Quo(s)) + Rem(s)
    BY Divide
  <1>3. Cut(s) = IF Rem(s) > 0 THEN Quo(s) + 1 ELSE Quo(s)
    BY DEF Cut, Rem, Quo
  <1>4. Quo(s) =< At(Quo(s)) /\ At(Quo(s)) \in Nat /\ At(0) = 0
    BY <1>2, AtNext
  <1> QED BY <1>1, <1>2, <1>3, <1>4

(* Where the pieces of a message lie: all but the last are full, and the   *)
(* last ends where the message ends (udp_piece_cut, udp_piece_get).        *)
LEMMA PiecesFit ==
  ASSUME NEW s \in Nat, 0 < s, s < 65536, NEW i \in 0 .. Cut(s) - 1
  PROVE  /\ PieceSize(s, i) \in 1 .. PIECE_FIX_SIZE
         /\ At(i) \in Nat
         /\ At(i) + PieceSize(s, i) =< s
         /\ i < Cut(s) - 1 => PieceSize(s, i) = PIECE_FIX_SIZE
         /\ i = Cut(s) - 1 => At(i) + PieceSize(s, i) = s
  <1> DEFINE p == PIECE_FIX_SIZE
  <1>1. p \in Nat /\ p >= 1
    BY PieceAssumption
  <1>2. Quo(s) \in Nat /\ Rem(s) \in 0 .. p - 1 /\ s = At(Quo(s)) + Rem(s)
    BY Divide
  <1>3. Cut(s) \in Nat /\ 0 < Cut(s) /\ Cut(s) < 65536 /\ Cut(s) = IF Rem(s) > 0 THEN Quo(s) + 1 ELSE Quo(s)
    BY CutFits
  <1>4. PieceSize(s, i) = IF i = Cut(s) - 1 /\ Rem(s) > 0 THEN Rem(s) ELSE p
    BY DEF PieceSize, Rem
  <1>5. i \in Nat /\ i =< Quo(s)
    BY <1>2, <1>3
  <1>6. At(i) \in Nat /\ At(Quo(s)) \in Nat /\ At(i + 1) = At(i) + p
    BY <1>2, <1>5, AtNext
  <1> HIDE DEF p
  <1>7. CASE i = Cut(s) - 1
    <2>1. CASE Rem(s) > 0
      <3>1. i = Quo(s) /\ PieceSize(s, i) = Rem(s)
        BY <1>2, <1>3, <1>4, <1>7, <2>1
      <3>2. At(i) + PieceSize(s, i) = s /\ PieceSize(s, i) \in 1 .. p
        BY <1>1, <1>2, <2>1, <3>1
      <3> QED BY <1>3, <1>6, <1>7, <3>2 DEF p
    <2>2. CASE ~(Rem(s) > 0)
      <3>1. Quo(s) = i + 1 /\ s = At(Quo(s)) /\ PieceSize(s, i) = p
        BY <1>2, <1>3, <1>4, <1>5, <1>6, <1>7, <2>2
      <3>2. At(i) + PieceSize(s, i) = s /\ PieceSize(s, i) \in 1 .. p
        BY <1>1, <1>6, <3>1
      <3> QED BY <1>3, <1>6, <1>7, <3>2 DEF p
    <2> QED BY <2>1, <2>2
  <1>8. CASE i # Cut(s) - 1
    <2>1. i + 1 =< Quo(s) /\ i < Cut(s) - 1 /\ PieceSize(s, i) = p
      BY <1>2, <1>3, <1>4, <1>5, <1>8
    <2>2. At(i + 1) =< At(Quo(s))
      BY <1>2, <1>5, <2>1, AtGrows
    <2>3. At(i) + PieceSize(s, i) =< s /\ PieceSize(s, i) \in 1 .. p
      BY <1>1, <1>2, <1>6, <2>1, <2>2
    <2> QED BY <1>6, <1>8, <2>1, <2>3 DEF p
  <1> QED BY <1>7, <1>8

(* Every byte of a message is in one of its pieces.                        *)
LEMMA PiecesCover ==
  ASSUME NEW s \in Nat, 0 < s, s < 65536, NEW k \in 1 .. s
  PROVE  \E i \in 0 .. Cut(s) - 1 : k - At(i) \in 1 .. PieceSize(s, i)
  <1> DEFINE p == PIECE_FIX_SIZE
             i == Quo(k - 1)
             j == Rem(k - 1)
  <1>1. p \in Nat /\ p >= 1 /\ k - 1 \in Nat
    BY PieceAssumption
  <1>2. i \in Nat /\ j \in 0 .. p - 1 /\ k - 1 = At(i) + j
    BY <1>1, Divide
  <1>3. Cut(s) \in Nat /\ 0 < Cut(s) /\ Cut(s) < 65536
    BY CutFits
  <1>4. At(i) \in Nat
    BY <1>2, AtNext
  <1> HIDE DEF p, i, j
  <1>5. i =< Cut(s) - 1
    <2> SUFFICES ASSUME i >= Cut(s) PROVE FALSE
      BY <1>2, <1>3
    <2> DEFINE c == Cut(s) - 1
    <2>1. c \in 0 .. Cut(s) - 1 /\ c \in Nat /\ c + 1 \in Nat /\ c + 1 =< i
      BY <1>2, <1>3
    <2>2. At(c) + PieceSize(s, c) = s /\ PieceSize(s, c) \in 1 .. p /\ At(c) \in Nat
      BY <2>1, PiecesFit DEF p
    <2> HIDE DEF c
    <2>3. At(c + 1) =< At(i)
      BY <1>2, <2>1, AtGrows
    <2>4. At(c + 1) = At(c) + p
      BY <2>1, AtNext DEF p
    <2> QED BY <1>1, <1>2, <1>4, <2>2, <2>3, <2>4
  <1>6. i \in 0 .. Cut(s) - 1
    BY <1>2, <1>3, <1>5
  <1>7. /\ PieceSize(s, i) \in 1 .. p
        /\ i < Cut(s) - 1 => PieceSize(s, i) = p
        /\ i = Cut(s) - 1 => At(i) + PieceSize(s, i) = s
    BY <1>6, PiecesFit DEF p
  <1>8. k - At(i) \in 1 .. PieceSize(s, i)
    BY <1>1, <1>2, <1>3, <1>4, <1>5, <1>7
  <1> QED BY <1>6, <1>8
----------------------------------------------------------------------------
(* The bytes of a piece *)

(* A byte is a number below 256.                                           *)
LEMMA ByteRange ==
  /\ \A x \in Nat : x < 256 => x \in Byte
  /\ \A x \in Byte : x \in Nat
  BY ByteAssumption

Hi(n) == (n \div 256) % 256
Lo(n) == n % 256

(* Two bytes carry a number below 65536 (udp-piece.c:136).                 *)
LEMMA NumberInTwoBytes ==
  ASSUME NEW n \in Nat, n < 65536
  PROVE  /\ TwoBytes(n) = <<Hi(n), Lo(n)>>
         /\ Hi(n) \in Byte /\ Lo(n) \in Byte
         /\ Hi(n) * 256 + Lo(n) = n
  <1> DEFINE q == n \div 256
             r == n % 256
  <1>1. q \in Int /\ r \in Nat /\ r < 256 /\ n = 256 * q + r
    OBVIOUS
  <1>2. q \in Nat /\ q < 256
    <2> HIDE DEF q, r
    <2> QED BY <1>1
  <1>3. q % 256 = q
    <2> HIDE DEF q, r
    <2> QED BY <1>2
  <1>4. Hi(n) = q /\ Lo(n) = r
    BY <1>3 DEF Hi, Lo
  <1>5. TwoBytes(n) = <<Hi(n), Lo(n)>>
    BY DEF TwoBytes, Hi, Lo
  <1> HIDE DEF q, r
  <1> QED BY <1>1, <1>2, <1>4, <1>5, ByteRange

(* One sequence behind the other.                                          *)
LEMMA Behind ==
  ASSUME NEW S, NEW s \in Seq(S), NEW t \in Seq(S)
  PROVE  /\ s \o t \in Seq(S) /\ Len(s \o t) = Len(s) + Len(t)
         /\ \A k \in 1 .. Len(s) : (s \o t)[k] = s[k]
         /\ \A k \in 1 .. Len(t) : (s \o t)[Len(s) + k] = t[k]
  <1>1. /\ s \o t \in Seq(S) /\ Len(s \o t) = Len(s) + Len(t)
        /\ \A k \in 1 .. Len(s) + Len(t) : (s \o t)[k] = IF k =< Len(s) THEN s[k] ELSE t[k - Len(s)]
    BY ConcatProperties
  <1>2. Len(s) \in Nat /\ Len(t) \in Nat
    OBVIOUS
  <1>3. ASSUME NEW k \in 1 .. Len(s) PROVE (s \o t)[k] = s[k]
    BY <1>1, <1>2
  <1>4. ASSUME NEW k \in 1 .. Len(t) PROVE (s \o t)[Len(s) + k] = t[k]
    <2>1. Len(s) + k \in 1 .. Len(s) + Len(t) /\ ~(Len(s) + k =< Len(s)) /\ (Len(s) + k) - Len(s) = k
      BY <1>2
    <2>2. (s \o t)[Len(s) + k] = t[(Len(s) + k) - Len(s)]
      BY <1>1, <2>1
    <2> QED BY <2>1, <2>2
  <1> QED BY <1>1, <1>3, <1>4

\* u is the part of n elements of s behind the first a.
Part(S, u, s, a, n) ==
  /\ u \in Seq(S) /\ Len(u) = n
  /\ \A k \in 1 .. n : u[k] = s[a + k] /\ s[a + k] \in S

(* A part of a sequence.                                                   *)
LEMMA PartOf ==
  ASSUME NEW S, NEW s \in Seq(S), NEW a \in Nat, NEW n \in Nat, a + n =< Len(s)
  PROVE  Part(S, SubSeq(s, a + 1, a + n), s, a, n)
  <1>1. Len(s) \in Nat
    OBVIOUS
  <1>2. a + 1 \in 1 .. Len(s) + 1 /\ a + n \in 0 .. Len(s)
    BY <1>1
  <1>3. \A k \in 1 .. n : a + k \in 1 .. Len(s) /\ s[a + k] \in S
    BY <1>1
  <1>4. SubSeq(s, a + 1, a + n) = [k \in 1 .. n |-> s[a + k]]
    BY <1>1
  <1>5. SubSeq(s, a + 1, a + n) \in Seq(S) /\ Len(SubSeq(s, a + 1, a + n)) = n
    BY <1>3, <1>4
  <1>6. \A k \in 1 .. n : SubSeq(s, a + 1, a + n)[k] = s[a + k]
    BY <1>4
  <1> QED BY <1>3, <1>5, <1>6 DEF Part

Two(s, a, b) == s \o <<a, b>>

\* u is s and two bytes more.
Longer(u, s, a, b) ==
  /\ u \in Seq(Byte) /\ Len(u) = Len(s) + 2
  /\ \A k \in 1 .. Len(s) : u[k] = s[k]
  /\ u[Len(s) + 1] = a /\ u[Len(s) + 2] = b

(* Two bytes behind a sequence.                                            *)
LEMMA TwoMore ==
  ASSUME NEW s \in Seq(Byte), NEW a \in Byte, NEW b \in Byte
  PROVE  Longer(Two(s, a, b), s, a, b) /\ Two(s, a, b) \in Seq(Byte)
  <1> DEFINE t == <<a, b>>
  <1>1. t \in Seq(Byte) /\ Len(t) = 2 /\ t[1] = a /\ t[2] = b
    OBVIOUS
  <1>2. Two(s, a, b) = s \o t
    BY DEF Two
  <1> HIDE DEF t
  <1>3. /\ s \o t \in Seq(Byte) /\ Len(s \o t) = Len(s) + Len(t)
        /\ \A k \in 1 .. Len(s) : (s \o t)[k] = s[k]
        /\ \A k \in 1 .. Len(t) : (s \o t)[Len(s) + k] = t[k]
    BY <1>1, Behind
  <1>4. (s \o t)[Len(s) + 1] = a /\ (s \o t)[Len(s) + 2] = b
    BY <1>1, <1>3
  <1> QED BY <1>1, <1>2, <1>3, <1>4 DEF Longer

\* The header with its four numbers (udp-piece.c:131).
Header(a, b, c, d, e, g, h, j) ==
  Two(Two(Two(Two(Two(<<175, 174>>, a, b), c, d), e, g), h, j), 0, 0)

\* The bytes a header has.
Begins(t, a, b, c, d, e, g, h, j) ==
  /\ t \in Seq(Byte) /\ Len(t) = 12 /\ t[1] = 175 /\ t[2] = 174
  /\ t[3] = a /\ t[4] = b /\ t[5] = c /\ t[6] = d
  /\ t[7] = e /\ t[8] = g /\ t[9] = h /\ t[10] = j

(* The twelve bytes of a header.                                           *)
LEMMA HeaderBytes ==
  ASSUME NEW a \in Byte, NEW b \in Byte, NEW c \in Byte, NEW d \in Byte,
         NEW e \in Byte, NEW g \in Byte, NEW h \in Byte, NEW j \in Byte,
         NEW t, t = Header(a, b, c, d, e, g, h, j)
  PROVE  Begins(t, a, b, c, d, e, g, h, j)
  <1>0. 0 \in Byte /\ 175 \in Byte /\ 174 \in Byte
    BY ByteRange
  <1>1. PICK h1 : h1 = <<175, 174>>
    OBVIOUS
  <1>2. h1 \in Seq(Byte) /\ Len(h1) = 2 /\ h1[1] = 175 /\ h1[2] = 174
    BY <1>0, <1>1
  <1>3. PICK h2 : h2 = Two(h1, a, b)
    OBVIOUS
  <1>4. Longer(h2, h1, a, b) /\ h2 \in Seq(Byte)
    BY <1>0, <1>2, <1>3, TwoMore
  <1>5. PICK h3 : h3 = Two(h2, c, d)
    OBVIOUS
  <1>6. Longer(h3, h2, c, d) /\ h3 \in Seq(Byte)
    BY <1>0, <1>4, <1>5, TwoMore
  <1>7. PICK h4 : h4 = Two(h3, e, g)
    OBVIOUS
  <1>8. Longer(h4, h3, e, g) /\ h4 \in Seq(Byte)
    BY <1>0, <1>6, <1>7, TwoMore
  <1>9. PICK h5 : h5 = Two(h4, h, j)
    OBVIOUS
  <1>10. Longer(h5, h4, h, j) /\ h5 \in Seq(Byte)
    BY <1>0, <1>8, <1>9, TwoMore
  <1>11. PICK h6 : h6 = Two(h5, 0, 0)
    OBVIOUS
  <1>12. Longer(h6, h5, 0, 0) /\ h6 \in Seq(Byte)
    BY <1>0, <1>10, <1>11, TwoMore
  <1>13. t = h6
    BY <1>1, <1>3, <1>5, <1>7, <1>9, <1>11 DEF Header
  <1>14. Len(h2) = 4 /\ Len(h3) = 6 /\ Len(h4) = 8 /\ Len(h5) = 10 /\ Len(h6) = 12
    BY <1>2, <1>4, <1>6, <1>8, <1>10, <1>12 DEF Longer
  <1>15. h3[1] = 175 /\ h3[2] = 174 /\ h3[3] = a /\ h3[4] = b /\ h3[5] = c /\ h3[6] = d
    BY <1>2, <1>4, <1>6, <1>14 DEF Longer
  <1>16. \A k \in 1 .. 6 : h6[k] = h3[k]
    BY <1>8, <1>10, <1>12, <1>14 DEF Longer
  <1>17. h6[7] = e /\ h6[8] = g /\ h6[9] = h /\ h6[10] = j
    BY <1>8, <1>10, <1>12, <1>14 DEF Longer
  <1> QED BY <1>12, <1>13, <1>14, <1>15, <1>16, <1>17 DEF Begins

\* t is s and one element more.
Appended(S, t, s, x) ==
  /\ t \in Seq(S) /\ DOMAIN t = 1 .. Len(s) + 1 /\ Len(t) = Len(s) + 1
  /\ \A k \in 1 .. Len(s) + 1 : t[k] = IF k = Len(s) + 1 THEN x ELSE s[k]

(* One element behind a sequence.                                          *)
LEMMA OneMore ==
  ASSUME NEW S, NEW s \in Seq(S), NEW x \in S
  PROVE  Appended(S, Append(s, x), s, x)
  BY DEF Appended

\* A piece of a message.
IsPiece(f, i) == f \in DOMAIN Frames /\ i \in 0 .. Cut(Len(Frames[f])) - 1

Size(f) == Len(Frames[f])

\* The bytes of piece i in message f.
PieceData(f, i) == SubSeq(Frames[f], At(i) + 1, At(i) + PieceSize(Size(f), i))

\* The number at a position of a header.
FieldOf(s, pos) == s[pos + 1] * 256 + s[pos + 2]

(* A message and the numbers about it.                                     *)
LEMMA FrameFacts ==
  ASSUME NEW f \in DOMAIN Frames
  PROVE  /\ Frames[f] \in Seq(Byte) /\ Size(f) \in Nat /\ 0 < Size(f) /\ Size(f) < 65536
         /\ Size(f) = Len(Frames[f])
         /\ Cut(Size(f)) \in Nat /\ 0 < Cut(Size(f)) /\ Cut(Size(f)) < 65536
  <1>1. /\ Frames[f] \in Seq(Byte) /\ Size(f) \in Nat /\ 0 < Size(f) /\ Size(f) < 65536
        /\ Size(f) = Len(Frames[f])
    BY FrameAssumption DEF Size
  <1> QED BY <1>1, CutFits

(* A piece of a message and the numbers about it.                          *)
LEMMA PieceFacts ==
  ASSUME NEW f, NEW i, IsPiece(f, i)
  PROVE  /\ f \in DOMAIN Frames /\ i \in Nat /\ i < Cut(Size(f)) /\ i < 65536
         /\ At(i) \in Nat /\ PieceSize(Size(f), i) \in Nat
         /\ 0 < PieceSize(Size(f), i) /\ PieceSize(Size(f), i) =< PIECE_FIX_SIZE
         /\ PieceSize(Size(f), i) < 65536
         /\ At(i) + PieceSize(Size(f), i) =< Size(f)
         /\ i < Cut(Size(f)) - 1 => PieceSize(Size(f), i) = PIECE_FIX_SIZE
         /\ i = Cut(Size(f)) - 1 => At(i) + PieceSize(Size(f), i) = Size(f)
  <1>1. f \in DOMAIN Frames /\ i \in 0 .. Cut(Size(f)) - 1
    BY DEF IsPiece, Size
  <1>2. /\ Size(f) \in Nat /\ 0 < Size(f) /\ Size(f) < 65536
        /\ Cut(Size(f)) \in Nat /\ 0 < Cut(Size(f)) /\ Cut(Size(f)) < 65536
    BY <1>1, FrameFacts
  <1>3. /\ PieceSize(Size(f), i) \in 1 .. PIECE_FIX_SIZE /\ At(i) \in Nat
        /\ At(i) + PieceSize(Size(f), i) =< Size(f)
        /\ i < Cut(Size(f)) - 1 => PieceSize(Size(f), i) = PIECE_FIX_SIZE
        /\ i = Cut(Size(f)) - 1 => At(i) + PieceSize(Size(f), i) = Size(f)
    BY <1>1, <1>2, PiecesFit
  <1> QED BY <1>1, <1>2, <1>3, PieceAssumption

(* What the header says, and that the data follows it.                     *)
LEMMA PieceBytes ==
  ASSUME NEW f, NEW i, IsPiece(f, i), NEW p, p = Piece(f, i),
         NEW n, n = PieceSize(Size(f), i)
  PROVE  /\ p \in Seq(Byte) /\ Len(p) = HEAD_SIZE + n
         /\ p[1] = 175 /\ p[2] = 174
         /\ FieldOf(p, 2) = Size(f)
         /\ FieldOf(p, 4) = Cut(Size(f))
         /\ FieldOf(p, 6) = i
         /\ FieldOf(p, 8) = n
         /\ SubSeq(p, HEAD_SIZE + 1, HEAD_SIZE + n) = PieceData(f, i)
         /\ Len(PieceData(f, i)) = n
         /\ \A k \in 1 .. n : PieceData(f, i)[k] = Frames[f][At(i) + k] /\ PieceData(f, i)[k] \in Byte
  <1>1. PICK c, s : c = Cut(Size(f)) /\ s = Size(f)
    OBVIOUS
  <1>2. /\ f \in DOMAIN Frames /\ i \in Nat /\ i < 65536
        /\ At(i) \in Nat /\ n \in Nat /\ 0 < n /\ n < 65536 /\ At(i) + n =< s
    BY <1>1, PieceFacts
  <1>3. /\ Frames[f] \in Seq(Byte) /\ s \in Nat /\ s < 65536 /\ s = Len(Frames[f])
        /\ c \in Nat /\ c < 65536
    BY <1>1, <1>2, FrameFacts
  <1>4. /\ TwoBytes(s) = <<Hi(s), Lo(s)>> /\ Hi(s) \in Byte /\ Lo(s) \in Byte
        /\ TwoBytes(c) = <<Hi(c), Lo(c)>> /\ Hi(c) \in Byte /\ Lo(c) \in Byte
        /\ TwoBytes(i) = <<Hi(i), Lo(i)>> /\ Hi(i) \in Byte /\ Lo(i) \in Byte
        /\ TwoBytes(n) = <<Hi(n), Lo(n)>> /\ Hi(n) \in Byte /\ Lo(n) \in Byte
    BY <1>2, <1>3, NumberInTwoBytes
  <1>5. PICK t : t = Header(Hi(s), Lo(s), Hi(c), Lo(c), Hi(i), Lo(i), Hi(n), Lo(n))
    OBVIOUS
  <1>6. /\ t \in Seq(Byte) /\ Len(t) = 12 /\ t[1] = 175 /\ t[2] = 174
        /\ t[3] = Hi(s) /\ t[4] = Lo(s) /\ t[5] = Hi(c) /\ t[6] = Lo(c)
        /\ t[7] = Hi(i) /\ t[8] = Lo(i) /\ t[9] = Hi(n) /\ t[10] = Lo(n)
    <2>1. Begins(t, Hi(s), Lo(s), Hi(c), Lo(c), Hi(i), Lo(i), Hi(n), Lo(n))
      BY <1>4, <1>5, HeaderBytes
    <2> QED BY <2>1 DEF Begins
  <1>7. PICK d : d = PieceData(f, i)
    OBVIOUS
  <1>8. p = t \o d
    BY <1>1, <1>4, <1>5, <1>7 DEF Piece, PieceData, At, Size, Two, Header
  <1>9. d = SubSeq(Frames[f], At(i) + 1, At(i) + n)
    BY <1>7 DEF PieceData
  <1>10. At(i) + n =< Len(Frames[f])
    BY <1>2, <1>3
  <1>11. PICK w : w = Frames[f]
    OBVIOUS
  <1>12. PICK q : q = At(i)
    OBVIOUS
  <1>13. /\ d \in Seq(Byte) /\ Len(d) = n
         /\ \A k \in 1 .. n : d[k] = w[q + k] /\ w[q + k] \in Byte
    <2>1. w \in Seq(Byte) /\ q \in Nat /\ n \in Nat /\ q + n =< Len(w) /\ d = SubSeq(w, q + 1, q + n)
      BY <1>2, <1>3, <1>9, <1>10, <1>11, <1>12
    <2>2. Part(Byte, d, w, q, n)
      BY <2>1, PartOf
    <2> QED BY <2>2 DEF Part
  <1>14. /\ p \in Seq(Byte) /\ Len(p) = 12 + n
         /\ \A k \in 1 .. 12 : p[k] = t[k]
         /\ \A k \in 1 .. n : p[12 + k] = d[k]
    <2>1. t \in Seq(Byte) /\ d \in Seq(Byte)
      BY <1>6, <1>13
    <2>2. /\ p \in Seq(Byte) /\ Len(p) = Len(t) + Len(d)
          /\ \A k \in 1 .. Len(t) : p[k] = t[k]
          /\ \A k \in 1 .. Len(d) : p[Len(t) + k] = d[k]
      BY <1>8, <2>1, Behind
    <2> QED BY <1>6, <1>13, <2>2
  <1>15. /\ p[1] = 175 /\ p[2] = 174
         /\ p[3] = Hi(s) /\ p[4] = Lo(s) /\ p[5] = Hi(c) /\ p[6] = Lo(c)
         /\ p[7] = Hi(i) /\ p[8] = Lo(i) /\ p[9] = Hi(n) /\ p[10] = Lo(n)
    BY <1>6, <1>14
  <1>16. FieldOf(p, 2) = s /\ FieldOf(p, 4) = c /\ FieldOf(p, 6) = i /\ FieldOf(p, 8) = n
    <2>1. ASSUME NEW x \in Nat, x < 65536 PROVE Hi(x) * 256 + Lo(x) = x
      BY <2>1, NumberInTwoBytes
    <2>2. /\ FieldOf(p, 2) = p[3] * 256 + p[4] /\ FieldOf(p, 4) = p[5] * 256 + p[6]
          /\ FieldOf(p, 6) = p[7] * 256 + p[8] /\ FieldOf(p, 8) = p[9] * 256 + p[10]
      BY DEF FieldOf
    <2>3. FieldOf(p, 2) = s
      BY <1>3, <1>15, <2>1, <2>2
    <2>4. FieldOf(p, 4) = c
      BY <1>3, <1>15, <2>1, <2>2
    <2>5. FieldOf(p, 6) = i
      BY <1>2, <1>15, <2>1, <2>2
    <2>6. FieldOf(p, 8) = n
      BY <1>2, <1>15, <2>1, <2>2
    <2> QED BY <2>3, <2>4, <2>5, <2>6
  <1>17. SubSeq(p, 12 + 1, 12 + n) = d
    <2>1. PICK u : u = SubSeq(p, 12 + 1, 12 + n)
      OBVIOUS
    <2>2. u \in Seq(Byte) /\ Len(u) = n /\ \A k \in 1 .. n : u[k] = p[12 + k]
      <3>1. PICK z \in Nat : z = 12
        OBVIOUS
      <3>2. n \in Nat /\ p \in Seq(Byte) /\ z + n =< Len(p) /\ u = SubSeq(p, z + 1, z + n)
        BY <1>2, <1>14, <2>1, <3>1
      <3>3. Part(Byte, u, p, z, n)
        BY <3>2, PartOf
      <3> QED BY <3>1, <3>3 DEF Part
    <2>3. u = d
      BY <1>13, <1>14, <2>2, SeqEqual
    <2> QED BY <2>1, <2>3
  <1> QED BY <1>1, <1>7, <1>11, <1>12, <1>13, <1>14, <1>15, <1>16, <1>17, SMTT(60) DEF HEAD_SIZE

\* The bytes of data in a piece.
Wide(f, i) == PieceSize(Size(f), i)

\* p is a piece with what its header says and what follows it.
Carries(p, f, i) ==
  /\ p \in Seq(Byte) /\ Len(p) = HEAD_SIZE + Wide(f, i)
  /\ p[1] = 175 /\ p[2] = 174
  /\ FieldOf(p, 2) = Size(f) /\ FieldOf(p, 4) = Cut(Size(f))
  /\ FieldOf(p, 6) = i /\ FieldOf(p, 8) = Wide(f, i)
  /\ SubSeq(p, HEAD_SIZE + 1, HEAD_SIZE + Wide(f, i)) = PieceData(f, i)

(* udp_piece_get: what the server can read off a piece.                    *)
LEMMA PieceCarries ==
  ASSUME NEW f, NEW i, IsPiece(f, i)
  PROVE  Carries(Piece(f, i), f, i)
  <1>1. PICK p, n : p = Piece(f, i) /\ n = PieceSize(Size(f), i)
    OBVIOUS
  <1>2. /\ p \in Seq(Byte) /\ Len(p) = HEAD_SIZE + n
        /\ p[1] = 175 /\ p[2] = 174
        /\ FieldOf(p, 2) = Size(f)
        /\ FieldOf(p, 4) = Cut(Size(f))
        /\ FieldOf(p, 6) = i
        /\ FieldOf(p, 8) = n
        /\ SubSeq(p, HEAD_SIZE + 1, HEAD_SIZE + n) = PieceData(f, i)
    BY <1>1, PieceBytes
  <1> QED BY <1>1, <1>2 DEF Carries, Wide

(* The data of a piece is its part of the message.                         *)
LEMMA DataOfPiece ==
  ASSUME NEW f, NEW i, IsPiece(f, i)
  PROVE  /\ Len(PieceData(f, i)) = Wide(f, i)
         /\ \A k \in 1 .. Wide(f, i) : PieceData(f, i)[k] = Frames[f][At(i) + k] /\ PieceData(f, i)[k] \in Byte
  BY PieceBytes DEF Wide

----------------------------------------------------------------------------
(* The bytes the server has *)

\* The ring is sound and the fields have their types; the client is at a
\* piece of its message.
Base ==
  /\ TypeOK
  /\ circular_buffer \in RingType /\ Agree(circular_buffer)
  /\ frame \in DOMAIN Frames => index < Cut(Size(frame))

(* What the merge functions work on is bytes.                              *)
LEMMA InputIsBytes ==
  ASSUME Base
  PROVE  Input \in Seq(Byte) /\ Len(Input) \in Nat /\ use_ring \in BOOLEAN
  <1>1. Contents(circular_buffer) \in Seq(Byte)
    BY ContentsType DEF Base
  <1>2. rest \in Seq(Byte)
    BY DEF Base, TypeOK
  <1>3. Input \in Seq(Byte)
    BY <1>1, <1>2 DEF Input
  <1>4. use_ring \in BOOLEAN
    BY VariantAssumption DEF Base, TypeOK
  <1> QED BY <1>3, <1>4

\* The bytes of s behind the first n.
After(s, n) == SubSeq(s, n + 1, Len(s))

(* Consumed bytes are the first ones, in the ring and in the datagram.     *)
LEMMA ConsumeRemoves ==
  ASSUME Base, NEW n \in Nat, n =< Len(Input), Consume(n), use_ring' = use_ring
  PROVE  /\ circular_buffer' \in RingType /\ Agree(circular_buffer') /\ rest' \in Seq(Byte)
         /\ Input' = After(Input, n)
  <1>1. circular_buffer \in RingType /\ Agree(circular_buffer) /\ rest \in Seq(Byte)
    BY DEF Base, TypeOK
  <1>2. CASE use_ring
    <2>1. circular_buffer' = RingPop(circular_buffer, n) /\ rest' = rest /\ Input = Contents(circular_buffer)
      BY <1>2 DEF Consume, Input
    <2>2. Input' = Contents(circular_buffer')
      BY <1>2 DEF Input, Contents
    <2>3. Len(Input) = circular_buffer.size
      BY <1>1, <2>1, ContentsType
    <2>4. ReadCount(circular_buffer, n) = n
      <3>1. circular_buffer.size \in Nat
        BY <1>1, CapacityAssumption DEF RingType
      <3> QED BY <2>3, <3>1 DEF ReadCount, MIN
    <2>5. /\ circular_buffer' \in RingType /\ Agree(circular_buffer')
          /\ Contents(circular_buffer') = SubSeq(Contents(circular_buffer), n + 1, Len(Contents(circular_buffer)))
      BY <1>1, <2>1, <2>4, PopRemoves
    <2> QED BY <1>1, <2>1, <2>2, <2>5 DEF After
  <1>3. CASE ~use_ring
    <2>1. circular_buffer' = circular_buffer /\ rest' = After(rest, n) /\ Input = rest /\ Input' = rest'
      BY <1>3 DEF Consume, Input, After
    <2>2. After(rest, n) \in Seq(Byte)
      BY <1>1, <2>1 DEF After
    <2> QED BY <1>1, <2>1, <2>2 DEF Agree
  <1> QED BY <1>2, <1>3

(* Nothing is left behind all the bytes, and nothing is cut off before the *)
(* first one.                                                              *)
LEMMA AfterEnds ==
  ASSUME NEW s \in Seq(Byte)
  PROVE  After(s, 0) = s /\ After(s, Len(s)) = << >>
  BY DEF After

(* A datagram is taken out of the net, the others stay.                    *)
LEMMA WithoutType ==
  ASSUME NEW S, NEW s \in Seq(S), NEW k \in DOMAIN s
  PROVE  /\ Without(s, k) \in Seq(S) /\ Len(Without(s, k)) = Len(s) - 1
         /\ \A j \in 1 .. Len(s) - 1 : Without(s, k)[j] = IF j < k THEN s[j] ELSE s[j + 1]
  <1>1. Len(s) \in Nat /\ k \in 1 .. Len(s)
    OBVIOUS
  <1>2. PICK t, u : t = SubSeq(s, 1, k - 1) /\ u = SubSeq(s, k + 1, Len(s))
    OBVIOUS
  <1>3. t \in Seq(S) /\ Len(t) = k - 1 /\ \A j \in 1 .. k - 1 : t[j] = s[j]
    BY <1>1, <1>2
  <1>4. u \in Seq(S) /\ Len(u) = Len(s) - k /\ \A j \in 1 .. Len(s) - k : u[j] = s[k + j]
    BY <1>1, <1>2
  <1>5. /\ t \o u \in Seq(S) /\ Len(t \o u) = Len(t) + Len(u)
        /\ \A j \in 1 .. Len(t) + Len(u) : (t \o u)[j] = IF j =< Len(t) THEN t[j] ELSE u[j - Len(t)]
    BY <1>3, <1>4, ConcatProperties
  <1>6. ASSUME NEW j \in 1 .. Len(s) - 1
        PROVE  (t \o u)[j] = IF j < k THEN s[j] ELSE s[j + 1]
    <2>1. CASE j < k
      <3>1. j \in 1 .. Len(t) + Len(u) /\ j =< Len(t) /\ j \in 1 .. k - 1
        BY <1>1, <1>3, <1>4, <2>1
      <3>2. (t \o u)[j] = t[j]
        BY <1>5, <3>1
      <3> QED BY <1>3, <2>1, <3>1, <3>2
    <2>2. CASE ~(j < k)
      <3>1. j - (k - 1) \in 1 .. Len(s) - k /\ k + (j - (k - 1)) = j + 1 /\ ~(j =< k - 1)
        BY <1>1, <2>2
      <3>2. (t \o u)[j] = u[j - (k - 1)]
        <4>1. j \in 1 .. Len(t) + Len(u) /\ ~(j =< Len(t)) /\ Len(t) = k - 1
          BY <1>1, <1>3, <1>4, <3>1, SMTT(60)
        <4>2. (t \o u)[j] = u[j - Len(t)]
          BY <1>5, <4>1
        <4> QED BY <4>1, <4>2
      <3>3. u[j - (k - 1)] = s[k + (j - (k - 1))]
        BY <1>4, <3>1
      <3> QED BY <2>2, <3>1, <3>2, <3>3
    <2> QED BY <2>1, <2>2
  <1>7. Without(s, k) = t \o u
    BY <1>2 DEF Without
  <1>8. t \o u \in Seq(S) /\ Len(t \o u) = Len(s) - 1
    BY <1>1, <1>3, <1>4, <1>5
  <1> QED BY <1>6, <1>7, <1>8

\* The datagram d joins the bytes of the server, or the ring is too small for it.
Arrives(d) ==
  \/ pc' = "sync" /\ get_all_pieces' = 0 /\ Input' = IF use_ring THEN Input \o d ELSE d
  \/ use_ring /\ pc' = "return" /\ get_all_pieces' = -1 /\ Len(Input) + Len(d) > Capacity

(* recvfrom: one datagram leaves the net, the ring stays sound.            *)
LEMMA ReceiveStep ==
  ASSUME Base, Receive
  PROVE  /\ Len(net) > 0 /\ net' = Tail(net) /\ net' \in Seq(Seq(Byte)) /\ net[1] \in Seq(Byte)
         /\ circular_buffer' \in RingType /\ Agree(circular_buffer') /\ rest' \in Seq(Byte)
         /\ Arrives(net[1])
  <1>1. circular_buffer \in RingType /\ Agree(circular_buffer) /\ rest \in Seq(Byte) /\ net \in Seq(Seq(Byte))
    BY DEF Base, TypeOK
  <1>2. /\ net # << >> /\ net' = Tail(net)
        /\ IF use_ring
           THEN /\ circular_buffer' = RingWrite(circular_buffer, Head(net))
                /\ UNCHANGED rest
                /\ IF WriteCount(circular_buffer, Head(net)) # Len(Head(net))
                   THEN pc' = "return" /\ get_all_pieces' = -1
                   ELSE pc' = "sync" /\ get_all_pieces' = 0
           ELSE /\ rest' = Head(net)
                /\ UNCHANGED circular_buffer
                /\ pc' = "sync"
                /\ get_all_pieces' = 0
    BY DEF Receive
  <1>3. use_ring' = use_ring
    BY DEF Receive
  <1>4. PICK d : d = Head(net)
    OBVIOUS
  <1>5. d = net[1] /\ d \in Seq(Byte) /\ Len(net) > 0 /\ Tail(net) \in Seq(Seq(Byte))
    BY <1>1, <1>2, <1>4
  <1>6. CASE use_ring
    <2>1. circular_buffer' = RingWrite(circular_buffer, d) /\ rest' = rest
      BY <1>2, <1>4, <1>6
    <2>2. /\ circular_buffer' \in RingType /\ Agree(circular_buffer')
          /\ Contents(circular_buffer') = Contents(circular_buffer) \o SubSeq(d, 1, WriteCount(circular_buffer, d))
      BY <1>1, <1>5, <2>1, WriteType, WriteAppends
    <2>3. Input = Contents(circular_buffer) /\ Len(Input) = circular_buffer.size
      BY <1>1, <1>6, ContentsType DEF Input
    <2>4. circular_buffer.size \in 0 .. Capacity /\ Capacity \in Nat
      BY <1>1, CapacityAssumption DEF RingType
    <2>5. CASE WriteCount(circular_buffer, d) # Len(d)
      <3>1. Len(Input) + Len(d) > Capacity
        BY <1>5, <2>3, <2>4, <2>5 DEF WriteCount, MIN
      <3> QED BY <1>1, <1>2, <1>4, <1>5, <1>6, <2>1, <2>2, <2>5, <3>1 DEF Arrives
    <2>6. CASE WriteCount(circular_buffer, d) = Len(d)
      <3>1. SubSeq(d, 1, Len(d)) = d
        BY <1>5
      <3>2. Input' = Contents(circular_buffer')
        BY <1>3, <1>6 DEF Input, Contents
      <3>3. Input' = Input \o d
        BY <2>2, <2>3, <2>6, <3>1, <3>2
      <3> QED BY <1>1, <1>2, <1>4, <1>5, <1>6, <2>1, <2>2, <2>6, <3>3 DEF Arrives
    <2> QED BY <2>5, <2>6
  <1>7. CASE ~use_ring
    <2>1. rest' = d /\ circular_buffer' = circular_buffer /\ pc' = "sync" /\ get_all_pieces' = 0
      BY <1>2, <1>4, <1>7
    <2>2. Input' = d
      BY <1>3, <1>7, <2>1 DEF Input
    <2>3. Agree(circular_buffer')
      BY <1>1, <2>1
    <2> QED BY <1>1, <1>2, <1>4, <1>5, <1>7, <2>1, <2>2, <2>3 DEF Arrives
  <1> QED BY <1>6, <1>7

\* The bytes begin with the synchronisation word, as far as they go.
Synchronised(s) ==
  \/ Len(s) >= 2 /\ s[1] = 175 /\ s[2] = 174
  \/ use_ring /\ Len(s) = 1

(* Bytes are skipped, none if they begin with the synchronisation word.    *)
LEMMA SyncStep ==
  ASSUME Base, Sync
  PROVE  /\ circular_buffer' \in RingType /\ Agree(circular_buffer') /\ rest' \in Seq(Byte)
         /\ Synchronised(Input) => Input' = Input
  <1> DEFINE found(k) == k + 2 =< Len(Input) /\ Input[k + 1] = 175 /\ Input[k + 2] = 174
             end == IF use_ring /\ Input # << >> THEN Len(Input) - 1 ELSE Len(Input)
  <1>1. PICK k \in 0 .. end : (found(k) \/ k = end) /\ (\A j \in 0 .. k - 1 : ~found(j)) /\ Consume(k)
    BY DEF Sync
  <1>2. Input \in Seq(Byte) /\ Len(Input) \in Nat /\ use_ring' = use_ring
    BY InputIsBytes DEF Sync
  <1>3. end \in Nat /\ end =< Len(Input)
    BY <1>2
  <1>4. k \in Nat /\ k =< Len(Input)
    BY <1>2, <1>3
  <1>5. /\ circular_buffer' \in RingType /\ Agree(circular_buffer') /\ rest' \in Seq(Byte)
        /\ Input' = After(Input, k)
    BY <1>1, <1>2, <1>4, ConsumeRemoves
  <1>6. ASSUME Synchronised(Input) PROVE Input' = Input
    <2>1. k = 0
      <3>1. CASE Len(Input) >= 2 /\ Input[1] = 175 /\ Input[2] = 174
        <4>1. found(0)
          BY <3>1
        <4> HIDE DEF found, end
        <4> QED BY <1>1, <1>4, <4>1
      <3>2. CASE use_ring /\ Len(Input) = 1
        <4>1. Input # << >>
          BY <1>2, <3>2
        <4> QED BY <1>1, <3>2, <4>1
      <3> QED BY <1>6, <3>1, <3>2 DEF Synchronised
    <2> QED BY <1>2, <1>5, <2>1, AfterEnds
  <1> QED BY <1>5, <1>6

----------------------------------------------------------------------------
(* Merging one piece *)

(* The numbers in a header are numbers, and the data is there.             *)
LEMMA HeaderNumbers ==
  ASSUME Base, HavePiece
  PROVE  /\ TotalSize \in Nat /\ TotalPieces \in Nat /\ PIndex \in Nat /\ DataLen \in Nat
         /\ HEAD_SIZE + DataLen \in Nat /\ HEAD_SIZE + DataLen =< Len(Input)
  <1>1. Input \in Seq(Byte) /\ Len(Input) \in Nat /\ Len(Input) > 12 /\ Len(Input) >= 12 + DataLen
    BY InputIsBytes DEF HavePiece, HEAD_SIZE
  <1>2. \A k \in 1 .. 12 : Input[k] \in Nat
    BY <1>1, ByteRange
  <1>3. ASSUME NEW a \in Nat, NEW b \in Nat PROVE a * 256 + b \in Nat
    OBVIOUS
  <1>4. ASSUME NEW q \in 0 .. 10 PROVE Field(q) \in Nat
    <2>1. q + 1 \in 1 .. 12 /\ q + 2 \in 1 .. 12
      OBVIOUS
    <2> QED BY <1>2, <1>3, <2>1 DEF Field
  <1>5. TotalSize \in Nat /\ TotalPieces \in Nat /\ PIndex \in Nat /\ DataLen \in Nat
    BY <1>4 DEF TotalSize, TotalPieces, PIndex, DataLen
  <1> QED BY <1>1, <1>5 DEF HEAD_SIZE

\* n elements of data are stored in buf behind position at.
Stored(buf, at, n, data) == [k \in DOMAIN buf |-> IF k - at \in 1 .. n THEN data[k - at] ELSE buf[k]]

(* Storing data keeps the length of a buffer.                              *)
LEMMA StoredType ==
  ASSUME NEW S, NEW buf \in Seq(S), NEW at \in Nat, NEW n \in Nat, NEW data,
         \A k \in 1 .. n : data[k] \in S
  PROVE  /\ Stored(buf, at, n, data) \in Seq(S) /\ Len(Stored(buf, at, n, data)) = Len(buf)
         /\ \A k \in 1 .. Len(buf) :
              Stored(buf, at, n, data)[k] = IF k - at \in 1 .. n THEN data[k - at] ELSE buf[k]
  <1>1. Len(buf) \in Nat /\ DOMAIN buf = 1 .. Len(buf)
    OBVIOUS
  <1>2. PICK u : u = Stored(buf, at, n, data)
    OBVIOUS
  <1>3. u = [k \in 1 .. Len(buf) |-> IF k - at \in 1 .. n THEN data[k - at] ELSE buf[k]]
    BY <1>1, <1>2 DEF Stored
  <1>4. \A k \in 1 .. Len(buf) : u[k] = IF k - at \in 1 .. n THEN data[k - at] ELSE buf[k]
    BY <1>3
  <1>5. \A k \in 1 .. Len(buf) : u[k] \in S
    BY <1>4
  <1>6. u \in [1 .. Len(buf) -> S]
    BY <1>3, <1>5
  <1>7. u \in Seq(S) /\ Len(u) = Len(buf)
    BY <1>1, <1>6
  <1> QED BY <1>2, <1>4, <1>7

\* What a piece is merged into, and the counts with it.
BufferNow == IF NewFrame THEN Malloc(TotalSize + 1) ELSE recv_buf
PiecesNow == IF NewFrame THEN 1 ELSE recv_pieces + 1
LengthNow == (IF NewFrame THEN 0 ELSE recv_len) + DataLen
DataNow == SubSeq(Input, HEAD_SIZE + 1, HEAD_SIZE + DataLen)

\* The fields of the handle after a piece was merged.
Merged ==
  /\ recv_buf' = Stored(BufferNow, At(PIndex), DataLen, DataNow)
  /\ total_size' = TotalSize
  /\ recv_len' = LengthNow
  /\ IF PiecesNow = TotalPieces
     THEN /\ total_pieces' = 0 /\ recv_pieces' = 0
          /\ get_all_pieces' = IF LengthNow = TotalSize THEN 1 ELSE Mismatch
     ELSE /\ total_pieces' = TotalPieces /\ recv_pieces' = PiecesNow
          /\ get_all_pieces' = get_all_pieces

(* One turn of the merge loop keeps the types of the handle and removes    *)
(* one header and the data behind it (udp-piece.c:292).                    *)
LEMMA MergeStep ==
  ASSUME Base, MergePiece
  PROVE  /\ Merged
         /\ recv_pieces' \in Nat /\ total_size' \in Nat /\ total_pieces' \in Nat /\ recv_len' \in Nat
         /\ recv_buf' \in Seq(Byte \cup {Junk}) /\ get_all_pieces' \in {-1, 0, 1}
         /\ circular_buffer' \in RingType /\ Agree(circular_buffer') /\ rest' \in Seq(Byte)
         /\ Input' = After(Input, HEAD_SIZE + DataLen)
  <1>1. HavePiece /\ Consume(HEAD_SIZE + DataLen) /\ use_ring' = use_ring
    BY DEF MergePiece
  <1>2. /\ TotalSize \in Nat /\ TotalPieces \in Nat /\ PIndex \in Nat /\ DataLen \in Nat
        /\ HEAD_SIZE + DataLen \in Nat /\ HEAD_SIZE + DataLen =< Len(Input)
    BY <1>1, HeaderNumbers
  <1>3. /\ circular_buffer' \in RingType /\ Agree(circular_buffer') /\ rest' \in Seq(Byte)
        /\ Input' = After(Input, HEAD_SIZE + DataLen)
    BY <1>1, <1>2, ConsumeRemoves
  <1>4. Merged
    BY DEF Merged, MergePiece, Stored, BufferNow, PiecesNow, LengthNow, DataNow, At
  <1>5. /\ recv_pieces \in Nat /\ recv_len \in Nat /\ recv_buf \in Seq(Byte \cup {Junk})
        /\ get_all_pieces \in {-1, 0, 1}
    BY DEF Base, TypeOK
  <1>6. PiecesNow \in Nat /\ LengthNow \in Nat /\ Mismatch \in {-1, 0, 1}
    BY <1>2, <1>5 DEF PiecesNow, LengthNow, Mismatch
  <1>7. /\ recv_pieces' \in Nat /\ total_size' \in Nat /\ total_pieces' \in Nat /\ recv_len' \in Nat
        /\ get_all_pieces' \in {-1, 0, 1}
    BY <1>2, <1>4, <1>5, <1>6 DEF Merged
  <1>8. recv_buf' \in Seq(Byte \cup {Junk})
    <2>1. BufferNow \in Seq(Byte \cup {Junk})
      BY <1>2, <1>5 DEF BufferNow, Malloc
    <2>2. At(PIndex) \in Nat
      BY <1>2, AtNext
    <2>3. \A k \in 1 .. DataLen : DataNow[k] \in Byte \cup {Junk}
      <3>1. PICK z \in Nat : z = HEAD_SIZE
        BY DEF HEAD_SIZE
      <3>2. Input \in Seq(Byte) /\ z + DataLen =< Len(Input) /\ DataNow = SubSeq(Input, z + 1, z + DataLen)
        BY <1>2, <3>1, InputIsBytes DEF DataNow
      <3>3. Part(Byte, DataNow, Input, z, DataLen)
        BY <1>2, <3>2, PartOf
      <3> QED BY <3>3 DEF Part
    <2>4. Stored(BufferNow, At(PIndex), DataLen, DataNow) \in Seq(Byte \cup {Junk})
      BY <1>2, <2>1, <2>2, <2>3, StoredType
    <2> QED BY <1>4, <2>4 DEF Merged
  <1> QED BY <1>3, <1>4, <1>7, <1>8

----------------------------------------------------------------------------
(* Types *)

\* What the client sends as part h of a piece.
Sends(f, i, h) ==
  IF h = 0 THEN SubSeq(Piece(f, i), 1, FirstPart)
  ELSE SubSeq(Piece(f, i), FirstPart + 1, Len(Piece(f, i)))

\* Part h is the last one of a piece.
LastPart(h) == h = 1

\* Piece i is the last one of a message.
LastPiece(f, i) == i + 1 = Cut(Size(f))

(* The parts of a piece are bytes, and they end in or behind the header.   *)
LEMMA PartFacts ==
  ASSUME NEW f, NEW i, IsPiece(f, i)
  PROVE  /\ Piece(f, i) \in Seq(Byte) /\ Len(Piece(f, i)) \in Nat
         /\ HEAD_SIZE < Len(Piece(f, i)) /\ Len(Piece(f, i)) =< HEAD_SIZE + PIECE_FIX_SIZE
         /\ SubSeq(Piece(f, i), 1, FirstPart) \in Seq(Byte)
         /\ Len(SubSeq(Piece(f, i), 1, FirstPart)) = FirstPart
         /\ SubSeq(Piece(f, i), FirstPart + 1, Len(Piece(f, i))) \in Seq(Byte)
  <1>1. PICK p : p = Piece(f, i)
    OBVIOUS
  <1>2. p \in Seq(Byte) /\ Len(p) = 12 + Wide(f, i)
    BY <1>1, PieceCarries DEF Carries, HEAD_SIZE
  <1>3. Wide(f, i) \in Nat /\ 0 < Wide(f, i) /\ Wide(f, i) =< PIECE_FIX_SIZE
    BY PieceFacts DEF Wide
  <1>4. FirstPart \in Nat /\ FirstPart =< 12 /\ PIECE_FIX_SIZE \in Nat
    BY PartAssumption, PieceAssumption DEF HEAD_SIZE
  <1>5. Len(p) \in Nat /\ 12 < Len(p) /\ Len(p) =< 12 + PIECE_FIX_SIZE /\ FirstPart =< Len(p)
    BY <1>2, <1>3, <1>4
  <1>6. SubSeq(p, 1, FirstPart) \in Seq(Byte) /\ Len(SubSeq(p, 1, FirstPart)) = FirstPart
    BY <1>2, <1>4, <1>5
  <1>7. SubSeq(p, FirstPart + 1, Len(p)) \in Seq(Byte)
    BY <1>2, <1>4, <1>5
  <1> QED BY <1>1, <1>2, <1>5, <1>6, <1>7 DEF HEAD_SIZE

(* One sendto: a piece or a part of it, and the next part or piece to      *)
(* send.                                                                   *)
LEMMA SendStep ==
  ASSUME Base, SendTo
  PROVE  /\ IsPiece(frame, index) /\ net' \in Seq(Seq(Byte))
         /\ \E h \in {half, 1} :
              /\ half' = IF LastPart(h) THEN 0 ELSE 1
              /\ index' = IF ~LastPart(h) THEN index ELSE IF LastPiece(frame, index) THEN 0 ELSE index + 1
              /\ frame' = IF LastPart(h) /\ LastPiece(frame, index) THEN frame + 1 ELSE frame
              /\ use_ring => h = half
         /\ use_ring => net' = Append(net, Sends(frame, index, half)) /\ Sends(frame, index, half) \in Seq(Byte)
  <1>1. frame \in DOMAIN Frames /\ index \in Nat /\ index < Cut(Size(frame)) /\ net \in Seq(Seq(Byte))
    BY DEF SendTo, Base, TypeOK
  <1>2. IsPiece(frame, index)
    BY <1>1, FrameFacts DEF IsPiece, Size
  <1>3. Sends(frame, index, half) \in Seq(Byte) /\ Piece(frame, index) \in Seq(Byte)
    BY <1>2, PartFacts DEF Sends
  <1>4. net' = Append(net, IF use_ring THEN Sends(frame, index, half) ELSE Piece(frame, index))
    BY DEF SendTo, Sends
  <1>5. PICK h : h = IF use_ring THEN half ELSE 1
    OBVIOUS
  <1>6. LastPart(h) <=> half = 1 \/ ~use_ring
    BY <1>5 DEF LastPart
  <1>7. /\ half' = IF LastPart(h) THEN 0 ELSE 1
        /\ index' = IF ~LastPart(h) THEN index ELSE IF LastPiece(frame, index) THEN 0 ELSE index + 1
        /\ frame' = IF LastPart(h) /\ LastPiece(frame, index) THEN frame + 1 ELSE frame
    BY <1>6 DEF SendTo, LastPiece, Size
  <1>8. net' \in Seq(Seq(Byte))
    BY <1>1, <1>3, <1>4
  <1>9. h \in {half, 1} /\ (use_ring => h = half)
    BY <1>5
  <1> QED BY <1>2, <1>3, <1>4, <1>7, <1>8, <1>9

(* The initial state is well-formed.                                       *)
LEMMA BaseInit == Init => Base
  <1> SUFFICES ASSUME Init PROVE Base
    OBVIOUS
  <1>1. circular_buffer = RingInit /\ 0 \in Cells /\ 0 \in 0 .. Capacity
    BY CapacityAssumption DEF Init, Cells
  <1>2. circular_buffer \in RingType /\ Agree(circular_buffer)
    BY <1>1, CapacityAssumption DEF RingInit, RingType, Agree
  <1>3. 1 \in 1 .. Len(Frames) + 1
    BY FrameAssumption
  <1>4. lost \in BOOLEAN
    BY DEF Init
  <1>5. frame \in DOMAIN Frames => index < Cut(Size(frame))
    BY FrameFacts DEF Init
  <1>6. TypeOK
    <2>1. circular_buffer.beg \in Cells /\ circular_buffer.end \in Cells /\ circular_buffer.size \in 0 .. Capacity
      BY <1>2 DEF RingType
    <2>2. net \in Seq(Seq(Byte)) /\ rest \in Seq(Byte) /\ recv_buf \in Seq(Byte \cup {Junk})
      BY DEF Init
    <2> QED BY <1>3, <1>4, <2>1, <2>2 DEF TypeOK, Init
  <1> QED BY <1>2, <1>5, <1>6 DEF Base

\* Base has three parts: of the client and the net, of the bytes the
\* server has, and of its handle.
SenderTypes ==
  /\ frame \in 1 .. Len(Frames) + 1 /\ index \in Nat /\ half \in {0, 1}
  /\ frame \in DOMAIN Frames => index < Cut(Size(frame))
  /\ net \in Seq(Seq(Byte)) /\ lost \in BOOLEAN
ByteTypes == circular_buffer \in RingType /\ Agree(circular_buffer) /\ rest \in Seq(Byte)
HandleTypes ==
  /\ use_ring \in Variants
  /\ pc \in {"recvfrom", "sync", "merge", "return"}
  /\ recv_pieces \in Nat /\ total_size \in Nat /\ total_pieces \in Nat /\ recv_len \in Nat
  /\ recv_buf \in Seq(Byte \cup {Junk})
  /\ get_all_pieces \in {-1, 0, 1}

(* The three parts are all of it.                                          *)
LEMMA BaseParts == Base <=> SenderTypes /\ ByteTypes /\ HandleTypes
  BY DEF Base, TypeOK, SenderTypes, ByteTypes, HandleTypes, RingType

(* No action leaves the types, whatever the network does.                  *)
LEMMA BaseStep == Base /\ [Next]_vars => Base'
  <1> SUFFICES ASSUME Base, [Next]_vars PROVE SenderTypes' /\ ByteTypes' /\ HandleTypes'
    BY DEF Base, TypeOK, SenderTypes, ByteTypes, HandleTypes, RingType
  <1>0. SenderTypes /\ ByteTypes /\ HandleTypes
    BY BaseParts
  <1>1. CASE SendTo
    <2>1. PICK h \in {half, 1} :
            /\ IsPiece(frame, index) /\ net' \in Seq(Seq(Byte))
            /\ half' = IF LastPart(h) THEN 0 ELSE 1
            /\ index' = IF ~LastPart(h) THEN index ELSE IF LastPiece(frame, index) THEN 0 ELSE index + 1
            /\ frame' = IF LastPart(h) /\ LastPiece(frame, index) THEN frame + 1 ELSE frame
      BY <1>1, SendStep
    <2>2. frame \in DOMAIN Frames /\ index \in Nat /\ index < Cut(Size(frame)) /\ Len(Frames) \in Nat
          /\ DOMAIN Frames = 1 .. Len(Frames) /\ Cut(Size(frame)) \in Nat
      BY <2>1, PieceFacts, FrameFacts, FrameAssumption
    <2>3. net' \in Seq(Seq(Byte)) /\ half' \in {0, 1} /\ index' \in Nat /\ frame' \in 1 .. Len(Frames) + 1
      BY <1>0, <2>1, <2>2 DEF SenderTypes
    <2>4. ASSUME frame' \in DOMAIN Frames PROVE index' < Cut(Size(frame'))
      <3>1. CASE LastPart(h) /\ LastPiece(frame, index)
        <4>1. index' = 0 /\ 0 < Cut(Size(frame'))
          BY <2>1, <2>4, <3>1, FrameFacts
        <4> QED BY <4>1
      <3>2. CASE LastPart(h) /\ ~LastPiece(frame, index)
        <4>1. frame' = frame /\ index' = index + 1 /\ index + 1 # Cut(Size(frame))
          BY <2>1, <3>2 DEF LastPiece
        <4> QED BY <2>2, <4>1
      <3>3. CASE ~LastPart(h)
        BY <2>1, <2>2, <3>3
      <3> QED BY <3>1, <3>2, <3>3
    <2>5. lost' = lost
      BY <1>1 DEF SendTo
    <2>6. SenderTypes'
      BY <1>0, <2>3, <2>4, <2>5 DEF SenderTypes, Size
    <2>7. ByteTypes' /\ HandleTypes'
      BY <1>0, <1>1 DEF SendTo, ByteTypes, HandleTypes, handle, Agree
    <2> QED BY <2>6, <2>7
  <1>2. ASSUME frame' = frame, index' = index, half' = half, lost' \in BOOLEAN, net' \in Seq(Seq(Byte))
        PROVE  SenderTypes'
    BY <1>0, <1>2 DEF SenderTypes, Size
  <1>3. ASSUME NEW k \in DOMAIN net PROVE Without(net, k) \in Seq(Seq(Byte))
    <2>1. net \in Seq(Seq(Byte))
      BY <1>0 DEF SenderTypes
    <2> QED BY <2>1, WithoutType
  <1>4. lost \in BOOLEAN /\ net \in Seq(Seq(Byte))
    BY <1>0 DEF SenderTypes
  <1>5. CASE LoseStart
    <2>1. SenderTypes'
      BY <1>2, <1>3, <1>5 DEF LoseStart, client
    <2> QED BY <1>0, <1>5, <2>1 DEF LoseStart, ByteTypes, HandleTypes, handle, Agree
  <1>6. CASE Restart
    <2>1. SenderTypes'
      <3>1. net' \in Seq(Seq(Byte)) /\ lost' \in BOOLEAN /\ UNCHANGED client
        BY <1>4, <1>6 DEF Restart
      <3> QED BY <1>2, <3>1 DEF client
    <2>2. circular_buffer' \in RingType /\ Agree(circular_buffer')
      <3>1. RingInit \in RingType /\ Agree(RingInit)
        BY CapacityAssumption DEF RingInit, RingType, Agree, Cells
      <3> QED BY <1>6, <3>1 DEF Restart, Agree
    <2>3. rest' \in Seq(Byte) /\ recv_buf' \in Seq(Byte \cup {Junk})
      BY <1>6 DEF Restart
    <2>4. HandleTypes'
      BY <1>0, <1>6, <2>3 DEF Restart, HandleTypes
    <2> QED BY <2>1, <2>2, <2>3, <2>4 DEF ByteTypes, Agree
  <1>7. CASE Receive
    <2>1. /\ net' \in Seq(Seq(Byte))
          /\ circular_buffer' \in RingType /\ Agree(circular_buffer') /\ rest' \in Seq(Byte)
          /\ Arrives(net[1])
      BY <1>7, ReceiveStep
    <2>2. SenderTypes'
      BY <1>2, <1>4, <1>7, <2>1 DEF Receive, client
    <2>3. pc' \in {"sync", "return"} /\ get_all_pieces' \in {-1, 0, 1}
      BY <2>1 DEF Arrives
    <2>4. HandleTypes'
      BY <1>0, <1>7, <2>3 DEF Receive, HandleTypes, handle
    <2> QED BY <2>1, <2>2, <2>4 DEF ByteTypes, Agree
  <1>8. CASE Sync
    <2>1. circular_buffer' \in RingType /\ Agree(circular_buffer') /\ rest' \in Seq(Byte)
      BY <1>8, SyncStep
    <2>2. SenderTypes'
      BY <1>2, <1>4, <1>8 DEF Sync, client
    <2>3. HandleTypes'
      BY <1>0, <1>8 DEF Sync, HandleTypes, handle
    <2> QED BY <2>1, <2>2, <2>3 DEF ByteTypes, Agree
  <1>9. CASE MergePiece
    <2>1. /\ recv_pieces' \in Nat /\ total_size' \in Nat /\ total_pieces' \in Nat /\ recv_len' \in Nat
          /\ recv_buf' \in Seq(Byte \cup {Junk}) /\ get_all_pieces' \in {-1, 0, 1}
          /\ circular_buffer' \in RingType /\ Agree(circular_buffer') /\ rest' \in Seq(Byte)
      BY <1>9, MergeStep
    <2>2. UNCHANGED <<client, use_ring, net, lost, pc, delivered>>
      BY <1>9 DEF MergePiece
    <2>3. SenderTypes'
      BY <1>2, <1>4, <2>2 DEF client
    <2>4. HandleTypes'
      BY <1>0, <2>1, <2>2 DEF HandleTypes
    <2> QED BY <2>1, <2>3, <2>4 DEF ByteTypes, Agree
  <1>10. CASE MallocFails
    <2>1. TotalSize \in Nat /\ TotalPieces \in Nat
      BY <1>10, HeaderNumbers DEF MallocFails
    <2>2. SenderTypes'
      BY <1>2, <1>4, <1>10 DEF MallocFails, client
    <2>3. HandleTypes'
      <3>1. /\ total_size' \in Nat /\ total_pieces' \in Nat /\ recv_pieces' \in Nat /\ recv_len' \in Nat
            /\ pc' = "return" /\ get_all_pieces' = -1 /\ use_ring' = use_ring
        BY <1>10, <2>1 DEF MallocFails
      <3>2. recv_buf' \in Seq(Byte \cup {Junk})
        BY <1>10 DEF MallocFails
      <3> QED BY <1>0, <3>1, <3>2 DEF HandleTypes
    <2> QED BY <1>0, <1>10, <2>2, <2>3 DEF MallocFails, ByteTypes, Agree
  <1>11. CASE MergeEnd
    <2>1. SenderTypes'
      BY <1>2, <1>4, <1>11 DEF MergeEnd, client
    <2> QED BY <1>0, <1>11, <2>1 DEF MergeEnd, ByteTypes, HandleTypes, handle, Agree
  <1>12. CASE Return
    <2>1. SenderTypes'
      BY <1>2, <1>4, <1>12 DEF Return, client
    <2>2. HandleTypes'
      <3>1. pc' = "recvfrom" /\ get_all_pieces' = get_all_pieces /\ use_ring' = use_ring
        BY <1>12 DEF Return
      <3>2. \/ UNCHANGED handle
            \/ recv_pieces' = 0 /\ total_size' = 0 /\ total_pieces' = 0 /\ recv_len' = 0 /\ recv_buf' = << >>
        BY <1>12 DEF Return
      <3>3. << >> \in Seq(Byte \cup {Junk})
        OBVIOUS
      <3>4. CASE UNCHANGED handle
        BY <1>0, <3>1, <3>4 DEF HandleTypes, handle
      <3>5. CASE recv_pieces' = 0 /\ total_size' = 0 /\ total_pieces' = 0 /\ recv_len' = 0 /\ recv_buf' = << >>
        BY <1>0, <3>1, <3>3, <3>5 DEF HandleTypes
      <3> QED BY <3>2, <3>4, <3>5
    <2>3. ByteTypes'
      <3>1. circular_buffer' = circular_buffer \/ circular_buffer' = RingReset(circular_buffer)
        BY <1>12 DEF Return
      <3>2. RingReset(circular_buffer) \in RingType /\ Agree(RingReset(circular_buffer))
        BY <1>0, ResetEmpties DEF ByteTypes
      <3>3. rest' \in Seq(Byte)
        BY <1>12 DEF Return
      <3> QED BY <1>0, <3>1, <3>2, <3>3 DEF ByteTypes, Agree
    <2> QED BY <2>1, <2>2, <2>3
  <1>13. CASE UNCHANGED vars
    <2>1. SenderTypes'
      BY <1>2, <1>4, <1>13 DEF vars, client
    <2> QED BY <1>0, <1>13, <2>1 DEF vars, ByteTypes, HandleTypes, handle, Agree
  <1> QED BY <1>1, <1>5, <1>6, <1>7, <1>8, <1>9, <1>10, <1>11, <1>12, <1>13 DEF Next, Server

----------------------------------------------------------------------------
(* Putting a message together *)

(* What the merge loop sees when the bytes it has are a piece.             *)
LEMMA PieceAsInput ==
  ASSUME NEW f, NEW i, IsPiece(f, i), Input = Piece(f, i)
  PROVE  /\ HavePiece /\ TotalSize = Size(f) /\ TotalPieces = Cut(Size(f)) /\ PIndex = i
         /\ DataLen = Wide(f, i) /\ DataNow = PieceData(f, i)
         /\ SubSeq(Input, 1, HEAD_SIZE + DataLen) = Piece(f, i)
         /\ After(Input, HEAD_SIZE + DataLen) = << >>
         /\ PIECE_FIX_SIZE * PIndex + DataLen =< TotalSize
         /\ Synchronised(Input)
  <1>1. PICK p : p = Piece(f, i)
    OBVIOUS
  <1>2. Carries(p, f, i)
    BY <1>1, PieceCarries
  <1>3. \A q \in Nat : Field(q) = FieldOf(p, q)
    BY <1>1 DEF Field, FieldOf
  <1>4. TotalSize = Size(f) /\ TotalPieces = Cut(Size(f)) /\ PIndex = i /\ DataLen = Wide(f, i)
    BY <1>2, <1>3 DEF TotalSize, TotalPieces, PIndex, DataLen, Carries
  <1>5. /\ Wide(f, i) \in Nat /\ 0 < Wide(f, i) /\ At(i) + Wide(f, i) =< Size(f)
    BY PieceFacts DEF Wide
  <1>6. p \in Seq(Byte) /\ Len(p) = HEAD_SIZE + Wide(f, i) /\ p[1] = 175 /\ p[2] = 174
    BY <1>2 DEF Carries
  <1>7. HavePiece
    BY <1>1, <1>4, <1>5, <1>6 DEF HavePiece, HEAD_SIZE
  <1>8. DataNow = PieceData(f, i)
    BY <1>1, <1>2, <1>4 DEF DataNow, Carries
  <1>9. SubSeq(p, 1, Len(p)) = p /\ After(p, Len(p)) = << >>
    BY <1>6, AfterEnds
  <1>10. PIECE_FIX_SIZE * PIndex + DataLen =< TotalSize
    BY <1>4, <1>5 DEF At
  <1>11. Synchronised(Input)
    BY <1>1, <1>5, <1>6 DEF Synchronised, HEAD_SIZE
  <1> QED BY <1>1, <1>4, <1>6, <1>7, <1>8, <1>9, <1>10, <1>11

\* buf has the bytes of the pieces R of message f, and room for the others.
Filled(buf, f, R) ==
  /\ buf \in Seq(Byte \cup {Junk}) /\ Len(buf) = Size(f) + 1
  /\ \A j \in R : \A k \in 1 .. Wide(f, j) : buf[At(j) + k] = Frames[f][At(j) + k]

(* A new buffer has none of them.                                          *)
LEMMA FreshBuffer ==
  ASSUME NEW f \in DOMAIN Frames
  PROVE  Filled(Malloc(Size(f) + 1), f, {})
  <1>1. Size(f) + 1 \in Nat
    BY FrameFacts
  <1> QED BY <1>1 DEF Filled, Malloc

(* A piece adds its bytes and damages no others.                           *)
LEMMA FillsMore ==
  ASSUME NEW f, NEW i, IsPiece(f, i), NEW R, R \subseteq 0 .. Cut(Size(f)) - 1,
         NEW buf, Filled(buf, f, R)
  PROVE  Filled(Stored(buf, At(i), Wide(f, i), PieceData(f, i)), f, R \cup {i})
  <1>1. PICK d, n, a : d = PieceData(f, i) /\ n = Wide(f, i) /\ a = At(i)
    OBVIOUS
  <1>2. PICK u : u = Stored(buf, a, n, d)
    OBVIOUS
  <1>3. f \in DOMAIN Frames /\ a \in Nat /\ n \in Nat
    BY <1>1, PieceFacts DEF Wide
  <1>4. \A k \in 1 .. n : d[k] = Frames[f][a + k] /\ d[k] \in Byte
    BY <1>1, DataOfPiece
  <1>5. buf \in Seq(Byte \cup {Junk}) /\ Len(buf) = Size(f) + 1
    BY DEF Filled
  <1>6. /\ u \in Seq(Byte \cup {Junk}) /\ Len(u) = Size(f) + 1
        /\ \A k \in 1 .. Size(f) + 1 : u[k] = IF k - a \in 1 .. n THEN d[k - a] ELSE buf[k]
    BY <1>2, <1>3, <1>4, <1>5, StoredType
  <1>7. ASSUME NEW j \in R \cup {i}, NEW k \in 1 .. Wide(f, j)
        PROVE  u[At(j) + k] = Frames[f][At(j) + k]
    <2>1. IsPiece(f, j)
      BY <1>3 DEF IsPiece, Size
    <2>2. /\ At(j) \in Nat /\ Wide(f, j) \in Nat /\ At(j) + Wide(f, j) =< Size(f) /\ Size(f) \in Nat
      BY <1>3, <2>1, PieceFacts, FrameFacts DEF Wide
    <2>3. PICK x : x = At(j) + k
      OBVIOUS
    <2>4. x \in 1 .. Size(f) + 1 /\ k \in Nat
      BY <2>2, <2>3
    <2>5. CASE x - a \in 1 .. n
      <3>1. u[x] = d[x - a] /\ d[x - a] = Frames[f][a + (x - a)] /\ a + (x - a) = x
        BY <1>3, <1>4, <1>6, <2>4, <2>5
      <3> QED BY <2>3, <3>1
    <2>6. CASE x - a \notin 1 .. n
      <3>1. j # i
        BY <1>1, <1>3, <2>2, <2>3, <2>6
      <3>2. buf[At(j) + k] = Frames[f][At(j) + k]
        BY <3>1 DEF Filled
      <3> QED BY <1>6, <2>3, <2>4, <2>6, <3>2
    <2> QED BY <2>5, <2>6
  <1> QED BY <1>1, <1>2, <1>6, <1>7 DEF Filled

(* The bytes of all pieces are the message.                                *)
LEMMA FilledWhole ==
  ASSUME NEW f \in DOMAIN Frames, NEW buf, Filled(buf, f, 0 .. Cut(Size(f)) - 1)
  PROVE  SubSeq(buf, 1, Size(f)) = Frames[f]
  <1>1. PICK s, w : s = Size(f) /\ w = Frames[f]
    OBVIOUS
  <1>2. w \in Seq(Byte) /\ s \in Nat /\ 0 < s /\ s < 65536 /\ s = Len(w)
    BY <1>1, FrameFacts
  <1>3. buf \in Seq(Byte \cup {Junk}) /\ Len(buf) = s + 1
    BY <1>1 DEF Filled
  <1>4. ASSUME NEW k \in 1 .. s PROVE buf[k] = w[k]
    <2>1. PICK i \in 0 .. Cut(s) - 1 : k - At(i) \in 1 .. PieceSize(s, i)
      BY <1>2, PiecesCover
    <2>2. IsPiece(f, i)
      BY <1>1, <2>1 DEF IsPiece, Size
    <2>3. At(i) \in Nat
      BY <2>2, PieceFacts
    <2>4. PICK x : x = k - At(i)
      OBVIOUS
    <2>5. At(i) + x = k /\ x \in 1 .. Wide(f, i)
      BY <1>1, <2>1, <2>3, <2>4 DEF Wide
    <2>6. buf[At(i) + x] = Frames[f][At(i) + x]
      BY <1>1, <2>1, <2>5 DEF Filled
    <2> QED BY <1>1, <2>5, <2>6
  <1>5. PICK t : t = SubSeq(buf, 1, s)
    OBVIOUS
  <1>6. t \in Seq(Byte \cup {Junk}) /\ Len(t) = s /\ \A k \in 1 .. s : t[k] = buf[k]
    BY <1>2, <1>3, <1>5
  <1>7. w \in Seq(Byte \cup {Junk})
    BY <1>2
  <1>8. t = w
    BY <1>2, <1>4, <1>6, <1>7, SeqEqual
  <1> QED BY <1>1, <1>5, <1>8

\* The handle has the pieces R of message f, and waits for others.
Held(f, R) ==
  /\ f \in DOMAIN Frames /\ R \subseteq 0 .. Cut(Size(f)) - 1
  /\ total_size = Size(f) /\ total_pieces = Cut(Size(f)) /\ recv_pieces = Cardinality(R)
  /\ Filled(recv_buf, f, R)

(* Pieces are finite in number; all of them are there when the count says  *)
(* so.                                                                     *)
LEMMA CountPieces ==
  ASSUME NEW c \in Nat, NEW R, R \subseteq 0 .. c - 1, NEW i \in 0 .. c - 1, i \notin R
  PROVE  /\ Cardinality(R) \in Nat /\ Cardinality(R \cup {i}) = Cardinality(R) + 1
         /\ Cardinality(R) + 1 = c => R \cup {i} = 0 .. c - 1
  <1>1. IsFiniteSet(0 .. c - 1) /\ Cardinality(0 .. c - 1) = c
    BY FS_Interval
  <1>2. IsFiniteSet(R) /\ IsFiniteSet(R \cup {i})
    BY <1>1, FS_Subset
  <1>3. Cardinality(R) \in Nat /\ Cardinality(R \cup {i}) = Cardinality(R) + 1
    BY <1>2, FS_AddElement, FS_CardinalityType
  <1>4. R \cup {i} \subseteq 0 .. c - 1
    OBVIOUS
  <1>5. Cardinality(R \cup {i}) = c => R \cup {i} = 0 .. c - 1
    BY <1>1, <1>4, FS_Subset
  <1> QED BY <1>3, <1>5

(* One turn of the merge loop with a piece that the handle does not have:  *)
(* the handle has one piece more, or the message is complete.              *)
LEMMA PieceMerged ==
  ASSUME Base, MergePiece, NEW f, NEW i, IsPiece(f, i), Input = Piece(f, i),
         NEW R, i \notin R, (NewFrame /\ R = {}) \/ Held(f, R)
  PROVE  /\ Input' = << >> /\ recv_len' = LengthNow
         /\ NewFrame <=> ~Held(f, R)
         /\ IF Cardinality(R) + 1 = Cut(Size(f))
            THEN /\ total_pieces' = 0
                 /\ LengthNow = Size(f) => get_all_pieces' = 1
                 /\ LengthNow # Size(f) => get_all_pieces' = Mismatch
                 /\ SubSeq(recv_buf', 1, Size(f)) = Frames[f]
            ELSE Held(f, R \cup {i})' /\ get_all_pieces' = get_all_pieces
  <1>1. Merged /\ Input' = After(Input, HEAD_SIZE + DataLen)
    BY MergeStep
  <1>2. /\ TotalSize = Size(f) /\ TotalPieces = Cut(Size(f)) /\ PIndex = i
        /\ DataLen = Wide(f, i) /\ DataNow = PieceData(f, i)
        /\ After(Input, HEAD_SIZE + DataLen) = << >>
    BY PieceAsInput
  <1>3. f \in DOMAIN Frames /\ i \in 0 .. Cut(Size(f)) - 1 /\ Cut(Size(f)) \in Nat /\ Size(f) \in Nat /\ 0 < Size(f)
    BY PieceFacts, FrameFacts DEF IsPiece, Size
  <1>4. R \subseteq 0 .. Cut(Size(f)) - 1
    BY DEF Held
  <1>5. /\ Cardinality(R) \in Nat /\ Cardinality(R \cup {i}) = Cardinality(R) + 1
        /\ Cardinality(R) + 1 = Cut(Size(f)) => R \cup {i} = 0 .. Cut(Size(f)) - 1
    BY <1>3, <1>4, CountPieces
  <1>6. Held(f, R) => ~NewFrame
    BY <1>2, <1>3 DEF Held, NewFrame
  <1>7. Filled(BufferNow, f, R) /\ PiecesNow = Cardinality(R) + 1
    <2>1. CASE NewFrame /\ R = {}
      <3>1. BufferNow = Malloc(Size(f) + 1) /\ PiecesNow = 1
        BY <1>2, <2>1 DEF BufferNow, PiecesNow
      <3> QED BY <1>3, <2>1, <3>1, FreshBuffer, FS_EmptySet
    <2>2. CASE Held(f, R)
      BY <1>6, <2>2 DEF Held, BufferNow, PiecesNow
    <2> QED BY <2>1, <2>2
  <1>8. recv_buf' = Stored(BufferNow, At(i), Wide(f, i), PieceData(f, i))
    BY <1>1, <1>2 DEF Merged
  <1>9. Filled(recv_buf', f, R \cup {i})
    BY <1>4, <1>7, <1>8, FillsMore
  <1>10. CASE Cardinality(R) + 1 = Cut(Size(f))
    <2>1. PiecesNow = TotalPieces
      BY <1>2, <1>7, <1>10
    <2>2. /\ total_pieces' = 0
          /\ LengthNow = Size(f) => get_all_pieces' = 1
          /\ LengthNow # Size(f) => get_all_pieces' = Mismatch
          /\ recv_len' = LengthNow
      BY <1>1, <1>2, <2>1 DEF Merged
    <2>3. SubSeq(recv_buf', 1, Size(f)) = Frames[f]
      BY <1>3, <1>5, <1>9, <1>10, FilledWhole
    <2> QED BY <1>1, <1>2, <1>6, <1>10, <2>2, <2>3
  <1>11. CASE Cardinality(R) + 1 # Cut(Size(f))
    <2>1. PiecesNow # TotalPieces
      BY <1>2, <1>7, <1>11
    <2>2. /\ total_size' = Size(f) /\ total_pieces' = Cut(Size(f)) /\ recv_pieces' = Cardinality(R \cup {i})
          /\ get_all_pieces' = get_all_pieces /\ recv_len' = LengthNow
      BY <1>1, <1>2, <1>5, <1>7, <2>1 DEF Merged
    <2>3. R \cup {i} \subseteq 0 .. Cut(Size(f)) - 1
      BY <1>3, <1>4
    <2>4. Held(f, R \cup {i})'
      BY <1>3, <1>9, <2>2, <2>3 DEF Held, Filled, Size, Wide
    <2> QED BY <1>1, <1>2, <1>6, <1>11, <2>2, <2>4
  <1> QED BY <1>10, <1>11

----------------------------------------------------------------------------
(* What stays and what the end of a call leaves *)

(* A server that calls udp_piece_merge_ex has its bytes in the ring.       *)
LEMMA RingInUse ==
  ASSUME Base, Variants = {TRUE}
  PROVE  use_ring /\ Input = Contents(circular_buffer)
  BY DEF Base, TypeOK, Input

(* Where the bytes of the server do not change.                            *)
LEMMA InputStays ==
  ASSUME UNCHANGED <<use_ring, circular_buffer, rest>>
  PROVE  Input' = Input
  BY DEF Input, Contents

(* At the end of a call the bytes are dropped or there were none.          *)
LEMMA ReturnStep ==
  ASSUME Base, Return
  PROVE  \/ Input' = << >>
         \/ use_ring /\ get_all_pieces = 0 /\ Input' = Input
  <1>1. use_ring' = use_ring /\ rest' = << >>
    BY DEF Return
  <1>2. CASE ~use_ring
    BY <1>1, <1>2 DEF Input
  <1>3. CASE use_ring /\ get_all_pieces = 0
    <2>1. circular_buffer' = circular_buffer
      BY <1>3 DEF Return
    <2> QED BY <1>1, <1>3, <2>1 DEF Input, Contents
  <1>4. CASE use_ring /\ get_all_pieces # 0
    <2>1. circular_buffer' = RingReset(circular_buffer)
      BY <1>4 DEF Return
    <2>2. Contents(circular_buffer') = << >>
      BY <2>1, ResetEmpties DEF Base
    <2> QED BY <1>1, <1>4, <2>2 DEF Input, Contents
  <1> QED BY <1>2, <1>3, <1>4

(* The pieces are what their definition says.                              *)
LEMMA PieceAmongPieces ==
  ASSUME NEW f, NEW i, IsPiece(f, i)
  PROVE  Piece(f, i) \in Pieces
  <1>1. f \in DOMAIN Frames /\ i \in 0 .. Cut(Len(Frames[f])) - 1
    BY DEF IsPiece
  <1>2. Piece(f, i) \in {Piece(f, j) : j \in 0 .. Cut(Len(Frames[f])) - 1}
    BY <1>1
  <1> QED BY <1>1, <1>2, Zenon DEF Pieces

----------------------------------------------------------------------------
(* Parts of pieces on a network that keeps their order *)

\* Part h of piece i of message f is one that the client sends.
Valid(f, i, h) == IsPiece(f, i) /\ h \in {0, 1}

\* The part that follows it.
NextF(f, i, h) == IF LastPart(h) /\ LastPiece(f, i) THEN f + 1 ELSE f
NextI(f, i, h) == IF ~LastPart(h) THEN i ELSE IF LastPiece(f, i) THEN 0 ELSE i + 1
NextH(h) == IF LastPart(h) THEN 0 ELSE 1

\* F, I and H number the datagrams s, and a part behind them, in the order
\* in which they are sent.
Numbered(s, F, I, H) ==
  \A k \in 1 .. Len(s) :
    /\ Valid(F[k], I[k], H[k]) /\ s[k] = Sends(F[k], I[k], H[k])
    /\ F[k + 1] = NextF(F[k], I[k], H[k])
    /\ I[k + 1] = NextI(F[k], I[k], H[k])
    /\ H[k + 1] = NextH(H[k])

\* The datagrams s are the parts from part h of piece i of message f on, up
\* to part e of piece j of message g, which is still to be sent.
Travels(s, f, i, h, g, j, e) ==
  \E F, I, H :
    /\ F[1] = f /\ I[1] = i /\ H[1] = h
    /\ F[Len(s) + 1] = g /\ I[Len(s) + 1] = j /\ H[Len(s) + 1] = e
    /\ Numbered(s, F, I, H)

(* With no datagram on its way the next part sent is the next received.    *)
LEMMA TravelsNone ==
  ASSUME NEW f, NEW i, NEW h
  PROVE  Travels(<< >>, f, i, h, f, i, h)
  <1>1. PICK F, I, H : F = [k \in {1} |-> f] /\ I = [k \in {1} |-> i] /\ H = [k \in {1} |-> h]
    OBVIOUS
  <1>2. /\ F[1] = f /\ I[1] = i /\ H[1] = h /\ Len(<< >>) = 0
    BY <1>1
  <1>3. Numbered(<< >>, F, I, H)
    BY DEF Numbered
  <1> QED BY <1>2, <1>3 DEF Travels

(* A part that is sent goes behind the others.                             *)
LEMMA TravelsSend ==
  ASSUME NEW s \in Seq(Seq(Byte)), NEW f, NEW i, NEW h, NEW g, NEW j, NEW e,
         Travels(s, f, i, h, g, j, e), Valid(g, j, e), Sends(g, j, e) \in Seq(Byte)
  PROVE  Travels(Append(s, Sends(g, j, e)), f, i, h, NextF(g, j, e), NextI(g, j, e), NextH(e))
  <1>1. PICK F, I, H : /\ F[1] = f /\ I[1] = i /\ H[1] = h
                       /\ F[Len(s) + 1] = g /\ I[Len(s) + 1] = j /\ H[Len(s) + 1] = e
                       /\ Numbered(s, F, I, H)
    BY DEF Travels
  <1>2. PICK n \in Nat : n = Len(s)
    OBVIOUS
  <1>3. PICK t : t = Append(s, Sends(g, j, e))
    OBVIOUS
  <1>4. /\ Len(t) = n + 1 /\ \A k \in 1 .. n : t[k] = s[k]
        /\ t[n + 1] = Sends(g, j, e)
    BY <1>2, <1>3
  <1>5. PICK A, B, C : /\ A = [k \in 1 .. n + 2 |-> IF k = n + 2 THEN NextF(g, j, e) ELSE F[k]]
                       /\ B = [k \in 1 .. n + 2 |-> IF k = n + 2 THEN NextI(g, j, e) ELSE I[k]]
                       /\ C = [k \in 1 .. n + 2 |-> IF k = n + 2 THEN NextH(e) ELSE H[k]]
    OBVIOUS
  <1>6. /\ A[n + 2] = NextF(g, j, e) /\ B[n + 2] = NextI(g, j, e) /\ C[n + 2] = NextH(e)
        /\ \A k \in 1 .. n + 1 : A[k] = F[k] /\ B[k] = I[k] /\ C[k] = H[k]
    BY <1>5
  <1>7. ASSUME NEW k \in 1 .. n + 1
        PROVE  /\ Valid(A[k], B[k], C[k]) /\ t[k] = Sends(A[k], B[k], C[k])
               /\ A[k + 1] = NextF(A[k], B[k], C[k])
               /\ B[k + 1] = NextI(A[k], B[k], C[k])
               /\ C[k + 1] = NextH(C[k])
    <2>1. CASE k = n + 1
      <3>1. A[k] = g /\ B[k] = j /\ C[k] = e /\ k + 1 = n + 2
        BY <1>1, <1>2, <1>6, <2>1
      <3> QED BY <1>4, <1>6, <2>1, <3>1
    <2>2. CASE k # n + 1
      <3>1. k \in 1 .. n /\ k + 1 \in 1 .. n + 1
        BY <2>2
      <3>2. /\ Valid(F[k], I[k], H[k]) /\ s[k] = Sends(F[k], I[k], H[k])
            /\ F[k + 1] = NextF(F[k], I[k], H[k])
            /\ I[k + 1] = NextI(F[k], I[k], H[k])
            /\ H[k + 1] = NextH(H[k])
        BY <1>1, <1>2, <3>1 DEF Numbered
      <3> QED BY <1>4, <1>6, <3>1, <3>2
    <2> QED BY <2>1, <2>2
  <1>8. Numbered(t, A, B, C)
    BY <1>4, <1>7 DEF Numbered
  <1>9. Len(t) + 1 = n + 2 /\ 1 \in 1 .. n + 1
    BY <1>4
  <1>10. /\ A[1] = f /\ B[1] = i /\ C[1] = h
         /\ A[Len(t) + 1] = NextF(g, j, e) /\ B[Len(t) + 1] = NextI(g, j, e) /\ C[Len(t) + 1] = NextH(e)
    BY <1>1, <1>6, <1>9
  <1> QED BY <1>3, <1>8, <1>10 DEF Travels

(* The first datagram is the part that the server waits for.               *)
LEMMA TravelsReceive ==
  ASSUME NEW s \in Seq(Seq(Byte)), Len(s) > 0, NEW f, NEW i, NEW h, NEW g, NEW j, NEW e,
         Travels(s, f, i, h, g, j, e)
  PROVE  /\ Valid(f, i, h) /\ s[1] = Sends(f, i, h)
         /\ Travels(Tail(s), NextF(f, i, h), NextI(f, i, h), NextH(h), g, j, e)
  <1>1. PICK F, I, H : /\ F[1] = f /\ I[1] = i /\ H[1] = h
                       /\ F[Len(s) + 1] = g /\ I[Len(s) + 1] = j /\ H[Len(s) + 1] = e
                       /\ Numbered(s, F, I, H)
    BY DEF Travels
  <1>2. PICK n \in Nat : n + 1 = Len(s)
    <2>1. Len(s) \in Nat /\ Len(s) - 1 \in Nat /\ (Len(s) - 1) + 1 = Len(s)
      OBVIOUS
    <2> QED BY <2>1
  <1>3. /\ Valid(f, i, h) /\ s[1] = Sends(f, i, h)
        /\ F[2] = NextF(f, i, h) /\ I[2] = NextI(f, i, h) /\ H[2] = NextH(h)
    <2>1. 1 \in 1 .. Len(s)
      BY <1>2
    <2> QED BY <1>1, <2>1 DEF Numbered
  <1>4. PICK t : t = Tail(s)
    OBVIOUS
  <1>5. Len(t) = n /\ \A k \in 1 .. n : t[k] = s[k + 1]
    <2>1. s # << >> /\ Len(t) = Len(s) - 1 /\ \A k \in 1 .. Len(s) - 1 : t[k] = s[k + 1]
      BY <1>2, <1>4
    <2>2. n = Len(s) - 1
      BY <1>2
    <2> QED BY <2>1, <2>2
  <1>6. PICK A, B, C : /\ A = [k \in 1 .. n + 1 |-> F[k + 1]]
                       /\ B = [k \in 1 .. n + 1 |-> I[k + 1]]
                       /\ C = [k \in 1 .. n + 1 |-> H[k + 1]]
    OBVIOUS
  <1>7. \A k \in 1 .. n + 1 : A[k] = F[k + 1] /\ B[k] = I[k + 1] /\ C[k] = H[k + 1]
    BY <1>6
  <1>8. ASSUME NEW k \in 1 .. n
        PROVE  /\ Valid(A[k], B[k], C[k]) /\ t[k] = Sends(A[k], B[k], C[k])
               /\ A[k + 1] = NextF(A[k], B[k], C[k])
               /\ B[k + 1] = NextI(A[k], B[k], C[k])
               /\ C[k + 1] = NextH(C[k])
    <2>1. PICK m : m = k + 1
      OBVIOUS
    <2>2. m \in 1 .. Len(s) /\ k \in 1 .. n + 1 /\ m \in 1 .. n + 1
      BY <1>2, <2>1
    <2>3. /\ Valid(F[m], I[m], H[m]) /\ s[m] = Sends(F[m], I[m], H[m])
          /\ F[m + 1] = NextF(F[m], I[m], H[m])
          /\ I[m + 1] = NextI(F[m], I[m], H[m])
          /\ H[m + 1] = NextH(H[m])
      BY <1>1, <2>2 DEF Numbered
    <2>4. A[k] = F[m] /\ B[k] = I[m] /\ C[k] = H[m] /\ A[m] = F[m + 1] /\ B[m] = I[m + 1] /\ C[m] = H[m + 1]
      BY <1>7, <2>1, <2>2
    <2> QED BY <1>5, <2>1, <2>3, <2>4
  <1>9. Numbered(t, A, B, C)
    BY <1>5, <1>8 DEF Numbered
  <1>10. /\ A[1] = NextF(f, i, h) /\ B[1] = NextI(f, i, h) /\ C[1] = NextH(h)
         /\ A[Len(t) + 1] = g /\ B[Len(t) + 1] = j /\ C[Len(t) + 1] = e
    <2>1. 1 \in 1 .. n + 1 /\ n + 1 \in 1 .. n + 1 /\ (n + 1) + 1 = Len(s) + 1 /\ Len(t) + 1 = n + 1
      BY <1>2, <1>5
    <2>2. A[n + 1] = F[(n + 1) + 1] /\ B[n + 1] = I[(n + 1) + 1] /\ C[n + 1] = H[(n + 1) + 1]
      BY <1>7, <2>1
    <2>3. A[1] = F[2] /\ B[1] = I[2] /\ C[1] = H[2]
      BY <1>7, <2>1
    <2> QED BY <1>1, <1>3, <2>1, <2>2, <2>3
  <1> QED BY <1>3, <1>4, <1>9, <1>10 DEF Travels

\* The bytes of a piece that are there before and after part h has arrived.
Before(f, i, h) == IF h = 0 THEN << >> ELSE SubSeq(Piece(f, i), 1, FirstPart)
Have(f, i, h) == IF LastPart(h) THEN Piece(f, i) ELSE SubSeq(Piece(f, i), 1, FirstPart)

(* The two parts of a piece make it whole.                                 *)
LEMMA PartsJoin ==
  ASSUME NEW f, NEW i, NEW h, Valid(f, i, h)
  PROVE  /\ Before(f, i, h) \o Sends(f, i, h) = Have(f, i, h)
         /\ Sends(f, i, h) \in Seq(Byte)
         /\ Len(Before(f, i, h)) + Len(Sends(f, i, h)) =< HEAD_SIZE + PIECE_FIX_SIZE
  <1>1. PICK p, a : p = Piece(f, i) /\ a = FirstPart
    OBVIOUS
  <1>2. /\ p \in Seq(Byte) /\ Len(p) \in Nat /\ HEAD_SIZE < Len(p) /\ Len(p) =< HEAD_SIZE + PIECE_FIX_SIZE
        /\ SubSeq(p, 1, a) \in Seq(Byte) /\ Len(SubSeq(p, 1, a)) = a
        /\ SubSeq(p, a + 1, Len(p)) \in Seq(Byte)
    BY <1>1, PartFacts DEF Valid
  <1>3. a \in Nat /\ a =< 12 /\ a < Len(p) /\ PIECE_FIX_SIZE \in Nat
    BY <1>1, <1>2, PartAssumption, PieceAssumption DEF HEAD_SIZE
  <1>4. << >> \o p = p /\ << >> \o SubSeq(p, 1, a) = SubSeq(p, 1, a)
    BY <1>2
  <1>5. SubSeq(p, 1, a) \o SubSeq(p, a + 1, Len(p)) = p
    <2>1. PICK u, v : u = SubSeq(p, 1, a) /\ v = SubSeq(p, a + 1, Len(p))
      OBVIOUS
    <2>2. u \in Seq(Byte) /\ Len(u) = a /\ \A k \in 1 .. a : u[k] = p[k]
      BY <1>2, <1>3, <2>1
    <2>3. v \in Seq(Byte) /\ Len(v) = Len(p) - a /\ \A k \in 1 .. Len(p) - a : v[k] = p[a + k]
      BY <1>2, <1>3, <2>1
    <2>4. /\ u \o v \in Seq(Byte) /\ Len(u \o v) = Len(u) + Len(v)
          /\ \A k \in 1 .. Len(u) + Len(v) : (u \o v)[k] = IF k =< Len(u) THEN u[k] ELSE v[k - Len(u)]
      <3>1. u \in Seq(Byte) /\ v \in Seq(Byte)
        BY <2>2, <2>3
      <3> QED BY <3>1, ConcatProperties
    <2>5. PICK w : w = u \o v
      OBVIOUS
    <2>6. Len(w) = Len(p) /\ \A k \in 1 .. Len(p) : w[k] = IF k =< a THEN u[k] ELSE v[k - a]
      <3>1. Len(u) = a /\ Len(u) + Len(v) = Len(p)
        BY <1>2, <1>3, <2>2, <2>3
      <3> QED BY <2>4, <2>5, <3>1
    <2>7. \A k \in 1 .. Len(p) : w[k] = p[k]
      <3>1. ASSUME NEW k \in 1 .. Len(p) PROVE w[k] = p[k]
        <4>1. CASE k =< a
          BY <1>3, <2>2, <2>6, <4>1
        <4>2. CASE ~(k =< a)
          <5>1. k - a \in 1 .. Len(p) - a /\ a + (k - a) = k
            BY <1>2, <1>3, <4>2
          <5>2. v[k - a] = p[a + (k - a)]
            BY <2>3, <5>1
          <5> QED BY <2>6, <4>2, <5>1, <5>2
        <4> QED BY <4>1, <4>2
      <3> QED BY <3>1
    <2>8. w = p
      BY <1>2, <2>4, <2>5, <2>6, <2>7, SeqEqual
    <2> QED BY <2>1, <2>5, <2>8
  <1>6. Len(SubSeq(p, a + 1, Len(p))) = Len(p) - a
    BY <1>2, <1>3
  <1>8. CASE h = 0
    <2>0. ~LastPart(h)
      BY <1>8 DEF LastPart
    <2>1. Sends(f, i, h) = SubSeq(p, 1, a) /\ Before(f, i, h) = << >> /\ Have(f, i, h) = SubSeq(p, 1, a)
      BY <1>1, <1>8, <2>0, Zenon DEF Sends, Before, Have
    <2>2. Len(Before(f, i, h)) = 0
      BY <2>1
    <2>3. Len(Sends(f, i, h)) = a
      BY <1>2, <2>1
    <2>4. Len(Before(f, i, h)) + Len(Sends(f, i, h)) = a
      BY <1>3, <2>2, <2>3
    <2>5. a =< HEAD_SIZE + PIECE_FIX_SIZE
      BY <1>3 DEF HEAD_SIZE
    <2> QED BY <1>2, <1>4, <1>8, <2>1, <2>4, <2>5
  <1>9. CASE h = 1
    <2>0. LastPart(h) /\ h # 0
      BY <1>9 DEF LastPart
    <2>1. /\ Sends(f, i, h) = SubSeq(p, a + 1, Len(p)) /\ Before(f, i, h) = SubSeq(p, 1, a)
          /\ Have(f, i, h) = p
      BY <1>1, <1>9, <2>0, Zenon DEF Sends, Before, Have
    <2>2. a + (Len(p) - a) =< HEAD_SIZE + PIECE_FIX_SIZE
      BY <1>2, <1>3
    <2> QED BY <1>2, <1>5, <1>6, <1>9, <2>1, <2>2
  <1> QED BY <1>8, <1>9 DEF Valid

\* The handle has the first i pieces of message f.
HandleAt(f, i) == IF i = 0 THEN total_size = 0 ELSE Held(f, 0 .. i - 1) /\ recv_len = At(i)

\* The messages before message f have been printed.
Printed(f) ==
  /\ delivered \in Seq(Seq(Byte)) /\ Len(delivered) = f - 1 /\ f \in Nat
  /\ \A k \in 1 .. Len(delivered) : delivered[k] = Frames[k]

\* Part h has arrived and is not merged yet; the piece is merged.
Busy(f, i, h) == Input = Have(f, i, h) /\ get_all_pieces = 0 /\ HandleAt(f, i)
Done(f, i, h) ==
  /\ LastPart(h) /\ Input = << >>
  /\ IF LastPiece(f, i) THEN get_all_pieces = 1 /\ SubSeq(recv_buf, 1, recv_len) = Frames[f]
                        ELSE get_all_pieces = 0 /\ HandleAt(f, i + 1)

\* The server waits for part h; it has received it.
Waiting(f, i, h) ==
  /\ pc = "recvfrom"
  /\ Travels(net, f, i, h, frame, index, half)
  /\ Input = Before(f, i, h) /\ HandleAt(f, i)
Working(f, i, h) ==
  /\ Valid(f, i, h)
  /\ Travels(net, NextF(f, i, h), NextI(f, i, h), NextH(h), frame, index, half)
  /\ \/ pc \in {"sync", "merge"} /\ Busy(f, i, h)
     \/ pc = "return" /\ Busy(f, i, h) /\ ~LastPart(h)
     \/ pc \in {"merge", "return"} /\ Done(f, i, h)

\* The inductive invariant for an orderly network.
OrderInv == \E f, i, h : Printed(f) /\ (Waiting(f, i, h) \/ Working(f, i, h))

\* The network keeps datagrams, malloc succeeds, and the server calls
\* udp_piece_merge_ex with a ring that has room for a piece.
Orderly ==
  /\ Faults = {}
  /\ Variants = {TRUE}
  /\ Capacity >= HEAD_SIZE + PIECE_FIX_SIZE

(* What the handle holds stays while it is not touched.                    *)
LEMMA HandleStays ==
  ASSUME UNCHANGED handle, NEW f, NEW i
  PROVE  HandleAt(f, i) => HandleAt(f, i)'
  BY DEF HandleAt, Held, Filled, handle

(* While the client sends, the server stays where it is.                   *)
LEMMA OrderSend ==
  ASSUME Base, Orderly, OrderInv, SendTo
  PROVE  OrderInv'
  <1>1. /\ IsPiece(frame, index)
        /\ net' = Append(net, Sends(frame, index, half)) /\ Sends(frame, index, half) \in Seq(Byte)
        /\ half' = NextH(half) /\ index' = NextI(frame, index, half) /\ frame' = NextF(frame, index, half)
    BY SendStep, RingInUse DEF Orderly, NextF, NextI, NextH
  <1>2. half \in {0, 1} /\ net \in Seq(Seq(Byte))
    BY DEF Base, TypeOK
  <1>3. Valid(frame, index, half)
    BY <1>1, <1>2 DEF Valid
  <1>5. UNCHANGED <<use_ring, circular_buffer, rest, pc, handle, get_all_pieces, delivered>>
    BY DEF SendTo
  <1>6. Input' = Input
    BY <1>5, InputStays
  <1>7. PICK f, i, h : Printed(f) /\ (Waiting(f, i, h) \/ Working(f, i, h))
    BY DEF OrderInv
  <1>8. Printed(f)'
    BY <1>5, <1>7 DEF Printed
  <1>9. ASSUME NEW a, NEW b, NEW c, Travels(net, a, b, c, frame, index, half)
        PROVE  Travels(net', a, b, c, frame', index', half')
    BY <1>1, <1>2, <1>3, <1>9, TravelsSend
  <1>10. CASE Waiting(f, i, h)
    <2>1. Waiting(f, i, h)'
      BY <1>5, <1>6, <1>9, <1>10, HandleStays DEF Waiting
    <2> QED BY <1>8, <2>1 DEF OrderInv
  <1>11. CASE Working(f, i, h)
    <2>1. Busy(f, i, h) => Busy(f, i, h)'
      BY <1>5, <1>6, HandleStays DEF Busy
    <2>2. Done(f, i, h) => Done(f, i, h)'
      BY <1>5, <1>6, HandleStays DEF Done, handle
    <2>3. Working(f, i, h)'
      BY <1>5, <1>9, <1>11, <2>1, <2>2 DEF Working
    <2> QED BY <1>8, <2>3 DEF OrderInv
  <1> QED BY <1>7, <1>10, <1>11

(* The parts of one piece begin with the synchronisation word, and are     *)
(* taken for a piece only when all of them are there.                      *)
LEMMA PartsAsInput ==
  ASSUME use_ring, NEW f, NEW i, NEW h, Valid(f, i, h), Input = Have(f, i, h)
  PROVE  /\ Synchronised(Input)
         /\ HavePiece <=> LastPart(h)
         /\ LastPart(h) => Input = Piece(f, i)
  <1>1. IsPiece(f, i)
    BY DEF Valid
  <1>2. CASE LastPart(h)
    <2>1. Input = Piece(f, i)
      BY <1>2 DEF Have
    <2> QED BY <1>1, <1>2, <2>1, PieceAsInput
  <1>3. CASE ~LastPart(h)
    <2>1. PICK p, s : p = Piece(f, i) /\ s = SubSeq(p, 1, FirstPart)
      OBVIOUS
    <2>2. Input = s
      BY <1>3, <2>1, Zenon DEF Have
    <2>3. FirstPart # 0 /\ FirstPart \in Nat /\ FirstPart =< 12
      BY PartAssumption DEF HEAD_SIZE
    <2>5. p \in Seq(Byte) /\ 12 < Len(p) /\ p[1] = 175 /\ p[2] = 174
      BY <1>1, <2>1, PieceCarries, PartFacts DEF Carries, HEAD_SIZE
    <2>6. Len(s) = FirstPart /\ \A k \in 1 .. FirstPart : s[k] = p[k]
      BY <2>1, <2>3, <2>5
    <2>7. Synchronised(s)
      <3>1. CASE FirstPart = 1
        BY <2>6, <3>1 DEF Synchronised
      <3>2. CASE FirstPart # 1
        <4>1. 1 \in 1 .. FirstPart /\ 2 \in 1 .. FirstPart /\ FirstPart >= 2
          BY <2>3, <3>2
        <4>2. s[1] = 175 /\ s[2] = 174
          BY <2>5, <2>6, <4>1
        <4> QED BY <2>6, <4>1, <4>2 DEF Synchronised
      <3> QED BY <3>1, <3>2
    <2>8. ~HavePiece
      BY <2>2, <2>3, <2>6 DEF HavePiece, HEAD_SIZE
    <2> QED BY <1>3, <2>2, <2>7, <2>8
  <1> QED BY <1>2, <1>3

(* The next part arrives and joins the one before it.                      *)
LEMMA OrderReceive ==
  ASSUME Base, Orderly, OrderInv, Receive
  PROVE  OrderInv'
  <1>1. pc = "recvfrom" /\ UNCHANGED <<client, use_ring, handle, delivered>>
    BY DEF Receive
  <1>2. PICK f, i, h : Printed(f) /\ (Waiting(f, i, h) \/ Working(f, i, h))
    BY DEF OrderInv
  <1>3. Waiting(f, i, h)
    BY <1>1, <1>2 DEF Working
  <1>4. Len(net) > 0 /\ net' = Tail(net) /\ Arrives(net[1])
    BY ReceiveStep
  <1>5. net \in Seq(Seq(Byte)) /\ use_ring
    BY RingInUse DEF Orderly, Base, TypeOK
  <1>6. /\ Valid(f, i, h) /\ net[1] = Sends(f, i, h)
        /\ Travels(Tail(net), NextF(f, i, h), NextI(f, i, h), NextH(h), frame, index, half)
    BY <1>3, <1>4, <1>5, TravelsReceive DEF Waiting
  <1>7. /\ Before(f, i, h) \o Sends(f, i, h) = Have(f, i, h)
        /\ Len(Before(f, i, h)) + Len(Sends(f, i, h)) =< HEAD_SIZE + PIECE_FIX_SIZE
    BY <1>6, PartsJoin
  <1>8. PICK b, d : b = Before(f, i, h) /\ d = Sends(f, i, h)
    OBVIOUS
  <1>9. Input = b /\ Arrives(d) /\ b \o d = Have(f, i, h) /\ Len(b) + Len(d) =< HEAD_SIZE + PIECE_FIX_SIZE
    BY <1>3, <1>4, <1>5, <1>6, <1>7, <1>8 DEF Waiting
  <1>10. ~(Len(b) + Len(d) > Capacity)
    <2>1. PICK x, c : x = Len(b) + Len(d) /\ c = HEAD_SIZE + PIECE_FIX_SIZE
      OBVIOUS
    <2>2. b \in Seq(Byte) /\ d \in Seq(Byte)
      BY <1>6, <1>8, <1>9, InputIsBytes, PartsJoin
    <2>3. x \in Nat /\ c \in Nat /\ x =< c /\ Capacity \in Nat /\ Capacity >= c
      BY <1>9, <2>1, <2>2, CapacityAssumption, PieceAssumption DEF HEAD_SIZE, Orderly
    <2> QED BY <2>1, <2>3
  <1>11. pc' = "sync" /\ get_all_pieces' = 0 /\ Input' = b \o d
    BY <1>5, <1>9, <1>10 DEF Arrives
  <1>12. Input' = Have(f, i, h)
    BY <1>9, <1>11
  <1>13. HandleAt(f, i)'
    BY <1>1, <1>3, HandleStays DEF Waiting
  <1>14. Travels(net', NextF(f, i, h), NextI(f, i, h), NextH(h), frame', index', half')
    BY <1>1, <1>4, <1>5, <1>6 DEF client
  <1>15. Working(f, i, h)'
    BY <1>6, <1>11, <1>12, <1>13, <1>14 DEF Working, Busy
  <1>16. Printed(f)'
    BY <1>1, <1>2 DEF Printed
  <1> QED BY <1>15, <1>16 DEF OrderInv

(* No byte is skipped.                                                     *)
LEMMA OrderSync ==
  ASSUME Base, Orderly, OrderInv, Sync
  PROVE  OrderInv'
  <1>1. pc = "sync" /\ pc' = "merge" /\ UNCHANGED <<client, net, use_ring, handle, get_all_pieces, delivered>>
    BY DEF Sync
  <1>2. PICK f, i, h : Printed(f) /\ (Waiting(f, i, h) \/ Working(f, i, h))
    BY DEF OrderInv
  <1>3. Working(f, i, h) /\ Valid(f, i, h) /\ Busy(f, i, h)
    BY <1>1, <1>2 DEF Waiting, Working
  <1>4. Input' = Input
    BY <1>3, RingInUse, PartsAsInput, SyncStep DEF Busy, Orderly
  <1>5. Busy(f, i, h)'
    BY <1>1, <1>3, <1>4, HandleStays DEF Busy
  <1>6. Travels(net', NextF(f, i, h), NextI(f, i, h), NextH(h), frame', index', half')
    BY <1>1, <1>3 DEF Working, client
  <1>7. Working(f, i, h)'
    BY <1>1, <1>3, <1>5, <1>6 DEF Working
  <1>8. Printed(f)'
    BY <1>1, <1>2 DEF Printed
  <1> QED BY <1>7, <1>8 DEF OrderInv

(* A piece is merged behind the ones before it.                            *)
LEMMA PieceInOrder ==
  ASSUME Base, MergePiece, NEW f, NEW i, NEW h, IsPiece(f, i), LastPart(h),
         Input = Piece(f, i), get_all_pieces = 0, HandleAt(f, i)
  PROVE  Done(f, i, h)'
  <1>1. PICK R : R = 0 .. i - 1
    OBVIOUS
  <1>2. /\ f \in DOMAIN Frames /\ i \in Nat /\ i < Cut(Size(f)) /\ Cut(Size(f)) \in Nat
        /\ At(i) \in Nat /\ Wide(f, i) \in Nat
        /\ i < Cut(Size(f)) - 1 => Wide(f, i) = PIECE_FIX_SIZE
        /\ i = Cut(Size(f)) - 1 => At(i) + Wide(f, i) = Size(f)
    BY PieceFacts, FrameFacts DEF Wide
  <1>3. Cardinality(R) = i /\ i \notin R
    BY <1>1, <1>2, FS_Interval
  <1>4. R \cup {i} = 0 .. (i + 1) - 1 /\ (i = 0 => R = {})
    BY <1>1, <1>2
  <1>5. (NewFrame /\ R = {}) \/ Held(f, R)
    BY <1>1, <1>4 DEF HandleAt, NewFrame
  <1>6. /\ Input' = << >> /\ recv_len' = LengthNow
        /\ NewFrame <=> ~Held(f, R)
        /\ IF Cardinality(R) + 1 = Cut(Size(f))
           THEN /\ LengthNow = Size(f) => get_all_pieces' = 1
                /\ SubSeq(recv_buf', 1, Size(f)) = Frames[f]
           ELSE Held(f, R \cup {i})' /\ get_all_pieces' = get_all_pieces
    BY <1>3, <1>5, PieceMerged
  <1>7. LengthNow = At(i) + Wide(f, i)
    <2>1. DataLen = Wide(f, i)
      BY PieceAsInput
    <2>2. CASE i = 0
      <3>1. NewFrame /\ At(i) = 0
        BY <1>2, <2>2, AtNext DEF HandleAt, NewFrame
      <3> QED BY <1>2, <2>1, <3>1 DEF LengthNow
    <2>3. CASE i # 0
      <3>1. ~NewFrame /\ recv_len = At(i)
        BY <1>1, <1>6, <2>3 DEF HandleAt
      <3> QED BY <2>1, <3>1 DEF LengthNow
    <2> QED BY <2>2, <2>3
  <1>8. CASE LastPiece(f, i)
    <2>1. i + 1 = Cut(Size(f)) /\ i = Cut(Size(f)) - 1 /\ Cardinality(R) + 1 = Cut(Size(f))
      BY <1>2, <1>3, <1>8 DEF LastPiece
    <2>2. LengthNow = Size(f)
      BY <1>2, <1>7, <2>1
    <2>3. get_all_pieces' = 1 /\ SubSeq(recv_buf', 1, recv_len') = Frames[f]
      BY <1>6, <2>1, <2>2
    <2> QED BY <1>6, <1>8, <2>3 DEF Done
  <1>9. CASE ~LastPiece(f, i)
    <2>1. i < Cut(Size(f)) - 1 /\ Cardinality(R) + 1 # Cut(Size(f)) /\ i + 1 # 0
      BY <1>2, <1>3, <1>9 DEF LastPiece
    <2>2. recv_len' = At(i + 1)
      BY <1>2, <1>6, <1>7, <2>1, AtNext
    <2>3. Held(f, R \cup {i})' /\ get_all_pieces' = 0
      BY <1>6, <2>1
    <2>4. Held(f, 0 .. (i + 1) - 1)'
      BY <1>4, <2>3
    <2>5. HandleAt(f, i + 1)'
      BY <2>1, <2>2, <2>4 DEF HandleAt
    <2> QED BY <1>6, <1>9, <2>3, <2>5 DEF Done
  <1> QED BY <1>8, <1>9

(* The merge loop merges the piece that is whole, and ends when there is   *)
(* none.                                                                   *)
LEMMA OrderMerge ==
  ASSUME Base, Orderly, OrderInv, MergePiece \/ MergeEnd
  PROVE  OrderInv'
  <1>1. pc = "merge" /\ UNCHANGED <<client, net, use_ring, delivered>>
    BY DEF MergePiece, MergeEnd
  <1>2. PICK f, i, h : Printed(f) /\ (Waiting(f, i, h) \/ Working(f, i, h))
    BY DEF OrderInv
  <1>3. Working(f, i, h) /\ Valid(f, i, h) /\ (Busy(f, i, h) \/ Done(f, i, h))
    BY <1>1, <1>2 DEF Waiting, Working
  <1>4. Travels(net', NextF(f, i, h), NextI(f, i, h), NextH(h), frame', index', half')
    BY <1>1, <1>3 DEF Working, client
  <1>5. Printed(f)'
    BY <1>1, <1>2 DEF Printed
  <1>6. CASE MergePiece
    <2>1. HavePiece /\ pc' = "merge"
      BY <1>1, <1>6 DEF MergePiece
    <2>2. Busy(f, i, h)
      <3>1. Input # << >>
        BY <2>1 DEF HavePiece, HEAD_SIZE
      <3> QED BY <1>3, <3>1 DEF Done
    <2>3. LastPart(h) /\ Input = Piece(f, i) /\ IsPiece(f, i)
      BY <1>3, <2>1, <2>2, RingInUse, PartsAsInput DEF Busy, Valid, Orderly
    <2>4. Done(f, i, h)'
      BY <1>6, <2>2, <2>3, PieceInOrder DEF Busy
    <2>5. Working(f, i, h)'
      BY <1>3, <1>4, <2>1, <2>4 DEF Working
    <2> QED BY <1>5, <2>5 DEF OrderInv
  <1>7. CASE MergeEnd
    <2>1. ~HavePiece /\ pc' = "return" /\ UNCHANGED <<circular_buffer, rest, handle, get_all_pieces>>
      BY <1>7 DEF MergeEnd
    <2>2. Input' = Input
      BY <1>1, <2>1, InputStays
    <2>3. Busy(f, i, h) => ~LastPart(h) /\ Busy(f, i, h)'
      BY <1>3, <2>1, <2>2, RingInUse, PartsAsInput, HandleStays DEF Busy, Orderly
    <2>4. Done(f, i, h) => Done(f, i, h)'
      BY <2>1, <2>2, HandleStays DEF Done, handle
    <2>5. Working(f, i, h)'
      BY <1>3, <1>4, <2>1, <2>3, <2>4 DEF Working
    <2> QED BY <1>5, <2>5 DEF OrderInv
  <1> QED BY <1>6, <1>7

(* A message that was printed is the next one.                             *)
LEMMA PrintedMore ==
  ASSUME NEW f \in DOMAIN Frames, Printed(f), delivered' = Append(delivered, Frames[f])
  PROVE  Printed(f + 1)'
  <1>1. /\ delivered \in Seq(Seq(Byte)) /\ Len(delivered) = f - 1 /\ f \in Nat /\ Len(delivered) \in Nat
        /\ \A k \in 1 .. Len(delivered) : delivered[k] = Frames[k]
    BY DEF Printed
  <1>2. Frames[f] \in Seq(Byte)
    BY FrameFacts
  <1>3. Appended(Seq(Byte), delivered', delivered, Frames[f])
    BY <1>1, <1>2, OneMore
  <1>4. /\ delivered' \in Seq(Seq(Byte)) /\ Len(delivered') = Len(delivered) + 1
        /\ \A k \in 1 .. Len(delivered) + 1 :
             delivered'[k] = IF k = Len(delivered) + 1 THEN Frames[f] ELSE delivered[k]
    BY <1>3 DEF Appended
  <1>5. Len(delivered) + 1 = f /\ f + 1 \in Nat /\ (f + 1) - 1 = f
    BY <1>1
  <1>6. \A k \in 1 .. f : delivered'[k] = Frames[k]
    BY <1>1, <1>4, <1>5
  <1> QED BY <1>4, <1>5, <1>6 DEF Printed

(* echo_server prints the message when it is complete, and otherwise goes  *)
(* on with the next part or piece.                                         *)
LEMMA OrderReturn ==
  ASSUME Base, Orderly, OrderInv, Return
  PROVE  OrderInv'
  <1>1. /\ pc = "return" /\ pc' = "recvfrom" /\ UNCHANGED <<client, net, use_ring>>
        /\ get_all_pieces = 0 => UNCHANGED <<circular_buffer, handle, delivered>>
    BY DEF Return
  <1>2. PICK f, i, h : Printed(f) /\ (Waiting(f, i, h) \/ Working(f, i, h))
    BY DEF OrderInv
  <1>3. /\ Working(f, i, h) /\ Valid(f, i, h)
        /\ (Busy(f, i, h) /\ ~LastPart(h)) \/ Done(f, i, h)
    BY <1>1, <1>2 DEF Waiting, Working
  <1>4. Travels(net', NextF(f, i, h), NextI(f, i, h), NextH(h), frame', index', half')
    BY <1>1, <1>3 DEF Working, client
  <1>6. CASE Busy(f, i, h) /\ ~LastPart(h)
    <2>1. get_all_pieces = 0 /\ HandleAt(f, i) /\ Input = Have(f, i, h)
      BY <1>6 DEF Busy
    <2>2. use_ring
      BY RingInUse DEF Orderly
    <2>3. Input' = Input
      BY <1>1, <2>1, <2>2 DEF Input, Contents
    <2>4. Have(f, i, h) = Before(f, i, 1)
      <3>1. 1 # 0
        OBVIOUS
      <3> QED BY <1>6, <3>1, Zenon DEF Have, Before
    <2>5. NextF(f, i, h) = f /\ NextI(f, i, h) = i /\ NextH(h) = 1
      BY <1>6 DEF NextF, NextI, NextH
    <2>6. HandleAt(f, i)' /\ Printed(f)'
      BY <1>1, <1>2, <2>1, HandleStays DEF Printed
    <2>7. Waiting(f, i, 1)'
      BY <1>1, <1>4, <2>1, <2>3, <2>4, <2>5, <2>6 DEF Waiting
    <2> QED BY <2>6, <2>7 DEF OrderInv
  <1>7. CASE Done(f, i, h) /\ ~LastPiece(f, i)
    <2>1. LastPart(h) /\ Input = << >> /\ get_all_pieces = 0 /\ HandleAt(f, i + 1)
      BY <1>7 DEF Done
    <2>2. Input' = << >>
      BY <2>1, ReturnStep
    <2>3. NextF(f, i, h) = f /\ NextI(f, i, h) = i + 1 /\ NextH(h) = 0 /\ Before(f, i + 1, 0) = << >>
      BY <1>7, <2>1 DEF NextF, NextI, NextH, Before
    <2>4. HandleAt(f, i + 1)' /\ Printed(f)'
      BY <1>1, <1>2, <2>1, HandleStays DEF Printed
    <2>5. Waiting(f, i + 1, 0)'
      BY <1>1, <1>4, <2>2, <2>3, <2>4 DEF Waiting
    <2> QED BY <2>4, <2>5 DEF OrderInv
  <1>8. CASE Done(f, i, h) /\ LastPiece(f, i)
    <2>1. LastPart(h) /\ get_all_pieces = 1 /\ SubSeq(recv_buf, 1, recv_len) = Frames[f]
      BY <1>8 DEF Done
    <2>2. Input' = << >>
      BY <2>1, ReturnStep
    <2>3. delivered' = Append(delivered, Frames[f]) /\ total_size' = 0
      <3>1. delivered' = Append(delivered, SubSeq(recv_buf, 1, recv_len)) /\ total_size' = 0
        BY <2>1 DEF Return
      <3> QED BY <2>1, <3>1, Zenon
    <2>4. NextF(f, i, h) = f + 1 /\ NextI(f, i, h) = 0 /\ NextH(h) = 0 /\ Before(f + 1, 0, 0) = << >>
      BY <1>8, <2>1 DEF NextF, NextI, NextH, Before
    <2>5. HandleAt(f + 1, 0)'
      BY <2>3 DEF HandleAt
    <2>6. f \in DOMAIN Frames
      BY <1>3 DEF Valid, IsPiece
    <2>7. Printed(f + 1)'
      BY <1>2, <2>3, <2>6, PrintedMore
    <2>8. Waiting(f + 1, 0, 0)'
      BY <1>1, <1>4, <2>2, <2>4, <2>5 DEF Waiting
    <2> QED BY <2>7, <2>8 DEF OrderInv
  <1> QED BY <1>3, <1>6, <1>7, <1>8

(* The invariant for an orderly network is inductive.                      *)
LEMMA OrderStep ==
  ASSUME Base, Orderly, OrderInv, [Next]_vars
  PROVE  OrderInv'
  <1>1. CASE UNCHANGED vars
    <2>1. /\ UNCHANGED <<client, net, use_ring, pc, handle, get_all_pieces, delivered>>
          /\ Input' = Input
      BY <1>1, InputStays DEF vars
    <2>2. PICK f, i, h : Printed(f) /\ (Waiting(f, i, h) \/ Working(f, i, h))
      BY DEF OrderInv
    <2>3. Printed(f)'
      BY <2>1, <2>2 DEF Printed
    <2>4. Waiting(f, i, h) => Waiting(f, i, h)'
      BY <2>1, HandleStays DEF Waiting, client
    <2>5. Busy(f, i, h) => Busy(f, i, h)'
      BY <2>1, HandleStays DEF Busy
    <2>6. Done(f, i, h) => Done(f, i, h)'
      BY <2>1, HandleStays DEF Done, handle
    <2>7. Working(f, i, h) => Working(f, i, h)'
      BY <2>1, <2>5, <2>6 DEF Working, client
    <2> QED BY <2>2, <2>3, <2>4, <2>7 DEF OrderInv
  <1>2. ~LoseStart /\ ~Restart /\ ~MallocFails
    BY DEF LoseStart, Restart, MallocFails, Orderly
  <1> QED BY <1>1, <1>2, OrderSend, OrderReceive, OrderSync, OrderMerge, OrderReturn DEF Next, Server

(* What the invariant says about what is printed.                          *)
LEMMA OrderInvImplies ==
  ASSUME Base, Orderly, OrderInv
  PROVE  PrintedInOrder
  <1>1. PICK f, i, h : Printed(f) /\ (Waiting(f, i, h) \/ Working(f, i, h))
    BY DEF OrderInv
  <1>2. InOrder
    <2>1. f \in Nat /\ f =< Len(Frames) + 1 /\ Len(Frames) \in Nat
      <3>1. Len(Frames) \in Nat /\ DOMAIN Frames = 1 .. Len(Frames)
        BY FrameAssumption
      <3>2. CASE Valid(f, i, h)
        BY <3>1, <3>2 DEF Valid, IsPiece
      <3>3. CASE Waiting(f, i, h)
        <4>1. net \in Seq(Seq(Byte)) /\ Len(net) \in Nat /\ frame \in 1 .. Len(Frames) + 1
          BY DEF Base, TypeOK
        <4>2. CASE Len(net) = 0
          <5>1. f = frame
            BY <3>3, <4>2 DEF Waiting, Travels
          <5> QED BY <3>1, <4>1, <5>1
        <4>3. CASE Len(net) # 0
          <5>1. Len(net) > 0
            BY <4>1, <4>3
          <5>2. Valid(f, i, h)
            BY <3>3, <4>1, <5>1, TravelsReceive DEF Waiting
          <5> QED BY <3>2, <5>2
        <4> QED BY <4>2, <4>3
      <3> QED BY <1>1, <3>2, <3>3 DEF Working
    <2>2. DOMAIN delivered = 1 .. Len(delivered) /\ Len(delivered) = f - 1
      BY <1>1 DEF Printed
    <2>3. Len(delivered) =< Len(Frames)
      BY <2>1, <2>2
    <2> QED BY <1>1, <2>2, <2>3 DEF InOrder, Printed
  <1>3. NeverRefused
    BY <1>1 DEF NeverRefused, Waiting, Working, Busy, Done
  <1>4. ASSUME pc = "merge", HavePiece
        PROVE  /\ SubSeq(Input, 1, HEAD_SIZE + DataLen) \in Pieces
               /\ PIECE_FIX_SIZE * PIndex + DataLen =< TotalSize
    <2>1. Input # << >>
      BY <1>4 DEF HavePiece, HEAD_SIZE
    <2>2. Valid(f, i, h) /\ Input = Have(f, i, h)
      BY <1>1, <1>4, <2>1 DEF Waiting, Working, Busy, Done
    <2>3. IsPiece(f, i) /\ Input = Piece(f, i)
      BY <1>4, <2>2, RingInUse, PartsAsInput DEF Valid, Orderly
    <2>4. /\ SubSeq(Input, 1, HEAD_SIZE + DataLen) = Piece(f, i)
          /\ PIECE_FIX_SIZE * PIndex + DataLen =< TotalSize
      BY <2>3, PieceAsInput
    <2> QED BY <2>3, <2>4, PieceAmongPieces
  <1>5. ParsesPieces
    BY <1>4 DEF ParsesPieces
  <1> QED BY <1>2, <1>3, <1>5 DEF PrintedInOrder, Base

(* On a network that keeps datagrams and their order, with a ring that has *)
(* room for one piece, and wherever in the header the first datagram of a  *)
(* piece ends: echo_server prints the messages of the client, each one     *)
(* whole and in order, and udp_piece_merge_ex never fails.                 *)
THEOREM MessagesInOrder ==
  ASSUME Orderly
  PROVE  Spec => []PrintedInOrder
  <1>1. Init => Base /\ OrderInv
    <2> SUFFICES ASSUME Init PROVE OrderInv
      BY BaseInit
    <2>1. Contents(circular_buffer) = << >>
      BY DEF Init, RingInit, Contents
    <2>2. /\ Input = << >> /\ net = << >> /\ pc = "recvfrom" /\ total_size = 0
          /\ delivered = << >> /\ frame = 1 /\ index = 0 /\ half = 0
      BY <2>1 DEF Init, Input
    <2>3. Printed(1)
      BY <2>2 DEF Printed
    <2>4. Travels(net, 1, 0, 0, frame, index, half)
      BY <2>2, TravelsNone
    <2>5. Before(1, 0, 0) = << >> /\ HandleAt(1, 0)
      BY <2>2 DEF Before, HandleAt
    <2>6. Waiting(1, 0, 0)
      BY <2>2, <2>4, <2>5 DEF Waiting
    <2> QED BY <2>3, <2>6 DEF OrderInv
  <1>2. Base /\ OrderInv /\ [Next]_vars => Base' /\ OrderInv'
    BY BaseStep, OrderStep
  <1>3. Base /\ OrderInv => PrintedInOrder
    BY OrderInvImplies
  <1> QED BY <1>1, <1>2, <1>3, PTL DEF Spec
----------------------------------------------------------------------------
(* One message again and again, with losses, restarts and failed mallocs *)

\* The synchronisation word is not in s, and s does not begin with its end.
NoSync(s) == s[1] # 174 /\ \A k \in 1 .. Len(s) - 1 : ~(s[k] = 175 /\ s[k + 1] = 174)

\* The client sends one message again and again; the first part of a piece
\* ends before the number of the piece, and there is no synchronisation word
\* in the second; the ring has room for a piece.
Repeating ==
  /\ Frames # << >> /\ \A f \in DOMAIN Frames : Frames[f] = Frames[1]
  /\ Variants = {TRUE}
  /\ FirstPart \in 2 .. 6
  /\ Capacity >= HEAD_SIZE + PIECE_FIX_SIZE
  /\ \A f \in DOMAIN Frames : \A i \in 0 .. Cut(Len(Frames[f])) - 1 : NoSync(Sends(f, i, 1))

\* The first part, the same for all pieces, and what is a second one.
First == Sends(1, 0, 0)
Second(d) == \E f, i : IsPiece(f, i) /\ d = Sends(f, i, 1)

(* The message has a first piece.                                          *)
LEMMA SomePiece ==
  ASSUME Repeating
  PROVE  1 \in DOMAIN Frames /\ IsPiece(1, 0)
  <1>1. 1 \in DOMAIN Frames
    BY FrameAssumption DEF Repeating
  <1> QED BY <1>1, FrameFacts DEF IsPiece, Size

(* A piece does not depend on which of the equal messages it is of.        *)
LEMMA OneMessage ==
  ASSUME Repeating, NEW f, NEW i, IsPiece(f, i)
  PROVE  /\ 1 \in DOMAIN Frames /\ IsPiece(1, i) /\ IsPiece(1, 0) /\ Frames[f] = Frames[1]
         /\ Piece(f, i) = Piece(1, i) /\ Size(f) = Size(1)
         /\ \A h : Sends(f, i, h) = Sends(1, i, h)
  <1>1. f \in DOMAIN Frames /\ i \in 0 .. Cut(Len(Frames[f])) - 1 /\ Frames[f] = Frames[1]
    BY DEF IsPiece, Repeating
  <1>2. 1 \in DOMAIN Frames
    BY <1>1, FrameAssumption
  <1>3. Piece(f, i) = Piece(1, i) /\ Size(f) = Size(1)
    BY <1>1 DEF Piece, Size
  <1>4. \A h : Sends(f, i, h) = Sends(1, i, h)
    BY <1>3 DEF Sends
  <1>5. IsPiece(1, i)
    BY <1>1, <1>2 DEF IsPiece
  <1>6. IsPiece(1, 0)
    BY <1>2, FrameFacts DEF IsPiece, Size
  <1> QED BY <1>1, <1>2, <1>3, <1>4, <1>5, <1>6

(* The first part: it begins with the synchronisation word.                *)
LEMMA FirstFacts ==
  ASSUME Repeating, NEW f, NEW i, IsPiece(f, i)
  PROVE  /\ Sends(f, i, 0) = First /\ First \in Seq(Byte) /\ Len(First) = FirstPart
         /\ First[1] = 175 /\ First[2] = 174 /\ StartsPiece(First)
  <1>1. IsPiece(1, i) /\ IsPiece(1, 0) /\ Sends(f, i, 0) = Sends(1, i, 0)
    BY OneMessage
  <1>2. PICK p, q : p = Piece(1, i) /\ q = Piece(1, 0)
    OBVIOUS
  <1>3. Carries(p, 1, i) /\ Carries(q, 1, 0)
    BY <1>1, <1>2, PieceCarries
  <1>4. p \in Seq(Byte) /\ q \in Seq(Byte) /\ Len(p) \in Nat /\ Len(q) \in Nat /\ 12 < Len(p) /\ 12 < Len(q)
    BY <1>1, <1>2, PartFacts DEF HEAD_SIZE
  <1>5. \A k \in 3 .. 6 : p[k] \in 0 .. 255 /\ q[k] \in 0 .. 255
    <2>1. \A k \in 3 .. 6 : p[k] \in Byte /\ q[k] \in Byte
      BY <1>4
    <2> QED BY <2>1, ByteAssumption
  <1>6. p[1] = q[1] /\ p[2] = q[2] /\ q[1] = 175 /\ q[2] = 174
    BY <1>3 DEF Carries
  <1>7. p[3] * 256 + p[4] = q[3] * 256 + q[4] /\ p[5] * 256 + p[6] = q[5] * 256 + q[6]
    BY <1>3 DEF Carries, FieldOf
  <1>9. p[3] = q[3] /\ p[4] = q[4] /\ p[5] = q[5] /\ p[6] = q[6]
    <2>1. /\ p[3] \in 0 .. 255 /\ q[3] \in 0 .. 255 /\ p[4] \in 0 .. 255 /\ q[4] \in 0 .. 255
          /\ p[5] \in 0 .. 255 /\ q[5] \in 0 .. 255 /\ p[6] \in 0 .. 255 /\ q[6] \in 0 .. 255
      BY <1>5
    <2>2. p[3] = q[3] /\ p[4] = q[4]
      <3>1. PICK a, b, c, d : a = p[3] /\ b = p[4] /\ c = q[3] /\ d = q[4]
        OBVIOUS
      <3>2. a * 256 + b = c * 256 + d
        BY <1>7, <3>1
      <3>3. a \in 0 .. 255 /\ b \in 0 .. 255 /\ c \in 0 .. 255 /\ d \in 0 .. 255
        BY <2>1, <3>1
      <3>4. a = c /\ b = d
        BY <3>2, <3>3, SMT
      <3> QED BY <3>1, <3>4
    <2>3. p[5] = q[5] /\ p[6] = q[6]
      <3>1. PICK a, b, c, d : a = p[5] /\ b = p[6] /\ c = q[5] /\ d = q[6]
        OBVIOUS
      <3>2. a * 256 + b = c * 256 + d
        BY <1>7, <3>1
      <3>3. a \in 0 .. 255 /\ b \in 0 .. 255 /\ c \in 0 .. 255 /\ d \in 0 .. 255
        BY <2>1, <3>1
      <3>4. a = c /\ b = d
        BY <3>2, <3>3, SMT
      <3> QED BY <3>1, <3>4
    <2> QED BY <2>2, <2>3
  <1>10. \A k \in 1 .. 6 : p[k] = q[k]
    BY <1>6, <1>9
  <1>11. FirstPart \in Nat /\ 2 =< FirstPart /\ FirstPart =< 6
    BY DEF Repeating
  <1>12. PICK u, v : u = SubSeq(p, 1, FirstPart) /\ v = SubSeq(q, 1, FirstPart)
    OBVIOUS
  <1>13. /\ u \in Seq(Byte) /\ Len(u) = FirstPart /\ \A k \in 1 .. FirstPart : u[k] = p[k]
         /\ v \in Seq(Byte) /\ Len(v) = FirstPart /\ \A k \in 1 .. FirstPart : v[k] = q[k]
    BY <1>4, <1>11, <1>12
  <1>14. u = v
    <2>1. \A k \in 1 .. FirstPart : u[k] = v[k]
      BY <1>10, <1>11, <1>13
    <2> QED BY <1>13, <2>1, SeqEqual
  <1>15. u = Sends(1, i, 0) /\ v = First
    BY <1>2, <1>12 DEF Sends, First
  <1>16. v[1] = 175 /\ v[2] = 174
    BY <1>6, <1>11, <1>13
  <1> QED BY <1>1, <1>11, <1>13, <1>14, <1>15, <1>16 DEF StartsPiece

(* A second part: it is longer than a first one and has no synchronisation *)
(* word.                                                                   *)
LEMMA SecondFacts ==
  ASSUME Repeating, NEW d, Second(d)
  PROVE  /\ d \in Seq(Byte) /\ Len(d) \in Nat /\ Len(d) > 6 /\ Len(d) =< 10 + PIECE_FIX_SIZE
         /\ NoSync(d) /\ d # First /\ ~StartsPiece(d)
  <1>1. PICK f, i : IsPiece(f, i) /\ d = Sends(f, i, 1)
    BY DEF Second
  <1>2. PICK p : p = Piece(f, i)
    OBVIOUS
  <1>3. p \in Seq(Byte) /\ Len(p) \in Nat /\ 12 < Len(p) /\ Len(p) =< 12 + PIECE_FIX_SIZE
    BY <1>1, <1>2, PartFacts DEF HEAD_SIZE
  <1>4. FirstPart \in Nat /\ 2 =< FirstPart /\ FirstPart =< 6 /\ PIECE_FIX_SIZE \in Nat
    BY PieceAssumption DEF Repeating
  <1>5. d = SubSeq(p, FirstPart + 1, Len(p))
    <2>1. 1 # 0
      OBVIOUS
    <2> QED BY <1>1, <1>2, <2>1, Zenon DEF Sends
  <1>6. d \in Seq(Byte) /\ Len(d) = Len(p) - FirstPart
    BY <1>3, <1>4, <1>5
  <1>7. Len(d) \in Nat /\ Len(d) > 6 /\ Len(d) =< 10 + PIECE_FIX_SIZE
    BY <1>3, <1>4, <1>6
  <1>8. NoSync(d)
    BY <1>1 DEF Repeating, IsPiece
  <1>9. Len(First) = FirstPart
    BY <1>1, FirstFacts
  <1>10. ~StartsPiece(d)
    <2>1. 1 \in 1 .. Len(d) - 1 /\ 1 + 1 = 2
      BY <1>7
    <2> QED BY <1>8, <2>1 DEF NoSync, StartsPiece
  <1> QED BY <1>4, <1>6, <1>7, <1>8, <1>9, <1>10

\* Each datagram of s is a second part, or a first one that is followed by a
\* second one, which is still to be sent where h = 1.
Follows(s, h) ==
  \A k \in 1 .. Len(s) :
    \/ Second(s[k])
    \/ s[k] = First /\ IF k = Len(s) THEN h = 1 ELSE Second(s[k + 1])

\* What comes next is a second part.
Due(s, h) == IF Len(s) = 0 THEN h = 1 ELSE Second(s[1])

(* The next part that the client sends goes behind the others.             *)
LEMMA FollowsSend ==
  ASSUME Repeating, NEW s \in Seq(Seq(Byte)), NEW h \in {0, 1}, Follows(s, h),
         NEW f, NEW i, IsPiece(f, i), NEW t, t = Append(s, Sends(f, i, h)), Sends(f, i, h) \in Seq(Byte)
  PROVE  Follows(t, NextH(h)) /\ (Due(s, h) => Due(t, NextH(h)))
  <1>1. PICK n \in Nat : n = Len(s)
    OBVIOUS
  <1>2. PICK d : d = Sends(f, i, h)
    OBVIOUS
  <1>3. /\ Len(t) = n + 1 /\ t[n + 1] = d
        /\ \A k \in 1 .. n : t[k] = s[k]
    <2>1. d \in Seq(Byte) /\ t = Append(s, d)
      BY <1>2
    <2> QED BY <1>1, <2>1
  <1>4. h = 0 => d = First /\ NextH(h) = 1
    <2>1. Sends(f, i, 0) = First
      BY FirstFacts
    <2>2. NextH(0) = 1
      BY DEF NextH, LastPart
    <2> QED BY <1>2, <2>1, <2>2, Zenon
  <1>5. h = 1 => Second(d) /\ NextH(h) = 0
    BY <1>2 DEF NextH, LastPart, Second
  <1>6. ASSUME NEW k \in 1 .. Len(t)
        PROVE  \/ Second(t[k])
               \/ t[k] = First /\ IF k = Len(t) THEN NextH(h) = 1 ELSE Second(t[k + 1])
    <2>1. CASE k = n + 1
      BY <1>3, <1>4, <1>5, <2>1
    <2>2. CASE k # n + 1
      <3>1. k \in 1 .. n /\ t[k] = s[k] /\ k # Len(t)
        BY <1>3, <2>2
      <3>2. CASE Second(s[k])
        BY <3>1, <3>2
      <3>3. CASE s[k] = First /\ k = n /\ h = 1
        BY <1>3, <1>5, <3>1, <3>3
      <3>4. CASE s[k] = First /\ k # n /\ Second(s[k + 1])
        <4>1. t[k + 1] = s[k + 1]
          BY <1>3, <3>1, <3>4
        <4> QED BY <3>1, <3>4, <4>1
      <3> QED BY <1>1, <3>1, <3>2, <3>3, <3>4 DEF Follows
    <2> QED BY <2>1, <2>2
  <1>7. Follows(t, NextH(h))
    BY <1>6 DEF Follows
  <1>8. ASSUME Due(s, h) PROVE Due(t, NextH(h))
    <2>1. CASE n = 0
      BY <1>1, <1>3, <1>5, <1>8, <2>1 DEF Due
    <2>2. CASE n # 0
      <3>1. 1 \in 1 .. n /\ Len(t) # 0
        BY <1>3, <2>2
      <3> QED BY <1>1, <1>3, <1>8, <2>2, <3>1 DEF Due
    <2> QED BY <2>1, <2>2
  <1> QED BY <1>7, <1>8

(* Taking out a datagram that starts a piece leaves no first part without  *)
(* its second.                                                             *)
LEMMA FollowsLose ==
  ASSUME Repeating, NEW s \in Seq(Seq(Byte)), NEW h, Follows(s, h), NEW i \in DOMAIN s, StartsPiece(s[i])
  PROVE  Follows(Without(s, i), h) /\ (Due(s, h) => Due(Without(s, i), h))
  <1>1. PICK n \in Nat : n = Len(s)
    OBVIOUS
  <1>2. PICK t : t = Without(s, i)
    OBVIOUS
  <1>3. /\ Len(t) = n - 1 /\ i \in 1 .. n
        /\ \A j \in 1 .. n - 1 : t[j] = IF j < i THEN s[j] ELSE s[j + 1]
    <2>1. /\ Len(Without(s, i)) = Len(s) - 1
          /\ \A j \in 1 .. Len(s) - 1 : Without(s, i)[j] = IF j < i THEN s[j] ELSE s[j + 1]
      BY WithoutType
    <2>2. i \in 1 .. n
      BY <1>1
    <2> QED BY <1>1, <1>2, <2>1, <2>2, Zenon
  <1>4. ~Second(s[i])
    BY SecondFacts, SMTT(60)
  <1>5. ASSUME NEW k \in 1 .. Len(t)
        PROVE  \/ Second(t[k])
               \/ t[k] = First /\ IF k = Len(t) THEN h = 1 ELSE Second(t[k + 1])
    <2>1. k \in 1 .. n - 1
      BY <1>3
    <2>2. CASE k < i
      <3>1. t[k] = s[k] /\ k \in 1 .. n /\ k # n
        BY <1>3, <2>1, <2>2
      <3>2. CASE Second(s[k])
        BY <3>1, <3>2
      <3>3. CASE s[k] = First /\ Second(s[k + 1])
        <4>1. k + 1 # i
          BY <1>4, <3>3
        <4>2. k + 1 < i /\ k + 1 \in 1 .. n - 1 /\ k # Len(t)
          BY <1>3, <2>1, <2>2, <4>1
        <4>3. t[k + 1] = s[k + 1]
          BY <1>3, <4>2
        <4> QED BY <3>1, <3>3, <4>2, <4>3
      <3> QED BY <1>1, <3>1, <3>2, <3>3 DEF Follows
    <2>3. CASE ~(k < i)
      <3>1. t[k] = s[k + 1] /\ k + 1 \in 1 .. n /\ ((k + 1 = n) <=> (k = Len(t)))
        BY <1>3, <2>1, <2>3
      <3>2. k # Len(t) => t[k + 1] = s[(k + 1) + 1]
        <4>1. k # Len(t) => k + 1 \in 1 .. n - 1 /\ ~(k + 1 < i)
          BY <1>3, <2>1, <2>3
        <4> QED BY <1>3, <4>1
      <3>3. \/ Second(s[k + 1])
            \/ s[k + 1] = First /\ IF k + 1 = n THEN h = 1 ELSE Second(s[(k + 1) + 1])
        BY <1>1, <3>1 DEF Follows
      <3> QED BY <3>1, <3>2, <3>3
    <2> QED BY <2>2, <2>3
  <1>6. Follows(t, h)
    BY <1>5 DEF Follows
  <1>7. ASSUME Due(s, h) PROVE Due(t, h)
    <2>1. n # 0 /\ Second(s[1])
      <3>1. n # 0 /\ Len(s) # 0
        BY <1>1, <1>3
      <3> QED BY <1>7, <3>1 DEF Due
    <2>2. i # 1 /\ 1 < i /\ 1 \in 1 .. n - 1
      BY <1>3, <1>4, <2>1
    <2>3. t[1] = s[1] /\ Len(t) # 0
      BY <1>3, <2>2
    <2> QED BY <2>1, <2>3 DEF Due
  <1> QED BY <1>2, <1>6, <1>7

(* The first datagram is received: a first part is followed by a second.   *)
LEMMA FollowsReceive ==
  ASSUME Repeating, NEW s \in Seq(Seq(Byte)), NEW h, Follows(s, h), Len(s) > 0
  PROVE  /\ Follows(Tail(s), h)
         /\ Second(s[1]) \/ (s[1] = First /\ Due(Tail(s), h))
  <1>1. PICK n \in Nat : n = Len(s)
    OBVIOUS
  <1>2. PICK t : t = Tail(s)
    OBVIOUS
  <1>3. Len(t) = n - 1 /\ (\A k \in 1 .. n - 1 : t[k] = s[k + 1]) /\ n > 0
    BY <1>1, <1>2
  <1>4. ASSUME NEW k \in 1 .. Len(t)
        PROVE  \/ Second(t[k])
               \/ t[k] = First /\ IF k = Len(t) THEN h = 1 ELSE Second(t[k + 1])
    <2>1. t[k] = s[k + 1] /\ k + 1 \in 1 .. n /\ ((k + 1 = n) <=> (k = Len(t)))
      BY <1>3
    <2>2. k # Len(t) => t[k + 1] = s[(k + 1) + 1]
      <3>1. k # Len(t) => k + 1 \in 1 .. n - 1
        BY <1>3
      <3> QED BY <1>3, <3>1
    <2>3. \/ Second(s[k + 1])
          \/ s[k + 1] = First /\ IF k + 1 = n THEN h = 1 ELSE Second(s[(k + 1) + 1])
      BY <1>1, <2>1 DEF Follows
    <2> QED BY <2>1, <2>2, <2>3
  <1>5. Follows(t, h)
    BY <1>4 DEF Follows
  <1>6. \/ Second(s[1])
        \/ s[1] = First /\ IF 1 = n THEN h = 1 ELSE Second(s[2])
    BY <1>1, <1>3 DEF Follows
  <1>7. (1 = n <=> Len(t) = 0) /\ (1 # n => t[1] = s[2])
    BY <1>3
  <1> QED BY <1>2, <1>5, <1>6, <1>7 DEF Due

\* The bytes of the server: none, one that may begin a piece, or a first
\* part whose second one is next; with a datagram that has arrived; a piece.
Little == Len(Input) =< 1 \/ (Input = First /\ Due(net, half))
Parts ==
  \E b, d :
    /\ b \in Seq(Byte) /\ Len(b) =< 1 /\ Input = b \o d
    /\ Second(d) \/ (d = First /\ Due(net, half))
Whole == \E f, i : IsPiece(f, i) /\ Input = Piece(f, i)

\* What there is on the way and at the server.
Shape ==
  /\ Follows(net, half)
  /\ pc = "recvfrom" => Little
  /\ pc = "sync" => get_all_pieces = 0 /\ (Parts \/ Whole)
  /\ pc = "merge" => get_all_pieces \in {0, 1} /\ (Little \/ (Whole /\ get_all_pieces = 0))
  /\ pc = "return" => get_all_pieces = -1 \/ Little

(* What the server has is not changed by what happens to the net.          *)
LEMMA ShapeStays ==
  ASSUME Shape, Input' = Input, UNCHANGED <<pc, get_all_pieces>>,
         Follows(net', half'), Due(net, half) => Due(net', half')
  PROVE  Shape'
  <1>1. Little => Little'
    BY DEF Little
  <1>2. Parts => Parts'
    BY DEF Parts
  <1>3. Whole => Whole'
    BY DEF Whole
  <1> QED BY <1>1, <1>2, <1>3 DEF Shape

(* sendto.                                                                 *)
LEMMA ShapeSend ==
  ASSUME Base, Repeating, Shape, SendTo
  PROVE  Shape'
  <1>1. use_ring /\ net \in Seq(Seq(Byte)) /\ half \in {0, 1}
    BY RingInUse DEF Repeating, Base, TypeOK
  <1>2. /\ IsPiece(frame, index) /\ half' = NextH(half)
        /\ net' = Append(net, Sends(frame, index, half)) /\ Sends(frame, index, half) \in Seq(Byte)
    BY <1>1, SendStep DEF NextH
  <1>3. Follows(net', half') /\ (Due(net, half) => Due(net', half'))
    BY <1>1, <1>2, FollowsSend DEF Shape
  <1>4. UNCHANGED <<use_ring, circular_buffer, rest, pc, get_all_pieces>>
    BY DEF SendTo
  <1> QED BY <1>3, <1>4, InputStays, ShapeStays

(* The network loses the start of a piece.                                 *)
LEMMA ShapeLose ==
  ASSUME Base, Repeating, Shape, LoseStart
  PROVE  Shape'
  <1>1. net \in Seq(Seq(Byte))
    BY DEF Base, TypeOK
  <1>2. PICK i \in DOMAIN net : StartsPiece(net[i]) /\ net' = Without(net, i)
    BY DEF LoseStart
  <1>3. half' = half /\ UNCHANGED <<use_ring, circular_buffer, rest, pc, get_all_pieces>>
    BY DEF LoseStart, client
  <1>4. Follows(net', half) /\ (Due(net, half) => Due(net', half))
    BY <1>1, <1>2, FollowsLose DEF Shape
  <1> QED BY <1>3, <1>4, InputStays, ShapeStays

(* The first part and the second part of a piece.                          *)
LEMMA PartsMakePiece ==
  ASSUME Repeating, NEW f, NEW i, IsPiece(f, i)
  PROVE  /\ First \o Sends(f, i, 1) = Piece(f, i)
         /\ Len(First) + Len(Sends(f, i, 1)) =< HEAD_SIZE + PIECE_FIX_SIZE
  <1>1. Valid(f, i, 1) /\ LastPart(1)
    BY DEF Valid, LastPart
  <1>2. Before(f, i, 1) = First
    <2>1. 1 # 0
      OBVIOUS
    <2>2. Before(f, i, 1) = Sends(f, i, 0)
      BY <2>1, Zenon DEF Before, Sends
    <2> QED BY <2>2, FirstFacts
  <1>3. Have(f, i, 1) = Piece(f, i)
    BY <1>1, Zenon DEF Have
  <1>4. /\ Before(f, i, 1) \o Sends(f, i, 1) = Have(f, i, 1)
        /\ Len(Before(f, i, 1)) + Len(Sends(f, i, 1)) =< HEAD_SIZE + PIECE_FIX_SIZE
    BY <1>1, PartsJoin
  <1> QED BY <1>2, <1>3, <1>4

(* The ring has room for every datagram that arrives.                      *)
LEMMA RoomForIt ==
  ASSUME Base, Repeating, Shape, Receive
  PROVE  /\ Len(net) > 0 /\ net' = Tail(net) /\ Follows(net', half')
         /\ Second(net[1]) \/ (net[1] = First /\ Due(net', half'))
         /\ pc' = "sync" /\ get_all_pieces' = 0 /\ Input' = Input \o net[1]
  <1>1. use_ring /\ net \in Seq(Seq(Byte)) /\ Input \in Seq(Byte) /\ Len(Input) \in Nat
    BY RingInUse, InputIsBytes DEF Repeating, Base, TypeOK
  <1>2. Len(net) > 0 /\ net' = Tail(net) /\ net[1] \in Seq(Byte) /\ Arrives(net[1])
    BY ReceiveStep
  <1>3. half' = half /\ pc = "recvfrom"
    BY DEF Receive, client
  <1>4. Follows(net', half') /\ (Second(net[1]) \/ (net[1] = First /\ Due(net', half')))
    BY <1>1, <1>2, <1>3, FollowsReceive DEF Shape
  <1>5. Little
    BY <1>3 DEF Shape
  <1>6. PICK d, a : d = net[1] /\ a = Len(Input)
    OBVIOUS
  <1>7. PIECE_FIX_SIZE \in Nat /\ Capacity \in Nat /\ Capacity >= 12 + PIECE_FIX_SIZE
    BY PieceAssumption, CapacityAssumption DEF Repeating, HEAD_SIZE
  <1>8. Len(Input) + Len(d) =< 12 + PIECE_FIX_SIZE
    <2>1. CASE a =< 1 /\ Second(d)
      <3>1. Len(d) \in Nat /\ Len(d) =< 10 + PIECE_FIX_SIZE
        BY <2>1, SecondFacts
      <3> QED BY <1>1, <1>6, <1>7, <2>1, <3>1
    <2>2. CASE a =< 1 /\ d = First
      <3>1. Len(d) = FirstPart /\ FirstPart \in 2 .. 6
        BY <2>2, SomePiece, FirstFacts DEF Repeating
      <3> QED BY <1>1, <1>6, <1>7, <2>2, <3>1
    <2>3. CASE Input = First /\ Due(net, half)
      <3>1. Second(d)
        BY <1>1, <1>2, <1>6, <2>3 DEF Due
      <3>2. PICK f, i : IsPiece(f, i) /\ d = Sends(f, i, 1)
        BY <3>1 DEF Second
      <3> QED BY <2>3, <3>2, PartsMakePiece DEF HEAD_SIZE
    <2> QED BY <1>4, <1>5, <1>6, <2>1, <2>2, <2>3 DEF Little
  <1>9. ~(Len(Input) + Len(d) > Capacity)
    <2>1. Len(d) \in Nat
      BY <1>2, <1>6
    <2> QED BY <1>1, <1>7, <1>8, <2>1
  <1>10. pc' = "sync" /\ get_all_pieces' = 0 /\ Input' = Input \o net[1]
    BY <1>1, <1>2, <1>6, <1>9 DEF Arrives
  <1> QED BY <1>2, <1>4, <1>10

\* The synchronisation word is in s behind the first k bytes.
FoundAt(s, k) == k + 2 =< Len(s) /\ s[k + 1] = 175 /\ s[k + 2] = 174

(* The search for the synchronisation word ends where it is found, or      *)
(* before the last byte.                                                   *)
LEMMA SyncSearch ==
  ASSUME Base, use_ring, Sync, Len(Input) > 0
  PROVE  \E k \in 0 .. Len(Input) - 1 :
           /\ FoundAt(Input, k) \/ k = Len(Input) - 1
           /\ \A j \in 0 .. k - 1 : ~FoundAt(Input, j)
           /\ Input' = After(Input, k)
  <1>1. Input \in Seq(Byte) /\ Len(Input) \in Nat /\ use_ring' = use_ring /\ Input # << >>
    BY InputIsBytes DEF Sync
  <1>2. PICK k \in 0 .. Len(Input) - 1 :
           /\ FoundAt(Input, k) \/ k = Len(Input) - 1
           /\ \A j \in 0 .. k - 1 : ~FoundAt(Input, j)
           /\ Consume(k)
    BY <1>1 DEF Sync, FoundAt
  <1>3. k \in Nat /\ k =< Len(Input)
    BY <1>1
  <1>4. Input' = After(Input, k)
    BY <1>1, <1>2, <1>3, ConsumeRemoves
  <1> QED BY <1>2, <1>4

(* The bytes of d behind at most one other.                                *)
LEMMA Joined ==
  ASSUME NEW b \in Seq(Byte), NEW d \in Seq(Byte), Len(b) =< 1
  PROVE  /\ b \o d \in Seq(Byte) /\ Len(b) \in {0, 1} /\ Len(b \o d) = Len(b) + Len(d)
         /\ \A k \in 1 .. Len(d) : (b \o d)[Len(b) + k] = d[k]
         /\ After(b \o d, Len(b)) = d
  <1>1. PICK n \in Nat, m \in Nat : n = Len(b) /\ m = Len(d)
    OBVIOUS
  <1>2. n \in {0, 1}
    BY <1>1
  <1>3. PICK u : u = b \o d
    OBVIOUS
  <1>4. /\ u \in Seq(Byte) /\ Len(u) = n + m
        /\ \A k \in 1 .. n + m : u[k] = IF k =< n THEN b[k] ELSE d[k - n]
    <2>1. /\ b \o d \in Seq(Byte) /\ Len(b \o d) = Len(b) + Len(d)
          /\ \A k \in 1 .. Len(b) + Len(d) : (b \o d)[k] = IF k =< Len(b) THEN b[k] ELSE d[k - Len(b)]
      BY ConcatProperties
    <2> QED BY <1>1, <1>3, <2>1
  <1>5. ASSUME NEW k \in 1 .. m PROVE u[n + k] = d[k]
    <2>1. n + k \in 1 .. n + m /\ ~(n + k =< n) /\ (n + k) - n = k
      OBVIOUS
    <2>2. u[n + k] = d[(n + k) - n]
      BY <1>4, <2>1
    <2> QED BY <2>1, <2>2
  <1>6. PICK v : v = After(u, n)
    OBVIOUS
  <1>7. v \in Seq(Byte) /\ Len(v) = m /\ \A k \in 1 .. m : v[k] = u[n + k]
    <2>1. Part(Byte, SubSeq(u, n + 1, n + m), u, n, m)
      BY <1>4, PartOf
    <2> QED BY <1>4, <1>6, <2>1 DEF After, Part
  <1>8. v = d
    BY <1>1, <1>5, <1>7, SeqEqual
  <1> QED BY <1>1, <1>2, <1>3, <1>4, <1>5, <1>6, <1>8

(* Before a first part a byte is skipped.                                  *)
LEMMA SyncFirst ==
  ASSUME Base, Repeating, Sync, NEW b \in Seq(Byte), Len(b) =< 1, Input = b \o First
  PROVE  Input' = First
  <1>1. /\ First \in Seq(Byte) /\ Len(First) = FirstPart /\ FirstPart \in 2 .. 6
        /\ First[1] = 175 /\ First[2] = 174
    BY SomePiece, FirstFacts DEF Repeating
  <1>2. PICK u, n : u = Input /\ n = Len(b)
    OBVIOUS
  <1>3. /\ n \in {0, 1} /\ Len(u) = n + FirstPart
        /\ \A k \in 1 .. FirstPart : u[n + k] = First[k]
        /\ After(u, n) = First
    BY <1>1, <1>2, Joined
  <1>4. Len(u) \in Nat /\ Len(u) > 0 /\ n + 2 =< Len(u)
    BY <1>1, <1>3
  <1>5. PICK k \in 0 .. Len(u) - 1 :
           /\ FoundAt(u, k) \/ k = Len(u) - 1
           /\ \A j \in 0 .. k - 1 : ~FoundAt(u, j)
           /\ Input' = After(u, k)
    <2>1. Len(Input) > 0
      BY <1>2, <1>4
    <2>2. use_ring
      BY RingInUse DEF Repeating
    <2> QED BY <1>2, <2>1, <2>2, SyncSearch
  <1>6. u[n + 1] = 175 /\ u[n + 2] = 174
    BY <1>1, <1>3
  <1>7. FoundAt(u, n)
    BY <1>4, <1>6 DEF FoundAt
  <1>8. k = n
    <2>1. ~(n < k)
      <3>1. n < k => n \in 0 .. k - 1
        BY <1>3, <1>4
      <3> QED BY <1>5, <1>7, <3>1
    <2>2. ~(k < n)
      <3>1. ASSUME k < n PROVE FALSE
        <4>1. k = 0 /\ n = 1
          BY <1>3, <1>4, <3>1
        <4>2. u[k + 2] = 175 /\ k # Len(u) - 1
          BY <1>3, <1>4, <1>6, <4>1
        <4> QED BY <1>5, <4>2 DEF FoundAt
      <3> QED BY <3>1
    <2> QED BY <1>3, <1>4, <2>1, <2>2
  <1> QED BY <1>3, <1>5, <1>8

(* Of a second part whose first one is not there the last byte is kept.    *)
LEMMA SyncSecond ==
  ASSUME Base, Repeating, Sync, NEW b \in Seq(Byte), Len(b) =< 1, NEW d, Second(d), Input = b \o d
  PROVE  Len(Input') = 1
  <1>1. d \in Seq(Byte) /\ Len(d) \in Nat /\ Len(d) > 6 /\ NoSync(d)
    BY SecondFacts
  <1>2. PICK u, n, m : u = Input /\ n = Len(b) /\ m = Len(d)
    OBVIOUS
  <1>3. /\ u \in Seq(Byte) /\ n \in {0, 1} /\ Len(u) = n + m
        /\ \A k \in 1 .. m : u[n + k] = d[k]
    BY <1>1, <1>2, Joined
  <1>4. Len(u) \in Nat /\ Len(u) > 0
    BY <1>1, <1>2, <1>3
  <1>5. PICK k \in 0 .. Len(u) - 1 :
           /\ FoundAt(u, k) \/ k = Len(u) - 1
           /\ Input' = After(u, k)
    <2>1. Len(Input) > 0
      BY <1>2, <1>4
    <2>2. use_ring
      BY RingInUse DEF Repeating
    <2> QED BY <1>2, <2>1, <2>2, SyncSearch
  <1>6. ~FoundAt(u, k)
    <2> SUFFICES ASSUME FoundAt(u, k) PROVE FALSE
      OBVIOUS
    <2>1. k + 2 =< n + m /\ u[k + 1] = 175 /\ u[k + 2] = 174
      BY <1>3 DEF FoundAt
    <2>2. CASE k < n
      <3>1. k = 0 /\ n = 1 /\ 1 \in 1 .. m
        BY <1>1, <1>2, <1>3, <1>4, <2>2
      <3>2. u[n + 1] = d[1]
        BY <1>3, <3>1
      <3> QED BY <1>1, <2>1, <3>1, <3>2 DEF NoSync
    <2>3. CASE ~(k < n)
      <3>1. PICK j : j = (k - n) + 1
        OBVIOUS
      <3>2. j \in 1 .. m - 1 /\ j \in 1 .. m /\ j + 1 \in 1 .. m /\ n + j = k + 1 /\ n + (j + 1) = k + 2
        BY <1>1, <1>2, <1>3, <1>4, <2>1, <2>3, <3>1
      <3>3. u[n + j] = d[j] /\ u[n + (j + 1)] = d[j + 1]
        BY <1>3, <3>2
      <3>4. d[j] = 175 /\ d[j + 1] = 174
        BY <2>1, <3>2, <3>3
      <3> QED BY <1>1, <1>2, <3>2, <3>4 DEF NoSync
    <2> QED BY <2>2, <2>3
  <1>7. k \in Nat /\ k + 1 = Len(u) /\ Input' = SubSeq(u, k + 1, k + 1)
    BY <1>4, <1>5, <1>6 DEF After
  <1>8. Part(Byte, SubSeq(u, k + 1, k + 1), u, k, 1)
    BY <1>3, <1>4, <1>7, PartOf
  <1> QED BY <1>7, <1>8 DEF Part

(* recvfrom: a datagram joins what is there.                               *)
LEMMA ShapeReceive ==
  ASSUME Base, Repeating, Shape, Receive
  PROVE  Shape'
  <1>1. /\ Len(net) > 0 /\ net' = Tail(net) /\ Follows(net', half')
        /\ Second(net[1]) \/ (net[1] = First /\ Due(net', half'))
        /\ pc' = "sync" /\ get_all_pieces' = 0 /\ Input' = Input \o net[1]
    BY RoomForIt
  <1>2. pc = "recvfrom" /\ Input \in Seq(Byte) /\ Little
    BY InputIsBytes DEF Receive, Shape
  <1>3. CASE Len(Input) =< 1
    <2>1. Parts'
      BY <1>1, <1>2, <1>3 DEF Parts
    <2> QED BY <1>1, <2>1 DEF Shape
  <1>4. CASE Input = First /\ Due(net, half)
    <2>1. PICK f, i : IsPiece(f, i) /\ net[1] = Sends(f, i, 1)
      BY <1>1, <1>4 DEF Due, Second
    <2>2. Input' = Piece(f, i)
      BY <1>1, <1>4, <2>1, PartsMakePiece
    <2>3. Whole'
      BY <2>1, <2>2 DEF Whole
    <2> QED BY <1>1, <2>3 DEF Shape
  <1> QED BY <1>2, <1>3, <1>4 DEF Little

(* The search for the synchronisation word.                                *)
LEMMA ShapeSync ==
  ASSUME Base, Repeating, Shape, Sync
  PROVE  Shape'
  <1>1. pc = "sync" /\ pc' = "merge" /\ half' = half /\ net' = net /\ get_all_pieces' = get_all_pieces
    BY DEF Sync, client
  <1>2. get_all_pieces = 0 /\ (Parts \/ Whole) /\ Follows(net', half')
    BY <1>1 DEF Shape
  <1>3. CASE Whole
    <2>1. PICK f, i : IsPiece(f, i) /\ Input = Piece(f, i)
      BY <1>3 DEF Whole
    <2>2. Input' = Input
      BY <2>1, PieceAsInput, SyncStep
    <2>3. Whole'
      BY <2>1, <2>2 DEF Whole
    <2> QED BY <1>1, <1>2, <2>3 DEF Shape
  <1>4. CASE Parts
    <2>1. PICK b, d : /\ b \in Seq(Byte) /\ Len(b) =< 1 /\ Input = b \o d
                      /\ Second(d) \/ (d = First /\ Due(net, half))
      BY <1>4 DEF Parts
    <2>2. CASE Second(d)
      <3>1. Len(Input') = 1
        BY <2>1, <2>2, SyncSecond
      <3>2. Little'
        BY <3>1 DEF Little
      <3> QED BY <1>1, <1>2, <3>2 DEF Shape
    <2>3. CASE d = First /\ Due(net, half)
      <3>1. Input' = First
        BY <2>1, <2>3, SyncFirst
      <3>2. Little'
        BY <1>1, <2>3, <3>1 DEF Little
      <3> QED BY <1>1, <1>2, <3>2 DEF Shape
    <2> QED BY <2>1, <2>2, <2>3
  <1> QED BY <1>2, <1>3, <1>4

(* A piece is merged only where the bytes are one, and all of it.          *)
LEMMA PieceToMerge ==
  ASSUME Base, Repeating, Shape, pc = "merge", HavePiece
  PROVE  Whole /\ get_all_pieces = 0
  <1>1. Input \in Seq(Byte) /\ Len(Input) > 12
    BY InputIsBytes DEF HavePiece, HEAD_SIZE
  <1>2. Len(First) =< 6
    BY SomePiece, FirstFacts DEF Repeating
  <1>3. ~Little
    BY <1>1, <1>2 DEF Little
  <1> QED BY <1>3 DEF Shape

(* The merge loop and the end of the call.                                 *)
LEMMA ShapeMerge ==
  ASSUME Base, Repeating, Shape, MergePiece \/ MallocFails \/ MergeEnd \/ Return \/ Restart
  PROVE  Shape'
  <1>1. CASE MergePiece
    <2>1. /\ pc = "merge" /\ pc' = "merge" /\ HavePiece /\ net' = net /\ half' = half
          /\ Merged /\ Input' = After(Input, HEAD_SIZE + DataLen)
      BY <1>1, MergeStep DEF MergePiece, client
    <2>2. get_all_pieces = 0 /\ Follows(net', half')
      BY <2>1, PieceToMerge DEF Shape
    <2>3. PICK f, i : IsPiece(f, i) /\ Input = Piece(f, i)
      BY <2>1, PieceToMerge DEF Whole
    <2>4. Input' = << >>
      BY <2>1, <2>3, PieceAsInput
    <2>5. Little'
      BY <2>4 DEF Little
    <2>6. get_all_pieces' \in {0, 1}
      BY <2>1, <2>2, RingInUse DEF Merged, Mismatch, Repeating
    <2> QED BY <2>1, <2>2, <2>5, <2>6 DEF Shape
  <1>2. CASE MallocFails
    BY <1>2 DEF MallocFails, Shape, client
  <1>3. CASE MergeEnd
    <2>1. /\ pc = "merge" /\ pc' = "return" /\ ~HavePiece /\ net' = net /\ half' = half
          /\ UNCHANGED <<use_ring, circular_buffer, rest, get_all_pieces>>
      BY <1>3 DEF MergeEnd, client
    <2>2. Input' = Input
      BY <2>1, InputStays
    <2>3. ~Whole
      BY <2>1, PieceAsInput DEF Whole
    <2>4. Little
      BY <2>1, <2>3 DEF Shape
    <2>5. Little'
      BY <2>1, <2>2, <2>4 DEF Little
    <2> QED BY <2>1, <2>5 DEF Shape
  <1>4. CASE Return
    <2>1. pc = "return" /\ pc' = "recvfrom" /\ net' = net /\ half' = half
      BY <1>4 DEF Return, client
    <2>2. Input' = << >> \/ (get_all_pieces = 0 /\ Input' = Input)
      BY <1>4, ReturnStep
    <2>3. CASE Input' = << >>
      <3>1. Little'
        BY <2>3 DEF Little
      <3> QED BY <2>1, <3>1 DEF Shape
    <2>4. CASE get_all_pieces = 0 /\ Input' = Input
      <3>1. Little
        BY <2>1, <2>4 DEF Shape
      <3>2. Little'
        BY <2>1, <2>4, <3>1 DEF Little
      <3> QED BY <2>1, <3>2 DEF Shape
    <2> QED BY <2>2, <2>3, <2>4
  <1>5. CASE Restart
    <2>1. pc' = "recvfrom" /\ net' = << >> /\ circular_buffer' = RingInit /\ rest' = << >>
      BY <1>5 DEF Restart
    <2>2. Input' = << >>
      BY <2>1 DEF Input, Contents, RingInit
    <2>3. Little'
      BY <2>2 DEF Little
    <2>4. Follows(net', half')
      BY <2>1 DEF Follows
    <2> QED BY <2>1, <2>3, <2>4 DEF Shape
  <1> QED BY <1>1, <1>2, <1>3, <1>4, <1>5

\* The buffer has room for the message; where its bytes were not received,
\* it is as malloc left it.
Holed(buf) ==
  /\ buf \in Seq(Byte \cup {Junk}) /\ Len(buf) = Size(1) + 1
  /\ \A k \in 1 .. Size(1) : buf[k] \in {Frames[1][k], Junk}

\* The handle: empty, without a buffer after malloc has failed, or with one.
Fill ==
  \/ total_size = 0 /\ (pc \in {"merge", "return"} => get_all_pieces # 1)
  \/ pc = "return" /\ get_all_pieces = -1
  \/ /\ total_size = Size(1) /\ Holed(recv_buf)
     /\ pc \in {"merge", "return"} /\ get_all_pieces = 1 => recv_len = Size(1)

(* A piece goes to its place in the buffer.                                *)
LEMMA FillMerge ==
  ASSUME Base, Repeating, Shape, Fill, MergePiece
  PROVE  Fill'
  <1>1. pc = "merge" /\ HavePiece /\ Merged
    BY MergeStep DEF MergePiece
  <1>2. PICK f, i : IsPiece(f, i) /\ Input = Piece(f, i) /\ get_all_pieces = 0
    BY <1>1, PieceToMerge DEF Whole
  <1>3. IsPiece(1, i) /\ Input = Piece(1, i)
    BY <1>2, OneMessage
  <1>4. /\ TotalSize = Size(1) /\ PIndex = i /\ DataLen = Wide(1, i) /\ DataNow = PieceData(1, i)
    BY <1>3, PieceAsInput
  <1>5. /\ 1 \in DOMAIN Frames /\ Size(1) \in Nat /\ 0 < Size(1)
        /\ At(i) \in Nat /\ Wide(1, i) \in Nat
    BY <1>3, PieceFacts, FrameFacts DEF Wide
  <1>6. Holed(BufferNow)
    <2>1. CASE NewFrame
      <3>1. BufferNow = [k \in 1 .. Size(1) + 1 |-> Junk]
        BY <1>4, <2>1 DEF BufferNow, Malloc
      <3> QED BY <1>5, <3>1 DEF Holed
    <2>2. CASE ~NewFrame
      BY <1>1, <2>2 DEF BufferNow, Fill, NewFrame
    <2> QED BY <2>1, <2>2
  <1>7. \A k \in 1 .. Wide(1, i) : PieceData(1, i)[k] = Frames[1][At(i) + k] /\ PieceData(1, i)[k] \in Byte
    BY <1>3, DataOfPiece
  <1>8. PICK u, d, a, n, b : /\ u = recv_buf' /\ d = PieceData(1, i) /\ a = At(i) /\ n = Wide(1, i)
                             /\ b = BufferNow
    OBVIOUS
  <1>9. u = Stored(b, a, n, d)
    BY <1>1, <1>4, <1>8 DEF Merged
  <1>10. b \in Seq(Byte \cup {Junk}) /\ Len(b) = Size(1) + 1
    BY <1>6, <1>8 DEF Holed
  <1>11. /\ u \in Seq(Byte \cup {Junk}) /\ Len(u) = Size(1) + 1
         /\ \A k \in 1 .. Size(1) + 1 : u[k] = IF k - a \in 1 .. n THEN d[k - a] ELSE b[k]
    <2>1. a \in Nat /\ n \in Nat /\ \A k \in 1 .. n : d[k] \in Byte \cup {Junk}
      BY <1>5, <1>7, <1>8
    <2> QED BY <1>9, <1>10, <2>1, StoredType
  <1>12. ASSUME NEW k \in 1 .. Size(1) PROVE u[k] \in {Frames[1][k], Junk}
    <2>1. k \in 1 .. Size(1) + 1
      BY <1>5
    <2>2. CASE k - a \in 1 .. n
      <3>1. PICK j : j = k - a
        OBVIOUS
      <3>2. a + j = k /\ j \in 1 .. n
        BY <1>5, <1>8, <2>2, <3>1
      <3>3. u[k] = d[j] /\ d[j] = Frames[1][a + j]
        BY <1>7, <1>8, <1>11, <2>1, <2>2, <3>1, <3>2
      <3> QED BY <3>2, <3>3
    <2>3. CASE k - a \notin 1 .. n
      <3>1. u[k] = b[k]
        BY <1>11, <2>1, <2>3
      <3> QED BY <1>6, <1>8, <3>1 DEF Holed
    <2> QED BY <2>2, <2>3
  <1>13. Holed(recv_buf')
    BY <1>8, <1>11, <1>12 DEF Holed
  <1>14. total_size' = Size(1) /\ (get_all_pieces' = 1 => recv_len' = Size(1))
    <2>1. get_all_pieces' = 1 => LengthNow = TotalSize
      BY <1>1, <1>2, RingInUse DEF Merged, Mismatch, Repeating
    <2> QED BY <1>1, <1>4, <2>1 DEF Merged
  <1> QED BY <1>13, <1>14 DEF Fill, Holed, Size

(* No other step touches the buffer before it is printed.                  *)
LEMMA FillStep ==
  ASSUME Base, Repeating, Shape, Fill, [Next]_vars
  PROVE  Fill'
  <1>1. CASE UNCHANGED <<pc, get_all_pieces, handle>>
    BY <1>1 DEF Fill, Holed, Size, handle
  <1>2. CASE Receive
    <2>1. pc = "recvfrom" /\ pc' = "sync" /\ get_all_pieces' = 0 /\ UNCHANGED handle
      BY <1>2, RoomForIt DEF Receive
    <2> QED BY <2>1 DEF Fill, Holed, Size, handle
  <1>3. CASE Sync
    <2>1. pc = "sync" /\ pc' = "merge" /\ get_all_pieces' = get_all_pieces /\ UNCHANGED handle
      BY <1>3 DEF Sync
    <2>2. get_all_pieces = 0
      BY <2>1 DEF Shape
    <2> QED BY <2>1, <2>2 DEF Fill, Holed, Size, handle
  <1>4. CASE MallocFails
    BY <1>4 DEF MallocFails, Fill
  <1>5. CASE MergeEnd
    <2>1. pc = "merge" /\ pc' = "return" /\ get_all_pieces' = get_all_pieces /\ UNCHANGED handle
      BY <1>5 DEF MergeEnd
    <2> QED BY <2>1 DEF Fill, Holed, Size, handle
  <1>6. CASE Return
    <2>1. pc = "return" /\ pc' = "recvfrom" /\ (total_size' = 0 \/ (get_all_pieces = 0 /\ UNCHANGED handle))
      BY <1>6 DEF Return
    <2> QED BY <2>1 DEF Fill, Holed, Size, handle
  <1>7. CASE Restart
    BY <1>7 DEF Restart, Fill
  <1>8. SendTo \/ LoseStart \/ UNCHANGED vars => UNCHANGED <<pc, get_all_pieces, handle>>
    BY DEF SendTo, LoseStart, vars
  <1> QED BY <1>1, <1>2, <1>3, <1>4, <1>5, <1>6, <1>7, <1>8, FillMerge DEF Next, Server

(* What is printed: the buffer.                                            *)
LEMMA PrintStep ==
  ASSUME Base, Repeating, Shape, Fill, [Next]_vars
  PROVE  \/ delivered' = delivered
         \/ /\ Return /\ get_all_pieces = 1
            /\ delivered' = Append(delivered, SubSeq(recv_buf, 1, recv_len))
            /\ recv_len = Size(1) /\ Holed(recv_buf)
  <1>1. CASE Return /\ get_all_pieces = 1
    <2>1. pc = "return" /\ total_size = Size(1) /\ recv_len = Size(1) /\ Holed(recv_buf)
      BY <1>1 DEF Return, Fill
    <2>2. delivered' = Append(delivered, SubSeq(recv_buf, 1, recv_len))
      BY <1>1 DEF Return
    <2> QED BY <1>1, <2>1, <2>2
  <1>2. CASE Return /\ get_all_pieces # 1
    BY <1>2 DEF Return
  <1>3. CASE ~Return
    BY <1>3 DEF Next, Server, SendTo, LoseStart, Restart, Receive, Sync, MergePiece, MallocFails, MergeEnd, vars
  <1> QED BY <1>1, <1>2, <1>3

\* The number of pieces of the message.
Number == Cut(Size(1))

\* The b pieces before piece i, the last ones coming before the first, and
\* the length of their data.
Previous(i, b) == {j \in 0 .. Number - 1 : (i - b =< j /\ j < i) \/ j >= (Number + i) - b}
LengthPrevious(i, b) == At(b) - (IF b > i THEN At(Number) - Size(1) ELSE 0)

\* The handle has the pieces that came before piece i, if it has any.
Got(i) ==
  \/ total_size = 0
  \/ \E b \in 1 .. Number - 1 :
       Held(1, Previous(i, b)) /\ recv_pieces = b /\ recv_len = LengthPrevious(i, b)

(* Where the handle is not touched.                                        *)
LEMMA GotStays ==
  ASSUME UNCHANGED handle, NEW i
  PROVE  Got(i) => Got(i)'
  BY DEF Got, Held, Filled, Previous, LengthPrevious, Number, handle

(* With piece i there is one more, and it was not there before.            *)
LEMMA OneMorePiece ==
  ASSUME Repeating, NEW f, NEW i, IsPiece(f, i), NEW b \in 0 .. Number - 1
  PROVE  /\ i \in 0 .. Number - 1 /\ i \notin Previous(i, b) /\ Previous(i, 0) = {} /\ LengthPrevious(i, 0) = 0
         /\ Previous(i, b) \cup {i} = Previous(NextI(f, i, 1), b + 1)
         /\ LengthPrevious(i, b) + Wide(1, i) = LengthPrevious(NextI(f, i, 1), b + 1)
         /\ b + 1 = Number => LengthPrevious(i, b) + Wide(1, i) = Size(1)
  <1>1. IsPiece(1, i) /\ Size(f) = Size(1) /\ 1 \in DOMAIN Frames
    BY OneMessage
  <1>2. PICK n : n = Number
    OBVIOUS
  <1>3. /\ i \in Nat /\ i < n /\ n \in Nat /\ 0 < n /\ Size(1) \in Nat /\ Wide(1, i) \in Nat
        /\ i < n - 1 => Wide(1, i) = PIECE_FIX_SIZE
        /\ i = n - 1 => At(i) + Wide(1, i) = Size(1)
    BY <1>1, <1>2, PieceFacts, FrameFacts DEF Wide, Number
  <1>4. NextI(f, i, 1) = IF i + 1 = n THEN 0 ELSE i + 1
    BY <1>1, <1>2 DEF NextI, LastPart, LastPiece, Number
  <1>5. PICK j : j = NextI(f, i, 1)
    OBVIOUS
  <1>6. PICK p, q, r, s, w : /\ p = At(b) /\ q = At(b + 1) /\ r = At(n) /\ s = At(i)
                             /\ w = PIECE_FIX_SIZE
    OBVIOUS
  <1>7. /\ p \in Nat /\ q = p + w /\ w \in Nat /\ s \in Nat /\ b \in Nat /\ b =< n - 1
        /\ i = n - 1 => r = s + w
        /\ b = n - 1 => r = q
        /\ r \in Nat
    <2>1. b \in Nat /\ b =< n - 1
      BY <1>2, <1>3
    <2>2. At(b) \in Nat /\ At(b + 1) = At(b) + PIECE_FIX_SIZE /\ At(i) \in Nat /\ At(i + 1) = At(i) + PIECE_FIX_SIZE
          /\ At(n) \in Nat
      BY <1>3, <2>1, AtNext
    <2>3. (i = n - 1 => n = i + 1) /\ (b = n - 1 => n = b + 1)
      BY <1>3, <2>1
    <2> QED BY <1>6, <2>1, <2>2, <2>3, PieceAssumption
  <1>8. i \in 0 .. Number - 1 /\ i \notin Previous(i, b) /\ Previous(i, 0) = {}
    BY <1>2, <1>3, <1>7 DEF Previous
  <1>9. Previous(i, b) \cup {i} = Previous(j, b + 1)
    <2>1. CASE i + 1 = n
      <3>1. j = 0
        BY <1>4, <1>5, <2>1
      <3>2. ASSUME NEW k \in 0 .. n - 1
            PROVE  (i - b =< k /\ k < i) \/ k >= (n + i) - b \/ k = i
                     <=> (0 - (b + 1) =< k /\ k < 0) \/ k >= (n + 0) - (b + 1)
        BY <1>3, <1>7, <2>1
      <3> QED BY <1>2, <1>8, <3>1, <3>2 DEF Previous
    <2>2. CASE i + 1 # n
      <3>1. j = i + 1
        BY <1>4, <1>5, <2>2
      <3>2. ASSUME NEW k \in 0 .. n - 1
            PROVE  (i - b =< k /\ k < i) \/ k >= (n + i) - b \/ k = i
                     <=> ((i + 1) - (b + 1) =< k /\ k < i + 1) \/ k >= (n + (i + 1)) - (b + 1)
        BY <1>3, <1>7, <2>2
      <3> QED BY <1>2, <1>8, <3>1, <3>2 DEF Previous
    <2> QED BY <2>1, <2>2
  <1>10. /\ LengthPrevious(i, b) = p - (IF b > i THEN r - Size(1) ELSE 0)
         /\ LengthPrevious(j, b + 1) = q - (IF b + 1 > j THEN r - Size(1) ELSE 0)
    BY <1>2, <1>6 DEF LengthPrevious
  <1>11. LengthPrevious(i, b) + Wide(1, i) = LengthPrevious(j, b + 1)
    <2>1. CASE i + 1 = n
      <3>1. j = 0 /\ b + 1 > j /\ ~(b > i) /\ i = n - 1
        BY <1>3, <1>4, <1>5, <1>7, <2>1
      <3>2. s + Wide(1, i) = Size(1) /\ r = s + w
        BY <1>3, <1>6, <1>7, <3>1
      <3> QED BY <1>3, <1>7, <1>10, <3>1, <3>2
    <2>2. CASE i + 1 # n
      <3>1. j = i + 1 /\ i < n - 1 /\ (b + 1 > j <=> b > i)
        BY <1>3, <1>4, <1>5, <1>7, <2>2
      <3>2. Wide(1, i) = w
        BY <1>3, <1>6, <3>1
      <3> QED BY <1>3, <1>7, <1>10, <3>1, <3>2
    <2> QED BY <2>1, <2>2
  <1>12. b + 1 = n => LengthPrevious(j, b + 1) = Size(1)
    <2>1. ASSUME b + 1 = n PROVE LengthPrevious(j, b + 1) = Size(1)
      <3>1. b = n - 1 /\ b + 1 > j
        BY <1>3, <1>4, <1>5, <1>7, <2>1
      <3> QED BY <1>3, <1>7, <1>10, <3>1
    <2> QED BY <2>1
  <1>13. LengthPrevious(i, 0) = 0
    <2>1. At(0) = 0 /\ ~(0 > i)
      BY <1>3, AtNext
    <2> QED BY <2>1 DEF LengthPrevious
  <1> QED BY <1>2, <1>5, <1>8, <1>9, <1>11, <1>12, <1>13

(* The next piece joins those that came before it, or completes the        *)
(* message, wherever in the message the server began.                      *)
LEMMA PieceInRound ==
  ASSUME Base, Repeating, MergePiece, NEW f, NEW i, IsPiece(f, i), Input = Piece(f, i),
         get_all_pieces = 0, Got(i)
  PROVE  /\ Input' = << >>
         /\ \/ get_all_pieces' = 0 /\ Got(NextI(f, i, 1))'
            \/ get_all_pieces' = 1 /\ SubSeq(recv_buf', 1, recv_len') = Frames[1]
  <1>1. IsPiece(1, i) /\ Input = Piece(1, i)
    BY OneMessage
  <1>2. /\ Number \in Nat /\ 0 < Number /\ Size(1) \in Nat /\ 0 < Size(1) /\ Wide(1, i) \in Nat
        /\ 1 \in DOMAIN Frames
    BY <1>1, PieceFacts, FrameFacts DEF Number, Wide
  <1>3. PICK b \in 0 .. Number - 1 :
          \/ b = 0 /\ total_size = 0
          \/ Held(1, Previous(i, b)) /\ recv_pieces = b /\ recv_len = LengthPrevious(i, b)
    <2>1. CASE total_size = 0
      <3>1. 0 \in 0 .. Number - 1
        BY <1>2
      <3> QED BY <2>1, <3>1
    <2>2. CASE total_size # 0
      <3>1. \A b \in 1 .. Number - 1 : b \in 0 .. Number - 1
        BY <1>2
      <3> QED BY <2>2, <3>1 DEF Got
    <2> QED BY <2>1, <2>2
  <1>4. PICK R, j : R = Previous(i, b) /\ j = NextI(f, i, 1)
    OBVIOUS
  <1>5. /\ i \notin R /\ (b = 0 => R = {}) /\ R \cup {i} = Previous(j, b + 1)
        /\ LengthPrevious(i, b) + Wide(1, i) = LengthPrevious(j, b + 1)
        /\ b + 1 = Number => LengthPrevious(i, b) + Wide(1, i) = Size(1)
        /\ LengthPrevious(i, 0) = 0
    BY <1>3, <1>4, OneMorePiece
  <1>6. (NewFrame /\ R = {}) \/ Held(1, R)
    BY <1>3, <1>4, <1>5 DEF NewFrame
  <1>7. Cardinality(R) = b
    BY <1>3, <1>4, <1>5, FS_EmptySet DEF Held
  <1>8. /\ Input' = << >> /\ recv_len' = LengthNow
        /\ NewFrame <=> ~Held(1, R)
        /\ IF Cardinality(R) + 1 = Cut(Size(1))
           THEN /\ LengthNow = Size(1) => get_all_pieces' = 1
                /\ SubSeq(recv_buf', 1, Size(1)) = Frames[1]
           ELSE Held(1, R \cup {i})' /\ get_all_pieces' = get_all_pieces
    BY <1>1, <1>5, <1>6, PieceMerged
  <1>9. LengthNow = LengthPrevious(i, b) + Wide(1, i)
    <2>1. DataLen = Wide(1, i)
      BY <1>1, PieceAsInput
    <2>2. CASE b = 0 /\ total_size = 0
      <3>1. NewFrame /\ LengthPrevious(i, b) = 0
        BY <1>5, <2>2 DEF NewFrame
      <3> QED BY <1>2, <2>1, <3>1 DEF LengthNow
    <2>3. CASE Held(1, R) /\ recv_len = LengthPrevious(i, b)
      BY <1>8, <2>1, <2>3 DEF LengthNow
    <2> QED BY <1>3, <1>4, <2>2, <2>3
  <1>10. CASE b + 1 = Number
    <2>1. LengthNow = Size(1) /\ Cardinality(R) + 1 = Cut(Size(1))
      BY <1>5, <1>7, <1>9, <1>10 DEF Number
    <2> QED BY <1>8, <2>1
  <1>11. CASE b + 1 # Number
    <2>1. Cardinality(R) + 1 # Cut(Size(1)) /\ b + 1 \in 1 .. Number - 1
      BY <1>2, <1>7, <1>11 DEF Number
    <2>2. Held(1, Previous(j, b + 1))' /\ get_all_pieces' = 0 /\ recv_len' = LengthPrevious(j, b + 1)
      <3>1. Held(1, R \cup {i})' /\ get_all_pieces' = 0
        BY <1>8, <2>1
      <3>2. Held(1, Previous(j, b + 1))'
        BY <1>5, <3>1 DEF Held, Filled, Previous, Number, Size
      <3> QED BY <1>5, <1>8, <1>9, <3>1, <3>2
    <2>3. recv_pieces' = b + 1
      <3>1. PiecesNow = b + 1
        <4>1. CASE b = 0 /\ total_size = 0
          <5>1. NewFrame
            BY <4>1 DEF NewFrame
          <5> QED BY <4>1, <5>1 DEF PiecesNow
        <4>2. CASE Held(1, R) /\ recv_pieces = b
          BY <1>8, <4>2 DEF PiecesNow
        <4> QED BY <1>3, <1>4, <4>1, <4>2
      <3>2. TotalPieces = Cut(Size(1)) /\ Merged
        BY <1>1, PieceAsInput, MergeStep
      <3> QED BY <1>7, <2>1, <3>1, <3>2 DEF Merged
    <2>4. Got(j)'
      BY <2>1, <2>2, <2>3 DEF Got, Previous, LengthPrevious, Number, Size
    <2> QED BY <1>4, <1>8, <2>2, <2>4
  <1> QED BY <1>10, <1>11

\* Without a loss: the server waits for part h of piece i; it has taken it,
\* and has searched it, merged it, or failed to.
Expecting(f, i, h) ==
  /\ pc = "recvfrom"
  /\ Travels(net, f, i, h, frame, index, half)
  /\ Got(i)
  /\ h = 0 => Len(Input) =< 1
  /\ h # 0 => Input = First \/ (total_size = 0 /\ Len(Input) =< 1)
Searching(f, i, h) ==
  /\ pc = "sync" /\ Got(i)
  /\ \/ h = 1 /\ Input = Piece(f, i)
     \/ /\ h = 1 => total_size = 0
        /\ \E b : b \in Seq(Byte) /\ Len(b) =< 1 /\ Input = b \o Sends(f, i, h)
Merging(f, i, h) ==
  /\ Got(i) /\ get_all_pieces = 0
  /\ \/ pc \in {"merge", "return"} /\ h = 0 /\ Input = First
     \/ pc = "merge" /\ h = 1 /\ Input = Piece(f, i)
Ending(f, i, h) ==
  /\ h = 1
  /\ \/ pc = "return" /\ get_all_pieces = -1
     \/ /\ pc \in {"merge", "return"} /\ Len(Input) =< 1
        /\ \/ get_all_pieces = 0 /\ Got(NextI(f, i, h))
           \/ get_all_pieces = 1 /\ SubSeq(recv_buf, 1, recv_len) = Frames[1]
Taking(f, i, h) ==
  /\ Valid(f, i, h)
  /\ Travels(net, NextF(f, i, h), NextI(f, i, h), NextH(h), frame, index, half)
  /\ Searching(f, i, h) \/ Merging(f, i, h) \/ Ending(f, i, h)
InStep == \E f, i, h : Expecting(f, i, h) \/ Taking(f, i, h)

(* What happens to the net keeps it in step.                               *)
LEMMA InStepStays ==
  ASSUME InStep, Input' = Input, UNCHANGED <<pc, get_all_pieces, handle>>,
         \A a, b, c : Travels(net, a, b, c, frame, index, half) => Travels(net', a, b, c, frame', index', half')
  PROVE  InStep'
  <1>1. PICK f, i, h : Expecting(f, i, h) \/ Taking(f, i, h)
    BY DEF InStep
  <1>2. \A j : Got(j) => Got(j)'
    BY GotStays
  <1>3. total_size' = total_size /\ recv_buf' = recv_buf /\ recv_len' = recv_len
    BY DEF handle
  <1>4. Expecting(f, i, h) => Expecting(f, i, h)'
    BY <1>2, <1>3 DEF Expecting
  <1>5. Searching(f, i, h) => Searching(f, i, h)'
    BY <1>2, <1>3 DEF Searching
  <1>6. Merging(f, i, h) => Merging(f, i, h)'
    BY <1>2 DEF Merging
  <1>7. Ending(f, i, h) => Ending(f, i, h)'
    BY <1>2, <1>3 DEF Ending
  <1>8. Taking(f, i, h) => Taking(f, i, h)'
    BY <1>5, <1>6, <1>7 DEF Taking
  <1> QED BY <1>1, <1>4, <1>8 DEF InStep

(* sendto: the part the client is at goes behind the others.               *)
LEMMA InStepSend ==
  ASSUME Base, Repeating, InStep, SendTo
  PROVE  InStep'
  <1>1. use_ring /\ net \in Seq(Seq(Byte)) /\ half \in {0, 1}
    BY RingInUse DEF Repeating, Base, TypeOK
  <1>2. /\ IsPiece(frame, index)
        /\ net' = Append(net, Sends(frame, index, half)) /\ Sends(frame, index, half) \in Seq(Byte)
        /\ half' = NextH(half) /\ index' = NextI(frame, index, half) /\ frame' = NextF(frame, index, half)
    BY <1>1, SendStep DEF NextF, NextI, NextH
  <1>3. Valid(frame, index, half)
    BY <1>1, <1>2 DEF Valid
  <1>4. ASSUME NEW a, NEW b, NEW c, Travels(net, a, b, c, frame, index, half)
        PROVE  Travels(net', a, b, c, frame', index', half')
    BY <1>1, <1>2, <1>3, <1>4, TravelsSend
  <1>5. UNCHANGED <<use_ring, circular_buffer, rest, pc, get_all_pieces, handle>>
    BY DEF SendTo
  <1> QED BY <1>4, <1>5, InputStays, InStepStays

(* recvfrom: the part that is expected.                                    *)
LEMMA InStepReceive ==
  ASSUME Base, Repeating, Shape, InStep, Receive
  PROVE  InStep'
  <1>1. /\ Len(net) > 0 /\ net' = Tail(net)
        /\ pc' = "sync" /\ get_all_pieces' = 0 /\ Input' = Input \o net[1]
    BY RoomForIt
  <1>2. pc = "recvfrom" /\ UNCHANGED <<client, handle>> /\ net \in Seq(Seq(Byte)) /\ Input \in Seq(Byte)
    BY InputIsBytes DEF Receive, Base, TypeOK
  <1>3. PICK f, i, h : Expecting(f, i, h)
    BY <1>2 DEF InStep, Taking, Searching, Merging, Ending
  <1>4. /\ Valid(f, i, h) /\ net[1] = Sends(f, i, h)
        /\ Travels(net', NextF(f, i, h), NextI(f, i, h), NextH(h), frame, index, half)
    BY <1>1, <1>2, <1>3, TravelsReceive DEF Expecting
  <1>5. Got(i)' /\ total_size' = total_size
    BY <1>2, <1>3, GotStays DEF Expecting, handle
  <1>6. Searching(f, i, h)'
    <2>1. CASE Len(Input) =< 1 /\ (h = 1 => total_size = 0)
      BY <1>1, <1>2, <1>4, <1>5, <2>1 DEF Searching
    <2>2. CASE h = 1 /\ Input = First
      <3>1. IsPiece(f, i) /\ net[1] = Sends(f, i, 1)
        BY <1>4, <2>2 DEF Valid
      <3>2. Input' = Piece(f, i)
        BY <1>1, <2>2, <3>1, PartsMakePiece
      <3> QED BY <1>1, <1>5, <2>2, <3>2 DEF Searching
    <2>3. h = 0 \/ h = 1
      BY <1>4 DEF Valid
    <2>4. h = 0 => h # 1
      OBVIOUS
    <2>5. h = 1 => h # 0
      OBVIOUS
    <2> QED BY <1>3, <2>1, <2>2, <2>3, <2>4, <2>5 DEF Expecting
  <1>7. Taking(f, i, h)'
    BY <1>2, <1>4, <1>6 DEF Taking, client
  <1> QED BY <1>7 DEF InStep

(* The search for the synchronisation word: it finds the part, or drops    *)
(* the second part of a piece whose first one never came.                  *)
LEMMA InStepSync ==
  ASSUME Base, Repeating, Shape, InStep, Sync
  PROVE  InStep'
  <1>1. /\ pc = "sync" /\ pc' = "merge" /\ get_all_pieces' = get_all_pieces
        /\ UNCHANGED <<client, handle, net>>
    BY DEF Sync
  <1>2. get_all_pieces' = 0
    BY <1>1 DEF Shape
  <1>3. PICK f, i, h : Taking(f, i, h) /\ Searching(f, i, h)
    BY <1>1 DEF InStep, Expecting, Taking, Merging, Ending
  <1>4. Valid(f, i, h) /\ IsPiece(f, i) /\ h \in {0, 1}
    BY <1>3 DEF Taking, Valid
  <1>5. Got(i)' /\ total_size' = total_size
    BY <1>1, <1>3, GotStays DEF Searching, handle
  <1>6. Merging(f, i, h)' \/ Ending(f, i, h)'
    <2>1. CASE h = 1 /\ Input = Piece(f, i)
      <3>1. Input' = Piece(f, i)
        BY <1>4, <2>1, PieceAsInput, SyncStep
      <3> QED BY <1>1, <1>2, <1>5, <2>1, <3>1 DEF Merging
    <2>2. CASE h = 0 /\ \E b : b \in Seq(Byte) /\ Len(b) =< 1 /\ Input = b \o Sends(f, i, h)
      <3>1. PICK b : b \in Seq(Byte) /\ Len(b) =< 1 /\ Input = b \o First
        <4>1. Sends(f, i, 0) = First
          BY <1>4, FirstFacts
        <4> QED BY <2>2, <4>1
      <3>2. Input' = First
        BY <3>1, SyncFirst
      <3> QED BY <1>1, <1>2, <1>5, <2>2, <3>2 DEF Merging
    <2>3. CASE h = 1 /\ total_size = 0 /\ \E b : b \in Seq(Byte) /\ Len(b) =< 1 /\ Input = b \o Sends(f, i, h)
      <3>1. PICK b, d : b \in Seq(Byte) /\ Len(b) =< 1 /\ Input = b \o d /\ d = Sends(f, i, h)
        BY <2>3
      <3>2. Second(d)
        BY <1>4, <2>3, <3>1 DEF Second
      <3>3. Len(Input') = 1
        BY <3>1, <3>2, SyncSecond
      <3>4. Got(NextI(f, i, h))'
        BY <1>5, <2>3 DEF Got
      <3> QED BY <1>1, <1>2, <2>3, <3>3, <3>4 DEF Ending
    <2> QED BY <1>3, <1>4, <2>1, <2>2, <2>3 DEF Searching
  <1>7. Taking(f, i, h)'
    BY <1>1, <1>3, <1>6 DEF Taking, client
  <1> QED BY <1>7 DEF InStep

(* The merge loop.                                                         *)
LEMMA InStepMerge ==
  ASSUME Base, Repeating, Shape, InStep, MergePiece \/ MallocFails \/ MergeEnd
  PROVE  InStep'
  <1>1. pc = "merge" /\ UNCHANGED <<client, net>>
    BY DEF MergePiece, MallocFails, MergeEnd
  <1>2. PICK f, i, h : Taking(f, i, h) /\ (Merging(f, i, h) \/ Ending(f, i, h))
    BY <1>1 DEF InStep, Expecting, Taking, Searching
  <1>3. Valid(f, i, h) /\ IsPiece(f, i)
    BY <1>2 DEF Taking, Valid
  <1>4. ASSUME HavePiece PROVE Merging(f, i, h) /\ h = 1 /\ Input = Piece(f, i)
    <2>1. Input \in Seq(Byte) /\ Len(Input) > 12
      BY <1>4, InputIsBytes DEF HavePiece, HEAD_SIZE
    <2>2. Len(First) =< 6
      BY SomePiece, FirstFacts DEF Repeating
    <2>3. ~(Len(Input) =< 1) /\ Input # First
      BY <2>1, <2>2
    <2> QED BY <1>1, <1>2, <2>3 DEF Merging, Ending
  <1>5. Merging(f, i, h)' \/ Ending(f, i, h)'
    <2>1. CASE MergePiece
      <3>1. HavePiece /\ pc' = "merge"
        BY <1>1, <2>1 DEF MergePiece
      <3>2. h = 1 /\ Input = Piece(f, i) /\ Got(i) /\ get_all_pieces = 0
        BY <1>4, <3>1 DEF Merging
      <3>3. /\ Input' = << >>
            /\ \/ get_all_pieces' = 0 /\ Got(NextI(f, i, 1))'
               \/ get_all_pieces' = 1 /\ SubSeq(recv_buf', 1, recv_len') = Frames[1]
        BY <1>3, <2>1, <3>2, PieceInRound
      <3>4. Len(Input') =< 1
        BY <3>3
      <3> QED BY <3>1, <3>2, <3>3, <3>4 DEF Ending
    <2>2. CASE MallocFails
      <3>1. HavePiece /\ pc' = "return" /\ get_all_pieces' = -1
        BY <2>2 DEF MallocFails
      <3> QED BY <1>4, <3>1 DEF Ending
    <2>3. CASE MergeEnd
      <3>1. /\ ~HavePiece /\ pc' = "return"
            /\ UNCHANGED <<use_ring, circular_buffer, rest, handle, get_all_pieces>>
        BY <2>3 DEF MergeEnd
      <3>2. Input' = Input /\ Input # Piece(f, i)
        BY <1>3, <3>1, InputStays, PieceAsInput
      <3>3. \A j : Got(j) => Got(j)'
        BY <3>1, GotStays
      <3>4. recv_buf' = recv_buf /\ recv_len' = recv_len
        BY <3>1 DEF handle
      <3>5. Merging(f, i, h) => Merging(f, i, h)'
        BY <1>1, <3>1, <3>2, <3>3 DEF Merging
      <3>6. Ending(f, i, h) => Ending(f, i, h)'
        BY <1>1, <3>1, <3>2, <3>3, <3>4 DEF Ending
      <3> QED BY <1>2, <3>5, <3>6
    <2> QED BY <2>1, <2>2, <2>3
  <1>6. Taking(f, i, h)'
    BY <1>1, <1>2, <1>5 DEF Taking, client
  <1> QED BY <1>6 DEF InStep

(* The end of the call, and a new start of the server: it expects what is  *)
(* next, and forgets what it had or goes on from there.                    *)
LEMMA InStepReturn ==
  ASSUME Base, Repeating, Shape, InStep, Return \/ Restart
  PROVE  InStep'
  <1>1. CASE Return
    <2>1. pc = "return" /\ pc' = "recvfrom" /\ UNCHANGED <<client, net>>
      BY <1>1 DEF Return
    <2>2. PICK f, i, h : Taking(f, i, h) /\ (Merging(f, i, h) \/ Ending(f, i, h))
      BY <2>1 DEF InStep, Expecting, Taking, Searching
    <2>3. Travels(net', NextF(f, i, h), NextI(f, i, h), NextH(h), frame', index', half')
      BY <2>1, <2>2 DEF Taking, client
    <2>4. /\ get_all_pieces = 0 => UNCHANGED <<handle, circular_buffer>> /\ Input' = Input
          /\ get_all_pieces # 0 => total_size' = 0 /\ Input' = << >>
      <3>1. /\ get_all_pieces = 0 => UNCHANGED <<handle, circular_buffer>>
            /\ get_all_pieces # 0 => total_size' = 0
        BY <1>1 DEF Return
      <3>2. use_ring /\ use_ring' = use_ring
        BY <1>1, RingInUse DEF Return, Repeating
      <3>3. get_all_pieces = 0 => Input' = Input
        BY <3>1, <3>2 DEF Input, Contents
      <3>4. get_all_pieces # 0 => Input' = << >>
        BY <1>1, ReturnStep
      <3> QED BY <3>1, <3>3, <3>4
    <2>5. CASE Merging(f, i, h)
      <3>1. h = 0 /\ Input = First /\ Got(i) /\ get_all_pieces = 0
        BY <2>1, <2>5 DEF Merging
      <3>2. NextF(f, i, h) = f /\ NextI(f, i, h) = i /\ NextH(h) = 1
        BY <3>1 DEF NextF, NextI, NextH, LastPart
      <3>3. Got(i)' /\ Input' = First
        BY <2>4, <3>1, GotStays
      <3>4. Expecting(f, i, 1)'
        BY <2>1, <2>3, <3>2, <3>3 DEF Expecting
      <3> QED BY <3>4 DEF InStep
    <2>6. CASE Ending(f, i, h)
      <3>1. h = 1 /\ NextH(h) = 0
        BY <2>6 DEF Ending, NextH, LastPart
      <3>2. Got(NextI(f, i, h))' /\ Len(Input') =< 1
        <4>1. CASE get_all_pieces = 0
          BY <2>4, <2>6, <4>1, GotStays DEF Ending
        <4>2. CASE get_all_pieces # 0
          <5>1. Len(Input') = 0
            BY <2>4, <4>2
          <5> QED BY <2>4, <4>2, <5>1 DEF Got
        <4> QED BY <4>1, <4>2
      <3>3. Expecting(NextF(f, i, h), NextI(f, i, h), 0)'
        BY <2>1, <2>3, <3>1, <3>2 DEF Expecting
      <3> QED BY <3>3 DEF InStep
    <2> QED BY <2>2, <2>5, <2>6
  <1>2. CASE Restart
    <2>1. /\ pc' = "recvfrom" /\ net' = << >> /\ circular_buffer' = RingInit /\ rest' = << >> /\ total_size' = 0
      BY <1>2 DEF Restart
    <2>2. Input' = << >>
      BY <2>1 DEF Input, Contents, RingInit
    <2>3. PICK f, i, h : f = frame' /\ i = index' /\ h = half'
      OBVIOUS
    <2>4. Travels(net', f, i, h, frame', index', half')
      BY <2>1, <2>3, TravelsNone
    <2>5. Got(i)'
      BY <2>1 DEF Got
    <2>6. Len(Input') =< 1
      BY <2>2
    <2>7. Expecting(f, i, h)'
      BY <2>1, <2>4, <2>5, <2>6 DEF Expecting
    <2> QED BY <2>7 DEF InStep
  <1> QED BY <1>1, <1>2

\* The inductive invariant.
RepeatInv ==
  /\ Shape /\ Fill
  /\ HolesAtMost /\ delivered \in Seq(Seq(Byte \cup {Junk}))
  /\ ~lost => InStep /\ WholeFrames

(* What is printed has the length of the message and holes at most, and    *)
(* none where nothing was lost.                                            *)
LEMMA PrintedWell ==
  ASSUME Base, Repeating, RepeatInv, [Next]_vars
  PROVE  /\ HolesAtMost' /\ delivered' \in Seq(Seq(Byte \cup {Junk}))
         /\ ~lost => WholeFrames'
  <1>1. CASE delivered' = delivered
    BY <1>1 DEF RepeatInv, HolesAtMost, WholeFrames
  <1>2. CASE /\ Return /\ get_all_pieces = 1
             /\ delivered' = Append(delivered, SubSeq(recv_buf, 1, recv_len))
             /\ recv_len = Size(1) /\ Holed(recv_buf)
    <2>1. 1 \in DOMAIN Frames /\ Size(1) \in Nat /\ 0 < Size(1) /\ Size(1) = Len(Frames[1])
      BY SomePiece, FrameFacts
    <2>2. PICK u, s : u = SubSeq(recv_buf, 1, recv_len) /\ s = Size(1)
      OBVIOUS
    <2>3. u \in Seq(Byte \cup {Junk}) /\ Len(u) = s /\ \A n \in 1 .. s : u[n] \in {Frames[1][n], Junk}
      <3>1. recv_buf \in Seq(Byte \cup {Junk}) /\ Len(recv_buf) = s + 1 /\ s \in Nat /\ u = SubSeq(recv_buf, 1, s)
        BY <1>2, <2>1, <2>2 DEF Holed
      <3>2. u \in Seq(Byte \cup {Junk}) /\ Len(u) = s /\ \A n \in 1 .. s : u[n] = recv_buf[n]
        BY <3>1
      <3> QED BY <1>2, <2>2, <3>2 DEF Holed
    <2>4. delivered \in Seq(Seq(Byte \cup {Junk}))
      BY DEF RepeatInv
    <2>5. PICK m \in Nat : m = Len(delivered)
      BY <2>4
    <2>6. delivered' = Append(delivered, u)
      BY <1>2, <2>2
    <2>7. Appended(Seq(Byte \cup {Junk}), delivered', delivered, u)
      BY <2>3, <2>4, <2>6, OneMore
    <2>8. /\ delivered' \in Seq(Seq(Byte \cup {Junk})) /\ DOMAIN delivered' = 1 .. m + 1
          /\ \A k \in 1 .. m + 1 : delivered'[k] = IF k = m + 1 THEN u ELSE delivered[k]
          /\ DOMAIN delivered = 1 .. m
      BY <2>4, <2>5, <2>7 DEF Appended
    <2>9. HolesAtMost'
      <3>1. ASSUME NEW k \in 1 .. m + 1
            PROVE  /\ Len(delivered'[k]) = Len(Frames[1])
                   /\ \A n \in 1 .. Len(Frames[1]) : delivered'[k][n] \in {Frames[1][n], Junk}
        <4>1. CASE k = m + 1
          <5>1. delivered'[k] = u
            BY <2>8, <4>1
          <5> QED BY <2>1, <2>2, <2>3, <5>1
        <4>2. CASE k # m + 1
          <5>1. delivered'[k] = delivered[k] /\ k \in DOMAIN delivered
            BY <2>8, <4>2
          <5> QED BY <5>1 DEF RepeatInv, HolesAtMost
        <4> QED BY <4>1, <4>2
      <3> QED BY <2>8, <3>1 DEF HolesAtMost
    <2>10. ASSUME ~lost PROVE WholeFrames'
      <3>1. u = Frames[1]
        <4>1. PICK f, i, h : Expecting(f, i, h) \/ Taking(f, i, h)
          BY <2>10 DEF RepeatInv, InStep
        <4>2. pc = "return" /\ get_all_pieces = 1
          BY <1>2 DEF Return
        <4>3. Ending(f, i, h)
          BY <4>1, <4>2 DEF Expecting, Taking, Searching, Merging
        <4> QED BY <2>2, <4>2, <4>3 DEF Ending
      <3>2. ASSUME NEW k \in 1 .. m + 1 PROVE \E f \in DOMAIN Frames : delivered'[k] = Frames[f]
        <4>1. CASE k = m + 1
          BY <2>1, <2>8, <3>1, <4>1
        <4>2. CASE k # m + 1
          <5>1. delivered'[k] = delivered[k] /\ k \in DOMAIN delivered
            BY <2>8, <4>2
          <5> QED BY <2>10, <5>1 DEF RepeatInv, WholeFrames
        <4> QED BY <4>1, <4>2
      <3> QED BY <2>8, <3>2 DEF WholeFrames
    <2> QED BY <2>8, <2>9, <2>10
  <1> QED BY <1>1, <1>2, PrintStep DEF RepeatInv

(* The invariant is inductive.                                             *)
LEMMA RepeatStep ==
  ASSUME Base, Repeating, RepeatInv, [Next]_vars
  PROVE  RepeatInv'
  <1>1. Shape /\ Fill
    BY DEF RepeatInv
  <1>2. CASE UNCHANGED vars
    <2>1. UNCHANGED <<use_ring, circular_buffer, rest, net, client, pc, get_all_pieces, handle, lost>>
      BY <1>2 DEF vars
    <2>2. Shape'
      BY <1>1, <2>1, InputStays, ShapeStays DEF Shape, client
    <2>3. InStep => InStep'
      BY <2>1, InputStays, InStepStays DEF client
    <2> QED BY <1>1, <2>1, <2>2, <2>3, FillStep, PrintedWell DEF RepeatInv
  <1>3. CASE Next
    <2>1. Shape'
      BY <1>1, <1>3, ShapeSend, ShapeLose, ShapeReceive, ShapeSync, ShapeMerge DEF Next, Server
    <2>2. ASSUME ~lost' PROVE ~lost /\ InStep'
      <3>1. ~LoseStart
        BY <2>2 DEF LoseStart
      <3>2. ~lost
        BY <1>3, <2>2, <3>1 DEF Next, Server, SendTo, Restart, Receive, Sync, MergePiece, MallocFails, MergeEnd, Return
      <3>3. InStep
        BY <3>2 DEF RepeatInv
      <3>4. InStep'
        BY <1>1, <1>3, <3>1, <3>3, InStepSend, InStepReceive, InStepSync, InStepMerge, InStepReturn DEF Next, Server
      <3> QED BY <3>2, <3>4
    <2> QED BY <1>1, <2>1, <2>2, FillStep, PrintedWell DEF RepeatInv
  <1> QED BY <1>2, <1>3

(* For a client that sends one message again and again, in two datagrams a *)
(* piece, and whatever starts of pieces the network loses, wherever the    *)
(* server is started again and malloc fails: what udp_piece_merge_ex takes *)
(* for a piece is a piece and is stored inside the buffer, what is printed *)
(* is the message with holes at most, and without a loss it is whole.      *)
THEOREM WholeMessages ==
  ASSUME Repeating
  PROVE  Spec => []OnlyWholePrinted
  <1>1. Init => Base /\ RepeatInv
    <2> SUFFICES ASSUME Init PROVE RepeatInv
      BY BaseInit
    <2>1. Contents(circular_buffer) = << >>
      BY DEF Init, RingInit, Contents
    <2>2. /\ Input = << >> /\ net = << >> /\ pc = "recvfrom" /\ total_size = 0 /\ delivered = << >>
      BY <2>1 DEF Init, Input
    <2>3. Shape /\ Fill
      BY <2>2 DEF Shape, Fill, Follows, Little
    <2>4. Travels(net, frame, index, half, frame, index, half)
      BY <2>2, TravelsNone
    <2>5. InStep
      <3>1. Len(Input) =< 1
        BY <2>2
      <3>2. Expecting(frame, index, half)
        BY <2>2, <2>4, <3>1 DEF Expecting, Got
      <3> QED BY <3>2 DEF InStep
    <2>6. HolesAtMost /\ WholeFrames /\ delivered \in Seq(Seq(Byte \cup {Junk}))
      BY <2>2 DEF HolesAtMost, WholeFrames
    <2> QED BY <2>3, <2>5, <2>6 DEF RepeatInv
  <1>2. Base /\ RepeatInv /\ [Next]_vars => Base' /\ RepeatInv'
    BY BaseStep, RepeatStep
  <1>3. Base /\ RepeatInv => OnlyWholePrinted
    <2> SUFFICES ASSUME Base, RepeatInv PROVE OnlyWholePrinted
      OBVIOUS
    <2>1. ASSUME pc = "merge", HavePiece
          PROVE  /\ SubSeq(Input, 1, HEAD_SIZE + DataLen) \in Pieces
                 /\ PIECE_FIX_SIZE * PIndex + DataLen =< TotalSize
      <3>1. PICK f, i : IsPiece(f, i) /\ Input = Piece(f, i)
        BY <2>1, PieceToMerge DEF RepeatInv, Whole
      <3>2. /\ SubSeq(Input, 1, HEAD_SIZE + DataLen) = Piece(f, i)
            /\ PIECE_FIX_SIZE * PIndex + DataLen =< TotalSize
        BY <3>1, PieceAsInput
      <3> QED BY <3>1, <3>2, PieceAmongPieces
    <2>2. ParsesPieces
      BY <2>1 DEF ParsesPieces
    <2> QED BY <2>2 DEF OnlyWholePrinted, RepeatInv, Base
  <1> QED BY <1>1, <1>2, <1>3, PTL DEF Spec
=============================================================================
