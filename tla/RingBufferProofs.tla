--------------------------- MODULE RingBufferProofs ---------------------------
(***************************************************************************)
(* Proofs about module RingBuffer, for every capacity and alphabet.        *)
(***************************************************************************)
EXTENDS RingBuffer, SequenceTheorems, TLAPS

(* One lap around the array at most: the remainder is a subtraction.       *)
LEMMA OneLap ==
  ASSUME NEW x \in 0 .. 2 * Capacity - 1
  PROVE  /\ x % Capacity = IF x < Capacity THEN x ELSE x - Capacity
         /\ x % Capacity \in Cells
  BY CapacityAssumption DEF Cells

(* An index moved on by at most the capacity is again an index, and it is  *)
(* the old one plus n around the end of the array.                         *)
LEMMA ForwardIndex ==
  ASSUME NEW i \in Cells, NEW n \in 0 .. Capacity
  PROVE  /\ Forward(i, n) \in Cells
         /\ Forward(i, n) = IF i + n < Capacity THEN i + n ELSE i + n - Capacity
  BY CapacityAssumption DEF Forward, Cells

(* A write takes what fits.                                                *)
LEMMA CountsInRange ==
  ASSUME NEW r \in RingType, NEW d \in Seq(Byte), NEW n \in Nat
  PROVE  /\ WriteCount(r, d) \in 0 .. Capacity - r.size
         /\ WriteCount(r, d) =< Len(d)
         /\ ReadCount(r, n) \in 0 .. r.size
         /\ ReadCount(r, n) =< n
  BY CapacityAssumption DEF WriteCount, ReadCount, MIN, RingType

(* Where the bytes of a write land, in the single copy and in the two.     *)
LEMMA WriteCell ==
  ASSUME NEW r \in RingType, NEW d \in Seq(Byte), NEW i \in Cells
  PROVE  LET n == WriteCount(r, d)
         IN  RingWrite(r, d).data[i] =
               IF r.end =< i /\ i < r.end + n THEN d[i - r.end + 1]
               ELSE IF i < r.end + n - Capacity THEN d[i + Capacity - r.end + 1]
               ELSE r.data[i]
  <1> DEFINE n == WriteCount(r, d)
             size_1 == Capacity - r.end
  <1>1. /\ n \in 0 .. Capacity - r.size /\ n =< Len(d)
        /\ r.end \in Cells /\ r.size \in 0 .. Capacity
        /\ Capacity \in Nat \ {0} /\ i \in 0 .. Capacity - 1
    BY CountsInRange, CapacityAssumption DEF RingType, Cells
  <1>2. CASE n =< size_1
    <2>1. RingWrite(r, d).data = Memcpy(r.data, r.end, d, 0, n)
      BY <1>2 DEF RingWrite, RingType
    <2> QED BY <1>1, <1>2, <2>1 DEF Memcpy, Cells
  <1>3. CASE ~(n =< size_1)
    <2>1. RingWrite(r, d).data =
            Memcpy(Memcpy(r.data, r.end, d, 0, size_1), 0, d, size_1, n - size_1)
      BY <1>3 DEF RingWrite, RingType
    <2>2. Memcpy(r.data, r.end, d, 0, size_1)[i] = IF r.end =< i THEN d[i - r.end + 1] ELSE r.data[i]
      BY <1>1 DEF Memcpy, Cells
    <2>3. RingWrite(r, d).data[i] =
            IF i < n - size_1 THEN d[size_1 + i + 1]
            ELSE Memcpy(r.data, r.end, d, 0, size_1)[i]
      BY <1>1, <1>3, <2>1 DEF Memcpy, Cells
    <2>4. size_1 + i + 1 = i + Capacity - r.end + 1
      BY <1>1 DEF Cells
    <2>5. n - size_1 =< r.end
      BY <1>1 DEF Cells
    <2> QED BY <1>1, <1>3, <2>2, <2>3, <2>4, <2>5 DEF Cells
  <1> QED BY <1>2, <1>3
(* The fields of the ring after a write and after a pop.                   *)
LEMMA WriteFields ==
  ASSUME NEW r \in RingType, NEW d \in Seq(Byte)
  PROVE  /\ RingWrite(r, d).beg = r.beg
         /\ RingWrite(r, d).end = Forward(r.end, WriteCount(r, d))
         /\ RingWrite(r, d).size = r.size + WriteCount(r, d)
  BY DEF RingWrite

(* A write keeps the type of the ring.                                     *)
LEMMA WriteType ==
  ASSUME NEW r \in RingType, NEW d \in Seq(Byte)
  PROVE  RingWrite(r, d) \in RingType
  <1> DEFINE n == WriteCount(r, d)
             size_1 == Capacity - r.end
  <1>1. /\ n \in 0 .. Capacity - r.size /\ n =< Len(d)
        /\ r.end \in Cells /\ r.size \in 0 .. Capacity /\ r.beg \in Cells
        /\ Capacity \in Nat \ {0}
    BY CountsInRange, CapacityAssumption DEF RingType
  <1>2. Forward(r.end, n) \in Cells /\ r.size + n \in 0 .. Capacity
    <2>1. n \in 0 .. Capacity
      BY <1>1
    <2>2. Forward(r.end, n) \in Cells
      BY <1>1, <2>1, ForwardIndex
    <2>3. r.size + n \in 0 .. Capacity
      BY <1>1
    <2> QED BY <2>2, <2>3
  <1>3. ASSUME NEW mem \in [Cells -> Byte \cup {Junk}], NEW at \in Int, NEW from \in Nat,
               NEW m \in Int, from + m =< Len(d)
        PROVE  Memcpy(mem, at, d, from, m) \in [Cells -> Byte \cup {Junk}]
    BY <1>1, <1>3 DEF Memcpy, Cells
  <1>4. RingWrite(r, d).data \in [Cells -> Byte \cup {Junk}]
    <2>1. r.data \in [Cells -> Byte \cup {Junk}]
      BY DEF RingType
    <2>2. /\ r.end \in Int /\ n \in Int /\ size_1 \in Nat /\ n - size_1 \in Int
          /\ 0 + n =< Len(d) /\ size_1 + (n - size_1) =< Len(d)
      <3>1. r.end \in 0 .. Capacity - 1
        BY <1>1 DEF Cells
      <3>2. n \in Int /\ Len(d) \in Nat /\ n =< Len(d)
        BY <1>1
      <3>3. size_1 \in Nat
        BY <1>1, <3>1
      <3> HIDE DEF n, size_1
      <3> QED BY <3>1, <3>2, <3>3
    <2>3. CASE n =< size_1
      <3>1. RingWrite(r, d).data = Memcpy(r.data, r.end, d, 0, n)
        BY <2>3 DEF RingWrite
      <3> QED BY <1>3, <2>1, <2>2, <3>1
    <2>4. CASE ~(n =< size_1)
      <3>1. 0 + size_1 =< Len(d)
        BY <2>4, <1>1, <2>2
      <3>2. Memcpy(r.data, r.end, d, 0, size_1) \in [Cells -> Byte \cup {Junk}]
        BY <1>3, <2>1, <2>2, <3>1
      <3>3. RingWrite(r, d).data =
              Memcpy(Memcpy(r.data, r.end, d, 0, size_1), 0, d, size_1, n - size_1)
        BY <2>4 DEF RingWrite
      <3>4. 0 \in Int /\ size_1 \in Nat /\ n - size_1 \in Int /\ size_1 + (n - size_1) =< Len(d)
        BY <2>2
      <3> HIDE DEF n, size_1
      <3>5. Memcpy(Memcpy(r.data, r.end, d, 0, size_1), 0, d, size_1, n - size_1)
              \in [Cells -> Byte \cup {Junk}]
        BY <1>3, <3>2, <3>4
      <3> QED BY <3>3, <3>5
    <2> QED BY <2>3, <2>4
  <1> HIDE DEF n
  <1>5. RingWrite(r, d) = [beg |-> r.beg, end |-> Forward(r.end, n), size |-> r.size + n,
                           data |-> RingWrite(r, d).data]
    BY DEF RingWrite, n
  <1> QED BY <1>1, <1>2, <1>4, <1>5 DEF RingType

(* After a write the k-th byte is the k-th byte from before or, behind     *)
(* them, the next byte of the block, wherever the copy wrapped around.     *)
LEMMA WriteByte ==
  ASSUME NEW r \in RingType, Agree(r), NEW d \in Seq(Byte),
         NEW k \in 1 .. r.size + WriteCount(r, d)
  PROVE  RingWrite(r, d).data[(r.beg + k - 1) % Capacity] =
           IF k =< r.size THEN r.data[(r.beg + k - 1) % Capacity] ELSE d[k - r.size]
  <1> DEFINE n == WriteCount(r, d)
             b == r.beg
             z == r.size
             e == r.end
             x == b + k - 1
             i == x % Capacity
  <1>1. /\ n \in 0 .. Capacity - z /\ n =< Len(d) /\ k \in 1 .. z + n
        /\ e \in 0 .. Capacity - 1 /\ z \in 0 .. Capacity /\ b \in 0 .. Capacity - 1
        /\ Capacity \in Nat \ {0}
    BY CountsInRange, CapacityAssumption DEF RingType, Cells
  <1>2. e = IF b + z < Capacity THEN b + z ELSE b + z - Capacity
    BY DEF Agree
  <1>3. ASSUME i \in Cells
        PROVE  RingWrite(r, d).data[i] = IF e =< i /\ i < e + n THEN d[i - e + 1]
                                         ELSE IF i < e + n - Capacity THEN d[i + Capacity - e + 1]
                                         ELSE r.data[i]
    BY <1>3, WriteCell
  <1> HIDE DEF n, b, z, e
  <1>4. x \in 0 .. 2 * Capacity - 1
    BY <1>1
  <1> HIDE DEF x
  <1>5. i \in Cells /\ i = IF x < Capacity THEN x ELSE x - Capacity
    BY <1>4, OneLap
  <1> HIDE DEF i
  <1>6. i \in Int /\ x \in Int /\ x = b + k - 1
    BY <1>1, <1>4, <1>5 DEF Cells, x
  <1>7. CASE k =< z
    <2>1. ~(e =< i /\ i < e + n) /\ ~(i < e + n - Capacity)
      BY <1>1, <1>2, <1>5, <1>6, <1>7
    <2> QED BY <1>3, <1>5, <1>7, <2>1 DEF i, x, b, z
  <1>8. CASE k > z /\ e =< i /\ i < e + n
    <2>1. i - e + 1 = k - z /\ ~(k =< z)
      BY <1>1, <1>2, <1>5, <1>6, <1>8
    <2> QED BY <1>3, <1>5, <1>8, <2>1 DEF i, x, b, z
  <1>9. CASE k > z /\ ~(e =< i /\ i < e + n)
    <2>1. i < e + n - Capacity /\ i + Capacity - e + 1 = k - z /\ ~(k =< z)
      BY <1>1, <1>2, <1>5, <1>6, <1>9
    <2> QED BY <1>3, <1>5, <1>9, <2>1 DEF i, x, b, z
  <1> QED BY <1>1, <1>7, <1>8, <1>9

(* A write appends what it takes to the contents and keeps the ring sound. *)
LEMMA WriteAppends ==
  ASSUME NEW r \in RingType, Agree(r), NEW d \in Seq(Byte)
  PROVE  /\ Contents(RingWrite(r, d)) = Contents(r) \o SubSeq(d, 1, WriteCount(r, d))
         /\ Agree(RingWrite(r, d))
  <1> DEFINE n == WriteCount(r, d)
             z == r.size
             s == RingWrite(r, d)
             B(k) == (r.beg + k - 1) % Capacity
             a == Contents(r)
             c == Contents(s)
             t == SubSeq(d, 1, n)
  <1>1. /\ n \in 0 .. Capacity - z /\ n =< Len(d)
        /\ r.end \in 0 .. Capacity - 1 /\ z \in 0 .. Capacity /\ r.beg \in 0 .. Capacity - 1
        /\ Capacity \in Nat \ {0}
    BY CountsInRange, CapacityAssumption DEF RingType, Cells
  <1>2. s.beg = r.beg /\ s.size = z + n /\ s.end = Forward(r.end, n)
    BY WriteFields
  <1>3. \A k \in 1 .. z + n : s.data[B(k)] = IF k =< z THEN r.data[B(k)] ELSE d[k - z]
    BY WriteByte
  <1>4. \A k \in 1 .. z : r.data[B(k)] \in Byte
    BY DEF Agree
  <1>5. s.end = IF s.beg + s.size < Capacity THEN s.beg + s.size ELSE s.beg + s.size - Capacity
    <2>1. n \in 0 .. Capacity /\ r.end \in Cells
      BY <1>1 DEF Cells
    <2>2. Forward(r.end, n) = IF r.end + n < Capacity THEN r.end + n ELSE r.end + n - Capacity
      BY <2>1, ForwardIndex
    <2>3. r.end = IF r.beg + z < Capacity THEN r.beg + z ELSE r.beg + z - Capacity
      BY DEF Agree
    <2> HIDE DEF n, s, z
    <2> QED BY <1>1, <1>2, <2>2, <2>3, SMTT(60)
  <1>6. c = [k \in 1 .. s.size |-> s.data[(s.beg + k - 1) % Capacity]]
        /\ a = [k \in 1 .. z |-> r.data[B(k)]]
    BY DEF Contents
  <1> HIDE DEF n, z, s, a, c
  <1>7. \A k \in 1 .. z + n : s.data[B(k)] \in Byte
    <2> SUFFICES ASSUME NEW k \in 1 .. z + n PROVE s.data[B(k)] \in Byte
      OBVIOUS
    <2> HIDE DEF B
    <2>1. k \in Int /\ z \in Int
      BY <1>1
    <2>2. CASE k =< z
      BY <1>1, <1>3, <1>4, <2>1, <2>2, SMTT(60)
    <2>3. CASE k > z
      <3>1. k - z \in 1 .. Len(d)
        BY <1>1, <2>1, <2>3
      <3>2. d[k - z] \in Byte
        BY <3>1
      <3> QED BY <1>3, <2>1, <2>3, <3>2
    <2> QED BY <2>1, <2>2, <2>3
  <1>8. Agree(s)
    BY <1>2, <1>5, <1>7 DEF Agree
  <1>9. c = [k \in 1 .. z + n |-> s.data[B(k)]]
    BY <1>2, <1>6
  <1> HIDE DEF B
  <1>10. a \in Seq(Byte) /\ Len(a) = z
    BY <1>1, <1>4, <1>6
  <1>11. c \in Seq(Byte) /\ Len(c) = z + n
    BY <1>1, <1>7, <1>9
  <1>12. t \in Seq(Byte) /\ Len(t) = n /\ \A k \in 1 .. n : t[k] = d[k]
    BY <1>1
  <1> HIDE DEF t
  <1>13. /\ a \o t \in Seq(Byte) /\ Len(a \o t) = Len(a) + Len(t)
         /\ \A k \in 1 .. Len(a) + Len(t) : (a \o t)[k] = IF k <= Len(a) THEN a[k] ELSE t[k - Len(a)]
    BY <1>10, <1>12, ConcatProperties
  <1>14. \A k \in 1 .. Len(c) : c[k] = (a \o t)[k]
    <2> SUFFICES ASSUME NEW k \in 1 .. z + n PROVE c[k] = (a \o t)[k]
      BY <1>11
    <2>1. /\ c[k] = IF k =< z THEN r.data[B(k)] ELSE d[k - z]
          /\ (a \o t)[k] = IF k =< z THEN a[k] ELSE t[k - z]
      BY <1>3, <1>9, <1>10, <1>12, <1>13
    <2>2. CASE k =< z
      BY <1>1, <1>6, <2>1, <2>2
    <2>3. CASE ~(k =< z)
      <3>1. k - z \in 1 .. n
        BY <1>1, <2>3
      <3> QED BY <1>12, <2>1, <2>3, <3>1
    <2> QED BY <2>2, <2>3
  <1>15. c = a \o t
    BY <1>10, <1>11, <1>12, <1>13, <1>14, SeqEqual
  <1> QED BY <1>8, <1>15 DEF a, c, s, t, n

(* The contents of a sound ring are size bytes.                            *)
LEMMA ContentsType ==
  ASSUME NEW r \in RingType, Agree(r)
  PROVE  Contents(r) \in Seq(Byte) /\ Len(Contents(r)) = r.size
  <1>1. r.size \in Nat
    BY CapacityAssumption DEF RingType
  <1> QED BY <1>1 DEF Contents, Agree

(* A pop, and the end of a read, remove bytes from the front.              *)
LEMMA PopRemoves ==
  ASSUME NEW r \in RingType, Agree(r), NEW n \in Nat
  PROVE  LET m == ReadCount(r, n)
         IN  /\ RingPop(r, n) \in RingType
             /\ Agree(RingPop(r, n))
             /\ Contents(RingPop(r, n)) = SubSeq(Contents(r), m + 1, Len(Contents(r)))
  <1> DEFINE m == ReadCount(r, n)
             s == RingPop(r, n)
             b == r.beg
             z == r.size
             a == Contents(r)
             c == Contents(s)
             t == SubSeq(a, m + 1, z)
  <1>1. /\ m \in 0 .. z /\ z \in 0 .. Capacity /\ b \in 0 .. Capacity - 1
        /\ Capacity \in Nat \ {0}
    <2>1. m \in 0 .. z
      <3>1. << >> \in Seq(Byte)
        OBVIOUS
      <3> QED BY <3>1, CountsInRange
    <2> QED BY <2>1, CapacityAssumption DEF RingType, Cells
  <1>2. s = [beg |-> Forward(b, m), end |-> r.end, size |-> z - m, data |-> r.data]
    BY DEF RingPop
  <1>3. /\ r.end = IF b + z < Capacity THEN b + z ELSE b + z - Capacity
        /\ \A k \in 1 .. z : r.data[(b + k - 1) % Capacity] \in Byte
    BY DEF Agree
  <1>4. a = [k \in 1 .. z |-> r.data[(b + k - 1) % Capacity]]
        /\ c = [k \in 1 .. s.size |-> s.data[(s.beg + k - 1) % Capacity]]
    BY DEF Contents
  <1>5. a \in Seq(Byte) /\ Len(a) = z
    BY ContentsType
  <1>6. r.end \in Cells /\ r.data \in [Cells -> Byte \cup {Junk}]
    BY DEF RingType
  <1> HIDE DEF m, s, b, z, a, c
  <1>7. /\ Forward(b, m) \in Cells
        /\ Forward(b, m) = IF b + m < Capacity THEN b + m ELSE b + m - Capacity
    <2>1. b \in Cells /\ m \in 0 .. Capacity
      BY <1>1 DEF Cells
    <2> QED BY <2>1, ForwardIndex
  <1>8. s \in RingType
    <2>1. z - m \in 0 .. Capacity
      BY <1>1
    <2> QED BY <1>2, <1>6, <1>7, <2>1 DEF RingType
  <1>9. s.beg = Forward(b, m) /\ s.end = r.end /\ s.size = z - m /\ s.data = r.data
    BY <1>2
  <1>10. ASSUME NEW k \in 1 .. z - m
         PROVE  (s.beg + k - 1) % Capacity = (b + (m + k) - 1) % Capacity
    <2> DEFINE f == Forward(b, m)
               x == b + (m + k) - 1
               y == f + k - 1
    <2>1. f \in 0 .. Capacity - 1 /\ f = IF b + m < Capacity THEN b + m ELSE b + m - Capacity
      BY <1>7 DEF Cells
    <2> HIDE DEF f
    <2>2. x \in 0 .. 2 * Capacity - 1 /\ y \in 0 .. 2 * Capacity - 1
      BY <1>1, <2>1
    <2>3. \/ x = y
          \/ x = y + Capacity /\ y < Capacity
      BY <1>1, <2>1
    <2> HIDE DEF x, y
    <2>4. /\ x % Capacity = IF x < Capacity THEN x ELSE x - Capacity
          /\ y % Capacity = IF y < Capacity THEN y ELSE y - Capacity
      BY <2>2, OneLap
    <2>5. x % Capacity = y % Capacity
      BY <1>1, <2>2, <2>3, <2>4
    <2> QED BY <1>9, <2>5 DEF x, y, f
  <1>11. \A k \in 1 .. z - m : m + k \in 1 .. z
    BY <1>1
  <1>12. \A k \in 1 .. z - m : s.data[(s.beg + k - 1) % Capacity] = a[m + k]
    BY <1>4, <1>9, <1>10, <1>11
  <1>13. \A k \in 1 .. z - m : a[m + k] \in Byte
    BY <1>5, <1>11
  <1>14. Agree(s)
    <2>1. s.end = IF s.beg + s.size < Capacity THEN s.beg + s.size ELSE s.beg + s.size - Capacity
      <3> DEFINE f == Forward(b, m)
      <3>1. f \in 0 .. Capacity - 1 /\ f = IF b + m < Capacity THEN b + m ELSE b + m - Capacity
        BY <1>7 DEF Cells
      <3>2. r.end = IF f + (z - m) < Capacity THEN f + (z - m) ELSE f + (z - m) - Capacity
        <4> HIDE DEF f
        <4> QED BY <1>1, <1>3, <3>1
      <3> QED BY <1>9, <3>2
    <2>2. \A k \in 1 .. s.size : s.data[(s.beg + k - 1) % Capacity] \in Byte
      BY <1>9, <1>12, <1>13
    <2> QED BY <2>1, <2>2 DEF Agree
  <1>15. c \in Seq(Byte) /\ Len(c) = z - m
    BY <1>8, <1>9, <1>14, ContentsType DEF c
  <1>16. \A k \in 1 .. z - m : c[k] = a[m + k]
    BY <1>4, <1>9, <1>12
  <1>17. t \in Seq(Byte) /\ Len(t) = z - m /\ \A k \in 1 .. z - m : t[k] = a[m + k]
    BY <1>1, <1>5
  <1> HIDE DEF t
  <1>18. c = t
    BY <1>15, <1>16, <1>17, SeqEqual
  <1> QED BY <1>5, <1>8, <1>14, <1>18 DEF s, m, c, t, a, z

(* A read stores the bytes at the front, also when it wraps around.        *)
LEMMA ReadReturns ==
  ASSUME NEW r \in RingType, Agree(r), NEW n \in Nat
  PROVE  RingRead(r, n) = SubSeq(Contents(r), 1, ReadCount(r, n))
  <1> DEFINE m == ReadCount(r, n)
             b == r.beg
             z == r.size
             a == Contents(r)
             c == RingRead(r, n)
             t == SubSeq(a, 1, m)
  <1>1. /\ m \in 0 .. z /\ z \in 0 .. Capacity /\ b \in 0 .. Capacity - 1
        /\ Capacity \in Nat \ {0}
    <2>1. m \in 0 .. z
      <3>1. << >> \in Seq(Byte)
        OBVIOUS
      <3> QED BY <3>1, CountsInRange
    <2> QED BY <2>1, CapacityAssumption DEF RingType, Cells
  <1>2. a = [k \in 1 .. z |-> r.data[(b + k - 1) % Capacity]]
    BY DEF Contents
  <1>3. c = [k \in 1 .. m |-> IF k =< Capacity - b THEN r.data[b + k - 1]
                                                     ELSE r.data[k - (Capacity - b) - 1]]
    BY DEF RingRead
  <1>4. a \in Seq(Byte) /\ Len(a) = z
    BY ContentsType
  <1> HIDE DEF m, b, z, a, c
  <1>5. t \in Seq(Byte) /\ Len(t) = m /\ \A k \in 1 .. m : t[k] = a[k]
    BY <1>1, <1>4
  <1> HIDE DEF t
  <1>6. ASSUME NEW k \in 1 .. m
        PROVE  c[k] = a[k]
    <2> DEFINE x == b + k - 1
    <2>1. x \in 0 .. 2 * Capacity - 1 /\ k \in 1 .. z
      BY <1>1
    <2>2. x < Capacity <=> k =< Capacity - b
      BY <1>1
    <2>3. x - Capacity = k - (Capacity - b) - 1
      BY <1>1
    <2> HIDE DEF x
    <2>4. x % Capacity = IF x < Capacity THEN x ELSE x - Capacity
      BY <2>1, OneLap
    <2>5. a[k] = r.data[x % Capacity]
      BY <1>2, <2>1 DEF x
    <2>6. c[k] = IF x < Capacity THEN r.data[x] ELSE r.data[x - Capacity]
      BY <1>3, <2>2, <2>3 DEF x
    <2> QED BY <2>4, <2>5, <2>6
  <1>7. \A k \in 1 .. m : c[k] \in Byte
    BY <1>1, <1>4, <1>6
  <1>8. c \in Seq(Byte) /\ Len(c) = m
    <2>1. m \in Nat /\ c = [k \in 1 .. m |-> c[k]]
      BY <1>1, <1>3
    <2> QED BY <1>7, <2>1
  <1>9. c = t
    BY <1>5, <1>6, <1>8, SeqEqual
  <1> QED BY <1>9 DEF c, t, a, m

(* get finds the byte at an index from the front.                          *)
LEMMA GetReturns ==
  ASSUME NEW r \in RingType, Agree(r), NEW i \in Nat, i < r.size
  PROVE  RingGet(r, i) = Contents(r)[i + 1] /\ RingGet(r, i) \in Byte
  <1>1. r.size \in Nat /\ r.beg \in Int
    BY CapacityAssumption DEF RingType, Cells
  <1>2. i + 1 \in 1 .. r.size /\ i + r.beg = r.beg + (i + 1) - 1
    BY <1>1
  <1>3. Contents(r)[i + 1] = r.data[(r.beg + (i + 1) - 1) % Capacity]
    BY <1>2 DEF Contents
  <1>4. RingGet(r, i) = r.data[(r.beg + (i + 1) - 1) % Capacity]
    BY <1>2 DEF RingGet
  <1> QED BY <1>2, <1>3, <1>4 DEF Agree

(* The type of the ring together with the agreement of its fields is       *)
(* inductive: no sequence of calls of circular_buffer.c breaks it.         *)
RingInv == RingTypeOK /\ Consistent

(* The empty ring is sound.                                                *)
LEMMA RingInitSound ==
  RingBufferInit => RingInv /\ Contents(ring) = << >>
  <1> SUFFICES ASSUME RingBufferInit PROVE RingInv /\ Contents(ring) = << >>
    OBVIOUS
  <1>1. ring = [beg |-> 0, end |-> 0, size |-> 0, data |-> [i \in Cells |-> Junk]]
    BY DEF RingBufferInit, RingInit
  <1>2. 0 \in Cells /\ 0 \in 0 .. Capacity
    BY CapacityAssumption DEF Cells
  <1>3. ring \in RingType
    BY <1>1, <1>2 DEF RingType
  <1>4. Agree(ring)
    BY <1>1, CapacityAssumption DEF Agree
  <1>5. Contents(ring) = << >>
    BY <1>1 DEF Contents
  <1> QED BY <1>3, <1>4, <1>5 DEF RingBufferInit, RingInv, RingTypeOK, Consistent

(* A reset leaves a sound ring without contents.                           *)
LEMMA ResetEmpties ==
  ASSUME NEW r \in RingType
  PROVE  /\ RingReset(r) \in RingType
         /\ Agree(RingReset(r))
         /\ Contents(RingReset(r)) = << >>
  <1>1. RingReset(r) = [beg |-> 0, end |-> 0, size |-> 0, data |-> r.data]
    BY DEF RingReset
  <1>2. 0 \in Cells /\ 0 \in 0 .. Capacity
    BY CapacityAssumption DEF Cells
  <1>3. RingReset(r) \in RingType
    BY <1>1, <1>2 DEF RingType
  <1>4. Agree(RingReset(r))
    BY <1>1, CapacityAssumption DEF Agree
  <1> QED BY <1>1, <1>3, <1>4 DEF Contents

(* Every call keeps the invariant and is the queue's call of that name.    *)
LEMMA RingStepSimulates ==
  RingInv /\ [RingBufferNext]_ringVars => RingInv' /\ [Queue!Next]_<<Contents(ring), arg, out, ret>>
  <1> SUFFICES ASSUME RingInv, [RingBufferNext]_ringVars
               PROVE  RingInv' /\ [Queue!Next]_<<Contents(ring), arg, out, ret>>
    OBVIOUS
  <1>1. ring \in RingType /\ Agree(ring) /\ arg \in Nat /\ out \in Seq(Byte) /\ ret \in Int
    BY DEF RingInv, RingTypeOK, Consistent
  <1>2. Contents(ring) \in Seq(Byte) /\ Len(Contents(ring)) = ring.size /\ ring.size \in Nat
    BY <1>1, ContentsType DEF RingType
  <1>3. ASSUME ring' \in RingType, Agree(ring'), arg' \in Nat, out' \in Seq(Byte), ret' \in Int
        PROVE  RingInv'
    BY <1>3 DEF RingInv, RingTypeOK, Consistent, Agree
  <1>4. ASSUME NEW d \in Blocks, Write(d)
        PROVE  RingInv' /\ Queue!Write(d)
    <2>1. d \in Seq(Byte)
      BY BlockAssumption
    <2>2. ring' = RingWrite(ring, d) /\ ret' = WriteCount(ring, d) /\ out' = << >> /\ arg' = Len(d)
      BY <1>4 DEF Write
    <2>3. ring' \in RingType /\ Agree(ring')
          /\ Contents(ring') = Contents(ring) \o SubSeq(d, 1, WriteCount(ring, d))
      BY <1>1, <2>1, <2>2, WriteType, WriteAppends
    <2>4. WriteCount(ring, d) \in 0 .. Capacity - ring.size
      BY <1>1, <2>1, CountsInRange
    <2>5. WriteCount(ring, d) = Queue!Least(Len(d), Capacity - Len(Contents(ring)))
      BY <1>2 DEF WriteCount, MIN, Queue!Least
    <2>6. Contents(ring)' = Contents(ring')
      BY DEF Contents
    <2>7. RingInv'
      BY <1>3, <2>1, <2>2, <2>3, <2>4
    <2>8. Queue!Write(d)
      BY <2>2, <2>3, <2>5, <2>6 DEF Queue!Write
    <2> QED BY <2>7, <2>8
  <1>5. ASSUME NEW n \in Counts, Read(n)
        PROVE  RingInv' /\ Queue!Read(n)
    <2>1. n \in Nat
      BY CountAssumption
    <2>2. ring' = RingPop(ring, n) /\ ret' = ReadCount(ring, n) /\ out' = RingRead(ring, n) /\ arg' = n
      BY <1>5 DEF Read
    <2>3. ring' \in RingType /\ Agree(ring')
          /\ Contents(ring') =
               SubSeq(Contents(ring), ReadCount(ring, n) + 1, Len(Contents(ring)))
      BY <1>1, <2>1, <2>2, PopRemoves
    <2>4. out' = SubSeq(Contents(ring), 1, ReadCount(ring, n))
      BY <1>1, <2>1, <2>2, ReadReturns
    <2>5. ReadCount(ring, n) \in 0 .. ring.size
      BY <1>1, <2>1, CountsInRange
    <2>6. ReadCount(ring, n) = Queue!Least(n, Len(Contents(ring)))
      BY <1>2 DEF ReadCount, MIN, Queue!Least
    <2>7. Contents(ring)' = Contents(ring')
      BY DEF Contents
    <2>8. out' \in Seq(Byte)
      BY <1>2, <2>4, <2>5
    <2>9. RingInv'
      BY <1>2, <1>3, <2>1, <2>2, <2>3, <2>5, <2>8
    <2>10. Queue!Read(n)
      BY <2>2, <2>3, <2>4, <2>6, <2>7 DEF Queue!Read
    <2> QED BY <2>9, <2>10
  <1>6. ASSUME NEW n \in Counts, PopFront(n)
        PROVE  RingInv' /\ Queue!Pop(n)
    <2>1. n \in Nat
      BY CountAssumption
    <2>2. ring' = RingPop(ring, n) /\ ret' = 0 /\ out' = << >> /\ arg' = n
      BY <1>6 DEF PopFront
    <2>3. ring' \in RingType /\ Agree(ring')
          /\ Contents(ring') =
               SubSeq(Contents(ring), ReadCount(ring, n) + 1, Len(Contents(ring)))
      BY <1>1, <2>1, <2>2, PopRemoves
    <2>4. ReadCount(ring, n) = Queue!Least(n, Len(Contents(ring)))
      BY <1>2 DEF ReadCount, MIN, Queue!Least
    <2>5. Contents(ring)' = Contents(ring')
      BY DEF Contents
    <2>6. RingInv'
      BY <1>3, <2>1, <2>2, <2>3
    <2>7. Queue!Pop(n)
      BY <2>2, <2>3, <2>4, <2>5 DEF Queue!Pop
    <2> QED BY <2>6, <2>7
  <1>7. ASSUME NEW n \in Counts, Get(n)
        PROVE  RingInv' /\ Queue!Get(n)
    <2>1. n \in Nat
      BY CountAssumption
    <2>2. /\ out' = IF n < ring.size THEN <<RingGet(ring, n)>> ELSE << >>
          /\ ret' = IF n < ring.size THEN 0 ELSE -1
          /\ ring' = ring /\ arg' = n
      BY <1>7 DEF Get
    <2>3. n < ring.size => RingGet(ring, n) = Contents(ring)[n + 1] /\ RingGet(ring, n) \in Byte
      BY <1>1, <2>1, GetReturns
    <2>4. Contents(ring)' = Contents(ring)
      BY <2>2 DEF Contents
    <2>5. out' \in Seq(Byte) /\ ret' \in Int
      BY <2>2, <2>3
    <2>6. RingInv'
      BY <1>1, <1>3, <2>1, <2>2, <2>5
    <2>7. Queue!Get(n)
      BY <1>2, <2>2, <2>3, <2>4 DEF Queue!Get
    <2> QED BY <2>6, <2>7
  <1>8. ASSUME Reset
        PROVE  RingInv' /\ Queue!Reset
    <2>1. ring' = RingReset(ring) /\ ret' = 0 /\ out' = << >> /\ arg' = 0
      BY <1>8 DEF Reset
    <2>2. ring' \in RingType /\ Agree(ring') /\ Contents(ring') = << >>
      BY <1>1, <2>1, ResetEmpties
    <2>3. Contents(ring)' = Contents(ring')
      BY DEF Contents
    <2>4. RingInv'
      BY <1>3, <2>1, <2>2
    <2> QED BY <2>1, <2>2, <2>3, <2>4 DEF Queue!Reset
  <1>9. CASE UNCHANGED ringVars
    <2>1. ring' = ring /\ arg' = arg /\ out' = out /\ ret' = ret /\ Contents(ring)' = Contents(ring)
      BY <1>9 DEF ringVars, Contents
    <2>2. RingInv'
      BY <1>1, <1>3, <2>1
    <2> QED BY <2>1, <2>2
  <1>10. CASE RingBufferNext
    <2>1. CASE \E d \in Blocks : Write(d)
      BY <1>4, <2>1 DEF Queue!Next
    <2>2. CASE \E n \in Counts : Read(n) \/ PopFront(n) \/ Get(n)
      BY <1>5, <1>6, <1>7, <2>2 DEF Queue!Next
    <2>3. CASE Reset
      BY <1>8, <2>3 DEF Queue!Next
    <2> QED BY <1>10, <2>1, <2>2, <2>3 DEF RingBufferNext
  <1> QED BY <1>9, <1>10

(* In every state that calls of circular_buffer.c reach, the indices, the  *)
(* size and the cells in use agree, for every capacity.                    *)
THEOREM RingSound ==
  RingBufferSpec => [](RingTypeOK /\ Consistent)
  <1>1. RingBufferInit => RingInv
    BY RingInitSound
  <1>2. RingInv /\ [RingBufferNext]_ringVars => RingInv'
    BY RingStepSimulates
  <1>3. RingInv => RingTypeOK /\ Consistent
    BY DEF RingInv
  <1> QED BY <1>1, <1>2, <1>3, PTL DEF RingBufferSpec

(* The ring of circular_buffer.c implements a bounded queue of bytes, for  *)
(* every capacity and every block and count passed to it.                  *)
THEOREM RingIsQueue ==
  RingBufferSpec => QueueSpec
  <1>1. RingBufferInit => RingInv
    BY RingInitSound
  <1>2. RingBufferInit => Queue!Init
    BY RingInitSound DEF RingBufferInit, Queue!Init
  <1>3. RingInv /\ [RingBufferNext]_ringVars => RingInv' /\ [Queue!Next]_<<Contents(ring), arg, out, ret>>
    BY RingStepSimulates
  <1> QED BY <1>1, <1>2, <1>3, PTL DEF RingBufferSpec, QueueSpec, Queue!Spec
=============================================================================
