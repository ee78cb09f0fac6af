---------------------------- MODULE CircularBuffer ----------------------------
(***************************************************************************)
(* The ring of udp_piece/circular_buffer.c as operators on a record: beg   *)
(* and end are beg_index_ and end_index_, size is size_, data is the array *)
(* data_.                                                                  *)
(***************************************************************************)
EXTENDS Integers, Sequences

CONSTANTS Capacity,   \* capacity_
          Byte,       \* the values a cell may have
          Junk        \* what malloc leaves in a cell

ASSUME CapacityAssumption == Capacity \in Nat \ {0}
ASSUME JunkAssumption == Junk \notin Byte

Cells == 0 .. Capacity - 1

MIN(a, b) == IF a < b THEN a ELSE b

RingInit == [beg |-> 0, end |-> 0, size |-> 0, data |-> [i \in Cells |-> Junk]]

\* The array is kept.
RingReset(r) == [beg |-> 0, end |-> 0, size |-> 0, data |-> r.data]

\* n bytes of the sequence src, the first from of them left out, go to mem[at].
Memcpy(mem, at, src, from, n) ==
  [i \in Cells |-> IF at =< i /\ i < at + n THEN src[from + i - at + 1] ELSE mem[i]]

\* The bytes a write takes and the bytes a read or a pop removes.
WriteCount(r, d) == MIN(Len(d), Capacity - r.size)
ReadCount(r, n) == MIN(n, r.size)

\* An index moved n cells on in the single step or in the two steps.
Forward(index, n) ==
  IF n =< Capacity - index
  THEN IF index + n = Capacity THEN 0 ELSE index + n
  ELSE n - (Capacity - index)

RingWrite(r, d) ==
  LET n == WriteCount(r, d)
      size_1 == Capacity - r.end
  IN  [beg |-> r.beg,
       end |-> Forward(r.end, n),
       size |-> r.size + n,
       data |-> IF n =< size_1
                THEN Memcpy(r.data, r.end, d, 0, n)
                ELSE Memcpy(Memcpy(r.data, r.end, d, 0, size_1), 0, d, size_1, n - size_1)]

\* The bytes circular_buffer_read stores at its argument data.
RingRead(r, n) ==
  LET size_1 == Capacity - r.beg
  IN  [k \in 1 .. ReadCount(r, n) |->
         IF k =< size_1 THEN r.data[r.beg + k - 1] ELSE r.data[k - size_1 - 1]]

\* The state after a read or a pop of n bytes.
RingPop(r, n) ==
  LET m == ReadCount(r, n)
  IN  [beg |-> Forward(r.beg, m), end |-> r.end, size |-> r.size - m, data |-> r.data]

\* Mutant: the index is not wrapped around but clipped.
RingGetClipped(r, index) == r.data[MIN(index + r.beg, Capacity - 1)]

\* For index < size; otherwise circular_buffer_get returns -1 and stores nothing.
RingGet(r, index) == r.data[(index + r.beg) % Capacity]

\* The bytes the ring holds, oldest first.
Contents(r) == [k \in 1 .. r.size |-> r.data[(r.beg + k - 1) % Capacity]]

\* A ring, whatever its fields hold.
RingType ==
  [beg : Cells, end : Cells, size : 0 .. Capacity, data : [Cells -> Byte \cup {Junk}]]

\* The fields agree, and no cell that counts as contents was never written.
Agree(r) ==
  /\ r.end = IF r.beg + r.size < Capacity
             THEN r.beg + r.size
             ELSE r.beg + r.size - Capacity
  /\ \A k \in 1 .. r.size : r.data[(r.beg + k - 1) % Capacity] \in Byte
=============================================================================
