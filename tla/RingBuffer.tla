------------------------------ MODULE RingBuffer ------------------------------
(***************************************************************************)
(* circular_buffer.c as a component: any sequence of its calls, one action *)
(* for each function, shown to implement the queue of module ByteQueue.    *)
(***************************************************************************)
EXTENDS CircularBuffer

CONSTANTS Blocks,   \* the blocks of bytes that are written
          Counts    \* the lengths and indices passed to read, pop_front and get

ASSUME BlockAssumption == Blocks \subseteq Seq(Byte)
ASSUME CountAssumption == Counts \subseteq Nat

VARIABLES ring,
          arg,   \* the length or the index passed to the last call
          out,   \* what the call stored through its pointer argument
          ret    \* what the call returned

ringVars == <<ring, arg, out, ret>>

RingBufferInit == ring = RingInit /\ arg = 0 /\ out = << >> /\ ret = 0

Write(d) ==
  /\ arg' = Len(d)
  /\ ring' = RingWrite(ring, d)
  /\ ret' = WriteCount(ring, d)
  /\ out' = << >>

Read(n) ==
  /\ arg' = n
  /\ ring' = RingPop(ring, n)
  /\ out' = RingRead(ring, n)
  /\ ret' = ReadCount(ring, n)

PopFront(n) ==
  /\ arg' = n
  /\ ring' = RingPop(ring, n)
  /\ out' = << >>
  /\ ret' = 0

Get(index) ==
  /\ arg' = index
  /\ out' = IF index < ring.size THEN <<RingGet(ring, index)>> ELSE << >>
  /\ ret' = IF index < ring.size THEN 0 ELSE -1
  /\ UNCHANGED ring

Reset ==
  /\ arg' = 0
  /\ ring' = RingReset(ring)
  /\ out' = << >>
  /\ ret' = 0

RingBufferNext ==
  \/ \E d \in Blocks : Write(d)
  \/ \E n \in Counts : Read(n) \/ PopFront(n) \/ Get(n)
  \/ Reset

RingBufferSpec == RingBufferInit /\ [][RingBufferNext]_ringVars

----------------------------------------------------------------------------
(* Properties *)

(* The indices stay inside the array, size_ does not exceed capacity_, and *)
(* no call hands out a cell that was never written (circular_buffer.c).    *)
RingTypeOK == ring \in RingType /\ arg \in Nat /\ out \in Seq(Byte) /\ ret \in Int

(* The three numbers kept for the ring agree: end_index_ is size_ cells    *)
(* behind beg_index_, around the end of the array, also when the ring is   *)
(* full and the two indices are equal; and no cell that was never written  *)
(* is among the size_ that hold data.                                      *)
Consistent == Agree(ring)

Queue == INSTANCE ByteQueue WITH q <- Contents(ring)

(* Whatever the order of calls, the ring is a bounded first-in first-out   *)
(* queue of bytes: what read, get and pop_front return or remove is what   *)
(* the queue holds at the front, although both copies may wrap around.     *)
QueueSpec == Queue!Spec
=============================================================================
