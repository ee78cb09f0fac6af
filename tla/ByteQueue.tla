------------------------------- MODULE ByteQueue -------------------------------
(***************************************************************************)
(* What the ring buffer promises: a queue of at most Capacity bytes.  arg  *)
(* is the length or index passed to the last call, out and ret are what it *)
(* stored and returned.                                                    *)
(***************************************************************************)
EXTENDS Integers, Sequences

CONSTANTS Capacity, Byte, Blocks, Counts
VARIABLES q, arg, out, ret

Least(a, b) == IF a < b THEN a ELSE b

Init == q = << >> /\ arg = 0 /\ out = << >> /\ ret = 0

Write(d) ==
  LET n == Least(Len(d), Capacity - Len(q))
  IN  /\ arg' = Len(d)
      /\ q' = q \o SubSeq(d, 1, n)
      /\ ret' = n
      /\ out' = << >>

Read(n) ==
  LET m == Least(n, Len(q))
  IN  /\ arg' = n
      /\ out' = SubSeq(q, 1, m)
      /\ ret' = m
      /\ q' = SubSeq(q, m + 1, Len(q))

Pop(n) ==
  /\ arg' = n
  /\ q' = SubSeq(q, Least(n, Len(q)) + 1, Len(q))
  /\ out' = << >>
  /\ ret' = 0

Get(i) ==
  /\ arg' = i
  /\ out' = IF i < Len(q) THEN <<q[i + 1]>> ELSE << >>
  /\ ret' = IF i < Len(q) THEN 0 ELSE -1
  /\ UNCHANGED q

Reset == q' = << >> /\ arg' = 0 /\ out' = << >> /\ ret' = 0

Next ==
  \/ \E d \in Blocks : Write(d)
  \/ \E n \in Counts : Read(n) \/ Pop(n) \/ Get(n)
  \/ Reset

Spec == Init /\ [][Next]_<<q, arg, out, ret>>
=============================================================================
