------------------------------ MODULE FifoQueue ------------------------------
(***************************************************************************)
(* What a queue promises, whatever its implementation: elements leave in   *)
(* the order in which they entered, each at most once, none invented.      *)
(* A pop that finds the queue empty changes nothing and is a stutter here. *)
(***************************************************************************)
EXTENDS Sequences

CONSTANT Elem

VARIABLE queue

Init == queue = << >>

Push == \E e \in Elem : queue' = Append(queue, e)

Pop == /\ queue # << >>
       /\ queue' = Tail(queue)

Next == Push \/ Pop

Spec == Init /\ [][Next]_queue
=============================================================================
