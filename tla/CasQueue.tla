------------------------------- MODULE CasQueue -------------------------------
(***************************************************************************)
(* The linked queue of cas_queue/queue_cas.h and the program that drives   *)
(* it, cas_queue/queue_cas.cpp.  Every access to memory another thread may *)
(* write is a step of its own.  The allocator may hand out an address that *)
(* was deleted before.                                                     *)
(*                                                                         *)
(* linked and taken are history variables: the nodes in the order in which *)
(* a CAS linked them behind the list, and how many of them have left it.   *)
(***************************************************************************)
EXTENDS Integers, Sequences, FiniteSets

CONSTANTS Pushers,        \* threads running queue_push
          Poppers,        \* threads running queue_pop
          Addr,           \* addresses operator new may return
          Null,           \* nullptr
          FOR_LOOP_NUM    \* queue_cas.cpp:8

ASSUME LoopAssumption == FOR_LOOP_NUM \in Nat \ {0}

ASSUME AddrAssumption == Null \notin Addr

(* The program starts one thread of each kind (queue_cas.cpp:44-54); the   *)
(* retry loop of push() is there for several pushers, which is safe only   *)
(* while nobody pops.                                                      *)
ASSUME ThreadAssumption ==
  /\ Pushers \cap Poppers = {}
  /\ \/ Poppers = {}
     \/ /\ \E u \in Pushers : Pushers = {u}
        /\ \E v \in Poppers : Poppers = {v}

VARIABLES
  head, tail,         \* _head and _tail
  next, elem,         \* the fields of the node at each address
  live,               \* the addresses allocated and not deleted
  pc,                 \* the next step of each thread
  newNode, p, oldp,   \* the locals of push()
  i,                  \* the loop counter of queue_push
  q, arg,             \* pop(): p, and the third argument of its CAS
  popCount,           \* pop_count
  linked, taken       \* history

shared == <<head, tail, next, elem, live>>
pushLocals == <<newNode, p, oldp, i>>
popLocals == <<q, arg, popCount>>
history == <<linked, taken>>
vars == <<shared, pc, pushLocals, popLocals, history>>

Threads == Pushers \cup Poppers
Pointer == Addr \cup {Null}
Elem == 0 .. FOR_LOOP_NUM - 1

PushPcs == {"new", "readTail", "readOldp", "scan", "link", "swing", "done"}
PopPcs == {"readHead", "test", "readArg", "unlink", "delete", "count", "done"}

Init ==
  \E d \in Addr :
    /\ head = d
    /\ tail = d
    /\ next = [a \in Addr |-> Null]
    /\ elem = [a \in Addr |-> 0]
    /\ live = {d}
    /\ pc = [t \in Threads |-> IF t \in Pushers THEN "new" ELSE "readHead"]
    /\ newNode = [u \in Pushers |-> Null]
    /\ p = [u \in Pushers |-> Null]
    /\ oldp = [u \in Pushers |-> Null]
    /\ i = [u \in Pushers |-> 0]
    /\ q = [v \in Poppers |-> Null]
    /\ arg = [v \in Poppers |-> Null]
    /\ popCount = 0
    /\ linked = <<d>>
    /\ taken = 0

Goto(t, from, to) ==
  /\ pc[t] = from
  /\ pc' = [pc EXCEPT ![t] = to]

----------------------------------------------------------------------------
(* push() *)

\* new _qNode(elem): at any address not in use.
New(u) ==
  /\ Goto(u, "new", "readTail")
  /\ \E a \in Addr \ live :
       /\ newNode' = [newNode EXCEPT ![u] = a]
       /\ live' = live \cup {a}
       /\ next' = [next EXCEPT ![a] = Null]
       /\ elem' = [elem EXCEPT ![a] = i[u]]
  /\ UNCHANGED <<head, tail, p, oldp, i, popLocals, history>>

ReadTail(u) ==
  /\ Goto(u, "readTail", "readOldp")
  /\ p' = [p EXCEPT ![u] = tail]
  /\ UNCHANGED <<shared, newNode, oldp, i, popLocals, history>>

ReadOldp(u) ==
  /\ Goto(u, "readOldp", "scan")
  /\ oldp' = [oldp EXCEPT ![u] = tail]
  /\ UNCHANGED <<shared, newNode, p, i, popLocals, history>>

\* Mutant: the body of the scan loop is empty.
ScanStuck(u) ==
  /\ pc[u] = "scan"
  /\ pc' = [pc EXCEPT ![u] = IF next[p[u]] # Null THEN "scan" ELSE "link"]
  /\ UNCHANGED <<shared, pushLocals, popLocals, history>>

\* while(p->_next != nullptr) p = p->_next;
Scan(u) ==
  /\ pc[u] = "scan"
  /\ IF next[p[u]] # Null
     THEN /\ p' = [p EXCEPT ![u] = next[p[u]]]
          /\ UNCHANGED pc
     ELSE /\ pc' = [pc EXCEPT ![u] = "link"]
          /\ UNCHANGED p
  /\ UNCHANGED <<shared, newNode, oldp, i, popLocals, history>>

\* Mutant: a plain store to p->_next.
LinkByStore(u) ==
  /\ Goto(u, "link", "swing")
  /\ next' = [next EXCEPT ![p[u]] = newNode[u]]
  /\ linked' = Append(linked, newNode[u])
  /\ UNCHANGED <<head, tail, elem, live, pushLocals, popLocals, taken>>

\* The CAS on p->_next; when it fails, the scan goes on from p.
Link(u) ==
  /\ pc[u] = "link"
  /\ IF next[p[u]] = Null
     THEN /\ next' = [next EXCEPT ![p[u]] = newNode[u]]
          /\ linked' = Append(linked, newNode[u])
          /\ pc' = [pc EXCEPT ![u] = "swing"]
     ELSE /\ pc' = [pc EXCEPT ![u] = "scan"]
          /\ UNCHANGED <<next, linked>>
  /\ UNCHANGED <<head, tail, elem, live, pushLocals, popLocals, taken>>

\* Mutant: a plain store to _tail.
SwingByStore(u) ==
  /\ Goto(u, "swing", IF i[u] + 1 < FOR_LOOP_NUM THEN "new" ELSE "done")
  /\ tail' = newNode[u]
  /\ i' = [i EXCEPT ![u] = @ + 1]
  /\ UNCHANGED <<head, next, elem, live, newNode, p, oldp, popLocals, history>>

\* The CAS on _tail, whose result is ignored; then the loop of queue_push.
Swing(u) ==
  /\ Goto(u, "swing", IF i[u] + 1 < FOR_LOOP_NUM THEN "new" ELSE "done")
  /\ tail' = IF tail = oldp[u] THEN newNode[u] ELSE tail
  /\ i' = [i EXCEPT ![u] = @ + 1]
  /\ UNCHANGED <<head, next, elem, live, newNode, p, oldp, popLocals, history>>

----------------------------------------------------------------------------
(* pop() *)

ReadHead(v) ==
  /\ Goto(v, "readHead", "test")
  /\ q' = [q EXCEPT ![v] = head]
  /\ UNCHANGED <<shared, pushLocals, arg, popCount, history>>

\* if(p->_next == nullptr) return false;
Test(v) ==
  /\ Goto(v, "test", IF next[q[v]] = Null THEN "count" ELSE "readArg")
  /\ UNCHANGED <<shared, pushLocals, popLocals, history>>

ReadArg(v) ==
  /\ Goto(v, "readArg", "unlink")
  /\ arg' = [arg EXCEPT ![v] = next[q[v]]]
  /\ UNCHANGED <<shared, pushLocals, q, popCount, history>>

\* The CAS on _head; when it fails, pop() starts over.
Unlink(v) ==
  /\ pc[v] = "unlink"
  /\ IF head = q[v]
     THEN /\ head' = arg[v]
          /\ taken' = taken + 1
          /\ pc' = [pc EXCEPT ![v] = "delete"]
     ELSE /\ pc' = [pc EXCEPT ![v] = "readHead"]
          /\ UNCHANGED <<head, taken>>
  /\ UNCHANGED <<tail, next, elem, live, pushLocals, popLocals, linked>>

\* Mutant: the new dummy is deleted in place of the old one.
DeleteNew(v) ==
  /\ Goto(v, "delete", "count")
  /\ live' = live \ {arg[v]}
  /\ UNCHANGED <<head, tail, next, elem, pushLocals, popLocals, history>>

Delete(v) ==
  /\ Goto(v, "delete", "count")
  /\ live' = live \ {q[v]}
  /\ UNCHANGED <<head, tail, next, elem, pushLocals, popLocals, history>>

\* pop_count++ and the exit test of queue_pop, whatever pop() returned.
Count(v) ==
  /\ Goto(v, "count", IF popCount + 1 >= FOR_LOOP_NUM THEN "done" ELSE "readHead")
  /\ popCount' = popCount + 1
  /\ UNCHANGED <<shared, pushLocals, q, arg, history>>

----------------------------------------------------------------------------
(* ~Queue() of the static _queue, after both joins: one node per step. *)

Joined == \A t \in Threads : pc[t] = "done"

\* Mutant: the destructor stops before the last node.
DestroyAllButOne ==
  /\ Joined
  /\ head # Null
  /\ head' = next[head]
  /\ live' = IF next[head] # Null THEN live \ {head} ELSE live
  /\ taken' = taken + 1
  /\ UNCHANGED <<tail, next, elem, pc, pushLocals, popLocals, linked>>

Destroy ==
  /\ Joined
  /\ head # Null
  /\ head' = next[head]
  /\ live' = live \ {head}
  /\ taken' = taken + 1
  /\ UNCHANGED <<tail, next, elem, pc, pushLocals, popLocals, linked>>

Push(u) == New(u) \/ ReadTail(u) \/ ReadOldp(u) \/ Scan(u) \/ Link(u) \/ Swing(u)

Pop(v) == ReadHead(v) \/ Test(v) \/ ReadArg(v) \/ Unlink(v) \/ Delete(v) \/ Count(v)

Exited == Joined /\ head = Null

\* The process has exited; stuttering here is not a deadlock.
Exit == Exited /\ UNCHANGED vars

Next ==
  \/ \E u \in Pushers : Push(u)
  \/ \E v \in Poppers : Pop(v)
  \/ Destroy
  \/ Exit

Spec == Init /\ [][Next]_vars

\* Each thread is scheduled: a step it can keep taking is taken.
FairSpec ==
  /\ Spec
  /\ \A u \in Pushers : WF_vars(Push(u))
  /\ \A v \in Poppers : WF_vars(Pop(v))
  /\ WF_vars(Destroy)

----------------------------------------------------------------------------
(* Properties *)

\* The nodes of the list that starts at _head, dummy first.
Segment == {linked[k] : k \in taken + 1 .. Len(linked)}

\* Pushers that hold a node nobody else can reach yet, and poppers that do.
Holders == {u \in Pushers : pc[u] \in {"readTail", "readOldp", "scan", "link"}}
Deleters == {v \in Poppers : pc[v] = "delete"}

(* Every variable has its type; in particular no thread ever leaves a null *)
(* pointer in its locals once it has started (queue_cas.h:49-69).          *)
TypeOK ==
  /\ head \in Pointer
  /\ tail \in Addr
  /\ next \in [Addr -> Pointer]
  /\ elem \in [Addr -> Elem]
  /\ live \in SUBSET Addr
  /\ pc \in [Threads -> PushPcs \cup PopPcs]
  /\ \A u \in Pushers : pc[u] \in PushPcs
  /\ \A v \in Poppers : pc[v] \in PopPcs
  /\ newNode \in [Pushers -> Pointer]
  /\ p \in [Pushers -> Pointer]
  /\ oldp \in [Pushers -> Pointer]
  /\ i \in [Pushers -> 0 .. FOR_LOOP_NUM]
  /\ \A u \in Pushers : pc[u] # "done" => i[u] < FOR_LOOP_NUM
  /\ q \in [Poppers -> Pointer]
  /\ arg \in [Poppers -> Pointer]
  /\ popCount \in Nat
  /\ linked \in Seq(Addr)
  /\ taken \in 0 .. Len(linked)

(* No step reads, writes or deletes a node that has been deleted: neither  *)
(* push() through p (queue_cas.h:55-57), nor pop() through p (67-70), nor  *)
(* the destructor through _head (38-40), although pop() deletes nodes      *)
(* while push() walks the same list and addresses are reused.              *)
NoUseAfterFree ==
  /\ \A u \in Pushers : pc[u] \in {"scan", "link"} => p[u] \in live
  /\ \A v \in Poppers : pc[v] \in {"test", "readArg", "delete"} => q[v] \in live
  /\ Joined /\ head # Null => head \in live

(* The nodes reachable from _head through _next are exactly the nodes that *)
(* a CAS linked and no pop unlinked, in that order, and the list ends in   *)
(* nullptr: no CAS of queue_cas.h:57 or 69 ever cuts a node off.           *)
ChainIsList ==
  /\ taken < Len(linked) => /\ head = linked[taken + 1]
                            /\ next[linked[Len(linked)]] = Null
  /\ taken = Len(linked) => head = Null
  /\ \A k \in taken + 1 .. Len(linked) - 1 : next[linked[k]] = linked[k + 1]

(* Every allocated node is in the list, or still private to the push()     *)
(* that made it, or about to be deleted by the pop() that unlinked it: no  *)
(* interleaving leaks one, and the destructor leaves none.                 *)
NoLeak ==
  live = Segment \cup {newNode[u] : u \in Holders} \cup {q[v] : v \in Deleters}

(* With several pushers _tail may lag behind the last node, but the second *)
(* CAS (queue_cas.h:58) never moves it back towards _head.                 *)
TailAdvances ==
  [][Poppers = {} =>
       \A j, k \in 1 .. Len(linked) :
         tail = linked[j] /\ tail' = linked[k] => j =< k]_vars

\* The value in a node; what stands behind nullptr is no element.
Value(a) == IF a \in Addr THEN elem[a] ELSE Null

\* What the queue holds, read from memory: the values behind the links.
Contents ==
  [k \in 1 .. Len(linked) - 1 - taken |-> Value(next[linked[taken + k]])]

Fifo == INSTANCE FifoQueue WITH queue <- Contents

(* The list implements a FIFO queue: the CAS of push() is the only step    *)
(* that adds an element, at the back, and the CAS of pop() the only one    *)
(* that removes one, from the front.                                       *)
FifoSpec == Fifo!Spec

(* The retry loops of push() and pop() end and the destructor runs to the  *)
(* end: the process exits.                                                 *)
Termination == <>Exited
=============================================================================
