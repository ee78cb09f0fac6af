--------------------------- MODULE CasQueueProofs ---------------------------
(***************************************************************************)
(* Proofs about CasQueue for any number of pushes and addresses, and for   *)
(* both thread set-ups of ThreadAssumption: one pusher and one popper, or  *)
(* any number of pushers.                                                  *)
(***************************************************************************)
EXTENDS CasQueue, TLAPS

\* A node occurs once in the list, although its address may come back later.
SegmentInjective ==
  \A j, k \in taken + 1 .. Len(linked) : linked[j] = linked[k] => j = k

\* The list has its dummy node until the destructor has run.
DummyPresent ==
  /\ Len(linked) >= 1
  /\ ~Joined => taken < Len(linked)

\* Nodes outside the list belong to one thread each.
PrivateNodes ==
  /\ \A u \in Holders : /\ newNode[u] \in Addr \ Segment
                        /\ next[newNode[u]] = Null
  /\ \A u, w \in Holders : newNode[u] = newNode[w] => u = w
  /\ \A v \in Deleters : /\ q[v] \in Addr \ Segment
                         /\ \A u \in Holders : newNode[u] # q[v]

\* Several pushers, no popper: everything push() reads is in the list.
ManyPushers ==
  Poppers = {} =>
    /\ ~Joined => taken = 0 /\ tail \in Segment
    /\ \A u \in Pushers :
         /\ pc[u] \in {"readOldp", "scan", "link"} => p[u] \in Segment
         /\ pc[u] = "swing" => newNode[u] \in Segment

\* One pusher, one popper: _tail is the last node, except between the two
\* CASes of push(), when it may even be a deleted one.
OnePusher ==
  Poppers # {} =>
    \A u \in Pushers :
      /\ pc[u] \in {"new", "readTail", "readOldp", "scan", "link"} =>
           tail = linked[Len(linked)]
      /\ pc[u] \in {"readOldp", "scan", "link"} => p[u] = linked[Len(linked)]
      /\ pc[u] \in {"scan", "link", "swing"} => oldp[u] = tail
      /\ pc[u] = "swing" => newNode[u] = linked[Len(linked)]

\* The popper's copies of _head and of _head->_next are current.
PopLocals ==
  \A v \in Poppers :
    /\ pc[v] \in {"test", "readArg", "unlink"} => q[v] = head
    /\ pc[v] \in {"readArg", "unlink"} => next[q[v]] # Null
    /\ pc[v] = "unlink" => arg[v] = next[q[v]]

IInv ==
  /\ TypeOK
  /\ ChainIsList
  /\ NoLeak
  /\ SegmentInjective
  /\ DummyPresent
  /\ PrivateNodes
  /\ ManyPushers
  /\ OnePusher
  /\ PopLocals

USE LoopAssumption, AddrAssumption, ThreadAssumption

(* The constructor establishes the invariant. *)
LEMMA InitIInv == Init => IInv
<1> SUFFICES ASSUME Init PROVE IInv
  OBVIOUS
<1>1. TypeOK
  BY DEF Init, TypeOK, Pointer, Elem, Threads, PushPcs, PopPcs
<1>2. /\ Len(linked) = 1 /\ taken = 0 /\ linked[1] = head /\ tail = head
      /\ live = {head} /\ Segment = {head} /\ next[head] = Null
  BY DEF Init, Segment
<1>3. Holders = {} /\ Deleters = {}
  BY DEF Init, Holders, Deleters, Threads
<1>4. ChainIsList /\ NoLeak /\ SegmentInjective /\ DummyPresent
  BY <1>2, <1>3 DEF ChainIsList, NoLeak, SegmentInjective, DummyPresent
<1>5. PrivateNodes /\ ManyPushers
  BY <1>2, <1>3 DEF PrivateNodes, ManyPushers, Init, Threads
<1>6. OnePusher /\ PopLocals
  BY <1>2 DEF OnePusher, PopLocals, Init, Threads
<1> QED
  BY <1>1, <1>4, <1>5, <1>6 DEF IInv

(* What the list looks like, by the invariant. *)
LEMMA ListFacts ==
  ASSUME IInv
  PROVE  /\ Segment \in SUBSET live
         /\ live \in SUBSET Addr
         /\ \A k \in taken + 1 .. Len(linked) : linked[k] \in Segment
         /\ \A a \in Segment : \E k \in taken + 1 .. Len(linked) : a = linked[k]
         /\ taken < Len(linked) => /\ head \in Segment
                                   /\ linked[Len(linked)] \in Segment
         /\ \A a \in Segment : next[a] \in Segment \cup {Null}
         /\ \A a \in Segment : next[a] = Null => a = linked[Len(linked)]
<1>1. Len(linked) \in Nat /\ taken \in Nat /\ taken =< Len(linked)
  BY DEF IInv, TypeOK
<1>2. Segment \in SUBSET live /\ live \in SUBSET Addr
  BY DEF IInv, NoLeak, TypeOK
<1>3. /\ \A k \in taken + 1 .. Len(linked) : linked[k] \in Segment
      /\ \A a \in Segment : \E k \in taken + 1 .. Len(linked) : a = linked[k]
  BY DEF Segment
<1>4. taken < Len(linked) => head \in Segment /\ linked[Len(linked)] \in Segment
  BY <1>1, <1>3 DEF IInv, ChainIsList
<1>5. ASSUME NEW a \in Segment
      PROVE  /\ next[a] \in Segment \cup {Null}
             /\ next[a] = Null => a = linked[Len(linked)]
  <2>1. PICK k \in taken + 1 .. Len(linked) : a = linked[k]
    BY <1>3
  <2>2. CASE k = Len(linked)
    BY <2>1, <2>2, <1>1 DEF IInv, ChainIsList
  <2>3. CASE k < Len(linked)
    <3>1. next[a] = linked[k + 1] /\ k + 1 \in taken + 1 .. Len(linked)
      BY <2>1, <2>3, <1>1 DEF IInv, ChainIsList
    <3> QED
      BY <3>1, <1>2, <1>3
  <2> QED
    BY <2>1, <2>2, <2>3, <1>1
<1> QED
  BY <1>2, <1>3, <1>4, <1>5

\* Where a pusher holds a private node.
Holding == {"readTail", "readOldp", "scan", "link"}

(* What a step of push() does to the program counters and to the sets that *)
(* depend on nothing else.                                                 *)
LEMMA PushFrame ==
  ASSUME IInv, NEW u \in Pushers, pc[u] # "done", NEW l \in PushPcs,
         pc' = [pc EXCEPT ![u] = l]
  PROVE  /\ ~Joined
         /\ taken < Len(linked)
         /\ pc' \in [Threads -> PushPcs \cup PopPcs]
         /\ \A w \in Pushers : pc'[w] \in PushPcs
         /\ \A v \in Poppers : pc'[v] \in PopPcs /\ pc'[v] = pc[v]
         /\ pc'[u] = l
         /\ \A w \in Pushers \ {u} : pc'[w] = pc[w]
         /\ Deleters' = Deleters
         /\ Holders' = IF l \in Holding THEN Holders \cup {u} ELSE Holders \ {u}
         /\ u \in Holders <=> pc[u] \in Holding
         /\ Poppers # {} => Pushers = {u}
<1>1. ~Joined /\ taken < Len(linked)
  BY DEF IInv, DummyPresent, Joined, Threads
<1>2. /\ pc' \in [Threads -> PushPcs \cup PopPcs]
      /\ \A w \in Pushers : pc'[w] \in PushPcs
      /\ \A v \in Poppers : pc'[v] \in PopPcs /\ pc'[v] = pc[v]
      /\ pc'[u] = l
      /\ \A w \in Pushers \ {u} : pc'[w] = pc[w]
  BY DEF IInv, TypeOK, Threads
<1>3. Deleters' = Deleters
  BY <1>2 DEF Deleters
<1>4. Holders' = IF l \in Holding THEN Holders \cup {u} ELSE Holders \ {u}
  BY <1>2 DEF Holders, Holding
<1>5. u \in Holders <=> pc[u] \in Holding
  BY DEF Holders, Holding
<1> QED
  BY <1>1, <1>2, <1>3, <1>4, <1>5

(* The same for a step of pop(). *)
LEMMA PopFrame ==
  ASSUME IInv, NEW v \in Poppers, pc[v] # "done", NEW l \in PopPcs,
         pc' = [pc EXCEPT ![v] = l]
  PROVE  /\ ~Joined
         /\ taken < Len(linked)
         /\ pc' \in [Threads -> PushPcs \cup PopPcs]
         /\ \A u \in Pushers : pc'[u] \in PushPcs /\ pc'[u] = pc[u]
         /\ \A w \in Poppers : pc'[w] \in PopPcs
         /\ pc'[v] = l
         /\ Holders' = Holders
         /\ Poppers = {v}
         /\ Deleters' = IF l = "delete" THEN {v} ELSE {}
         /\ Deleters = IF pc[v] = "delete" THEN {v} ELSE {}
<1>1. ~Joined /\ taken < Len(linked)
  BY DEF IInv, DummyPresent, Joined, Threads
<1>2. /\ pc' \in [Threads -> PushPcs \cup PopPcs]
      /\ \A u \in Pushers : pc'[u] \in PushPcs /\ pc'[u] = pc[u]
      /\ \A w \in Poppers : pc'[w] \in PopPcs
      /\ pc'[v] = l
  BY DEF IInv, TypeOK, Threads
<1>3. Holders' = Holders
  BY <1>2 DEF Holders
<1>4. Poppers = {v}
  OBVIOUS
<1>5. /\ Deleters' = IF l = "delete" THEN {v} ELSE {}
      /\ Deleters = IF pc[v] = "delete" THEN {v} ELSE {}
  BY <1>2, <1>4 DEF Deleters
<1> QED
  BY <1>1, <1>2, <1>3, <1>4, <1>5

(* A step that leaves the list alone leaves everything said of it alone.   *)
LEMMA ListFrame ==
  ASSUME IInv, taken < Len(linked), UNCHANGED <<head, linked, taken>>,
         \A a \in Segment : next'[a] = next[a]
  PROVE  /\ Segment' = Segment
         /\ ChainIsList'
         /\ SegmentInjective'
         /\ DummyPresent'
<1>1. Segment' = Segment
  BY DEF Segment
<1>2. \A k \in taken + 1 .. Len(linked) : next'[linked[k]] = next[linked[k]]
  BY ListFacts
<1>3. Len(linked) \in Nat /\ taken \in Nat
  BY DEF IInv, TypeOK
<1>4. ChainIsList'
  <2>1. head' = linked'[taken' + 1] /\ next'[linked'[Len(linked')]] = Null
    BY <1>2, <1>3 DEF IInv, ChainIsList
  <2>2. \A k \in taken' + 1 .. Len(linked') - 1 : next'[linked'[k]] = linked'[k + 1]
    BY <1>2, <1>3 DEF IInv, ChainIsList
  <2> QED
    BY <1>3, <2>1, <2>2 DEF ChainIsList
<1>5. SegmentInjective' /\ DummyPresent'
  BY <1>3 DEF IInv, SegmentInjective, DummyPresent
<1> QED
  BY <1>1, <1>4, <1>5

----------------------------------------------------------------------------
(* push() preserves the invariant. *)

LEMMA NewIInv ==
  ASSUME IInv, NEW u \in Pushers, New(u)
  PROVE  IInv'
<1>1. pc[u] = "new" /\ pc' = [pc EXCEPT ![u] = "readTail"]
  BY DEF New, Goto
<1>2. PICK a \in Addr \ live :
        /\ newNode' = [newNode EXCEPT ![u] = a]
        /\ live' = live \cup {a}
        /\ next' = [next EXCEPT ![a] = Null]
        /\ elem' = [elem EXCEPT ![a] = i[u]]
  BY DEF New
<1>3. UNCHANGED <<head, tail, p, oldp, i, q, arg, popCount, linked, taken>>
  BY DEF New, popLocals, history
<1>f. /\ ~Joined /\ taken < Len(linked)
      /\ pc' \in [Threads -> PushPcs \cup PopPcs]
      /\ \A w \in Pushers : pc'[w] \in PushPcs
      /\ \A v \in Poppers : pc'[v] \in PopPcs /\ pc'[v] = pc[v]
      /\ pc'[u] = "readTail"
      /\ \A w \in Pushers \ {u} : pc'[w] = pc[w]
      /\ Deleters' = Deleters
      /\ Holders' = Holders \cup {u}
      /\ u \notin Holders
      /\ Poppers # {} => Pushers = {u}
  BY <1>1, PushFrame DEF PushPcs, Holding
<1>5. /\ a \notin Segment
      /\ \A w \in Pushers \ {u} : newNode'[w] = newNode[w]
      /\ \A w \in Holders : newNode[w] # a /\ newNode'[w] = newNode[w]
      /\ newNode'[u] = a
      /\ \A v \in Deleters : q[v] # a
      /\ \A b \in Addr \ {a} : next'[b] = next[b]
      /\ next'[a] = Null
  BY <1>2, <1>f DEF IInv, NoLeak, TypeOK, Holders
<1>6. TypeOK'
  BY <1>1, <1>2, <1>3, <1>f DEF IInv, TypeOK, Pointer, Elem
<1>7. Segment' = Segment /\ ChainIsList' /\ SegmentInjective' /\ DummyPresent'
  BY <1>3, <1>5, <1>f, ListFacts, ListFrame
<1>8. NoLeak'
  BY <1>2, <1>3, <1>5, <1>7, <1>f DEF IInv, NoLeak
<1>9. PrivateNodes'
  BY <1>2, <1>3, <1>5, <1>7, <1>f DEF IInv, PrivateNodes
<1>10. ManyPushers'
  BY <1>1, <1>3, <1>5, <1>7, <1>f DEF IInv, ManyPushers
<1>11. OnePusher'
  BY <1>1, <1>3, <1>f DEF IInv, OnePusher
<1>12. PopLocals'
  BY <1>3, <1>5, <1>f, ListFacts DEF IInv, PopLocals
<1> QED
  BY <1>6, <1>7, <1>8, <1>9, <1>10, <1>11, <1>12 DEF IInv

(* The steps of push() that only write its own locals. *)
LEMMA PushLocalIInv ==
  ASSUME IInv, NEW u \in Pushers, ReadTail(u) \/ ReadOldp(u) \/ Scan(u)
  PROVE  IInv'
<1>1. UNCHANGED <<head, tail, next, elem, live, newNode, i, q, arg, popCount,
                  linked, taken>>
  BY DEF ReadTail, ReadOldp, Scan, shared, popLocals, history
<1>2. /\ pc[u] \in {"readTail", "readOldp", "scan"}
      /\ \E l \in {"readOldp", "scan", "link"} : pc' = [pc EXCEPT ![u] = l]
  BY DEF ReadTail, ReadOldp, Scan, Goto, IInv, TypeOK, Threads
<1>l. PICK l \in {"readOldp", "scan", "link"} : pc' = [pc EXCEPT ![u] = l]
  BY <1>2
<1>h. Holders' = Holders \cup {u} /\ u \in Holders
  BY <1>2, <1>l, PushFrame DEF PushPcs, Holding
<1>g. Holders' = Holders
  BY <1>h
<1>f. /\ ~Joined /\ taken < Len(linked)
      /\ pc' \in [Threads -> PushPcs \cup PopPcs]
      /\ \A w \in Pushers : pc'[w] \in PushPcs
      /\ \A v \in Poppers : pc'[v] \in PopPcs /\ pc'[v] = pc[v]
      /\ pc'[u] \in {"readOldp", "scan", "link"}
      /\ \A w \in Pushers \ {u} : pc'[w] = pc[w]
      /\ Deleters' = Deleters
      /\ Holders' = Holders
      /\ Poppers # {} => Pushers = {u}
  BY <1>2, <1>l, <1>g, PushFrame DEF PushPcs
<1>7. \A w \in Pushers \ {u} : p'[w] = p[w] /\ oldp'[w] = oldp[w]
  BY DEF ReadTail, ReadOldp, Scan, IInv, TypeOK
<1>8. Poppers = {} => p'[u] \in Segment
  <2> SUFFICES ASSUME Poppers = {} PROVE p'[u] \in Segment
    OBVIOUS
  <2>1. tail \in Segment /\ (pc[u] \in {"readOldp", "scan"} => p[u] \in Segment)
    BY <1>f DEF IInv, ManyPushers
  <2> QED
    BY <2>1, ListFacts DEF ReadTail, ReadOldp, Scan, IInv, TypeOK, Goto
<1>9. Poppers # {} => /\ p'[u] = linked[Len(linked)]
                      /\ tail = linked[Len(linked)]
                      /\ pc'[u] # "readOldp" => oldp'[u] = tail
  <2> SUFFICES ASSUME Poppers # {}
               PROVE  /\ p'[u] = linked[Len(linked)]
                      /\ tail = linked[Len(linked)]
                      /\ pc'[u] # "readOldp" => oldp'[u] = tail
    OBVIOUS
  <2>1. /\ tail = linked[Len(linked)]
        /\ pc[u] \in {"readOldp", "scan"} => p[u] = linked[Len(linked)]
        /\ pc[u] = "scan" => oldp[u] = tail
    BY <1>2 DEF IInv, OnePusher
  <2>2. next[linked[Len(linked)]] = Null
    BY <1>f DEF IInv, ChainIsList
  <2> QED
    BY <2>1, <2>2, <1>f DEF ReadTail, ReadOldp, Scan, IInv, TypeOK, Goto
<1>10. TypeOK'
  <2>1. p'[u] \in Pointer
    BY <1>8, <1>9, <1>f, ListFacts DEF Pointer
  <2>2. p' \in [Pushers -> Pointer]
    BY <2>1 DEF ReadTail, ReadOldp, Scan, IInv, TypeOK
  <2>3. oldp' \in [Pushers -> Pointer]
    BY DEF ReadTail, ReadOldp, Scan, IInv, TypeOK, Pointer
  <2> QED
    BY <1>1, <1>2, <1>f, <2>2, <2>3 DEF IInv, TypeOK
<1>11. Segment' = Segment /\ ChainIsList' /\ SegmentInjective' /\ DummyPresent'
  BY <1>1, <1>f, ListFrame
<1>12. NoLeak' /\ PrivateNodes'
  BY <1>1, <1>11, <1>f DEF IInv, NoLeak, PrivateNodes
<1>13. ManyPushers'
  BY <1>1, <1>7, <1>8, <1>11, <1>f DEF IInv, ManyPushers
<1>14. OnePusher'
  BY <1>1, <1>7, <1>9, <1>f DEF IInv, OnePusher
<1>15. PopLocals'
  BY <1>1, <1>f DEF IInv, PopLocals
<1> QED
  BY <1>10, <1>11, <1>12, <1>13, <1>14, <1>15 DEF IInv

(* A failing CAS of push() only goes back to the scan.                     *)
LEMMA LinkFailsIInv ==
  ASSUME IInv, NEW u \in Pushers, Link(u), next[p[u]] # Null
  PROVE  IInv'
<1>1. /\ pc[u] = "link" /\ pc' = [pc EXCEPT ![u] = "scan"]
      /\ UNCHANGED <<head, tail, next, elem, live, newNode, p, oldp, i, q, arg,
                     popCount, linked, taken>>
  BY DEF Link, popLocals, pushLocals
<1>f. /\ ~Joined /\ taken < Len(linked)
      /\ pc' \in [Threads -> PushPcs \cup PopPcs]
      /\ \A w \in Pushers : pc'[w] \in PushPcs
      /\ \A v \in Poppers : pc'[v] \in PopPcs /\ pc'[v] = pc[v]
      /\ pc'[u] = "scan"
      /\ \A w \in Pushers \ {u} : pc'[w] = pc[w]
      /\ Deleters' = Deleters
      /\ Holders' = Holders
  <2>1. Holders' = Holders \cup {u} /\ u \in Holders
    BY <1>1, PushFrame DEF PushPcs, Holding
  <2>2. Holders' = Holders
    BY <2>1
  <2> QED
    BY <1>1, <2>2, PushFrame DEF PushPcs
<1>3. TypeOK'
  BY <1>1, <1>f DEF IInv, TypeOK
<1>4. Segment' = Segment /\ ChainIsList' /\ SegmentInjective' /\ DummyPresent'
  BY <1>1, <1>f, ListFrame
<1>5. NoLeak' /\ PrivateNodes'
  BY <1>1, <1>4, <1>f DEF IInv, NoLeak, PrivateNodes
<1>6. ManyPushers' /\ OnePusher'
  BY <1>1, <1>4, <1>f DEF IInv, ManyPushers, OnePusher
<1>7. PopLocals'
  BY <1>1, <1>f DEF IInv, PopLocals
<1> QED
  BY <1>3, <1>4, <1>5, <1>6, <1>7 DEF IInv

(* A CAS that succeeds appends the private node to the list.               *)
LEMMA LinkFacts ==
  ASSUME IInv, NEW u \in Pushers, Link(u), next[p[u]] = Null
  PROVE  /\ pc[u] = "link"
         /\ pc' = [pc EXCEPT ![u] = "swing"]
         /\ p[u] = linked[Len(linked)]
         /\ next' = [next EXCEPT ![p[u]] = newNode[u]]
         /\ linked' = Append(linked, newNode[u])
         /\ Len(linked') = Len(linked) + 1
         /\ \A k \in 1 .. Len(linked) : linked'[k] = linked[k]
         /\ linked'[Len(linked) + 1] = newNode[u]
         /\ newNode[u] \in Addr \ Segment
         /\ next[newNode[u]] = Null
         /\ p[u] \in Segment
         /\ Segment' = Segment \cup {newNode[u]}
         /\ taken < Len(linked)
         /\ UNCHANGED <<head, tail, elem, live, newNode, p, oldp, i, q, arg,
                        popCount, taken>>
<1>1. /\ pc[u] = "link" /\ pc' = [pc EXCEPT ![u] = "swing"]
      /\ next' = [next EXCEPT ![p[u]] = newNode[u]]
      /\ linked' = Append(linked, newNode[u])
      /\ UNCHANGED <<head, tail, elem, live, newNode, p, oldp, i, q, arg,
                     popCount, taken>>
  BY DEF Link, pushLocals, popLocals
<1>2. ~Joined /\ taken < Len(linked)
  BY <1>1 DEF IInv, DummyPresent, Joined, Threads
<1>3. u \in Holders
  BY <1>1 DEF Holders
<1>4. newNode[u] \in Addr \ Segment /\ next[newNode[u]] = Null
  BY <1>3 DEF IInv, PrivateNodes
<1>5. p[u] \in Segment
  <2>1. CASE Poppers = {}
    BY <2>1, <1>1 DEF IInv, ManyPushers
  <2>2. CASE Poppers # {}
    BY <2>2, <1>1, <1>2, ListFacts DEF IInv, OnePusher
  <2> QED
    BY <2>1, <2>2
<1>6. p[u] = linked[Len(linked)]
  BY <1>5, ListFacts
<1>7. /\ Len(linked') = Len(linked) + 1
      /\ \A k \in 1 .. Len(linked) : linked'[k] = linked[k]
      /\ linked'[Len(linked) + 1] = newNode[u]
  BY <1>1, <1>4 DEF IInv, TypeOK
<1>8. Segment' = Segment \cup {newNode[u]}
  <2>1. taken' = taken /\ taken \in Nat /\ Len(linked) \in Nat
    BY <1>1 DEF IInv, TypeOK
  <2>2. /\ taken + 1 .. Len(linked) + 1 = (taken + 1 .. Len(linked)) \cup {Len(linked) + 1}
        /\ taken + 1 .. Len(linked) \in SUBSET (1 .. Len(linked))
    BY <1>2, <2>1
  <2>3. Segment' = {linked'[k] : k \in (taken + 1 .. Len(linked)) \cup {Len(linked) + 1}}
    BY <1>7, <2>1, <2>2 DEF Segment
  <2>4. \A k \in taken + 1 .. Len(linked) : linked'[k] = linked[k]
    BY <1>7, <2>2
  <2> QED
    BY <1>7, <2>3, <2>4 DEF Segment
<1> QED
  BY <1>1, <1>2, <1>4, <1>5, <1>6, <1>7, <1>8

LEMMA LinkSucceedsIInv ==
  ASSUME IInv, NEW u \in Pushers, Link(u), next[p[u]] = Null
  PROVE  IInv'
<1>1. /\ pc[u] = "link" /\ pc' = [pc EXCEPT ![u] = "swing"]
      /\ UNCHANGED <<head, tail, elem, live, newNode, p, oldp, i, q, arg,
                     popCount, taken>>
  BY LinkFacts
<1>2. /\ p[u] = linked[Len(linked)]
      /\ next' = [next EXCEPT ![p[u]] = newNode[u]]
      /\ Len(linked') = Len(linked) + 1
      /\ \A k \in 1 .. Len(linked) : linked'[k] = linked[k]
      /\ linked'[Len(linked) + 1] = newNode[u]
      /\ newNode[u] \in Addr \ Segment
      /\ next[newNode[u]] = Null
      /\ p[u] \in Segment
      /\ Segment' = Segment \cup {newNode[u]}
      /\ taken < Len(linked)
  BY LinkFacts
<1>t. Len(linked) \in Nat /\ taken \in Nat /\ Segment \in SUBSET Addr
  BY ListFacts DEF IInv, TypeOK
<1>f. /\ pc' \in [Threads -> PushPcs \cup PopPcs]
      /\ \A w \in Pushers : pc'[w] \in PushPcs
      /\ \A v \in Poppers : pc'[v] \in PopPcs /\ pc'[v] = pc[v]
      /\ pc'[u] = "swing"
      /\ \A w \in Pushers \ {u} : pc'[w] = pc[w]
      /\ Deleters' = Deleters
      /\ Holders' = Holders \ {u}
      /\ u \in Holders
      /\ Poppers # {} => Pushers = {u}
      /\ ~Joined
  BY <1>1, PushFrame DEF PushPcs, Holding
<1>n. /\ next'[p[u]] = newNode[u]
      /\ \A b \in Addr \ {p[u]} : next'[b] = next[b]
  BY <1>2, <1>t DEF IInv, TypeOK
<1>6. TypeOK'
  <2>1. linked' = Append(linked, newNode[u])
    BY LinkFacts
  <2>2. linked' \in Seq(Addr)
    BY <1>2, <2>1 DEF IInv, TypeOK
  <2>3. next' \in [Addr -> Pointer]
    BY <1>2 DEF IInv, TypeOK, Pointer
  <2>4. taken' \in 0 .. Len(linked')
    BY <1>1, <1>2, <1>t
  <2> QED
    BY <1>1, <1>f, <2>2, <2>3, <2>4 DEF IInv, TypeOK
<1>7. ChainIsList'
  <2>1. head' = linked'[taken' + 1]
    BY <1>1, <1>2, <1>t DEF IInv, ChainIsList
  <2>2. next'[linked'[Len(linked')]] = Null
    BY <1>2, <1>n
  <2>3. ASSUME NEW k \in taken' + 1 .. Len(linked') - 1
        PROVE  next'[linked'[k]] = linked'[k + 1]
    <3>1. CASE k = Len(linked)
      BY <3>1, <1>2, <1>n, <1>t
    <3>2. CASE k < Len(linked)
      <4>1. k \in taken + 1 .. Len(linked) /\ k + 1 \in taken + 1 .. Len(linked)
        BY <3>2, <2>3, <1>1, <1>2, <1>t
      <4>2. linked[k] # p[u]
        BY <4>1, <3>2, <1>2, <1>t DEF IInv, SegmentInjective
      <4>3. linked'[k] = linked[k] /\ linked'[k + 1] = linked[k + 1]
        BY <4>1, <1>2, <1>t
      <4>4. next[linked[k]] = linked[k + 1]
        BY <4>1, <3>2, <1>t DEF IInv, ChainIsList
      <4>5. linked[k] \in Addr
        BY <4>1, <1>t, ListFacts
      <4> QED
        BY <4>2, <4>3, <4>4, <4>5, <1>n
    <3> QED
      BY <3>1, <3>2, <1>1, <1>2, <1>t
  <2> QED
    BY <2>1, <2>2, <2>3, <1>1, <1>2, <1>t DEF ChainIsList
<1>8. SegmentInjective'
  <2> SUFFICES ASSUME NEW j \in taken + 1 .. Len(linked) + 1,
                      NEW k \in taken + 1 .. Len(linked) + 1,
                      linked'[j] = linked'[k]
               PROVE  j = k
    BY <1>1, <1>2 DEF SegmentInjective
  <2>1. \A m \in taken + 1 .. Len(linked) : linked'[m] = linked[m] /\ linked[m] # newNode[u]
    BY <1>2, <1>t, ListFacts
  <2> QED
    BY <2>1, <1>2, <1>t DEF IInv, SegmentInjective
<1>9. DummyPresent'
  BY <1>1, <1>2, <1>t DEF DummyPresent
<1>10. NoLeak'
  <2>1. {newNode[w] : w \in Holders} = {newNode[w] : w \in Holders \ {u}} \cup {newNode[u]}
    BY <1>f
  <2> QED
    BY <2>1, <1>1, <1>2, <1>f DEF IInv, NoLeak
<1>11. PrivateNodes'
  <2>1. \A w \in Holders \ {u} : newNode[w] # newNode[u] /\ newNode[w] # p[u]
    BY <1>2, <1>f DEF IInv, PrivateNodes
  <2>2. \A v \in Deleters : q[v] # newNode[u]
    BY <1>f DEF IInv, PrivateNodes
  <2> QED
    BY <2>1, <2>2, <1>1, <1>2, <1>f, <1>n DEF IInv, PrivateNodes
<1>12. ManyPushers'
  BY <1>1, <1>2, <1>f DEF IInv, ManyPushers
<1>13. OnePusher'
  BY <1>1, <1>2, <1>f DEF IInv, OnePusher
<1>14. PopLocals'
  <2> SUFFICES ASSUME NEW v \in Poppers
               PROVE  /\ pc'[v] \in {"test", "readArg", "unlink"} => q'[v] = head'
                      /\ pc'[v] \in {"readArg", "unlink"} => next'[q'[v]] # Null
                      /\ pc'[v] = "unlink" => arg'[v] = next'[q'[v]]
    BY DEF PopLocals
  <2>1. pc[v] \in {"readArg", "unlink"} => /\ q[v] \in Addr \ {p[u]}
                                           /\ next[q[v]] # Null
    BY <1>2, <1>t, ListFacts DEF IInv, PopLocals, ChainIsList
  <2> QED
    BY <2>1, <1>1, <1>f, <1>n DEF IInv, PopLocals
<1> QED
  BY <1>6, <1>7, <1>8, <1>9, <1>10, <1>11, <1>12, <1>13, <1>14 DEF IInv

(* The CAS on _tail and the loop of queue_push.                            *)
LEMMA SwingIInv ==
  ASSUME IInv, NEW u \in Pushers, Swing(u)
  PROVE  IInv'
<1>1. /\ pc[u] = "swing"
      /\ tail' = IF tail = oldp[u] THEN newNode[u] ELSE tail
      /\ i' = [i EXCEPT ![u] = @ + 1]
      /\ UNCHANGED <<head, next, elem, live, newNode, p, oldp, q, arg, popCount,
                     linked, taken>>
  BY DEF Swing, Goto, popLocals, history
<1>2. PICK l \in {"new", "done"} :
        /\ pc' = [pc EXCEPT ![u] = l]
        /\ l = "new" => i[u] + 1 < FOR_LOOP_NUM
  BY DEF Swing, Goto
<1>f. /\ ~Joined /\ taken < Len(linked)
      /\ pc' \in [Threads -> PushPcs \cup PopPcs]
      /\ \A w \in Pushers : pc'[w] \in PushPcs
      /\ \A v \in Poppers : pc'[v] \in PopPcs /\ pc'[v] = pc[v]
      /\ pc'[u] = l
      /\ \A w \in Pushers \ {u} : pc'[w] = pc[w]
      /\ Deleters' = Deleters
      /\ Holders' = Holders
      /\ Poppers # {} => Pushers = {u}
  <2>1. Holders' = Holders \ {u} /\ u \notin Holders
    BY <1>1, <1>2, PushFrame DEF PushPcs, Holding
  <2>2. Holders' = Holders
    BY <2>1
  <2> QED
    BY <1>1, <1>2, <2>2, PushFrame DEF PushPcs
<1>4. newNode[u] \in Segment
  <2>1. CASE Poppers = {}
    BY <2>1, <1>1 DEF IInv, ManyPushers
  <2>2. CASE Poppers # {}
    BY <2>2, <1>1, <1>f, ListFacts DEF IInv, OnePusher
  <2> QED
    BY <2>1, <2>2
<1>5. TypeOK'
  <2>1. tail' \in Addr
    BY <1>1, <1>4, ListFacts DEF IInv, TypeOK
  <2>2. /\ i' \in [Pushers -> 0 .. FOR_LOOP_NUM]
        /\ \A w \in Pushers : pc'[w] # "done" => i'[w] < FOR_LOOP_NUM
    BY <1>1, <1>2, <1>f DEF IInv, TypeOK
  <2> QED
    BY <1>1, <1>f, <2>1, <2>2 DEF IInv, TypeOK
<1>6. Segment' = Segment /\ ChainIsList' /\ SegmentInjective' /\ DummyPresent'
  BY <1>1, <1>f, ListFrame
<1>7. NoLeak' /\ PrivateNodes'
  BY <1>1, <1>6, <1>f DEF IInv, NoLeak, PrivateNodes
<1>8. ManyPushers'
  BY <1>1, <1>2, <1>4, <1>6, <1>f DEF IInv, ManyPushers
<1>9. OnePusher'
  BY <1>1, <1>2, <1>f DEF IInv, OnePusher
<1>10. PopLocals'
  BY <1>1, <1>f DEF IInv, PopLocals
<1> QED
  BY <1>5, <1>6, <1>7, <1>8, <1>9, <1>10 DEF IInv

----------------------------------------------------------------------------
(* pop() and the destructor preserve the invariant. *)

(* The steps of pop() that write neither the list nor the heap.            *)
LEMMA PopLocalIInv ==
  ASSUME IInv, NEW v \in Poppers, ReadHead(v) \/ Test(v) \/ ReadArg(v) \/ Count(v)
  PROVE  IInv'
<1>1. UNCHANGED <<head, tail, next, elem, live, newNode, p, oldp, i, linked, taken>>
  BY DEF ReadHead, Test, ReadArg, Count, shared, pushLocals, history
<1>2. PICK l \in {"test", "count", "readArg", "unlink", "readHead", "done"} :
        pc' = [pc EXCEPT ![v] = l]
  BY DEF ReadHead, Test, ReadArg, Count, Goto
<1>3. pc[v] \in {"readHead", "test", "readArg", "count"}
  BY DEF ReadHead, Test, ReadArg, Count, Goto
<1>d. Deleters' = {} /\ Deleters = {}
  BY <1>2, <1>3, PopFrame DEF PopPcs
<1>f. /\ ~Joined /\ taken < Len(linked)
      /\ pc' \in [Threads -> PushPcs \cup PopPcs]
      /\ \A u \in Pushers : pc'[u] \in PushPcs /\ pc'[u] = pc[u]
      /\ \A w \in Poppers : pc'[w] \in PopPcs
      /\ pc'[v] = l
      /\ Holders' = Holders
      /\ Poppers = {v}
  BY <1>2, <1>3, PopFrame DEF PopPcs
<1>h. head \in Addr
  BY <1>f, ListFacts
<1>7. /\ pc'[v] \in {"test", "readArg", "unlink"} => q'[v] = head
      /\ pc'[v] \in {"readArg", "unlink"} => next[q'[v]] # Null
      /\ pc'[v] = "unlink" => arg'[v] = next[q'[v]]
  <2>1. CASE ReadHead(v)
    BY <2>1, <1>f DEF ReadHead, Goto, IInv, TypeOK
  <2>2. CASE Test(v)
    BY <2>2, <1>f DEF Test, Goto, IInv, TypeOK, Threads, PopLocals, popLocals
  <2>3. CASE ReadArg(v)
    BY <2>3, <1>f DEF ReadArg, Goto, IInv, TypeOK, Threads, PopLocals
  <2>4. CASE Count(v)
    BY <2>4, <1>f DEF Count, Goto, IInv, TypeOK, Threads
  <2> QED
    BY <2>1, <2>2, <2>3, <2>4
<1>8. TypeOK'
  <2>1. q' \in [Poppers -> Pointer] /\ popCount' \in Nat
    BY DEF ReadHead, Test, ReadArg, Count, popLocals, IInv, TypeOK
  <2>2. arg' \in [Poppers -> Pointer]
    <3>1. CASE ReadArg(v)
      <4>1. q[v] = head
        BY <3>1 DEF ReadArg, Goto, IInv, PopLocals
      <4>2. next[q[v]] \in Pointer
        BY <4>1, <1>h DEF IInv, TypeOK
      <4> QED
        BY <3>1, <4>2 DEF ReadArg, IInv, TypeOK
    <3>2. CASE ~ReadArg(v)
      BY <3>2 DEF ReadHead, Test, Count, popLocals, IInv, TypeOK
    <3> QED
      BY <3>1, <3>2
  <2> QED
    BY <1>1, <1>f, <2>1, <2>2 DEF IInv, TypeOK
<1>9. Segment' = Segment /\ ChainIsList' /\ SegmentInjective' /\ DummyPresent'
  BY <1>1, <1>f, ListFrame
<1>10. NoLeak' /\ PrivateNodes'
  BY <1>1, <1>9, <1>d, <1>f DEF IInv, NoLeak, PrivateNodes
<1>11. ManyPushers' /\ OnePusher'
  BY <1>1, <1>f DEF IInv, ManyPushers, OnePusher
<1>12. PopLocals'
  BY <1>1, <1>7, <1>f DEF PopLocals
<1> QED
  BY <1>8, <1>9, <1>10, <1>11, <1>12 DEF IInv

(* Taking the first node off the list, by pop() or by the destructor.      *)
LEMMA ShiftFacts ==
  ASSUME IInv, taken < Len(linked), taken' = taken + 1, head' = next[head],
         UNCHANGED <<next, linked>>
  PROVE  /\ head \in Segment
         /\ Segment' = Segment \ {head}
         /\ ChainIsList'
         /\ SegmentInjective'
         /\ head' \in Pointer
         /\ taken' \in 0 .. Len(linked')
<1>1. /\ Len(linked) \in Nat /\ taken \in Nat /\ taken + 1 \in Nat
      /\ head = linked[taken + 1] /\ head \in Segment /\ head \in Addr
  BY ListFacts DEF IInv, TypeOK, ChainIsList
<1>2. \A k \in taken + 2 .. Len(linked) : linked[k] # head
  BY <1>1 DEF IInv, SegmentInjective
<1>3. Segment' = Segment \ {head}
  <2>1. Segment' = {linked[k] : k \in taken + 2 .. Len(linked)}
    BY <1>1 DEF Segment
  <2>2. taken + 1 .. Len(linked) = (taken + 2 .. Len(linked)) \cup {taken + 1}
    BY <1>1
  <2>3. Segment = {linked[k] : k \in (taken + 2 .. Len(linked)) \cup {taken + 1}}
    BY <2>2 DEF Segment
  <2> QED
    BY <2>1, <2>3, <1>1, <1>2
<1>4. ChainIsList'
  <2>1. CASE taken + 1 = Len(linked)
    <3>1. head' = Null
      BY <2>1, <1>1 DEF IInv, ChainIsList
    <3> QED
      BY <2>1, <3>1, <1>1 DEF ChainIsList
  <2>2. CASE taken + 1 < Len(linked)
    <3>1. head' = linked[taken + 2] /\ next[linked[Len(linked)]] = Null
      BY <2>2, <1>1 DEF IInv, ChainIsList
    <3>2. \A k \in taken + 2 .. Len(linked) - 1 : next[linked[k]] = linked[k + 1]
      BY <1>1 DEF IInv, ChainIsList
    <3> QED
      BY <2>2, <3>1, <3>2, <1>1 DEF ChainIsList
  <2> QED
    BY <2>1, <2>2, <1>1
<1>5. SegmentInjective'
  BY <1>1 DEF IInv, SegmentInjective
<1>6. head' \in Pointer /\ taken' \in 0 .. Len(linked')
  BY <1>1 DEF IInv, TypeOK
<1> QED
  BY <1>1, <1>3, <1>4, <1>5, <1>6

(* The CAS on _head never fails: nobody else writes _head.                 *)
LEMMA UnlinkIInv ==
  ASSUME IInv, NEW v \in Poppers, Unlink(v)
  PROVE  IInv'
<1>1. pc[v] = "unlink" /\ q[v] = head /\ arg[v] = next[head] /\ next[head] # Null
  BY DEF Unlink, IInv, PopLocals
<1>2. /\ head' = next[head] /\ taken' = taken + 1
      /\ pc' = [pc EXCEPT ![v] = "delete"]
      /\ UNCHANGED <<tail, next, elem, live, newNode, p, oldp, i, q, arg, popCount,
                     linked>>
  BY <1>1 DEF Unlink, pushLocals, popLocals
<1>f. /\ ~Joined /\ taken < Len(linked)
      /\ pc' \in [Threads -> PushPcs \cup PopPcs]
      /\ \A u \in Pushers : pc'[u] \in PushPcs /\ pc'[u] = pc[u]
      /\ \A w \in Poppers : pc'[w] \in PopPcs
      /\ pc'[v] = "delete"
      /\ Holders' = Holders
      /\ Poppers = {v}
      /\ Deleters' = {v} /\ Deleters = {}
  BY <1>1, <1>2, PopFrame DEF PopPcs
<1>4. /\ head \in Segment
      /\ Segment' = Segment \ {head}
      /\ ChainIsList' /\ SegmentInjective'
      /\ head' \in Pointer /\ taken' \in 0 .. Len(linked')
  BY <1>2, <1>f, ShiftFacts
<1>5. TypeOK'
  BY <1>2, <1>4, <1>f DEF IInv, TypeOK
<1>6. DummyPresent'
  <2>1. head # linked[Len(linked)]
    BY <1>1, <1>f DEF IInv, ChainIsList
  <2>2. taken + 1 # Len(linked)
    BY <2>1, <1>f DEF IInv, ChainIsList
  <2> QED
    BY <2>2, <1>2, <1>f DEF IInv, TypeOK, DummyPresent
<1>7. NoLeak'
  <2>1. live = Segment \cup {newNode[u] : u \in Holders}
    BY <1>f DEF IInv, NoLeak
  <2>2. {q'[w] : w \in Deleters'} = {head}
    BY <1>1, <1>2, <1>f
  <2> QED
    BY <2>1, <2>2, <1>2, <1>4, <1>f DEF NoLeak
<1>8. PrivateNodes'
  BY <1>1, <1>2, <1>4, <1>f, ListFacts DEF IInv, PrivateNodes
<1>9. ManyPushers' /\ OnePusher'
  BY <1>2, <1>f DEF IInv, ManyPushers, OnePusher
<1>10. PopLocals'
  BY <1>f DEF PopLocals
<1> QED
  BY <1>4, <1>5, <1>6, <1>7, <1>8, <1>9, <1>10 DEF IInv

LEMMA DeleteIInv ==
  ASSUME IInv, NEW v \in Poppers, Delete(v)
  PROVE  IInv'
<1>1. /\ pc[v] = "delete" /\ pc' = [pc EXCEPT ![v] = "count"]
      /\ live' = live \ {q[v]}
      /\ UNCHANGED <<head, tail, next, elem, newNode, p, oldp, i, q, arg, popCount,
                     linked, taken>>
  BY DEF Delete, Goto, pushLocals, popLocals, history
<1>f. /\ ~Joined /\ taken < Len(linked)
      /\ pc' \in [Threads -> PushPcs \cup PopPcs]
      /\ \A u \in Pushers : pc'[u] \in PushPcs /\ pc'[u] = pc[u]
      /\ \A w \in Poppers : pc'[w] \in PopPcs
      /\ pc'[v] = "count"
      /\ Holders' = Holders
      /\ Poppers = {v}
      /\ Deleters' = {} /\ Deleters = {v}
  BY <1>1, PopFrame DEF PopPcs
<1>3. TypeOK'
  BY <1>1, <1>f DEF IInv, TypeOK
<1>4. Segment' = Segment /\ ChainIsList' /\ SegmentInjective' /\ DummyPresent'
  BY <1>1, <1>f, ListFrame
<1>5. NoLeak'
  <2>1. live = Segment \cup {newNode[u] : u \in Holders} \cup {q[v]}
    BY <1>f DEF IInv, NoLeak
  <2>2. q[v] \notin Segment /\ \A u \in Holders : newNode[u] # q[v]
    BY <1>f DEF IInv, PrivateNodes
  <2> QED
    BY <2>1, <2>2, <1>1, <1>4, <1>f DEF NoLeak
<1>6. PrivateNodes'
  BY <1>1, <1>4, <1>f DEF IInv, PrivateNodes
<1>7. ManyPushers' /\ OnePusher' /\ PopLocals'
  BY <1>1, <1>f DEF IInv, ManyPushers, OnePusher, PopLocals
<1> QED
  BY <1>3, <1>4, <1>5, <1>6, <1>7 DEF IInv

LEMMA DestroyIInv ==
  ASSUME IInv, Destroy
  PROVE  IInv'
<1>1. /\ Joined /\ head # Null
      /\ head' = next[head] /\ live' = live \ {head} /\ taken' = taken + 1
      /\ UNCHANGED <<tail, next, elem, pc, newNode, p, oldp, i, q, arg, popCount,
                     linked>>
  BY DEF Destroy, pushLocals, popLocals
<1>2. taken < Len(linked)
  BY <1>1 DEF IInv, TypeOK, ChainIsList
<1>3. /\ head \in Segment
      /\ Segment' = Segment \ {head}
      /\ ChainIsList' /\ SegmentInjective'
      /\ head' \in Pointer /\ taken' \in 0 .. Len(linked')
  BY <1>1, <1>2, ShiftFacts
<1>4. /\ \A u \in Pushers : pc[u] = "done" /\ pc'[u] = "done"
      /\ \A v \in Poppers : pc[v] = "done" /\ pc'[v] = "done"
      /\ Joined'
  BY <1>1 DEF Joined, Threads
<1>5. Holders = {} /\ Holders' = {} /\ Deleters = {} /\ Deleters' = {}
  BY <1>4 DEF Holders, Deleters
<1>6. TypeOK'
  BY <1>1, <1>3 DEF IInv, TypeOK
<1>7. DummyPresent'
  BY <1>1, <1>4 DEF IInv, DummyPresent
<1>8. NoLeak' /\ PrivateNodes'
  BY <1>1, <1>3, <1>5 DEF IInv, NoLeak, PrivateNodes
<1>9. ManyPushers' /\ OnePusher' /\ PopLocals'
  BY <1>4 DEF ManyPushers, OnePusher, PopLocals
<1> QED
  BY <1>3, <1>6, <1>7, <1>8, <1>9 DEF IInv

----------------------------------------------------------------------------
(* The invariant is inductive. *)
LEMMA NextIInv == IInv /\ [Next]_vars => IInv'
<1> SUFFICES ASSUME IInv, [Next]_vars PROVE IInv'
  OBVIOUS
<1>1. ASSUME NEW u \in Pushers, Push(u) PROVE IInv'
  <2>1. CASE New(u)
    BY <2>1, NewIInv
  <2>2. CASE ReadTail(u) \/ ReadOldp(u) \/ Scan(u)
    BY <2>2, PushLocalIInv
  <2>3. CASE Link(u)
    BY <2>3, LinkFailsIInv, LinkSucceedsIInv
  <2>4. CASE Swing(u)
    BY <2>4, SwingIInv
  <2> QED
    BY <1>1, <2>1, <2>2, <2>3, <2>4 DEF Push
<1>2. ASSUME NEW v \in Poppers, Pop(v) PROVE IInv'
  <2>1. CASE ReadHead(v) \/ Test(v) \/ ReadArg(v) \/ Count(v)
    BY <2>1, PopLocalIInv
  <2>2. CASE Unlink(v)
    BY <2>2, UnlinkIInv
  <2>3. CASE Delete(v)
    BY <2>3, DeleteIInv
  <2> QED
    BY <1>2, <2>1, <2>2, <2>3 DEF Pop
<1>3. CASE Destroy
  BY <1>3, DestroyIInv
<1>4. CASE UNCHANGED vars
  <2>1. UNCHANGED <<head, tail, next, elem, live, pc, newNode, p, oldp, i, q, arg,
                    popCount, linked, taken>>
    BY <1>4 DEF vars, shared, pushLocals, popLocals, history
  <2>2. UNCHANGED <<Segment, Holders, Deleters, Joined>>
    BY <2>1 DEF Segment, Holders, Deleters, Joined
  <2>3. TypeOK'
    BY <2>1 DEF IInv, TypeOK
  <2>4. ChainIsList' /\ SegmentInjective' /\ DummyPresent'
    BY <2>1, <2>2 DEF IInv, ChainIsList, SegmentInjective, DummyPresent
  <2>5. NoLeak' /\ PrivateNodes'
    BY <2>1, <2>2 DEF IInv, NoLeak, PrivateNodes
  <2>6. ManyPushers' /\ OnePusher' /\ PopLocals'
    BY <2>1, <2>2 DEF IInv, ManyPushers, OnePusher, PopLocals
  <2> QED
    BY <2>3, <2>4, <2>5, <2>6 DEF IInv
<1> QED
  BY <1>1, <1>2, <1>3, <1>4 DEF Next, Exit

THEOREM Invariant == Spec => []IInv
  BY InitIInv, NextIInv, PTL DEF Spec

(* Every variable keeps its type.                                          *)
THEOREM TypeCorrect == Spec => []TypeOK
<1>1. IInv => TypeOK
  BY DEF IInv
<1> QED
  BY <1>1, Invariant, PTL

(* No thread ever touches a deleted node (queue_cas.h:55-57, 67-70), and   *)
(* no node is deleted twice.                                               *)
THEOREM MemorySafe == Spec => []NoUseAfterFree
<1>1. IInv => NoUseAfterFree
  <2> SUFFICES ASSUME IInv PROVE NoUseAfterFree
    OBVIOUS
  <2>1. ASSUME NEW u \in Pushers, pc[u] \in {"scan", "link"} PROVE p[u] \in live
    <3>1. ~Joined /\ taken < Len(linked)
      BY <2>1 DEF IInv, DummyPresent, Joined, Threads
    <3>2. p[u] \in Segment
      <4>1. CASE Poppers = {}
        BY <4>1, <2>1 DEF IInv, ManyPushers
      <4>2. CASE Poppers # {}
        BY <4>2, <2>1, <3>1, ListFacts DEF IInv, OnePusher
      <4> QED
        BY <4>1, <4>2
    <3> QED
      BY <3>2, ListFacts
  <2>2. ASSUME NEW v \in Poppers, pc[v] \in {"test", "readArg"} PROVE q[v] \in live
    <3>1. ~Joined /\ taken < Len(linked)
      BY <2>2 DEF IInv, DummyPresent, Joined, Threads
    <3> QED
      BY <2>2, <3>1, ListFacts DEF IInv, PopLocals
  <2>3. ASSUME NEW v \in Poppers, pc[v] = "delete" PROVE q[v] \in live
    BY <2>3 DEF IInv, NoLeak, Deleters
  <2>4. head # Null => head \in live
    <3>1. taken < Len(linked) \/ head = Null
      BY DEF IInv, TypeOK, ChainIsList
    <3> QED
      BY <3>1, ListFacts
  <2> QED
    BY <2>1, <2>2, <2>3, <2>4 DEF NoUseAfterFree
<1> QED
  BY <1>1, Invariant, PTL

(* No node is cut off the list, whatever the interleaving of the CASes     *)
(* (queue_cas.h:57, 58, 69).                                               *)
THEOREM NothingLost == Spec => []ChainIsList
<1>1. IInv => ChainIsList
  BY DEF IInv
<1> QED
  BY <1>1, Invariant, PTL

(* No node is leaked: one that is allocated is in the list or belongs to   *)
(* one thread that will link or delete it (queue_cas.h:48, 70).            *)
THEOREM NothingLeaked == Spec => []NoLeak
<1>1. IInv => NoLeak
  BY DEF IInv
<1> QED
  BY <1>1, Invariant, PTL

----------------------------------------------------------------------------
(* _tail never moves back. *)

\* Without poppers no address comes back, so a node has one position in the
\* history; oldp is the node of an earlier position than the one push() has
\* linked.
TailInv ==
  Poppers = {} =>
    /\ \A j, k \in 1 .. Len(linked) : linked[j] = linked[k] => j = k
    /\ \A u \in Pushers :
         /\ pc[u] \in {"scan", "link"} => \E j \in 1 .. Len(linked) : oldp[u] = linked[j]
         /\ pc[u] = "swing" =>
              \E j, k \in 1 .. Len(linked) : j < k /\ oldp[u] = linked[j] /\ newNode[u] = linked[k]

(* A successful CAS on p->_next puts the new node behind all others.       *)
LEMMA LinkTailInv ==
  ASSUME IInv, IInv', TailInv, NEW u \in Pushers, Link(u), next[p[u]] = Null
  PROVE  TailInv'
<1> SUFFICES ASSUME Poppers = {} PROVE TailInv'
  BY DEF TailInv
<1>1. /\ Len(linked') = Len(linked) + 1 /\ Len(linked) \in Nat
      /\ \A k \in 1 .. Len(linked) : linked'[k] = linked[k]
      /\ linked'[Len(linked) + 1] = newNode[u]
      /\ pc[u] = "link" /\ pc' = [pc EXCEPT ![u] = "swing"]
      /\ UNCHANGED <<oldp, newNode, taken>>
      /\ pc \in [Threads -> PushPcs \cup PopPcs] /\ u \in Threads
  BY LinkFacts DEF IInv, TypeOK, Threads
<1>2. taken = 0
  BY <1>1 DEF IInv, ManyPushers, Joined
<1>3. \A j, k \in 1 .. Len(linked') : linked'[j] = linked'[k] => j = k
  BY <1>1, <1>2 DEF IInv, SegmentInjective
<1>4. ASSUME NEW w \in Pushers, pc'[w] \in {"scan", "link"}
      PROVE  \E j \in 1 .. Len(linked') : oldp'[w] = linked'[j]
  <2>1. w # u /\ pc[w] \in {"scan", "link"}
    BY <1>1, <1>4 DEF Threads
  <2>2. PICK j \in 1 .. Len(linked) : oldp[w] = linked[j]
    BY <2>1 DEF TailInv
  <2> QED
    BY <2>2, <1>1
<1>5. ASSUME NEW w \in Pushers, pc'[w] = "swing"
      PROVE  \E j, k \in 1 .. Len(linked') : j < k /\ oldp'[w] = linked'[j] /\ newNode'[w] = linked'[k]
  <2>1. CASE w = u
    <3>1. PICK j \in 1 .. Len(linked) : oldp[u] = linked[j]
      BY <1>1 DEF TailInv
    <3>2. j \in 1 .. Len(linked') /\ Len(linked) + 1 \in 1 .. Len(linked') /\ j < Len(linked) + 1
      BY <1>1
    <3> QED
      BY <3>1, <3>2, <2>1, <1>1
  <2>2. CASE w # u
    <3>1. PICK j, k \in 1 .. Len(linked) : j < k /\ oldp[w] = linked[j] /\ newNode[w] = linked[k]
      BY <1>1, <1>5, <2>2 DEF TailInv, Threads
    <3>2. j \in 1 .. Len(linked') /\ k \in 1 .. Len(linked')
      BY <1>1
    <3> QED
      BY <3>1, <3>2, <1>1
  <2> QED
    BY <2>1, <2>2
<1> QED
  BY <1>3, <1>4, <1>5 DEF TailInv

(* Any other step leaves the history alone.                                *)
LEMMA NextTailInv == IInv /\ IInv' /\ TailInv /\ [Next]_vars => TailInv'
<1> SUFFICES ASSUME IInv, IInv', TailInv, [Next]_vars, Poppers = {} PROVE TailInv'
  BY DEF TailInv
<1>1. pc \in [Threads -> PushPcs \cup PopPcs] /\ Pushers \subseteq Threads
  BY DEF IInv, TypeOK, Threads
<1>2. ASSUME NEW u \in Pushers, New(u) PROVE TailInv'
  <2>1. /\ pc[u] = "new" /\ pc' = [pc EXCEPT ![u] = "readTail"] /\ UNCHANGED <<linked, oldp>>
        /\ \E a \in Addr : newNode' = [newNode EXCEPT ![u] = a]
    BY <1>2 DEF New, Goto, history
  <2>2. newNode \in [Pushers -> Pointer]
    BY DEF IInv, TypeOK
  <2>3. \A w \in Pushers \ {u} : pc'[w] = pc[w] /\ newNode'[w] = newNode[w] 
    BY <2>1, <2>2, <1>1
  <2>4. pc'[u] = "readTail"
    BY <2>1, <1>1
  <2> QED
    BY <2>1, <2>3, <2>4 DEF TailInv
<1>3. ASSUME NEW u \in Pushers, ReadTail(u) \/ Swing(u) PROVE TailInv'
  <2>1. PICK l \in {"readOldp", "new", "done"} : pc' = [pc EXCEPT ![u] = l]
    BY <1>3 DEF ReadTail, Swing, Goto
  <2>2. UNCHANGED <<linked, oldp, newNode>>
    BY <1>3 DEF ReadTail, Swing, shared, history
  <2>3. pc'[u] = l /\ \A w \in Pushers \ {u} : pc'[w] = pc[w]
    BY <2>1, <1>1
  <2> QED
    BY <2>2, <2>3 DEF TailInv
<1>4. ASSUME NEW u \in Pushers, ReadOldp(u) PROVE TailInv'
  <2>1. /\ pc[u] = "readOldp" /\ pc' = [pc EXCEPT ![u] = "scan"]
        /\ oldp' = [oldp EXCEPT ![u] = tail] /\ UNCHANGED <<linked, newNode>>
    BY <1>4 DEF ReadOldp, Goto, history
  <2>2. tail \in Segment
    BY <2>1, <1>1 DEF IInv, ManyPushers, Joined
  <2>3. \E j \in 1 .. Len(linked) : tail = linked[j]
    BY <2>2 DEF IInv, TypeOK, Segment
  <2>4. /\ pc'[u] = "scan" /\ oldp'[u] = tail
        /\ \A w \in Pushers \ {u} : pc'[w] = pc[w] /\ oldp'[w] = oldp[w]
    BY <2>1, <1>1 DEF IInv, TypeOK
  <2> QED
    BY <2>1, <2>3, <2>4 DEF TailInv
<1>5. ASSUME NEW u \in Pushers, Scan(u) \/ (Link(u) /\ next[p[u]] # Null) PROVE TailInv'
  <2>1. UNCHANGED <<linked, oldp, newNode>>
    BY <1>5 DEF Scan, Link, pushLocals, history
  <2>2. /\ pc[u] \in {"scan", "link"} /\ pc'[u] \in {"scan", "link"}
        /\ \A w \in Pushers \ {u} : pc'[w] = pc[w]
    BY <1>5, <1>1 DEF Scan, Link
  <2> QED
    BY <2>1, <2>2 DEF TailInv
<1>6. ASSUME NEW u \in Pushers, Link(u), next[p[u]] = Null PROVE TailInv'
  BY <1>6, LinkTailInv
<1>7. CASE Destroy \/ UNCHANGED vars
  <2>1. UNCHANGED <<pc, linked, oldp, newNode>>
    BY <1>7 DEF Destroy, vars, pushLocals, history
  <2> QED
    BY <2>1 DEF TailInv
<1> QED
  BY <1>2, <1>3, <1>4, <1>5, <1>6, <1>7 DEF Next, Push, Exit

(* The second CAS of push() (queue_cas.h:58) never moves _tail back        *)
(* towards _head, however many pushers race: what it stores was linked     *)
(* behind what it replaces.                                                *)
THEOREM TailNeverRetreats == Spec => TailAdvances
<1>1. Init => TailInv
  BY DEF Init, TailInv, Threads
<1>2. IInv /\ TailInv /\ [Next]_vars =>
        [Poppers = {} => \A j, k \in 1 .. Len(linked) :
           tail = linked[j] /\ tail' = linked[k] => j =< k]_vars
  <2> SUFFICES ASSUME IInv, TailInv, [Next]_vars, Poppers = {},
                      NEW j \in 1 .. Len(linked), NEW k \in 1 .. Len(linked),
                      tail = linked[j], tail' = linked[k]
               PROVE  j =< k
    OBVIOUS
  <2>1. Len(linked) \in Nat
    BY DEF IInv, TypeOK
  <2>2. CASE tail' = tail
    <3>1. j = k
      BY <2>2 DEF TailInv
    <3> QED
      BY <3>1, <2>1
  <2>3. CASE tail' # tail
    <3>1. PICK u \in Pushers : Swing(u)
      BY <2>3 DEF Next, Push, New, ReadTail, ReadOldp, Scan, Link, Destroy, Exit, vars, shared
    <3>2. pc[u] = "swing" /\ tail = oldp[u] /\ tail' = newNode[u]
      BY <2>3, <3>1 DEF Swing, Goto
    <3>3. PICK m, n \in 1 .. Len(linked) : m < n /\ oldp[u] = linked[m] /\ newNode[u] = linked[n]
      BY <3>2 DEF TailInv
    <3>4. tail = linked[m] /\ tail' = linked[n]
      BY <3>2, <3>3
    <3>5. j = m /\ k = n
      BY <3>4 DEF TailInv
    <3> QED
      BY <3>3, <3>5, <2>1
  <2> QED
    BY <2>2, <2>3
<1> QED
  BY <1>1, <1>2, InitIInv, NextIInv, NextTailInv, PTL DEF Spec, TailAdvances

----------------------------------------------------------------------------
(* The list implements the abstract queue. *)

\* What the refinement mapping sees in a state of the invariant.
ContentsShape ==
  /\ \A k \in 1 .. Len(linked) - 1 - taken :
       /\ taken + k \in taken + 1 .. Len(linked) - 1
       /\ next[linked[taken + k]] = linked[taken + k + 1]
       /\ linked[taken + k] \in Segment
       /\ linked[taken + k + 1] \in Segment
       /\ Contents[k] = elem[linked[taken + k + 1]]
       /\ Contents[k] \in Elem
  /\ taken < Len(linked) =>
       Contents \in Seq(Elem) /\ Len(Contents) = Len(linked) - 1 - taken
  /\ taken = Len(linked) => Contents = << >>

LEMMA ContentsFacts == IInv => ContentsShape
<1> SUFFICES ASSUME IInv PROVE ContentsShape
  OBVIOUS
<1>1. Len(linked) \in Nat /\ taken \in Nat /\ taken =< Len(linked)
  BY DEF IInv, TypeOK
<1>2. ASSUME NEW k \in 1 .. Len(linked) - 1 - taken
      PROVE  /\ taken + k \in taken + 1 .. Len(linked) - 1
             /\ next[linked[taken + k]] = linked[taken + k + 1]
             /\ linked[taken + k] \in Segment
             /\ linked[taken + k + 1] \in Segment
             /\ Contents[k] = elem[linked[taken + k + 1]]
             /\ Contents[k] \in Elem
  <2>1. /\ taken + k \in taken + 1 .. Len(linked) - 1
        /\ taken + k \in taken + 1 .. Len(linked)
        /\ taken + k + 1 \in taken + 1 .. Len(linked)
    BY <1>1
  <2>2. next[linked[taken + k]] = linked[taken + k + 1]
    BY <2>1 DEF IInv, ChainIsList
  <2>3. linked[taken + k] \in Segment /\ linked[taken + k + 1] \in Segment
    BY <2>1, ListFacts
  <2>4. Contents[k] = Value(next[linked[taken + k]])
    BY DEF Contents
  <2>5. Contents[k] = elem[linked[taken + k + 1]] /\ Contents[k] \in Elem
    BY <2>2, <2>3, <2>4, ListFacts DEF Value, IInv, TypeOK
  <2> QED
    BY <2>1, <2>2, <2>3, <2>5
<1>3. ASSUME taken < Len(linked)
      PROVE  Contents \in Seq(Elem) /\ Len(Contents) = Len(linked) - 1 - taken
  <2>1. Contents \in [1 .. Len(linked) - 1 - taken -> Elem]
    BY <1>2 DEF Contents
  <2>2. Len(linked) - 1 - taken \in Nat
    BY <1>1, <1>3
  <2> QED
    BY <2>1, <2>2
<1>4. ASSUME taken = Len(linked) PROVE Contents = << >>
  <2>1. 1 .. Len(linked) - 1 - taken = {}
    BY <1>1, <1>4
  <2>2. Contents = [k \in {} |-> Value(next[linked[taken + k]])]
    BY <2>1 DEF Contents
  <2> QED
    BY <2>2
<1> QED
  BY <1>2, <1>3, <1>4 DEF ContentsShape

LEMMA ContentsFactsNext == IInv' => ContentsShape'
  BY ContentsFacts, PTL

(* A step that leaves the list and its elements alone is a stutter.        *)
LEMMA ContentsFrame ==
  ASSUME IInv, UNCHANGED <<linked, taken>>,
         \A a \in Segment : next'[a] = next[a] /\ elem'[a] = elem[a]
  PROVE  Contents' = Contents
<1>1. ASSUME NEW k \in 1 .. Len(linked) - 1 - taken
      PROVE  Value(next[linked[taken + k]])' = Value(next[linked[taken + k]])
  <2>1. /\ linked[taken + k] \in Segment /\ linked[taken + k + 1] \in Segment
        /\ next[linked[taken + k]] = linked[taken + k + 1]
    BY ContentsFacts DEF ContentsShape
  <2>2. next'[linked'[taken' + k]] = linked[taken + k + 1]
    BY <2>1
  <2> QED
    BY <2>1, <2>2 DEF Value
<1> QED
  BY <1>1 DEF Contents

LEMMA LinkPushes ==
  ASSUME IInv, IInv', NEW u \in Pushers, Link(u), next[p[u]] = Null
  PROVE  Fifo!Push
<1>1. /\ Len(linked') = Len(linked) + 1 /\ taken' = taken /\ elem' = elem
      /\ \A k \in 1 .. Len(linked) : linked'[k] = linked[k]
      /\ linked'[Len(linked) + 1] = newNode[u]
      /\ taken < Len(linked) /\ newNode[u] \in Addr
      /\ Len(linked) \in Nat /\ taken \in Nat
  BY LinkFacts DEF IInv, TypeOK
<1> DEFINE n == Len(linked) - 1 - taken
           e == elem[newNode[u]]
<1>2. e \in Elem
  BY <1>1 DEF IInv, TypeOK
<1>3. Contents \in Seq(Elem) /\ Len(Contents) = n /\ n \in Nat
  BY <1>1, ContentsFacts DEF ContentsShape
<1>4. Contents' \in Seq(Elem) /\ Len(Contents') = n + 1
  <2>1. taken' < Len(linked')
    BY <1>1
  <2>2. taken' < Len(linked') => Contents' \in Seq(Elem) /\ Len(Contents') = (Len(linked) - 1 - taken)'
    BY ContentsFactsNext DEF ContentsShape
  <2> QED
    BY <2>1, <2>2, <1>1
<1>5. ASSUME NEW k \in 1 .. n + 1
      PROVE  Contents'[k] = IF k = n + 1 THEN e ELSE Contents[k]
  <2>1. k \in 1 .. Len(linked') - 1 - taken'
    BY <1>1
  <2>2. Contents'[k] = elem[linked'[taken + k + 1]]
    BY <2>1, <1>1, ContentsFactsNext DEF ContentsShape
  <2>3. CASE k = n + 1
    BY <2>2, <2>3, <1>1
  <2>4. CASE k # n + 1
    <3>1. k \in 1 .. n /\ taken + k + 1 \in 1 .. Len(linked)
      BY <2>4, <1>1
    <3>2. Contents[k] = elem[linked[taken + k + 1]]
      BY <3>1, ContentsFacts DEF ContentsShape
    <3> QED
      BY <2>2, <2>4, <3>1, <3>2, <1>1
  <2> QED
    BY <2>3, <2>4
<1>6. Contents' = Append(Contents, e)
  <2> HIDE DEF n, e
  <2> QED
    BY <1>2, <1>3, <1>4, <1>5
<1> QED
  BY <1>2, <1>6 DEF Fifo!Push

(* Taking the first node off the list takes the first element, if any.     *)
LEMMA ShiftPops ==
  ASSUME IInv, IInv', taken < Len(linked), taken' = taken + 1,
         UNCHANGED <<linked, next, elem>>
  PROVE  Fifo!Pop \/ UNCHANGED Contents
<1>1. Len(linked) \in Nat /\ taken \in Nat
  BY DEF IInv, TypeOK
<1>2. CASE taken + 1 = Len(linked)
  <2>1. Contents' = << >>
    BY <1>2, ContentsFactsNext DEF ContentsShape
  <2>2. Contents = << >>
    BY <1>1, <1>2, ContentsFacts DEF ContentsShape
  <2> QED
    BY <2>1, <2>2
<1>3. CASE taken + 1 < Len(linked)
  <2> DEFINE n == Len(linked) - 1 - taken
  <2>1. Contents \in Seq(Elem) /\ Len(Contents) = n /\ n \in Nat \ {0}
    BY <1>1, <1>3, ContentsFacts DEF ContentsShape
  <2>2. Contents' \in Seq(Elem) /\ Len(Contents') = n - 1
    <3>1. taken' < Len(linked') => Contents' \in Seq(Elem) /\ Len(Contents') = (Len(linked) - 1 - taken)'
      BY ContentsFactsNext DEF ContentsShape
    <3> QED
      BY <3>1, <1>1, <1>3
  <2>3. ASSUME NEW k \in 1 .. n - 1
        PROVE  Contents'[k] = Contents[k + 1]
    <3>1. k \in 1 .. Len(linked') - 1 - taken' /\ k + 1 \in 1 .. n
      BY <1>1
    <3>2. Contents'[k] = elem[linked[taken' + k + 1]]
      BY <3>1, ContentsFactsNext DEF ContentsShape
    <3>3. Contents[k + 1] = elem[linked[taken + (k + 1) + 1]]
      BY <3>1, ContentsFacts DEF ContentsShape
    <3> QED
      BY <3>2, <3>3, <1>1
  <2>4. Contents' = Tail(Contents) /\ Contents # << >>
    <3> HIDE DEF n
    <3> QED
      BY <2>1, <2>2, <2>3
  <2> QED
    BY <2>4 DEF Fifo!Pop
<1> QED
  BY <1>1, <1>2, <1>3

(* The list is a FIFO queue: every step of the program is a step of the    *)
(* abstract queue or leaves its contents alone.                            *)
THEOREM Refinement == Spec => FifoSpec
<1>1. Init => Fifo!Init
  <2> SUFFICES ASSUME Init PROVE Contents = << >>
    BY DEF Fifo!Init
  <2>1. Len(linked) = 1 /\ taken = 0
    BY DEF Init
  <2> QED
    BY <2>1, InitIInv, ContentsFacts DEF ContentsShape
<1>2. IInv /\ IInv' /\ [Next]_vars => [Fifo!Next]_Contents
  <2> SUFFICES ASSUME IInv, IInv', [Next]_vars
               PROVE  Fifo!Push \/ Fifo!Pop \/ UNCHANGED Contents
    BY DEF Fifo!Next
  <2>1. ASSUME NEW u \in Pushers, New(u) PROVE UNCHANGED Contents
    <3>1. PICK a \in Addr \ live : /\ next' = [next EXCEPT ![a] = Null]
                                   /\ elem' = [elem EXCEPT ![a] = i[u]]
      BY <2>1 DEF New
    <3>2. \A b \in Segment : next'[b] = next[b] /\ elem'[b] = elem[b]
      BY <3>1, ListFacts DEF IInv, TypeOK
    <3>3. UNCHANGED <<linked, taken>>
      BY <2>1 DEF New, history
    <3> QED
      BY <3>2, <3>3, ContentsFrame
  <2>2. ASSUME NEW u \in Pushers, ReadTail(u) \/ ReadOldp(u) \/ Scan(u) \/ Swing(u)
        PROVE  UNCHANGED Contents
    BY <2>2, ContentsFrame DEF ReadTail, ReadOldp, Scan, Swing, shared, history
  <2>3. ASSUME NEW u \in Pushers, Link(u) PROVE Fifo!Push \/ UNCHANGED Contents
    <3>1. CASE next[p[u]] = Null
      BY <2>3, <3>1, LinkPushes
    <3>2. CASE next[p[u]] # Null
      <4>1. UNCHANGED <<next, elem, linked, taken>>
        BY <2>3, <3>2 DEF Link
      <4> QED
        BY <4>1, ContentsFrame
    <3> QED
      BY <3>1, <3>2
  <2>4. ASSUME NEW v \in Poppers,
               ReadHead(v) \/ Test(v) \/ ReadArg(v) \/ Delete(v) \/ Count(v)
        PROVE  UNCHANGED Contents
    BY <2>4, ContentsFrame DEF ReadHead, Test, ReadArg, Delete, Count, shared, history
  <2>5. ASSUME NEW v \in Poppers, Unlink(v) PROVE Fifo!Pop \/ UNCHANGED Contents
    <3>1. pc[v] = "unlink" /\ q[v] = head
      BY <2>5 DEF Unlink, IInv, PopLocals
    <3>2. taken' = taken + 1 /\ UNCHANGED <<linked, next, elem>>
      BY <2>5, <3>1 DEF Unlink
    <3>3. taken < Len(linked)
      BY <3>1 DEF IInv, DummyPresent, Joined, Threads
    <3> QED
      BY <3>2, <3>3, ShiftPops
  <2>6. ASSUME Destroy PROVE Fifo!Pop \/ UNCHANGED Contents
    <3>1. taken' = taken + 1 /\ UNCHANGED <<linked, next, elem>>
      BY <2>6 DEF Destroy
    <3>2. taken < Len(linked)
      BY <2>6 DEF Destroy, IInv, TypeOK, ChainIsList
    <3> QED
      BY <3>1, <3>2, ShiftPops
  <2>7. ASSUME UNCHANGED vars PROVE UNCHANGED Contents
    BY <2>7, ContentsFrame DEF vars, shared, history
  <2> QED
    BY <2>1, <2>2, <2>3, <2>4, <2>5, <2>6, <2>7 DEF Next, Push, Pop, Exit
<1> QED
  BY <1>1, <1>2, Invariant, PTL DEF Spec, FifoSpec, Fifo!Spec

=============================================================================
