------------------------------ MODULE DataProofs ------------------------------
(***************************************************************************)
(* Proofs about the Bloom filter, for any hash function, sizes and number  *)
(* of calls, and about the two loops around zlib, for any file, any sizes  *)
(* of block and buffer and any way in which the library holds data back.   *)
(***************************************************************************)
EXTENDS Integers, BloomFilter, ZlibStream, SequenceTheorems, TLAPS

----------------------------------------------------------------------------
(* The Bloom filter *)

\* b is a record of the filter's fields.
Filter(b) ==
  b = [flag |-> b.flag, max |-> b.max, seed |-> b.seed, count |-> b.count, bits |-> b.bits,
       filter |-> b.filter, pos |-> b.pos]

\* The bits of the keys of S are set in b; exactly they are.
Knows(b, S) == \A key \in S : HashPositions(b, key) \subseteq b.bits
Exactly(b, S) == b.bits = UNION {HashPositions(b, key) : key \in S}

\* A filter without a valid flag has no keys, so the next Add may forget all
\* its bits.
KeysKnown ==
  usable => /\ Knows(bloom, added)
            /\ bloom.flag # 1 => added = {}
            /\ bloom.flag = 1 /\ ~revived => Exactly(bloom, added)

\* The same for a file that was written to its end.
FileKnown ==
  bloomFile.state = "whole" =>
    /\ Knows(bloomFile, bloomFile.added)
    /\ ~bloomFile.revived => Exactly(bloomFile, bloomFile.added)

\* Only a load that has failed leaves pointers to freed blocks.
PointersGood == ~loadFailed => bloom.filter # "freed" /\ bloom.pos # "freed"

BloomInv == Filter(bloom) /\ KeysKnown /\ FileKnown /\ PointersGood /\ BlocksOwned

(* The positions of a key depend on seed and size only.                    *)
LEMMA SamePositions ==
  ASSUME NEW a, NEW b, a.seed = b.seed, a.max = b.max
  PROVE  \A key : HashPositions(a, key) = HashPositions(b, key)
BY DEF HashPositions

(* What a filter knows, one with the same seed, size and bits knows.       *)
LEMMA SameKnown ==
  ASSUME NEW a, NEW b, NEW S, a.seed = b.seed, a.max = b.max, a.bits = b.bits
  PROVE  (Knows(a, S) <=> Knows(b, S)) /\ (Exactly(a, S) <=> Exactly(b, S))
BY SamePositions DEF Knows, Exactly

(* A filter without keys knows them all, and a cleared one exactly them.   *)
LEMMA NoKeys ==
  ASSUME NEW b
  PROVE  Knows(b, {}) /\ (b.bits = {} => Exactly(b, {}))
BY DEF Knows, Exactly

LEMMA InitKeeps ==
  ASSUME BloomInv, NEW seed, NEW max, InitBloomFilter(seed, max)
  PROVE  BloomInv'
<1>1. PICK r \in {0, 100, 200} :
        /\ bloom' = [Zeroed EXCEPT !.max = max, !.seed = seed, !.flag = IF r = 0 THEN 1 ELSE 0,
                                   !.filter = IF r = 100 THEN "null" ELSE "owned",
                                   !.pos = IF r = 0 THEN "owned" ELSE "null"]
        /\ usable' = (r = 0)
  BY DEF InitBloomFilter
<1>2. /\ Filter(bloom') /\ bloom'.bits = {} /\ bloom'.flag = (IF r = 0 THEN 1 ELSE 0)
      /\ bloom'.filter = (IF r = 100 THEN "null" ELSE "owned")
      /\ bloom'.pos = (IF r = 0 THEN "owned" ELSE "null")
  BY <1>1 DEF Filter, Zeroed
<1>3. added' = {} /\ UNCHANGED <<loadFailed, bloomFile>> /\ (heapBroken' => loadFailed)
  BY DEF InitBloomFilter, FreedTwice, BloomInv, PointersGood
<1>4. KeysKnown'
  BY <1>1, <1>2, <1>3, NoKeys DEF KeysKnown
<1>5. usable' => r = 0
  BY <1>1
<1>6. usable' => bloom'.filter = "owned" /\ bloom'.pos = "owned"
  BY <1>2, <1>5
<1>7. bloom'.filter # "freed" /\ bloom'.pos # "freed"
  BY <1>2
<1> QED
  BY <1>2, <1>3, <1>4, <1>6, <1>7 DEF BloomInv, FileKnown, PointersGood, BlocksOwned

LEMMA FreeKeeps ==
  ASSUME BloomInv, FreeBloomFilter
  PROVE  BloomInv'
<1>1. Filter(bloom') /\ bloom'.filter = "null" /\ bloom'.pos = "null"
  BY DEF FreeBloomFilter, BloomInv, Filter
<1>2. ~usable' /\ UNCHANGED <<loadFailed, bloomFile>> /\ (heapBroken' => loadFailed)
  BY DEF FreeBloomFilter, FreedTwice, BloomInv, PointersGood
<1> QED
  BY <1>1, <1>2 DEF BloomInv, KeysKnown, FileKnown, PointersGood, BlocksOwned

LEMMA ResetKeeps ==
  ASSUME BloomInv, ResetBloomFilter
  PROVE  BloomInv'
<1>1. Filter(bloom') /\ bloom'.flag = 0 /\ bloom'.filter = bloom.filter /\ bloom'.pos = bloom.pos
  BY DEF ResetBloomFilter, BloomInv, Filter
<1>2. added' = {} /\ UNCHANGED <<usable, loadFailed, bloomFile, heapBroken>>
  BY DEF ResetBloomFilter
<1>3. KeysKnown'
  BY <1>1, <1>2, NoKeys DEF KeysKnown
<1> QED
  BY <1>1, <1>2, <1>3 DEF BloomInv, FileKnown, PointersGood, BlocksOwned

LEMMA RealResetKeeps ==
  ASSUME BloomInv, RealResetBloomFilter
  PROVE  BloomInv'
<1>1. /\ Filter(bloom') /\ bloom'.flag = 1 /\ bloom'.bits = {}
      /\ bloom'.filter = bloom.filter /\ bloom'.pos = bloom.pos
  BY DEF RealResetBloomFilter, BloomInv, Filter
<1>2. usable /\ added' = {} /\ ~heapBroken' /\ UNCHANGED <<usable, loadFailed, bloomFile>>
  BY DEF RealResetBloomFilter, BloomInv, BlocksOwned
<1>3. KeysKnown'
  BY <1>1, <1>2, NoKeys DEF KeysKnown
<1> QED
  BY <1>1, <1>2, <1>3 DEF BloomInv, FileKnown, PointersGood, BlocksOwned

LEMMA AddKeeps ==
  ASSUME BloomInv, NEW key, BloomFilterAdd(key)
  PROVE  BloomInv'
<1>1. /\ Filter(bloom') /\ bloom'.flag = 1 /\ bloom'.seed = bloom.seed /\ bloom'.max = bloom.max
      /\ bloom'.bits = AddBase(bloom) \cup HashPositions(bloom, key)
      /\ bloom'.filter = bloom.filter /\ bloom'.pos = bloom.pos
  BY DEF BloomFilterAdd, BloomInv, Filter
<1>2. /\ usable /\ added' = added \cup {key} /\ revived' = (revived /\ bloom.flag = 1)
      /\ ~heapBroken' /\ UNCHANGED <<usable, loadFailed, bloomFile>>
  BY DEF BloomFilterAdd, BloomInv, BlocksOwned
<1>3. \A k : HashPositions(bloom', k) = HashPositions(bloom, k)
  BY <1>1 DEF HashPositions
<1>4. bloom.flag # 1 => added = {}
  BY <1>2 DEF BloomInv, KeysKnown
<1>5. Knows(bloom', added')
  BY <1>1, <1>2, <1>3, <1>4 DEF Knows, AddBase, BloomInv, KeysKnown
<1>6. ~revived' => Exactly(bloom', added')
  <2> SUFFICES ASSUME ~revived' PROVE Exactly(bloom', added')
    OBVIOUS
  <2>1. AddBase(bloom) = UNION {HashPositions(bloom, k) : k \in added}
    BY <1>2, <1>4 DEF AddBase, Exactly, BloomInv, KeysKnown
  <2> QED
    BY <1>1, <1>2, <1>3, <2>1 DEF Exactly
<1>7. KeysKnown'
  BY <1>1, <1>5, <1>6 DEF KeysKnown
<1> QED
  BY <1>1, <1>2, <1>7 DEF BloomInv, FileKnown, PointersGood, BlocksOwned

LEMMA SaveKeeps ==
  ASSUME BloomInv, SaveBloomFilterToFile
  PROVE  BloomInv'
<1>1. usable /\ ~heapBroken' /\ UNCHANGED <<bloom, usable, added, revived, loadFailed>>
  BY DEF SaveBloomFilterToFile, BloomInv, BlocksOwned
<1>2. FileKnown'
  <2>1. CASE UNCHANGED bloomFile
    BY <2>1 DEF BloomInv, FileKnown
  <2>2. CASE bloomFile'.state \in {"empty", "head"}
    BY <2>2 DEF FileKnown
  <2>3. CASE bloomFile' = [state |-> "whole", max |-> bloom.max, seed |-> bloom.seed, count |-> bloom.count,
                           bits |-> bloom.bits, added |-> added, revived |-> revived \/ bloom.flag # 1]
    <3>1. /\ bloomFile'.max = bloom.max /\ bloomFile'.seed = bloom.seed /\ bloomFile'.bits = bloom.bits
          /\ bloomFile'.added = added /\ bloomFile'.revived = (revived \/ bloom.flag # 1)
      BY <2>3
    <3>2. /\ Knows(bloomFile', added) <=> Knows(bloom, added)
          /\ Exactly(bloomFile', added) <=> Exactly(bloom, added)
      BY <3>1, SameKnown
    <3> QED
      BY <1>1, <3>1, <3>2 DEF BloomInv, KeysKnown, FileKnown
  <2> QED
    BY <2>1, <2>2, <2>3 DEF SaveBloomFilterToFile
<1> QED
  BY <1>1, <1>2 DEF BloomInv, KeysKnown, PointersGood, BlocksOwned

LEMMA LoadKeeps ==
  ASSUME BloomInv, LoadBloomFilterFromFile
  PROVE  BloomInv'
<1>1. UNCHANGED bloomFile /\ (heapBroken' => loadFailed)
  BY DEF LoadBloomFilterFromFile, FreedTwice, BloomInv, PointersGood
<1>2. CASE LoadFails /\ usable' = FALSE /\ loadFailed' = TRUE
  <2>1. Filter(bloom')
    BY <1>2 DEF LoadFails, BloomInv, Filter
  <2> QED
    BY <1>1, <1>2, <2>1 DEF BloomInv, KeysKnown, FileKnown, PointersGood, BlocksOwned
<1>3. CASE LoadSucceeds /\ added' = bloomFile.added /\ revived' = bloomFile.revived /\ UNCHANGED loadFailed
  <2>1. /\ Filter(bloom') /\ bloom'.flag = 1 /\ bloom'.max = bloomFile.max /\ bloom'.seed = bloomFile.seed
        /\ bloom'.bits = bloomFile.bits /\ bloom'.filter = "owned" /\ bloom'.pos = "owned"
    BY <1>3 DEF LoadSucceeds, Zeroed, Filter
  <2>2. bloomFile.state = "whole"
    BY <1>3 DEF LoadSucceeds
  <2>3. /\ Knows(bloom', bloomFile.added) <=> Knows(bloomFile, bloomFile.added)
        /\ Exactly(bloom', bloomFile.added) <=> Exactly(bloomFile, bloomFile.added)
    BY <2>1, SameKnown
  <2>4. KeysKnown'
    BY <1>3, <2>1, <2>2, <2>3 DEF BloomInv, FileKnown, KeysKnown
  <2> QED
    BY <1>1, <1>3, <2>1, <2>4 DEF BloomInv, FileKnown, PointersGood, BlocksOwned
<1> QED
  BY <1>2, <1>3 DEF LoadBloomFilterFromFile

LEMMA RestartKeeps ==
  ASSUME BloomInv, BloomRestart
  PROVE  BloomInv'
<1>1. Filter(Zeroed) /\ Zeroed.filter = "null" /\ Zeroed.pos = "null"
  BY DEF Filter, Zeroed
<1>2. bloom' = Zeroed /\ ~usable' /\ ~heapBroken' /\ UNCHANGED bloomFile
  BY DEF BloomRestart, BloomCall
<1> QED
  BY <1>1, <1>2 DEF BloomInv, KeysKnown, FileKnown, PointersGood, BlocksOwned

LEMMA BloomIsSound == BloomInv => BloomSound
BY DEF BloomInv, BloomSound, KeysKnown, Knows, Exactly, NoFalseNegative, OnlyAdded, CheckResult

(* In every history of one filter and its file, for every hash function,   *)
(* seed and size: no key that was added is ever missed, and the rest of    *)
(* BloomSound (bloomfilter.h:300-468).                                     *)
THEOREM KeysAreFound == BloomInit /\ [][BloomNext]_bloomVars => []BloomSound
<1>1. BloomInit => BloomInv
  <2>1. Filter(Zeroed) /\ Zeroed.filter = "null" /\ Zeroed.pos = "null"
    BY DEF Filter, Zeroed
  <2> QED
    BY <2>1 DEF BloomInit, BloomInv, KeysKnown, FileKnown, PointersGood, BlocksOwned
<1>2. BloomInv /\ [BloomNext]_bloomVars => BloomInv'
  <2> SUFFICES ASSUME BloomInv, [BloomNext]_bloomVars PROVE BloomInv'
    OBVIOUS
  <2>1. CASE UNCHANGED bloomVars
    BY <2>1 DEF bloomVars, BloomInv, KeysKnown, FileKnown, PointersGood, BlocksOwned
  <2>2. CASE BloomNext
    BY <2>2, InitKeeps, FreeKeeps, ResetKeeps, RealResetKeeps, AddKeeps, SaveKeeps, LoadKeeps, RestartKeeps
    DEF BloomNext
  <2> QED
    BY <2>1, <2>2
<1> QED
  BY <1>1, <1>2, BloomIsSound, PTL
----------------------------------------------------------------------------
(* Sequences *)

(* Appending to the last of two pieces appends to the whole.               *)
LEMMA AppendBehind ==
  ASSUME NEW S, NEW s \in Seq(S), NEW t \in Seq(S), NEW x \in S
  PROVE  s \o Append(t, x) = Append(s \o t, x)
<1>1. s \o t \in Seq(S)
  BY ConcatProperties
<1>2. Append(t, x) = t \o <<x>> /\ Append(s \o t, x) = (s \o t) \o <<x>>
  BY <1>1, AppendIsConcat
<1>3. <<x>> \in Seq(S)
  OBVIOUS
<1> QED
  BY <1>2, <1>3, ConcatAssociative

(* The first element moves on from one piece to the end of the other.      *)
LEMMA MoveOne ==
  ASSUME NEW S, NEW s \in Seq(S), NEW t \in Seq(S), t # << >>
  PROVE  Append(s, Head(t)) \o Tail(t) = s \o t
<1>1. Head(t) \in S /\ Tail(t) \in Seq(S) /\ <<Head(t)>> \in Seq(S)
  BY HeadTailProperties
<1>2. t = <<Head(t)>> \o Tail(t)
  OBVIOUS
<1>3. Append(s, Head(t)) = s \o <<Head(t)>>
  BY <1>1, AppendIsConcat
<1>4. (s \o <<Head(t)>>) \o Tail(t) = s \o (<<Head(t)>> \o Tail(t))
  BY <1>1, ConcatAssociative
<1> QED
  BY <1>2, <1>3, <1>4

(* Head and tail of a sequence with something behind it.                   *)
LEMMA TailOfBoth ==
  ASSUME NEW S, NEW s \in Seq(S), NEW t \in Seq(S), s # << >>
  PROVE  s \o t # << >> /\ Head(s \o t) = Head(s) /\ Tail(s \o t) = Tail(s) \o t
<1>1. s \o t \in Seq(S) /\ Len(s \o t) = Len(s) + Len(t) /\ Len(s) \in Nat \ {0} /\ Len(t) \in Nat
  BY ConcatProperties, EmptySeq, LenProperties
<1>2. s \o t # << >>
  BY <1>1, EmptySeq
<1>3. Head(s \o t) = Head(s)
  BY <1>1, <1>2
<1>4. Tail(s) \in Seq(S) /\ Tail(s \o t) \in Seq(S)
  BY <1>1, <1>2, HeadTailProperties
<1>5. Tail(s) \o t \in Seq(S) /\ Len(Tail(s) \o t) = Len(Tail(s \o t))
  BY <1>1, <1>2, <1>4, ConcatProperties, HeadTailProperties
<1>6. \A i \in 1 .. Len(Tail(s \o t)) : Tail(s \o t)[i] = (Tail(s) \o t)[i]
  BY <1>1, <1>2, <1>4, <1>5
<1>7. Tail(s \o t) = Tail(s) \o t
  BY <1>4, <1>5, <1>6, SeqEqual
<1> QED
  BY <1>2, <1>3, <1>7

(* The lesser of two numbers.                                              *)
LEMMA LesserOfTwo ==
  ASSUME NEW a \in Nat, NEW b \in Nat
  PROVE  Min({a, b}) \in Nat /\ Min({a, b}) =< a /\ Min({a, b}) =< b /\ Min({a, b}) \in {a, b}
<1>1. \E x \in {a, b} : \A y \in {a, b} : x =< y
  OBVIOUS
<1> QED
  BY <1>1 DEF Min

----------------------------------------------------------------------------
(* A compressed file and the bytes that it stands for.  The place in the   *)
(* file at which each run begins is a witness st of the invariant, so that *)
(* the runs need not be added up.                                          *)

Units == [b : ZBytes \cup {"end", "bad"}, n : Nat]

\* x stands for the bytes of o behind place a up to place c.
Run(o, x, a, c) == x.n # 0 /\ c = a + x.n /\ c =< Len(o) /\ \A i \in 1 .. x.n : o[a + i] = x.b

\* u is made of runs that stand for the first p bytes of o.
Spelt(o, u, p) ==
  \E st \in [Nat -> Int] :
    st[0] = 0 /\ st[Len(u)] = p /\ \A k \in 1 .. Len(u) : Run(o, u[k], st[k - 1], st[k])

\* r is what follows the first p bytes of o.
Remains(o, r, p) == Len(o) = p + Len(r) /\ \A k \in 1 .. Len(r) : r[k] = o[p + k]

\* u stands for o as far as r does not follow.
Made(o, u, r) == \E p \in Nat : Spelt(o, u, p) /\ Remains(o, r, p)

\* u is the compressed file.
Whole(o, u) == \E v \in Seq(Units) : u = Append(v, End) /\ Spelt(o, v, Len(o))

\* s is the beginning of o.
Starts(o, s) == Len(s) =< Len(o) /\ \A k \in 1 .. Len(s) : s[k] = o[k]

\* The bytes of s up to place g are those of o.
Right(o, s, g) == \A k \in 1 .. Len(s) : k =< g => k =< Len(o) /\ s[k] = o[k]

\* u goes on with runs from place p, up to an end at the end of o, a bad place,
\* or the end of u, where the damage d allows it.
Leads(o, u, p, d) ==
  \E st \in [Nat -> Int], e \in 0 .. Len(u) :
    /\ st[0] = p /\ \A k \in 1 .. e : Run(o, u[k], st[k - 1], st[k])
    /\ IF e = Len(u) THEN d \notin {"none", "more"}
       ELSE (u[e + 1] = End /\ st[e] = Len(o)) \/ (u[e + 1] = Bad /\ d = "bad")

(* End and Bad are units, and no runs.                                     *)
LEMMA EndIsUnit == End \in Units /\ Bad \in Units /\ End.n = 0 /\ Bad.n = 0 /\ End # Bad
BY DEF End, Bad, Units

(* One run more.                                                           *)
LEMMA SpeltMore ==
  ASSUME NEW o \in Seq(ZBytes), NEW u \in Seq(Units), NEW p \in Nat, NEW x \in Units,
         Spelt(o, u, p), Run(o, x, p, p + x.n)
  PROVE  Spelt(o, Append(u, x), p + x.n)
<1>1. PICK st \in [Nat -> Int] :
        st[0] = 0 /\ st[Len(u)] = p /\ \A k \in 1 .. Len(u) : Run(o, u[k], st[k - 1], st[k])
  BY DEF Spelt
<1> DEFINE to == [st EXCEPT ![Len(u) + 1] = p + x.n]
<1>2. x.n \in Nat /\ Len(u) \in Nat
  BY DEF Units
<1>3. to \in [Nat -> Int] /\ to[Len(u) + 1] = p + x.n /\ \A k \in 0 .. Len(u) : to[k] = st[k]
  BY <1>2, SMTT(60)
<1>4. /\ Len(Append(u, x)) = Len(u) + 1 /\ Append(u, x)[Len(u) + 1] = x
      /\ \A k \in 1 .. Len(u) : Append(u, x)[k] = u[k]
  BY AppendProperties
<1> HIDE DEF to
<1>5. \A k \in 1 .. Len(u) + 1 : Run(o, Append(u, x)[k], to[k - 1], to[k])
  <2> SUFFICES ASSUME NEW k \in 1 .. Len(u) + 1
               PROVE  Run(o, Append(u, x)[k], to[k - 1], to[k])
    OBVIOUS
  <2>1. CASE k = Len(u) + 1
    <3>1. k - 1 = Len(u) /\ Len(u) \in 0 .. Len(u)
      BY <1>2, <2>1
    <3>2. to[k - 1] = p /\ to[k] = p + x.n /\ Append(u, x)[k] = x
      BY <1>1, <1>3, <1>4, <2>1, <3>1
    <3> QED
      BY <3>2
  <2>2. CASE k # Len(u) + 1
    <3>1. k \in 1 .. Len(u) /\ k - 1 \in 0 .. Len(u) /\ k \in 0 .. Len(u)
      BY <1>2, <2>2
    <3> QED
      BY <1>1, <1>3, <1>4, <3>1
  <2> QED
    BY <2>1, <2>2
<1>6. to[0] = 0 /\ to[Len(Append(u, x))] = p + x.n
  BY <1>1, <1>2, <1>3, <1>4
<1> QED
  BY <1>3, <1>4, <1>5, <1>6 DEF Spelt

(* deflate gives out n equal bytes of those that it holds.                 *)
LEMMA MadeMore ==
  ASSUME NEW o \in Seq(ZBytes), NEW u \in Seq(Units), NEW h \in Seq(ZBytes), NEW r \in Seq(ZBytes),
         NEW n \in 1 .. Len(h), \A k \in 1 .. n : h[k] = h[1], Made(o, u, h \o r)
  PROVE  /\ [b |-> h[1], n |-> n] \in Units
         /\ Made(o, Append(u, [b |-> h[1], n |-> n]), SubSeq(h, n + 1, Len(h)) \o r)
<1> DEFINE x == [b |-> h[1], n |-> n]
           g == SubSeq(h, n + 1, Len(h))
<1>1. PICK p \in Nat : Spelt(o, u, p) /\ Remains(o, h \o r, p)
  BY DEF Made
<1>2. Len(h) \in Nat /\ Len(r) \in Nat /\ Len(o) \in Nat /\ h[1] \in ZBytes /\ n \in Nat
  BY LenProperties, ElementOfSeq
<1>3. x \in Units /\ x.n = n /\ x.b = h[1]
  BY <1>2 DEF Units
<1>4. Len(o) = p + Len(h) + Len(r) /\ \A k \in 1 .. Len(h) + Len(r) : (h \o r)[k] = o[p + k]
  BY <1>1, <1>2, ConcatProperties DEF Remains
<1>5. \A i \in 1 .. n : o[p + i] = h[1]
  <2> SUFFICES ASSUME NEW i \in 1 .. n PROVE o[p + i] = h[1]
    OBVIOUS
  <2>1. i \in 1 .. Len(h) /\ i \in 1 .. Len(h) + Len(r)
    BY <1>2
  <2>2. (h \o r)[i] = h[i]
    BY <1>2, <2>1, ConcatProperties
  <2> QED
    BY <1>4, <2>1, <2>2
<1> HIDE DEF x
<1>6. Run(o, x, p, p + x.n)
  BY <1>2, <1>3, <1>4, <1>5 DEF Run
<1>7. Spelt(o, Append(u, x), p + n)
  BY <1>1, <1>3, <1>6, SpeltMore
<1>8. /\ g \in Seq(ZBytes) /\ Len(g) = Len(h) - n
      /\ \A i \in 1 .. Len(h) - n : g[i] = h[n + i]
  <2>1. \A i \in n + 1 .. Len(h) : h[i] \in ZBytes
    BY <1>2, ElementOfSeq
  <2>2. /\ g \in Seq(ZBytes) /\ Len(g) = IF n + 1 =< Len(h) THEN Len(h) - (n + 1) + 1 ELSE 0
        /\ \A i \in 1 .. Len(h) - (n + 1) + 1 : g[i] = h[(n + 1) + i - 1]
    BY <1>2, <2>1, SubSeqProperties
  <2> HIDE DEF g
  <2>3. Len(g) = Len(h) - n
    BY <1>2, <2>2
  <2>4. ASSUME NEW i \in 1 .. Len(h) - n PROVE g[i] = h[n + i]
    <3>1. i \in 1 .. Len(h) - (n + 1) + 1 /\ (n + 1) + i - 1 = n + i
      BY <1>2
    <3> QED
      BY <2>2, <3>1
  <2> QED
    BY <2>2, <2>3, <2>4
<1> HIDE DEF g
<1>9. Remains(o, g \o r, p + n)
  <2>1. Len(g \o r) = Len(h) - n + Len(r)
    BY <1>8, ConcatProperties
  <2> SUFFICES ASSUME NEW k \in 1 .. Len(h) - n + Len(r)
               PROVE  (g \o r)[k] = o[(p + n) + k]
    BY <1>2, <1>4, <2>1 DEF Remains
  <2>2. (g \o r)[k] = IF k =< Len(h) - n THEN g[k] ELSE r[k - (Len(h) - n)]
    BY <1>2, <1>8, ConcatProperties
  <2>3. (h \o r)[n + k] = IF n + k =< Len(h) THEN h[n + k] ELSE r[n + k - Len(h)]
    BY <1>2, ConcatProperties
  <2>4. (g \o r)[k] = (h \o r)[n + k]
    BY <1>2, <1>8, <2>2, <2>3
  <2>5. n + k \in 1 .. Len(h) + Len(r) /\ p + (n + k) = (p + n) + k
    BY <1>2
  <2> QED
    BY <1>4, <2>4, <2>5
<1>10. p + n \in Nat
  BY <1>2
<1>11. Made(o, Append(u, x), g \o r)
  BY <1>7, <1>9, <1>10 DEF Made
<1> QED
  BY <1>3, <1>11 DEF x, g

(* inflate takes the next unit.                                            *)
LEMMA LeadsOn ==
  ASSUME NEW o \in Seq(ZBytes), NEW u \in Seq(Units), NEW p \in Nat, NEW d, u # << >>, Leads(o, u, p, d)
  PROVE  \/ Head(u) = End /\ p = Len(o)
         \/ Head(u) = Bad /\ d = "bad"
         \/ Run(o, Head(u), p, p + Head(u).n) /\ Leads(o, Tail(u), p + Head(u).n, d)
<1>1. PICK st \in [Nat -> Int], e \in 0 .. Len(u) :
        /\ st[0] = p /\ \A k \in 1 .. e : Run(o, u[k], st[k - 1], st[k])
        /\ IF e = Len(u) THEN d \notin {"none", "more"}
           ELSE (u[e + 1] = End /\ st[e] = Len(o)) \/ (u[e + 1] = Bad /\ d = "bad")
  BY DEF Leads
<1>2. Len(u) \in Nat \ {0} /\ Head(u) = u[1] /\ u[1] \in Units
  BY EmptySeq, ElementOfSeq
<1>3. CASE e = 0
  BY <1>1, <1>2, <1>3
<1>4. CASE e # 0
  <2>1. Run(o, u[1], p, st[1]) /\ st[1] = p + u[1].n
    BY <1>1, <1>2, <1>4 DEF Run
  <2> DEFINE to == [k \in Nat |-> st[k + 1]]
             t == Tail(u)
  <2>2. t \in Seq(Units) /\ Len(t) = Len(u) - 1 /\ \A k \in 1 .. Len(u) - 1 : t[k] = u[k + 1]
    BY <1>2, HeadTailProperties
  <2>3. to \in [Nat -> Int] /\ \A k \in Nat : to[k] = st[k + 1]
    OBVIOUS
  <2> HIDE DEF to, t
  <2>4. e - 1 \in 0 .. Len(t) /\ to[0] = p + u[1].n /\ to[e - 1] = st[e]
    <3>1. e \in Nat /\ e - 1 \in Nat /\ (e - 1) + 1 = e /\ e - 1 \in 0 .. Len(t)
      BY <1>2, <1>4, <2>2
    <3>2. to[0] = st[0 + 1] /\ to[e - 1] = st[(e - 1) + 1]
      BY <2>3, <3>1
    <3> QED
      BY <2>1, <3>1, <3>2
  <2>5. \A k \in 1 .. e - 1 : Run(o, t[k], to[k - 1], to[k])
    <3> SUFFICES ASSUME NEW k \in 1 .. e - 1 PROVE Run(o, t[k], to[k - 1], to[k])
      OBVIOUS
    <3>1. /\ k + 1 \in 1 .. e /\ t[k] = u[k + 1] /\ to[k] = st[k + 1]
          /\ to[k - 1] = st[(k + 1) - 1]
      <4>1. /\ k \in Nat /\ k - 1 \in Nat /\ k \in 1 .. Len(u) - 1 /\ k + 1 \in 1 .. e
            /\ (k - 1) + 1 = k /\ (k + 1) - 1 = k
        BY <1>2
      <4>2. to[k] = st[k + 1] /\ to[k - 1] = st[(k - 1) + 1]
        BY <2>3, <4>1
      <4> QED
        BY <2>2, <4>1, <4>2
    <3> QED
      BY <1>1, <3>1
  <2>6. IF e - 1 = Len(t) THEN d \notin {"none", "more"}
        ELSE (t[(e - 1) + 1] = End /\ to[e - 1] = Len(o)) \/ (t[(e - 1) + 1] = Bad /\ d = "bad")
    <3>1. CASE e = Len(u)
      BY <1>1, <1>2, <2>2, <3>1
    <3>2. CASE e # Len(u)
      <4>1. e \in 1 .. Len(u) - 1 /\ (e - 1) + 1 = e /\ e - 1 # Len(t)
        BY <1>2, <1>4, <2>2, <3>2
      <4>2. t[(e - 1) + 1] = u[e + 1]
        BY <2>2, <4>1
      <4> QED
        BY <1>1, <2>4, <3>2, <4>1, <4>2
    <3> QED
      BY <3>1, <3>2
  <2>7. Leads(o, t, p + u[1].n, d)
    BY <2>3, <2>4, <2>5, <2>6 DEF Leads
  <2> QED
    BY <1>2, <2>1, <2>7 DEF t
<1> QED
  BY <1>3, <1>4

----------------------------------------------------------------------------
(* The two programs around zlib *)

LibType(I, O, H) ==
  [in : Seq(I), out : Seq(O), held : Seq(H), moved : BOOLEAN, state : {"run", "ended", "bad"},
   wrong : BOOLEAN, good : Nat]

\* r is a record of the fields of lib.
Fields(r) == r = [in |-> r.in, out |-> r.out, held |-> r.held, moved |-> r.moved, state |-> r.state,
                  wrong |-> r.wrong, good |-> r.good]

\* A step that leaves the history alone.
SameMarks == lib'.wrong = lib.wrong /\ lib'.good = lib.good

\* What the program has got out of the library, and what it has not put in.
Output == (written \o outStr) \o lib.out
Input == lib.in \o zfile

\* Between two calls the buffers are empty; the last call comes when all was
\* read; a full buffer is never passed over.
Standing ==
  /\ zstep \in {"read", "loop", "finish"}
  /\ zstep = "read" => lib.out = << >> /\ outStr = << >> /\ (lib.state = "run" => lib.in = << >>)
  /\ zstep = "finish" => lib.in = << >> /\ zfile = << >>
  /\ ~lib.moved => lib.out = << >>

Deflating ==
  /\ lib \in LibType(ZBytes, Units, ZBytes)
  /\ zfile \in Seq(ZBytes) /\ written \in Seq(Units) /\ outStr \in Seq(Units)
  /\ Standing
  /\ lib.state \in {"run", "ended"}
  /\ lib.state = "run" => Made(original, Output, lib.held \o Input)
  /\ lib.state = "ended" => zstep = "finish" /\ lib.held = << >> /\ Whole(original, Output)

\* No damage has been decoded so far.
OnTheWay ==
  /\ lib.state = "run" => /\ Starts(original, Output \o lib.held)
                          /\ Leads(original, Input, Len(Output \o lib.held), damage)
  /\ lib.state = "ended" => Output = original
  /\ lib.state = "bad" => Starts(original, Output) /\ damage = "bad"

\* Damage has been decoded.
Astray ==
  /\ damage = "bad" /\ lib.state # "ended" /\ Right(original, Output, lib.good)
  /\ lib.state = "run" => lib.good =< Len(Output)

Inflating ==
  /\ lib \in LibType(Units, ZBytes, ZBytes)
  /\ zfile \in Seq(Units) /\ written \in Seq(ZBytes) /\ outStr \in Seq(ZBytes)
  /\ Standing
  /\ lib.state # "run" => lib.held = << >>
  /\ IF lib.wrong THEN Astray ELSE OnTheWay

\* The program is done and has written what it should.
Written ==
  /\ written \in Seq(ZBytes) /\ lib.wrong \in BOOLEAN
  /\ IF lib.wrong THEN damage = "bad" /\ Right(original, written, lib.good) ELSE Starts(original, written)
  /\ damage \in {"none", "more"} => written = original

\* The inductive invariant.
ZlibInv ==
  /\ original \in Seq(ZBytes)
  /\ zprogram = "deflate" => Deflating
  /\ zprogram = "damage" => /\ written \in Seq(Units) /\ Whole(original, written)
                            /\ outStr = << >> /\ zstep = "read"
  /\ zprogram = "inflate" => Inflating
  /\ zprogram = "done" => Written

(* What a step leaves of the sequences.                                    *)
LEMMA OutputType ==
  ASSUME NEW S, written \in Seq(S), outStr \in Seq(S), lib.out \in Seq(S)
  PROVE  Output \in Seq(S) /\ written \o outStr \in Seq(S)
BY ConcatProperties DEF Output

(* The beginning of a beginning.                                           *)
LEMMA StartsLess ==
  ASSUME NEW o \in Seq(ZBytes), NEW s \in Seq(ZBytes), NEW t \in Seq(ZBytes), Starts(o, s \o t)
  PROVE  Starts(o, s)
<1>1. Len(s \o t) = Len(s) + Len(t) /\ Len(s) \in Nat /\ Len(t) \in Nat /\ Len(o) \in Nat
  BY ConcatProperties, LenProperties
<1>2. \A k \in 1 .. Len(s) : (s \o t)[k] = s[k] /\ k \in 1 .. Len(s \o t)
  BY <1>1, ConcatProperties
<1> QED
  BY <1>1, <1>2 DEF Starts

(* An empty buffer adds nothing.                                           *)
LEMMA OutputEmpty ==
  ASSUME NEW S, written \in Seq(S), outStr = << >>, lib.out = << >>
  PROVE  Output = written
BY ConcatEmptySeq DEF Output

LEMMA OutputNoBuffer ==
  ASSUME NEW S, written \in Seq(S), outStr \in Seq(S), lib.out = << >>
  PROVE  Output = written \o outStr
BY ConcatEmptySeq, ConcatProperties DEF Output

(* fread: the block and the rest of the file are the file.                 *)
LEMMA BlockRead ==
  ASSUME NEW S, NEW O, NEW H, lib \in LibType(S, O, H), zfile \in Seq(S), ReadBlock
  PROVE  /\ lib'.in \in Seq(S) /\ zfile' \in Seq(S) /\ Input' = zfile
         /\ zstep' \in {"loop", "finish"} /\ (zstep' = "finish" => lib'.in = << >> /\ zfile' = << >>)
<1> DEFINE n == Min({BlockSize, Len(zfile)})
<1>1. Len(zfile) \in Nat /\ BlockSize \in Nat \ {0}
  BY ZlibAssumption, LenProperties
<1>2. n \in Nat /\ n =< Len(zfile) /\ n \in {BlockSize, Len(zfile)}
  BY <1>1, LesserOfTwo
<1>3. /\ lib' = [lib EXCEPT !.in = SubSeq(zfile, 1, n), !.out = << >>, !.moved = FALSE]
      /\ zfile' = SubSeq(zfile, n + 1, Len(zfile))
      /\ zstep' = IF n = 0 THEN "finish" ELSE "loop"
  BY DEF ReadBlock
<1> HIDE DEF n
<1>4. lib'.in = SubSeq(zfile, 1, n)
  BY <1>3 DEF LibType
<1>5. SubSeq(zfile, 1, n) \in Seq(S)
  <2>1. \A i \in 1 .. n : zfile[i] \in S
    BY <1>1, <1>2, ElementOfSeq
  <2> QED
    BY <1>2, <2>1, SubSeqProperties
<1>6. zfile' \in Seq(S)
  <2>1. \A i \in n + 1 .. Len(zfile) : zfile[i] \in S
    BY <1>1, <1>2, ElementOfSeq
  <2> QED
    BY <1>1, <1>2, <1>3, <2>1, SubSeqProperties
<1>7. SubSeq(zfile, 1, n) \o SubSeq(zfile, n + 1, Len(zfile)) = SubSeq(zfile, 1, Len(zfile))
  <2>1. 1 \in 1 .. Len(zfile) + 1 /\ n \in 1 - 1 .. Len(zfile) /\ Len(zfile) \in n .. Len(zfile)
    BY <1>1, <1>2
  <2> QED
    BY <2>1, ConcatAdjacentSubSeq
<1>8. Input' = zfile
  BY <1>3, <1>4, <1>7, SubSeqFull DEF Input
<1>9. zstep' = "finish" => n = 0 /\ Len(zfile) = 0
  BY <1>1, <1>2, <1>3
<1>10. zstep' = "finish" => lib'.in = << >> /\ zfile' = << >>
  BY <1>3, <1>4, <1>9, SubSeqEmpty
<1> QED
  BY <1>3, <1>4, <1>5, <1>6, <1>8, <1>10

----------------------------------------------------------------------------
(* The steps of compressOneFile *)

(* A step that changes neither what has been made nor what is left.        *)
LEMMA SameMade ==
  ASSUME UNCHANGED original, Output' = Output, lib'.held \o Input' = lib.held \o Input,
         Made(original, Output, lib.held \o Input)
  PROVE  Made(original, Output, lib.held \o Input)'
BY DEF Made, Spelt, Remains, Run

LEMMA DeflateReads ==
  ASSUME original \in Seq(ZBytes), Deflating, zprogram = "deflate", ReadBlock
  PROVE  Deflating'
<1>1. /\ lib'.in \in Seq(ZBytes) /\ zfile' \in Seq(ZBytes) /\ Input' = zfile /\ zstep' \in {"loop", "finish"}
      /\ zstep' = "finish" => lib'.in = << >> /\ zfile' = << >>
  BY BlockRead DEF Deflating
<1>2. /\ lib.out = << >> /\ outStr = << >> /\ lib.state = "run" /\ lib.in = << >>
      /\ outStr' = << >> /\ UNCHANGED <<original, written>>
  BY DEF Deflating, Standing, ReadBlock
<1>3. lib'.out = << >> /\ lib'.moved = FALSE /\ lib'.held = lib.held /\ lib'.state = lib.state /\ SameMarks
  BY DEF ReadBlock, Deflating, LibType, Fields, SameMarks
<1>4. lib' \in LibType(ZBytes, Units, ZBytes)
  <2>1. Fields(lib')
    BY DEF ReadBlock, Deflating, LibType, Fields, SameMarks
  <2>2. << >> \in Seq(Units) /\ lib.held \in Seq(ZBytes) /\ lib.wrong \in BOOLEAN /\ lib.good \in Nat
    BY EmptySeq DEF Deflating, LibType
  <2> QED
    BY <1>1, <1>2, <1>3, <2>1, <2>2 DEF LibType, Fields, SameMarks
<1>5. Output' = written /\ Output = written
  BY <1>2, <1>3, ConcatEmptySeq DEF Deflating, Output
<1>6. Input = zfile
  BY <1>2, ConcatEmptySeq DEF Deflating, Input
<1>7. Made(original, Output, lib.held \o Input)'
  BY <1>1, <1>2, <1>3, <1>5, <1>6, SameMade DEF Deflating
<1>8. Standing'
  BY <1>1, <1>3 DEF Standing
<1>9. << >> \in Seq(Units)
  BY EmptySeq
<1> QED
  BY <1>1, <1>2, <1>3, <1>4, <1>7, <1>8, <1>9 DEF Deflating

LEMMA DeflateTook ==
  ASSUME original \in Seq(ZBytes), Deflating, DeflateTakes
  PROVE  Deflating'
<1>1. /\ lib' = [lib EXCEPT !.in = Tail(@), !.held = Append(@, Head(lib.in)), !.moved = TRUE]
      /\ lib.in # << >> /\ zstep \in {"loop", "finish"}
      /\ UNCHANGED <<original, zfile, written, outStr, zstep>>
  BY DEF DeflateTakes, Library, InLibrary
<1>2. zstep = "loop" /\ lib.state = "run"
  BY <1>1 DEF Deflating, Standing
<1>3. /\ lib.in \in Seq(ZBytes) /\ lib.held \in Seq(ZBytes) /\ lib.out \in Seq(Units)
      /\ lib.wrong \in BOOLEAN /\ lib.good \in Nat
  BY DEF Deflating, LibType
<1>4. Head(lib.in) \in ZBytes /\ Tail(lib.in) \in Seq(ZBytes) /\ Append(lib.held, Head(lib.in)) \in Seq(ZBytes)
  BY <1>1, <1>3, HeadTailProperties, AppendProperties
<1>5. /\ lib'.in = Tail(lib.in) /\ lib'.held = Append(lib.held, Head(lib.in)) /\ lib'.moved = TRUE
      /\ lib'.out = lib.out /\ lib'.state = lib.state
      /\ SameMarks
  BY <1>1 DEF Deflating, LibType, Fields, SameMarks
<1>6. lib' \in LibType(ZBytes, Units, ZBytes)
  <2>1. Fields(lib')
    BY <1>1 DEF Deflating, LibType, Fields, SameMarks
  <2> QED
    BY <1>2, <1>3, <1>4, <1>5, <2>1 DEF LibType, Fields, SameMarks
<1>7. Output' = Output
  BY <1>1, <1>5 DEF Output
<1>8. lib'.held \o Input' = lib.held \o Input
  <2>1. Tail(lib.in) \o zfile = Tail(lib.in \o zfile) /\ Head(lib.in \o zfile) = Head(lib.in) /\ lib.in \o zfile # << >>
    BY <1>1, <1>3, TailOfBoth DEF Deflating
  <2>2. lib.in \o zfile \in Seq(ZBytes)
    BY <1>3, ConcatProperties DEF Deflating
  <2>3. Append(lib.held, Head(lib.in \o zfile)) \o Tail(lib.in \o zfile) = lib.held \o (lib.in \o zfile)
    BY <1>3, <2>1, <2>2, MoveOne
  <2> QED
    BY <1>1, <1>5, <2>1, <2>3 DEF Input
<1>9. Made(original, Output, lib.held \o Input)'
  BY <1>1, <1>2, <1>7, <1>8, SameMade DEF Deflating
<1>10. Standing'
  BY <1>1, <1>2, <1>5 DEF Standing
<1> QED
  BY <1>1, <1>2, <1>5, <1>6, <1>9, <1>10 DEF Deflating

(* A unit that is added to the buffer.                                     *)
LEMMA OutputMore ==
  ASSUME NEW S, written \in Seq(S), outStr \in Seq(S), lib.out \in Seq(S), NEW x \in S,
         UNCHANGED <<written, outStr>>, lib'.out = Append(lib.out, x)
  PROVE  Output' = Append(Output, x) /\ lib'.out \in Seq(S)
<1> DEFINE w == written \o outStr
           t == lib.out
<1>1. w \in Seq(S) /\ t \in Seq(S)
  BY ConcatProperties
<1>2. Output = w \o t /\ Output' = w \o Append(t, x) /\ lib'.out = Append(t, x)
  BY DEF Output
<1> HIDE DEF w, t
<1>3. w \o Append(t, x) = Append(w \o t, x)
  BY <1>1, AppendBehind
<1>4. Append(t, x) \in Seq(S)
  BY <1>1, AppendProperties
<1> QED
  BY <1>2, <1>3, <1>4

LEMMA DeflateEmitted ==
  ASSUME original \in Seq(ZBytes), Deflating, DeflateEmits
  PROVE  Deflating'
<1>1. zstep \in {"loop", "finish"} /\ UNCHANGED <<original, zfile, written, outStr, zstep>>
  BY DEF DeflateEmits, Library, InLibrary
<1>2. /\ lib.in \in Seq(ZBytes) /\ lib.held \in Seq(ZBytes) /\ lib.out \in Seq(Units)
      /\ lib.wrong \in BOOLEAN /\ lib.good \in Nat
      /\ written \in Seq(Units) /\ outStr \in Seq(Units) /\ zfile \in Seq(ZBytes)
  BY DEF Deflating, LibType
<1>3. Output \in Seq(Units) /\ Input \in Seq(ZBytes)
  BY <1>2, ConcatProperties DEF Output, Input
<1>4. ASSUME NEW n \in 1 .. Min({MaxRun, Len(lib.held)}), \A k \in 1 .. n : lib.held[k] = lib.held[1],
             lib' = [lib EXCEPT !.held = SubSeq(@, n + 1, Len(@)),
                                !.out = Append(@, [b |-> lib.held[1], n |-> n]), !.moved = TRUE]
      PROVE  Deflating'
  <2> DEFINE x == [b |-> lib.held[1], n |-> n]
             g == SubSeq(lib.held, n + 1, Len(lib.held))
  <2>1. Len(lib.held) \in Nat /\ n \in 1 .. Len(lib.held)
    <3>1. Len(lib.held) \in Nat /\ MaxRun \in Nat
      BY <1>2, LenProperties, ZlibAssumption
    <3>2. Min({MaxRun, Len(lib.held)}) \in Nat /\ Min({MaxRun, Len(lib.held)}) =< Len(lib.held)
      BY <3>1, LesserOfTwo
    <3> QED
      BY <3>1, <3>2
  <2>2. lib.state = "run"
    <3>1. lib.held # << >>
      BY <2>1
    <3> QED
      BY <3>1 DEF Deflating
  <2>3. x \in Units /\ Made(original, Append(Output, x), g \o Input)
    BY <1>2, <1>3, <1>4, <2>1, <2>2, MadeMore DEF Deflating
  <2>4. g \in Seq(ZBytes)
    <3>1. \A i \in n + 1 .. Len(lib.held) : lib.held[i] \in ZBytes
      BY <1>2, <2>1, ElementOfSeq
    <3> QED
      BY <2>1, <3>1, SubSeqProperties
  <2>5. /\ lib'.in = lib.in /\ lib'.held = g /\ lib'.moved = TRUE
        /\ lib'.out = Append(lib.out, x) /\ lib'.state = lib.state
        /\ SameMarks
        /\ Fields(lib')
    BY <1>4 DEF Deflating, LibType, Fields, SameMarks
  <2> HIDE DEF x, g
  <2>6. Output' = Append(Output, x) /\ lib'.out \in Seq(Units)
    BY <1>1, <1>2, <2>3, <2>5, OutputMore
  <2>7. lib' \in LibType(ZBytes, Units, ZBytes)
    BY <1>2, <2>2, <2>4, <2>5, <2>6 DEF LibType, Fields, SameMarks
  <2>8. Input' = Input
    BY <1>1, <2>5 DEF Input
  <2>9. Made(original, Output, lib.held \o Input)'
    BY <1>1, <2>3, <2>5, <2>6, <2>8
  <2>10. Standing'
    BY <1>1, <2>5 DEF Deflating, Standing
  <2> QED
    BY <1>1, <1>2, <2>2, <2>5, <2>7, <2>9, <2>10 DEF Deflating
<1>5. ASSUME zstep = "finish", lib.held = << >>, lib.state = "run",
             lib' = [lib EXCEPT !.out = Append(@, End), !.moved = TRUE, !.state = "ended"]
      PROVE  Deflating'
  <2>1. /\ lib'.in = lib.in /\ lib'.held = lib.held /\ lib'.moved = TRUE
        /\ lib'.out = Append(lib.out, End) /\ lib'.state = "ended" /\ SameMarks
        /\ Fields(lib')
    BY <1>5 DEF Deflating, LibType, Fields, SameMarks
  <2>2. Output' = Append(Output, End) /\ lib'.out \in Seq(Units)
    BY <1>1, <1>2, <2>1, OutputMore, EndIsUnit
  <2>3. lib' \in LibType(ZBytes, Units, ZBytes)
    BY <1>2, <2>1, <2>2 DEF LibType, Fields, SameMarks
  <2>4. lib.held \o Input = << >>
    BY <1>5 DEF Deflating, Standing, Input
  <2>5. Spelt(original, Output, Len(original))
    <3>1. PICK p \in Nat : Spelt(original, Output, p) /\ Remains(original, << >>, p)
      BY <1>5, <2>4 DEF Deflating, Made
    <3>2. Len(original) = p
      BY <3>1 DEF Remains
    <3> QED
      BY <3>1, <3>2
  <2>6. Whole(original, Output)'
    BY <1>1, <1>3, <2>2, <2>5 DEF Whole
  <2>7. Standing'
    BY <1>1, <2>1 DEF Deflating, Standing
  <2> QED
    BY <1>1, <1>2, <1>5, <2>1, <2>3, <2>6, <2>7 DEF Deflating
<1> QED
  BY <1>4, <1>5 DEF DeflateEmits

(* Three pieces together.                                                  *)
LEMMA ThreePieces ==
  ASSUME NEW S, NEW w \in Seq(S), NEW s \in Seq(S), NEW t \in Seq(S)
  PROVE  /\ s \o t \in Seq(S) /\ w \o (s \o t) \in Seq(S) /\ << >> \in Seq(S)
         /\ (w \o s) \o t = w \o (s \o t)
         /\ (w \o (s \o t)) \o << >> = w \o (s \o t)
<1>1. s \o t \in Seq(S) /\ << >> \in Seq(S)
  BY ConcatProperties, EmptySeq
<1>2. w \o (s \o t) \in Seq(S)
  BY <1>1, ConcatProperties
<1>3. (w \o s) \o t = w \o (s \o t)
  BY ConcatAssociative
<1>4. (w \o (s \o t)) \o << >> = w \o (s \o t)
  BY <1>2, ConcatEmptySeq
<1> QED
  BY <1>1, <1>2, <1>3, <1>4

(* The buffer is appended to outStr, or both are written: nothing is lost. *)
LEMMA OutputKept ==
  ASSUME NEW S, written \in Seq(S), outStr \in Seq(S), lib.out \in Seq(S), lib'.out = << >>,
         \/ outStr' = outStr \o lib.out /\ written' = written
         \/ written' = written \o (outStr \o lib.out) /\ outStr' = << >>
  PROVE  Output' = Output /\ written' \in Seq(S) /\ outStr' \in Seq(S)
<1>1. PICK w \in Seq(S), s \in Seq(S), t \in Seq(S) : w = written /\ s = outStr /\ t = lib.out
  OBVIOUS
<1>2. /\ s \o t \in Seq(S) /\ w \o (s \o t) \in Seq(S) /\ << >> \in Seq(S)
      /\ (w \o s) \o t = w \o (s \o t)
      /\ (w \o (s \o t)) \o << >> = w \o (s \o t)
  BY ThreePieces, SMTT(60)
<1>3. Output = w \o (s \o t)
  BY <1>1, <1>2 DEF Output
<1>4. CASE outStr' = s \o t /\ written' = w
  BY <1>2, <1>3, <1>4 DEF Output
<1>5. CASE written' = w \o (s \o t) /\ outStr' = << >>
  BY <1>2, <1>3, <1>5 DEF Output
<1> QED
  BY <1>1, <1>4, <1>5

(* The fields that AppendBuffer and the ends of a call leave alone.        *)
LEMMA BufferEmptied ==
  ASSUME NEW I, NEW O, NEW H, lib \in LibType(I, O, H),
         \/ lib' = [lib EXCEPT !.out = << >>, !.moved = FALSE]
         \/ lib' = [lib EXCEPT !.out = << >>]
  PROVE  /\ lib' \in LibType(I, O, H) /\ lib'.out = << >>
         /\ lib'.in = lib.in /\ lib'.held = lib.held /\ lib'.state = lib.state
         /\ SameMarks
<1>1. << >> \in Seq(O)
  BY EmptySeq
<1>2. /\ lib'.out = << >> /\ lib'.moved \in BOOLEAN
      /\ lib'.in = lib.in /\ lib'.held = lib.held /\ lib'.state = lib.state
      /\ SameMarks
      /\ Fields(lib')
  BY DEF LibType, Fields, SameMarks
<1> QED
  BY <1>1, <1>2 DEF LibType, Fields, SameMarks

(* All that came out of the library is kept, and the call goes on.         *)
LEMMA DeflateGoesOn ==
  ASSUME original \in Seq(ZBytes), Deflating, lib.state = "run", AppendBuffer,
         UNCHANGED <<original, zfile, written, zstep>>, zstep \in {"loop", "finish"}
  PROVE  Deflating'
<1>1. /\ lib' \in LibType(ZBytes, Units, ZBytes) /\ lib'.out = << >>
      /\ lib'.in = lib.in /\ lib'.held = lib.held /\ lib'.state = lib.state
      /\ SameMarks
  BY BufferEmptied DEF AppendBuffer, Deflating
<1>2. Output' = Output /\ outStr' \in Seq(Units)
  BY <1>1, OutputKept DEF AppendBuffer, Deflating, LibType
<1>3. Input' = Input
  BY <1>1 DEF Input
<1>4. Made(original, Output, lib.held \o Input)'
  BY <1>1, <1>2, <1>3, SameMade DEF Deflating
<1>5. Standing'
  BY <1>1 DEF Standing, Deflating
<1> QED
  BY <1>1, <1>2, <1>4, <1>5 DEF Deflating

(* The call ends, all was taken and nothing is lost.                       *)
LEMMA DeflateCallEnds ==
  ASSUME original \in Seq(ZBytes), Deflating, lib.state = "run", lib.in = << >>,
         lib' = [lib EXCEPT !.out = << >>], written' = written \o (outStr \o lib.out), outStr' = << >>,
         zstep' = "read", UNCHANGED <<original, zfile>>
  PROVE  Deflating'
<1>1. /\ lib' \in LibType(ZBytes, Units, ZBytes) /\ lib'.out = << >>
      /\ lib'.in = lib.in /\ lib'.held = lib.held /\ lib'.state = lib.state
      /\ SameMarks
  BY BufferEmptied DEF Deflating
<1>2. Output' = Output /\ outStr' \in Seq(Units) /\ written' \in Seq(Units)
  BY <1>1, OutputKept DEF Deflating, LibType
<1>3. Input' = Input
  BY <1>1 DEF Input
<1>4. Made(original, Output, lib.held \o Input)'
  BY <1>1, <1>2, <1>3, SameMade DEF Deflating
<1>5. Standing'
  BY <1>1 DEF Standing, Deflating
<1> QED
  BY <1>1, <1>2, <1>4, <1>5 DEF Deflating

LEMMA DeflateLoops ==
  ASSUME original \in Seq(ZBytes), Deflating, zprogram = "deflate", LoopOn
  PROVE  Deflating' /\ zprogram' = "deflate"
<1>1. zstep = "loop" /\ UNCHANGED <<original, zfile>> /\ (lib.in = << >> \/ ~BufferRoom)
  BY DEF LoopOn, DeflateResult, InflateResult
<1>2. lib.state = "run"
  BY <1>1 DEF Deflating
<1>3. CASE ~BufferRoom
  BY <1>1, <1>2, <1>3, DeflateGoesOn DEF LoopOn
<1>4. CASE BufferRoom
  BY <1>1, <1>2, <1>4, DeflateCallEnds DEF LoopOn, Return
<1> QED
  BY <1>3, <1>4

LEMMA DeflateFinishes ==
  ASSUME original \in Seq(ZBytes), Deflating, FinishOn
  PROVE  Deflating'
<1>1. zstep = "finish" /\ lib.state = "run"
  BY DEF FinishOn, DeflateResult
<1> QED
  BY <1>1, DeflateGoesOn DEF FinishOn

(* Z_BUF_ERROR: the call returns -1 and does not append the buffer, but    *)
(* nothing is in it.                                                       *)
LEMMA DeflateRefuses ==
  ASSUME original \in Seq(ZBytes), Deflating, zprogram = "deflate", ReturnsError
  PROVE  Deflating' /\ zprogram' = "deflate"
<1>1. zstep = "loop" /\ lib.in = << >> /\ ~lib.moved
  BY DEF ReturnsError, DeflateResult, InflateResult
<1>2. lib.state = "run" /\ lib.out = << >>
  BY <1>1 DEF Deflating, Standing
<1>3. outStr \o lib.out = outStr
  BY <1>2, ConcatEmptySeq DEF Deflating
<1> QED
  BY <1>1, <1>2, <1>3, DeflateCallEnds DEF ReturnsError, Return

(* Z_STREAM_END: the whole compressed file is written.                     *)
LEMMA DeflateEnds ==
  ASSUME original \in Seq(ZBytes), Deflating, zprogram = "deflate", StreamEnd
  PROVE  /\ zprogram' = "damage" /\ written' \in Seq(Units) /\ Whole(original, written')
         /\ outStr' = << >> /\ zstep' = "read"
<1>1. zstep = "finish" /\ lib.state = "ended"
  BY DEF StreamEnd, DeflateResult, InflateResult
<1>2. /\ written' = written \o (outStr \o lib.out) /\ outStr' = << >> /\ zstep' = "read" /\ zprogram' = "damage"
      /\ lib' = [lib EXCEPT !.out = << >>]
  BY <1>1 DEF StreamEnd, Return
<1>3. lib'.out = << >>
  BY <1>2, BufferEmptied DEF Deflating
<1>4. Output' = Output /\ written' \in Seq(Units)
  BY <1>2, <1>3, OutputKept DEF Deflating, LibType
<1>5. Output' = written'
  <2>1. written' \o << >> = written'
    BY <1>4, ConcatEmptySeq
  <2> QED
    BY <1>2, <1>3, <2>1 DEF Output
<1>6. Whole(original, Output)
  BY <1>1 DEF Deflating
<1> QED
  BY <1>2, <1>4, <1>5, <1>6

----------------------------------------------------------------------------
(* Between the programs *)

(* The first n units.                                                      *)
LEMMA FirstUnits ==
  ASSUME NEW S, NEW u \in Seq(S), NEW n \in 0 .. Len(u)
  PROVE  /\ SubSeq(u, 1, n) \in Seq(S) /\ Len(SubSeq(u, 1, n)) = n
         /\ \A i \in 1 .. n : SubSeq(u, 1, n)[i] = u[i]
OBVIOUS

(* Whatever happens to the file, it leads on from the first place.         *)
LEMMA DamageLeads ==
  ASSUME NEW o \in Seq(ZBytes), NEW u \in Seq(Units), NEW z, NEW d, Whole(o, u),
         \/ d = "none" /\ z = u
         \/ d = "cut" /\ \E n \in 0 .. Len(u) - 1 : z = SubSeq(u, 1, n)
         \/ d = "more" /\ z = u \o u
         \/ d = "bad" /\ \E n \in DOMAIN u : z = [u EXCEPT ![n] = Bad]
  PROVE  z \in Seq(Units) /\ Leads(o, z, 0, d)
<1>1. PICK v \in Seq(Units) : u = Append(v, End) /\ Spelt(o, v, Len(o))
  BY DEF Whole
<1>2. PICK st \in [Nat -> Int] :
        st[0] = 0 /\ st[Len(v)] = Len(o) /\ \A k \in 1 .. Len(v) : Run(o, v[k], st[k - 1], st[k])
  BY <1>1 DEF Spelt
<1>3. /\ Len(v) \in Nat /\ Len(u) = Len(v) + 1 /\ u[Len(v) + 1] = End
      /\ \A k \in 1 .. Len(v) : u[k] = v[k]
  BY <1>1, AppendProperties, EndIsUnit, LenProperties
<1>4. \A k \in 1 .. Len(v) : Run(o, u[k], st[k - 1], st[k])
  BY <1>2, <1>3
<1>5. CASE d = "none" /\ z = u
  <2>1. Len(v) \in 0 .. Len(z) /\ Len(v) # Len(z)
    BY <1>3, <1>5
  <2> QED
    BY <1>2, <1>3, <1>4, <1>5, <2>1 DEF Leads
<1>6. CASE d = "cut" /\ \E n \in 0 .. Len(u) - 1 : z = SubSeq(u, 1, n)
  <2>1. PICK n \in 0 .. Len(u) - 1 : z = SubSeq(u, 1, n)
    BY <1>6
  <2>2. n \in 0 .. Len(u) /\ n \in 0 .. Len(v)
    BY <1>3
  <2>3. z \in Seq(Units) /\ Len(z) = n /\ \A i \in 1 .. n : z[i] = u[i]
    BY <2>1, <2>2, FirstUnits
  <2>4. \A k \in 1 .. n : k \in 1 .. Len(v)
    BY <1>3, <2>2
  <2>5. \A k \in 1 .. n : Run(o, z[k], st[k - 1], st[k])
    BY <1>4, <2>3, <2>4
  <2>6. n \in 0 .. Len(z)
    BY <2>2, <2>3
  <2> QED
    BY <1>2, <1>6, <2>3, <2>5, <2>6 DEF Leads
<1>7. CASE d = "more" /\ z = u \o u
  <2>1. /\ z \in Seq(Units) /\ Len(z) = Len(u) + Len(u)
        /\ \A i \in 1 .. Len(u) + Len(u) : z[i] = IF i <= Len(u) THEN u[i] ELSE u[i - Len(u)]
    BY <1>7, ConcatProperties
  <2>2. \A i \in 1 .. Len(v) + 1 : z[i] = u[i]
    BY <1>3, <2>1, SMTT(60)
  <2>3. Len(v) \in 0 .. Len(z) /\ Len(v) # Len(z) /\ z[Len(v) + 1] = End
    BY <1>3, <2>1, <2>2, SMTT(60)
  <2>4. \A k \in 1 .. Len(v) : Run(o, z[k], st[k - 1], st[k])
    BY <1>3, <1>4, <2>2, SMTT(60)
  <2> QED
    BY <1>2, <2>1, <2>3, <2>4 DEF Leads
<1>8. CASE d = "bad" /\ \E n \in DOMAIN u : z = [u EXCEPT ![n] = Bad]
  <2>1. PICK n \in 1 .. Len(u) : z = [u EXCEPT ![n] = Bad]
    BY <1>8, LenProperties
  <2>2. /\ z \in Seq(Units) /\ Len(z) = Len(u)
        /\ \A j \in 1 .. Len(u) : z[j] = IF j = n THEN Bad ELSE u[j]
    BY <2>1, ExceptSeq, EndIsUnit
  <2>3. n - 1 \in 0 .. Len(z) /\ n - 1 # Len(z) /\ z[(n - 1) + 1] = Bad
    BY <1>3, <2>2, SMTT(60)
  <2>4. ASSUME NEW k \in 1 .. n - 1 PROVE Run(o, z[k], st[k - 1], st[k])
    <3>1. n \in Int /\ k \in Int /\ 1 =< k /\ k =< n - 1 /\ n =< Len(u)
      OBVIOUS
    <3>2. Len(v) \in Nat /\ Len(u) = Len(v) + 1
      BY <1>3
    <3>3. k \in 1 .. Len(v) /\ k \in 1 .. Len(u) /\ k # n
      BY <3>1, <3>2, SMTT(60)
    <3> QED
      BY <1>4, <2>2, <3>3
  <2> QED
    BY <1>2, <1>8, <2>2, <2>3, <2>4 DEF Leads
<1> QED
  BY <1>5, <1>6, <1>7, <1>8

LEMMA DamageKeeps ==
  ASSUME ZlibInv, Damage
  PROVE  ZlibInv'
<1>1. /\ original \in Seq(ZBytes) /\ written \in Seq(Units) /\ Whole(original, written)
      /\ outStr = << >> /\ zstep = "read"
  BY DEF ZlibInv, Damage
<1>2. /\ zprogram' = "inflate" /\ written' = << >> /\ lib' = NewLib /\ UNCHANGED <<original, outStr, zstep>>
      /\ \/ damage' = "none" /\ zfile' = written
         \/ damage' = "cut" /\ \E n \in 0 .. Len(written) - 1 : zfile' = SubSeq(written, 1, n)
         \/ damage' = "more" /\ zfile' = written \o written
         \/ damage' = "bad" /\ \E n \in DOMAIN written : zfile' = [written EXCEPT ![n] = Bad]
  BY DEF Damage
<1>3. zfile' \in Seq(Units) /\ Leads(original, zfile', 0, damage')
  BY <1>1, <1>2, DamageLeads
<1>4. /\ lib' \in LibType(Units, ZBytes, ZBytes) /\ lib'.in = << >> /\ lib'.out = << >> /\ lib'.held = << >>
      /\ lib'.state = "run" /\ lib'.wrong = FALSE
  BY <1>2 DEF NewLib, LibType
<1>5. << >> \in Seq(ZBytes) /\ << >> \o << >> = << >> /\ Len(<< >>) = 0
  OBVIOUS
<1>6. Output' = << >> /\ Output' \o lib'.held = << >>
  BY <1>1, <1>2, <1>4, <1>5 DEF Output
<1>7. Input' = zfile'
  BY <1>3, <1>4, ConcatEmptySeq DEF Input
<1>8. Starts(original, << >>)
  BY <1>1 DEF Starts
<1>9. Standing'
  BY <1>1, <1>2, <1>4 DEF Standing
<1>10. Starts(original', Output' \o lib'.held)
  BY <1>2, <1>6, <1>8
<1>11. Leads(original', Input', Len(Output' \o lib'.held), damage')
  BY <1>2, <1>3, <1>5, <1>6, <1>7
<1>12. Inflating'
  BY <1>1, <1>2, <1>3, <1>4, <1>5, <1>9, <1>10, <1>11 DEF Inflating, OnTheWay
<1> QED
  BY <1>1, <1>2, <1>12 DEF ZlibInv

----------------------------------------------------------------------------
(* The steps of decompressOneFile *)

(* The bytes of the next run go on where the others have ended.            *)
LEMMA RunGoesOn ==
  ASSUME NEW o \in Seq(ZBytes), NEW s \in Seq(ZBytes), NEW x \in Units,
         Starts(o, s), Run(o, x, Len(s), Len(s) + x.n)
  PROVE  /\ [k \in 1 .. x.n |-> x.b] \in Seq(ZBytes)
         /\ Starts(o, s \o [k \in 1 .. x.n |-> x.b])
         /\ Len(s \o [k \in 1 .. x.n |-> x.b]) = Len(s) + x.n
<1> DEFINE h == [k \in 1 .. x.n |-> x.b]
<1>1. x.n \in Nat \ {0} /\ Len(s) \in Nat /\ Len(o) \in Nat
  BY LenProperties DEF Run, Units
<1>2. Len(s) + x.n =< Len(o) /\ \A i \in 1 .. x.n : o[Len(s) + i] = x.b
  BY DEF Run
<1>3. x.b \in ZBytes
  <2>1. 1 \in 1 .. x.n /\ Len(s) + 1 \in 1 .. Len(o)
    BY <1>1, <1>2
  <2> QED
    BY <1>2, <2>1, ElementOfSeq
<1>4. h \in Seq(ZBytes) /\ Len(h) = x.n /\ \A k \in 1 .. x.n : h[k] = x.b
  BY <1>1, <1>3, SMTT(60)
<1> HIDE DEF h
<1>5. /\ Len(s \o h) = Len(s) + x.n
      /\ \A i \in 1 .. Len(s) + x.n : (s \o h)[i] = IF i <= Len(s) THEN s[i] ELSE h[i - Len(s)]
  BY <1>4, ConcatProperties, SMTT(60)
<1>6. ASSUME NEW i \in 1 .. Len(s) + x.n PROVE (s \o h)[i] = o[i]
  <2>1. CASE i =< Len(s)
    <3>1. i \in 1 .. Len(s)
      BY <1>1, <2>1
    <3> QED
      BY <1>5, <2>1, <3>1 DEF Starts
  <2>2. CASE ~(i =< Len(s))
    <3>1. i - Len(s) \in 1 .. x.n /\ Len(s) + (i - Len(s)) = i
      BY <1>1, <2>2
    <3>2. o[Len(s) + (i - Len(s))] = x.b /\ h[i - Len(s)] = x.b
      BY <1>2, <1>4, <3>1
    <3> QED
      BY <1>5, <2>2, <3>1, <3>2
  <2> QED
    BY <2>1, <2>2
<1>7. Starts(o, s \o h)
  BY <1>2, <1>5, <1>6 DEF Starts
<1> QED
  BY <1>4, <1>5, <1>7 DEF h

LEMMA InflateTypes ==
  ASSUME Inflating
  PROVE  /\ lib.in \in Seq(Units) /\ lib.out \in Seq(ZBytes) /\ lib.held \in Seq(ZBytes) /\ zfile \in Seq(Units)
         /\ written \in Seq(ZBytes) /\ outStr \in Seq(ZBytes) /\ written \o outStr \in Seq(ZBytes)
         /\ Output \in Seq(ZBytes) /\ Input \in Seq(Units) /\ lib.wrong \in BOOLEAN /\ lib.good \in Nat
<1>1. /\ lib.in \in Seq(Units) /\ lib.out \in Seq(ZBytes) /\ lib.held \in Seq(ZBytes)
      /\ lib.wrong \in BOOLEAN /\ lib.good \in Nat
      /\ zfile \in Seq(Units) /\ written \in Seq(ZBytes) /\ outStr \in Seq(ZBytes)
  BY DEF Inflating, LibType
<1>2. written \o outStr \in Seq(ZBytes) /\ lib.in \o zfile \in Seq(Units)
  BY <1>1, ConcatProperties
<1>3. (written \o outStr) \o lib.out \in Seq(ZBytes)
  BY <1>1, <1>2, ConcatProperties
<1> QED
  BY <1>1, <1>2, <1>3 DEF Output, Input

(* A step that moves nothing over the edge of the library.                 *)
LEMMA InflateSame ==
  ASSUME Inflating, lib' \in LibType(Units, ZBytes, ZBytes), lib'.held = lib.held, lib'.state = lib.state, SameMarks,
         lib.state = "run" => Input' = Input,
         Output' = Output, UNCHANGED <<original, damage>>,
         zfile' \in Seq(Units), written' \in Seq(ZBytes), outStr' \in Seq(ZBytes), Standing'
  PROVE  Inflating'
<1>1. CASE lib.wrong
  BY <1>1 DEF Inflating, Astray, SameMarks
<1>2. CASE ~lib.wrong
  BY <1>2 DEF Inflating, OnTheWay, SameMarks
<1> QED
  BY <1>1, <1>2

LEMMA InflateReads ==
  ASSUME Inflating, zprogram = "inflate", ReadBlock
  PROVE  Inflating'
<1>1. /\ lib'.in \in Seq(Units) /\ zfile' \in Seq(Units) /\ Input' = zfile /\ zstep' \in {"loop", "finish"}
      /\ zstep' = "finish" => lib'.in = << >> /\ zfile' = << >>
  BY BlockRead DEF Inflating
<1>2. /\ lib.out = << >> /\ outStr = << >> /\ (lib.state = "run" => lib.in = << >>)
      /\ outStr' = << >> /\ UNCHANGED <<original, written, damage>>
  BY DEF Inflating, Standing, ReadBlock
<1>3. lib'.out = << >> /\ lib'.moved = FALSE /\ lib'.held = lib.held /\ lib'.state = lib.state /\ SameMarks
  BY DEF ReadBlock, Inflating, LibType, Fields, SameMarks
<1>4. lib' \in LibType(Units, ZBytes, ZBytes)
  <2>1. Fields(lib')
    BY DEF ReadBlock, Inflating, LibType, Fields, SameMarks
  <2>2. /\ << >> \in Seq(ZBytes) /\ lib.held \in Seq(ZBytes) /\ lib.state \in {"run", "ended", "bad"}
        /\ lib.wrong \in BOOLEAN /\ lib.good \in Nat
    BY EmptySeq DEF Inflating, LibType
  <2> QED
    BY <1>1, <1>3, <2>1, <2>2 DEF LibType, Fields, SameMarks
<1>5. Output' = Output
  BY <1>2, <1>3 DEF Output
<1>6. lib.state = "run" => Input' = Input
  BY <1>1, <1>2, InflateTypes, ConcatEmptySeq DEF Input
<1>7. Standing'
  BY <1>1, <1>3 DEF Standing
<1>8. outStr' \in Seq(ZBytes) /\ written' \in Seq(ZBytes)
  BY <1>2, EmptySeq DEF Inflating
<1> QED
  BY <1>1, <1>2, <1>3, <1>4, <1>5, <1>6, <1>7, <1>8, InflateSame

LEMMA InflateTook ==
  ASSUME original \in Seq(ZBytes), Inflating, InflateTakes
  PROVE  Inflating'
<1> DEFINE u == Head(lib.in)
<1>1. /\ lib.in # << >> /\ lib.held = << >> /\ lib.state = "run" /\ zstep \in {"loop", "finish"}
      /\ UNCHANGED <<original, zfile, written, outStr, zstep, damage>> /\ u # Bad /\ ~lib.wrong
      /\ lib' = [lib EXCEPT !.in = Tail(@), !.moved = TRUE, !.held = [k \in 1 .. u.n |-> u.b],
                            !.state = IF u = End THEN "ended" ELSE "run"]
  BY DEF InflateTakes, Library, InLibrary
<1>2. zstep = "loop"
  BY <1>1 DEF Inflating, Standing
<1>3. u \in Units /\ Tail(lib.in) \in Seq(Units)
  BY <1>1, InflateTypes, HeadTailProperties
<1>4. Input # << >> /\ Head(Input) = u /\ Tail(Input) = Tail(lib.in) \o zfile
  BY <1>1, InflateTypes, TailOfBoth DEF Input
<1>5. Output \o lib.held = Output /\ Len(Output) \in Nat
  BY <1>1, InflateTypes, ConcatEmptySeq, LenProperties
<1>6. /\ lib'.in = Tail(lib.in) /\ lib'.moved = TRUE /\ lib'.out = lib.out /\ lib'.held = [k \in 1 .. u.n |-> u.b]
      /\ lib'.state = (IF u = End THEN "ended" ELSE "run") /\ SameMarks
      /\ Fields(lib')
  BY <1>1 DEF Inflating, LibType, Fields, SameMarks
<1>7. Output' = Output /\ Input' = Tail(Input)
  BY <1>1, <1>4, <1>6 DEF Output, Input
<1>8. Starts(original, Output) /\ Leads(original, Input, Len(Output), damage)
  BY <1>1, <1>5 DEF Inflating, OnTheWay
<1>9. Standing'
  BY <1>1, <1>2, <1>6 DEF Standing
<1>10. ASSUME lib'.held \in Seq(ZBytes), lib'.state \in {"run", "ended", "bad"}
       PROVE  lib' \in LibType(Units, ZBytes, ZBytes)
  BY <1>3, <1>6, <1>10, InflateTypes DEF LibType, Fields, SameMarks
<1> HIDE DEF u
<1>11. CASE u = End /\ Len(Output) = Len(original)
  <2>1. lib'.state = "ended" /\ lib'.held = << >>
    BY <1>6, <1>11, EndIsUnit
  <2>2. Output = original
    BY <1>8, <1>11, InflateTypes, SeqEqual DEF Starts
  <2>3. lib' \in LibType(Units, ZBytes, ZBytes)
    BY <1>10, <2>1, EmptySeq
  <2> QED
    BY <1>1, <1>6, <1>7, <1>9, <2>1, <2>2, <2>3, InflateTypes DEF Inflating, OnTheWay, SameMarks
<1>12. CASE Run(original, u, Len(Output), Len(Output) + u.n) /\ Leads(original, Tail(Input), Len(Output) + u.n, damage)
  <2>1. u # End
    BY <1>12, EndIsUnit DEF Run
  <2>2. lib'.state = "run"
    BY <1>6, <2>1
  <2>3. /\ lib'.held \in Seq(ZBytes) /\ Starts(original, Output \o lib'.held)
        /\ Len(Output \o lib'.held) = Len(Output) + u.n
    <3>1. PICK s \in Seq(ZBytes), x \in Units : s = Output /\ x = u
      BY <1>3, InflateTypes
    <3>2. Starts(original, s) /\ Run(original, x, Len(s), Len(s) + x.n)
      BY <1>8, <1>12, <3>1
    <3>3. /\ [k \in 1 .. x.n |-> x.b] \in Seq(ZBytes)
          /\ Starts(original, s \o [k \in 1 .. x.n |-> x.b])
          /\ Len(s \o [k \in 1 .. x.n |-> x.b]) = Len(s) + x.n
      BY <3>2, RunGoesOn
    <3> QED
      BY <1>6, <3>1, <3>3
  <2>4. lib' \in LibType(Units, ZBytes, ZBytes)
    BY <1>10, <2>2, <2>3
  <2>5. Starts(original', Output' \o lib'.held) /\ Leads(original', Input', Len(Output' \o lib'.held), damage')
    BY <1>1, <1>7, <1>12, <2>3
  <2> QED
    BY <1>1, <1>6, <1>9, <2>2, <2>4, <2>5, InflateTypes DEF Inflating, OnTheWay, SameMarks
<1> QED
  <2>1. Input \in Seq(Units)
    BY InflateTypes
  <2> QED
    BY <1>1, <1>4, <1>5, <1>8, <1>11, <1>12, <2>1, LeadsOn

(* Damage in the input means that the file was spoilt, or that the library *)
(* has lost its way before.  The output so far is right.                   *)
LEMMA DamageMet ==
  ASSUME original \in Seq(ZBytes), Inflating, zprogram = "inflate", lib.in # << >>, lib.held = << >>, lib.state = "run",
         Head(lib.in) = Bad \/ lib.wrong
  PROVE  /\ damage = "bad"
         /\ ~lib.wrong => Starts(original, Output)
         /\ lib.wrong => Right(original, Output, lib.good) /\ lib.good =< Len(Output)
<1>1. CASE lib.wrong
  BY <1>1 DEF Inflating, Astray
<1>2. CASE ~lib.wrong /\ Head(lib.in) = Bad
  <2>1. Input # << >> /\ Head(Input) = Bad /\ Input \in Seq(Units)
    BY <1>2, InflateTypes, TailOfBoth DEF Input
  <2>2. Output \o lib.held = Output /\ Len(Output) \in Nat
    BY InflateTypes, ConcatEmptySeq, LenProperties
  <2>3. Starts(original, Output) /\ Leads(original, Input, Len(Output), damage)
    BY <1>2, <2>2 DEF Inflating, OnTheWay
  <2>4. Head(Input) # End /\ ~Run(original, Head(Input), Len(Output), Len(Output) + Head(Input).n)
    BY <2>1, EndIsUnit DEF Run
  <2>5. damage = "bad"
    BY <2>1, <2>2, <2>3, <2>4, LeadsOn
  <2> QED
    BY <1>2, <2>3, <2>5
<1> QED
  BY <1>1, <1>2

LEMMA InflateNoticed ==
  ASSUME original \in Seq(ZBytes), Inflating, InflateNotices
  PROVE  Inflating'
<1>1. /\ lib.in # << >> /\ lib.held = << >> /\ lib.state = "run" /\ zstep \in {"loop", "finish"} /\ zprogram = "inflate"
      /\ UNCHANGED <<original, zfile, written, outStr, zstep, damage>>
      /\ Head(lib.in) = Bad \/ lib.wrong
      /\ lib' = [lib EXCEPT !.in = Tail(@), !.moved = TRUE, !.state = "bad"]
  BY DEF InflateNotices, Library, InLibrary
<1>2. zstep = "loop"
  BY <1>1 DEF Inflating, Standing
<1>3. Tail(lib.in) \in Seq(Units)
  BY <1>1, InflateTypes, HeadTailProperties
<1>4. /\ lib'.in = Tail(lib.in) /\ lib'.moved = TRUE /\ lib'.out = lib.out /\ lib'.held = << >>
      /\ lib'.state = "bad" /\ SameMarks
      /\ Fields(lib')
  BY <1>1 DEF Inflating, LibType, Fields, SameMarks
<1>5. lib' \in LibType(Units, ZBytes, ZBytes)
  BY <1>3, <1>4, InflateTypes, EmptySeq DEF LibType, Fields, SameMarks
<1>6. Output' = Output
  BY <1>1, <1>4 DEF Output
<1>7. Standing'
  BY <1>1, <1>2, <1>4 DEF Standing
<1>8. /\ damage = "bad"
      /\ ~lib.wrong => Starts(original, Output)
      /\ lib.wrong => Right(original, Output, lib.good) /\ lib.good =< Len(Output)
  BY <1>1, DamageMet
<1>9. CASE lib.wrong
  BY <1>1, <1>4, <1>5, <1>6, <1>7, <1>8, <1>9, InflateTypes DEF Inflating, Astray, SameMarks
<1>10. CASE ~lib.wrong
  BY <1>1, <1>4, <1>5, <1>6, <1>7, <1>8, <1>10, InflateTypes DEF Inflating, OnTheWay, SameMarks
<1> QED
  BY <1>9, <1>10

LEMMA InflateMistook ==
  ASSUME original \in Seq(ZBytes), Inflating, InflateMistakes
  PROVE  Inflating'
<1>0. PICK n \in 0 .. MaxWrong : \E bytes \in [1 .. n -> ZBytes] :
        lib' = [lib EXCEPT !.in = Tail(@), !.moved = TRUE, !.held = bytes, !.wrong = TRUE,
                           !.good = IF lib.wrong THEN @ ELSE Len(written \o outStr \o lib.out)]
  BY DEF InflateMistakes
<1>1. PICK bytes \in [1 .. n -> ZBytes] :
        lib' = [lib EXCEPT !.in = Tail(@), !.moved = TRUE, !.held = bytes, !.wrong = TRUE,
                           !.good = IF lib.wrong THEN @ ELSE Len(written \o outStr \o lib.out)]
  BY <1>0
<1>2. /\ lib.in # << >> /\ lib.held = << >> /\ lib.state = "run" /\ zstep \in {"loop", "finish"} /\ zprogram = "inflate"
      /\ UNCHANGED <<original, zfile, written, outStr, zstep, damage>>
      /\ Head(lib.in) = Bad \/ lib.wrong
  BY DEF InflateMistakes, Library, InLibrary
<1>3. zstep = "loop"
  BY <1>2 DEF Inflating, Standing
<1>4. Tail(lib.in) \in Seq(Units)
  BY <1>2, InflateTypes, HeadTailProperties
<1>5. bytes \in Seq(ZBytes)
  <2>1. n \in Nat
    BY ZlibAssumption
  <2> QED
    BY <2>1
<1>6. Len(Output) \in Nat
  BY InflateTypes, LenProperties
<1>7. /\ lib'.in = Tail(lib.in) /\ lib'.moved = TRUE /\ lib'.out = lib.out /\ lib'.held = bytes
      /\ lib'.state = "run" /\ lib'.wrong = TRUE /\ lib'.good = (IF lib.wrong THEN lib.good ELSE Len(Output))
      /\ Fields(lib')
  BY <1>1, <1>2 DEF Inflating, LibType, Fields, Output
<1>8. lib' \in LibType(Units, ZBytes, ZBytes)
  BY <1>4, <1>5, <1>6, <1>7, InflateTypes DEF LibType, Fields
<1>9. Output' = Output
  BY <1>2, <1>7 DEF Output
<1>10. Standing'
  BY <1>2, <1>3, <1>7 DEF Standing
<1>11. /\ damage = "bad"
       /\ ~lib.wrong => Starts(original, Output)
       /\ lib.wrong => Right(original, Output, lib.good) /\ lib.good =< Len(Output)
  BY <1>2, DamageMet
<1>12. Right(original, Output, lib'.good) /\ lib'.good =< Len(Output)
  <2>1. CASE lib.wrong
    BY <1>7, <1>11, <2>1
  <2>2. CASE ~lib.wrong
    <3>1. \A k \in 1 .. Len(Output) : k =< Len(original) /\ Output[k] = original[k]
      BY <1>6, <1>11, <2>2, LenProperties DEF Starts
    <3> QED
      BY <1>6, <1>7, <2>2, <3>1 DEF Right
  <2> QED
    BY <2>1, <2>2
<1>13. Astray'
  BY <1>2, <1>7, <1>9, <1>11, <1>12 DEF Astray
<1> QED
  BY <1>2, <1>7, <1>8, <1>10, <1>13, InflateTypes DEF Inflating

(* What comes after the first wrong byte changes nothing before it.        *)
LEMMA RightMore ==
  ASSUME NEW o \in Seq(ZBytes), NEW s \in Seq(ZBytes), NEW x \in ZBytes, NEW g \in Nat,
         Right(o, s, g), g =< Len(s)
  PROVE  Right(o, Append(s, x), g) /\ g =< Len(Append(s, x))
<1>1. Len(s) \in Nat /\ Len(Append(s, x)) = Len(s) + 1 /\ \A k \in 1 .. Len(s) : Append(s, x)[k] = s[k]
  BY AppendProperties, LenProperties
<1>2. ASSUME NEW k \in 1 .. Len(Append(s, x)), k =< g
      PROVE  k =< Len(o) /\ Append(s, x)[k] = o[k]
  <2>1. k \in 1 .. Len(s)
    BY <1>1, <1>2
  <2> QED
    BY <1>1, <1>2, <2>1 DEF Right
<1> QED
  BY <1>1, <1>2 DEF Right

(* A beginning of what is right is right.                                  *)
LEMMA RightLess ==
  ASSUME NEW o \in Seq(ZBytes), NEW s \in Seq(ZBytes), NEW t \in Seq(ZBytes), NEW g \in Nat, Right(o, s \o t, g)
  PROVE  Right(o, s, g)
<1>1. Len(s \o t) = Len(s) + Len(t) /\ Len(s) \in Nat /\ Len(t) \in Nat
  BY ConcatProperties, LenProperties
<1>2. \A k \in 1 .. Len(s) : (s \o t)[k] = s[k] /\ k \in 1 .. Len(s \o t)
  BY <1>1, ConcatProperties
<1> QED
  BY <1>2 DEF Right

LEMMA InflateEmitted ==
  ASSUME original \in Seq(ZBytes), Inflating, InflateEmits
  PROVE  Inflating'
<1>1. /\ lib.held # << >> /\ zstep \in {"loop", "finish"}
      /\ UNCHANGED <<original, zfile, written, outStr, zstep, damage>>
      /\ lib' = [lib EXCEPT !.held = Tail(@), !.out = Append(@, Head(lib.held)), !.moved = TRUE]
  BY DEF InflateEmits, Library, InLibrary
<1>2. lib.state = "run"
  BY <1>1 DEF Inflating
<1>3. Head(lib.held) \in ZBytes /\ Tail(lib.held) \in Seq(ZBytes)
  BY <1>1, InflateTypes, HeadTailProperties
<1>4. /\ lib'.in = lib.in /\ lib'.moved = TRUE /\ lib'.out = Append(lib.out, Head(lib.held))
      /\ lib'.held = Tail(lib.held) /\ lib'.state = lib.state
      /\ SameMarks
      /\ Fields(lib')
  BY <1>1 DEF Inflating, LibType, Fields, SameMarks
<1>5. Output' = Append(Output, Head(lib.held)) /\ lib'.out \in Seq(ZBytes)
  BY <1>1, <1>3, <1>4, InflateTypes, OutputMore
<1>6. Output' \o lib'.held = Output \o lib.held
  <2>1. PICK s \in Seq(ZBytes), t \in Seq(ZBytes) : s = Output /\ t = lib.held
    BY InflateTypes
  <2>2. Append(s, Head(t)) \o Tail(t) = s \o t
    BY <1>1, <2>1, MoveOne
  <2> QED
    BY <1>4, <1>5, <2>1, <2>2
<1>7. lib' \in LibType(Units, ZBytes, ZBytes)
  BY <1>2, <1>3, <1>4, <1>5, InflateTypes DEF LibType, Fields, SameMarks
<1>8. Input' = Input
  BY <1>1, <1>4 DEF Input
<1>9. Standing'
  BY <1>1, <1>4 DEF Inflating, Standing
<1>10. CASE ~lib.wrong
  <2>1. Starts(original', Output' \o lib'.held) /\ Leads(original', Input', Len(Output' \o lib'.held), damage')
    BY <1>1, <1>2, <1>6, <1>8, <1>10 DEF Inflating, OnTheWay
  <2> QED
    BY <1>1, <1>2, <1>4, <1>7, <1>9, <1>10, <2>1, InflateTypes DEF Inflating, OnTheWay, SameMarks
<1>11. CASE lib.wrong
  <2>1. damage = "bad" /\ Right(original, Output, lib.good) /\ lib.good =< Len(Output)
    BY <1>2, <1>11 DEF Inflating, Astray
  <2>2. PICK s \in Seq(ZBytes), x \in ZBytes, g \in Nat : s = Output /\ x = Head(lib.held) /\ g = lib.good
    BY <1>3, InflateTypes
  <2>3. Right(original, Append(s, x), g) /\ g =< Len(Append(s, x))
    BY <2>1, <2>2, RightMore
  <2>4. Astray'
    BY <1>1, <1>2, <1>4, <1>5, <2>1, <2>2, <2>3 DEF Astray, SameMarks
  <2> QED
    BY <1>1, <1>2, <1>4, <1>7, <1>9, <1>11, <2>4, InflateTypes DEF Inflating, SameMarks
<1> QED
  BY <1>10, <1>11

LEMMA InflateLoops ==
  ASSUME Inflating, zprogram = "inflate", LoopOn
  PROVE  Inflating' /\ zprogram' = "inflate"
<1>1. zstep = "loop" /\ UNCHANGED <<original, zfile, damage>> /\ (lib.in = << >> \/ ~BufferRoom)
  BY DEF LoopOn, DeflateResult, InflateResult
<1>2. \/ /\ lib' = [lib EXCEPT !.out = << >>, !.moved = FALSE] /\ outStr' = outStr \o lib.out
         /\ UNCHANGED <<zprogram, written, zstep>>
      \/ /\ lib' = [lib EXCEPT !.out = << >>] /\ written' = written \o (outStr \o lib.out) /\ outStr' = << >>
         /\ zstep' = "read" /\ UNCHANGED zprogram /\ lib.in = << >>
  BY <1>1 DEF LoopOn, AppendBuffer, Return
<1>3. /\ lib' \in LibType(Units, ZBytes, ZBytes) /\ lib'.out = << >>
      /\ lib'.in = lib.in /\ lib'.held = lib.held /\ lib'.state = lib.state
      /\ SameMarks
  BY <1>2, BufferEmptied DEF Inflating
<1>4. Output' = Output /\ outStr' \in Seq(ZBytes) /\ written' \in Seq(ZBytes)
  BY <1>2, <1>3, InflateTypes, OutputKept
<1>5. Input' = Input
  BY <1>1, <1>3 DEF Input
<1>6. Standing'
  BY <1>1, <1>2, <1>3 DEF Standing
<1>7. zfile' \in Seq(Units)
  BY <1>1 DEF Inflating
<1> QED
  BY <1>1, <1>2, <1>3, <1>4, <1>5, <1>6, <1>7, InflateSame

(* Z_STREAM_END: the whole file has come out.  In the loop the program     *)
(* goes on to read, but the library does nothing more.                     *)
LEMMA InflateEnds ==
  ASSUME original \in Seq(ZBytes), Inflating, zprogram = "inflate", StreamEnd
  PROVE  \/ Inflating' /\ zprogram' = "inflate"
         \/ Written' /\ zprogram' = "done"
<1>1. /\ lib.state = "ended" /\ UNCHANGED <<original, zfile, damage>> /\ zstep \in {"loop", "finish"}
      /\ lib' = [lib EXCEPT !.out = << >>] /\ written' = written \o (outStr \o lib.out) /\ outStr' = << >>
      /\ zstep' = "read" /\ zprogram' = IF zstep = "loop" THEN "inflate" ELSE "done"
  BY DEF StreamEnd, DeflateResult, InflateResult, InLibrary, Return
<1>2. /\ lib' \in LibType(Units, ZBytes, ZBytes) /\ lib'.out = << >>
      /\ lib'.in = lib.in /\ lib'.held = lib.held /\ lib'.state = lib.state
      /\ SameMarks
  BY <1>1, BufferEmptied DEF Inflating
<1>3. Output' = Output /\ outStr' \in Seq(ZBytes) /\ written' \in Seq(ZBytes)
  BY <1>1, <1>2, InflateTypes, OutputKept
<1> ~lib.wrong /\ Output = original
  BY <1>1 DEF Inflating, Astray, OnTheWay
<1>4. CASE zstep = "loop"
  <2>1. Standing'
    BY <1>1, <1>2 DEF Standing
  <2>2. zfile' \in Seq(Units)
    BY <1>1 DEF Inflating
  <2> QED
    BY <1>1, <1>2, <1>3, <1>4, <2>1, <2>2, InflateSame
<1>5. CASE zstep = "finish"
  <2>1. Output' = written'
    <3>1. written' \o << >> = written'
      BY <1>3, ConcatEmptySeq
    <3> QED
      BY <1>1, <1>2, <3>1 DEF Output
  <2>2. written' = original
    BY <1>3, <2>1
  <2>3. Starts(original, original)
    BY LenProperties DEF Starts
  <2> QED
    BY <1>1, <1>2, <1>3, <1>5, <2>2, <2>3, InflateTypes DEF Written, SameMarks
<1> QED
  BY <1>1, <1>4, <1>5

(* Any other code: the buffer is dropped.  It is empty, or the file was    *)
(* damaged, and then nothing more comes.                                   *)
LEMMA InflateRefuses ==
  ASSUME original \in Seq(ZBytes), Inflating, zprogram = "inflate", ReturnsError
  PROVE  \/ Inflating' /\ zprogram' = "inflate"
         \/ Written' /\ zprogram' = "done"
<1>1. /\ UNCHANGED <<original, zfile, damage>> /\ zstep \in {"loop", "finish"}
      /\ lib' = [lib EXCEPT !.out = << >>] /\ written' = written \o outStr /\ outStr' = << >>
      /\ zstep' = "read" /\ zprogram' = IF zstep = "loop" THEN "inflate" ELSE "done"
  BY DEF ReturnsError, DeflateResult, InflateResult, InLibrary, Return
<1>2. \/ lib.state = "bad"
      \/ lib.state = "run" /\ zstep = "loop" /\ ~lib.moved /\ lib.in = << >>
      \/ lib.state = "run" /\ zstep = "finish"
  BY <1>1 DEF ReturnsError, DeflateResult, InflateResult
<1>3. /\ lib' \in LibType(Units, ZBytes, ZBytes) /\ lib'.out = << >>
      /\ lib'.in = lib.in /\ lib'.held = lib.held /\ lib'.state = lib.state
      /\ SameMarks
  BY <1>1, BufferEmptied DEF Inflating
<1>4. written' \in Seq(ZBytes) /\ outStr' \in Seq(ZBytes) /\ zfile' \in Seq(Units)
  BY <1>1, InflateTypes, EmptySeq
<1>5. Output' = written'
  <2>1. written' \o << >> = written'
    BY <1>4, ConcatEmptySeq
  <2> QED
    BY <1>1, <1>3, <2>1 DEF Output
<1>6. /\ Starts(original, Output) => Starts(original, written')
      /\ Right(original, Output, lib.good) => Right(original, written', lib.good)
  BY <1>1, InflateTypes, StartsLess, RightLess DEF Output
<1>7. CASE lib.state = "bad"
  <2>1. IF lib.wrong THEN damage = "bad" /\ Right(original, written', lib.good)
        ELSE damage = "bad" /\ Starts(original, written')
    BY <1>6, <1>7 DEF Inflating, Astray, OnTheWay
  <2>2. CASE zstep = "loop"
    <3>1. Standing'
      BY <1>1, <1>3, <1>7 DEF Standing
    <3>2. CASE lib.wrong
      BY <1>1, <1>3, <1>4, <1>5, <1>7, <2>1, <2>2, <3>1, <3>2 DEF Inflating, Astray, SameMarks
    <3>3. CASE ~lib.wrong
      BY <1>1, <1>3, <1>4, <1>5, <1>7, <2>1, <2>2, <3>1, <3>3 DEF Inflating, OnTheWay, SameMarks
    <3> QED
      BY <1>1, <2>2, <3>2, <3>3
  <2>3. CASE zstep = "finish"
    BY <1>1, <1>3, <1>4, <2>1, <2>3, InflateTypes DEF Written, SameMarks
  <2> QED
    BY <1>1, <2>2, <2>3
<1>8. CASE lib.state = "run" /\ zstep = "loop" /\ ~lib.moved /\ lib.in = << >>
  <2>1. lib.out = << >>
    BY <1>8 DEF Inflating, Standing
  <2>2. Output' = Output
    BY <1>1, <1>5, <2>1, InflateTypes, ConcatEmptySeq DEF Output
  <2>3. Input' = Input
    BY <1>1, <1>3 DEF Input
  <2>4. Standing'
    BY <1>1, <1>3, <1>8 DEF Standing
  <2> QED
    BY <1>1, <1>3, <1>4, <1>8, <2>2, <2>3, <2>4, InflateSame
<1>9. CASE lib.state = "run" /\ zstep = "finish"
  <2>1. Input = << >>
    BY <1>9 DEF Inflating, Standing, Input
  <2>2. CASE lib.wrong
    <3>1. damage = "bad" /\ Right(original, written', lib.good)
      BY <1>6, <2>2 DEF Inflating, Astray
    <3> QED
      BY <1>1, <1>3, <1>4, <1>9, <2>2, <3>1, InflateTypes DEF Written, SameMarks
  <2>3. CASE ~lib.wrong
    <3>1. damage \notin {"none", "more"}
      BY <1>9, <2>1, <2>3 DEF Inflating, OnTheWay, Leads
    <3>2. Starts(original, Output \o lib.held)
      BY <1>9, <2>3 DEF Inflating, OnTheWay
    <3>3. Starts(original, Output)
      BY <3>2, InflateTypes, StartsLess
    <3> QED
      BY <1>1, <1>3, <1>4, <1>6, <1>9, <2>3, <3>1, <3>3, InflateTypes DEF Written, SameMarks
  <2> QED
    BY <2>2, <2>3
<1> QED
  BY <1>2, <1>7, <1>8, <1>9

----------------------------------------------------------------------------

LEMMA ZlibStarts ==
  ASSUME NEW files, files \subseteq Seq(ZBytes), ZlibInit(files)
  PROVE  ZlibInv
<1>1. /\ original \in Seq(ZBytes) /\ zprogram = "deflate" /\ zfile = original /\ written = << >>
      /\ outStr = << >> /\ zstep = "read" /\ lib = NewLib
  BY DEF ZlibInit
<1>2. /\ lib \in LibType(ZBytes, Units, ZBytes) /\ lib.in = << >> /\ lib.out = << >> /\ lib.held = << >>
      /\ lib.state = "run"
  BY <1>1 DEF NewLib, LibType
<1>3. << >> \in Seq(Units) /\ << >> \o << >> = << >> /\ Len(<< >>) = 0
  OBVIOUS
<1>4. Output = << >> /\ lib.held \o Input = original
  BY <1>1, <1>2, <1>3, ConcatEmptySeq DEF Output, Input
<1>5. Spelt(original, << >>, 0)
  <2> DEFINE st == [k \in Nat |-> 0]
  <2>1. st \in [Nat -> Int] /\ st[0] = 0
    OBVIOUS
  <2> HIDE DEF st
  <2>2. st[Len(<< >>)] = 0 /\ \A k \in 1 .. Len(<< >>) : Run(original, << >>[k], st[k - 1], st[k])
    BY <1>3, <2>1
  <2> QED
    BY <2>1, <2>2 DEF Spelt
<1>6. Remains(original, original, 0)
  BY <1>1, LenProperties DEF Remains
<1>7. Made(original, Output, lib.held \o Input)
  BY <1>4, <1>5, <1>6 DEF Made
<1>8. Standing
  BY <1>1, <1>2 DEF Standing
<1>9. Deflating
  BY <1>1, <1>2, <1>3, <1>7, <1>8 DEF Deflating
<1> QED
  BY <1>1, <1>9 DEF ZlibInv

LEMMA ZlibKeeps ==
  ASSUME ZlibInv, [ZlibNext]_zlibVars
  PROVE  ZlibInv'
<1>1. CASE UNCHANGED zlibVars
  <2>1. UNCHANGED <<original, zprogram, zfile, written, outStr, zstep, lib, damage>>
    BY <1>1 DEF zlibVars
  <2>2. UNCHANGED <<Output, Input>>
    BY <2>1 DEF Output, Input
  <2> QED
    BY <2>1, <2>2 DEF ZlibInv, Deflating, Inflating, Standing, OnTheWay, Astray, Written
<1>2. CASE Damage
  BY <1>2, DamageKeeps
<1>3. CASE ZlibNext /\ ~Damage
  <2>1. original \in Seq(ZBytes) /\ UNCHANGED original /\ zprogram \in {"deflate", "inflate"}
    BY <1>3 DEF ZlibInv, ZlibNext, ReadBlock, LoopOn, FinishOn, StreamEnd, ReturnsError, DeflateTakes, DeflateEmits,
                InflateTakes, InflateNotices, InflateMistakes, InflateEmits, Library, InLibrary, DeflateResult, InflateResult
  <2>2. CASE zprogram = "deflate"
    <3>1. Deflating
      BY <2>2 DEF ZlibInv
    <3>2. CASE ReadBlock
      BY <2>1, <2>2, <3>1, <3>2, DeflateReads DEF ZlibInv, ReadBlock
    <3>3. CASE LoopOn
      BY <2>1, <2>2, <3>1, <3>3, DeflateLoops DEF ZlibInv
    <3>4. CASE FinishOn
      BY <2>1, <2>2, <3>1, <3>4, DeflateFinishes DEF ZlibInv, FinishOn
    <3>5. CASE StreamEnd
      <4>1. /\ zprogram' = "damage" /\ written' \in Seq(Units) /\ Whole(original, written')
            /\ outStr' = << >> /\ zstep' = "read"
        BY <2>1, <2>2, <3>1, <3>5, DeflateEnds
      <4> QED
        BY <2>1, <4>1 DEF ZlibInv
    <3>6. CASE ReturnsError
      BY <2>1, <2>2, <3>1, <3>6, DeflateRefuses DEF ZlibInv
    <3>7. CASE DeflateTakes
      BY <2>1, <2>2, <3>1, <3>7, DeflateTook DEF ZlibInv, DeflateTakes, Library
    <3>8. CASE DeflateEmits
      BY <2>1, <2>2, <3>1, <3>8, DeflateEmitted DEF ZlibInv, DeflateEmits, Library
    <3> QED
      BY <1>3, <2>2, <3>2, <3>3, <3>4, <3>5, <3>6, <3>7, <3>8
      DEF ZlibNext, InflateTakes, InflateNotices, InflateMistakes, InflateEmits
  <2>3. CASE zprogram = "inflate"
    <3>1. Inflating
      BY <2>3 DEF ZlibInv
    <3>2. CASE ReadBlock
      BY <2>1, <2>3, <3>1, <3>2, InflateReads DEF ZlibInv, ReadBlock
    <3>3. CASE LoopOn
      BY <2>1, <2>3, <3>1, <3>3, InflateLoops DEF ZlibInv
    <3>4. CASE StreamEnd
      BY <2>1, <2>3, <3>1, <3>4, InflateEnds DEF ZlibInv
    <3>5. CASE ReturnsError
      BY <2>1, <2>3, <3>1, <3>5, InflateRefuses DEF ZlibInv
    <3>6. CASE InflateTakes
      BY <2>1, <2>3, <3>1, <3>6, InflateTook DEF ZlibInv, InflateTakes, Library
    <3>7. CASE InflateEmits
      BY <2>1, <2>3, <3>1, <3>7, InflateEmitted DEF ZlibInv, InflateEmits, Library
    <3>8. CASE InflateNotices
      BY <2>1, <2>3, <3>1, <3>8, InflateNoticed DEF ZlibInv, InflateNotices, Library
    <3>9. CASE InflateMistakes
      BY <2>1, <2>3, <3>1, <3>9, InflateMistook DEF ZlibInv, InflateMistakes, Library
    <3> QED
      BY <1>3, <2>3, <3>2, <3>3, <3>4, <3>5, <3>6, <3>7, <3>8, <3>9
      DEF ZlibNext, FinishOn, DeflateResult, DeflateTakes, DeflateEmits
  <2> QED
    BY <2>1, <2>2, <2>3
<1> QED
  BY <1>1, <1>2, <1>3

LEMMA ZlibIsSound == ZlibInv => ZlibSound
<1> SUFFICES ASSUME ZlibInv PROVE ZlibSound
  OBVIOUS
<1>1. ASSUME NEW o \in Seq(ZBytes), NEW s \in Seq(ZBytes), Starts(o, s) PROVE IsPrefix(s, o)
  <2>1. Len(s) \in Nat /\ Len(o) \in Nat /\ Len(s) \in 0 .. Len(s) /\ Len(s) \in 0 .. Len(o)
    BY <1>1, LenProperties DEF Starts
  <2>2. /\ SubSeq(s, 1, Len(s)) \in Seq(ZBytes) /\ Len(SubSeq(s, 1, Len(s))) = Len(s)
        /\ \A i \in 1 .. Len(s) : SubSeq(s, 1, Len(s))[i] = s[i]
    BY <2>1, FirstUnits
  <2>3. /\ SubSeq(o, 1, Len(s)) \in Seq(ZBytes) /\ Len(SubSeq(o, 1, Len(s))) = Len(s)
        /\ \A i \in 1 .. Len(s) : SubSeq(o, 1, Len(s))[i] = o[i]
    BY <2>1, FirstUnits
  <2>4. SubSeq(s, 1, Len(s)) = SubSeq(o, 1, Len(s))
    BY <1>1, <2>2, <2>3, SeqEqual DEF Starts
  <2> QED
    BY <1>1, <2>4 DEF IsPrefix, Starts
<1>2. ASSUME NEW o, NEW s \in Seq(ZBytes), NEW g, Right(o, s, g)
      PROVE  \A k \in DOMAIN s : k =< g => k =< Len(o) /\ s[k] = o[k]
  BY <1>2, LenProperties DEF Right
<1>3. CASE zprogram = "inflate"
  <2>1. Inflating
    BY <1>3 DEF ZlibInv
  <2>2. CASE ~lib.wrong
    <3>1. Starts(original, Output)
      <4>1. CASE lib.state = "run"
        <5>1. Starts(original, Output \o lib.held)
          BY <2>1, <2>2, <4>1 DEF Inflating, OnTheWay
        <5> QED
          BY <2>1, <5>1, InflateTypes, StartsLess DEF ZlibInv
      <4>2. CASE lib.state = "ended"
        BY <2>1, <2>2, <4>2, LenProperties DEF ZlibInv, Inflating, OnTheWay, Starts
      <4>3. CASE lib.state = "bad"
        BY <2>1, <2>2, <4>3 DEF Inflating, OnTheWay
      <4> QED
        BY <2>1, <4>1, <4>2, <4>3 DEF Inflating, LibType
    <3>2. Starts(original, written \o outStr)
      BY <2>1, <3>1, InflateTypes, StartsLess DEF ZlibInv, Output
    <3>3. Starts(original, written)
      BY <2>1, <3>2, InflateTypes, StartsLess DEF ZlibInv
    <3>4. IsPrefix(written, original)
      BY <1>1, <2>1, <3>3, InflateTypes DEF ZlibInv
    <3> QED
      BY <1>3, <2>2, <3>4 DEF ZlibSound, ZlibRoundTrip, ZlibPrefix
  <2>3. CASE lib.wrong
    <3>1. damage = "bad" /\ Right(original, Output, lib.good)
      BY <2>1, <2>3 DEF Inflating, Astray
    <3>2. Right(original, written \o outStr, lib.good)
      BY <2>1, <3>1, InflateTypes, RightLess DEF ZlibInv, Output
    <3>3. Right(original, written, lib.good)
      BY <2>1, <3>2, InflateTypes, RightLess DEF ZlibInv
    <3>4. \A k \in DOMAIN written : k =< lib.good => k =< Len(original) /\ written[k] = original[k]
      BY <1>2, <2>1, <3>3, InflateTypes
    <3> QED
      BY <1>3, <2>3, <3>1, <3>4 DEF ZlibSound, ZlibRoundTrip, ZlibPrefix
  <2> QED
    BY <2>2, <2>3
<1>4. CASE zprogram = "done"
  <2>1. Written
    BY <1>4 DEF ZlibInv
  <2>2. ~lib.wrong => IsPrefix(written, original)
    BY <1>1, <2>1 DEF ZlibInv, Written
  <2>3. lib.wrong => /\ damage = "bad"
                     /\ \A k \in DOMAIN written : k =< lib.good => k =< Len(original) /\ written[k] = original[k]
    BY <1>2, <2>1 DEF Written
  <2> QED
    BY <1>4, <2>1, <2>2, <2>3 DEF Written, ZlibSound, ZlibRoundTrip, ZlibPrefix
<1> QED
  BY <1>3, <1>4 DEF ZlibSound, ZlibRoundTrip, ZlibPrefix

(* For every file and every size of block and buffer, and whatever the     *)
(* library holds back: what compressOneFile wrote, decompressOneFile turns *)
(* back into the file; from one that is cut short it writes a beginning,   *)
(* and from a spoilt one bytes that are right as far as the damage,        *)
(* wherever the library notices it (DeflatingStream.cpp:66-119,            *)
(* InflatingStream.cpp:71-94).                                             *)
THEOREM FilesComeBack ==
  ASSUME NEW CONSTANT files, files \subseteq Seq(ZBytes)
  PROVE  ZlibInit(files) /\ [][ZlibNext]_zlibVars => []ZlibSound
<1>1. ZlibInit(files) => ZlibInv
  BY ZlibStarts
<1>2. ZlibInv /\ [ZlibNext]_zlibVars => ZlibInv'
  BY ZlibKeeps
<1> QED
  BY <1>1, <1>2, ZlibIsSound, PTL
===============================================================================
