---------------------------- MODULE BloomFilter ----------------------------
(* bloomfilter.h: a Bloom filter with memory of its own, which is reset    *)
(* lazily and can be saved to a file and loaded again.  The caller uses a  *)
(* filter only while the last InitBloomFilter or LoadBloomFilterFromFile   *)
(* has returned 0; it may be killed and start again with the file.         *)
EXTENDS Naturals, FiniteSets

CONSTANTS
  BloomKeys,      \* the keys
  BloomSeeds,     \* the values of dwSeed
  ItemLimits,     \* the values of dwMaxItems
  Murmur,         \* Murmur[seed][key]: hash1 and hash2 of bloom_hash
  HashWord,       \* 2^64 in the code
  BitsPerItem,    \* -ln(p) / ln(2)^2 for the p of the caller
  AlignBits,      \* 64 in the code
  MaxBloomCalls   \* bound: calls of the caller

ASSUME BloomAssumption ==
  ItemLimits \subseteq Nat \ {0} /\ AlignBits \in Nat \ {0} /\ HashWord \in Nat \ {0}

VARIABLES
  bloom,       \* the BaseBloomFilter; bits holds the numbers of the bits that are set
  usable,      \* what the caller knows: the filter was initialised or loaded
  added,       \* history: the keys that were added since the filter was last emptied
  revived,     \* history: the bits were loaded from a filter that had been reset
  loadFailed,  \* history: a load has failed in this process
  bloomFile,   \* the file
  heapBroken,  \* a block was freed twice, or memory was used through a bad pointer
  bloomCalls   \* the number of calls

bloomVars == <<bloom, usable, added, revived, loadFailed, bloomFile, heapBroken, bloomCalls>>

\* static BaseBloomFilter stBloomFilter = {0}
Zeroed == [flag |-> 0, max |-> 0, seed |-> 0, count |-> 0, bits |-> {}, filter |-> "null", pos |-> "null"]

\* dwFilterBits and dwHashFuncs of _CalcBloomFilterParam; ln(2) is 7/10 here.
FilterBits(n) == LET m == BitsPerItem * n IN (m - (m % AlignBits)) + AlignBits
HashFuncs(n) == (14 * FilterBits(n) + 10 * n) \div (20 * n)

\* bloom_hash, in the arithmetic of the word.
HashPositions(b, key) ==
  LET h == Murmur[b.seed][key]
  IN  {((h[1] + i * h[2]) % HashWord) % FilterBits(b.max) : i \in 0 .. HashFuncs(b.max) - 1}

\* What BloomFilter_Check returns; it does not look at cInitFlag.
CheckResult(b, key) == IF HashPositions(b, key) \subseteq b.bits THEN 0 ELSE 1

BloomInit ==
  /\ bloom = Zeroed /\ usable = FALSE /\ added = {} /\ revived = FALSE /\ loadFailed = FALSE
  /\ bloomFile = [state |-> "absent"] /\ heapBroken = FALSE /\ bloomCalls = 0

BloomCall == bloomCalls < MaxBloomCalls /\ bloomCalls' = bloomCalls + 1 /\ ~heapBroken

\* if (p != NULL) free(p), for both pointers.
FreedTwice(b) == "freed" \in {b.filter, b.pos}
AfterFree(p) == IF p = "null" THEN "null" ELSE "freed"

\* The memset and the assignments, then the two mallocs, of which one may fail.
InitBloomFilter(seed, max) ==
  /\ BloomCall /\ heapBroken' = FreedTwice(bloom)
  /\ \E r \in {0, 100, 200} :
       /\ bloom' = [Zeroed EXCEPT !.max = max, !.seed = seed, !.flag = IF r = 0 THEN 1 ELSE 0,
                                  !.filter = IF r = 100 THEN "null" ELSE "owned",
                                  !.pos = IF r = 0 THEN "owned" ELSE "null"]
       /\ usable' = (r = 0)
  /\ added' = {} /\ revived' = FALSE /\ UNCHANGED <<loadFailed, bloomFile>>

\* free(NULL) does nothing, free of a block that is gone breaks the heap.
FreeBloomFilter ==
  /\ BloomCall /\ heapBroken' = FreedTwice(bloom)
  /\ bloom' = [bloom EXCEPT !.flag = 0, !.count = 0, !.filter = "null", !.pos = "null"]
  /\ usable' = FALSE /\ added' = {} /\ UNCHANGED <<revived, loadFailed, bloomFile>>

\* The bits stay until the next Add.
ResetBloomFilter ==
  /\ BloomCall /\ usable
  /\ bloom' = [bloom EXCEPT !.flag = 0, !.count = 0]
  /\ added' = {} /\ UNCHANGED <<usable, revived, loadFailed, bloomFile, heapBroken>>

RealResetBloomFilter ==
  /\ BloomCall /\ usable
  /\ bloom' = [bloom EXCEPT !.flag = 1, !.count = 0, !.bits = {}]
  /\ heapBroken' = (bloom.filter # "owned")
  /\ added' = {} /\ revived' = FALSE /\ UNCHANGED <<usable, loadFailed, bloomFile>>

\* Mutant: Add does not see that the filter was reset.
AddBaseKeeps(b) == b.bits

\* The bits to which Add adds.
AddBase(b) == IF b.flag # 1 THEN {} ELSE b.bits

BloomFilterAdd(key) ==
  /\ BloomCall /\ usable
  /\ bloom' = [bloom EXCEPT !.flag = 1, !.count = @ + 1, !.bits = AddBase(bloom) \cup HashPositions(bloom, key)]
  /\ heapBroken' = ("owned" # bloom.filter \/ "owned" # bloom.pos)
  /\ added' = added \cup {key} /\ revived' = (revived /\ bloom.flag = 1) /\ UNCHANGED <<usable, loadFailed, bloomFile>>

\* fopen fails, or it has emptied the file and a write is short.  The result
\* of fclose is not looked at, so that a short file may go with a 0 as well.
SaveBloomFilterToFile ==
  /\ BloomCall /\ usable
  /\ \/ UNCHANGED bloomFile
     \/ \E s \in {"empty", "head"} :
          bloomFile' = IF s = "empty" THEN [state |-> s]
                       ELSE [state |-> s, max |-> bloom.max, seed |-> bloom.seed, count |-> bloom.count]
     \/ bloomFile' = [state |-> "whole", max |-> bloom.max, seed |-> bloom.seed, count |-> bloom.count, bits |-> bloom.bits,
                      added |-> added, revived |-> revived \/ bloom.flag # 1]
  /\ heapBroken' = (bloom.filter # "owned") /\ UNCHANGED <<bloom, usable, added, revived, loadFailed>>

\* The old blocks are freed first; a return before the mallocs leaves the
\* pointers to them.
LoadFails ==
  \/ bloom' = [bloom EXCEPT !.filter = AfterFree(@), !.pos = AfterFree(@)]
  \/ /\ bloomFile.state \in {"head", "whole"}
     /\ \E f \in {"null", "owned"}, p \in {"null", "owned"} :
          /\ f = "owned" /\ p = "owned" => bloomFile.state = "head"
          /\ bloom' = [bloom EXCEPT !.max = bloomFile.max, !.seed = bloomFile.seed, !.count = bloomFile.count,
                                    !.bits = {}, !.filter = f,
                                    !.pos = IF f = "null" THEN AfterFree(@) ELSE p]

LoadSucceeds ==
  /\ bloomFile.state = "whole"
  /\ bloom' = [Zeroed EXCEPT !.flag = 1, !.max = bloomFile.max, !.seed = bloomFile.seed, !.count = bloomFile.count,
                             !.bits = bloomFile.bits, !.filter = "owned", !.pos = "owned"]

LoadBloomFilterFromFile ==
  /\ BloomCall /\ heapBroken' = FreedTwice(bloom)
  /\ \/ LoadFails /\ usable' = FALSE /\ added' = {} /\ revived' = FALSE /\ loadFailed' = TRUE
     \/ LoadSucceeds /\ usable' = TRUE /\ added' = bloomFile.added /\ revived' = bloomFile.revived /\ UNCHANGED loadFailed
  /\ UNCHANGED bloomFile

\* The process ends, at any time, and a new one starts.
BloomRestart ==
  /\ BloomCall
  /\ bloom' = Zeroed /\ usable' = FALSE /\ added' = {} /\ revived' = FALSE /\ loadFailed' = FALSE
  /\ UNCHANGED <<bloomFile, heapBroken>>

BloomNext ==
  \/ \E seed \in BloomSeeds, max \in ItemLimits : InitBloomFilter(seed, max)
  \/ FreeBloomFilter \/ ResetBloomFilter \/ RealResetBloomFilter
  \/ \E key \in BloomKeys : BloomFilterAdd(key)
  \/ SaveBloomFilterToFile \/ LoadBloomFilterFromFile \/ BloomRestart

-----------------------------------------------------------------------------
(* A key that was added is found, whatever was saved, loaded and reset in  *)
(* between, and with whatever seed and size (bloomfilter.h:300-351).       *)
NoFalseNegative == usable => \A key \in added : CheckResult(bloom, key) = 0

(* After the first Add that follows a reset the filter knows nothing else  *)
(* than what was added.  The exception is a filter that was saved between  *)
(* a reset and the next Add: the file brings the old bits back, and makes  *)
(* them valid (bloomfilter.h:214, 310, 390, 460).                          *)
OnlyAdded ==
  usable /\ bloom.flag = 1 /\ ~revived => bloom.bits = UNION {HashPositions(bloom, key) : key \in added}

(* A filter that may be used has both blocks, and no block is freed twice  *)
(* or used when it is gone, unless a load has failed before: it leaves its *)
(* pointers behind for the next Init, Load or Free to free them again      *)
(* (bloomfilter.h:411-422, 446).                                           *)
BlocksOwned == (usable => bloom.filter = "owned" /\ bloom.pos = "owned") /\ (heapBroken => loadFailed)

(* Through any adds, resets, saves, loads, failures and restarts, for any  *)
(* hash function and sizes, a key that was added is found, nothing else is *)
(* in the filter but for the one exception above, and the heap is sound as *)
(* long as no load has failed (bloomfilter.h:300-468).                     *)
BloomSound == NoFalseNegative /\ OnlyAdded /\ BlocksOwned
=============================================================================
