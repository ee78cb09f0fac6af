------------------------------ MODULE Huffman ------------------------------
(* HuffmanTree.hpp and FileCompress.hpp: a file is compressed into a table *)
(* of counts and the codes of its characters, and uncompressed with a tree *)
(* that is built from the table again.  A tree is a leaf [ch, count] or a  *)
(* node [l, r, count].                                                     *)
EXTENDS Integers, SequencesExt, FiniteSetsExt, TLC

CONSTANTS
  LastChar,   \* the characters are 0 .. LastChar; 255 in the code
  ByteBits    \* 8 in the code

VARIABLES
  plain,      \* the file
  heapRule    \* which of several equal elements the heap has at its top

huffmanVars == <<plain, heapRule>>

\* fgetc at the end of the file, as a char: equal to the byte whose bits are all 1.
EofByte == 2 ^ ByteBits - 1

IsLeaf(t) == "ch" \in DOMAIN t

\* _infos: the characters that occur and their counts, by character.
Infos(file) ==
  LET leaf(c) == [ch |-> c, count |-> Cardinality({k \in DOMAIN file : file[k] = c})]
  IN  SelectSeq([c \in 1 .. LastChar + 1 |-> leaf(c - 1)], LAMBDA i : i.count # 0)

\* priority_queue::top: an element of the least count.  Which one is left to
\* the library, but it is the same one after the same calls.
HeapTop(hp) ==
  LET best == {k \in DOMAIN hp : \A j \in DOMAIN hp : hp[k].count <= hp[j].count}
  IN  IF heapRule = "oldest" THEN Min(best) ELSE Max(best)

\* The loop of _CreateHuffmantree.
RECURSIVE CreateHuffmantree(_)
CreateHuffmantree(hp) ==
  IF Len(hp) = 1 THEN hp[1]
  ELSE LET i == HeapTop(hp)
           less == RemoveAt(hp, i)
           j == HeapTop(less)
           parent == [l |-> hp[i], r |-> less[j], count |-> hp[i].count + less[j].count]
       IN  CreateHuffmantree(Append(RemoveAt(less, j), parent))

\* The codes, from character to a sequence of bits.
RECURSIVE GenerateHuffmanCode(_, _)
GenerateHuffmanCode(root, code) ==
  IF IsLeaf(root) THEN root.ch :> code
  ELSE GenerateHuffmanCode(root.l, Append(code, 0)) @@ GenerateHuffmanCode(root.r, Append(code, 1))

Codes(file) == GenerateHuffmanCode(CreateHuffmantree(Infos(file)), << >>)

\* Mutant: the bits that do not fill a byte are not written.
PackedWhole(bits) ==
  [k \in 1 .. Len(bits) \div ByteBits |->
     FoldLeft(LAMBDA v, i : v + bits[i] * 2 ^ ((i - 1) % ByteBits), 0, [j \in 1 .. ByteBits |-> (k - 1) * ByteBits + j])]

\* value and pos: the first bit of a byte is its lowest; the last byte is
\* filled with zeros.
Packed(bits) ==
  LET bit(i) == IF i <= Len(bits) THEN bits[i] ELSE 0
  IN  [k \in 1 .. (Len(bits) + ByteBits - 1) \div ByteBits |->
         FoldLeft(LAMBDA v, i : v + bit(i) * 2 ^ ((i - 1) % ByteBits), 0, [j \in 1 .. ByteBits |-> (k - 1) * ByteBits + j])]

\* Compress; hp.top() of the empty heap of an empty file is not defined.
Compress(file) ==
  IF file = << >> THEN [ok |-> FALSE]
  ELSE LET code == Codes(file)
       IN  [ok |-> TRUE, table |-> Infos(file), data |-> Packed(FlattenSeq([k \in DOMAIN file |-> code[file[k]]]))]

\* The loops over the bytes and their bits: p counts the bits of the file.
\* The root of a tree with one leaf has no children to go to.
RECURSIVE Decompressed(_, _, _, _, _, _)
Decompressed(root, data, p, cur, n, out) ==
  LET at == p \div ByteBits + 1
      ch == IF at <= Len(data) THEN data[at] ELSE EofByte
      next == IF (ch \div 2 ^ (p % ByteBits)) % 2 = 0 THEN cur.l ELSE cur.r
  IN  IF p % ByteBits = 0 /\ ch = EofByte /\ n = 0 THEN [ok |-> TRUE, out |-> out]
      ELSE IF IsLeaf(cur) THEN [ok |-> FALSE]
      ELSE IF ~IsLeaf(next) THEN Decompressed(root, data, p + 1, next, n, out)
      ELSE IF n = 1 THEN Decompressed(root, data, at * ByteBits, root, 0, Append(out, next.ch))
      ELSE Decompressed(root, data, p + 1, root, n - 1, Append(out, next.ch))

\* Uncompress: the tree is made from the table; n is the count of its root.
Uncompress(table, data) ==
  LET root == CreateHuffmantree(table) IN Decompressed(root, data, 0, root, root.count, << >>)

-----------------------------------------------------------------------------
\* The least sum of count times length that any tree over these counts has.
RECURSIVE LeastCost(_)
LeastCost(w) ==
  IF Len(w) = 1 THEN 0
  ELSE Min({w[i] + w[j] + LeastCost(Append(RemoveAt(RemoveAt(w, j), i), w[i] + w[j])) :
              <<i, j>> \in {x \in (DOMAIN w) \X (DOMAIN w) : x[1] < x[2]}})

Distinct == Cardinality(ToSet(plain))

(* A file with two or more different characters comes back as it was,      *)
(* whatever order the heap gives to equal counts; one with a single        *)
(* character is compressed and crashes Uncompress, an empty one crashes    *)
(* Compress (HuffmanTree.hpp:80-94, FileCompress.hpp:91-260).              *)
HuffmanRoundTrip ==
  LET c == Compress(plain)
  IN  IF plain = << >> THEN ~c.ok
      ELSE LET u == Uncompress(c.table, c.data)
           IN  IF Distinct = 1 THEN ~u.ok ELSE u.ok /\ u.out = plain

(* No code is the beginning of another, and no other code would make the   *)
(* file shorter (HuffmanTree.hpp:80-93).                                   *)
HuffmanOptimal ==
  plain # << >> =>
    LET code == Codes(plain)
        infos == Infos(plain)
    IN  /\ \A a, b \in DOMAIN code : a # b => ~IsPrefix(code[a], code[b])
        /\ FoldLeft(LAMBDA v, c : v + Len(code[c]), 0, plain) = LeastCost([k \in DOMAIN infos |-> infos[k].count])

(* A file that was cut off is uncompressed to its full length, with wrong  *)
(* characters only behind the cut: the end of the file is read as a byte   *)
(* of ones until all characters are there (FileCompress.hpp:231-256).      *)
HuffmanCut ==
  Distinct > 1 =>
    LET c == Compress(plain)
        code == Codes(plain)
        \* the characters whose codes lie before the cut after k bytes
        whole(k) == {n \in 0 .. Len(plain) : FoldLeft(LAMBDA v, x : v + Len(code[x]), 0, SubSeq(plain, 1, n)) <= k * ByteBits}
    IN  \A k \in 0 .. Len(c.data) :
          LET u == Uncompress(c.table, SubSeq(c.data, 1, k))
          IN  /\ u.ok /\ Len(u.out) = Len(plain)
              /\ IsPrefix(SubSeq(plain, 1, Max(whole(k))), u.out)
=============================================================================
