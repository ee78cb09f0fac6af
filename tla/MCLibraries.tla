-------------------------------- MODULE MCLibraries --------------------------------
(* The libraries: the timer tree, the ring buffer, cJSON and tinyxml2 with *)
(* the programs that use them, the Bloom filter, the two compressors, and  *)
(* the utilities of the instant messaging example.  The initial state      *)
(* chooses one part; the others do not move.                               *)
EXTENDS RingBuffer, NgxRbtree, CJsonTree, JsonDemos, XmlTree, XmlText, XmlDemos, BloomFilter, Huffman, ZlibStream, ImUtil

VARIABLE part

\* Every block that fits, and some that are too long for any ring, so that a
\* write is short.
MCBlocks == UNION {[1 .. n -> Byte] : n \in 0 .. Capacity}
              \cup {[k \in 1 .. Capacity + 1 |-> IF k = n THEN 1 ELSE 2] : n \in 1 .. Capacity + 1}
MCCounts == 0 .. Capacity + 1

\* Keys around the overflow of the word, two nodes for most of them.
MCTimers == 1 .. 9
MCKey == [n \in MCTimers |-> (13 + n \div 2) % 16]

MCFolded == [k \in Keys |-> "k"]

\* Values of all types, with escapes in strings and names.
MCStrings == {<< >>, <<97>>, <<Quote, Backslash>>, <<1, NewLine>>}
MCLeaves == {JNull, JFalse, JTrue, JNum(0), JNum(-12)} \cup {JStr(s) : s \in MCStrings}
MCNames == {<<97>>, <<65>>, <<98, Tab>>}
MCMembers == [k : MCNames, v : {JNum(1), JObj(<<[k |-> <<97>>, v |-> JNull]>>)}]
MCInner == {JArr(<< >>), JObj(<< >>)} \cup {JArr(<<x>>) : x \in MCLeaves} \cup {JObj(<<m>>) : m \in MCMembers}
MCPairs == {JNull} \cup {JObj(<<m>>) : m \in MCMembers} \cup {JObj(<<m, n>>) : m, n \in MCMembers}
             \cup {JArr(<<JTrue>>), JArr(<<JTrue, JNull>>), JArr(<<JNull>>)}
MCValues == MCLeaves \cup MCInner \cup MCPairs \cup {JArr(<<x, y>>) : x \in MCInner, y \in MCLeaves}

\* JSON texts, of which most are wrong, and escapes at the borders of the
\* ranges of UTF-16 and UTF-8.
MCChunks == {<<LBracket>>, <<RBracket>>, <<LBrace>>, <<RBrace>>, <<Comma>>, <<Colon>>, <<Quote>>, <<49>>, <<Space>>,
             <<Backslash>>, <<Quote, 97, Space, Quote>>, <<Slash, Slash, 97, NewLine>>}
MCHex(n) == [k \in 1 .. 4 |-> HexDigit((n \div 16 ^ (4 - k)) % 16)]
MCEscapes(s) == <<Quote>> \o FlattenSeq([k \in DOMAIN s |-> <<Backslash, 117>> \o MCHex(s[k])]) \o <<Quote>>
MCCodes == {0, 127, 128, 2047, 2048, 55295, 55296, 56319, 56320, 57343, 57344, 65535}
MCTexts == {MCEscapes(<<a>>) : a \in MCCodes} \cup {MCEscapes(<<a, b>>) : a, b \in MCCodes}
             \cup {FlattenSeq(s) : s \in UNION {[1 .. n -> MCChunks] : n \in 0 .. 4}}

MCComments == [user : {0, 9}, text : {<<97>>, <<Quote, NewLine>>}, time : {7, 1000}]
MCGarbage == {<< >>, <<49>>, <<RBrace>>, <<Quote>>}

\* Documents with text next to elements, and every kind of node.
MCNodes == {TextNode(s, FALSE) : s \in {<<32, 97, 10>>, <<Lt, Amp, 34, 39, Gt>>, <<Amp, 108, 116, Semicolon>>}}
             \cup {TextNode(<<97, Lt>>, TRUE), Other("comment", <<97, 45>>), Other("unknown", <<97>>),
                   Element(<<97>>, << >>, << >>),
                   Element(<<98>>, <<[n |-> <<97>>, v |-> <<39, 34, Lt>>], [n |-> <<98>>, v |-> << >>]>>, << >>)}
MCPlain(n) == n.k = "text" /\ ~n.cdata
MCInside == {Element(<<98>>, << >>, k) : k \in
               {<< >>} \cup {<<x>> : x \in MCNodes} \cup {<<x, y>> : x \in MCNodes, y \in {n \in MCNodes : ~MCPlain(n)}}}
MCDocs == {<< >>} \cup {<<Element(<<97>>, << >>, <<x>>)>> : x \in MCInside}
            \cup {<<Other("declaration", <<97>>), Element(<<97>>, << >>, <<x, TextNode(<<97>>, FALSE), Other("comment", <<97>>)>>)>>
                    : x \in MCInside}

\* XML texts: tags that fit or do not, and all markers that can be left open.
MCTags == {<<Lt, 97, Gt>>, <<Lt, 47, 97, Gt>>, <<Lt, 98, Gt>>, <<Lt, 47, 98, Gt>>}
MCPieces == MCTags \cup {<<Lt, 97, 47, Gt>>, <<Lt>>, <<97>>, <<32>>, <<61, 34>>, <<34>>, <<Gt>>, <<Lt, 33, 45, 45>>,
                         <<45, 45, Gt>>, <<Lt, 63>>, <<63, Gt>>, <<Amp, 108, 116, Semicolon>>}
MCXmlTexts == UNION {[1 .. n -> MCPieces] : n \in 0 .. 3} \cup [1 .. 5 -> MCTags]
                \cup {<< <<Lt, 97>>, <<32, 98, 61, 34>>, x, <<34>>, y, <<47, Gt>> >> : x, y \in MCPieces}
                \cup {<< a, a, a, x, b, y, b >> : a \in {<<Lt, 97, Gt>>}, b \in {<<Lt, 47, 97, Gt>>}, x, y \in MCPieces}
                \cup {<< <<Lt, 97, Gt>>, x, y, <<Lt, 47, 97, Gt>> >> : x, y \in MCPieces}

\* Raw text: entities, references of two and four bytes, line ends.
MCRawPieces == {<<Amp>>, <<97>>, <<Amp, 108, 116, Semicolon>>, <<Amp, Hash, 49, 50, 56, Semicolon>>,
                <<Amp, Hash, 120, 49, 48, 48, 48, 48, Semicolon>>, <<CR>>, <<LF>>, <<Hash>>, <<Semicolon>>}
MCRaws == {FlattenSeq(s) : s \in UNION {[1 .. n -> MCRawPieces] : n \in 0 .. 4}}

\* Hash values whose sums pass the end of the word.
MCMurmur == [s \in BloomSeeds |-> [k \in BloomKeys |-> <<(5 * s + 3 * k) % HashWord, (7 * k + s + 2) % HashWord>>]]

MCFiles(chars, n) == UNION {[1 .. k -> chars] : k \in 0 .. n}
\* The two bytes are alike for zlib: files that begin with the first suffice.
MCZFiles == {f \in MCFiles(ZBytes, 4) : f = << >> \/ f[1] = CHOOSE b \in ZBytes : TRUE}

\* What is written to the byte streams: integers of all widths.
MCItems == {[width |-> 1, value |-> 7], [width |-> 2, value |-> 258], [width |-> 2, value |-> 32512],
            [width |-> 4, value |-> 16909060]}
MCWrites == {<<a, b, c>> : a, b, c \in MCItems}
MCSizes == {3, 5, 8, 12}

\* '?', '+', a separator, a letter, a digit and a byte above 127.
MCBytes == {63, 43, 44, 65, 48, 233}
MCShort == {<< >>, <<65>>, <<63, 65>>, <<65, 44>>, <<65, 65>>}
MCInputs == [str : UNION {[1 .. n -> MCBytes] : n \in 0 .. 3}, other : MCShort, id : {0}]
              \cup [str : {<<44, 65, 44, 44, 65>>, <<65, 44, 63, 65, 63>>}, other : MCShort, id : {0}]
              \cup [str : {<< >>}, other : {<< >>}, id : 0 .. 2^IdBits - 1]

mcVars == <<part, ringVars, rbtreeVars, treeVars, jsonVars, jsonDemoVars, xmlTreeVars, xmlTextVars, demoVars,
            bloomVars, huffmanVars, zlibVars, utilVars, streamVars>>

MCInit ==
  /\ part \in {"ring", "timer tree",
               "json tree", "json value", "json text", "json compare", "json demo",
               "xml tree", "xml document", "xml text", "xml raw", "xml demo",
               "bloom", "huffman", "zlib", "im refs", "im stream", "im text"}
  /\ part # "json demo" => jsonProgram = "demo1" /\ comment = CHOOSE c \in Comments : TRUE
  /\ part # "xml demo" => program = "demo04" /\ asked = CHOOSE i \in CameraIds : TRUE
  /\ JsonInit(CASE part = "json value" -> MCValues [] part = "json compare" -> MCPairs [] OTHER -> {Absent},
              IF part = "json compare" THEN MCPairs ELSE {Absent},
              IF part = "json text" THEN MCTexts ELSE {<< >>})
  /\ XmlTextInit(IF part = "xml document" THEN MCDocs ELSE {<< >>},
                 IF part = "xml text" THEN MCXmlTexts ELSE {<< >>},
                 IF part = "xml raw" THEN MCRaws ELSE {<< >>})
  /\ part # "im refs" => owns = [t \in Threads |-> IF t = 1 THEN 1 ELSE 0]
  /\ part # "im stream" => writes = CHOOSE w \in Writes : TRUE
  /\ part # "im stream" => memory = CHOOSE m \in {[k \in 1 .. n |-> 0] : n \in MemorySizes} : TRUE
  /\ part # "im text" => input = CHOOSE i \in Inputs : TRUE
  /\ RingBufferInit /\ RbtreeInit /\ TreeInit /\ JsonDemoInit /\ XmlTreeInit /\ DemoInit
  /\ StreamInit /\ UtilInit
  /\ BloomInit /\ ZlibInit(IF part = "zlib" THEN MCZFiles ELSE {<< >>})
  /\ plain \in (IF part = "huffman" THEN MCFiles(0 .. LastChar, 5) ELSE {<< >>})
  /\ heapRule \in (IF part = "huffman" THEN {"oldest", "newest"} ELSE {"oldest"})

\* A step A of the part that was chosen.
Of(name, A) ==
  /\ part = name /\ A /\ UNCHANGED <<part, jsonVars, xmlTextVars, huffmanVars>>
  /\ name # "ring" => UNCHANGED ringVars
  /\ name # "timer tree" => UNCHANGED rbtreeVars
  /\ name # "json tree" => UNCHANGED treeVars
  /\ name # "json demo" => UNCHANGED jsonDemoVars
  /\ name # "xml tree" => UNCHANGED xmlTreeVars
  /\ name # "xml demo" => UNCHANGED demoVars
  /\ name # "bloom" => UNCHANGED bloomVars
  /\ name # "zlib" => UNCHANGED zlibVars
  /\ name # "im refs" => UNCHANGED utilVars
  /\ name # "im stream" => UNCHANGED streamVars

MCNext ==
  \/ Of("ring", RingBufferNext) \/ Of("timer tree", RbtreeStep)
  \/ Of("json tree", TreeNext) \/ Of("json demo", JsonDemoNext)
  \/ Of("xml tree", XmlTreeNext) \/ Of("xml demo", DemoNext)
  \/ Of("bloom", BloomNext) \/ Of("zlib", ZlibNext)
  \/ Of("im refs", UtilNext) \/ Of("im stream", StreamNext)

MCSpec == MCInit /\ [][MCNext]_mcVars

(* The programs that keep a document in a file find it, where the file can *)
(* be opened, after any kill and new run, as they left it, or know that it *)
(* was torn; they modify what they were asked for and use no null pointer  *)
(* while the ids they ask for exist (comment_test.c, demo1.c, demo04.cpp,  *)
(* demo05.cpp); and a file of demo03 that a kill has left empty is never   *)
(* made whole (demo03.cpp:41).                                             *)
FilesKept ==
  /\ [](/\ CommentKept /\ DocumentKept /\ EditsUndone
        /\ NoNullPointer /\ UpdateSticks /\ OnlyAskedModified /\ RewrittenWhole)
  /\ TornForGood

(* What the encoders write the decoders read back: files through the      *)
(* Huffman coder for any order of equal counts, and of a cut file the part *)
(* before the cut (FileCompress.hpp:91-260); numbers, text and ids through *)
(* the streams and converters of the instant messaging example, whose      *)
(* counted object is deleted by its last owner and by no other             *)
(* (util.cc:31-310).                                                       *)
CodersExact == UtilExact /\ HuffmanRoundTrip /\ HuffmanOptimal /\ HuffmanCut
=============================================================================
