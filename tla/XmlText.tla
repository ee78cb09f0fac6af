-------------------------------- MODULE XmlText --------------------------------
(***************************************************************************)
(* tinyxml2.cpp: parsing a text into a document and printing it again.  A  *)
(* text is a sequence of character codes; a document is the sequence of    *)
(* its nodes.  Entities are processed and white space is kept, the         *)
(* defaults of XMLDocument; line numbers are left out.  A character        *)
(* reference has too few digits to overflow 32 bits.                       *)
(***************************************************************************)
EXTENDS Integers, Sequences, SequencesExt, FiniteSets

CONSTANT MaxDepth   \* TINYXML2_MAX_ELEMENT_DEPTH

VARIABLES xmlDoc,   \* a document to print
          xmlText,  \* a text to parse, as a sequence of pieces
          raw       \* raw text between two tags

xmlTextVars == <<xmlDoc, xmlText, raw>>

XmlTextInit(docs, texts, raws) == xmlDoc \in docs /\ xmlText \in texts /\ raw \in raws

\* F(x), where x is evaluated once.
With(x, F(_)) == CHOOSE r \in {F(y) : y \in {x}} : TRUE

LF == 10
CR == 13
WhiteSpace == {9, 10, 11, 12, 13, 32}
Lt == 60
Gt == 62
Amp == 38
Hash == 35
Semicolon == 59
Letters == (65 .. 90) \cup (97 .. 122) \cup {58, 95} \cup (128 .. 255)
NameStart == Letters
NameChars == Letters \cup (48 .. 57) \cup {45, 46}

\* The table of entities: pattern and value.
EntityTable == <<[pattern |-> <<113, 117, 111, 116>>, value |-> 34], [pattern |-> <<97, 109, 112>>, value |-> Amp],
                 [pattern |-> <<97, 112, 111, 115>>, value |-> 39], [pattern |-> <<108, 116>>, value |-> Lt],
                 [pattern |-> <<103, 116>>, value |-> Gt]>>

Element(name, attrs, kids) == [k |-> "element", name |-> name, attrs |-> attrs, kids |-> kids]
TextNode(s, cdata) == [k |-> "text", s |-> s, cdata |-> cdata]
Other(kind, s) == [k |-> kind, s |-> s]     \* comment, declaration, unknown

----------------------------------------------------------------------------
(* StrPair: the characters of a text are rewritten in place.  b is the     *)
(* buffer with its zero, p the read and q the write position.              *)

StartsWith(t, p, w) == p + Len(w) - 1 =< Len(t) /\ SubSeq(t, p, p + Len(w) - 1) = w
Next1(at) == CHOOSE i \in at : \A j \in at : i =< j
UpToZero(b) == SubSeq(b, 1, Next1({i \in DOMAIN b : b[i] = 0}) - 1)

\* ConvertUTF32ToUTF8
Utf8Bytes(c) ==
  CASE c < 128 -> <<c>>
    [] c >= 128 /\ c < 2048 -> <<192 + (c \div 64), 128 + (c % 64)>>
    [] c >= 2048 /\ c < 65536 -> <<224 + (c \div 4096), 128 + ((c \div 64) % 64), 128 + (c % 64)>>
    [] c >= 65536 /\ c < 2097152 ->
         <<240 + (c \div 262144), 128 + ((c \div 4096) % 64), 128 + ((c \div 64) % 64), 128 + (c % 64)>>
    [] OTHER -> << >>

HexOf(c) == CASE c \in 48 .. 57 -> c - 48 [] c \in 97 .. 102 -> c - 87 [] c \in 65 .. 70 -> c - 55 [] OTHER -> -1

\* GetCharacterRef at p: the bytes and the position behind it; 0 for none.  The
\* digits are those behind the last 'x' or '#' before the semicolon.
CharacterRef(b, p) ==
  LET hex    == b[p + 2] = 120
      mark   == IF hex THEN 120 ELSE Hash
      ends   == {i \in (IF hex THEN p + 3 ELSE p + 2) .. Len(b) : b[i] = Semicolon}
      marks  == {i \in p + 1 .. Next1(ends) - 1 : b[i] = mark}
      digits == SubSeq(b, (CHOOSE i \in marks : \A j \in marks : j =< i) + 1, Next1(ends) - 1)
      base   == IF hex THEN 16 ELSE 10
      code   == FoldLeft(LAMBDA n, c : n * base + HexOf(c), 0, digits)
  IN  IF b[p + 2] = 0 THEN [bytes |-> << >>, to |-> p + 1]
      ELSE IF ends = {} \/ \E i \in DOMAIN digits : HexOf(digits[i]) \notin 0 .. base - 1 THEN [bytes |-> << >>, to |-> 0]
      ELSE [bytes |-> Utf8Bytes(code), to |-> Next1(ends) + 1]

Put(b, q, s) == [i \in DOMAIN b |-> IF i \in q .. q + Len(s) - 1 THEN s[i - q + 1] ELSE b[i]]

\* The entities that stand at p.
EntitiesAt(b, p) == {i \in DOMAIN EntityTable : StartsWith(b, p + 1, EntityTable[i].pattern \o <<Semicolon>>)}

\* One turn of the loop of GetStr, at p: what is written and where reading
\* goes on.  An unknown entity writes nothing, and the place is kept.
Rewrite(b, p, entities) ==
  IF b[p] \in {CR, LF} THEN
    [bytes |-> <<LF>>, to |-> IF b[p + 1] = CR + LF - b[p] THEN p + 2 ELSE p + 1, keep |-> FALSE]
  ELSE IF ~entities \/ b[p] # Amp THEN [bytes |-> <<b[p]>>, to |-> p + 1, keep |-> FALSE]
  ELSE IF b[p + 1] = Hash THEN
    LET ref == CharacterRef(b, p)
    IN  IF ref.to = 0 THEN [bytes |-> <<Amp>>, to |-> p + 1, keep |-> FALSE]
        ELSE [bytes |-> ref.bytes, to |-> ref.to, keep |-> FALSE]
  ELSE IF EntitiesAt(b, p) # {} THEN
    LET e == EntityTable[Next1(EntitiesAt(b, p))]
    IN  [bytes |-> <<e.value>>, to |-> p + Len(e.pattern) + 2, keep |-> FALSE]
  ELSE [bytes |-> <<Amp>>, to |-> p + 1, keep |-> TRUE]

\* The loop of GetStr; over tells that writing has overtaken reading.
RECURSIVE InPlace(_, _, _, _, _)
InPlace(b, p, q, entities, over) ==
  IF p >= Len(b) THEN [s |-> UpToZero(Put(b, q, <<0>>)), over |-> over]
  ELSE With(Rewrite(b, p, entities), LAMBDA r :
         With(IF r.keep THEN b ELSE Put(b, q, r.bytes), LAMBDA c :
           InPlace(c, r.to, q + Len(r.bytes), entities, over \/ q + Len(r.bytes) > r.to)))

GetStr(s, entities) == InPlace(Append(s, 0), 1, 1, entities, FALSE)

----------------------------------------------------------------------------
(* Parsing.  t is the text with its zero; a position 0 is a null pointer.  *)

Skip(t, p) == Next1({i \in p .. Len(t) : t[i] \notin WhiteSpace})

\* StrPair::ParseText: where the text ends and what is behind its end tag.
ParseTextTo(t, p, tag) ==
  LET ends == {i \in p .. Len(t) - 1 : StartsWith(t, i, tag)}
  IN  IF ends = {} THEN [s |-> << >>, to |-> 0]
      ELSE [s |-> SubSeq(t, p, Next1(ends) - 1), to |-> Next1(ends) + Len(tag)]

\* StrPair::ParseName: no name leaves it empty.
ParseName(t, p) ==
  LET end == Next1({i \in p + 1 .. Len(t) : t[i] \notin NameChars})
  IN  IF t[p] \notin NameStart THEN [s |-> << >>, to |-> 0] ELSE [s |-> SubSeq(t, p, end - 1), to |-> end]

\* XMLAttribute::ParseDeep
ParseAttribute(t, p) ==
  With(ParseName(t, p), LAMBDA n :
    With(Skip(t, n.to), LAMBDA eq :
      With(IF t[eq] = 61 THEN Skip(t, eq + 1) ELSE eq, LAMBDA quote :
        IF t[n.to] = 0 \/ t[eq] # 61 \/ t[quote] \notin {34, 39} THEN [n |-> n.s, v |-> << >>, to |-> 0]
        ELSE With(ParseTextTo(t, quote + 1, <<t[quote]>>), LAMBDA v :
               [n |-> n.s, v |-> GetStr(v.s, TRUE).s, to |-> v.to]))))

\* XMLElement::ParseAttributes: a name may come only once.
RECURSIVE ParseAttributes(_, _, _)
ParseAttributes(t, from, sofar) ==
  With(Skip(t, from), LAMBDA p :
    IF t[p] \in NameStart THEN
      With(ParseAttribute(t, p), LAMBDA a :
        IF a.to = 0 \/ \E i \in DOMAIN sofar : sofar[i].n = a.n
        THEN [attrs |-> sofar, to |-> 0, closed |-> FALSE, err |-> "attribute"]
        ELSE ParseAttributes(t, a.to, Append(sofar, [n |-> a.n, v |-> a.v])))
    ELSE IF t[p] = Gt THEN [attrs |-> sofar, to |-> p + 1, closed |-> FALSE, err |-> "none"]
    ELSE IF t[p] = 47 /\ t[p + 1] = Gt THEN [attrs |-> sofar, to |-> p + 2, closed |-> TRUE, err |-> "none"]
    ELSE [attrs |-> sofar, to |-> 0, closed |-> FALSE, err |-> "element"])

\* A node that was parsed: kind of closing for an element, the name that a
\* closing tag inside of it had, and the error.
Parsed(node, to, err) == [node |-> node, to |-> to, closing |-> "closed", end |-> << >>, err |-> err]

\* The parsers of comment, declaration, unknown, CDATA and text.
ParseOther(t, p, kind, tag) ==
  With(ParseTextTo(t, p, tag), LAMBDA r :
    Parsed(Other(kind, GetStr(r.s, FALSE).s), r.to, IF r.to = 0 THEN kind ELSE "none"))
ParseCData(t, p) ==
  With(ParseTextTo(t, p, <<93, 93, Gt>>), LAMBDA r :
    Parsed(TextNode(GetStr(r.s, FALSE).s, TRUE), r.to, IF r.to = 0 THEN "cdata" ELSE "none"))
ParseText(t, p) ==
  With(ParseTextTo(t, p, <<Lt>>), LAMBDA r :
    IF r.to # 0 /\ t[r.to] # 0 THEN Parsed(TextNode(GetStr(r.s, TRUE).s, FALSE), r.to - 1, "none")
    ELSE Parsed(TextNode(<< >>, FALSE), 0, IF r.to = 0 THEN "text" ELSE "none"))

CDataHeader == <<Lt, 33, 91, 67, 68, 65, 84, 65, 91>>
CommentHeader == <<Lt, 33, 45, 45>>

RECURSIVE ParseNode(_, _, _)
RECURSIVE ParseElement(_, _, _)
RECURSIVE ParseDeep(_, _, _, _)

\* Identify and the ParseDeep of what it has found.  p is not white space,
\* and start the position before white space, where a text begins.
ParseNode(t, start, depth) ==
  With(Skip(t, start), LAMBDA p :
    IF StartsWith(t, p, <<Lt, 63>>) THEN ParseOther(t, p + 2, "declaration", <<63, Gt>>)
    ELSE IF StartsWith(t, p, CommentHeader) THEN ParseOther(t, p + 4, "comment", <<45, 45, Gt>>)
    ELSE IF StartsWith(t, p, CDataHeader) THEN ParseCData(t, p + 9)
    ELSE IF StartsWith(t, p, <<Lt, 33>>) THEN ParseOther(t, p + 2, "unknown", <<Gt>>)
    ELSE IF t[p] = Lt THEN ParseElement(t, Skip(t, p + 1), depth)
    ELSE ParseText(t, start))

\* XMLElement::ParseDeep
ParseElement(t, p, depth) ==
  With(IF t[p] = 47 THEN "closing" ELSE "open", LAMBDA first :
    With(ParseName(t, IF first = "closing" THEN p + 1 ELSE p), LAMBDA name :
      IF name.s = << >> THEN Parsed(Element(<< >>, << >>, << >>), 0, "none")
      ELSE With(ParseAttributes(t, name.to, << >>), LAMBDA a :
        With([Parsed(Element(name.s, a.attrs, << >>), a.to, a.err) EXCEPT !.closing = IF a.closed THEN "closed" ELSE first],
             LAMBDA r :
          IF a.to = 0 \/ r.closing # "open" \/ t[a.to] = 0 THEN r
          ELSE With(ParseDeep(t, a.to, depth + 1, << >>), LAMBDA in :
                 [r EXCEPT !.node.kids = in.kids, !.to = in.to, !.end = in.end, !.err = in.err])))))

\* An end tag that does not fit.
Mismatched(r) ==
  r.node.k = "element" /\ ~(IF r.end = << >> THEN r.closing # "open" ELSE r.closing = "open" /\ r.end = r.node.name)

\* PushDepth
TooDeep(depth) == depth >= MaxDepth

\* XMLNode::ParseDeep: depth counts the levels, 1 for the document.  All but
\* a closing tag ends with a null pointer.
ParseDeep(t, p, depth, kids) ==
  LET none(err) == [kids |-> kids, to |-> 0, end |-> << >>, err |-> err]
  IN  IF TooDeep(depth) THEN none("depth")
      ELSE IF p = 0 THEN none("none")
      ELSE IF t[Skip(t, p)] = 0 THEN none("none")
      ELSE With(ParseNode(t, p, depth), LAMBDA r :
             IF r.to = 0 THEN none(IF r.err = "none" THEN "parsing" ELSE r.err)
             ELSE IF r.node.k = "declaration"
                     /\ ~(depth = 1 /\ (kids = << >> \/ (kids[1].k = "declaration" /\ kids[Len(kids)].k = "declaration")))
             THEN none("declaration")
             ELSE IF r.closing = "closing" THEN [kids |-> kids, to |-> r.to, end |-> r.node.name, err |-> "none"]
             ELSE IF Mismatched(r) THEN none("mismatched")
             ELSE ParseDeep(t, r.to, depth, Append(kids, r.node)))

\* XMLDocument::Parse(p, len) and Parse(): white space, a byte order mark,
\* and the nodes.  A text that fails leaves no node.
ParseXml(s) ==
  With(Append(s, 0), LAMBDA t :
    With(Skip(t, 1), LAMBDA w :
      With(IF StartsWith(t, w, <<239, 187, 191>>) THEN w + 3 ELSE w, LAMBDA p :
        IF t[1] = 0 \/ t[p] = 0 THEN [err |-> "empty", kids |-> << >>]
        ELSE With(ParseDeep(t, p, 1, << >>), LAMBDA r :
               [err |-> r.err, kids |-> IF r.err = "none" THEN r.kids ELSE << >>]))))

----------------------------------------------------------------------------
(* XMLPrinter.  The state is what was printed, whether an element is open, *)
(* whether nothing came yet, the depth and the depth of the last text.     *)

Printer == [out |-> << >>, opened |-> FALSE, first |-> TRUE, depth |-> 0, text |-> -1]

\* Mutant: an ampersand in text is printed as it is.
EntityFlagsNoAmp(restricted) == IF restricted THEN {Lt, Gt} ELSE {EntityTable[i].value : i \in DOMAIN EntityTable}

\* The tables that the constructor makes.
EntityFlags(restricted) == IF restricted THEN {Amp, Lt, Gt} ELSE {EntityTable[i].value : i \in DOMAIN EntityTable}

\* PrintString
EntityOf(c) == LET e == CHOOSE i \in DOMAIN EntityTable : EntityTable[i].value = c
               IN  <<Amp>> \o EntityTable[e].pattern \o <<Semicolon>>
PrintText(s, restricted) ==
  FlattenSeq([i \in DOMAIN s |-> IF s[i] \in EntityFlags(restricted) THEN EntityOf(s[i]) ELSE <<s[i]>>])

Out(w, s) == [w EXCEPT !.out = @ \o s]

\* SealElementIfJustOpened
Seal(w) == IF w.opened THEN [Out(w, <<Gt>>) EXCEPT !.opened = FALSE] ELSE w

\* A new line and PrintSpace.
Indent(w, compact, later) ==
  IF w.text < 0 /\ later /\ ~compact THEN Out(w, <<LF>> \o [i \in 1 .. 4 * w.depth |-> 32]) ELSE w

\* PushComment, PushDeclaration and PushUnknown
PushOther(w, n, compact) ==
  LET marks == CASE n.k = "comment" -> <<CommentHeader, <<45, 45, Gt>>>>
                 [] n.k = "declaration" -> <<<<Lt, 63>>, <<63, Gt>>>>
                 [] n.k = "unknown" -> <<<<Lt, 33>>, <<Gt>>>>
  IN  [Out(Indent(Seal(w), compact, ~w.first), marks[1] \o n.s \o marks[2]) EXCEPT !.first = FALSE]

\* PushText
PushText(w, n) ==
  Out([Seal(w) EXCEPT !.text = w.depth - 1],
      IF n.cdata THEN CDataHeader \o n.s \o <<93, 93, Gt>> ELSE PrintText(n.s, TRUE))

\* OpenElement and its PushAttributes
OpenElement(w, n, compact) ==
  [Out(Indent(Seal(w), compact, ~w.first),
       <<Lt>> \o n.name \o FlattenSeq([i \in DOMAIN n.attrs |->
          <<32>> \o n.attrs[i].n \o <<61, 34>> \o PrintText(n.attrs[i].v, FALSE) \o <<34>>]))
    EXCEPT !.opened = TRUE, !.first = FALSE, !.depth = @ + 1]

\* CloseElement
CloseElement(w, n, compact) ==
  LET d == [w EXCEPT !.depth = @ - 1]
      e == IF w.opened THEN Out(d, <<47, Gt>>) ELSE Out(Indent(d, compact, TRUE), <<Lt, 47>> \o n.name \o <<Gt>>)
      f == [e EXCEPT !.text = IF @ = d.depth THEN -1 ELSE @, !.opened = FALSE]
  IN  IF d.depth = 0 /\ ~compact THEN Out(f, <<LF>>) ELSE f

\* Accept
RECURSIVE PrintNodes(_, _, _)
PrintNodes(w, nodes, compact) ==
  IF nodes = << >> THEN w
  ELSE With(LET n == Head(nodes)
            IN  CASE n.k = "text" -> PushText(w, n)
                  [] n.k = "element" ->
                       With(PrintNodes(OpenElement(w, n, compact), n.kids, compact), LAMBDA in : CloseElement(in, n, compact))
                  [] OTHER -> PushOther(w, n, compact),
            LAMBDA next : PrintNodes(next, Tail(nodes), compact))

PrintXml(nodes, compact) == PrintNodes(Printer, nodes, compact).out

----------------------------------------------------------------------------
(* Properties *)

(* A document with nodes is saved and loaded unchanged, printed compact or *)
(* with indentation: no escape is lost, and no indentation becomes text    *)
(* (tinyxml2.cpp:2596-2790).                                               *)
SavedIsLoaded ==
  \A compact \in BOOLEAN : xmlDoc # << >> => ParseXml(PrintXml(xmlDoc, compact)) = [err |-> "none", kids |-> xmlDoc]

(* What a text means does not change when it is printed compact and parsed *)
(* again.  The exception is a text behind the last element, which only a   *)
(* surplus closing tag lets through (tinyxml2.cpp:1092, 1196).             *)
TextMeaningKept ==
  With(ParseXml(FlattenSeq(xmlText)), LAMBDA r :
    r.err = "none" /\ r.kids # << >> /\ r.kids[Len(r.kids)].k # "text" =>
      ParseXml(PrintXml(r.kids, TRUE)) = [err |-> "none", kids |-> r.kids])

RECURSIVE Depth(_)
Depth(nodes) ==
  IF nodes = << >> THEN 0
  ELSE With(Depth(Tail(nodes)), LAMBDA rest :
         With(IF Head(nodes).k = "element" THEN 1 + Depth(Head(nodes).kids) ELSE 0, LAMBDA here :
           IF here > rest THEN here ELSE rest))

(* Elements are nested less deep than the limit, which keeps the recursion *)
(* of parsing, printing and deleting inside the stack (tinyxml2.cpp:2498). *)
DepthBounded == Depth(ParseXml(FlattenSeq(xmlText)).kids) < MaxDepth

\* A piece that is a tag of one letter: opening, closing or closed.
OpenTag(c) == Len(c) = 3 /\ c[1] = Lt /\ c[2] \in NameStart /\ c[3] = Gt
CloseTag(c) == Len(c) = 4 /\ c[1] = Lt /\ c[2] = 47 /\ c[3] \in NameStart /\ c[4] = Gt
ClosedTag(c) == Len(c) = 4 /\ c[1] = Lt /\ c[2] \in NameStart /\ c[3] = 47 /\ c[4] = Gt

\* The tags fit, with the names in open still to be closed.  At a closing
\* tag behind the last element the rest is not read any more.
RECURSIVE TagsMatch(_, _)
TagsMatch(tags, open) ==
  IF tags = << >> THEN open = << >>
  ELSE IF OpenTag(Head(tags)) THEN Len(open) + 2 < MaxDepth /\ TagsMatch(Tail(tags), Append(open, Head(tags)[2]))
  ELSE IF ClosedTag(Head(tags)) THEN TagsMatch(Tail(tags), open)
  ELSE open = << >> \/ (open[Len(open)] = Head(tags)[3] /\ TagsMatch(Tail(tags), SubSeq(open, 1, Len(open) - 1)))

(* A text of tags is accepted exactly when every tag that was opened is    *)
(* closed by its own name, innermost first, and it is not nested too deep. *)
(* A closing tag behind the last element ends the document without an      *)
(* error, whatever follows (tinyxml2.cpp:1024-1135).                       *)
NestingExact ==
  xmlText # << >> /\ (\A i \in DOMAIN xmlText : OpenTag(xmlText[i]) \/ CloseTag(xmlText[i]) \/ ClosedTag(xmlText[i])) =>
    (ParseXml(FlattenSeq(xmlText)).err = "none") = TagsMatch(xmlText, << >>)

\* The decoding of a raw text without a buffer: nothing is overwritten.
RECURSIVE Decoded(_, _)
Decoded(b, p) ==
  IF p >= Len(b) THEN << >> ELSE With(Rewrite(b, p, TRUE), LAMBDA r : r.bytes \o Decoded(b, r.to))

\* An unknown entity comes after something that has become shorter.
RECURSIVE KeptLate(_, _, _)
KeptLate(b, p, shorter) ==
  /\ p < Len(b)
  /\ With(Rewrite(b, p, TRUE), LAMBDA r :
       (r.keep /\ shorter) \/ KeptLate(b, r.to, shorter \/ r.to - p > Len(r.bytes)))

(* Decoding in place gives what decoding into a new string would give, and *)
(* never writes ahead of where it reads.  The exception is an unknown      *)
(* entity behind a known one: its ampersand is not copied, and a character *)
(* that was there before stays (tinyxml2.cpp:281-379).                     *)
InPlaceDecodes ==
  With(Append(raw, 0), LAMBDA b :
    With(GetStr(raw, TRUE), LAMBDA r :
      /\ ~r.over
      /\ ~KeptLate(b, 1, FALSE) => r.s = UpToZero(Append(Decoded(b, 1), 0))))

(* Each document of the instance, which have every kind of node, can be    *)
(* loaded again from what is printed and means the same; a text built of   *)
(* its pieces is accepted exactly if its tags match, within the limit of   *)
(* the depth; and decoding raw in place never overtakes what is still to   *)
(* be read                                                                 *)
(* (tinyxml2.cpp:195-376, 1057-1130, 2596-2648).                           *)
XmlTextSound == SavedIsLoaded /\ TextMeaningKept /\ DepthBounded /\ NestingExact /\ InPlaceDecodes
=============================================================================
