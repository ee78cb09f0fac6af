------------------------------- MODULE CJsonText -------------------------------
(***************************************************************************)
(* cJSON.c: parsing, printing, minifying and comparing.  A text is a       *)
(* sequence of character codes, a value a record with its type t.  Numbers *)
(* are integers: what sprintf and strtod do with others is theirs.         *)
(***************************************************************************)
EXTENDS Integers, Sequences, SequencesExt, FiniteSets

CONSTANTS NestingLimit,     \* CJSON_NESTING_LIMIT
          IntMax,           \* INT_MAX, as a limit of buffer sizes
          BufferSizes       \* of cJSON_PrintBuffered, _PrintPreallocated and print

VARIABLES value,            \* a value to print
          other,            \* a value to compare it with
          text              \* a text to parse and to minify

jsonVars == <<value, other, text>>

JsonInit(values, others, texts) == value \in values /\ other \in others /\ text \in texts

\* F(x), where x is evaluated once.
Bind(x, F(_)) == CHOOSE r \in {F(y) : y \in {x}} : TRUE

Quote == 34
Backslash == 92
Comma == 44
Colon == 58
LBracket == 91
RBracket == 93
LBrace == 123
RBrace == 125
Slash == 47
Star == 42
NewLine == 10
Tab == 9
Space == 32

NULLWord == <<110, 117, 108, 108>>
TrueWord == <<116, 114, 117, 101>>
FalseWord == <<102, 97, 108, 115, 101>>

Absent == [t |-> "absent"]    \* no value to print, or none to compare it with
JNull == [t |-> "null"]
JTrue == [t |-> "true"]
JFalse == [t |-> "false"]
JNum(n) == [t |-> "num", n |-> n]
JStr(s) == [t |-> "str", s |-> s]
JArr(e) == [t |-> "arr", e |-> e]
JObj(e) == [t |-> "obj", e |-> e]     \* e: sequence of records k, v

----------------------------------------------------------------------------
(* Printing.  p is the printbuffer: what is in the buffer up to offset and *)
(* its length; over is set by a write outside of the buffer, and by an     *)
(* update_offset that finds no zero.                                       *)

NewBuffer(length, noalloc) == [text |-> << >>, length |-> length, noalloc |-> noalloc, ok |-> TRUE, over |-> FALSE]

\* Mutant: a buffer that cannot be doubled does not grow.
EnsureHalf(p, needed) ==
  LET want == needed + Len(p.text) + 1
  IN  IF ~p.ok \/ (p.length > 0 /\ Len(p.text) >= p.length) \/ needed > IntMax THEN [p EXCEPT !.ok = FALSE]
      ELSE IF want =< p.length THEN p
      ELSE IF p.noalloc \/ want > IntMax \div 2 THEN [p EXCEPT !.ok = FALSE]
      ELSE [p EXCEPT !.length = want * 2]

\* ensure
Ensure(p, needed) ==
  LET want == needed + Len(p.text) + 1
  IN  IF ~p.ok \/ (p.length > 0 /\ Len(p.text) >= p.length) \/ needed > IntMax THEN [p EXCEPT !.ok = FALSE]
      ELSE IF want =< p.length THEN p
      ELSE IF p.noalloc \/ want > IntMax THEN [p EXCEPT !.ok = FALSE]
      ELSE [p EXCEPT !.length = IF want > IntMax \div 2 THEN IntMax ELSE want * 2]

RECURSIVE Digits(_)
Digits(n) == IF n < 0 THEN <<45>> \o Digits(-n) ELSE IF n < 10 THEN <<48 + n>> ELSE Append(Digits(n \div 10), 48 + (n % 10))

HexDigit(x) == IF x > 9 THEN x + 87 ELSE x + 48

\* The short escapes: of quote, backslash, \b, \f, \n, \r, \t.
ShortEscape == [c \in {34, 92, 8, 12, 10, 13, 9} |->
  CASE c \in {34, 92} -> c [] c = 8 -> 98 [] c = 12 -> 102 [] c = 10 -> 110 [] c = 13 -> 114 [] c = 9 -> 116]

\* The second loop of print_string_ptr.
Escaped(s) ==
  FlattenSeq([k \in DOMAIN s |->
    IF s[k] \in DOMAIN ShortEscape THEN <<Backslash, ShortEscape[s[k]]>>
    ELSE IF s[k] < 32 THEN <<Backslash, 117, 48, 48, HexDigit(s[k] \div 16), HexDigit(s[k] % 16)>>
    ELSE <<s[k]>>])

\* The first loop of print_string_ptr.
EscapeCharacters(s) ==
  Cardinality({k \in DOMAIN s : s[k] \in DOMAIN ShortEscape})
    + 5 * Cardinality({k \in DOMAIN s : s[k] < 32 /\ s[k] \notin DOMAIN ShortEscape})

\* One write: how much is asked of ensure, the characters, whether a zero
\* follows them, and whether update_offset is called afterwards.
Op(need, chars, zero) == <<[need |-> need, chars |-> chars, zero |-> zero, update |-> FALSE]>>
Updated(ops) == [ops EXCEPT ![Len(ops)].update = TRUE]

PrintString(s) == Op(Len(s) + EscapeCharacters(s) + 3, <<Quote>> \o Escaped(s) \o <<Quote>>, TRUE)

Tabs(n) == [k \in 1 .. n |-> Tab]
IfFmt(fmt, chars) == IF fmt THEN chars ELSE << >>

\* print_value, print_array and print_object: the writes, one after the other.
RECURSIVE PrintValue(_, _, _)
PrintElements(e, depth, fmt) ==
  FlattenSeq([k \in DOMAIN e |->
    Updated(PrintValue(e[k], depth, fmt))
      \o IF k = Len(e) THEN << >> ELSE Op(IF fmt THEN 3 ELSE 2, <<Comma>> \o IfFmt(fmt, <<Space>>), TRUE)])

PrintMembers(e, depth, fmt) ==
  FlattenSeq([k \in DOMAIN e |->
    LET end == (IF k < Len(e) THEN <<Comma>> ELSE << >>) \o IfFmt(fmt, <<NewLine>>)
    IN  (IF fmt THEN Op(depth, Tabs(depth), FALSE) ELSE << >>)
          \o Updated(PrintString(e[k].k)) \o Op(IF fmt THEN 2 ELSE 1, <<Colon>> \o IfFmt(fmt, <<Tab>>), FALSE)
          \o Updated(PrintValue(e[k].v, depth, fmt)) \o Op(Len(end) + 1, end, TRUE)])

PrintValue(v, depth, fmt) ==
  CASE v.t = "null" -> Op(5, NULLWord, TRUE)
    [] v.t = "true" -> Op(5, TrueWord, TRUE)
    [] v.t = "false" -> Op(6, FalseWord, TRUE)
    [] v.t = "num" -> Op(Len(Digits(v.n)) + 1, Digits(v.n), TRUE)
    [] v.t = "str" -> PrintString(v.s)
    [] v.t = "arr" -> Op(1, <<LBracket>>, FALSE) \o PrintElements(v.e, depth + 1, fmt) \o Op(2, <<RBracket>>, TRUE)
    [] v.t = "obj" ->
         Op(IF fmt THEN 3 ELSE 2, <<LBrace>> \o IfFmt(fmt, <<NewLine>>), FALSE)
           \o PrintMembers(v.e, depth + 1, fmt)
           \o Op(IF fmt THEN depth + 2 ELSE 2, IfFmt(fmt, Tabs(depth)) \o <<RBrace>>, TRUE)

\* A write into the buffer; update_offset reads up to a zero.
WriteOp(p, op) ==
  Bind(Ensure(p, op.need), LAMBDA q :
    IF ~q.ok THEN q
    ELSE [q EXCEPT !.text = @ \o op.chars,
                   !.over = @ \/ Len(q.text) + Len(op.chars) + (IF op.zero THEN 1 ELSE 0) > q.length
                              \/ (op.update /\ ~op.zero)])

RECURSIVE WriteAll(_, _, _)
WriteAll(p, ops, k) == IF k > Len(ops) THEN p ELSE Bind(WriteOp(p, ops[k]), LAMBDA q : WriteAll(q, ops, k + 1))

\* print, cJSON_PrintBuffered and cJSON_PrintPreallocated
Printed(v, size, noalloc, fmt) ==
  Bind(Updated(PrintValue(v, 0, fmt)), LAMBDA ops : WriteAll(NewBuffer(size, noalloc), ops, 1))

----------------------------------------------------------------------------
(* Parsing.  t is the text with the zero at its end, o the offset; a       *)
(* result has the value or the offset of the failure.  inside is cleared   *)
(* by a read behind the text.                                              *)

Done(v, o) == [ok |-> TRUE, v |-> v, at |-> o, inside |-> TRUE, fits |-> TRUE]
Failed(o) == [ok |-> FALSE, v |-> JNull, at |-> o, inside |-> TRUE, fits |-> TRUE]

\* buffer_skip_whitespace: the zero is skipped too, and then taken back.
SkipWhitespace(t, o) ==
  LET stops == {k \in o .. Len(t) - 1 : t[k + 1] > 32}
  IN  IF o >= Len(t) THEN o
      ELSE IF stops = {} THEN Len(t) - 1 ELSE CHOOSE k \in stops : \A j \in stops : k =< j

HexValue(c) == CASE c \in 48 .. 57 -> c - 48 [] c \in 65 .. 70 -> c - 55 [] c \in 97 .. 102 -> c - 87 [] OTHER -> -1

\* parse_hex4: 0 for anything that is not a number.
ParseHex4(d) ==
  IF \E k \in 1 .. 4 : HexValue(d[k]) = -1 THEN 0
  ELSE HexValue(d[1]) * 4096 + HexValue(d[2]) * 256 + HexValue(d[3]) * 16 + HexValue(d[4])

\* The end of utf16_literal_to_utf8.
Utf8(cp) ==
  IF cp < 128 THEN <<cp>>
  ELSE IF cp < 2048 THEN <<192 + (cp \div 64), 128 + (cp % 64)>>
  ELSE IF cp < 65536 THEN <<224 + (cp \div 4096), 128 + ((cp \div 64) % 64), 128 + (cp % 64)>>
  ELSE <<240 + (cp \div 262144), 128 + ((cp \div 4096) % 64), 128 + ((cp \div 64) % 64), 128 + (cp % 64)>>

\* utf16_literal_to_utf8 for the literal at p in a string that ends at e:
\* bytes and length, which is 0 for a failure.
Utf16Literal(t, p, e) ==
  LET none   == [bytes |-> << >>, len |-> 0]
      first  == ParseHex4(SubSeq(t, p + 3, p + 6))
      second == ParseHex4(SubSeq(t, p + 9, p + 12))
  IN  IF e - p < 6 THEN none
      ELSE IF first \in 56320 .. 57343 THEN none
      ELSE IF first \notin 55296 .. 56319 THEN [bytes |-> Utf8(first), len |-> 6]
      ELSE IF e - p < 12 THEN none
      ELSE IF t[p + 7] # Backslash \/ t[p + 8] # 117 \/ second \notin 56320 .. 57343 THEN none
      ELSE [bytes |-> Utf8(65536 + (first % 1024) * 1024 + (second % 1024)), len |-> 12]

\* The first loop of parse_string: the closing quote, or -1.
RECURSIVE StringEnd(_, _)
StringEnd(t, o) ==
  IF o >= Len(t) THEN -1
  ELSE IF t[o + 1] = Quote THEN o
  ELSE IF t[o + 1] = Backslash THEN (IF o + 1 >= Len(t) THEN -1 ELSE StringEnd(t, o + 2))
  ELSE StringEnd(t, o + 1)

Unescape == [c \in {98, 102, 110, 114, 116, 34, 92, 47} |->
  CASE c = 98 -> 8 [] c = 102 -> 12 [] c = 110 -> 10 [] c = 114 -> 13 [] c = 116 -> 9 [] OTHER -> c]

\* The second loop, with the number of escapes it has met.
RECURSIVE Decode(_, _, _, _, _)
Decode(t, p, e, out, escapes) ==
  LET lit == Utf16Literal(t, p, e)
  IN  IF p >= e THEN [ok |-> TRUE, out |-> out, at |-> p, escapes |-> escapes]
      ELSE IF t[p + 1] # Backslash THEN Decode(t, p + 1, e, Append(out, t[p + 1]), escapes)
      ELSE IF t[p + 2] \in DOMAIN Unescape THEN Decode(t, p + 2, e, Append(out, Unescape[t[p + 2]]), escapes + 1)
      ELSE IF t[p + 2] = 117 /\ lit.len # 0 THEN Decode(t, p + lit.len, e, out \o lit.bytes, escapes + lit.len \div 6)
      ELSE [ok |-> FALSE, out |-> out, at |-> p, escapes |-> escapes]

\* A C string ends with its first zero, which \u0000 and bad digits give.
CString(s) == LET zeros == {k \in DOMAIN s : s[k] = 0}
              IN  IF zeros = {} THEN s ELSE SubSeq(s, 1, (CHOOSE k \in zeros : \A j \in zeros : k =< j) - 1)

\* parse_string reads its first character without a test of the length.
ParseString(t, from) ==
  Bind(from, LAMBDA o : IF o >= Len(t) THEN [Failed(o + 1) EXCEPT !.inside = FALSE]
    ELSE Bind(StringEnd(t, o + 1), LAMBDA e :
           IF t[o + 1] # Quote \/ e = -1 THEN Failed(o + 1)
           ELSE Bind(Decode(t, o + 1, e, << >>, 0), LAMBDA d :
                  IF d.ok THEN [Done(JStr(CString(d.out)), e + 1) EXCEPT !.fits = Len(d.out) + 1 =< (e - o) - d.escapes + 1]
                  ELSE Failed(d.at))))

\* parse_number: a sign and digits.
ParseNumber(t, o) ==
  LET first == IF t[o + 1] = 45 THEN o + 1 ELSE o
      past  == {k \in first .. Len(t) - 1 : t[k + 1] \notin 48 .. 57}
      end   == CHOOSE k \in past : \A j \in past : k =< j
      n     == FoldLeft(LAMBDA a, c : a * 10 + c - 48, 0, SubSeq(t, first + 1, end))
  IN  IF end = first THEN Failed(o) ELSE Done(JNum(IF first = o THEN n ELSE -n), end)

Word(t, o, w) == o + Len(w) =< Len(t) /\ SubSeq(t, o + 1, o + Len(w)) = w
At(t, o, c) == o < Len(t) /\ t[o + 1] = c
Clean(r, done) == Bind(done, LAMBDA d : [d EXCEPT !.inside = @ /\ r.inside, !.fits = @ /\ r.fits])

\* parse_value, and the loops of parse_array and parse_object, which start
\* at the character in front of an element.
RECURSIVE ParseValue(_, _, _)
RECURSIVE ParseElements(_, _, _, _)
RECURSIVE ParseMembers(_, _, _, _)
ParseValue(t, start, depth) ==
  Bind(<<start, SkipWhitespace(t, start + 1)>>, LAMBDA at :
    LET o == at[1] in == at[2]
    IN  IF Word(t, o, NULLWord) THEN Done(JNull, o + 4)
        ELSE IF Word(t, o, FalseWord) THEN Done(JFalse, o + 5)
        ELSE IF Word(t, o, TrueWord) THEN Done(JTrue, o + 4)
        ELSE IF At(t, o, Quote) THEN ParseString(t, o)
        ELSE IF o < Len(t) /\ t[o + 1] \in {45} \cup 48 .. 57 THEN ParseNumber(t, o)
        ELSE IF At(t, o, LBracket) THEN
          (IF depth >= NestingLimit THEN Failed(o)
           ELSE IF At(t, in, RBracket) THEN Done(JArr(<< >>), in + 1)
           ELSE ParseElements(t, in - 1, depth + 1, << >>))
        ELSE IF At(t, o, LBrace) THEN
          (IF depth >= NestingLimit THEN Failed(o)
           ELSE IF At(t, in, RBrace) THEN Done(JObj(<< >>), in + 1)
           ELSE ParseMembers(t, in - 1, depth + 1, << >>))
        ELSE Failed(o))

\* An element and what follows it: the end, a comma and more, or a failure.
ParseElements(t, o, depth, sofar) ==
  Bind(ParseValue(t, SkipWhitespace(t, o + 1), depth), LAMBDA v :
    Bind(<<SkipWhitespace(t, v.at), Append(sofar, v.v)>>, LAMBDA x :
      IF ~v.ok THEN v
      ELSE Clean(v, IF At(t, x[1], Comma) THEN ParseElements(t, x[1], depth, x[2])
                    ELSE IF At(t, x[1], RBracket) THEN Done(JArr(x[2]), x[1] + 1)
                    ELSE Failed(x[1]))))

ParseMember(t, k, depth) ==
  Bind(SkipWhitespace(t, k.at), LAMBDA colon :
    IF ~k.ok THEN k
    ELSE IF ~At(t, colon, Colon) THEN Clean(k, Failed(colon))
    ELSE Clean(k, ParseValue(t, SkipWhitespace(t, colon + 1), depth)))

ParseMembers(t, o, depth, sofar) ==
  Bind(ParseString(t, SkipWhitespace(t, o + 1)), LAMBDA k :
    Bind(ParseMember(t, k, depth), LAMBDA v :
      IF ~k.ok \/ ~v.ok THEN v
      ELSE Bind(<<SkipWhitespace(t, v.at), Append(sofar, [k |-> k.v.s, v |-> v.v])>>, LAMBDA x :
             Clean(v, IF At(t, x[1], Comma) THEN ParseMembers(t, x[1], depth, x[2])
                      ELSE IF At(t, x[1], RBrace) THEN Done(JObj(x[2]), x[1] + 1)
                      ELSE Failed(x[1])))))

\* cJSON_ParseWithOpts: a byte order mark is skipped; strict is
\* require_null_terminated.
Parse(s, strict) ==
  Bind(Append(s, 0), LAMBDA t :
    Bind(ParseValue(t, SkipWhitespace(t, IF Len(t) > 4 /\ SubSeq(t, 1, 3) = <<239, 187, 191>> THEN 3 ELSE 0), 0),
         LAMBDA v : LET end == SkipWhitespace(t, v.at)
                    IN  IF v.ok /\ strict /\ ~At(t, end, 0) THEN Clean(v, Failed(end)) ELSE v))

\* The position that cJSON_GetErrorPtr tells.
ErrorPosition(s, r) == IF r.at < Len(s) + 1 THEN r.at ELSE Len(s)

----------------------------------------------------------------------------
(* cJSON_Minify, from offset o of the text t *)

After(t, o, found) ==
  LET at == {k \in o .. Len(t) - 1 : found[k]} IN IF at = {} THEN -1 ELSE CHOOSE k \in at : \A j \in at : k =< j

\* skip_oneline_comment and skip_multiline_comment
SkipOneline(t, o) ==
  LET at == After(t, o + 2, [k \in 0 .. Len(t) |-> At(t, k, NewLine)]) IN IF at = -1 THEN Len(t) - 1 ELSE at + 1
SkipMultiline(t, o) ==
  LET at == After(t, o + 2, [k \in 0 .. Len(t) |-> At(t, k, Star) /\ At(t, k + 1, Slash)])
  IN  IF at = -1 THEN Len(t) - 1 ELSE at + 2

\* minify_string: an escaped quote does not end it, but neither does one
\* after an escaped backslash.
RECURSIVE MinifiedString(_, _)
MinifiedString(t, o) ==
  IF t[o + 1] = 0 THEN o
  ELSE IF t[o + 1] = Quote THEN o + 1
  ELSE IF t[o + 1] = Backslash /\ t[o + 2] = Quote THEN MinifiedString(t, o + 2)
  ELSE MinifiedString(t, o + 1)

RECURSIVE Minify(_, _)
Minify(t, o) ==
  IF t[o + 1] = 0 THEN << >>
  ELSE IF t[o + 1] \in {Space, Tab, 13, NewLine} THEN Minify(t, o + 1)
  ELSE IF t[o + 1] = Slash /\ t[o + 2] = Slash THEN Minify(t, SkipOneline(t, o))
  ELSE IF t[o + 1] = Slash /\ t[o + 2] = Star THEN Minify(t, SkipMultiline(t, o))
  ELSE IF t[o + 1] = Slash THEN Minify(t, o + 1)
  ELSE IF t[o + 1] = Quote THEN
    LET e == MinifiedString(t, o + 1) IN SubSeq(t, o + 1, e) \o Minify(t, e)
  ELSE <<t[o + 1]>> \o Minify(t, o + 1)

----------------------------------------------------------------------------
(* cJSON_Compare *)

ToLower(s) == [k \in DOMAIN s |-> IF s[k] \in 65 .. 90 THEN s[k] + 32 ELSE s[k]]
SameName(x, y, caseSensitive) == IF caseSensitive THEN x = y ELSE ToLower(x) = ToLower(y)

\* get_object_item in a parsed object: the first of that name.
Member(o, k, caseSensitive) ==
  LET at == {j \in DOMAIN o.e : SameName(k, o.e[j].k, caseSensitive)}
  IN  IF at = {} THEN << >> ELSE <<o.e[CHOOSE j \in at : \A i \in at : j =< i].v>>

RECURSIVE Compare(_, _, _)
Compare(a, b, cs) ==
  IF a.t # b.t THEN FALSE
  ELSE CASE a.t \in {"null", "true", "false"} -> TRUE
         [] a.t = "num" -> a.n = b.n
         [] a.t = "str" -> a.s = b.s
         [] a.t = "arr" -> Len(a.e) = Len(b.e) /\ \A k \in DOMAIN a.e : Compare(a.e[k], b.e[k], cs)
         [] a.t = "obj" ->
              LET in(x, y) == \A k \in DOMAIN x.e : LET m == Member(y, x.e[k].k, cs)
                                                    IN  m # << >> /\ Compare(x.e[k].v, m[1], cs)
              IN  in(a, b) /\ in(b, a)

----------------------------------------------------------------------------
(* Properties *)

\* The characters of all writes.
FullText(v, fmt) == Bind(PrintValue(v, 0, fmt), LAMBDA ops : FlattenSeq([k \in DOMAIN ops |-> ops[k].chars]))

(* For all sizes of the first buffer, every write of a print lies in the   *)
(* buffer, and what update_offset reads ends with a zero                   *)
(* (cJSON.c:435-533).  A value fails to print only into a fixed buffer, or *)
(* at the limit of INT_MAX, and a fixed buffer with two bytes to spare is  *)
(* large enough although the functions ask for more than they write        *)
(* (cJSON.c:1286).                                                         *)
PrintFits ==
  \A fmt \in BOOLEAN :
    Bind(FullText(value, fmt), LAMBDA full :
      \A size \in BufferSizes, noalloc \in BOOLEAN :
        Bind(Printed(value, size, noalloc, fmt), LAMBDA p :
          /\ ~p.over
          /\ Len(full) + 2 =< (IF noalloc THEN size ELSE IntMax) => p.text = full))

(* What was printed is parsed back, formatted or not (cJSON.c:1306-1815).  *)
ParsesPrinted ==
  \A fmt \in BOOLEAN :
    Bind(Printed(value, IntMax, TRUE, fmt), LAMBDA p :
      p.ok => Bind(Parse(p.text, TRUE), LAMBDA r : r.ok /\ r.v = value))

(* Whatever the text, parsing reads no character behind its zero, writes   *)
(* no more than it has allocated, and tells an error inside the text.      *)
ParseStaysInside ==
  \A strict \in BOOLEAN :
    Bind(Parse(text, strict), LAMBDA r : r.inside /\ r.fits /\ ErrorPosition(text, r) \in 0 .. Len(text))

\* The bytes are well-formed UTF-8, in the shortest form.
RECURSIVE WellFormed(_)
WellFormed(s) ==
  s = << >> \/ \E n \in 1 .. 4 :
    /\ n =< Len(s) /\ WellFormed(SubSeq(s, n + 1, Len(s)))
    /\ \A k \in 2 .. n : s[k] \in 128 .. 191
    /\ CASE n = 1 -> s[1] < 128
         [] n = 2 -> s[1] \in 194 .. 223
         [] n = 3 -> s[1] \in 224 .. 239 /\ (s[1] = 224 => s[2] >= 160) /\ (s[1] = 237 => s[2] < 160)
         [] n = 4 -> s[1] \in 240 .. 244 /\ (s[1] = 240 => s[2] >= 144) /\ (s[1] = 244 => s[2] < 144)

(* The escapes of an ASCII text become well-formed UTF-8: no half of a     *)
(* surrogate pair gets through (cJSON.c:646-764).                          *)
EscapesWellFormed ==
  Bind(Parse(text, TRUE), LAMBDA r :
    r.ok /\ r.v.t = "str" /\ (\A k \in DOMAIN text : text[k] < 128) => WellFormed(r.v.s))

\* A string in the text has an escaped backslash before its last quote.
BackslashEnds(t) == \E k \in 1 .. Len(t) - 2 : SubSeq(t, k, k + 2) = <<Backslash, Backslash, Quote>>

(* Minifying keeps the meaning of a text, as long as no string ends with   *)
(* an escaped backslash (cJSON.c:2806), and leaves no white space behind.  *)
MinifyKeepsMeaning ==
  Bind(Parse(text, TRUE), LAMBDA r :
    r.ok /\ ~BackslashEnds(text) =>
      Bind(Minify(Append(text, 0), 0), LAMBDA m :
        Bind(Parse(m, TRUE), LAMBDA s : s.ok /\ s.v = r.v /\ Len(m) =< Len(text))))

\* Equality up to the order of members, for objects without double names.
RECURSIVE Equivalent(_, _, _)
Equivalent(a, b, cs) ==
  /\ a.t = b.t
  /\ a.t = "num" => a.n = b.n
  /\ a.t = "str" => a.s = b.s
  /\ a.t = "arr" => Len(a.e) = Len(b.e) /\ \A k \in DOMAIN a.e : Equivalent(a.e[k], b.e[k], cs)
  /\ a.t = "obj" => /\ Len(a.e) = Len(b.e)
                    /\ \A k \in DOMAIN a.e : \E j \in DOMAIN b.e :
                         SameName(a.e[k].k, b.e[j].k, cs) /\ Equivalent(a.e[k].v, b.e[j].v, cs)

RECURSIVE NamesUnique(_, _)
NamesUnique(a, cs) ==
  /\ a.t = "arr" => \A k \in DOMAIN a.e : NamesUnique(a.e[k], cs)
  /\ a.t = "obj" => /\ \A k \in DOMAIN a.e : NamesUnique(a.e[k].v, cs)
                    /\ \A k, j \in DOMAIN a.e : SameName(a.e[k].k, a.e[j].k, cs) => k = j

(* cJSON_Compare is equality up to the order of members when no object has *)
(* two members of one name; otherwise a value may differ from itself.      *)
CompareExact ==
  \A cs \in BOOLEAN :
    NamesUnique(value, cs) /\ NamesUnique(other, cs) => Compare(value, other, cs) = Equivalent(value, other, cs)

(* Printing stays inside the buffer it asked for and what it prints is     *)
(* parsed back; parsing never leaves the text, however wrong it is, and    *)
(* makes only well-formed UTF-8; minifying keeps the meaning of a text in  *)
(* which no string ends with an escaped backslash, and comparing tells two *)
(* values apart exactly (cJSON.c:435-1660, 2819-3096).                     *)
JsonTextSound ==
  /\ value # Absent => IF other = Absent THEN PrintFits /\ ParsesPrinted ELSE CompareExact
  /\ ParseStaysInside /\ EscapesWellFormed /\ MinifyKeepsMeaning
=============================================================================
