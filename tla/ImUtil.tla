-------------------------------- MODULE ImUtil --------------------------------
(***************************************************************************)
(* protobuf/im*/util.cc, UtilPdu.cc and ImPduBase.cc: the reference count  *)
(* with its CLock (Lock.cc), the text helpers, integers in network order,  *)
(* the header of a PDU, and CByteStream on a fixed piece of memory.  Texts *)
(* are sequences of byte values.                                           *)
(***************************************************************************)
EXTENDS Integers, Sequences, SequencesExt, FiniteSets, FiniteSetsExt, Functions

CONSTANTS Threads,        \* positive numbers
          MaxRefs,        \* bound on the references that exist
          Inputs,         \* of the text helpers: records of str, other and id
          Separator, Mark,
          IdBits,         \* the 32 bits of an id
          Writes,         \* sequences of values to write, each with its width
          MemorySizes

VARIABLES refCount,  \* m_refCount
          lock,      \* the thread that holds m_lock, 0 when it is free
          owns,      \* per thread: the references it may release
          doing,     \* per thread: the call it is in, "idle" outside
          deleted,   \* how often the object was deleted
          input,     \* what the helpers are applied to
          writes, memory, stream   \* CByteStream: what is written, and where

refVars == <<refCount, lock, owns, doing, deleted>>
utilVars == <<refCount, lock, owns, doing, deleted, input>>

UtilInit ==
  /\ refCount = 1 /\ lock = 0 /\ deleted = 0
  /\ owns \in {[t \in Threads |-> IF t = u THEN 1 ELSE 0] : u \in Threads}
  /\ doing = [t \in Threads |-> "idle"]
  /\ input \in Inputs

----------------------------------------------------------------------------
(* CRefObject with a lock.  A thread calls it only with a reference of its *)
(* own; a reference it has added may be given to another thread.           *)

CallAddRef(t) ==
  /\ doing[t] = "idle" /\ owns[t] > 0
  /\ SumFunction(owns) < MaxRefs
  /\ doing' = [doing EXCEPT ![t] = "add"]
  /\ UNCHANGED <<refCount, lock, owns, deleted>>

CallReleaseRef(t) ==
  /\ doing[t] = "idle" /\ owns[t] > 0
  /\ doing' = [doing EXCEPT ![t] = "release"]
  /\ UNCHANGED <<refCount, lock, owns, deleted>>

\* CLock::lock
TakeLock(t) ==
  /\ doing[t] \in {"add", "release"} /\ lock = 0
  /\ lock' = t
  /\ doing' = [doing EXCEPT ![t] = IF @ = "add" THEN "adding" ELSE "releasing"]
  /\ UNCHANGED <<refCount, owns, deleted>>

\* The count and unlock.
AddRef(t) ==
  /\ doing[t] = "adding"
  /\ refCount' = refCount + 1
  /\ owns' = [owns EXCEPT ![t] = @ + 1]
  /\ lock' = 0 /\ doing' = [doing EXCEPT ![t] = "idle"]
  /\ UNCHANGED deleted

\* At zero the object is deleted, and m_lock stays locked.
ReleaseRef(t) ==
  /\ doing[t] = "releasing"
  /\ refCount' = refCount - 1
  /\ owns' = [owns EXCEPT ![t] = @ - 1]
  /\ doing' = [doing EXCEPT ![t] = "idle"]
  /\ IF refCount' = 0 THEN deleted' = deleted + 1 /\ UNCHANGED lock
     ELSE lock' = 0 /\ UNCHANGED deleted

GiveRef(t, u) ==
  /\ doing[t] = "idle" /\ owns[t] > 1 /\ t # u
  /\ owns' = [owns EXCEPT ![t] = @ - 1, ![u] = @ + 1]
  /\ UNCHANGED <<refCount, lock, doing, deleted>>

UtilNext ==
  /\ \E t \in Threads : \/ CallAddRef(t) \/ CallReleaseRef(t) \/ TakeLock(t) \/ AddRef(t) \/ ReleaseRef(t)
                        \/ \E u \in Threads : GiveRef(t, u)
  /\ UNCHANGED input

----------------------------------------------------------------------------
(* URLEncode and URLDecode *)

IsDigit(c) == c \in 48 .. 57
IsAlnum(c) == IsDigit(c) \/ c \in 65 .. 90 \/ c \in 97 .. 122
ToHex(x) == IF x > 9 THEN x + 55 ELSE x + 48
FromHex(c) == IF IsDigit(c) THEN c - 48 ELSE c - 55

\* sOut += (char *)buf appends nothing for a zero byte that is alphanumeric:
\* there is none.
URLEncode(s) ==
  FlattenSeq([k \in DOMAIN s |-> IF IsAlnum(s[k]) THEN <<s[k]>> ELSE <<37, ToHex(s[k] \div 16), ToHex(s[k] % 16)>>])

\* Two characters always follow a '%' that URLEncode has written.
RECURSIVE URLDecode(_)
URLDecode(s) ==
  IF s = << >> THEN << >>
  ELSE IF s[1] = 37 THEN <<FromHex(s[2]) * 16 + FromHex(s[3])>> \o URLDecode(SubSeq(s, 4, Len(s)))
  ELSE <<IF s[1] = 43 THEN 32 ELSE s[1]>> \o URLDecode(Tail(s))

----------------------------------------------------------------------------
(* CStrExplode *)

\* The second loop: a separator at the start of an item becomes part of it.
Explode(s) ==
  FoldLeft(LAMBDA a, k : IF s[k] = Separator /\ k # a.start
                         THEN [items |-> Append(a.items, SubSeq(s, a.start, k - 1)), start |-> k + 1]
                         ELSE a,
           [items |-> << >>, start |-> 1], [k \in 1 .. Len(s) |-> k])

\* m_item_cnt entries, of which the first are set.
CStrExplode(s) ==
  LET cut == Explode(s)
      end == SubSeq(s, cut.start, Len(s))
  IN  [cnt   |-> 1 + Cardinality({k \in DOMAIN s : s[k] = Separator}),
       items |-> IF end = << >> THEN cut.items ELSE Append(cut.items, end)]

----------------------------------------------------------------------------
(* memfind and replace_mark *)

MatchesAt(src, sub, i) == SubSeq(src, i + 1, i + Len(sub)) = sub

\* flag = false; -1 is NULL.
MemfindBackwards(src, sub) ==
  LET at == {i \in 0 .. Len(src) - Len(sub) : MatchesAt(src, sub, i)}
  IN  IF at = {} THEN -1 ELSE Max(at)

\* flag = true: the last position is tried only when it is the first too.
MemfindForwards(src, sub) ==
  LET last == IF Len(src) = Len(sub) THEN 0 ELSE Len(src) - Len(sub) - 1
      at   == {i \in 0 .. last : MatchesAt(src, sub, i)}
  IN  IF at = {} THEN -1 ELSE Min(at)

\* The replacement stands between quotes; the search goes on behind it.
ReplaceMark(s, value, begin) ==
  LET at == {k \in begin + 1 .. Len(s) : s[k] = Mark}
  IN  IF at = {} THEN [str |-> s, begin |-> begin]
      ELSE [str   |-> SubSeq(s, 1, Min(at) - 1) \o <<39>> \o value \o <<39>> \o SubSeq(s, Min(at) + 1, Len(s)),
            begin |-> Min(at) - 1 + Len(value) + 2]

----------------------------------------------------------------------------
(* UtilPdu.cc: idtourl and urltoid *)

\* The digits of value in base 36, most significant first.
RECURSIVE Digits36(_)
Digits36(value) == IF value < 36 THEN <<value>> ELSE Append(Digits36(value \div 36), value % 36)

\* The version in front is 1.
Idtourl(id) == <<1>> \o Digits36((id * 2 + 56) % 2^IdBits)

Urltoid(url) ==
  ((FoldLeft(LAMBDA n, c : (n * 36 + c) % 2^IdBits, 0, Tail(url)) - 56) % 2^IdBits) \div 2

----------------------------------------------------------------------------
(* Integers in network order *)

\* WriteInt16 and WriteUint16: the bytes of data >> 8 and data & 0xFF.
Write16(data) == <<(data \div 256) % 256, data % 256>>

ReadUint16(b) == b[1] * 256 + b[2]

\* WriteInt32 and WriteUint32, ReadUint32.
Write32(data) == <<(data \div 16777216) % 256, (data \div 65536) % 256, (data \div 256) % 256, data % 256>>
ReadUint32(b) == b[1] * 16777216 + b[2] * 65536 + b[3] * 256 + b[4]

----------------------------------------------------------------------------
(* The header *)

\* WriteHeader, with the setters that overwrite one field.  SetPBMsg leaves
\* the header's place at the front of the buffer; the length is all of it.
WriteHeader(h) ==
  Write32(h.length) \o Write16(h.version) \o Write16(h.flag) \o Write16(h.service_id)
    \o Write16(h.command_id) \o Write16(h.seq_num) \o Write16(h.reversed)

ReadPduHeader(b) ==
  LET at(k) == ReadUint16(SubSeq(b, k + 1, k + 2))
  IN  [length |-> ReadUint32(SubSeq(b, 1, 4)), version |-> at(4), flag |-> at(6),
       service_id |-> at(8), command_id |-> at(10), seq_num |-> at(12), reversed |-> at(14)]

----------------------------------------------------------------------------
(* CByteStream on memory of len bytes: the operators << and >> *)

streamVars == <<writes, memory, stream>>

\* The constructor.
StreamInit ==
  /\ writes \in Writes
  /\ memory \in {[k \in 1 .. n |-> 0] : n \in MemorySizes}
  /\ stream = [mode |-> "write", pos |-> 0, next |-> 1, got |-> << >>]

Bytes(item) == CASE item.width = 1 -> <<item.value>>
                 [] item.width = 2 -> Write16(item.value)
                 [] item.width = 4 -> Write32(item.value)

\* _WriteByte: what does not fit is left out, without a word.
StreamWrite ==
  /\ stream.mode = "write" /\ stream.next =< Len(writes)
  /\ LET item == writes[stream.next]
         fits == stream.pos + item.width =< Len(memory)
     IN  /\ memory' = [k \in DOMAIN memory |->
                         IF fits /\ k \in stream.pos + 1 .. stream.pos + item.width
                         THEN Bytes(item)[k - stream.pos] ELSE memory[k]]
         /\ stream' = [stream EXCEPT !.next = @ + 1, !.pos = IF fits THEN @ + item.width ELSE @]
  /\ UNCHANGED writes

\* A new stream on the same memory, for reading.
StreamRewind ==
  /\ stream.mode = "write" /\ stream.next > Len(writes)
  /\ stream' = [mode |-> "read", pos |-> 0, next |-> 1, got |-> << >>]
  /\ UNCHANGED <<writes, memory>>

\* _ReadByte: a read past the end throws.
StreamRead ==
  /\ stream.mode = "read" /\ stream.next =< Len(writes)
  /\ LET width == writes[stream.next].width
         b     == SubSeq(memory, stream.pos + 1, stream.pos + width)
         value == CASE width = 1 -> b[1] [] width = 2 -> ReadUint16(b) [] width = 4 -> ReadUint32(b)
     IN  stream' = IF stream.pos + width > Len(memory) THEN [stream EXCEPT !.mode = "thrown"]
                   ELSE [stream EXCEPT !.next = @ + 1, !.pos = @ + width, !.got = Append(@, value)]
  /\ UNCHANGED <<writes, memory>>

StreamNext == StreamWrite \/ StreamRewind \/ StreamRead

----------------------------------------------------------------------------
(* Properties *)

(* The object is deleted when the last reference is released, once, and at *)
(* that moment no thread is in a call or waits for the lock, which is      *)
(* never unlocked again (util.cc:38-42).                                   *)
DeletedByLast ==
  /\ (deleted > 0) = (SumFunction(owns) = 0)
  /\ deleted =< 1
  /\ deleted = 1 => \A t \in Threads : doing[t] = "idle"

(* What URLEncode has written, URLDecode reads.                            *)
UrlRoundTrip == URLDecode(URLEncode(input.str)) = input.str

(* The fields of a text without empty fields are the items, all m_item_cnt *)
(* of them; with an empty field some entries stay unset, and the           *)
(* destructor deletes what they happen to hold (util.cc:94, 122-129).      *)
ExplodeComplete ==
  LET s     == input.str
      x     == CStrExplode(s)
      empty == s = << >> \/ Separator \in {s[1], Last(s)}
                 \/ \E k \in 1 .. Len(s) - 1 : s[k] = Separator /\ s[k + 1] = Separator
  IN  /\ Len(x.items) =< x.cnt
      /\ (Len(x.items) = x.cnt) = ~empty
      /\ ~empty => \A k \in DOMAIN x.items : x.items[k] # << >> /\ Separator \notin Range(x.items[k])

(* The backward search finds a text that occurs, the forward search one    *)
(* that occurs before the last possible position (util.cc:303-308).        *)
MemfindExact ==
  LET src    == input.str
      sub    == input.other
      places == {i \in 0 .. Len(src) - Len(sub) : MatchesAt(src, sub, i)}
      found  == MemfindBackwards(src, sub)
      first  == MemfindForwards(src, sub)
  IN  src # << >> /\ sub # << >> =>
        /\ found # -1 <=> places # {}
        /\ first # -1 => first \in places /\ first =< found
        /\ first = -1 => places \subseteq {Len(src) - Len(sub)}

(* A value with a mark in it is inserted once: the next call replaces a    *)
(* mark of the original text, never one of the value (util.cc:161-173).    *)
MarksOfTheText ==
  LET s   == input.str
      one == ReplaceMark(s, input.other, 0)
      two == ReplaceMark(one.str, <<Separator>>, one.begin)
      left(t) == Cardinality({k \in DOMAIN t : t[k] = Mark})
      least(n) == IF n > 0 THEN n - 1 ELSE 0
  IN  /\ Mark \in Range(s) => left(two.str) = least(left(s) - 1) + left(input.other)
      /\ IsSuffix(SubSeq(one.str, one.begin + 1, Len(one.str)), s)

(* The text of an id gives the id back, all but its highest bit, which the *)
(* multiplication by two has lost (UtilPdu.cc:306, 343).                   *)
IdRoundTrip == Urltoid(Idtourl(input.id)) = input.id % 2^(IdBits - 1)

(* A reader of the same fields gets all the values, or an exception: it is *)
(* never deceived by a write that was left out (UtilPdu.cc:271, 286).      *)
ReadsBackOrThrows ==
  stream.mode = "read" /\ stream.next > Len(writes) =>
    stream.got = [k \in DOMAIN writes |-> writes[k].value]

(* What WriteHeader has written, ReadPduHeader reads, field by field.      *)
HeaderReads(h) == ReadPduHeader(WriteHeader(h)) = h

(* ... for the written values taken as the fields of a header.             *)
HeadersAgree ==
  LET v(k) == IF k \in DOMAIN writes THEN writes[k].value ELSE k
  IN  HeaderReads([length |-> v(1), version |-> v(2) % 65536, flag |-> v(3) % 65536, service_id |-> v(4),
                   command_id |-> v(5), seq_num |-> v(6), reversed |-> v(7)])

(* Integers and headers read back what was written or throw                *)
(* (UtilPdu.cc:286), the last owner deletes the object (util.cc:40), and   *)
(* the text helpers are inverse to each other or agree with their          *)
(* definition (util.cc:120-310).                                           *)
UtilExact ==
  /\ ReadsBackOrThrows /\ HeadersAgree
  /\ DeletedByLast
  /\ UrlRoundTrip /\ ExplodeComplete /\ MemfindExact /\ MarksOfTheText /\ IdRoundTrip
=============================================================================
