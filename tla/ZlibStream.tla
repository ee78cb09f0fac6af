----------------------------- MODULE ZlibStream -----------------------------
(* DeflatingStream.cpp and InflatingStream.cpp with the programs around    *)
(* them: compressOneFile reads a file in blocks, hands them to the library *)
(* and writes what comes out of its buffer; the result may be damaged;     *)
(* decompressOneFile turns it back.  A compressed file is a sequence of    *)
(* runs [b, n], closed by an "end", which stands for the checksum too.     *)
EXTENDS Naturals, SequencesExt, FiniteSetsExt

CONSTANTS
  ZBytes,      \* the bytes
  BlockSize,   \* DATA_SIZE
  BufferSize,  \* DEFLATE_BUFFER_SIZE and INFLATE_BUFFER_SIZE
  MaxRun,      \* bound: the longest run that the library makes one
  MaxWrong     \* bound: the bytes that damage is decoded into

ASSUME ZlibAssumption == BlockSize \in Nat \ {0} /\ BufferSize \in Nat /\ MaxRun \in Nat /\ MaxWrong \in Nat

VARIABLES
  original,    \* the file to compress
  zprogram,    \* "deflate", "damage", "inflate" or "done"
  zfile,       \* what the program has still to read
  written,     \* what it has written to its output file
  outStr,      \* the string of the present call of Deflate or Inflate
  zstep,       \* "read", or where the present call is: "loop" or "finish"
  lib,         \* the library: avail_in, the buffer, what it holds, what it did, and
               \* history: whether it has decoded damage, and the bytes given out before
  damage       \* history: "none", "cut", "more" or "bad"

zlibVars == <<original, zprogram, zfile, written, outStr, zstep, lib, damage>>

End == [b |-> "end", n |-> 0]
Bad == [b |-> "bad", n |-> 0]

NewLib == [in |-> << >>, out |-> << >>, held |-> << >>, moved |-> FALSE, state |-> "run",
           wrong |-> FALSE, good |-> 0]

ZlibInit(files) ==
  /\ original \in files /\ zprogram = "deflate" /\ zfile = original /\ damage = "none"
  /\ written = << >> /\ outStr = << >> /\ zstep = "read" /\ lib = NewLib

\* fread of a block and the start of a call; without data the call is the one
\* with a null pointer, which sets _eof.
ReadBlock ==
  /\ zprogram \in {"deflate", "inflate"} /\ zstep = "read"
  /\ LET n == Min({BlockSize, Len(zfile)})
     IN  /\ lib' = [lib EXCEPT !.in = SubSeq(zfile, 1, n), !.out = << >>, !.moved = FALSE]
         /\ zfile' = SubSeq(zfile, n + 1, Len(zfile))
         /\ zstep' = IF n = 0 THEN "finish" ELSE "loop"
  /\ outStr' = << >> /\ UNCHANGED <<original, zprogram, written, damage>>

\* fwrite of outStr after the call, whatever it has returned.
Return(out) ==
  /\ written' = written \o out /\ outStr' = << >>
  /\ IF zstep = "loop" THEN zstep' = "read" /\ UNCHANGED zprogram
     ELSE zstep' = "read" /\ zprogram' = IF zprogram = "deflate" THEN "damage" ELSE "done"

\* Mutant: a full buffer is used again without having been appended.
AppendBufferDrops == outStr' = outStr /\ lib' = [lib EXCEPT !.out = << >>, !.moved = FALSE]

\* outStr.append of the buffer, which is empty again.
AppendBuffer == outStr' = outStr \o lib.out /\ lib' = [lib EXCEPT !.out = << >>, !.moved = FALSE]

-----------------------------------------------------------------------------
(* The library.  deflate takes bytes and holds them back as it likes;      *)
(* inflate gives out all it can.                                           *)
InLibrary == zstep \in {"loop", "finish"} /\ zprogram \in {"deflate", "inflate"}
BufferRoom == Len(lib.out) < BufferSize
Library == UNCHANGED <<original, zprogram, zfile, written, outStr, zstep, damage>>

DeflateTakes ==
  /\ InLibrary /\ zprogram = "deflate" /\ lib.in # << >>
  /\ lib' = [lib EXCEPT !.in = Tail(@), !.held = Append(@, Head(lib.in)), !.moved = TRUE] /\ Library

DeflateEmits ==
  /\ InLibrary /\ zprogram = "deflate" /\ BufferRoom
  /\ \/ \E n \in 1 .. Min({MaxRun, Len(lib.held)}) :
          /\ \A k \in 1 .. n : lib.held[k] = lib.held[1]
          /\ lib' = [lib EXCEPT !.held = SubSeq(@, n + 1, Len(@)), !.out = Append(@, [b |-> lib.held[1], n |-> n]), !.moved = TRUE]
     \/ /\ zstep = "finish" /\ lib.held = << >> /\ lib.state = "run"
        /\ lib' = [lib EXCEPT !.out = Append(@, End), !.moved = TRUE, !.state = "ended"]
  /\ Library

InflateTakes ==
  /\ InLibrary /\ zprogram = "inflate" /\ lib.in # << >> /\ lib.held = << >> /\ lib.state = "run"
  /\ LET u == Head(lib.in)
     IN  /\ u # Bad /\ ~lib.wrong
         /\ lib' = [lib EXCEPT !.in = Tail(@), !.moved = TRUE, !.held = [k \in 1 .. u.n |-> u.b],
                               !.state = IF u = End THEN "ended" ELSE "run"]
  /\ Library

\* Damage may be noticed where it is, ...
InflateNotices ==
  /\ InLibrary /\ zprogram = "inflate" /\ lib.in # << >> /\ lib.held = << >> /\ lib.state = "run"
  /\ Head(lib.in) = Bad \/ lib.wrong
  /\ lib' = [lib EXCEPT !.in = Tail(@), !.moved = TRUE, !.state = "bad"]
  /\ Library

\* ... or decoded into other bytes, and so may all that follows it.  That is
\* noticed at the checksum, unless the end is not found any more.
InflateMistakes ==
  /\ InLibrary /\ zprogram = "inflate" /\ lib.in # << >> /\ lib.held = << >> /\ lib.state = "run"
  /\ Head(lib.in) = Bad \/ lib.wrong
  /\ \E n \in 0 .. MaxWrong : \E bytes \in [1 .. n -> ZBytes] :
       lib' = [lib EXCEPT !.in = Tail(@), !.moved = TRUE, !.held = bytes, !.wrong = TRUE,
                          !.good = IF lib.wrong THEN @ ELSE Len(written \o outStr \o lib.out)]
  /\ Library

InflateEmits ==
  /\ InLibrary /\ zprogram = "inflate" /\ lib.held # << >> /\ BufferRoom
  /\ lib' = [lib EXCEPT !.held = Tail(@), !.out = Append(@, Head(lib.held)), !.moved = TRUE] /\ Library

\* What the call of the library may return now; it has done all it can.
DeflateResult(rc) ==
  /\ InLibrary /\ zprogram = "deflate"
  /\ CASE rc = "Z_STREAM_END" -> zstep = "finish" /\ lib.state = "ended"
       [] rc = "Z_OK" -> IF zstep = "loop" THEN lib.in = << >> \/ ~BufferRoom ELSE lib.state = "run" /\ ~BufferRoom
       [] rc = "Z_BUF_ERROR" -> zstep = "loop" /\ lib.in = << >> /\ ~lib.moved

InflateResult(rc) ==
  /\ InLibrary /\ zprogram = "inflate"
  /\ CASE rc = "Z_STREAM_END" -> lib.state = "ended"
       [] rc = "Z_DATA_ERROR" -> lib.state = "bad"
       [] rc = "Z_OK" -> zstep = "loop" /\ lib.state = "run" /\ lib.moved /\ ((lib.in = << >> /\ lib.held = << >>) \/ ~BufferRoom)
       [] rc = "Z_BUF_ERROR" -> /\ lib.state = "run"
                                /\ IF zstep = "loop" THEN ~lib.moved /\ lib.in = << >> /\ lib.held = << >>
                                   ELSE (lib.in = << >> /\ lib.held = << >>) \/ ~BufferRoom

-----------------------------------------------------------------------------
\* The for loop of Deflate and Inflate, after a Z_OK: a full buffer is appended
\* and the loop goes on; else all input was taken, and the call ends.
LoopOn ==
  /\ zstep = "loop" /\ (DeflateResult("Z_OK") \/ InflateResult("Z_OK"))
  /\ IF ~BufferRoom THEN AppendBuffer /\ UNCHANGED <<zprogram, written, zstep>>
     ELSE Return(outStr \o lib.out) /\ lib' = [lib EXCEPT !.out = << >>]
  /\ UNCHANGED <<original, zfile, damage>>

\* The branch of _eof, while it is Z_OK.  inflate does not return Z_OK when it
\* is told to finish, so that the same branch of Inflate is never reached.
FinishOn ==
  /\ zstep = "finish" /\ DeflateResult("Z_OK")
  /\ AppendBuffer /\ UNCHANGED <<original, zprogram, zfile, written, zstep, damage>>

\* Z_STREAM_END ends the call, with what is in the buffer.
StreamEnd ==
  /\ DeflateResult("Z_STREAM_END") \/ InflateResult("Z_STREAM_END")
  /\ Return(outStr \o lib.out) /\ lib' = [lib EXCEPT !.out = << >>] /\ UNCHANGED <<original, zfile, damage>>

\* Any other code: return -1; the buffer is not appended.
ReturnsError ==
  /\ DeflateResult("Z_BUF_ERROR") \/ InflateResult("Z_BUF_ERROR") \/ InflateResult("Z_DATA_ERROR")
  /\ Return(outStr) /\ lib' = [lib EXCEPT !.out = << >>] /\ UNCHANGED <<original, zfile, damage>>

\* Between the programs the file may lose its end, get a second stream behind
\* it, or be spoilt at one place.
Damage ==
  /\ zprogram = "damage"
  /\ \/ damage' = "none" /\ zfile' = written
     \/ damage' = "cut" /\ \E n \in 0 .. Len(written) - 1 : zfile' = SubSeq(written, 1, n)
     \/ damage' = "more" /\ zfile' = written \o written
     \/ damage' = "bad" /\ \E n \in DOMAIN written : zfile' = [written EXCEPT ![n] = Bad]
  /\ zprogram' = "inflate" /\ written' = << >> /\ lib' = NewLib /\ UNCHANGED <<original, outStr, zstep>>

ZlibNext ==
  \/ ReadBlock \/ LoopOn \/ FinishOn \/ StreamEnd \/ ReturnsError \/ Damage
  \/ DeflateTakes \/ DeflateEmits \/ InflateTakes \/ InflateNotices
  \/ InflateMistakes \/ InflateEmits

-----------------------------------------------------------------------------
(* What is written at the end of both programs is the file, although a     *)
(* call may return -1 when its last output has just filled the buffer, and *)
(* however the library holds data back (DeflatingStream.cpp:66-119).       *)
ZlibRoundTrip == zprogram = "done" /\ damage = "none" => written = original

(* From a file that is cut short only the beginning is written, and a      *)
(* second stream behind the first is passed over without a word.  Of a     *)
(* spoilt file everything before the damage that is written is right; from *)
(* there on the output may be wrong, as the program writes each block      *)
(* before the library has seen the checksum, and goes on after the error   *)
(* (InflatingStream.cpp:71-94, inflate.cpp:33-44).                         *)
ZlibPrefix ==
  zprogram \in {"inflate", "done"} =>
    /\ ~lib.wrong => IsPrefix(written, original)
    /\ lib.wrong => /\ damage = "bad"
                    /\ \A k \in DOMAIN written : k =< lib.good => k =< Len(original) /\ written[k] = original[k]
    /\ zprogram = "done" /\ damage = "more" => written = original

(* Both, for any file, any sizes of block and buffer, and any way in which *)
(* the library holds data back (DeflatingStream.cpp:66-119,                *)
(* InflatingStream.cpp:71-94).                                             *)
ZlibSound == ZlibRoundTrip /\ ZlibPrefix
=============================================================================
