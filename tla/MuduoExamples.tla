------------------------------ MODULE MuduoExamples ------------------------------
(***************************************************************************)
(* The small muduo examples: pingpong/client.cc with the echoing servers   *)
(* pingpong/server.cc and simple/echo/echo.cc; pingpong/bench.cc, a token  *)
(* race around a ring of socket pairs; twisted/finger; and                 *)
(* zeromq/remote_lat.cc with local_lat.cc.                                 *)
(***************************************************************************)
EXTENDS Integers, Sequences, SequencesExt, FiniteSets, FiniteSetsExt

CONSTANTS Sessions, blockSize, MaxMessages,   \* bound on messagesRead_
          numPipes, numActive, numWrites,
          Queries,    \* what finger clients send: sequences of lines
          Users,      \* the users of finger07
          totalMsgs   \* g_totalMsgs

ASSUME BlockAssumption == blockSize \in Nat
ASSUME PipesAssumption ==   \* runOnce divides by numActive
  numPipes \in Nat /\ numActive \in 1 .. numPipes /\ numWrites \in Nat
ASSUME QueriesAssumption == Queries \subseteq Seq(STRING)
ASSUME MsgsAssumption == totalMsgs \in Int

----------------------------------------------------------------------------
(* pingpong: a block of bytes for each session goes back and forth *)

VARIABLES session,       \* state, bytes on the way out and back, totals
          numConnected,  \* numConnected_
          timedOut,      \* handleTimeout has run
          quit           \* onDisconnect has asked the loop to quit

pingVars == <<session, numConnected, timedOut, quit>>

PingInit ==
  /\ session = [s \in Sessions |-> [state |-> "connecting", out |-> 0, back |-> 0, read |-> 0, messages |-> 0]]
  /\ numConnected = 0 /\ timedOut = FALSE /\ quit = FALSE

\* Session::onConnection sends the message and Client::onConnect counts.
OnConnection(s) ==
  /\ session[s].state = "connecting" /\ ~quit
  /\ session' = [session EXCEPT ![s].state = "up", ![s].out = blockSize]
  /\ numConnected' = numConnected + 1
  /\ UNCHANGED <<timedOut, quit>>

\* The server sends back what it has read.
Echo(s, n) ==
  /\ session[s].state \in {"up", "closing"} /\ n =< session[s].out
  /\ session' = [session EXCEPT ![s].out = @ - n, ![s].back = @ + n]
  /\ UNCHANGED <<numConnected, timedOut, quit>>

\* Session::onMessage: after disconnect() nothing more is sent.
OnPingMessage(s, n) ==
  /\ session[s].state \in {"up", "closing"} /\ n =< session[s].back
  /\ session[s].messages < MaxMessages
  /\ session' = [session EXCEPT ![s].back = @ - n, ![s].read = @ + n, ![s].messages = @ + 1,
                                ![s].out = IF session[s].state = "up" THEN @ + n ELSE @]
  /\ UNCHANGED <<numConnected, timedOut, quit>>

\* handleTimeout stops the sessions that are connected; disconnect() does
\* nothing for a connection that is still being made.
HandleTimeout ==
  /\ ~timedOut
  /\ timedOut' = TRUE
  /\ session' = [s \in Sessions |-> IF session[s].state = "up" THEN [session[s] EXCEPT !.state = "closing"] ELSE session[s]]
  /\ UNCHANGED <<numConnected, quit>>

\* onDisconnect: the last one out ends the program.
OnDisconnect(s) ==
  /\ session' = [session EXCEPT ![s].state = "down", ![s].out = 0, ![s].back = 0]
  /\ numConnected' = numConnected - 1
  /\ quit' = (quit \/ numConnected' = 0)
  /\ UNCHANGED timedOut

\* The server closes after it has read everything from a session that is closing.
ClosedByServer(s) == session[s].state = "closing" /\ OnDisconnect(s)
ConnectionLost(s) == session[s].state = "up" /\ OnDisconnect(s)

PingNext ==
  \/ HandleTimeout
  \/ \E s \in Sessions :
       OnConnection(s) \/ ClosedByServer(s) \/ ConnectionLost(s)
         \/ \E n \in 1 .. blockSize : Echo(s, n) \/ OnPingMessage(s, n)

(* While a session is up its block is on the way, no byte more or less,    *)
(* however the two ends cut it (client.cc:58-75).                          *)
BlockCirculates ==
  \A s \in Sessions : session[s].state = "up" => session[s].out + session[s].back = blockSize

(* The client ends when its timeout finds all sessions connected; one that *)
(* connects later is never stopped (client.cc:151).                        *)
PingEnds == timedOut /\ (\A s \in Sessions : session[s].state \in {"closing", "down"}) ~> quit

----------------------------------------------------------------------------
(* pingpong/bench.cc: callbacks write to the next pipe *)

VARIABLES pipe,    \* bytes in each socket pair
          g,       \* g_reads, g_writes, g_fired
          halted   \* quit() was called

benchVars == <<pipe, g, halted>>

Pipes == 0 .. numPipes - 1

\* runOnce up to loop(); space is the distance of the active pipes.
BenchInit ==
  /\ pipe = [i \in Pipes |-> Cardinality({k \in 0 .. numActive - 1 : i = k * (numPipes \div numActive)})]
  /\ g = [reads |-> 0, writes |-> numWrites, fired |-> numActive]
  /\ halted = FALSE

\* Mutant: the loop is left with the last write, not with the last read.
ReadCallbackEarly(i) ==
  LET fires == g.writes > 0
      next  == [reads |-> g.reads + 1, writes |-> g.writes - (IF fires THEN 1 ELSE 0),
                fired |-> g.fired + (IF fires THEN 1 ELSE 0)]
  IN  /\ pipe[i] > 0
      /\ pipe' = [j \in Pipes |-> pipe[j] - (IF j = i THEN 1 ELSE 0)
                                  + (IF fires /\ j = (i + 1) % numPipes THEN 1 ELSE 0)]
      /\ g' = next
      /\ halted' = (halted \/ next.writes = 0)

\* readCallback of pipe i; callbacks of the same round run after quit() too.
ReadCallback(i) ==
  LET fires == g.writes > 0
      next  == [reads |-> g.reads + 1, writes |-> g.writes - (IF fires THEN 1 ELSE 0),
                fired |-> g.fired + (IF fires THEN 1 ELSE 0)]
  IN  /\ pipe[i] > 0
      /\ pipe' = [j \in Pipes |-> pipe[j] - (IF j = i THEN 1 ELSE 0)
                                  + (IF fires /\ j = (i + 1) % numPipes THEN 1 ELSE 0)]
      /\ g' = next
      /\ halted' = (halted \/ next.fired = next.reads)

BenchNext == \E i \in Pipes : ReadCallback(i)

(* The loop is left exactly when every byte that was fired has been read,  *)
(* all of numActive + numWrites, so that the next run starts with empty    *)
(* pipes (bench.cc:44-47).                                                 *)
BenchExact ==
  halted <=> g.reads = numActive + numWrites /\ \A i \in Pipes : pipe[i] = 0

----------------------------------------------------------------------------
(* twisted/finger: one line, one answer *)

VARIABLES query, unread, fbuf, said, shut

fingerVars == <<query, unread, fbuf, said, shut>>

FingerInit == query \in Queries /\ unread = query /\ fbuf = << >> /\ said = << >> /\ shut = FALSE

\* getUser: finger06 has no users, finger07 has one.
GetUser(user) == IF user \in Users THEN user ELSE "No such user"

CrlfAt(buf) == IF \E k \in DOMAIN buf : buf[k] = "crlf" THEN CHOOSE k \in DOMAIN buf : buf[k] = "crlf" /\ \A j \in 1 .. k - 1 : buf[j] # "crlf" ELSE 0

\* onMessage of finger06 and finger07; lines that follow find the connection
\* shut down, and their answers are not sent.
FingerMessage(piece) ==
  LET buf == fbuf \o piece
      k   == CrlfAt(buf)
  IN  IF k = 0 THEN fbuf' = buf /\ UNCHANGED <<said, shut>>
      ELSE /\ said' = IF shut THEN said ELSE Append(said, GetUser(SubSeq(buf, 1, k - 1)))
           /\ fbuf' = SubSeq(buf, k + 1, Len(buf))
           /\ shut' = TRUE

FingerNext ==
  \E n \in 1 .. Len(unread) :
    /\ FingerMessage(SubSeq(unread, 1, n))
    /\ unread' = SubSeq(unread, n + 1, Len(unread))
    /\ UNCHANGED query

(* However the query is cut, it gets one answer, for its first line, as    *)
(* soon as that line is complete.                                          *)
FingerOnce ==
  LET got == SubSeq(query, 1, Len(query) - Len(unread))
      k   == CrlfAt(got)
  IN  said = IF k = 0 THEN << >> ELSE <<GetUser(SubSeq(got, 1, k - 1))>>

----------------------------------------------------------------------------
(* zeromq/remote_lat.cc and local_lat.cc: one message back and forth *)

VARIABLES lat   \* g_msgCount, where the message is, the state of the client

latVars == <<lat>>

LatInit == lat = [count |-> 0, at |-> "none", state |-> "connecting"]

LatConnect == lat.state = "connecting" /\ lat' = [lat EXCEPT !.at = "server", !.state = "up"]
LocalLat == lat.at = "server" /\ lat' = [lat EXCEPT !.at = "client"]

OnStringMessage ==
  /\ lat.at = "client"
  /\ lat' = [lat EXCEPT !.count = @ + 1,
                        !.at = IF lat.count + 1 < totalMsgs THEN "server" ELSE "none",
                        !.state = IF lat.count + 1 < totalMsgs THEN @ ELSE "closing"]

\* onConnection of the closed connection quits the loop.
LatDisconnect == lat.state \in {"up", "closing"} /\ lat' = [lat EXCEPT !.state = "quit", !.at = "none"]

LatNext == LatConnect \/ LocalLat \/ OnStringMessage \/ LatDisconnect

(* A client that is not cut off makes g_totalMsgs round trips, one at      *)
(* least, and ends.                                                        *)
RoundTrips ==
  /\ lat.state = "closing" => lat.count = (IF totalMsgs > 1 THEN totalMsgs ELSE 1)
  /\ lat.count =< (IF totalMsgs > 1 THEN totalMsgs ELSE 1)

(* However the streams are cut and whenever connections close, the small   *)
(* programs pass on exactly what they got and stop when all of it is back  *)
(* (pingpong/client.cc:40-120, bench.cc:44, finger06.cc, remote_lat.cc).   *)
ExamplesExact == BlockCirculates /\ BenchExact /\ FingerOnce /\ RoundTrips
=============================================================================
