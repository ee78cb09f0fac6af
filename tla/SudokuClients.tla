------------------------------ MODULE SudokuClients ------------------------------
(***************************************************************************)
(* muduo/examples/sudoku: the clients pipeline.cc (keeps pipelines_        *)
(* requests in flight), batch.cc (sends its input at once and counts the   *)
(* answers) and loadtest.cc (sends at a rate), each with one connection to *)
(* a server that answers every request once, in any order.                 *)
(*                                                                         *)
(* Sizes are units of the stream: a result has FullAnswer units, kCells + 2 *)
(* bytes or a little more; "NoSolution" and "ServerTooBusy" have one.      *)
(***************************************************************************)
EXTENDS Integers, Sequences, FiniteSets, SequencesExt, FiniteSetsExt

CONSTANTS pipelines,   \* requests the pipeline client keeps in flight
          BatchSize,   \* lines of the batch client's input
          rps, kHz, MaxTicks,   \* the rate of the load test; bound on its ticks
          Ids          \* bound on the numbers of requests in use at one time

FullAnswer == 3

VARIABLES client,    \* kind, connection, sendTime_ (the ids in flight) and counters
          asked,     \* requests the server has not answered
          replies,   \* answers the client has not taken from its buffer
          buffered,  \* units of them that have arrived
          brief      \* history: the server has sent an answer of one unit

clientsVars == <<client, asked, replies, buffered, brief>>

\* The constructors.
ClientsInit ==
  /\ client \in [kind : {"pipeline", "batch", "loadtest"}, conn : {"none"}, sendTime : {{}},
                 count : {0}, finished : {0}, ticks : {0}, sofar : {0}]
  /\ asked = {} /\ replies = << >> /\ buffered = 0 /\ brief = FALSE

\* The next n numbers: count_ goes up for ever, here those in use are not
\* given out again.
Fresh(used, n) == CHOOSE s \in kSubset(n, Ids \ used) : \A i \in s, j \in (Ids \ used) \ s : i < j
InUse == asked \cup client.sendTime \cup {replies[k].id : k \in DOMAIN replies}

\* send(n): the requests, their times and one write to the connection.
SendRequests(c, n) ==
  LET new == Fresh(InUse, n)
  IN  [client |-> [c EXCEPT !.sendTime = @ \cup new], asked |-> asked \cup new]

\* onConnection: pipeline fills its window, batch sends everything.
Connect ==
  /\ client.conn = "none"
  /\ LET up == [client EXCEPT !.conn = "up"]
         s  == CASE client.kind = "pipeline" -> SendRequests(up, pipelines)
                 [] client.kind = "batch"    -> SendRequests(up, BatchSize)
                 [] client.kind = "loadtest" -> [client |-> up, asked |-> asked]
     IN  client' = s.client /\ asked' = s.asked
  /\ UNCHANGED <<replies, buffered, brief>>

\* The load test's timer, connected or not.
Tick ==
  /\ client.kind = "loadtest" /\ client.ticks < MaxTicks
  /\ LET reqs == (rps * (client.ticks + 1)) \div kHz - client.sofar
         c    == [client EXCEPT !.ticks = @ + 1, !.sofar = @ + reqs]
         s    == IF reqs > 0 /\ c.conn = "up" THEN SendRequests(c, reqs) ELSE [client |-> c, asked |-> asked]
     IN  client' = s.client /\ asked' = s.asked
  /\ UNCHANGED <<replies, buffered, brief>>

\* The server answers a request, with a result or with one short word.
ServerAnswers(i, size) ==
  /\ i \in asked /\ client.conn = "up"
  /\ asked' = asked \ {i}
  /\ replies' = Append(replies, [id |-> i, size |-> size])
  /\ brief' = (brief \/ size < FullAnswer)
  /\ UNCHANGED <<client, buffered>>

Length(s) == FoldLeft(LAMBDA n, a : n + a.size, 0, s)

\* verify: the id is known, its time is taken out.  It accepts every answer.
Verify(c, id) == [c EXCEPT !.sendTime = @ \ {id}]

\* One answer of the loop in onMessage; the pipeline client sends the next.
TakeAnswer(s, id) ==
  LET c   == Verify(s.client, id)
      new == Fresh(s.used \cup {id}, 1)
  IN  CASE s.client.kind = "pipeline" ->
             [s EXCEPT !.client = [c EXCEPT !.sendTime = @ \cup new], !.asked = @ \cup new, !.used = @ \cup new]
        [] s.client.kind = "batch" -> [s EXCEPT !.client = [c EXCEPT !.count = @ + 1]]
        [] s.client.kind = "loadtest" -> [s EXCEPT !.client = c]

\* The loop of onMessage: whole answers, as long as FullAnswer units are there.
RECURSIVE TakeAnswers(_)
TakeAnswers(s) ==
  IF s.len < FullAnswer \/ s.replies = << >> THEN s
  ELSE IF Head(s.replies).size > s.len THEN s
  ELSE TakeAnswers(TakeAnswer([s EXCEPT !.len = @ - Head(s.replies).size, !.replies = Tail(@)], Head(s.replies).id))

\* After the loop the batch client compares its count, calls done and shuts down.
BatchDone(before, c) ==
  IF c.kind = "batch" /\ c.count = BatchSize THEN [c EXCEPT !.finished = @ + 1, !.conn = "closing"] ELSE c

\* n units arrive and onMessage is called.
ClientReceives(n) ==
  /\ client.conn \in {"up", "closing"} /\ buffered + n =< Length(replies)
  /\ LET s == TakeAnswers([client |-> client, asked |-> asked, used |-> InUse, len |-> buffered + n, replies |-> replies])
     IN  /\ client' = BatchDone(client, s.client)
         /\ asked' = s.asked /\ replies' = s.replies /\ buffered' = s.len
  /\ UNCHANGED brief

\* onConnection with a connection that is down: conn_ is reset.
Disconnect ==
  /\ client.conn \in {"up", "closing"}
  /\ client' = [client EXCEPT !.conn = "down"]
  /\ UNCHANGED <<asked, replies, buffered, brief>>

ServerStep == \E i \in Ids : \E size \in {1, FullAnswer} : ServerAnswers(i, size)
ReceiveStep == \E n \in 1 .. Length(replies) : ClientReceives(n)

ClientsNext == Connect \/ Tick \/ ServerStep \/ ReceiveStep \/ Disconnect

----------------------------------------------------------------------------
(* Properties *)

(* sendTime_ holds exactly the requests that are on their way, to the      *)
(* server or back: "in-fly" of the reports is right, and the pipeline      *)
(* client always has pipelines_ of them (pipeline.cc:53, 104-107).         *)
InFlightExact ==
  client.kind # "batch" =>
    /\ client.sendTime = asked \cup {replies[k].id : k \in DOMAIN replies}
    /\ client.kind = "pipeline" /\ client.conn = "up" => Cardinality(client.sendTime) = pipelines

(* The batch client reports once, after its last answer.                   *)
BatchReportsOnce ==
  client.kind = "batch" => client.finished =< 1 /\ (client.finished = 1 => asked = {} /\ replies = << >>)

(* Whatever the order of the answers and the cuts of the stream, the       *)
(* clients know what is on its way and end once (pipeline.cc:60-100,       *)
(* batch.cc:80-120, loadtest.cc:100-150).                                  *)
ClientsExact == InFlightExact /\ BatchReportsOnce

(* As long as all answers are results, every request that a connected      *)
(* client has sent is taken note of, and the batch client gets done.  An   *)
(* answer of a few bytes would wait in the buffer until kCells + 2 are     *)
(* there (batch.cc:111), for ever if it is the last.                       *)
ClientsGoOn ==
  \A i \in Ids : (i \in client.sendTime /\ client.conn = "up"
                   ~> i \notin client.sendTime \/ client.conn = "down" \/ brief)
BatchEnds ==
  client.kind = "batch" /\ client.conn = "up" ~> client.finished = 1 \/ client.conn = "down" \/ brief
=============================================================================
