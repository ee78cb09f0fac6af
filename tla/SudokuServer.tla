------------------------------ MODULE SudokuServer ------------------------------
(***************************************************************************)
(* muduo/examples/sudoku: the four servers.  basic (and multiloop) solves  *)
(* in the loop, threadpool and hybrid hand requests to a pool, prod also   *)
(* drops requests while its queue is full or the connection is throttled.  *)
(* One connection: its loop thread runs onMessage and, between messages,   *)
(* the functors of its queue; the pool's threads solve and send.  A send   *)
(* from another thread, the high water mark and the write-complete         *)
(* callbacks are functors of that queue (TcpConnection, not in the         *)
(* repository).                                                            *)
(*                                                                         *)
(* A line has a size in units: Full units are kCells + 2 bytes, more than  *)
(* Longest units are more than 100 bytes.                                  *)
(***************************************************************************)
EXTENDS Integers, Sequences, FiniteSets, SequencesExt

CONSTANTS Lines,        \* the sequences of lines the client may send
          Variants,     \* a server, its pool threads, a bound on the resets of its counters
          MaxThreads,   \* the largest pool
          QueueLimit,   \* the 1000 * 1000 of processRequest
          LowMark, HighMark   \* the 5 and 10 MB of the output buffer, in answers

ASSUME ThreadsAssumption == MaxThreads \in Nat /\ \A v \in Variants : v[2] \in 0 .. MaxThreads

Full == 2
Longest == 3
Workers == 1 .. MaxThreads

VARIABLES line,      \* the lines the client sends
          server,    \* <<server, numThreads_, resets>>
          input,     \* units received, lines taken, in onMessage or not
          tasks,     \* the queue of the thread pool
          work,      \* per pool thread: its request and what it has done
          tcp,       \* the connection's output side and its context
          functors,  \* the queue of the connection's loop
          sent,      \* the answers in the order of their sending
          stat       \* the counters of SudokuStat; other, carried and resets are ours

sudokuVars == <<line, server, input, tasks, work, tcp, functors, sent, stat>>

Idle == [req |-> 0, sent |-> FALSE]

SudokuInit ==
  /\ line \in Lines /\ server \in Variants
  /\ input = [got |-> 0, taken |-> 0, busy |-> FALSE]
  /\ tasks = << >> /\ work = [w \in Workers |-> Idle]
  /\ tcp = [out |-> 0, down |-> FALSE, mark |-> LowMark, notify |-> FALSE, throttle |-> FALSE]
  /\ functors = << >> /\ sent = << >>
  /\ stat = [requests |-> 0, responses |-> 0, bad |-> 0, dropped |-> 0, other |-> 0, carried |-> 0, resets |-> 0]

Size(k) == line[k].size
Units(n) == FoldLeftDomain(LAMBDA acc, k : acc + Size(k), 0, SubSeq(line, 1, n))
Threads == server[2]
Prod == server[1] = "prod"
Inspected == server[1] \in {"hybrid", "prod"}
MayReset == Inspected /\ stat.resets < server[3]

----------------------------------------------------------------------------
(* The connection *)

Answer(req, what) == [req |-> req, what |-> what]

\* sendInLoop: written at once, or buffered behind what is there; crossing the
\* mark queues the callback with the size at that time.  After the write side
\* was shut down, which waits for the buffer to drain, it fails.
SendInLoop(s, answer) ==
  IF s.tcp.down /\ s.tcp.out = 0 THEN {s}
  ELSE LET said  == [s EXCEPT !.sent = Append(@, answer)]
           whole == [said EXCEPT !.functors = IF s.tcp.notify THEN Append(@, [op |-> "wrote"]) ELSE @]
           part  == [said EXCEPT !.tcp.out = @ + 1,
                                 !.functors = IF Prod /\ s.tcp.out + 1 = s.tcp.mark
                                              THEN Append(@, [op |-> "mark", size |-> s.tcp.out + 1])
                                              ELSE @]
       IN  IF s.tcp.out = 0 THEN {whole, part} ELSE {part}

\* send from the loop thread.
Send(s, answer) == IF s.tcp.down THEN {s} ELSE SendInLoop(s, answer)

State == [tcp |-> tcp, functors |-> functors, sent |-> sent, stat |-> stat, tasks |-> tasks]

Become(s) ==
  /\ tcp' = s.tcp /\ functors' = s.functors /\ sent' = s.sent
  /\ stat' = s.stat /\ tasks' = s.tasks

\* The kernel takes the oldest answer of the buffer.
Drain ==
  /\ tcp.out > 0
  /\ tcp' = [tcp EXCEPT !.out = @ - 1]
  /\ functors' = IF tcp.out = 1 /\ tcp.notify THEN Append(functors, [op |-> "wrote"]) ELSE functors
  /\ UNCHANGED <<line, server, input, tasks, work, sent, stat>>

\* send "Bad Request!" or "Id too long!", shutdown, recordBadRequest.
Refuse(s, counted) ==
  {[t EXCEPT !.tcp.down = TRUE, !.stat.bad = @ + 1,
             !.stat.other = IF counted THEN @ ELSE @ + 1] : t \in Send(s, Answer(0, "bad"))}

----------------------------------------------------------------------------
(* The counters *)

\* Requests that are counted and neither answered nor dropped.
InHand(s) == Len(s.tasks) + Cardinality({w \in Workers : work[w].req # 0})

\* SudokuStat::reset leaves droppedRequests_ as it is.  Those drops and the
\* requests in hand are carried over to counters that know nothing of them.
ResetCounters(s, hand) ==
  [s EXCEPT !.stat = [requests |-> 0, responses |-> 0, bad |-> 0, other |-> 0,
                      dropped |-> s.stat.dropped, carried |-> s.stat.dropped + hand,
                      resets |-> s.stat.resets + 1]]

\* The inspector's thread.
StatReset ==
  /\ MayReset
  /\ Become(ResetCounters(State, InHand(State)))
  /\ UNCHANGED <<line, server, input, work>>

\* recordRequest; the inspector's thread may reset before the rest of the turn.
RecordRequest(s) ==
  LET t == [s EXCEPT !.stat.requests = @ + 1]
  IN  {t} \cup (IF MayReset THEN {ResetCounters(t, InHand(t) + 1)} ELSE {})

----------------------------------------------------------------------------
(* The callbacks *)

\* solve in the loop thread itself, when there is no pool.
SolveHere(s, req) ==
  {[t EXCEPT !.stat.responses = @ + 1] : t \in Send(s, Answer(req, "result"))}

\* Mutant: a request that is dropped is queued as well.
DispatchBoth(s, req) ==
  IF Prod /\ (Len(s.tasks) >= QueueLimit \/ s.tcp.throttle)
  THEN {[t EXCEPT !.stat.dropped = @ + 1, !.tasks = Append(@, req)] : t \in Send(s, Answer(req, "busy"))}
  ELSE IF Threads = 0 THEN SolveHere(s, req)
  ELSE {[s EXCEPT !.tasks = Append(@, req)]}

\* Queue, solve or drop a good request.
Dispatch(s, req) ==
  IF Prod /\ (Len(s.tasks) >= QueueLimit \/ s.tcp.throttle)
  THEN {[t EXCEPT !.stat.dropped = @ + 1] : t \in Send(s, Answer(req, "busy"))}
  ELSE IF Threads = 0 THEN SolveHere(s, req)
  ELSE {[s EXCEPT !.tasks = Append(@, req)]}

\* processRequest; hybrid and prod want an id when the pool has several threads.
Acceptable(req) == line[req].good /\ ~(line[req].id = "" /\ Threads > 1 /\ Inspected)

ProcessRequest(s, req) == IF Acceptable(req) THEN Dispatch(s, req) ELSE Refuse(s, TRUE)

\* TCP delivers units and the loop calls onMessage.
Arrive(n) ==
  /\ ~input.busy /\ functors = << >>
  /\ input.got + n =< Units(Len(line))
  /\ input' = [input EXCEPT !.got = @ + n, !.busy = TRUE]
  /\ UNCHANGED <<line, server, tasks, work, tcp, functors, sent, stat>>

\* One turn of the loop of onMessage.  A refused line ends it, and the rest
\* of the buffer is looked at when more data arrives.
OnMessage ==
  LET len   == input.got - Units(input.taken)
      next  == input.taken + 1
      whole == next =< Len(line) /\ Size(next) =< len
  IN  /\ input.busy
      /\ IF len >= Full /\ whole
         THEN /\ \E count \in RecordRequest(State) : \E s \in ProcessRequest(count, next) : Become(s)
              /\ input' = [input EXCEPT !.taken = next, !.busy = Acceptable(next)]
         ELSE /\ input' = [input EXCEPT !.busy = FALSE]
              /\ IF len > Longest THEN \E s \in Refuse(State, FALSE) : Become(s)
                 ELSE UNCHANGED <<tcp, functors, sent, stat, tasks>>
      /\ UNCHANGED <<line, server, work>>

\* highWaterMark, with the size of the buffer when the mark was crossed.
HighWaterMark(s, size) ==
  IF size < HighMark
  THEN {[s EXCEPT !.tcp.mark = HighMark, !.tcp.notify = TRUE, !.tcp.throttle = TRUE]}
  ELSE Refuse(s, FALSE)

\* Mutant: the connection stays throttled.
WriteCompleteKeeps(s) == {[s EXCEPT !.tcp.mark = LowMark, !.tcp.notify = FALSE]}

WriteComplete(s) ==
  {[s EXCEPT !.tcp.mark = LowMark, !.tcp.notify = FALSE, !.tcp.throttle = FALSE]}

\* The loop runs the oldest functor.
Functor ==
  /\ ~input.busy /\ functors # << >>
  /\ LET f == Head(functors)
         s == [State EXCEPT !.functors = Tail(@)]
     IN  \E t \in CASE f.op = "send"  -> SendInLoop(s, f.answer)
                    [] f.op = "mark"  -> HighWaterMark(s, f.size)
                    [] f.op = "wrote" -> WriteComplete(s) :
           Become(t)
  /\ UNCHANGED <<line, server, input, work>>

----------------------------------------------------------------------------
(* The threads of the pool: take, solve and send, recordResponse *)

\* ThreadPool::take
Take(w) ==
  /\ w =< Threads /\ work[w] = Idle /\ tasks # << >>
  /\ work' = [work EXCEPT ![w] = [req |-> Head(tasks), sent |-> FALSE]]
  /\ tasks' = Tail(tasks)
  /\ UNCHANGED <<line, server, input, tcp, functors, sent, stat>>

\* send from another thread is dropped at once when the connection is down.
SolveAndSend(w) ==
  /\ work[w].req # 0 /\ ~work[w].sent
  /\ work' = [work EXCEPT ![w].sent = TRUE]
  /\ functors' = IF tcp.down THEN functors
                 ELSE Append(functors, [op |-> "send", answer |-> Answer(work[w].req, "result")])
  /\ UNCHANGED <<line, server, input, tasks, tcp, sent, stat>>

RecordResponse(w) ==
  /\ work[w].sent
  /\ work' = [work EXCEPT ![w] = Idle]
  /\ stat' = [stat EXCEPT !.responses = @ + 1]
  /\ UNCHANGED <<line, server, input, tasks, tcp, functors, sent>>

PoolThread(w) == Take(w) \/ SolveAndSend(w) \/ RecordResponse(w)

SudokuNext ==
  \/ \E n \in 1 .. Units(Len(line)) : Arrive(n)
  \/ OnMessage \/ Functor \/ Drain
  \/ \E w \in Workers : PoolThread(w)
  \/ StatReset

----------------------------------------------------------------------------
(* Properties *)

InQueue == {functors[k].answer.req : k \in {j \in DOMAIN functors : functors[j].op = "send"}}
Waiting == {tasks[k] : k \in DOMAIN tasks} \cup {work[w].req : w \in {v \in Workers : ~work[v].sent}} \cup InQueue
Answered == {sent[k].req : k \in DOMAIN sent}

(* Every good request that was taken has one answer, a result or           *)
(* ServerTooBusy, or will get it, unless the connection went down; and     *)
(* nobody is answered twice.                                               *)
OneAnswer ==
  /\ \A j, k \in DOMAIN sent : sent[j].req = sent[k].req /\ sent[j].req # 0 => j = k
  /\ (Answered \cap Waiting) \ {0} = {}
  /\ ~tcp.down => \A k \in 1 .. input.taken : k \in Answered \cup Waiting

(* With at most one pool thread and nothing dropped the results come in    *)
(* the order of the requests, which is why the servers accept requests     *)
(* without an id ("when using thread pool, an id must be provided in the   *)
(* request", server_hybrid.cc:124).                                        *)
ResultsInOrder ==
  Threads =< 1 /\ ~Prod =>
    \A j, k \in DOMAIN sent : j < k /\ sent[j].what = "result" /\ sent[k].what = "result"
                                => sent[j].req < sent[k].req

(* The counters of hybrid and prod add up at every moment, across resets   *)
(* from the inspector's thread: a request is answered, dropped, bad or     *)
(* still in the pool (stat.h:29-33).  Lines that were refused without      *)
(* having been counted are set apart, and so is what a reset carries over: *)
(* droppedRequests_, which it does not clear, and the requests that were   *)
(* in hand, which are answered later (stat.h:68-83).                       *)
CountersAdd ==
  stat.requests + stat.carried
    = stat.responses + stat.dropped + (stat.bad - stat.other)
      + Len(tasks) + Cardinality({w \in Workers : work[w].req # 0})

(* Whatever the loop, the pool and the client do, every request is         *)
(* answered once, in order where the server promises it, and counted once  *)
(* (server_prod.cc:150-230, server_hybrid.cc:124, stat.h:29, 68).          *)
ServerExact == OneAnswer /\ ResultsInOrder /\ CountersAdd

(* A throttled connection whose client reads is released or goes down: the *)
(* callback that releases it is never missing, although the buffer may     *)
(* have drained before highWaterMark ran; then the next answer brings it.  *)
Released ==
  [](tcp.throttle => tcp.notify) /\
  (tcp.throttle /\ tcp.out > 0 ~> ~tcp.throttle \/ tcp.down)
=============================================================================
