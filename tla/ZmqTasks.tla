------------------------------- MODULE ZmqTasks -------------------------------
(* Three programs of src/ZeroMQ that count or pass on signals: the pipeline   *)
(* taskvent.c, taskwork.c and tasksink.c over PUSH and PULL sockets, the       *)
(* threads of mtrelay.c over PAIR sockets, and the servers interrupt1.c and    *)
(* interrupt2.c that end on SIGINT.  The sockets are external: PUSH gives a    *)
(* message to one connected peer, PULL takes one from any, in the order of     *)
(* each.                                                                       *)
EXTENDS Naturals, Sequences, FiniteSetsExt

CONSTANTS
  TaskWorkers,   \* programs taskwork.c
  Tasks,         \* 100 in taskvent.c and in tasksink.c
  Workloads,     \* 1 .. 100 milliseconds in taskvent.c
  MaxLost        \* bound on the programs taskwork.c that are killed

VARIABLES
  vent, tasker, sink,       \* the three programs
  taskq, sinkq,             \* their pipes
  relay,                    \* mtrelay.c: the three threads and the sockets
  server                    \* interrupt1.c or interrupt2.c

taskVars == <<vent, tasker, sink, taskq, sinkq>>

-----------------------------------------------------------------------------
(* taskvent.c, taskwork.c, tasksink.c.                                     *)

TasksInit ==
  /\ vent = [pc |-> "start", task_nbr |-> 0, total_msec |-> 0]
  /\ tasker = [w \in TaskWorkers |-> [pc |-> "connect", work |-> 0, slept |-> 0]]
  /\ sink = [pc |-> "first", task_nbr |-> 0]
  /\ taskq = [w \in TaskWorkers |-> <<>>]
  /\ sinkq = [p \in TaskWorkers \cup {"vent"} |-> <<>>]

\* After the return key: the start signal, on its own way to the sink.
VentStart ==
  /\ vent.pc = "start"
  /\ vent' = [vent EXCEPT !.pc = "tasks"]
  /\ sinkq' = [sinkq EXCEPT !["vent"] = Append(@, "0")]
  /\ UNCHANGED <<tasker, sink, taskq>>

\* A task for one of the workers that are connected.
VentTask ==
  /\ vent.pc = "tasks" /\ vent.task_nbr < Tasks
  /\ \E w \in TaskWorkers, workload \in Workloads :
       /\ tasker[w].pc \in {"recv", "work"}
       /\ taskq' = [taskq EXCEPT ![w] = Append(@, workload)]
       /\ vent' = [vent EXCEPT !.task_nbr = @ + 1, !.total_msec = @ + workload]
  /\ UNCHANGED <<tasker, sink, sinkq>>

WorkerConnects(w) ==
  /\ tasker[w].pc = "connect"
  /\ tasker' = [tasker EXCEPT ![w].pc = "recv"]
  /\ UNCHANGED <<vent, sink, taskq, sinkq>>

WorkerTakes(w) ==
  /\ tasker[w].pc = "recv" /\ taskq[w] /= <<>>
  /\ tasker' = [tasker EXCEPT ![w].pc = "work", ![w].work = Head(taskq[w])]
  /\ taskq' = [taskq EXCEPT ![w] = Tail(@)]
  /\ UNCHANGED <<vent, sink, sinkq>>

\* s_sleep for the workload, then the empty message for the sink.
WorkerReports(w) ==
  /\ tasker[w].pc = "work"
  /\ tasker' = [tasker EXCEPT ![w] = [pc |-> "recv", work |-> 0, slept |-> @.slept + @.work]]
  /\ sinkq' = [sinkq EXCEPT ![w] = Append(@, "")]
  /\ UNCHANGED <<vent, sink, taskq>>

Lost == {w \in TaskWorkers : tasker[w].pc = "lost"}

\* The program is killed; what its sockets hold is gone, reports that have
\* left them are not.
WorkerKilled(w) ==
  /\ tasker[w].pc \in {"recv", "work"} /\ Cardinality(Lost) < MaxLost
  /\ tasker' = [tasker EXCEPT ![w].pc = "lost"]
  /\ taskq' = [taskq EXCEPT ![w] = <<>>]
  /\ sinkq' \in {sinkq, [sinkq EXCEPT ![w] = <<>>]}
  /\ UNCHANGED <<vent, sink>>

\* s_recv of the sink: from any peer.  The first message starts the clock, no
\* matter who sent it; then Tasks messages are counted.
SinkRecv ==
  /\ sink.pc /= "done"
  /\ \E p \in DOMAIN sinkq :
       /\ sinkq[p] /= <<>>
       /\ sinkq' = [sinkq EXCEPT ![p] = Tail(@)]
       /\ sink' = IF sink.pc = "first" THEN [sink EXCEPT !.pc = "count"]
                  ELSE [pc |-> IF sink.task_nbr + 1 < Tasks THEN "count" ELSE "done",
                        task_nbr |-> sink.task_nbr + 1]
  /\ UNCHANGED <<vent, tasker, taskq>>

Vent == VentStart \/ VentTask
TaskWork(w) == WorkerConnects(w) \/ WorkerTakes(w) \/ WorkerReports(w)
TasksNext == Vent \/ SinkRecv \/ \E w \in TaskWorkers : TaskWork(w) \/ WorkerKilled(w)

-----------------------------------------------------------------------------
(* mtrelay.c: main is step 3.  Each thread is a list of calls.             *)

MainCalls == <<"bind step3", "create step2", "recv step3", "close", "destroy">>
Step2Calls == <<"bind step2", "create step1", "recv step2", "close", "connect step3", "send step3", "close">>
Step1Calls == <<"connect step2", "send step2", "close">>

RelayInit ==
  relay = [todo |-> [main |-> MainCalls, step2 |-> <<>>, step1 |-> <<>>],
           bound |-> {}, ready |-> {}, open |-> {}, failed |-> FALSE]

\* The effect of one call of thread t.  connect fails on a name nobody has
\* bound, and the assertion after it ends the program.
Call(r, t, c) ==
  CASE c \in {"bind step3", "bind step2"} -> [r EXCEPT !.bound = @ \cup {c}, !.open = @ \cup {t}]
    [] c = "create step2" -> [r EXCEPT !.todo.step2 = Step2Calls]
    [] c = "create step1" -> [r EXCEPT !.todo.step1 = Step1Calls]
    [] c = "connect step3" -> [r EXCEPT !.open = @ \cup {t}, !.failed = "bind step3" \notin r.bound]
    [] c = "connect step2" -> [r EXCEPT !.open = @ \cup {t}, !.failed = "bind step2" \notin r.bound]
    [] c \in {"send step3", "send step2"} -> [r EXCEPT !.ready = @ \cup {c}]
    [] c = "close" -> [r EXCEPT !.open = @ \ {t}]
    [] OTHER -> r

\* Calls that wait: s_recv for the message, zmq_ctx_destroy for the sockets.
CanCall(c) ==
  CASE c = "recv step3" -> "send step3" \in relay.ready
    [] c = "recv step2" -> "send step2" \in relay.ready
    [] c = "destroy" -> relay.open = {}
    [] OTHER -> TRUE

RelayThread(t) ==
  /\ ~relay.failed /\ relay.todo[t] /= <<>> /\ CanCall(Head(relay.todo[t]))
  /\ relay' = Call([relay EXCEPT !.todo[t] = Tail(@)], t, Head(relay.todo[t]))

RelayNext == \E t \in {"main", "step2", "step1"} : RelayThread(t)

-----------------------------------------------------------------------------
(* interrupt1.c and interrupt2.c: a REP socket that is never answered, and *)
(* SIGINT at any point.                                                    *)

ServerInit ==
  server \in [prog : {"interrupt1", "interrupt2"}, pc : {"call"}, s_interrupted : {FALSE},
              pipe : {0}, request : {FALSE}, must_send : {FALSE}, exit : {"running"}]

Arrives == server' = [server EXCEPT !.request = TRUE]

\* s_signal_handler; a call that blocks returns with EINTR.
Sigint ==
  /\ server.exit = "running" /\ ~server.s_interrupted
  /\ server' = [server EXCEPT
       !.s_interrupted = TRUE,
       !.pipe = IF server.prog = "interrupt2" THEN @ + 1 ELSE @,
       !.pc = IF @ = "blocked" THEN (IF server.prog = "interrupt1" THEN "test" ELSE "call") ELSE @]

\* interrupt1.c: zmq_msg_recv, whose result is not looked at.  After the first
\* request the socket must send, and the call fails at once.
Recv1 ==
  /\ server.prog = "interrupt1" /\ server.pc \in {"call", "blocked"}
  /\ server' = CASE server.must_send -> [server EXCEPT !.pc = "test"]
                 [] ~server.must_send /\ server.request ->
                      [server EXCEPT !.pc = "test", !.must_send = TRUE, !.request = FALSE]
                 [] OTHER -> [server EXCEPT !.pc = "blocked"]

Test1 ==
  /\ server.prog = "interrupt1" /\ server.pc = "test"
  /\ server' = IF server.s_interrupted THEN [server EXCEPT !.exit = "clean"]
                                       ELSE [server EXCEPT !.pc = "call"]

\* interrupt2.c: zmq_poll on the pipe and the socket, then the pipe first.
\* rc = -1 is an assignment (interrupt2.c:127): after every zmq_recv the errno
\* that some earlier call left decides between continue and exit.
Poll2 ==
  /\ server.prog = "interrupt2" /\ server.pc \in {"call", "blocked"}
  /\ LET readable == server.request /\ ~server.must_send IN
     \/ /\ server.pipe > 0
        /\ server' = [server EXCEPT !.pipe = @ - 1, !.exit = "clean"]
     \/ /\ server.pipe = 0 /\ readable
        /\ \E stale \in {"EAGAIN", "EINTR", "other"} :
             server' = [server EXCEPT !.request = FALSE, !.must_send = TRUE, !.pc = "call",
                          !.exit = IF stale = "other" THEN "failure" ELSE @]
     \/ /\ server.pipe = 0 /\ ~readable
        /\ server' = [server EXCEPT !.pc = "blocked"]

ServerLoop == server.exit = "running" /\ (Recv1 \/ Test1 \/ Poll2)
ServerNext == server.exit = "running" /\ (Arrives \/ Sigint \/ ServerLoop)

-----------------------------------------------------------------------------

\* The sink is not done before every task has been worked off, although it
\* takes the first message of any sender for the start signal: the signal is
\* then counted in its place (tasksink.c:29-49).
SinkCountsAll ==
  sink.pc = "done" =>
    /\ vent.task_nbr = Tasks
    /\ \A w \in TaskWorkers : taskq[w] = <<>> /\ tasker[w].pc /= "work"
    /\ vent.total_msec = MapThenSumSet(LAMBDA w : tasker[w].slept, TaskWorkers)

\* The sink ends, unless a worker was killed (taskwork.c:45-61).
SinkEnds == (vent.pc = "tasks") ~> (sink.pc = "done" \/ Lost /= {})

\* The relay always reports success: no connect comes before its bind, and
\* main ends with all sockets closed (mtrelay.c:24-53).
RelayEnds == (relay.todo.main /= MainCalls) ~> (relay.todo.main = <<>> /\ relay.open = {} /\ ~relay.failed)

\* SIGINT ends interrupt2.c whenever it arrives, through the pipe.  In
\* interrupt1.c it is lost between the test and the call that blocks, until a
\* request comes (interrupt1.c:42-53, interrupt2.c:94-140).
SigintEnds ==
  server.s_interrupted ~> \/ server.exit /= "running"
                          \/ server.prog = "interrupt1" /\ server.pc = "blocked" /\ ~server.request
=============================================================================
