------------------------------ MODULE ZmqReqRep ------------------------------
(* The request-reply programs of src/ZeroMQ.  Clients (rrclient.c, hwclient.c) *)
(* own a REQ socket, servers (rrworker.c, hwserver.c, worker_routine of        *)
(* mtserver.c) a REP socket.  Between them is nothing (hwserver.c), the        *)
(* frame by frame broker rrbroker.c, or zmq_proxy of the library (msgqueue.c,  *)
(* mtserver.c).  The sockets are external: a ROUTER puts the sender in front   *)
(* of a message, a REP keeps everything up to the empty frame and puts it in   *)
(* front of its answer, a ROUTER drops a message for a peer that is gone.      *)
EXTENDS Naturals, Sequences

CONSTANTS
  Clients,     \* client programs
  Workers,     \* server programs or threads
  Rounds,      \* requests of a client: 10 in rrclient.c, unbounded in hwclient.c
  MaxSignals   \* bound on the receive calls that a signal interrupts

VARIABLES
  via,         \* "direct", "rrbroker", "msgqueue" or "mtserver"
  client,      \* what a client does next, and its request number
  worker,      \* what a server does next, and the message it is working on
  broker,      \* the loop of rrbroker.c
  pipe,        \* messages on their way, each a sequence of frames
  signals      \* interrupted calls so far

rrVars == <<via, client, worker, broker, pipe, signals>>

Empty == <<"">>
Id(c) == <<"id", c>>
Hello(c, n) == <<"Hello", c, n>>
World(hello) == <<"World", hello[2], hello[3]>>

NoPipes ==
  [front |-> [c \in Clients |-> <<>>],   \* client to ROUTER or REP
   to |-> [w \in Workers |-> <<>>],      \* DEALER to server
   back |-> [w \in Workers |-> <<>>],    \* server to DEALER
   reply |-> [c \in Clients |-> <<>>]]   \* ROUTER or REP to client

Idle == [at |-> "poll", revents |-> {}, rest |-> <<>>, out |-> <<>>]

ReqRepInit ==
  /\ via \in {"direct", "rrbroker", "msgqueue", "mtserver"}
  /\ client = [c \in Clients |-> [pc |-> "send", nbr |-> 1]]
  /\ worker = [w \in Workers |-> [pc |-> "recv", msg |-> <<>>]]
  /\ broker = Idle
  /\ pipe = NoPipes
  /\ signals = 0

-----------------------------------------------------------------------------
(* The library.                                                            *)

\* A peer that is gone takes its pipes with it.
DropClient(p, c) == [p EXCEPT !.front[c] = <<>>, !.reply[c] = <<>>]
DropWorker(p, w) == [p EXCEPT !.to[w] = <<>>]

\* The ROUTER sends to the client the first frame names.
RouterSend(p, m) ==
  LET c == m[1][2] IN
  IF client[c].pc = "recv"
    THEN [p EXCEPT !.reply[c] = Append(@, Tail(m))] ELSE p

\* The DEALER sends to a server that is connected and waits for one.
DealerSend(p, m, w) == [p EXCEPT !.to[w] = Append(@, m)]

Live == {w \in Workers : worker[w].pc /= "ended"}

\* Length of the envelope of a message: everything up to the empty frame.
Envelope(m) == CHOOSE i \in 1 .. Len(m) : m[i] = Empty /\ \A j \in 1 .. i - 1 : m[j] /= Empty
WellFormed(m) == \E i \in 1 .. Len(m) - 1 : m[i] = Empty

-----------------------------------------------------------------------------
(* The clients.                                                            *)

\* s_send on a REQ socket: the empty frame and the string.
ReqSend(c) ==
  /\ client[c].pc = "send"
  /\ client' = [client EXCEPT ![c].pc = "recv"]
  /\ pipe' = [pipe EXCEPT !.front[c] = Append(@, <<Empty, Hello(c, client[c].nbr)>>)]
  /\ UNCHANGED <<via, worker, broker, signals>>

\* s_recv on a REQ socket; next is where the program goes on.
ReqRecv(c, next) ==
  /\ client[c].pc = "recv"
  /\ pipe.reply[c] /= <<>>
  /\ client' = [client EXCEPT ![c] = [pc |-> next, nbr |-> @.nbr + 1]]
  /\ pipe' = [pipe EXCEPT !.reply[c] = Tail(@)]
  /\ UNCHANGED <<via, worker, broker, signals>>

\* A signal interrupts s_recv: rrclient.c closes and returns, hwclient.c
\* fails its assertion.
ClientInterrupted(c) ==
  /\ client[c].pc = "recv"
  /\ signals < MaxSignals
  /\ signals' = signals + 1
  /\ client' = [client EXCEPT ![c].pc = "ended"]
  /\ pipe' = DropClient(pipe, c)
  /\ UNCHANGED <<via, worker, broker>>

RrClient(c) ==
  /\ via /= "direct"
  /\ \/ ReqSend(c)
     \/ ReqRecv(c, IF client[c].nbr < Rounds THEN "send" ELSE "done")

\* hwclient.c never ends by itself; Rounds bounds it here.
HwClient(c) ==
  /\ via = "direct"
  /\ \/ client[c].nbr <= Rounds /\ ReqSend(c)
     \/ ReqRecv(c, "send")

-----------------------------------------------------------------------------
(* The servers.                                                            *)

\* s_recv on a REP socket: a message without an envelope is skipped.
RepRecv(w) ==
  /\ worker[w].pc = "recv"
  /\ pipe.to[w] /= <<>>
  /\ pipe' = [pipe EXCEPT !.to[w] = Tail(@)]
  /\ IF WellFormed(Head(pipe.to[w]))
       THEN worker' = [worker EXCEPT ![w] = [pc |-> "send", msg |-> Head(pipe.to[w])]]
       ELSE UNCHANGED worker
  /\ UNCHANGED <<via, client, broker, signals>>

\* s_send on a REP socket after the second of sleep: the envelope and "World".
Reply(w) ==
  LET m == worker[w].msg
      e == Envelope(m) IN
  SubSeq(m, 1, e) \o <<World(m[e + 1])>>

RepSend(w) ==
  /\ worker[w].pc = "send"
  /\ worker' = [worker EXCEPT ![w] = [pc |-> "recv", msg |-> <<>>]]
  /\ pipe' = [pipe EXCEPT !.back[w] = Append(@, Reply(w))]
  /\ UNCHANGED <<via, client, broker, signals>>

\* A signal interrupts s_recv.  rrworker.c closes its socket and returns;
\* hwserver.c fails its assertion.
WorkerInterrupted(w) ==
  /\ worker[w].pc = "recv"
  /\ via /= "mtserver" /\ signals < MaxSignals
  /\ signals' = signals + 1
  /\ worker' = [worker EXCEPT ![w].pc = "ended"]
  /\ pipe' = DropWorker(pipe, w)
  /\ UNCHANGED <<via, client, broker>>

\* worker_routine does not look at the NULL: its s_send then fails on the
\* socket that must receive first, and the assertion ends all threads.
ThreadInterrupted(w) ==
  /\ worker[w].pc = "recv"
  /\ via = "mtserver" /\ signals < MaxSignals
  /\ signals' = signals + 1
  /\ worker' = [v \in Workers |-> [pc |-> "ended", msg |-> <<>>]]
  /\ pipe' = NoPipes
  /\ UNCHANGED <<via, client, broker>>

RrWorker(w) == via \in {"rrbroker", "msgqueue"} /\ (RepRecv(w) \/ RepSend(w))

MtWorker(w) == via = "mtserver" /\ (RepRecv(w) \/ RepSend(w))

\* hwserver.c is one server; its REP socket reads from the clients itself.
HwServer(w) ==
  /\ via = "direct"
  /\ w = CHOOSE v \in Workers : TRUE
  /\ \/ \E c \in Clients :
          /\ pipe.front[c] /= <<>> /\ pipe.to[w] = <<>>
          /\ pipe' = [pipe EXCEPT !.front[c] = Tail(@),
                                  !.to[w] = <<<<Id(c)>> \o Head(pipe.front[c])>>]
          /\ UNCHANGED <<via, client, worker, broker, signals>>
     \/ RepRecv(w)
     \/ RepSend(w)
     \/ /\ pipe.back[w] /= <<>>
        /\ pipe' = [RouterSend(pipe, Head(pipe.back[w])) EXCEPT !.back[w] = Tail(@)]
        /\ UNCHANGED <<via, client, worker, broker, signals>>

-----------------------------------------------------------------------------
(* Between clients and servers.                                            *)

Readable ==
  {s \in {"front", "back"} :
     IF s = "front" THEN \E c \in Clients : pipe.front[c] /= <<>>
                    ELSE \E w \in Workers : pipe.back[w] /= <<>>}

\* Mutant: the DEALER is not in the set that is polled.
PollFrontOnly ==
  /\ broker.at = "poll" /\ "front" \in Readable
  /\ broker' = [broker EXCEPT !.revents = {"front"}, !.at = "front"]
  /\ UNCHANGED <<via, client, worker, pipe, signals>>

\* zmq_poll without a timeout; first is the socket the loop turns to.
Poll ==
  /\ broker.at = "poll" /\ Readable /= {}
  /\ broker' = [broker EXCEPT !.revents = Readable,
                              !.at = IF "front" \in Readable THEN "front" ELSE "back"]
  /\ UNCHANGED <<via, client, worker, pipe, signals>>

\* A signal interrupts zmq_poll: rrbroker.c closes its sockets and returns.  What
\* it had sent is still delivered, nobody reads the rest.
PollInterrupted ==
  /\ via = "rrbroker" /\ broker.at = "poll" /\ signals < MaxSignals
  /\ signals' = signals + 1
  /\ broker' = [broker EXCEPT !.at = "ended"]
  /\ UNCHANGED <<via, client, worker, pipe>>

\* Mutant: ZMQ_SNDMORE is forgotten, every frame is sent as a message.
CopyFrameAlone(frames) ==
  [more |-> Len(frames) > 1, rest |-> Tail(frames), out |-> <<>>,
   sent |-> <<<<Head(frames)>>>>]

\* One pass of a copying loop: receive a frame, ask for ZMQ_RCVMORE, send the
\* frame with ZMQ_SNDMORE or without, and go on or leave the loop.
CopyFrame(frames) ==
  LET more == Len(frames) > 1
      out == Append(broker.out, Head(frames)) IN
  [more |-> more, rest |-> Tail(frames), out |-> IF more THEN out ELSE <<>>,
   sent |-> IF more THEN <<>> ELSE <<out>>]

CopyFront ==
  /\ broker.at = "front"
  /\ \E c \in Clients, w \in Live :
       LET first == broker.rest = <<>>
           frames == IF first THEN <<Id(c)>> \o Head(pipe.front[c]) ELSE broker.rest
           step == CopyFrame(frames) IN
       /\ first => pipe.front[c] /= <<>>
       /\ ~first => c = CHOOSE d \in Clients : TRUE
       /\ step.sent = <<>> => w = CHOOSE v \in Live : TRUE
       /\ LET p == IF first THEN [pipe EXCEPT !.front[c] = Tail(@)] ELSE pipe IN
          pipe' = IF step.sent = <<>> THEN p ELSE DealerSend(p, step.sent[1], w)
       /\ broker' = [broker EXCEPT !.rest = step.rest, !.out = step.out,
            !.at = IF step.more THEN "front"
                   ELSE IF "back" \in broker.revents THEN "back" ELSE "poll"]
  /\ UNCHANGED <<via, client, worker, signals>>

CopyBack ==
  /\ broker.at = "back"
  /\ \E w \in Workers :
       LET first == broker.rest = <<>>
           frames == IF first THEN Head(pipe.back[w]) ELSE broker.rest
           step == CopyFrame(frames) IN
       /\ IF first THEN pipe.back[w] /= <<>> ELSE w = CHOOSE v \in Workers : TRUE
       /\ LET p == IF first THEN [pipe EXCEPT !.back[w] = Tail(@)] ELSE pipe IN
          pipe' = IF step.sent = <<>> THEN p ELSE RouterSend(p, step.sent[1])
       /\ broker' = [broker EXCEPT !.rest = step.rest, !.out = step.out,
                                   !.at = IF step.more THEN "back" ELSE "poll"]
  /\ UNCHANGED <<via, client, worker, signals>>

RrBroker == via = "rrbroker" /\ (Poll \/ CopyFront \/ CopyBack)

\* zmq_proxy hands whole messages over, in any order of the two sides.
ProxyForward ==
  \/ \E c \in Clients, w \in Live :
       /\ pipe.front[c] /= <<>>
       /\ pipe' = DealerSend([pipe EXCEPT !.front[c] = Tail(@)],
                             <<Id(c)>> \o Head(pipe.front[c]), w)
  \/ \E w \in Workers :
       /\ pipe.back[w] /= <<>>
       /\ pipe' = RouterSend([pipe EXCEPT !.back[w] = Tail(@)], Head(pipe.back[w]))

Proxy ==
  /\ via \in {"msgqueue", "mtserver"}
  /\ ProxyForward
  /\ UNCHANGED <<via, client, worker, broker, signals>>

ReqRepNext ==
  \/ \E c \in Clients : RrClient(c) \/ HwClient(c) \/ ClientInterrupted(c)
  \/ \E w \in Workers : RrWorker(w) \/ MtWorker(w) \/ HwServer(w)
                         \/ WorkerInterrupted(w) \/ ThreadInterrupted(w)
  \/ RrBroker \/ PollInterrupted \/ Proxy

-----------------------------------------------------------------------------

\* Where the request of client c is: a pipe, the broker, a server.
About(c, m) == \E i \in 1 .. Len(m) : m[i] = Id(c) \/ m[i] = Hello(c, client[c].nbr)
Within(c, name, w, s) == {<<name, w, i>> : i \in {j \in 1 .. Len(s) : About(c, s[j])}}

Places(c) ==
  {<<"front", i>> : i \in 1 .. Len(pipe.front[c])}
  \cup {<<"reply", i>> : i \in 1 .. Len(pipe.reply[c])}
  \cup (UNION {Within(c, "to", w, pipe.to[w]) \cup Within(c, "back", w, pipe.back[w]) : w \in Workers})
  \cup {<<"worker", w>> : w \in {v \in Workers : About(c, worker[v].msg)}}
  \cup {<<"broker">> : b \in {m \in {broker.out \o broker.rest} : About(c, m)}}

\* A request and its answer are in one place at a time while the client
\* waits, whatever the broker has copied: none is lost or doubled by the frame
\* loop of rrbroker.c, as long as no server was interrupted.
OnePlace ==
  signals = 0 => \A c \in Clients : client[c].pc = "recv" => \E p \in Places(c) : Places(c) = {p}

\* A client is handed the answer to the request it is waiting for, once, and
\* never that of another client (rrclient.c:46, hwclient.c:34).
OwnReply ==
  \A c \in Clients : \/ pipe.reply[c] = <<>>
                     \/ /\ client[c].pc = "recv"
                        /\ pipe.reply[c] = <<<<Empty, World(Hello(c, client[c].nbr))>>>>

\* A client that waits gets its answer, or a signal has ended something
\* (rrworker.c:33-60, mtserver.c:72-85, rrbroker.c:46-114).
Served ==
  \A c \in Clients : (client[c].pc = "recv") ~> (client[c].pc /= "recv" \/ signals > 0)
=============================================================================
