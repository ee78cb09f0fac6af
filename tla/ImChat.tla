-------------------------------- MODULE ImChat --------------------------------
(***************************************************************************)
(* protobuf/im and im_new: server.cc with one thread for each connection,  *)
(* client.cc, and the framing of ImPduBase.cc on the CSimpleBuffer of      *)
(* UtilPdu.cc.  The bytes of a PDU are units that know which PDU they      *)
(* belong to; the first HeaderLen of them are its header, and the first of *)
(* those gives its length.  SIGINT, which ends the server, is left out.    *)
(***************************************************************************)
EXTENDS Integers, Sequences, SequencesExt, FiniteSets

CONSTANTS ChatClients, NoClient,
          HeaderLen, LoginLen, TextLen,   \* sizes in units
          ReadBufSize,                    \* READ_BUF_SIZE
          SeqLimit,                       \* the 2^16 of the sequence number
          MaxTurns                        \* per client: bound on its loop

VARIABLES main,      \* the accept loop: pc, resfd and fds
          backlog,   \* connections that were not accepted
          peer,      \* clients: login_msg, s_seq_no, what was sent, state
          inflight,  \* per connection: units on the way to the server
          thread,    \* per connection: the thread that was created for it
          handled,   \* per thread: the PDUs it has handled
          raced      \* history: accept returned before a thread had read its argument

chatVars == <<main, backlog, peer, inflight, thread, handled, raced>>

ChatInit ==
  /\ main = [pc |-> "accept", resfd |-> NoClient, fds |-> << >>]
  /\ backlog = << >>
  /\ peer = [c \in ChatClients |-> [state |-> "off", turn |-> 0, login |-> 0, seq |-> 0, sent |-> << >>]]
  /\ inflight = [c \in ChatClients |-> << >>]
  /\ thread = [c \in ChatClients |-> [state |-> "none", fd |-> NoClient, buf |-> << >>, alloc |-> 0]]
  /\ handled = [c \in ChatClients |-> << >>]
  /\ raced = FALSE

----------------------------------------------------------------------------
(* client.cc *)

ClientConnect(c) ==
  /\ peer[c].state = "off"
  /\ peer' = [peer EXCEPT ![c].state = "up"]
  /\ backlog' = Append(backlog, c)
  /\ UNCHANGED <<main, inflight, thread, handled, raced>>

\* SetPBMsg and the setters: a header in front of the message.
Pdu(cmd, seq) == [cmd |-> cmd, seq |-> seq, len |-> IF cmd = "login" THEN LoginLen ELSE TextLen]
PduUnits(pdu) == [k \in 1 .. pdu.len |-> [pdu |-> pdu, k |-> k]]

\* What the tests of the loop choose; each of them increments login_msg.
Command(login) ==
  IF login % 2 = 0 THEN [cmd |-> "login", login |-> login + 1]
  ELSE IF (login + 1) % 3 = 0 THEN [cmd |-> "text", login |-> login + 2]
  ELSE [cmd |-> "none", login |-> login + 2]

\* One turn of the loop in start().
ClientTurn(c) ==
  LET chosen == Command(peer[c].login)
      pdu    == Pdu(chosen.cmd, peer[c].seq)
      sends  == chosen.cmd # "none"
  IN  /\ peer[c].state = "up" /\ peer[c].turn < MaxTurns[c]
      /\ peer' = [peer EXCEPT ![c].turn = @ + 1, ![c].login = chosen.login,
                              ![c].seq = IF sends THEN (@ + 1) % SeqLimit ELSE @,
                              ![c].sent = IF sends THEN Append(@, pdu) ELSE @]
      /\ inflight' = IF sends THEN [inflight EXCEPT ![c] = @ \o PduUnits(pdu)] ELSE inflight
      /\ UNCHANGED <<main, backlog, thread, handled, raced>>

\* SIGINT: destroy closes the socket.
ClientDestroy(c) ==
  /\ peer[c].state = "up"
  /\ peer' = [peer EXCEPT ![c].state = "closed"]
  /\ UNCHANGED <<main, backlog, inflight, thread, handled, raced>>

----------------------------------------------------------------------------
(* server.cc: the accept loop *)

\* accept returns into resfd, and pthread_create passes its address.
Accept ==
  /\ main.pc = "accept" /\ backlog # << >>
  /\ LET c == Head(backlog)
     IN  /\ main' = [main EXCEPT !.pc = "store", !.resfd = c]
         /\ thread' = [thread EXCEPT ![c].state = "start"]
         /\ raced' = (raced \/ \E d \in ChatClients : thread[d].state = "start")
  /\ backlog' = Tail(backlog)
  /\ UNCHANGED <<peer, inflight, handled>>

Store ==
  /\ main.pc = "store"
  /\ main' = [main EXCEPT !.pc = "accept", !.fds = Append(@, main.resfd)]
  /\ UNCHANGED <<backlog, peer, inflight, thread, handled, raced>>

----------------------------------------------------------------------------
(* server.cc: recv_msg *)

\* tempFd is whatever resfd holds by now.
ReadArgument(t) ==
  /\ thread[t].state = "start"
  /\ thread' = [thread EXCEPT ![t].state = "run", ![t].fd = main.resfd]
  /\ UNCHANGED <<main, backlog, peer, inflight, handled, raced>>

\* CSimpleBuffer::Extend, called when a read might not fit.
Extend(alloc, offset, len) ==
  IF alloc - offset < len THEN (offset + len) + ((offset + len) \div 4) ELSE alloc

\* IsPduAvailable: the number of units of the first PDU, 0 if it is not all
\* there.  A thread that shares its descriptor may find no header in front.
Available(buf) ==
  IF Len(buf) < HeaderLen THEN 0
  ELSE IF buf[1].k # 1 \/ buf[1].pdu.len > Len(buf) THEN 0
  ELSE buf[1].pdu.len

\* Mutant: one PDU for each recv.
HandlePdusOne(buf) ==
  LET n == Available(buf)
  IN  IF n = 0 THEN [done |-> << >>, rest |-> buf]
      ELSE [done |-> <<buf[1].pdu>>, rest |-> SubSeq(buf, n + 1, Len(buf))]

\* ReadPdu, the handlers and Read in a loop.
HandlePdus(buf) ==
  LET from[at \in 0 .. Len(buf)] ==
        LET rest == SubSeq(buf, at + 1, Len(buf))
            n    == Available(rest)
        IN  IF n = 0 THEN [done |-> << >>, rest |-> rest]
            ELSE [from[at + n] EXCEPT !.done = <<rest[1].pdu>> \o @]
  IN  from[0]

Recv(t, n) ==
  LET self == thread[t]
      out  == HandlePdus(self.buf \o SubSeq(inflight[self.fd], 1, n))
  IN  /\ self.state = "run" /\ n =< Len(inflight[self.fd])
      /\ thread' = [thread EXCEPT ![t].buf = out.rest, ![t].alloc = Extend(@, Len(self.buf), ReadBufSize)]
      /\ handled' = [handled EXCEPT ![t] = @ \o out.done]
      /\ inflight' = [inflight EXCEPT ![self.fd] = SubSeq(@, n + 1, Len(@))]
      /\ UNCHANGED <<main, backlog, peer, raced>>

\* recv returns 0, or -1 after another thread has closed the descriptor.
RecvEnds(t) ==
  /\ thread[t].state = "run"
  /\ inflight[thread[t].fd] = << >> /\ peer[thread[t].fd].state = "closed"
  /\ thread' = [thread EXCEPT ![t].state = "done"]
  /\ UNCHANGED <<main, backlog, peer, inflight, handled, raced>>

RecvMsg(t) == ReadArgument(t) \/ RecvEnds(t) \/ \E n \in 1 .. ReadBufSize : Recv(t, n)

ChatNext ==
  \/ \E c \in ChatClients : ClientConnect(c) \/ ClientTurn(c) \/ ClientDestroy(c) \/ RecvMsg(c)
  \/ Accept \/ Store

----------------------------------------------------------------------------
(* Properties *)

(* As long as accept never overtakes a new thread, every thread serves its *)
(* own connection (server.cc:79, 92).                                      *)
OwnConnection ==
  ~raced => \A t \in ChatClients : thread[t].state \in {"run", "done"} => thread[t].fd = t

\* The PDUs that lie in the first n units of what a client has sent.
WholePdus(sent, n) ==
  LET ends == {k \in 0 .. Len(sent) : FoldLeft(LAMBDA a, p : a + p.len, 0, SubSeq(sent, 1, k)) =< n}
  IN  SubSeq(sent, 1, CHOOSE k \in ends : \A j \in ends : j =< k)

(* However the stream is cut, the thread has handled exactly the PDUs that *)
(* have arrived whole, in order and each once, when it calls recv again.   *)
HandledAtOnce ==
  ~raced => \A t \in ChatClients :
    LET total == FoldLeft(LAMBDA a, p : a + p.len, 0, peer[t].sent)
    IN  handled[t] = WholePdus(peer[t].sent, total - Len(inflight[t]))

(* The buffer never grows beyond one PDU and one read, with the quarter    *)
(* that Extend adds, and what is in it always fits (server.cc:97-99).      *)
BufferBounded ==
  LET most == TextLen - 1 + ReadBufSize
  IN  ~raced => \A t \in ChatClients : /\ Len(thread[t].buf) =< thread[t].alloc
                                   /\ thread[t].alloc =< most + most \div 4

(* The client logs in once, before all its messages, and numbers its PDUs  *)
(* one after the other: the increments of both tests keep login_msg odd    *)
(* after the first turn (client.cc:65, 86).                                *)
LoginFirst ==
  \A c \in ChatClients : \A k \in DOMAIN peer[c].sent :
    peer[c].sent[k].cmd = (IF k = 1 THEN "login" ELSE "text") /\ peer[c].sent[k].seq = (k - 1) % SeqLimit

(* Every PDU is handled in the end, also when the client has closed.       *)
AllHandled ==
  \A c \in ChatClients : peer[c].sent # << >> ~> handled[c] = peer[c].sent \/ raced

(* However the stream is cut and the threads run, a thread that has its    *)
(* descriptor serves that one, handles each PDU as soon as it is complete  *)
(* and the login first, and its buffer does not grow without need          *)
(* (server.cc:70-150, UtilPdu.cc).                                         *)
PdusExact == OwnConnection /\ HandledAtOnce /\ BufferBounded /\ LoginFirst
=============================================================================
