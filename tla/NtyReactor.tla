------------------------------ MODULE NtyReactor ------------------------------
(***************************************************************************)
(* The echo server of server-client/reactor.c: one thread, an epoll set,   *)
(* and a table of ntyevent structures indexed by descriptor.  A callback   *)
(* makes one system call that its clients can influence, so a callback is  *)
(* one step; the clients act between any two of them.                      *)
(*                                                                         *)
(* Descriptors 0 to 2 are the standard streams, 3 is the listener and 4 is *)
(* the epoll descriptor (reactor.c:399).  The initial state is the one     *)
(* ntyreactor_addlistener leaves behind.  The table is too large for the   *)
(* heap of a fresh process, so malloc returns zeroed pages and status      *)
(* starts as 0.                                                            *)
(***************************************************************************)
EXTENDS Integers, Sequences, FiniteSets, TLC

CONSTANTS Clients,            \* each connects once
          None,               \* no client
          MAX_EPOLL_EVENTS,   \* entries of the table
          MAX_BUFFER_SIZE,    \* bytes one recv may take
          FdLimit,            \* descriptors the process may have
          MaxBytes,           \* bound on the bytes a client sends
          Faults              \* the failures that may happen in this run

FirstFd == 5
Listener == 3

ASSUME TableAssumption == MAX_EPOLL_EVENTS \in Nat /\ MAX_EPOLL_EVENTS > FirstFd
ASSUME FdAssumption == FdLimit \in Nat /\ FdLimit > FirstFd
ASSUME BufferAssumption == MAX_BUFFER_SIZE \in Nat \ {0} /\ MaxBytes \in Nat
ASSUME ClientAssumption == None \notin Clients
ASSUME FaultAssumption == Faults \subseteq {"fcntl", "epoll_ctl", "partial", "signal"}

VARIABLES
  status, events, callback, buffer,   \* the table; buffer holds its length bytes
  interest,                           \* the epoll set: the event each fd waits for
  conn,                               \* the client behind each open descriptor
  batch,                              \* results of epoll_wait still to be handled
  running,                            \* inside the loop of ntyreactor_run
  backlog,                            \* clients connected and not accepted
  phase, sent, inbox, echo            \* the clients, and the data on its way

table == <<status, events, callback, buffer>>
peers == <<phase, sent, inbox, echo>>
vars == <<table, interest, conn, batch, running, backlog, peers>>

ClientFds == FirstFd .. FdLimit - 1
ClientSlots == FirstFd .. MAX_EPOLL_EVENTS - 1

\* Indices the code may use, the ones behind the table included.
Index == {Listener} \cup ClientFds \cup ClientSlots

Byte == Clients \X (1 .. MaxBytes)

Init ==
  /\ status = [s \in Index |-> IF s = Listener THEN 1 ELSE 0]
  /\ events = [s \in Index |-> IF s = Listener THEN "EPOLLIN" ELSE "none"]
  /\ callback = [s \in Index |-> IF s = Listener THEN "accept" ELSE "none"]
  /\ buffer = [s \in Index |-> << >>]
  /\ interest = [s \in Index |-> IF s = Listener THEN "EPOLLIN" ELSE "none"]
  /\ conn = [s \in Index |-> None]
  /\ batch = {}
  /\ running = TRUE
  /\ backlog = {}
  /\ phase = [c \in Clients |-> "new"]
  /\ sent = [c \in Clients |-> 0]
  /\ inbox = [c \in Clients |-> << >>]
  /\ echo = [c \in Clients |-> << >>]

Open == {s \in Index : conn[s] # None}

----------------------------------------------------------------------------
(* The clients *)

Connect(c) ==
  /\ phase[c] = "new"
  /\ phase' = [phase EXCEPT ![c] = "connected"]
  /\ backlog' = backlog \cup {c}
  /\ UNCHANGED <<table, interest, conn, batch, running, sent, inbox, echo>>

Send(c) ==
  /\ phase[c] = "connected"
  /\ sent[c] < MaxBytes
  /\ sent' = [sent EXCEPT ![c] = @ + 1]
  /\ inbox' = [inbox EXCEPT ![c] = Append(@, <<c, sent[c] + 1>>)]
  /\ UNCHANGED <<table, interest, conn, batch, running, backlog, phase, echo>>

\* An orderly close, a reset, or a reset that follows the close: a peer that
\* has closed its socket answers the bytes of the echo so.  After a reset recv
\* may fail even before it has returned all the data.
Leave(c) ==
  /\ \/ /\ phase[c] = "connected"
        /\ \E how \in {"fin", "reset"} : phase' = [phase EXCEPT ![c] = how]
     \/ /\ phase[c] = "fin"
        /\ phase' = [phase EXCEPT ![c] = "broken"]
  /\ UNCHANGED <<table, interest, conn, batch, running, backlog, sent, inbox, echo>>

----------------------------------------------------------------------------
(* nty_event_set followed by nty_event_add, and nty_event_del.  The status *)
(* passed to nty_event_set is always 0, so the operation is always an ADD; *)
(* status is 1 afterwards even when epoll_ctl fails.                       *)

EventSetAdd(s, ev, cb, buf) ==
  /\ status' = [status EXCEPT ![s] = 1]
  /\ events' = [events EXCEPT ![s] = ev]
  /\ callback' = [callback EXCEPT ![s] = cb]
  /\ buffer' = [buffer EXCEPT ![s] = buf]
  /\ \/ interest' = [interest EXCEPT ![s] = ev]
     \/ /\ "epoll_ctl" \in Faults
        /\ interest' = [interest EXCEPT ![s] = "none"]

\* Mutant: status is not reset.
EventDelKeepsStatus(s) ==
  /\ interest' = [interest EXCEPT ![s] = "none"]
  /\ conn' = [conn EXCEPT ![s] = None]
  /\ UNCHANGED <<status, events, callback, buffer>>

\* close() also takes the descriptor out of the epoll set.
EventDelClose(s) ==
  /\ status' = [status EXCEPT ![s] = 0]
  /\ interest' = [interest EXCEPT ![s] = "none"]
  /\ conn' = [conn EXCEPT ![s] = None]
  /\ UNCHANGED <<events, callback, buffer>>

----------------------------------------------------------------------------
(* The callbacks *)

\* accept takes the lowest free descriptor.  The search for a free slot only
\* decides whether to go on: the event is stored at cli_fd.
AcceptCallback ==
  /\ UNCHANGED <<running, peers>>
  /\ IF ClientFds \subseteq Open
     THEN UNCHANGED <<table, interest, conn, backlog>>
     ELSE \E c \in backlog, cli_fd \in ClientFds \ Open :
            /\ \A fd \in ClientFds \ Open : cli_fd =< fd
            /\ backlog' = backlog \ {c}
            /\ conn' = [conn EXCEPT ![cli_fd] = c]
            /\ \/ /\ \E i \in ClientSlots : status[i] = 0
                  /\ EventSetAdd(cli_fd, "EPOLLIN", "recv", << >>)
               \/ /\ \/ \A i \in ClientSlots : status[i] = 1
                     \/ "fcntl" \in Faults
                  /\ UNCHANGED <<table, interest>>

\* Mutant: the event goes on waiting for input.
RecvKeepsReading(s) ==
  LET c == conn[s]
      rc == IF Len(inbox[c]) < MAX_BUFFER_SIZE THEN Len(inbox[c]) ELSE MAX_BUFFER_SIZE
  IN  /\ IF rc > 0
         THEN /\ inbox' = [inbox EXCEPT ![c] = SubSeq(@, rc + 1, Len(@))]
              /\ EventSetAdd(s, "EPOLLIN", "recv", SubSeq(inbox[c], 1, rc))
              /\ UNCHANGED conn
         ELSE /\ EventDelClose(s)
              /\ UNCHANGED inbox
      /\ UNCHANGED <<running, backlog, phase, sent, echo>>

RecvCallback(s) ==
  LET c == conn[s]
      rc == IF Len(inbox[c]) < MAX_BUFFER_SIZE THEN Len(inbox[c]) ELSE MAX_BUFFER_SIZE
  IN  /\ \/ /\ rc > 0
            /\ inbox' = [inbox EXCEPT ![c] = SubSeq(@, rc + 1, Len(@))]
            /\ EventSetAdd(s, "EPOLLOUT", "send", SubSeq(inbox[c], 1, rc))
            /\ UNCHANGED conn
         \/ /\ rc = 0 \/ phase[c] \in {"reset", "broken"}
            /\ EventDelClose(s)
            /\ UNCHANGED inbox
      /\ UNCHANGED <<running, backlog, phase, sent, echo>>

\* Mutant: the event is removed and not added again.
SendForgetsAdd(s) ==
  LET c == conn[s]
  IN  /\ echo' = [echo EXCEPT ![c] = @ \o buffer[s]]
      /\ status' = [status EXCEPT ![s] = 0]
      /\ interest' = [interest EXCEPT ![s] = "none"]
      /\ UNCHANGED <<events, callback, buffer, conn, running, backlog, phase, sent, inbox>>

\* Mutant: the event goes on waiting for room to send.
SendRepeats(s) ==
  LET c == conn[s]
  IN  /\ echo' = [echo EXCEPT ![c] = @ \o buffer[s]]
      /\ Len(echo[c]) =< MaxBytes
      /\ EventSetAdd(s, "EPOLLOUT", "send", buffer[s])
      /\ UNCHANGED <<conn, running, backlog, phase, sent, inbox>>

\* What send did not take is dropped.  It fails with ECONNRESET when the peer
\* has reset the connection, and the callback closes it; when the peer had
\* closed it before, the error is EPIPE, and with flags 0 and SIGPIPE left at
\* its default the process is killed inside the call.
SendCallback(s) ==
  LET c == conn[s]
  IN  /\ \/ /\ phase[c] \notin {"reset", "broken"}
            /\ \E rc \in 1 .. Len(buffer[s]) :
                 /\ rc < Len(buffer[s]) => "partial" \in Faults
                 /\ echo' = [echo EXCEPT ![c] = @ \o SubSeq(buffer[s], 1, rc)]
            /\ EventSetAdd(s, "EPOLLIN", "recv", << >>)
            /\ UNCHANGED <<conn, running>>
         \/ /\ phase[c] = "reset"
            /\ EventDelClose(s)
            /\ UNCHANGED <<echo, running>>
         \/ /\ phase[c] = "broken"
            /\ running' = FALSE
            /\ UNCHANGED <<table, interest, conn, echo>>
      /\ UNCHANGED <<backlog, phase, sent, inbox>>

----------------------------------------------------------------------------
(* ntyreactor_run *)

Readable(s) ==
  IF s = Listener THEN backlog # {}
  ELSE inbox[conn[s]] # << >> \/ phase[conn[s]] \in {"fin", "reset", "broken"}

Ready == {<<s, interest[s]>> : s \in {r \in Index : \/ interest[r] = "EPOLLOUT"
                                                    \/ /\ interest[r] = "EPOLLIN"
                                                       /\ Readable(r)}}

EpollWait ==
  /\ running
  /\ batch = {}
  /\ Ready # {}
  /\ batch' = Ready
  /\ UNCHANGED <<table, interest, conn, running, backlog, peers>>

\* One second without an event: the loop starts over.
Timeout ==
  /\ running
  /\ batch = {}
  /\ Ready = {}
  /\ UNCHANGED vars

\* Mutant: the loop over the results only advances past the listener.
DispatchAgain ==
  /\ running
  /\ \E e \in batch :
       /\ batch' = batch \ ({e} \cap {<<Listener, "EPOLLIN">>})
       /\ IF events[e[1]] = e[2]
          THEN \/ callback[e[1]] = "accept" /\ AcceptCallback
               \/ callback[e[1]] = "recv" /\ RecvCallback(e[1])
               \/ callback[e[1]] = "send" /\ SendCallback(e[1])
          ELSE UNCHANGED <<table, interest, conn, running, backlog, peers>>

\* A result whose event the table no longer asks for is skipped.
Dispatch ==
  /\ running
  /\ \E e \in batch :
       /\ batch' = batch \ {e}
       /\ IF events[e[1]] = e[2]
          THEN \/ callback[e[1]] = "accept" /\ AcceptCallback
               \/ callback[e[1]] = "recv" /\ RecvCallback(e[1])
               \/ callback[e[1]] = "send" /\ SendCallback(e[1])
          ELSE UNCHANGED <<table, interest, conn, running, backlog, peers>>

\* epoll_wait fails with EINTR, which the loop does not treat as EAGAIN.
Interrupted ==
  /\ "signal" \in Faults
  /\ running
  /\ batch = {}
  /\ running' = FALSE
  /\ UNCHANGED <<table, interest, conn, batch, backlog, peers>>

Reactor == EpollWait \/ Dispatch

Next ==
  \/ \E c \in Clients : Connect(c) \/ Send(c) \/ Leave(c)
  \/ Reactor
  \/ Timeout
  \/ Interrupted

Spec == Init /\ [][Next]_vars

\* The loop goes on as long as the process is scheduled.
FairSpec == Spec /\ WF_vars(Reactor)

----------------------------------------------------------------------------
(* Properties *)

(* The fields of every ntyevent, the epoll set, the results still to be    *)
(* handled and the peers keep their types (reactor.c:26-39).               *)
TypeOK ==
  /\ status \in [Index -> {0, 1}]
  /\ events \in [Index -> {"none", "EPOLLIN", "EPOLLOUT"}]
  /\ callback \in [Index -> {"none", "accept", "recv", "send"}]
  /\ buffer \in [Index -> Seq(Byte)]
  /\ interest \in [Index -> {"none", "EPOLLIN", "EPOLLOUT"}]
  /\ conn \in [Index -> Clients \cup {None}]
  /\ batch \subseteq Index \X {"EPOLLIN", "EPOLLOUT"}
  /\ running \in BOOLEAN
  /\ backlog \subseteq Clients
  /\ phase \in [Clients -> {"new", "connected", "fin", "reset", "broken"}]
  /\ sent \in [Clients -> 0 .. MaxBytes]
  /\ inbox \in [Clients -> Seq(Byte)]
  /\ echo \in [Clients -> Seq(Byte)]

(* The slots in use are exactly the open descriptors: the free slot that   *)
(* accept_callback searches for and the slot cli_fd it then writes are     *)
(* free together (reactor.c:398, "i ... is also the value of its socket"). *)
SlotIsFd ==
  \A s \in ClientSlots : status[s] = 1 <=> conn[s] # None

(* events[cli_fd] is written without a check of cli_fd (reactor.c:422);    *)
(* the search that precedes it keeps the index inside the table even when  *)
(* the process may open more descriptors than the table has entries.       *)
InBounds ==
  \A s \in Index : status[s] = 1 \/ interest[s] # "none" => s < MAX_EPOLL_EVENTS

(* status says whether the event is in the epoll set (reactor.c:33).       *)
StatusIsMembership ==
  \A s \in ClientSlots : status[s] = 1 <=> interest[s] # "none"

(* No result of epoll_wait is stale when its turn comes, although earlier  *)
(* results of the same batch close descriptors and accept reuses them: it  *)
(* still stands for an open descriptor that waits for this event.          *)
NoStaleEvent ==
  \A e \in batch : /\ interest[e[1]] = e[2]
                   /\ events[e[1]] = e[2]
                   /\ e[1] # Listener => conn[e[1]] # None

(* A client gets back its own bytes, in order and none twice, even if the  *)
(* descriptor served somebody else before.                                 *)
EchoInOrder ==
  \A c \in Clients :
    /\ \A k \in DOMAIN echo[c] : echo[c][k][1] = c
    /\ \A j, k \in DOMAIN echo[c] : j < k => echo[c][j][2] < echo[c][k][2]

\* The bytes read from client c and not yet sent back.
Pending(c) ==
  LET held == {s \in Index : conn[s] = c /\ callback[s] = "send"}
  IN  IF held = {} THEN << >> ELSE buffer[CHOOSE s \in held : TRUE]

\* The bytes a client has written.
Written(c) == [k \in 1 .. sent[c] |-> <<c, k>>]

(* "Send the received content back" (reactor.c:482): what a client wrote   *)
(* has been echoed, or is in the buffer of its event, or is still in the   *)
(* socket, in this order and without a gap.                                *)
EchoConservation ==
  \A c \in Clients :
    (\E s \in Index : conn[s] = c) => echo[c] \o Pending(c) \o inbox[c] = Written(c)

(* SIGPIPE has ended the process (reactor.c:483).                          *)
Killed == ~running /\ \E d \in Clients : phase[d] = "broken"

(* Every byte of an accepted client comes back, unless the client leaves   *)
(* or another one has brought the server down.                             *)
Served ==
  \A c \in Clients, n \in 1 .. MaxBytes :
    ((\E s \in Index : conn[s] = c) /\ sent[c] >= n)
      ~> (Len(echo[c]) >= n \/ phase[c] # "connected" \/ Killed)

(* The descriptor of a client that has left is closed, unless the server   *)
(* has ended.                                                              *)
Released ==
  \A c \in Clients :
    phase[c] \in {"fin", "reset", "broken"} ~> ((\A s \in Index : conn[s] # c) \/ Killed)

(* Each event alternates between EPOLLIN and EPOLLOUT through del, set and *)
(* add (reactor.c:440-499): no connection falls silent, and none is kept   *)
(* when its client has left, as long as no send meets a connection that    *)
(* its peer had closed and then reset.                                     *)
EchoProgress == Served /\ Released

----------------------------------------------------------------------------
\* Clients are interchangeable.
ClientSymmetry == Permutations(Clients)
=============================================================================
