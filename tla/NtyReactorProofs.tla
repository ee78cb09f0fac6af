-------------------------- MODULE NtyReactorProofs --------------------------
(***************************************************************************)
(* Proofs about NtyReactor for any table size, descriptor limit and number *)
(* of clients.                                                             *)
(***************************************************************************)
EXTENDS NtyReactor, SequenceTheorems, TLAPS

\* The listener stays registered.
ListenerWired ==
  /\ status[Listener] = 1
  /\ events[Listener] = "EPOLLIN"
  /\ callback[Listener] = "accept"
  /\ interest[Listener] = "EPOLLIN"
  /\ conn[Listener] = None

\* A slot in use belongs to an open descriptor, its callback fits its event,
\* and epoll waits for nothing the table does not ask for.
SlotsWired ==
  \A s \in Index \ {Listener} :
    /\ interest[s] # "none" => status[s] = 1 /\ interest[s] = events[s]
    /\ status[s] = 1 => /\ conn[s] # None
                        /\ \/ events[s] = "EPOLLIN" /\ callback[s] = "recv"
                           \/ events[s] = "EPOLLOUT" /\ callback[s] = "send"

\* What is left of the batch is still waited for.
BatchWired == \A e \in batch : interest[e[1]] = e[2]

IInv == TypeOK /\ ListenerWired /\ SlotsWired /\ BatchWired

USE TableAssumption, FdAssumption, BufferAssumption, ClientAssumption

(* Every index is the listener or a client descriptor or slot above it.    *)
LEMMA IndexFacts ==
  /\ Listener \in Index
  /\ Listener \notin ClientFds
  /\ ClientFds \in SUBSET Index
  /\ ClientSlots \in SUBSET Index
BY DEF Index, Listener, FirstFd, ClientFds, ClientSlots

LEMMA InitIInv == Init => IInv
<1> SUFFICES ASSUME Init PROVE IInv
  OBVIOUS
<1>1. TypeOK
  BY DEF Init, TypeOK
<1>2. ListenerWired /\ SlotsWired /\ BatchWired
  BY IndexFacts DEF Init, ListenerWired, SlotsWired, BatchWired
<1> QED
  BY <1>1, <1>2 DEF IInv

(* Cutting a sequence of bytes leaves sequences of bytes.                  *)
LEMMA CutBytes ==
  ASSUME NEW b \in Seq(Byte), NEW n \in 0 .. Len(b)
  PROVE  SubSeq(b, 1, n) \in Seq(Byte) /\ SubSeq(b, n + 1, Len(b)) \in Seq(Byte)
<1>1. \A k \in 1 .. Len(b) : b[k] \in Byte
  OBVIOUS
<1>2. SubSeq(b, 1, n) \in Seq(Byte)
  BY <1>1, SubSeqProperties
<1>3. SubSeq(b, n + 1, Len(b)) \in Seq(Byte)
  BY <1>1, SubSeqProperties
<1> QED
  BY <1>2, <1>3

(* What the clients do concerns neither the table nor the epoll set.       *)
LEMMA PeersIInv ==
  ASSUME IInv, NEW c \in Clients, Connect(c) \/ Send(c) \/ Leave(c)
  PROVE  IInv'
<1>1. UNCHANGED <<status, events, callback, buffer, interest, conn, batch, running, echo>>
  BY DEF Connect, Send, Leave, table
<1>2. phase' \in [Clients -> {"new", "connected", "fin", "reset", "broken"}] /\ backlog' \in SUBSET Clients
  <2> phase \in [Clients -> {"new", "connected", "fin", "reset", "broken"}] /\ backlog \subseteq Clients
    BY DEF IInv, TypeOK
  <2>1. CASE Connect(c)
    BY <2>1 DEF Connect
  <2>2. CASE Send(c)
    BY <2>2 DEF Send
  <2>3. CASE Leave(c)
    BY <2>3 DEF Leave
  <2> QED
    BY <2>1, <2>2, <2>3
<1>3. sent' \in [Clients -> 0 .. MaxBytes]
  <2>1. CASE Send(c)
    <3>1. sent[c] + 1 \in 0 .. MaxBytes
      BY <2>1 DEF Send, IInv, TypeOK
    <3> QED
      BY <2>1, <3>1 DEF Send, IInv, TypeOK
  <2>2. CASE Connect(c) \/ Leave(c)
    BY <2>2 DEF Connect, Leave, IInv, TypeOK
  <2> QED
    BY <2>1, <2>2
<1>4. inbox' \in [Clients -> Seq(Byte)]
  <2>1. CASE Send(c)
    <3>1. sent[c] + 1 \in 1 .. MaxBytes
      BY <2>1 DEF Send, IInv, TypeOK
    <3>2. <<c, sent[c] + 1>> \in Byte
      BY <3>1 DEF Byte
    <3>3. Append(inbox[c], <<c, sent[c] + 1>>) \in Seq(Byte)
      BY <3>2 DEF IInv, TypeOK
    <3> QED
      BY <2>1, <3>3 DEF Send, IInv, TypeOK
  <2>2. CASE Connect(c) \/ Leave(c)
    BY <2>2 DEF Connect, Leave, IInv, TypeOK
  <2> QED
    BY <2>1, <2>2
<1>5. TypeOK'
  BY <1>1, <1>2, <1>3, <1>4 DEF IInv, TypeOK
<1>6. ListenerWired' /\ SlotsWired' /\ BatchWired'
  BY <1>1 DEF IInv, ListenerWired, SlotsWired, BatchWired
<1> QED
  BY <1>5, <1>6 DEF IInv

LEMMA EpollWaitIInv ==
  ASSUME IInv, EpollWait
  PROVE  IInv'
<1>1. /\ UNCHANGED <<status, events, callback, buffer, interest, conn, running,
                     backlog, phase, sent, inbox, echo>>
      /\ batch' = Ready
  BY DEF EpollWait, table, peers
<1>2. batch' \in SUBSET (Index \X {"EPOLLIN", "EPOLLOUT"}) /\ BatchWired'
  BY <1>1 DEF Ready, BatchWired
<1>3. TypeOK'
  BY <1>1, <1>2 DEF IInv, TypeOK
<1>4. ListenerWired' /\ SlotsWired'
  BY <1>1 DEF IInv, ListenerWired, SlotsWired
<1> QED
  BY <1>2, <1>3, <1>4 DEF IInv

(* Arming the event of an open descriptor, or of the one just accepted.    *)
LEMMA ArmWired ==
  ASSUME IInv, NEW s \in Index \ {Listener}, NEW ev, NEW cb, NEW buf \in Seq(Byte),
         \/ ev = "EPOLLIN" /\ cb = "recv"
         \/ ev = "EPOLLOUT" /\ cb = "send",
         EventSetAdd(s, ev, cb, buf),
         conn' \in [Index -> Clients \cup {None}],
         conn'[s] # None,
         \A r \in Index \ {s} : conn'[r] = conn[r]
  PROVE  /\ status' \in [Index -> {0, 1}]
         /\ events' \in [Index -> {"none", "EPOLLIN", "EPOLLOUT"}]
         /\ callback' \in [Index -> {"none", "accept", "recv", "send"}]
         /\ buffer' \in [Index -> Seq(Byte)]
         /\ interest' \in [Index -> {"none", "EPOLLIN", "EPOLLOUT"}]
         /\ \A r \in Index \ {s} : interest'[r] = interest[r]
         /\ ListenerWired'
         /\ SlotsWired'
<1>1. /\ status' = [status EXCEPT ![s] = 1]
      /\ events' = [events EXCEPT ![s] = ev]
      /\ callback' = [callback EXCEPT ![s] = cb]
      /\ buffer' = [buffer EXCEPT ![s] = buf]
      /\ \/ interest' = [interest EXCEPT ![s] = ev]
         \/ interest' = [interest EXCEPT ![s] = "none"]
  BY DEF EventSetAdd
<1>2. /\ status' \in [Index -> {0, 1}]
      /\ events' \in [Index -> {"none", "EPOLLIN", "EPOLLOUT"}]
      /\ callback' \in [Index -> {"none", "accept", "recv", "send"}]
      /\ buffer' \in [Index -> Seq(Byte)]
      /\ interest' \in [Index -> {"none", "EPOLLIN", "EPOLLOUT"}]
  <2>1. status' \in [Index -> {0, 1}]
    BY <1>1 DEF IInv, TypeOK
  <2>2. events' \in [Index -> {"none", "EPOLLIN", "EPOLLOUT"}]
    BY <1>1 DEF IInv, TypeOK
  <2>3. callback' \in [Index -> {"none", "accept", "recv", "send"}]
    BY <1>1 DEF IInv, TypeOK
  <2>4. buffer' \in [Index -> Seq(Byte)]
    BY <1>1 DEF IInv, TypeOK
  <2>5. interest' \in [Index -> {"none", "EPOLLIN", "EPOLLOUT"}]
    BY <1>1 DEF IInv, TypeOK
  <2> QED
    BY <2>1, <2>2, <2>3, <2>4, <2>5
<1>3. \A r \in Index \ {s} : /\ status'[r] = status[r] /\ events'[r] = events[r]
                             /\ callback'[r] = callback[r] /\ interest'[r] = interest[r]
  BY <1>1 DEF IInv, TypeOK
<1>4. /\ status'[s] = 1 /\ events'[s] = ev /\ callback'[s] = cb
      /\ interest'[s] \in {ev, "none"}
  BY <1>1 DEF IInv, TypeOK
<1>5. ListenerWired'
  BY <1>3, IndexFacts DEF IInv, ListenerWired
<1>6. SlotsWired'
  BY <1>3, <1>4 DEF IInv, SlotsWired
<1> QED
  BY <1>2, <1>3, <1>5, <1>6

(* Closing a descriptor frees its slot.                                    *)
LEMMA CloseWired ==
  ASSUME IInv, NEW s \in Index \ {Listener}, EventDelClose(s)
  PROVE  /\ status' \in [Index -> {0, 1}]
         /\ interest' \in [Index -> {"none", "EPOLLIN", "EPOLLOUT"}]
         /\ conn' \in [Index -> Clients \cup {None}]
         /\ UNCHANGED <<events, callback, buffer>>
         /\ \A r \in Index \ {s} : interest'[r] = interest[r]
         /\ ListenerWired'
         /\ SlotsWired'
<1>1. /\ status' = [status EXCEPT ![s] = 0]
      /\ interest' = [interest EXCEPT ![s] = "none"]
      /\ conn' = [conn EXCEPT ![s] = None]
      /\ UNCHANGED <<events, callback, buffer>>
  BY DEF EventDelClose
<1>2. /\ status' \in [Index -> {0, 1}]
      /\ interest' \in [Index -> {"none", "EPOLLIN", "EPOLLOUT"}]
      /\ conn' \in [Index -> Clients \cup {None}]
      /\ \A r \in Index \ {s} : interest'[r] = interest[r]
  BY <1>1 DEF IInv, TypeOK
<1>3. ListenerWired'
  BY <1>1, IndexFacts DEF IInv, TypeOK, ListenerWired
<1>4. SlotsWired'
  BY <1>1 DEF IInv, TypeOK, SlotsWired
<1> QED
  BY <1>1, <1>2, <1>3, <1>4

(* Handling one result leaves the others of the batch valid: they are      *)
(* about other slots.                                                      *)
LEMMA BatchRest ==
  ASSUME IInv, NEW e \in batch, batch' = batch \ {e},
         \A r \in Index \ {e[1]} : interest'[r] = interest[r]
  PROVE  BatchWired' /\ batch' \in SUBSET (Index \X {"EPOLLIN", "EPOLLOUT"})
<1>1. batch' \in SUBSET (Index \X {"EPOLLIN", "EPOLLOUT"})
  BY DEF IInv, TypeOK
<1>2. ASSUME NEW d \in batch' PROVE interest'[d[1]] = d[2]
  <2>1. /\ interest[d[1]] = d[2] /\ interest[e[1]] = e[2] /\ d # e
        /\ d = <<d[1], d[2]>> /\ e = <<e[1], e[2]>> /\ d[1] \in Index
    BY <1>1 DEF IInv, TypeOK, BatchWired
  <2> QED
    BY <2>1
<1> QED
  BY <1>1, <1>2 DEF BatchWired

(* A result that is dispatched is about the listener or an open client.    *)
LEMMA ResultFacts ==
  ASSUME IInv, NEW e \in batch
  PROVE  /\ e[1] \in Index /\ e[2] \in {"EPOLLIN", "EPOLLOUT"}
         /\ e[1] # Listener => /\ status[e[1]] = 1
                               /\ conn[e[1]] \in Clients
                               /\ callback[e[1]] \in {"recv", "send"}
         /\ e[1] = Listener => callback[e[1]] = "accept"
<1>1. /\ e[1] \in Index /\ e[2] \in {"EPOLLIN", "EPOLLOUT"}
      /\ interest[e[1]] = e[2]
  BY DEF IInv, TypeOK, BatchWired
<1>2. e[1] # Listener => status[e[1]] = 1
  BY <1>1 DEF IInv, SlotsWired
<1>3. e[1] # Listener => conn[e[1]] \in Clients /\ callback[e[1]] \in {"recv", "send"}
  BY <1>1, <1>2 DEF IInv, SlotsWired, TypeOK
<1> QED
  BY <1>1, <1>2, <1>3 DEF IInv, ListenerWired

LEMMA AcceptIInv ==
  ASSUME IInv, NEW e \in batch, batch' = batch \ {e}, e[1] = Listener, AcceptCallback
  PROVE  IInv'
<1>1. UNCHANGED <<running, phase, sent, inbox, echo>>
  BY DEF AcceptCallback, peers
<1>2. CASE UNCHANGED <<table, interest, conn, backlog>>
  <2>1. UNCHANGED <<status, events, callback, buffer, interest, conn, backlog>>
    BY <1>2 DEF table
  <2>2. BatchWired' /\ batch' \in SUBSET (Index \X {"EPOLLIN", "EPOLLOUT"})
    BY <2>1, BatchRest
  <2>3. TypeOK'
    BY <1>1, <2>1, <2>2 DEF IInv, TypeOK
  <2>4. ListenerWired' /\ SlotsWired'
    BY <2>1 DEF IInv, ListenerWired, SlotsWired
  <2> QED
    BY <2>2, <2>3, <2>4 DEF IInv
<1>3. ASSUME NEW c \in backlog, NEW cli_fd \in ClientFds \ Open,
             backlog' = backlog \ {c},
             conn' = [conn EXCEPT ![cli_fd] = c],
             \/ EventSetAdd(cli_fd, "EPOLLIN", "recv", << >>)
             \/ UNCHANGED <<table, interest>>
      PROVE  IInv'
  <2>1. /\ c \in Clients /\ cli_fd \in Index \ {Listener} /\ conn[cli_fd] = None
        /\ backlog' \in SUBSET Clients
    BY <1>3, IndexFacts DEF IInv, TypeOK, Open
  <2>2. /\ conn' \in [Index -> Clients \cup {None}] /\ conn'[cli_fd] # None
        /\ \A r \in Index \ {cli_fd} : conn'[r] = conn[r]
    BY <1>3, <2>1 DEF IInv, TypeOK
  <2>3. interest[cli_fd] = "none" /\ status[cli_fd] # 1
    BY <2>1 DEF IInv, SlotsWired
  <2>4. CASE EventSetAdd(cli_fd, "EPOLLIN", "recv", << >>)
    <3>1. /\ status' \in [Index -> {0, 1}]
          /\ events' \in [Index -> {"none", "EPOLLIN", "EPOLLOUT"}]
          /\ callback' \in [Index -> {"none", "accept", "recv", "send"}]
          /\ buffer' \in [Index -> Seq(Byte)]
          /\ interest' \in [Index -> {"none", "EPOLLIN", "EPOLLOUT"}]
          /\ \A r \in Index \ {cli_fd} : interest'[r] = interest[r]
          /\ ListenerWired' /\ SlotsWired'
      <4>1. << >> \in Seq(Byte)
        OBVIOUS
      <4> QED
        BY <2>1, <2>2, <2>4, <4>1, ArmWired
    <3>2. batch' \in SUBSET (Index \X {"EPOLLIN", "EPOLLOUT"})
      BY DEF IInv, TypeOK
    <3>3. ASSUME NEW d \in batch' PROVE interest'[d[1]] = d[2]
      <4>1. d \in batch /\ d[1] \in Index /\ d[2] # "none" /\ interest[d[1]] = d[2]
        BY <3>2, ZenonT(60) DEF IInv, TypeOK, BatchWired
      <4> QED
        BY <4>1, <2>3, <3>1
    <3>4. TypeOK'
      BY <1>1, <2>1, <2>2, <3>1, <3>2 DEF IInv, TypeOK
    <3> QED
      BY <3>1, <3>3, <3>4 DEF IInv, BatchWired
  <2>5. CASE UNCHANGED <<table, interest>>
    <3>1. UNCHANGED <<status, events, callback, buffer, interest>>
      BY <2>5 DEF table
    <3>2. BatchWired' /\ batch' \in SUBSET (Index \X {"EPOLLIN", "EPOLLOUT"})
      BY <3>1, BatchRest
    <3>3. TypeOK'
      BY <1>1, <2>1, <2>2, <3>1, <3>2 DEF IInv, TypeOK
    <3>4. ListenerWired' /\ SlotsWired'
      BY <2>1, <2>2, <3>1, IndexFacts DEF IInv, ListenerWired, SlotsWired
    <3> QED
      BY <3>2, <3>3, <3>4 DEF IInv
  <2> QED
    BY <1>3, <2>4, <2>5
<1> QED
  BY <1>2, <1>3 DEF AcceptCallback

LEMMA RecvIInv ==
  ASSUME IInv, NEW e \in batch, batch' = batch \ {e}, e[1] # Listener,
         RecvCallback(e[1])
  PROVE  IInv'
<1> DEFINE s == e[1]
           c == conn[s]
           rc == IF Len(inbox[c]) < MAX_BUFFER_SIZE THEN Len(inbox[c]) ELSE MAX_BUFFER_SIZE
<1>1. UNCHANGED <<running, backlog, phase, sent, echo>>
  BY DEF RecvCallback
<1>2. s \in Index \ {Listener} /\ c \in Clients
  BY ResultFacts
<1>3. inbox[c] \in Seq(Byte) /\ rc \in 0 .. Len(inbox[c])
  BY <1>2 DEF IInv, TypeOK
<1>4. CASE /\ inbox' = [inbox EXCEPT ![c] = SubSeq(@, rc + 1, Len(@))]
           /\ EventSetAdd(s, "EPOLLOUT", "send", SubSeq(inbox[c], 1, rc))
           /\ UNCHANGED conn
  <2>1. SubSeq(inbox[c], 1, rc) \in Seq(Byte) /\ SubSeq(inbox[c], rc + 1, Len(inbox[c])) \in Seq(Byte)
    <3> HIDE DEF rc, c
    <3> QED
      BY <1>3, CutBytes
  <2>2. inbox' \in [Clients -> Seq(Byte)]
    BY <1>2, <1>4, <2>1 DEF IInv, TypeOK
  <2>3. conn' \in [Index -> Clients \cup {None}] /\ conn' = conn /\ conn'[s] # None
    BY <1>2, <1>4 DEF IInv, TypeOK
  <2>4. /\ status' \in [Index -> {0, 1}]
        /\ events' \in [Index -> {"none", "EPOLLIN", "EPOLLOUT"}]
        /\ callback' \in [Index -> {"none", "accept", "recv", "send"}]
        /\ buffer' \in [Index -> Seq(Byte)]
        /\ interest' \in [Index -> {"none", "EPOLLIN", "EPOLLOUT"}]
        /\ \A r \in Index \ {s} : interest'[r] = interest[r]
        /\ ListenerWired' /\ SlotsWired'
    <3> HIDE DEF rc, c
    <3> QED
      BY <1>2, <1>4, <2>1, <2>3, ArmWired
  <2>5. BatchWired' /\ batch' \in SUBSET (Index \X {"EPOLLIN", "EPOLLOUT"})
    BY <2>4, BatchRest
  <2>6. TypeOK'
    BY <1>1, <2>2, <2>3, <2>4, <2>5 DEF IInv, TypeOK
  <2> QED
    BY <2>4, <2>5, <2>6 DEF IInv
<1>5. CASE EventDelClose(s) /\ UNCHANGED inbox
  <2>1. /\ status' \in [Index -> {0, 1}]
        /\ interest' \in [Index -> {"none", "EPOLLIN", "EPOLLOUT"}]
        /\ conn' \in [Index -> Clients \cup {None}]
        /\ UNCHANGED <<events, callback, buffer>>
        /\ \A r \in Index \ {s} : interest'[r] = interest[r]
        /\ ListenerWired' /\ SlotsWired'
    BY <1>2, <1>5, CloseWired
  <2>2. BatchWired' /\ batch' \in SUBSET (Index \X {"EPOLLIN", "EPOLLOUT"})
    BY <2>1, BatchRest
  <2>3. TypeOK'
    BY <1>1, <1>5, <2>1, <2>2 DEF IInv, TypeOK
  <2> QED
    BY <2>1, <2>2, <2>3 DEF IInv
<1> QED
  BY <1>4, <1>5 DEF RecvCallback

LEMMA SendIInv ==
  ASSUME IInv, NEW e \in batch, batch' = batch \ {e}, e[1] # Listener,
         SendCallback(e[1])
  PROVE  IInv'
<1> DEFINE s == e[1]
           c == conn[s]
<1>1. UNCHANGED <<backlog, phase, sent, inbox>> /\ running' \in BOOLEAN
  BY DEF SendCallback, IInv, TypeOK
<1>2. s \in Index \ {Listener} /\ c \in Clients
  BY ResultFacts
<1>3. ASSUME NEW rc \in 1 .. Len(buffer[s]),
             echo' = [echo EXCEPT ![c] = @ \o SubSeq(buffer[s], 1, rc)],
             EventSetAdd(s, "EPOLLIN", "recv", << >>),
             UNCHANGED conn
      PROVE  IInv'
  <2>1. buffer[s] \in Seq(Byte) /\ rc \in 0 .. Len(buffer[s])
    BY <1>2 DEF IInv, TypeOK
  <2>2. SubSeq(buffer[s], 1, rc) \in Seq(Byte)
    BY <2>1, CutBytes
  <2>3. echo' \in [Clients -> Seq(Byte)]
    <3>1. echo[c] \o SubSeq(buffer[s], 1, rc) \in Seq(Byte)
      BY <1>2, <2>2 DEF IInv, TypeOK
    <3> QED
      BY <1>2, <1>3, <3>1 DEF IInv, TypeOK
  <2>4. conn' \in [Index -> Clients \cup {None}] /\ conn' = conn /\ conn'[s] # None
    BY <1>2, <1>3 DEF IInv, TypeOK
  <2>5. /\ status' \in [Index -> {0, 1}]
        /\ events' \in [Index -> {"none", "EPOLLIN", "EPOLLOUT"}]
        /\ callback' \in [Index -> {"none", "accept", "recv", "send"}]
        /\ buffer' \in [Index -> Seq(Byte)]
        /\ interest' \in [Index -> {"none", "EPOLLIN", "EPOLLOUT"}]
        /\ \A r \in Index \ {s} : interest'[r] = interest[r]
        /\ ListenerWired' /\ SlotsWired'
    <3>1. << >> \in Seq(Byte)
      OBVIOUS
    <3> QED
      BY <1>2, <1>3, <2>4, <3>1, ArmWired
  <2>6. BatchWired' /\ batch' \in SUBSET (Index \X {"EPOLLIN", "EPOLLOUT"})
    BY <2>5, BatchRest
  <2>7. TypeOK'
    BY <1>1, <2>3, <2>4, <2>5, <2>6 DEF IInv, TypeOK
  <2> QED
    BY <2>5, <2>6, <2>7 DEF IInv
<1>4. CASE EventDelClose(s) /\ UNCHANGED echo
  <2>1. /\ status' \in [Index -> {0, 1}]
        /\ interest' \in [Index -> {"none", "EPOLLIN", "EPOLLOUT"}]
        /\ conn' \in [Index -> Clients \cup {None}]
        /\ UNCHANGED <<events, callback, buffer>>
        /\ \A r \in Index \ {s} : interest'[r] = interest[r]
        /\ ListenerWired' /\ SlotsWired'
    BY <1>2, <1>4, CloseWired
  <2>2. BatchWired' /\ batch' \in SUBSET (Index \X {"EPOLLIN", "EPOLLOUT"})
    BY <2>1, BatchRest
  <2>3. TypeOK'
    BY <1>1, <1>4, <2>1, <2>2 DEF IInv, TypeOK
  <2> QED
    BY <2>1, <2>2, <2>3 DEF IInv
<1>5. CASE UNCHANGED <<table, interest, conn, echo>>
  <2>1. UNCHANGED <<status, events, callback, buffer, interest, conn, echo>>
    BY <1>5 DEF table
  <2>2. BatchWired' /\ batch' \in SUBSET (Index \X {"EPOLLIN", "EPOLLOUT"})
    BY <2>1, BatchRest
  <2>3. TypeOK'
    BY <1>1, <2>1, <2>2 DEF IInv, TypeOK
  <2>4. ListenerWired' /\ SlotsWired'
    BY <2>1 DEF IInv, ListenerWired, SlotsWired
  <2> QED
    BY <2>2, <2>3, <2>4 DEF IInv
<1> QED
  BY <1>3, <1>4, <1>5 DEF SendCallback

LEMMA NextIInv == IInv /\ [Next]_vars => IInv'
<1> SUFFICES ASSUME IInv, [Next]_vars PROVE IInv'
  OBVIOUS
<1>1. ASSUME NEW c \in Clients, Connect(c) \/ Send(c) \/ Leave(c) PROVE IInv'
  BY <1>1, PeersIInv
<1>2. CASE EpollWait
  BY <1>2, EpollWaitIInv
<1>3. CASE Dispatch
  <2>1. PICK e \in batch :
          /\ batch' = batch \ {e}
          /\ IF events[e[1]] = e[2]
             THEN \/ callback[e[1]] = "accept" /\ AcceptCallback
                  \/ callback[e[1]] = "recv" /\ RecvCallback(e[1])
                  \/ callback[e[1]] = "send" /\ SendCallback(e[1])
             ELSE UNCHANGED <<table, interest, conn, running, backlog, peers>>
    BY <1>3 DEF Dispatch
  <2>2. CASE callback[e[1]] = "accept" /\ AcceptCallback
    <3>1. e[1] = Listener
      BY <2>2, ResultFacts
    <3> QED
      BY <2>1, <2>2, <3>1, AcceptIInv
  <2>3. CASE callback[e[1]] = "recv" /\ RecvCallback(e[1])
    <3>1. e[1] # Listener
      BY <2>3, ResultFacts
    <3> QED
      BY <2>1, <2>3, <3>1, RecvIInv
  <2>4. CASE callback[e[1]] = "send" /\ SendCallback(e[1])
    <3>1. e[1] # Listener
      BY <2>4, ResultFacts
    <3> QED
      BY <2>1, <2>4, <3>1, SendIInv
  <2>5. CASE UNCHANGED <<table, interest, conn, running, backlog, peers>>
    <3>1. UNCHANGED <<status, events, callback, buffer, interest, conn, running,
                      backlog, phase, sent, inbox, echo>>
      BY <2>5 DEF table, peers
    <3>2. BatchWired' /\ batch' \in SUBSET (Index \X {"EPOLLIN", "EPOLLOUT"})
      BY <2>1, <3>1, BatchRest
    <3>3. TypeOK'
      BY <3>1, <3>2 DEF IInv, TypeOK
    <3>4. ListenerWired' /\ SlotsWired'
      BY <3>1 DEF IInv, ListenerWired, SlotsWired
    <3> QED
      BY <3>2, <3>3, <3>4 DEF IInv
  <2> QED
    BY <2>1, <2>2, <2>3, <2>4, <2>5
<1>4. CASE Interrupted \/ Timeout \/ UNCHANGED vars
  <2>1. UNCHANGED <<status, events, callback, buffer, interest, conn, batch,
                    backlog, phase, sent, inbox, echo>> /\ running' \in BOOLEAN
    BY <1>4 DEF Interrupted, Timeout, vars, table, peers, IInv, TypeOK
  <2>2. TypeOK'
    BY <2>1 DEF IInv, TypeOK
  <2>3. ListenerWired' /\ SlotsWired' /\ BatchWired'
    BY <2>1 DEF IInv, ListenerWired, SlotsWired, BatchWired
  <2> QED
    BY <2>2, <2>3 DEF IInv
<1> QED
  BY <1>1, <1>2, <1>3, <1>4 DEF Next, Reactor

THEOREM Invariant == Spec => []IInv
  BY InitIInv, NextIInv, PTL DEF Spec

(* Every variable keeps its type, whatever fails.                          *)
THEOREM TypeCorrect == Spec => []TypeOK
<1>1. IInv => TypeOK
  BY DEF IInv
<1> QED
  BY <1>1, Invariant, PTL

(* A result of epoll_wait is never handled for a descriptor that was       *)
(* closed, or re-armed for something else, by an earlier result of the     *)
(* same batch (reactor.c:261-273), whatever fails.                         *)
THEOREM BatchFresh == Spec => []NoStaleEvent
<1>1. IInv => NoStaleEvent
  <2> SUFFICES ASSUME IInv, NEW e \in batch
               PROVE  /\ interest[e[1]] = e[2]
                      /\ events[e[1]] = e[2]
                      /\ e[1] # Listener => conn[e[1]] # None
    BY DEF NoStaleEvent
  <2>1. /\ e[1] \in Index /\ e[2] \in {"EPOLLIN", "EPOLLOUT"} /\ interest[e[1]] = e[2]
    BY DEF IInv, TypeOK, BatchWired
  <2>2. events[e[1]] = e[2]
    BY <2>1 DEF IInv, SlotsWired, ListenerWired
  <2>3. e[1] # Listener => conn[e[1]] # None
    BY ResultFacts
  <2> QED
    BY <2>1, <2>2, <2>3
<1> QED
  BY <1>1, Invariant, PTL

----------------------------------------------------------------------------
(* The slot of a descriptor.  fcntl(F_SETFL) on a descriptor accept has    *)
(* just returned does not fail; if it did, the descriptor would stay open  *)
(* with a free slot (reactor.c:415-418).                                   *)

\* The slots in use are the open descriptors the table has room for.
TableInv ==
  \A s \in Index \ {Listener} :
    /\ conn[s] # None /\ s < MAX_EPOLL_EVENTS => status[s] = 1
    /\ status[s] = 1 => s < MAX_EPOLL_EVENTS

LEMMA InitTableInv == Init => TableInv
  BY DEF Init, TableInv

(* A step that keeps status where a descriptor is open.                    *)
LEMMA ClientStepTableInv ==
  ASSUME IInv, TableInv, NEW s \in Index \ {Listener}, status[s] = 1,
         \/ EventDelClose(s)
         \/ UNCHANGED conn /\ \E ev, cb, buf : EventSetAdd(s, ev, cb, buf)
  PROVE  TableInv'
<1>1. CASE EventDelClose(s)
  BY <1>1 DEF EventDelClose, IInv, TypeOK, TableInv
<1>2. CASE UNCHANGED conn /\ \E ev, cb, buf : EventSetAdd(s, ev, cb, buf)
  <2>1. status' = [status EXCEPT ![s] = 1] /\ conn' = conn
    BY <1>2 DEF EventSetAdd
  <2>2. \A r \in Index : status'[r] = status[r]
    BY <2>1 DEF IInv, TypeOK
  <2> QED
    BY <2>1, <2>2 DEF TableInv
<1> QED
  BY <1>1, <1>2

(* accept_callback: a free slot exists, so the lowest free descriptor is   *)
(* below the end of the table.                                             *)
LEMMA AcceptTableInv ==
  ASSUME IInv, TableInv, "fcntl" \notin Faults, AcceptCallback
  PROVE  TableInv'
<1>1. CASE UNCHANGED <<table, interest, conn, backlog>>
  BY <1>1 DEF table, TableInv
<1>2. ASSUME NEW c \in backlog, NEW cli_fd \in ClientFds \ Open,
             \A fd \in ClientFds \ Open : cli_fd =< fd,
             conn' = [conn EXCEPT ![cli_fd] = c],
             \/ /\ \E i \in ClientSlots : status[i] = 0
                /\ EventSetAdd(cli_fd, "EPOLLIN", "recv", << >>)
             \/ /\ \A i \in ClientSlots : status[i] = 1
                /\ UNCHANGED <<table, interest>>
      PROVE  TableInv'
  <2>1. /\ cli_fd \in Index \ {Listener} /\ conn[cli_fd] = None
        /\ cli_fd \in Nat /\ cli_fd < FdLimit /\ cli_fd >= FirstFd
    BY IndexFacts DEF Open, ClientFds, FirstFd
  <2>2. \A r \in Index \ {cli_fd} : conn'[r] = conn[r]
    BY <1>2, <2>1 DEF IInv, TypeOK
  <2>3. ASSUME NEW i \in ClientSlots, status[i] = 0,
               EventSetAdd(cli_fd, "EPOLLIN", "recv", << >>)
        PROVE  TableInv'
    <3>1. i \in Nat /\ i >= FirstFd /\ i < MAX_EPOLL_EVENTS /\ i \in Index \ {Listener}
      BY <2>3, IndexFacts DEF ClientSlots, FirstFd, Listener
    <3>2. conn[i] = None
      BY <2>3, <3>1 DEF TableInv
    <3>3. cli_fd < MAX_EPOLL_EVENTS
      <4>1. CASE i < FdLimit
        <5>1. i \in ClientFds \ Open
          BY <4>1, <3>1, <3>2 DEF ClientFds, Open, FirstFd
        <5> QED
          BY <5>1, <1>2, <2>1, <3>1
      <4>2. CASE i >= FdLimit
        BY <4>2, <2>1, <3>1
      <4> QED
        BY <4>1, <4>2, <3>1
    <3>4. status' = [status EXCEPT ![cli_fd] = 1]
      BY <2>3 DEF EventSetAdd
    <3>5. status'[cli_fd] = 1 /\ \A r \in Index \ {cli_fd} : status'[r] = status[r]
      BY <2>1, <3>4 DEF IInv, TypeOK
    <3> QED
      BY <2>2, <3>3, <3>5 DEF TableInv
  <2>4. ASSUME \A i \in ClientSlots : status[i] = 1, UNCHANGED <<table, interest>>
        PROVE  TableInv'
    <3>1. status' = status
      BY <2>4 DEF table
    <3>2. cli_fd >= MAX_EPOLL_EVENTS
      <4>1. status[cli_fd] # 1
        BY <2>1 DEF IInv, SlotsWired
      <4> QED
        BY <4>1, <2>1, <2>4 DEF ClientSlots, FirstFd
    <3>3. ~(cli_fd < MAX_EPOLL_EVENTS)
      BY <2>1, <3>2
    <3>4. ASSUME NEW r \in Index \ {Listener}
          PROVE  /\ conn'[r] # None /\ r < MAX_EPOLL_EVENTS => status'[r] = 1
                 /\ status'[r] = 1 => r < MAX_EPOLL_EVENTS
      BY <2>2, <3>1, <3>3 DEF TableInv
    <3> QED
      BY <3>4 DEF TableInv
  <2> QED
    BY <1>2, <2>3, <2>4
<1> QED
  BY <1>1, <1>2 DEF AcceptCallback

LEMMA NextTableInv ==
  ASSUME "fcntl" \notin Faults
  PROVE  IInv /\ TableInv /\ [Next]_vars => TableInv'
<1> SUFFICES ASSUME IInv, TableInv, [Next]_vars PROVE TableInv'
  OBVIOUS
<1>1. CASE Dispatch
  <2>1. PICK e \in batch :
          IF events[e[1]] = e[2]
          THEN \/ callback[e[1]] = "accept" /\ AcceptCallback
               \/ callback[e[1]] = "recv" /\ RecvCallback(e[1])
               \/ callback[e[1]] = "send" /\ SendCallback(e[1])
          ELSE UNCHANGED <<table, interest, conn, running, backlog, peers>>
    BY <1>1 DEF Dispatch
  <2>2. CASE AcceptCallback
    BY <2>2, AcceptTableInv
  <2>3. CASE callback[e[1]] = "recv" /\ RecvCallback(e[1])
    <3>1. e[1] \in Index \ {Listener} /\ status[e[1]] = 1
      BY <2>3, ResultFacts
    <3> QED
      BY <2>3, <3>1, ClientStepTableInv DEF RecvCallback
  <2>4. CASE callback[e[1]] = "send" /\ SendCallback(e[1])
    <3>1. e[1] \in Index \ {Listener} /\ status[e[1]] = 1
      BY <2>4, ResultFacts
    <3>2. CASE UNCHANGED <<table, interest, conn, echo>>
      BY <3>2 DEF table, TableInv
    <3> QED
      BY <2>4, <3>1, <3>2, ClientStepTableInv DEF SendCallback
  <2>5. CASE UNCHANGED <<table, interest, conn, running, backlog, peers>>
    BY <2>5 DEF table, TableInv
  <2> QED
    BY <2>1, <2>2, <2>3, <2>4, <2>5
<1>2. CASE ~Dispatch
  <2>1. UNCHANGED <<status, conn>>
    BY <1>2 DEF Next, Connect, Send, Leave, Reactor, EpollWait, Timeout, Interrupted,
                vars, table
  <2> QED
    BY <2>1 DEF TableInv
<1> QED
  BY <1>1, <1>2

(* The comment of accept_callback (reactor.c:398) is right: the slots in   *)
(* use are exactly the open descriptors, and events[cli_fd] stays inside   *)
(* the table whatever the descriptor limit of the process is.              *)
THEOREM SlotPerDescriptor ==
  ASSUME "fcntl" \notin Faults
  PROVE  Spec => [](SlotIsFd /\ InBounds)
<1>1. IInv /\ TableInv => SlotIsFd /\ InBounds
  <2> SUFFICES ASSUME IInv, TableInv PROVE SlotIsFd /\ InBounds
    OBVIOUS
  <2>1. \A s \in ClientSlots : s \in Index \ {Listener} /\ s < MAX_EPOLL_EVENTS
    BY IndexFacts DEF ClientSlots, FirstFd, Listener
  <2>2. SlotIsFd
    BY <2>1 DEF SlotIsFd, IInv, SlotsWired, TableInv
  <2>3. InBounds
    BY DEF InBounds, IInv, SlotsWired, TableInv, Listener, FirstFd
  <2> QED
    BY <2>2, <2>3
<1>2. Init => TableInv
  BY InitTableInv
<1>3. IInv /\ TableInv /\ [Next]_vars => TableInv'
  BY NextTableInv
<1> QED
  BY <1>1, <1>2, <1>3, Invariant, PTL DEF Spec
----------------------------------------------------------------------------
(* The steps as the data of one client sees them *)

\* accept_callback gives client c the free descriptor s.
Accepts(c, s) ==
  /\ conn[s] = None
  /\ backlog' = backlog \ {c}
  /\ conn' = [conn EXCEPT ![s] = c]
  /\ \/ EventSetAdd(s, "EPOLLIN", "recv", << >>)
     \/ /\ \/ \A i \in ClientSlots : status[i] = 1
           \/ "fcntl" \in Faults
        /\ UNCHANGED <<status, events, callback, buffer, interest>>
  /\ UNCHANGED <<phase, sent, inbox, echo>>

\* recv_callback takes the first n bytes of the socket.
Reads(s, n) ==
  /\ callback[s] = "recv"
  /\ inbox' = [inbox EXCEPT ![conn[s]] = SubSeq(@, n + 1, Len(@))]
  /\ EventSetAdd(s, "EPOLLOUT", "send", SubSeq(inbox[conn[s]], 1, n))
  /\ UNCHANGED <<conn, backlog, phase, sent, echo>>

\* send_callback sends the first n bytes of the buffer.
Echoes(s, n) ==
  /\ callback[s] = "send"
  /\ n < Len(buffer[s]) => "partial" \in Faults
  /\ echo' = [echo EXCEPT ![conn[s]] = @ \o SubSeq(buffer[s], 1, n)]
  /\ EventSetAdd(s, "EPOLLIN", "recv", << >>)
  /\ UNCHANGED <<conn, backlog, phase, sent, inbox>>

\* Either callback closes the descriptor.
Closes(s) ==
  /\ EventDelClose(s)
  /\ UNCHANGED <<backlog, phase, sent, inbox, echo>>

Quiet == UNCHANGED <<status, events, callback, buffer, interest, conn, backlog,
                     phase, sent, inbox, echo>>

\* An armed client slot.
Armed == {s \in Index \ {Listener} : status[s] = 1 /\ conn[s] \in Clients}

(* Every step is one of these, or a step of a client.                      *)
LEMMA StepCases ==
  ASSUME IInv, [Next]_vars
  PROVE  \/ \E c \in Clients : Connect(c) \/ Send(c) \/ Leave(c)
         \/ \E c \in backlog, s \in ClientFds : Accepts(c, s)
         \/ \E s \in Armed : \E n \in 1 .. Len(inbox[conn[s]]) : Reads(s, n)
         \/ \E s \in Armed : \E n \in 1 .. Len(buffer[s]) : Echoes(s, n)
         \/ \E s \in Armed : Closes(s)
         \/ Quiet
<1>1. CASE Dispatch
  <2>1. PICK e \in batch :
          IF events[e[1]] = e[2]
          THEN \/ callback[e[1]] = "accept" /\ AcceptCallback
               \/ callback[e[1]] = "recv" /\ RecvCallback(e[1])
               \/ callback[e[1]] = "send" /\ SendCallback(e[1])
          ELSE UNCHANGED <<table, interest, conn, running, backlog, peers>>
    BY <1>1 DEF Dispatch
  <2>2. CASE AcceptCallback
    <3>1. CASE UNCHANGED <<table, interest, conn, backlog>>
      BY <2>2, <3>1 DEF AcceptCallback, Quiet, table, peers
    <3>2. CASE ~UNCHANGED <<table, interest, conn, backlog>>
      <4>1. PICK c \in backlog, s \in ClientFds \ Open :
              /\ backlog' = backlog \ {c}
              /\ conn' = [conn EXCEPT ![s] = c]
              /\ \/ EventSetAdd(s, "EPOLLIN", "recv", << >>)
                 \/ /\ \/ \A i \in ClientSlots : status[i] = 1
                       \/ "fcntl" \in Faults
                    /\ UNCHANGED <<table, interest>>
        BY <2>2, <3>2 DEF AcceptCallback
      <4>2. conn[s] = None
        BY IndexFacts DEF Open
      <4>3. Accepts(c, s)
        BY <2>2, <4>1, <4>2 DEF AcceptCallback, Accepts, table, peers
      <4> QED
        BY <4>1, <4>3
    <3> QED
      BY <3>1, <3>2
  <2>3. CASE callback[e[1]] = "recv" /\ RecvCallback(e[1])
    <3> DEFINE s == e[1]
               c == conn[s]
               rc == IF Len(inbox[c]) < MAX_BUFFER_SIZE THEN Len(inbox[c])
                                                        ELSE MAX_BUFFER_SIZE
    <3>1. s \in Armed /\ c \in Clients
      BY <2>3, ResultFacts DEF Armed
    <3>2. inbox[c] \in Seq(Byte) /\ rc \in 0 .. Len(inbox[c])
      BY <3>1 DEF IInv, TypeOK
    <3>3. CASE Closes(s)
      BY <3>1, <3>3
    <3>4. CASE rc > 0 /\ Reads(s, rc)
      <4>1. rc \in 1 .. Len(inbox[conn[s]])
        BY <3>2, <3>4
      <4> QED
        BY <3>1, <3>4, <4>1
    <3>5. Closes(s) \/ (rc > 0 /\ Reads(s, rc))
      BY <2>3 DEF RecvCallback, Closes, Reads
    <3> QED
      BY <3>3, <3>4, <3>5
  <2>4. CASE callback[e[1]] = "send" /\ SendCallback(e[1])
    <3>1. e[1] \in Armed
      BY <2>4, ResultFacts DEF Armed
    <3>2. \/ Closes(e[1]) \/ Quiet
          \/ \E n \in 1 .. Len(buffer[e[1]]) : Echoes(e[1], n)
      BY <2>4 DEF SendCallback, Closes, Echoes, Quiet, table
    <3> QED
      BY <3>1, <3>2
  <2>5. CASE UNCHANGED <<table, interest, conn, running, backlog, peers>>
    BY <2>5 DEF Quiet, table, peers
  <2> QED
    BY <2>1, <2>2, <2>3, <2>4, <2>5
<1>2. CASE EpollWait \/ Timeout \/ Interrupted \/ UNCHANGED vars
  BY <1>2 DEF EpollWait, Timeout, Interrupted, Quiet, vars, table, peers
<1> QED
  BY <1>1, <1>2 DEF Next, Reactor

(* What arming a slot does to the fields of the table.                     *)
LEMMA ArmFields ==
  ASSUME IInv, NEW s \in Index, NEW ev, NEW cb, NEW buf, EventSetAdd(s, ev, cb, buf)
  PROVE  /\ status'[s] = 1 /\ callback'[s] = cb /\ buffer'[s] = buf
         /\ "epoll_ctl" \notin Faults => interest'[s] = ev
         /\ \A r \in Index \ {s} : /\ status'[r] = status[r]
                                   /\ callback'[r] = callback[r]
                                   /\ buffer'[r] = buffer[r]
                                   /\ interest'[r] = interest[r]
<1>1. /\ status' = [status EXCEPT ![s] = 1]
      /\ callback' = [callback EXCEPT ![s] = cb]
      /\ buffer' = [buffer EXCEPT ![s] = buf]
      /\ \/ interest' = [interest EXCEPT ![s] = ev]
         \/ "epoll_ctl" \in Faults /\ interest' = [interest EXCEPT ![s] = "none"]
  BY DEF EventSetAdd
<1> QED
  BY <1>1 DEF IInv, TypeOK

----------------------------------------------------------------------------
(* Membership of the epoll set.  When epoll_ctl fails the event is marked  *)
(* as added all the same (reactor.c:332-345), hence the assumption.        *)

ArmedWaits == \A s \in Index \ {Listener} : status[s] = 1 => interest[s] # "none"

LEMMA NextArmedWaits ==
  ASSUME "epoll_ctl" \notin Faults
  PROVE  IInv /\ ArmedWaits /\ [Next]_vars => ArmedWaits'
<1> SUFFICES ASSUME IInv, ArmedWaits, [Next]_vars PROVE ArmedWaits'
  OBVIOUS
<1>1. ASSUME NEW s \in Index, NEW ev \in {"EPOLLIN", "EPOLLOUT"}, NEW cb, NEW buf,
             EventSetAdd(s, ev, cb, buf)
      PROVE  ArmedWaits'
  BY <1>1, ArmFields DEF ArmedWaits
<1>2. ASSUME NEW c \in Clients, Connect(c) \/ Send(c) \/ Leave(c) PROVE ArmedWaits'
  BY <1>2 DEF Connect, Send, Leave, table, ArmedWaits
<1>3. ASSUME NEW c \in backlog, NEW s \in ClientFds, Accepts(c, s) PROVE ArmedWaits'
  <2>1. s \in Index
    BY IndexFacts
  <2> QED
    BY <1>1, <1>3, <2>1 DEF Accepts, ArmedWaits
<1>4. ASSUME NEW s \in Armed, NEW n, Reads(s, n) \/ Echoes(s, n) PROVE ArmedWaits'
  BY <1>1, <1>4 DEF Armed, Reads, Echoes
<1>5. ASSUME NEW s \in Armed, Closes(s) PROVE ArmedWaits'
  BY <1>5 DEF Armed, Closes, EventDelClose, IInv, TypeOK, ArmedWaits
<1>6. CASE Quiet
  BY <1>6 DEF Quiet, ArmedWaits
<1> QED
  BY <1>2, <1>3, <1>4, <1>5, <1>6, StepCases

(* status is 1 exactly for the events that are in the epoll set            *)
(* (reactor.c:33), although every callback removes its event and adds it   *)
(* again, as long as epoll_ctl itself does not fail.                       *)
THEOREM StatusTells ==
  ASSUME "epoll_ctl" \notin Faults
  PROVE  Spec => []StatusIsMembership
<1>1. Init => ArmedWaits
  BY DEF Init, ArmedWaits
<1>2. IInv /\ ArmedWaits /\ [Next]_vars => ArmedWaits'
  BY NextArmedWaits
<1>3. IInv /\ ArmedWaits => StatusIsMembership
  BY IndexFacts DEF IInv, SlotsWired, ArmedWaits, StatusIsMembership, ClientSlots, Listener, FirstFd
<1> QED
  BY <1>1, <1>2, <1>3, Invariant, PTL DEF Spec
----------------------------------------------------------------------------
(* Who has which descriptor *)

\* A client has at most one descriptor, and none before it is accepted.
OneSlot ==
  /\ \A r, s \in Index : conn[r] # None /\ conn[r] = conn[s] => r = s
  /\ \A c \in Clients : c \in backlog => phase[c] # "new" /\ \A s \in Index : conn[s] # c
  /\ \A c \in Clients : phase[c] = "new" => \A s \in Index : conn[s] # c

LEMMA NextOneSlot == IInv /\ OneSlot /\ [Next]_vars => OneSlot'
<1> SUFFICES ASSUME IInv, OneSlot, [Next]_vars PROVE OneSlot'
  OBVIOUS
<1> USE DEF OneSlot
<1>1. ASSUME NEW c \in Clients, Connect(c) \/ Send(c) \/ Leave(c) PROVE OneSlot'
  <2>1. conn' = conn
    BY <1>1 DEF Connect, Send, Leave
  <2>2. CASE Connect(c)
    <3>1. /\ phase[c] = "new" /\ backlog' = backlog \cup {c} /\ phase'[c] = "connected"
          /\ \A d \in Clients \ {c} : phase'[d] = phase[d]
      BY <2>2 DEF Connect, IInv, TypeOK
    <3> QED
      BY <2>1, <3>1
  <2>3. CASE Send(c)
    BY <2>1, <2>3 DEF Send
  <2>4. CASE Leave(c)
    <3>1. /\ phase[c] # "new" /\ backlog' = backlog /\ phase'[c] # "new"
          /\ \A d \in Clients \ {c} : phase'[d] = phase[d]
      BY <2>4 DEF Leave, IInv, TypeOK
    <3> QED
      BY <2>1, <3>1
  <2> QED
    BY <1>1, <2>2, <2>3, <2>4
<1>2. ASSUME NEW c \in backlog, NEW s \in ClientFds, Accepts(c, s) PROVE OneSlot'
  <2>1. s \in Index /\ c \in Clients /\ phase' = phase /\ backlog' = backlog \ {c}
    BY <1>2, IndexFacts DEF Accepts, IInv, TypeOK
  <2>2. conn'[s] = c /\ \A r \in Index \ {s} : conn'[r] = conn[r]
    BY <1>2, <2>1 DEF Accepts, IInv, TypeOK
  <2> QED
    BY <2>1, <2>2
<1>3. ASSUME NEW s \in Armed, NEW n, Reads(s, n) \/ Echoes(s, n) PROVE OneSlot'
  BY <1>3 DEF Reads, Echoes
<1>4. ASSUME NEW s \in Armed, Closes(s) PROVE OneSlot'
  <2>1. conn'[s] = None /\ \A r \in Index \ {s} : conn'[r] = conn[r]
    BY <1>4 DEF Armed, Closes, EventDelClose, IInv, TypeOK
  <2>2. phase' = phase /\ backlog' = backlog
    BY <1>4 DEF Closes
  <2> QED
    BY <2>1, <2>2
<1>5. CASE Quiet
  BY <1>5 DEF Quiet
<1> QED
  BY <1>1, <1>2, <1>3, <1>4, <1>5, StepCases

----------------------------------------------------------------------------
(* The order of the echo, whatever fails *)

\* Bytes of client c, in the order they were written, up to byte n.
Ordered(q, c, n) ==
  /\ \A k \in DOMAIN q : q[k][1] = c /\ q[k][2] =< n
  /\ \A j, k \in DOMAIN q : j < k => q[j][2] < q[k][2]

\* All of p was written before all of q.
Before(p, q) == \A j \in DOMAIN p, k \in DOMAIN q : p[j][2] < q[k][2]

LEMMA OrderedCut ==
  ASSUME NEW b \in Seq(Byte), NEW n \in 0 .. Len(b), NEW c, NEW m \in Nat, Ordered(b, c, m)
  PROVE  /\ Ordered(SubSeq(b, 1, n), c, m)
         /\ Ordered(SubSeq(b, n + 1, Len(b)), c, m)
         /\ Before(SubSeq(b, 1, n), SubSeq(b, n + 1, Len(b)))
         /\ \A a \in Seq(Byte) : Before(a, b) => /\ Before(a, SubSeq(b, 1, n))
                                                 /\ Before(a, SubSeq(b, n + 1, Len(b)))
         /\ \A a \in Seq(Byte) : Before(b, a) => Before(SubSeq(b, 1, n), a)
<1> DEFINE l == SubSeq(b, 1, n)
           r == SubSeq(b, n + 1, Len(b))
<1>1. DOMAIN b = 1 .. Len(b) /\ Len(b) \in Nat /\ n \in Nat /\ n =< Len(b)
  OBVIOUS
<1>2. l \in Seq(Byte) /\ r \in Seq(Byte)
  BY CutBytes
<1>3. Len(l) = n /\ \A k \in 1 .. n : l[k] = b[k]
  OBVIOUS
<1>4. Len(r) = Len(b) - n /\ \A k \in 1 .. Len(b) - n : r[k] = b[n + k]
  OBVIOUS
<1>5. DOMAIN l = 1 .. n /\ DOMAIN r = 1 .. Len(b) - n
  BY <1>2, <1>3, <1>4
<1> HIDE DEF l, r
<1>6. \A k \in DOMAIN l : k \in DOMAIN b /\ l[k] = b[k] /\ k =< n
  BY <1>1, <1>3, <1>5
<1>7. \A k \in DOMAIN r : n + k \in DOMAIN b /\ r[k] = b[n + k] /\ k \in Nat /\ k > 0
  BY <1>1, <1>4, <1>5
<1>8. Ordered(l, c, m)
  BY <1>6 DEF Ordered
<1>9. Ordered(r, c, m)
  <2>1. \A k \in DOMAIN r : r[k][1] = c /\ r[k][2] =< m
    BY <1>7 DEF Ordered
  <2>2. ASSUME NEW j \in DOMAIN r, NEW k \in DOMAIN r, j < k PROVE r[j][2] < r[k][2]
    <3>1. n + j < n + k
      BY <1>1, <1>7, <2>2
    <3> QED
      BY <1>7, <3>1 DEF Ordered
  <2> QED
    BY <2>1, <2>2 DEF Ordered
<1>10. Before(l, r)
  <2>1. ASSUME NEW j \in DOMAIN l, NEW k \in DOMAIN r PROVE l[j][2] < r[k][2]
    <3>1. j \in DOMAIN b /\ n + k \in DOMAIN b /\ j < n + k
      BY <1>1, <1>6, <1>7
    <3> QED
      BY <1>6, <1>7, <3>1 DEF Ordered
  <2> QED
    BY <2>1 DEF Before
<1>11. \A a \in Seq(Byte) : Before(a, b) => Before(a, l) /\ Before(a, r)
  BY <1>6, <1>7 DEF Before
<1>12. \A a \in Seq(Byte) : Before(b, a) => Before(l, a)
  BY <1>6 DEF Before
<1> QED
  BY <1>8, <1>9, <1>10, <1>11, <1>12 DEF l, r

LEMMA OrderedConcat ==
  ASSUME NEW p \in Seq(Byte), NEW q \in Seq(Byte), NEW c, NEW m \in Nat,
         Ordered(p, c, m), Ordered(q, c, m), Before(p, q)
  PROVE  /\ Ordered(p \o q, c, m)
         /\ \A a \in Seq(Byte) : Before(p, a) /\ Before(q, a) => Before(p \o q, a)
<1> DEFINE r == p \o q
<1>1. /\ r \in Seq(Byte) /\ Len(r) = Len(p) + Len(q)
      /\ Len(p) \in Nat /\ Len(q) \in Nat
      /\ DOMAIN p = 1 .. Len(p) /\ DOMAIN q = 1 .. Len(q) /\ DOMAIN r = 1 .. Len(p) + Len(q)
  OBVIOUS
<1>2. \A k \in 1 .. Len(p) : r[k] = p[k]
  OBVIOUS
<1>3. \A k \in Len(p) + 1 .. Len(p) + Len(q) : r[k] = q[k - Len(p)]
  OBVIOUS
<1> HIDE DEF r
<1>4. \A k \in DOMAIN r : \/ k \in DOMAIN p /\ r[k] = p[k]
                          \/ k > Len(p) /\ k - Len(p) \in DOMAIN q /\ r[k] = q[k - Len(p)]
  BY <1>1, <1>2, <1>3
<1>5. \A k \in DOMAIN r : r[k][1] = c /\ r[k][2] =< m
  BY <1>4 DEF Ordered
<1>6. ASSUME NEW j \in DOMAIN r, NEW k \in DOMAIN r, j < k PROVE r[j][2] < r[k][2]
  <2>1. CASE k \in DOMAIN p /\ r[k] = p[k]
    <3>1. j \in DOMAIN p /\ r[j] = p[j]
      BY <1>1, <1>2, <1>6, <2>1
    <3> QED
      BY <1>6, <2>1, <3>1 DEF Ordered
  <2>2. CASE k > Len(p) /\ k - Len(p) \in DOMAIN q /\ r[k] = q[k - Len(p)]
    <3>1. CASE j \in DOMAIN p /\ r[j] = p[j]
      BY <2>2, <3>1 DEF Before
    <3>2. CASE j - Len(p) \in DOMAIN q /\ r[j] = q[j - Len(p)]
      <4>1. j - Len(p) < k - Len(p)
        BY <1>1, <1>6
      <4> QED
        BY <2>2, <3>2, <4>1 DEF Ordered
    <3> QED
      BY <1>4, <3>1, <3>2
  <2> QED
    BY <1>4, <2>1, <2>2
<1>7. \A a \in Seq(Byte) : Before(p, a) /\ Before(q, a) => Before(r, a)
  BY <1>4 DEF Before
<1> QED
  BY <1>5, <1>6, <1>7 DEF Ordered, r

LEMMA OrderedAppend ==
  ASSUME NEW q \in Seq(Byte), NEW c \in Clients, NEW m \in Nat, m < MaxBytes, Ordered(q, c, m)
  PROVE  /\ Ordered(Append(q, <<c, m + 1>>), c, m + 1)
         /\ \A a \in Seq(Byte) : Ordered(a, c, m) /\ Before(a, q)
                                   => /\ Ordered(a, c, m + 1)
                                      /\ Before(a, Append(q, <<c, m + 1>>))
<1> DEFINE r == Append(q, <<c, m + 1>>)
<1>1. \A a \in Seq(Byte) : \A k \in DOMAIN a : a[k][2] \in Nat /\ k \in Nat
  BY DEF Byte
<1>2. /\ DOMAIN r = 1 .. Len(q) + 1 /\ Len(q) \in Nat /\ DOMAIN q = 1 .. Len(q)
      /\ r[Len(q) + 1] = <<c, m + 1>> /\ \A k \in 1 .. Len(q) : r[k] = q[k]
  BY DEF Byte
<1> HIDE DEF r
<1>3. \A k \in DOMAIN r : \/ k \in DOMAIN q /\ r[k] = q[k]
                          \/ k = Len(q) + 1 /\ r[k] = <<c, m + 1>>
  BY <1>2
<1>4. \A k \in DOMAIN r : r[k][1] = c /\ r[k][2] =< m + 1
  BY <1>1, <1>3 DEF Ordered
<1>5. ASSUME NEW j \in DOMAIN r, NEW k \in DOMAIN r, j < k PROVE r[j][2] < r[k][2]
  <2>1. j \in DOMAIN q /\ r[j] = q[j] /\ q[j][2] =< m /\ q[j][2] \in Nat
    BY <1>1, <1>2, <1>5 DEF Ordered
  <2>2. CASE k \in DOMAIN q /\ r[k] = q[k]
    BY <1>5, <2>1, <2>2 DEF Ordered
  <2>3. CASE r[k] = <<c, m + 1>>
    BY <2>1, <2>3
  <2> QED
    BY <1>3, <2>2, <2>3
<1>6. ASSUME NEW a \in Seq(Byte), Ordered(a, c, m), Before(a, q)
      PROVE  Ordered(a, c, m + 1) /\ Before(a, r)
  <2>1. \A k \in DOMAIN a : a[k][2] =< m /\ a[k][2] =< m + 1 /\ a[k][2] < m + 1
    BY <1>1, <1>6 DEF Ordered
  <2>2. Ordered(a, c, m + 1)
    BY <1>6, <2>1 DEF Ordered
  <2>3. Before(a, r)
    BY <1>3, <1>6, <2>1 DEF Before
  <2> QED
    BY <2>2, <2>3
<1> QED
  BY <1>4, <1>5, <1>6 DEF Ordered, r
\* The bytes of a client that came back, then those in the buffer of its
\* event, then those in its socket: each part in order and after the last.
Holds(s, c) == conn[s] = c /\ status[s] = 1 /\ callback[s] = "send"

OrderInv ==
  \A c \in Clients :
    /\ Ordered(echo[c], c, sent[c])
    /\ Ordered(inbox[c], c, sent[c])
    /\ Before(echo[c], inbox[c])
    /\ \A s \in Index : Holds(s, c) => /\ Ordered(buffer[s], c, sent[c])
                                       /\ Before(echo[c], buffer[s])
                                       /\ Before(buffer[s], inbox[c])

LEMMA InitOrderInv == Init => OrderInv /\ OneSlot
  BY DEF Init, OrderInv, OneSlot, Holds, Ordered, Before

LEMMA NextOrderInv == IInv /\ OneSlot /\ OrderInv /\ [Next]_vars => OrderInv'
<1> SUFFICES ASSUME IInv, OneSlot, OrderInv, [Next]_vars PROVE OrderInv'
  OBVIOUS
<1>1. /\ \A c \in Clients : /\ echo[c] \in Seq(Byte) /\ inbox[c] \in Seq(Byte)
                            /\ sent[c] \in Nat /\ sent[c] =< MaxBytes
      /\ \A s \in Index : buffer[s] \in Seq(Byte)
  BY DEF IInv, TypeOK
<1>2. ASSUME NEW c \in Clients, Connect(c) \/ Leave(c) PROVE OrderInv'
  BY <1>2 DEF Connect, Leave, table, OrderInv, Holds
<1>3. ASSUME NEW c \in Clients, Send(c) PROVE OrderInv'
  <2>1. /\ UNCHANGED <<status, callback, buffer, conn, echo>>
        /\ sent'[c] = sent[c] + 1 /\ inbox'[c] = Append(inbox[c], <<c, sent[c] + 1>>)
        /\ \A d \in Clients \ {c} : sent'[d] = sent[d] /\ inbox'[d] = inbox[d]
        /\ sent[c] < MaxBytes
    BY <1>3 DEF Send, table, IInv, TypeOK
  <2>2. /\ Ordered(inbox'[c], c, sent'[c])
        /\ \A a \in Seq(Byte) : Ordered(a, c, sent[c]) /\ Before(a, inbox[c])
                                  => Ordered(a, c, sent'[c]) /\ Before(a, inbox'[c])
    BY <1>1, <2>1, OrderedAppend DEF OrderInv
  <2>3. ASSUME NEW d \in Clients \ {c}
        PROVE  /\ Ordered(echo'[d], d, sent'[d])
               /\ Ordered(inbox'[d], d, sent'[d])
               /\ Before(echo'[d], inbox'[d])
               /\ \A s \in Index : Holds(s, d)' => /\ Ordered(buffer'[s], d, sent'[d])
                                                   /\ Before(echo'[d], buffer'[s])
                                                   /\ Before(buffer'[s], inbox'[d])
    BY <2>1 DEF OrderInv, Holds
  <2>4. Ordered(echo'[c], c, sent'[c]) /\ Before(echo'[c], inbox'[c])
    BY <1>1, <2>1, <2>2 DEF OrderInv
  <2>5. ASSUME NEW s \in Index, Holds(s, c)'
        PROVE  /\ Ordered(buffer'[s], c, sent'[c])
               /\ Before(echo'[c], buffer'[s])
               /\ Before(buffer'[s], inbox'[c])
    <3>1. Holds(s, c) /\ buffer'[s] = buffer[s] /\ echo'[c] = echo[c]
      BY <2>1, <2>5 DEF Holds
    <3> QED
      BY <1>1, <2>2, <3>1 DEF OrderInv
  <2> QED
    BY <2>2, <2>3, <2>4, <2>5 DEF OrderInv
<1>4. ASSUME NEW c \in backlog, NEW s \in ClientFds, Accepts(c, s) PROVE OrderInv'
  <2>1. s \in Index /\ c \in Clients /\ UNCHANGED <<sent, inbox, echo>>
    BY <1>4, IndexFacts DEF Accepts, IInv, TypeOK
  <2>2. conn'[s] = c /\ \A r \in Index \ {s} : conn'[r] = conn[r]
    BY <1>4, <2>1 DEF Accepts, IInv, TypeOK
  <2>3. conn[s] = None /\ s # Listener /\ status[s] # 1
    BY <1>4, <2>1, IndexFacts DEF Accepts, IInv, SlotsWired
  <2>4. /\ \A r \in Index \ {s} : /\ status'[r] = status[r] /\ callback'[r] = callback[r]
                                  /\ buffer'[r] = buffer[r]
        /\ status'[s] # 1 \/ callback'[s] # "send"
    <3>1. CASE EventSetAdd(s, "EPOLLIN", "recv", << >>)
      BY <2>1, <3>1, ArmFields
    <3>2. CASE UNCHANGED <<status, events, callback, buffer, interest>>
      BY <2>3, <3>2
    <3> QED
      BY <1>4, <3>1, <3>2 DEF Accepts
  <2>5. \A r \in Index, d \in Clients : Holds(r, d)' => Holds(r, d) /\ buffer'[r] = buffer[r]
    BY <2>2, <2>4 DEF Holds
  <2> QED
    BY <2>1, <2>5 DEF OrderInv
<1>5. ASSUME NEW s \in Armed, NEW n \in 1 .. Len(inbox[conn[s]]), Reads(s, n) PROVE OrderInv'
  <2> DEFINE c == conn[s]
  <2>1. s \in Index /\ c \in Clients /\ n \in 0 .. Len(inbox[c])
    BY <1>1 DEF Armed
  <2>2. /\ UNCHANGED <<conn, sent, echo>>
        /\ inbox'[c] = SubSeq(inbox[c], n + 1, Len(inbox[c]))
        /\ \A d \in Clients \ {c} : inbox'[d] = inbox[d]
    BY <1>5, <2>1 DEF Reads, IInv, TypeOK
  <2>3. /\ buffer'[s] = SubSeq(inbox[c], 1, n)
        /\ \A r \in Index \ {s} : /\ status'[r] = status[r] /\ callback'[r] = callback[r]
                                  /\ buffer'[r] = buffer[r]
    <3> DEFINE b == SubSeq(inbox[c], 1, n)
    <3>1. EventSetAdd(s, "EPOLLOUT", "send", b)
      BY <1>5 DEF Reads
    <3> HIDE DEF b
    <3>2. buffer'[s] = b
      BY <2>1, <3>1, ArmFields
    <3>3. \A r \in Index \ {s} : /\ status'[r] = status[r] /\ callback'[r] = callback[r]
                                  /\ buffer'[r] = buffer[r]
      BY <2>1, <3>1, ArmFields
    <3> QED
      BY <3>2, <3>3 DEF b
  <2>4. /\ Ordered(echo[c], c, sent[c]) /\ Ordered(inbox[c], c, sent[c])
        /\ Before(echo[c], inbox[c])
    BY <2>1 DEF OrderInv
  <2>5. /\ Ordered(buffer'[s], c, sent[c]) /\ Ordered(inbox'[c], c, sent[c])
        /\ Before(buffer'[s], inbox'[c])
        /\ Before(echo[c], buffer'[s]) /\ Before(echo[c], inbox'[c])
    <3> HIDE DEF c
    <3> QED
      BY <1>1, <2>1, <2>2, <2>3, <2>4, OrderedCut
  <2>6. \A r \in Index, d \in Clients : Holds(r, d)' =>
           \/ r = s /\ d = c
           \/ r # s /\ d # c /\ Holds(r, d) /\ buffer'[r] = buffer[r]
    <3> SUFFICES ASSUME NEW r \in Index, NEW d \in Clients, Holds(r, d)'
                 PROVE  \/ r = s /\ d = c
                        \/ r # s /\ d # c /\ Holds(r, d) /\ buffer'[r] = buffer[r]
      OBVIOUS
    <3>1. conn[r] = d /\ d # None
      BY <2>2 DEF Holds
    <3>2. CASE r = s
      BY <3>1, <3>2
    <3>3. CASE r # s
      <4>1. d # c
        BY <2>1, <3>1, <3>3 DEF OneSlot
      <4> QED
        BY <2>2, <2>3, <3>3, <4>1 DEF Holds
    <3> QED
      BY <3>2, <3>3
  <2> HIDE DEF c
  <2>7. ASSUME NEW d \in Clients
        PROVE  /\ Ordered(echo'[d], d, sent'[d])
               /\ Ordered(inbox'[d], d, sent'[d])
               /\ Before(echo'[d], inbox'[d])
               /\ \A r \in Index : Holds(r, d)' => /\ Ordered(buffer'[r], d, sent'[d])
                                                   /\ Before(echo'[d], buffer'[r])
                                                   /\ Before(buffer'[r], inbox'[d])
    <3>1. CASE d = c
      BY <2>1, <2>2, <2>4, <2>5, <2>6, <3>1
    <3>2. CASE d # c
      BY <2>1, <2>2, <2>6, <3>2 DEF OrderInv
    <3> QED
      BY <3>1, <3>2
  <2> QED
    BY <2>7 DEF OrderInv
<1>6. ASSUME NEW s \in Armed, NEW n \in 1 .. Len(buffer[s]), Echoes(s, n) PROVE OrderInv'
  <2> DEFINE c == conn[s]
  <2>1. s \in Index /\ c \in Clients /\ n \in 0 .. Len(buffer[s]) /\ Holds(s, c)
    BY <1>1, <1>6 DEF Armed, Holds, Echoes
  <2>2. /\ UNCHANGED <<conn, sent, inbox>>
        /\ echo'[c] = echo[c] \o SubSeq(buffer[s], 1, n)
        /\ \A d \in Clients \ {c} : echo'[d] = echo[d]
    BY <1>6, <2>1 DEF Echoes, IInv, TypeOK
  <2>3. /\ callback'[s] = "recv"
        /\ \A r \in Index \ {s} : /\ status'[r] = status[r] /\ callback'[r] = callback[r]
                                  /\ buffer'[r] = buffer[r]
    BY <1>6, <2>1, ArmFields DEF Echoes
  <2>4. /\ Ordered(echo[c], c, sent[c]) /\ Ordered(inbox[c], c, sent[c])
        /\ Ordered(buffer[s], c, sent[c])
        /\ Before(echo[c], inbox[c]) /\ Before(echo[c], buffer[s])
        /\ Before(buffer[s], inbox[c])
    BY <2>1 DEF OrderInv
  <2> HIDE DEF c
  <2>5. SubSeq(buffer[s], 1, n) \in Seq(Byte)
    BY <1>1, <2>1, CutBytes
  <2>6. /\ Ordered(SubSeq(buffer[s], 1, n), c, sent[c])
        /\ Before(echo[c], SubSeq(buffer[s], 1, n))
        /\ Before(SubSeq(buffer[s], 1, n), inbox[c])
    BY <1>1, <2>1, <2>4, OrderedCut
  <2>7. Ordered(echo'[c], c, sent[c]) /\ Before(echo'[c], inbox[c])
    <3> DEFINE q == SubSeq(buffer[s], 1, n)
    <3>1. /\ echo[c] \in Seq(Byte) /\ q \in Seq(Byte) /\ sent[c] \in Nat
          /\ Ordered(q, c, sent[c]) /\ Before(echo[c], q) /\ Before(q, inbox[c])
          /\ inbox[c] \in Seq(Byte) /\ echo'[c] = echo[c] \o q
      BY <1>1, <2>1, <2>2, <2>5, <2>6
    <3> HIDE DEF q
    <3> QED
      BY <2>4, <3>1, OrderedConcat
  <2>8. \A r \in Index, d \in Clients : Holds(r, d)' =>
           r # s /\ d # c /\ Holds(r, d) /\ buffer'[r] = buffer[r]
    <3> SUFFICES ASSUME NEW r \in Index, NEW d \in Clients, Holds(r, d)'
                 PROVE  r # s /\ d # c /\ Holds(r, d) /\ buffer'[r] = buffer[r]
      OBVIOUS
    <3>1. conn[r] = d /\ d # None /\ r # s
      BY <2>2, <2>3 DEF Holds
    <3>2. d # c
      BY <2>1, <3>1 DEF OneSlot, c
    <3> QED
      BY <2>2, <2>3, <3>1, <3>2 DEF Holds
  <2>9. ASSUME NEW d \in Clients
        PROVE  /\ Ordered(echo'[d], d, sent'[d])
               /\ Ordered(inbox'[d], d, sent'[d])
               /\ Before(echo'[d], inbox'[d])
               /\ \A r \in Index : Holds(r, d)' => /\ Ordered(buffer'[r], d, sent'[d])
                                                   /\ Before(echo'[d], buffer'[r])
                                                   /\ Before(buffer'[r], inbox'[d])
    <3>1. CASE d = c
      BY <2>1, <2>2, <2>4, <2>7, <2>8, <3>1
    <3>2. CASE d # c
      BY <2>1, <2>2, <2>8, <3>2 DEF OrderInv
    <3> QED
      BY <3>1, <3>2
  <2> QED
    BY <2>9 DEF OrderInv
<1>7. ASSUME NEW s \in Armed, Closes(s) PROVE OrderInv'
  <2>1. /\ UNCHANGED <<callback, buffer, sent, inbox, echo>>
        /\ conn'[s] = None
        /\ \A r \in Index \ {s} : conn'[r] = conn[r] /\ status'[r] = status[r]
    BY <1>7 DEF Armed, Closes, EventDelClose, IInv, TypeOK
  <2>2. \A r \in Index, d \in Clients : Holds(r, d)' => Holds(r, d)
    BY <2>1 DEF Holds
  <2> QED
    BY <2>1, <2>2 DEF OrderInv
<1>8. CASE Quiet
  BY <1>8 DEF Quiet, OrderInv, Holds
<1> QED
  BY <1>2, <1>3, <1>4, <1>5, <1>6, <1>7, <1>8, StepCases

(* A client only ever gets back its own bytes, in the order it wrote them  *)
(* and none twice, whatever fails and however descriptors and buffers are  *)
(* reused (reactor.c:432-505).                                             *)
THEOREM EchoOrdered == Spec => []EchoInOrder
<1>1. OrderInv => EchoInOrder
  BY DEF OrderInv, Ordered, EchoInOrder
<1> QED
  BY <1>1, InitOrderInv, NextOneSlot, NextOrderInv, Invariant, PTL DEF Spec
----------------------------------------------------------------------------
(* Nothing is lost on the way.  send_callback drops what a partial send    *)
(* left over (reactor.c:482-491), and a failing fcntl leaves a connection  *)
(* on a slot with old contents, hence the two assumptions; epoll_ctl and   *)
(* epoll_wait may fail as they like.                                       *)

\* The bytes slot s holds for its client.
Held(s) == IF callback[s] = "send" THEN buffer[s] ELSE << >>

KeepInv ==
  /\ \A s \in Index : callback[s] = "send" => s < MAX_EPOLL_EVENTS
  /\ \A s \in Index : conn[s] # None =>
       echo[conn[s]] \o Held(s) \o inbox[conn[s]] = Written(conn[s])
  /\ \A c \in Clients : phase[c] = "new" \/ c \in backlog =>
       echo[c] = << >> /\ inbox[c] = Written(c)

(* One more byte written.                                                  *)
LEMMA WrittenNext ==
  ASSUME NEW c \in Clients, NEW n \in Nat, n < MaxBytes
  PROVE  /\ [k \in 1 .. n |-> <<c, k>>] \in Seq(Byte)
         /\ Append([k \in 1 .. n |-> <<c, k>>], <<c, n + 1>>) = [k \in 1 .. n + 1 |-> <<c, k>>]
<1> DEFINE w == [k \in 1 .. n |-> <<c, k>>]
           v == [k \in 1 .. n + 1 |-> <<c, k>>]
<1>1. w \in Seq(Byte) /\ Len(w) = n /\ \A k \in 1 .. n : w[k] = <<c, k>>
  BY DEF Byte
<1>2. v \in Seq(Byte) /\ Len(v) = n + 1 /\ \A k \in 1 .. n + 1 : v[k] = <<c, k>>
  BY DEF Byte
<1>3. <<c, n + 1>> \in Byte
  BY DEF Byte
<1> HIDE DEF w, v
<1>4. /\ Append(w, <<c, n + 1>>) \in Seq(Byte) /\ Len(Append(w, <<c, n + 1>>)) = n + 1
      /\ \A k \in 1 .. n + 1 : Append(w, <<c, n + 1>>)[k] = <<c, k>>
  BY <1>1, <1>3
<1>5. Append(w, <<c, n + 1>>) = v
  BY <1>2, <1>4, SeqEqual
<1> QED
  BY <1>1, <1>5 DEF w, v

(* Moving the front of the last part to the end of the middle part, or the *)
(* middle part to the end of the first, leaves the whole as it is.         *)
LEMMA Regroup ==
  ASSUME NEW p \in Seq(Byte), NEW q \in Seq(Byte), NEW n \in 0 .. Len(q)
  PROVE  /\ (p \o << >>) \o q = (p \o SubSeq(q, 1, n)) \o SubSeq(q, n + 1, Len(q))
         /\ \A r \in Seq(Byte) : ((p \o SubSeq(q, 1, Len(q))) \o << >>) \o r = (p \o q) \o r
         /\ \A b \in Byte : Append(p \o q, b) = p \o Append(q, b)
<1>1. SubSeq(q, 1, n) \in Seq(Byte) /\ SubSeq(q, n + 1, Len(q)) \in Seq(Byte)
  BY CutBytes
<1>2. SubSeq(q, 1, n) \o SubSeq(q, n + 1, Len(q)) = SubSeq(q, 1, Len(q))
  <2>1. 1 \in 1 .. Len(q) + 1 /\ n \in 1 - 1 .. Len(q) /\ Len(q) \in n .. Len(q)
    OBVIOUS
  <2> QED
    BY <2>1, ConcatAdjacentSubSeq
<1>3. SubSeq(q, 1, Len(q)) = q
  BY SubSeqFull
<1>4. p \o << >> = p /\ p \o q \in Seq(Byte)
  BY ConcatEmptySeq, ConcatProperties
<1>5. (p \o q) \o << >> = p \o q
  BY <1>4, ConcatEmptySeq
<1>6. p \o (SubSeq(q, 1, n) \o SubSeq(q, n + 1, Len(q)))
        = (p \o SubSeq(q, 1, n)) \o SubSeq(q, n + 1, Len(q))
  <2> DEFINE l == SubSeq(q, 1, n)
             r == SubSeq(q, n + 1, Len(q))
  <2>1. l \in Seq(Byte) /\ r \in Seq(Byte)
    BY <1>1
  <2> HIDE DEF l, r
  <2>2. p \o (l \o r) = (p \o l) \o r
    <3> DEFINE a == p \o (l \o r)
               z == (p \o l) \o r
    <3>1. /\ a \in Seq(Byte) /\ Len(a) = Len(p) + Len(l) + Len(r)
          /\ z \in Seq(Byte) /\ Len(z) = Len(p) + Len(l) + Len(r)
      BY <2>1
    <3>2. \A k \in 1 .. Len(p) + Len(l) + Len(r) : a[k] = z[k]
      BY <2>1
    <3> HIDE DEF a, z
    <3>3. a = z
      BY <3>1, <3>2, SeqEqual
    <3> QED
      BY <3>3 DEF a, z
  <2> QED
    BY <2>2 DEF l, r
<1>7. ASSUME NEW b \in Byte PROVE Append(p \o q, b) = p \o Append(q, b)
  <2> DEFINE a == Append(p \o q, b)
             z == p \o Append(q, b)
  <2>1. /\ a \in Seq(Byte) /\ z \in Seq(Byte)
        /\ Len(a) = Len(p) + Len(q) + 1 /\ Len(z) = Len(p) + Len(q) + 1
    OBVIOUS
  <2>2. \A k \in 1 .. Len(p) + Len(q) + 1 : a[k] = z[k]
    OBVIOUS
  <2> HIDE DEF a, z
  <2>3. a = z
    BY <2>1, <2>2, SeqEqual
  <2> QED
    BY <2>3 DEF a, z
<1> QED
  BY <1>2, <1>3, <1>4, <1>5, <1>6, <1>7
LEMMA InitKeepInv == Init => KeepInv
<1> SUFFICES ASSUME Init PROVE KeepInv
  OBVIOUS
<1>1. \A c \in Clients : Written(c) = << >>
  BY DEF Init, Written
<1> QED
  BY <1>1 DEF Init, KeepInv

LEMMA NextKeepInv ==
  ASSUME "fcntl" \notin Faults, "partial" \notin Faults
  PROVE  IInv /\ OneSlot /\ TableInv /\ KeepInv /\ [Next]_vars => KeepInv'
<1> SUFFICES ASSUME IInv, OneSlot, TableInv, KeepInv, [Next]_vars PROVE KeepInv'
  OBVIOUS
<1>1. /\ \A c \in Clients : /\ echo[c] \in Seq(Byte) /\ inbox[c] \in Seq(Byte)
                            /\ sent[c] \in Nat /\ sent[c] =< MaxBytes
      /\ \A s \in Index : buffer[s] \in Seq(Byte)
      /\ \A s \in Index : conn[s] # None => conn[s] \in Clients
      /\ \A s \in Index : Held(s) \in Seq(Byte)
  BY DEF IInv, TypeOK, Held
<1>2. ASSUME NEW c \in Clients, Connect(c) \/ Leave(c) PROVE KeepInv'
  <2>1. UNCHANGED <<callback, buffer, conn, sent, inbox, echo>>
    BY <1>2 DEF Connect, Leave, table
  <2>2. \A d \in Clients : Written(d)' = Written(d)
    BY <2>1 DEF Written
  <2>3. \A d \in Clients : (phase[d] = "new" \/ d \in backlog)' => phase[d] = "new" \/ d \in backlog
    BY <1>2 DEF Connect, Leave, IInv, TypeOK
  <2>4. \A s \in Index : Held(s)' = Held(s)
    BY <2>1 DEF Held
  <2> QED
    BY <1>1, <2>1, <2>2, <2>3, <2>4 DEF KeepInv
<1>3. ASSUME NEW c \in Clients, Send(c) PROVE KeepInv'
  <2> DEFINE b == <<c, sent[c] + 1>>
  <2>1. /\ UNCHANGED <<callback, buffer, conn, echo, phase, backlog>>
        /\ sent'[c] = sent[c] + 1 /\ inbox'[c] = Append(inbox[c], b)
        /\ \A d \in Clients \ {c} : sent'[d] = sent[d] /\ inbox'[d] = inbox[d]
        /\ sent[c] < MaxBytes /\ phase[c] # "new"
    BY <1>3 DEF Send, table, IInv, TypeOK
  <2>2. b \in Byte
    BY <1>1, <2>1 DEF Byte
  <2>3. Written(c)' = Append(Written(c), b)
    BY <1>1, <2>1, WrittenNext DEF Written
  <2>4. \A d \in Clients \ {c} : Written(d)' = Written(d)
    BY <2>1 DEF Written
  <2> HIDE DEF b
  <2>5. \A s \in Index : Held(s)' = Held(s)
    BY <2>1 DEF Held
  <2>6. ASSUME NEW s \in Index, conn[s] = c
        PROVE  echo[c] \o Held(s) \o Append(inbox[c], b) = Append(Written(c), b)
    <3>1. echo[c] \o Held(s) \o inbox[c] = Written(c)
      BY <2>6 DEF KeepInv
    <3>2. echo[c] \o Held(s) \in Seq(Byte) /\ inbox[c] \in Seq(Byte)
      BY <1>1, ConcatProperties
    <3>3. ASSUME NEW p \in Seq(Byte) PROVE Append(p \o inbox[c], b) = p \o Append(inbox[c], b)
      <4>1. 0 \in 0 .. Len(inbox[c]) /\ inbox[c] \in Seq(Byte)
        BY <1>1
      <4> QED
        BY <2>2, <4>1, Regroup, Zenon
    <3> QED
      BY <3>1, <3>2, <3>3
  <2>7. \A s \in Index : callback'[s] = "send" => s < MAX_EPOLL_EVENTS
    BY <2>1 DEF KeepInv
  <2>8. ASSUME NEW s \in Index, conn'[s] # None
        PROVE  echo'[conn'[s]] \o Held(s)' \o inbox'[conn'[s]] = Written(conn[s])'
    <3>1. CASE conn[s] = c
      BY <2>1, <2>3, <2>5, <2>6, <3>1
    <3>2. CASE conn[s] # c
      BY <1>1, <2>1, <2>4, <2>5, <2>8, <3>2 DEF KeepInv
    <3> QED
      BY <3>1, <3>2
  <2>9. ASSUME NEW d \in Clients, phase'[d] = "new" \/ d \in backlog'
        PROVE  echo'[d] = << >> /\ inbox'[d] = Written(d)'
    BY <2>1, <2>3, <2>4, <2>9 DEF KeepInv
  <2> QED
    BY <2>1, <2>7, <2>8, <2>9 DEF KeepInv
<1>4. ASSUME NEW c \in backlog, NEW s \in ClientFds, Accepts(c, s) PROVE KeepInv'
  <2>1. s \in Index \ {Listener} /\ c \in Clients /\ UNCHANGED <<phase, sent, inbox, echo>>
    BY <1>4, IndexFacts DEF Accepts, IInv, TypeOK
  <2>2. /\ conn'[s] = c /\ \A r \in Index \ {s} : conn'[r] = conn[r]
        /\ backlog' = backlog \ {c} /\ conn[s] = None
    BY <1>4, <2>1 DEF Accepts, IInv, TypeOK
  <2>3. /\ \A r \in Index \ {s} : callback'[r] = callback[r] /\ buffer'[r] = buffer[r]
        /\ callback'[s] # "send"
    <3>1. CASE EventSetAdd(s, "EPOLLIN", "recv", << >>)
      BY <2>1, <3>1, ArmFields
    <3>2. CASE /\ \A i \in ClientSlots : status[i] = 1
               /\ UNCHANGED <<status, events, callback, buffer, interest>>
      <4>1. status[s] # 1
        BY <2>1, <2>2 DEF IInv, SlotsWired
      <4>2. s \in Nat /\ s >= FirstFd
        BY DEF ClientFds, FirstFd
      <4>3. ~(s < MAX_EPOLL_EVENTS)
        BY <3>2, <4>1, <4>2 DEF ClientSlots, FirstFd
      <4> QED
        BY <2>1, <3>2, <4>3 DEF KeepInv
    <3> QED
      BY <1>4, <3>1, <3>2 DEF Accepts
  <2>4. \A d \in Clients : Written(d)' = Written(d)
    BY <2>1 DEF Written
  <2>5. Held(s)' = << >> /\ \A r \in Index \ {s} : Held(r)' = Held(r)
    BY <2>1, <2>3 DEF Held
  <2>6. echo[c] \o << >> \o inbox[c] = Written(c)
    <3>1. echo[c] = << >> /\ inbox[c] = Written(c)
      BY <2>1 DEF KeepInv
    <3> QED
      BY <1>1, <2>1, <3>1, ConcatEmptySeq
  <2>7. ASSUME NEW r \in Index, conn'[r] # None
        PROVE  echo'[conn'[r]] \o Held(r)' \o inbox'[conn'[r]] = Written(conn[r])'
    <3>1. CASE r = s
      BY <2>1, <2>2, <2>4, <2>5, <2>6, <3>1
    <3>2. CASE r # s
      <4>1. conn'[r] = conn[r] /\ conn[r] \in Clients /\ conn[r] # None
        BY <1>1, <2>2, <2>7, <3>2
      <4> QED
        BY <2>1, <2>4, <2>5, <3>2, <4>1 DEF KeepInv
    <3> QED
      BY <3>1, <3>2
  <2>8. \A r \in Index : callback'[r] = "send" => r < MAX_EPOLL_EVENTS
    BY <2>3 DEF KeepInv
  <2>9. ASSUME NEW d \in Clients, phase'[d] = "new" \/ d \in backlog'
        PROVE  echo'[d] = << >> /\ inbox'[d] = Written(d)'
    BY <2>1, <2>2, <2>4, <2>9 DEF KeepInv
  <2> QED
    BY <2>7, <2>8, <2>9 DEF KeepInv
<1>5. ASSUME NEW s \in Armed, NEW n \in 1 .. Len(inbox[conn[s]]), Reads(s, n) PROVE KeepInv'
  <2> DEFINE c == conn[s]
             l == SubSeq(inbox[c], 1, n)
             r == SubSeq(inbox[c], n + 1, Len(inbox[c]))
  <2>1. /\ s \in Index \ {Listener} /\ c \in Clients /\ n \in 0 .. Len(inbox[c])
        /\ status[s] = 1 /\ c # None /\ callback[s] = "recv"
    BY <1>1, <1>5 DEF Armed, Reads
  <2>2. /\ UNCHANGED <<conn, sent, echo, phase, backlog>>
        /\ inbox'[c] = r
        /\ \A d \in Clients \ {c} : inbox'[d] = inbox[d]
    BY <1>5, <2>1 DEF Reads, IInv, TypeOK
  <2>3. EventSetAdd(s, "EPOLLOUT", "send", l)
    BY <1>5 DEF Reads
  <2>4. echo[c] \o l \o r = echo[c] \o Held(s) \o inbox[c]
    <3>1. Held(s) = << >>
      BY <2>1 DEF Held
    <3>2. echo[c] \in Seq(Byte) /\ inbox[c] \in Seq(Byte) /\ n \in 0 .. Len(inbox[c])
      BY <1>1, <2>1
    <3> HIDE DEF c
    <3>3. (echo[c] \o << >>) \o inbox[c] = (echo[c] \o l) \o r
      BY <3>2, Regroup, ZenonT(40)
    <3> QED
      BY <3>1, <3>3
  <2> HIDE DEF l, r
  <2>5. /\ callback'[s] = "send" /\ buffer'[s] = l
        /\ \A q \in Index \ {s} : callback'[q] = callback[q] /\ buffer'[q] = buffer[q]
    BY <2>1, <2>3, ArmFields
  <2>6. Held(s)' = l /\ \A q \in Index \ {s} : Held(q)' = Held(q)
    BY <2>1, <2>5 DEF Held
  <2>7. \A d \in Clients : Written(d)' = Written(d)
    BY <2>2 DEF Written
  <2>8. ASSUME NEW q \in Index, conn'[q] # None
        PROVE  echo'[conn'[q]] \o Held(q)' \o inbox'[conn'[q]] = Written(conn[q])'
    <3>1. CASE q = s
      BY <2>1, <2>2, <2>4, <2>6, <2>7, <3>1 DEF KeepInv
    <3>2. CASE q # s
      <4>1. conn[q] # c /\ conn[q] \in Clients
        BY <1>1, <2>1, <2>2, <2>8, <3>2 DEF OneSlot
      <4> HIDE DEF c
      <4>2. echo[conn[q]] \o Held(q) \o inbox[conn[q]] = Written(conn[q])
        BY <2>2, <2>8 DEF KeepInv
      <4> QED
        BY <2>2, <2>6, <2>7, <3>2, <4>1, <4>2
    <3> QED
      BY <3>1, <3>2
  <2>9. \A q \in Index : callback'[q] = "send" => q < MAX_EPOLL_EVENTS
    BY <2>1, <2>5 DEF KeepInv, TableInv
  <2>10. ASSUME NEW d \in Clients, phase'[d] = "new" \/ d \in backlog'
         PROVE  echo'[d] = << >> /\ inbox'[d] = Written(d)'
    <3>1. d # c
      BY <2>1, <2>2, <2>10 DEF OneSlot
    <3> HIDE DEF c
    <3> QED
      BY <2>2, <2>7, <2>10, <3>1 DEF KeepInv
  <2> QED
    BY <2>8, <2>9, <2>10 DEF KeepInv
<1>6. ASSUME NEW s \in Armed, NEW n \in 1 .. Len(buffer[s]), Echoes(s, n) PROVE KeepInv'
  <2> DEFINE c == conn[s]
             b == SubSeq(buffer[s], 1, n)
  <2>1. /\ s \in Index \ {Listener} /\ c \in Clients /\ c # None
        /\ n = Len(buffer[s]) /\ callback[s] = "send"
    BY <1>1, <1>6 DEF Armed, Echoes
  <2>2. /\ UNCHANGED <<conn, sent, inbox, phase, backlog>>
        /\ echo'[c] = echo[c] \o b
        /\ \A d \in Clients \ {c} : echo'[d] = echo[d]
    BY <1>6, <2>1 DEF Echoes, IInv, TypeOK
  <2>3. EventSetAdd(s, "EPOLLIN", "recv", << >>)
    BY <1>6 DEF Echoes
  <2>4. echo[c] \o b \o << >> \o inbox[c] = echo[c] \o Held(s) \o inbox[c]
    <3>1. Held(s) = buffer[s]
      BY <2>1 DEF Held
    <3>2. \A q \in Seq(Byte) : ((echo[c] \o SubSeq(buffer[s], 1, Len(buffer[s]))) \o << >>) \o q
                                  = (echo[c] \o buffer[s]) \o q
      <4>1. 0 \in 0 .. Len(buffer[s]) /\ buffer[s] \in Seq(Byte) /\ echo[c] \in Seq(Byte)
        BY <1>1, <2>1
      <4> HIDE DEF c
      <4> QED
        BY <4>1, Regroup
    <3>3. inbox[c] \in Seq(Byte)
      BY <1>1, <2>1
    <3> HIDE DEF c
    <3> QED
      BY <2>1, <3>1, <3>2, <3>3
  <2> HIDE DEF b
  <2>5. /\ callback'[s] = "recv"
        /\ \A q \in Index \ {s} : callback'[q] = callback[q] /\ buffer'[q] = buffer[q]
    BY <2>1, <2>3, ArmFields
  <2>6. Held(s)' = << >> /\ \A q \in Index \ {s} : Held(q)' = Held(q)
    BY <2>1, <2>5 DEF Held
  <2>7. \A d \in Clients : Written(d)' = Written(d)
    BY <2>2 DEF Written
  <2>8. ASSUME NEW q \in Index, conn'[q] # None
        PROVE  echo'[conn'[q]] \o Held(q)' \o inbox'[conn'[q]] = Written(conn[q])'
    <3>1. CASE q = s
      BY <2>1, <2>2, <2>4, <2>6, <2>7, <3>1 DEF KeepInv
    <3>2. CASE q # s
      <4>1. conn[q] # c /\ conn[q] \in Clients
        BY <1>1, <2>1, <2>2, <2>8, <3>2 DEF OneSlot
      <4> HIDE DEF c
      <4>2. echo[conn[q]] \o Held(q) \o inbox[conn[q]] = Written(conn[q])
        BY <2>2, <2>8 DEF KeepInv
      <4> QED
        BY <2>2, <2>6, <2>7, <3>2, <4>1, <4>2
    <3> QED
      BY <3>1, <3>2
  <2>9. \A q \in Index : callback'[q] = "send" => q < MAX_EPOLL_EVENTS
    BY <2>1, <2>5 DEF KeepInv
  <2>10. ASSUME NEW d \in Clients, phase'[d] = "new" \/ d \in backlog'
         PROVE  echo'[d] = << >> /\ inbox'[d] = Written(d)'
    <3>1. d # c
      BY <2>1, <2>2, <2>10 DEF OneSlot
    <3> HIDE DEF c
    <3> QED
      BY <2>2, <2>7, <2>10, <3>1 DEF KeepInv
  <2> QED
    BY <2>8, <2>9, <2>10 DEF KeepInv
<1>7. ASSUME NEW s \in Armed, Closes(s) PROVE KeepInv'
  <2>1. /\ UNCHANGED <<callback, buffer, phase, backlog, sent, inbox, echo>>
        /\ conn'[s] = None
        /\ \A r \in Index \ {s} : conn'[r] = conn[r]
    BY <1>7 DEF Armed, Closes, EventDelClose, IInv, TypeOK
  <2>2. \A d \in Clients : Written(d)' = Written(d)
    BY <2>1 DEF Written
  <2>3. \A r \in Index : Held(r)' = Held(r)
    BY <2>1 DEF Held
  <2>4. ASSUME NEW r \in Index, conn'[r] # None
        PROVE  echo'[conn'[r]] \o Held(r)' \o inbox'[conn'[r]] = Written(conn[r])'
    <3>1. conn'[r] = conn[r] /\ conn[r] \in Clients /\ conn[r] # None
      BY <1>1, <2>1, <2>4
    <3> QED
      BY <2>1, <2>2, <2>3, <3>1 DEF KeepInv
  <2> QED
    BY <2>1, <2>2, <2>4 DEF KeepInv
<1>8. CASE Quiet
  BY <1>8 DEF Quiet, KeepInv, Held, Written
<1> QED
  BY <1>2, <1>3, <1>4, <1>5, <1>6, <1>7, <1>8, StepCases

(* What a client wrote has come back, or is in the buffer of its event, or *)
(* is still in its socket, in this order and without a gap: no byte is     *)
(* lost between recv_callback and send_callback (reactor.c:432-505).       *)
THEOREM EchoComplete ==
  ASSUME "fcntl" \notin Faults, "partial" \notin Faults
  PROVE  Spec => []EchoConservation
<1>1. IInv /\ OneSlot /\ KeepInv => EchoConservation
  <2> SUFFICES ASSUME IInv, OneSlot, KeepInv, NEW c \in Clients, NEW s \in Index, conn[s] = c
               PROVE  echo[c] \o Pending(c) \o inbox[c] = Written(c)
    BY DEF EchoConservation
  <2>1. \A r \in Index : conn[r] = c => r = s
    BY DEF OneSlot
  <2>2. Pending(c) = Held(s)
    <3>1. CASE callback[s] = "send"
      <4>1. {r \in Index : conn[r] = c /\ callback[r] = "send"} = {s}
        BY <2>1, <3>1
      <4> QED
        BY <3>1, <4>1 DEF Pending, Held
    <3>2. CASE callback[s] # "send"
      <4>1. {r \in Index : conn[r] = c /\ callback[r] = "send"} = {}
        BY <2>1, <3>2
      <4> QED
        BY <3>2, <4>1 DEF Pending, Held
    <3> QED
      BY <3>1, <3>2
  <2>3. echo[conn[s]] \o Held(s) \o inbox[conn[s]] = Written(conn[s])
    BY DEF KeepInv
  <2> QED
    BY <2>2, <2>3
<1>2. Init => TableInv /\ OneSlot /\ KeepInv
  BY InitTableInv, InitOrderInv, InitKeepInv
<1>3. IInv /\ TableInv /\ [Next]_vars => TableInv'
  BY NextTableInv
<1>4. IInv /\ OneSlot /\ [Next]_vars => OneSlot'
  BY NextOneSlot
<1>5. IInv /\ OneSlot /\ TableInv /\ KeepInv /\ [Next]_vars => KeepInv'
  BY NextKeepInv
<1> QED
  BY <1>1, <1>2, <1>3, <1>4, <1>5, Invariant, PTL DEF Spec
=============================================================================
