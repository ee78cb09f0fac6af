------------------------------ MODULE MuduoProofs ------------------------------
(***************************************************************************)
(* Proofs about EPollPoller for any number of channels and descriptors,    *)
(* any initial size of events_ and any order of calls; about the sudoku    *)
(* servers for any requests, limits and marks; and about the small         *)
(* examples for any sizes.                                                 *)
(***************************************************************************)
EXTENDS MuduoPoller, SudokuServer, MuduoExamples, SequenceTheorems, FiniteSetTheorems, TLAPS

Events == SUBSET {"in", "out"}

PollerTypes ==
  /\ chan \in [Channels -> [fd : Fds \cup {NoFd}, events : Events,
                            index : {"new", "added", "deleted"}]]
  /\ channels \in [Fds -> Channels \cup {NoChannel}]
  /\ epset \in [Fds -> [ptr : Channels \cup {NoChannel}, events : Events]]
  /\ fatal = FALSE

\* Two channels never have the same descriptor, and a channel that the
\* poller knows has one.
OwnFd ==
  /\ \A c, d \in Channels : chan[c].fd = chan[d].fd /\ chan[c].fd # NoFd => c = d
  /\ \A c \in Channels : chan[c].index # "new" => chan[c].fd \in Fds

\* An entry of epoll belongs to a channel.
EntryOwned == \A f \in Fds : epset[f] # Absent => epset[f].ptr \in Channels

PollerInv == PollerTypes /\ OwnFd /\ EntryOwned /\ IndexTells

LEMMA InitPollerInv == PollerInit => PollerInv
<1> SUFFICES ASSUME PollerInit PROVE PollerInv
  OBVIOUS
<1>1. PollerTypes
  BY DEF PollerInit, PollerTypes, Events, Absent
<1>2. OwnFd /\ EntryOwned
  BY DEF PollerInit, OwnFd, EntryOwned
<1>3. IndexTells
  BY DEF PollerInit, IndexTells
<1> QED
  BY <1>1, <1>2, <1>3 DEF PollerInv

(* A descriptor without a channel in the map is not in epoll, and the one  *)
(* of a new channel has none.                                              *)
LEMMA FreshFd ==
  ASSUME PollerInv, NEW c \in Channels, chan[c].fd \in Fds
  PROVE  /\ chan[c].index = "new" => channels[chan[c].fd] = NoChannel
         /\ chan[c].index # "new" => channels[chan[c].fd] = c
         /\ chan[c].index # "added" => epset[chan[c].fd] = Absent
         /\ chan[c].index = "added" =>
              epset[chan[c].fd] = [ptr |-> c, events |-> chan[c].events]
<1> DEFINE f == chan[c].fd
<1>1. f \in Fds /\ f # NoFd
  BY FdsAssumption
<1>2. chan[c].index = "new" => channels[f] = NoChannel
  <2> SUFFICES ASSUME chan[c].index = "new", channels[f] # NoChannel PROVE FALSE
    OBVIOUS
  <2>1. channels[f] \in Channels /\ chan[channels[f]].fd = f /\ chan[channels[f]].index # "new"
    BY <1>1 DEF PollerInv, PollerTypes, IndexTells
  <2> QED
    BY <1>1, <2>1 DEF PollerInv, OwnFd
<1>3. chan[c].index # "added" => epset[f] = Absent
  <2> SUFFICES ASSUME chan[c].index # "added", epset[f] # Absent PROVE FALSE
    OBVIOUS
  <2>1. /\ channels[f] = epset[f].ptr /\ chan[channels[f]].index = "added"
        /\ channels[f] \in Channels
    BY <1>1 DEF PollerInv, IndexTells, EntryOwned
  <2>2. chan[channels[f]].fd = f
    BY <1>1, <2>1, FdsAssumption DEF PollerInv, IndexTells
  <2> QED
    BY <1>1, <2>1, <2>2 DEF PollerInv, OwnFd
<1> QED
  BY <1>2, <1>3 DEF PollerInv, IndexTells

(* A step about one channel c and its descriptor f, described by what it   *)
(* leaves there.                                                           *)
LEMMA OneChannel ==
  ASSUME PollerInv, NEW c \in Channels, NEW f \in Fds, NEW k,
         \A d \in Channels \ {c} : chan[d].fd # f,
         k \in [fd : {f, NoFd}, events : Events, index : {"new", "added", "deleted"}],
         chan[c].fd \in {f, NoFd},
         chan' = [chan EXCEPT ![c] = k], fatal' = FALSE,
         channels' \in [Fds -> Channels \cup {NoChannel}],
         epset' \in [Fds -> [ptr : Channels \cup {NoChannel}, events : Events]],
         \A h \in Fds \ {f} : channels'[h] = channels[h] /\ epset'[h] = epset[h],
         channels'[f] = IF k.index = "new" THEN NoChannel ELSE c,
         epset'[f] = IF k.index = "added" THEN [ptr |-> c, events |-> k.events] ELSE Absent,
         k.index # "new" => k.fd = f
  PROVE  PollerInv'
<1>1. chan'[c] = k /\ \A d \in Channels \ {c} : chan'[d] = chan[d]
  BY DEF PollerInv, PollerTypes
<1>2. PollerTypes'
  <2>1. k \in [fd : Fds \cup {NoFd}, events : Events, index : {"new", "added", "deleted"}]
    OBVIOUS
  <2> QED
    BY <2>1 DEF PollerInv, PollerTypes
<1>3. OwnFd'
  BY <1>1, FdsAssumption DEF PollerInv, OwnFd
<1>4. EntryOwned'
  BY FdsAssumption DEF PollerInv, EntryOwned, Absent
<1>5. c # NoChannel /\ f # NoFd
  BY FdsAssumption
<1>6. ASSUME NEW d \in Channels
      PROVE  /\ chan'[d].index # "new" => channels'[chan'[d].fd] = d
             /\ chan'[d].index = "added" =>
                  epset'[chan'[d].fd] = [ptr |-> d, events |-> chan'[d].events]
  <2>1. CASE d = c
    BY <1>1, <2>1
  <2>2. CASE d # c
    <3>1. chan'[d] = chan[d] /\ chan[d].fd # f
      BY <1>1, <2>2
    <3>2. chan[d].index # "new" => chan[d].fd \in Fds \ {f}
      BY <3>1 DEF PollerInv, OwnFd
    <3> QED
      BY <3>1, <3>2 DEF PollerInv, IndexTells
  <2> QED
    BY <2>1, <2>2
<1>7. ASSUME NEW h \in Fds
      PROVE  /\ channels'[h] # NoChannel =>
                  chan'[channels'[h]].fd = h /\ chan'[channels'[h]].index # "new"
             /\ epset'[h] # Absent =>
                  channels'[h] = epset'[h].ptr /\ chan'[channels'[h]].index = "added"
  <2>1. CASE h = f
    BY <1>1, <1>5, <2>1
  <2>2. CASE h # f
    <3>1. channels'[h] = channels[h] /\ epset'[h] = epset[h]
      BY <2>2
    <3>2. channels[h] # NoChannel => channels[h] \in Channels \ {c}
      <4>1. channels[h] \in Channels \cup {NoChannel}
        BY DEF PollerInv, PollerTypes
      <4>2. channels[h] # NoChannel => chan[channels[h]].fd = h
        BY DEF PollerInv, IndexTells
      <4>3. h # NoFd
        BY FdsAssumption
      <4> QED
        BY <2>2, <4>1, <4>2, <4>3
    <3>3. epset[h] # Absent => channels[h] # NoChannel
      BY FdsAssumption DEF PollerInv, IndexTells, EntryOwned
    <3> QED
      BY <1>1, <3>1, <3>2, <3>3 DEF PollerInv, IndexTells
  <2> QED
    BY <2>1, <2>2
<1>8. IndexTells'
  BY <1>6, <1>7 DEF IndexTells
<1> QED
  BY <1>2, <1>3, <1>4, <1>8 DEF PollerInv

LEMMA OpenInv ==
  ASSUME PollerInv, NEW c \in Channels, NEW f \in Fds, Open(c, f)
  PROVE  PollerInv'
<1> DEFINE k == [chan[c] EXCEPT !.fd = f]
<1>1. /\ chan[c] \in [fd : Fds \cup {NoFd}, events : Events, index : {"new", "added", "deleted"}]
      /\ chan[c].fd = NoFd /\ \A d \in Channels : chan[d].fd # f
  BY DEF PollerInv, PollerTypes, Open
<1>2. chan[c].index = "new"
  BY <1>1, FdsAssumption DEF PollerInv, OwnFd
<1>3. /\ k \in [fd : {f, NoFd}, events : Events, index : {"new", "added", "deleted"}]
      /\ k.index = "new" /\ k.fd = f
  BY <1>1, <1>2
<1>4. chan' = [chan EXCEPT ![c] = k] /\ UNCHANGED <<channels, epset>> /\ fatal' = FALSE
  BY DEF Open, PollerInv, PollerTypes
<1>5. channels[f] = NoChannel
  BY <1>1 DEF PollerInv, PollerTypes, IndexTells
<1>6. epset[f] = Absent
  BY <1>5, FdsAssumption DEF PollerInv, IndexTells, EntryOwned
<1>7. /\ channels' \in [Fds -> Channels \cup {NoChannel}]
      /\ epset' \in [Fds -> [ptr : Channels \cup {NoChannel}, events : Events]]
  BY <1>4 DEF PollerInv, PollerTypes
<1> HIDE DEF k
<1> QED
  BY <1>1, <1>3, <1>4, <1>5, <1>6, <1>7, OneChannel

LEMMA UpdateInv ==
  ASSUME PollerInv, NEW c \in Channels, NEW events \in Events, Update(c, events)
  PROVE  PollerInv'
<1> DEFINE f == chan[c].fd
           index == chan[c].index
           op == IF index # "added" THEN "ADD" ELSE IF events = {} THEN "DEL" ELSE "MOD"
           i == IF op = "DEL" THEN "deleted" ELSE "added"
           k == [chan[c] EXCEPT !.events = events, !.index = i]
           v == IF op = "DEL" THEN Absent ELSE [ptr |-> c, events |-> events]
<1>1. /\ chan[c] \in [fd : Fds \cup {NoFd}, events : Events, index : {"new", "added", "deleted"}]
      /\ f \in Fds /\ ~fatal
  BY DEF PollerInv, PollerTypes, Update
<1>2. \A d \in Channels \ {c} : chan[d].fd # f
  BY <1>1, FdsAssumption DEF PollerInv, OwnFd
<1>3. /\ index = "new" => channels[f] = NoChannel
      /\ index # "new" => channels[f] = c
      /\ index # "added" => epset[f] = Absent
      /\ index = "added" => epset[f] = [ptr |-> c, events |-> chan[c].events]
  BY <1>1, FreshFd
<1>4. epset[f] # Absent <=> index = "added"
  BY <1>3, FdsAssumption DEF Absent
<1>5. /\ Ctl(op, c, events).set = [epset EXCEPT ![f] = v]
      /\ Ctl(op, c, events).fatal = FALSE
  BY <1>4 DEF Ctl
<1>6. /\ channels' = [channels EXCEPT ![f] = c]
      /\ epset' = [epset EXCEPT ![f] = v]
      /\ fatal' = FALSE
  BY <1>3, <1>5 DEF Update, UpdateChannel
<1>7. chan' = [chan EXCEPT ![c] = k]
  <2>1. chan' = [chan EXCEPT ![c].events = events, ![c].index = i]
    BY DEF Update, UpdateChannel
  <2> QED
    BY <2>1 DEF PollerInv, PollerTypes
<1>8. /\ k \in [fd : {f, NoFd}, events : Events, index : {"new", "added", "deleted"}]
      /\ k.index = i /\ k.fd = f /\ k.events = events
  BY <1>1
<1>9. v \in [ptr : Channels \cup {NoChannel}, events : Events]
  BY DEF Absent, Events
<1>10. v = IF i = "added" THEN [ptr |-> c, events |-> events] ELSE Absent
  OBVIOUS
<1>11. i \in {"added", "deleted"}
  OBVIOUS
<1> HIDE DEF k, v, i, op
<1>12. /\ channels' \in [Fds -> Channels \cup {NoChannel}] /\ channels'[f] = c
       /\ epset' \in [Fds -> [ptr : Channels \cup {NoChannel}, events : Events]] /\ epset'[f] = v
       /\ \A h \in Fds \ {f} : channels'[h] = channels[h] /\ epset'[h] = epset[h]
  BY <1>1, <1>6, <1>9 DEF PollerInv, PollerTypes
<1> QED
  BY <1>1, <1>2, <1>6, <1>7, <1>8, <1>10, <1>11, <1>12, OneChannel

LEMMA DetachInv ==
  ASSUME PollerInv, NEW c \in Channels, Detach(c)
  PROVE  PollerInv'
<1> DEFINE f == chan[c].fd
           k == [chan[c] EXCEPT !.index = "new"]
<1>1. /\ chan[c] \in [fd : Fds \cup {NoFd}, events : Events, index : {"new", "added", "deleted"}]
      /\ f \in Fds /\ chan[c].index # "new"
  BY DEF PollerInv, PollerTypes, OwnFd, Detach
<1>2. \A d \in Channels \ {c} : chan[d].fd # f
  BY <1>1, FdsAssumption DEF PollerInv, OwnFd
<1>3. channels[f] = c /\ (chan[c].index # "added" => epset[f] = Absent)
  BY <1>1, FreshFd
<1>4. epset' = [epset EXCEPT ![f] = Absent]
  <2>1. CASE chan[c].index = "added"
    BY <2>1 DEF Detach, RemoveChannel, Ctl
  <2>2. CASE chan[c].index # "added"
    <3>1. epset' = epset
      BY <2>2 DEF Detach, RemoveChannel
    <3> QED
      BY <1>1, <1>3, <2>2, <3>1 DEF PollerInv, PollerTypes
  <2> QED
    BY <2>1, <2>2
<1>5. /\ channels' = [channels EXCEPT ![f] = NoChannel]
      /\ fatal' = FALSE /\ chan' = [chan EXCEPT ![c] = k]
  BY <1>3 DEF Detach, RemoveChannel
<1>6. /\ k \in [fd : {f, NoFd}, events : Events, index : {"new", "added", "deleted"}]
      /\ k.index = "new" /\ k.fd = f
  BY <1>1
<1>7. Absent \in [ptr : Channels \cup {NoChannel}, events : Events]
  BY DEF Absent, Events
<1> HIDE DEF k
<1>8. /\ channels' \in [Fds -> Channels \cup {NoChannel}] /\ channels'[f] = NoChannel
      /\ epset' \in [Fds -> [ptr : Channels \cup {NoChannel}, events : Events]]
      /\ epset'[f] = Absent
      /\ \A h \in Fds \ {f} : channels'[h] = channels[h] /\ epset'[h] = epset[h]
  BY <1>1, <1>4, <1>5, <1>7 DEF PollerInv, PollerTypes
<1> QED
  BY <1>1, <1>2, <1>5, <1>6, <1>8, OneChannel

LEMMA CloseInv ==
  ASSUME PollerInv, NEW c \in Channels, Close(c)
  PROVE  PollerInv'
<1> DEFINE f == chan[c].fd
           k == [chan[c] EXCEPT !.fd = NoFd]
<1>1. /\ chan[c] \in [fd : Fds \cup {NoFd}, events : Events, index : {"new", "added", "deleted"}]
      /\ f \in Fds /\ chan[c].index = "new"
  BY DEF PollerInv, PollerTypes, Close
<1>2. \A d \in Channels \ {c} : chan[d].fd # f
  BY <1>1, FdsAssumption DEF PollerInv, OwnFd
<1>3. channels[f] = NoChannel
  BY <1>1, FreshFd
<1>4. /\ epset' = [epset EXCEPT ![f] = Absent] /\ channels' = channels
      /\ fatal' = FALSE /\ chan' = [chan EXCEPT ![c] = k]
  BY DEF Close, PollerInv, PollerTypes
<1>5. /\ k \in [fd : {f, NoFd}, events : Events, index : {"new", "added", "deleted"}]
      /\ k.index = "new"
  BY <1>1
<1>6. Absent \in [ptr : Channels \cup {NoChannel}, events : Events]
  BY DEF Absent, Events
<1> HIDE DEF k
<1>7. /\ channels' \in [Fds -> Channels \cup {NoChannel}] /\ channels'[f] = NoChannel
      /\ epset' \in [Fds -> [ptr : Channels \cup {NoChannel}, events : Events]]
      /\ epset'[f] = Absent
      /\ \A h \in Fds \ {f} : channels'[h] = channels[h] /\ epset'[h] = epset[h]
  BY <1>1, <1>3, <1>4, <1>6 DEF PollerInv, PollerTypes
<1> QED
  BY <1>1, <1>2, <1>4, <1>5, <1>7, OneChannel

LEMMA PollInv ==
  ASSUME PollerInv, NEW ready \in SUBSET Fds, PollChannels(ready)
  PROVE  PollerInv'
<1>1. ASSUME NEW f \in ready PROVE channels[chan[epset[f].ptr].fd] = epset[f].ptr
  <2>1. f \in Fds /\ epset[f] # Absent
    BY DEF PollChannels
  <2>2. epset[f].ptr \in Channels /\ channels[f] = epset[f].ptr
    BY <2>1 DEF PollerInv, EntryOwned, IndexTells
  <2>3. chan[epset[f].ptr].fd = f
    BY <2>1, <2>2, FdsAssumption DEF PollerInv, IndexTells
  <2> QED
    BY <2>2, <2>3
<1>2. fatal' = FALSE /\ UNCHANGED <<chan, channels, epset>>
  BY <1>1 DEF PollChannels
<1> QED
  BY <1>2 DEF PollerInv, PollerTypes, OwnFd, EntryOwned, IndexTells

LEMMA NextPollerInv == PollerInv /\ [PollerNext]_pollerVars => PollerInv'
<1> SUFFICES ASSUME PollerInv, [PollerNext]_pollerVars PROVE PollerInv'
  OBVIOUS
<1>1. ASSUME NEW c \in Channels, NEW f \in Fds, Open(c, f) PROVE PollerInv'
  BY <1>1, OpenInv
<1>2. ASSUME NEW c \in Channels, NEW events \in SUBSET {"in", "out"}, Update(c, events)
      PROVE  PollerInv'
  BY <1>2, UpdateInv DEF Events
<1>3. ASSUME NEW c \in Channels, Detach(c) \/ Close(c) PROVE PollerInv'
  BY <1>3, DetachInv, CloseInv
<1>4. ASSUME NEW ready \in SUBSET Fds, PollChannels(ready) PROVE PollerInv'
  BY <1>4, PollInv
<1>5. CASE UNCHANGED pollerVars
  BY <1>5 DEF pollerVars, PollerInv, PollerTypes, OwnFd, EntryOwned, IndexTells
<1> QED
  BY <1>1, <1>2, <1>3, <1>4, <1>5 DEF PollerNext

(* The index of a channel, channels_ and the set inside epoll agree after  *)
(* any sequence of updateChannel, removeChannel, close and reuse of        *)
(* descriptors: no assertion of EPollPoller fails and no LOG_SYSFATAL is   *)
(* reached (EPollPoller.cc:97, 113-212).                                   *)
THEOREM PollerConsistent == PollerSpec => []PollerAgrees
<1>1. PollerInv => PollerAgrees
  BY DEF PollerInv, PollerTypes, PollerAgrees, NeverFatal
<1> QED
  BY <1>1, InitPollerInv, NextPollerInv, PTL DEF PollerSpec

----------------------------------------------------------------------------
(* The sudoku servers.  A request is in the queue T of the pool, with a    *)
(* thread w, in a functor of F or answered in A.                           *)

AnswerType == [req : Nat, what : {"result", "busy", "bad"}]
QuietFunctor == [op : {"mark"}, size : Nat] \cup [op : {"wrote"}]
FunctorType == [op : {"send"}, answer : AnswerType] \cup QuietFunctor
TcpType == [out : Nat, down : BOOLEAN, mark : {LowMark, HighMark}, notify : BOOLEAN, throttle : BOOLEAN]
StatType == [requests : Int, responses : Int, bad : Int, dropped : Int, other : Int, carried : Int, resets : Int]
StateType == [tcp : TcpType, functors : Seq(FunctorType), sent : Seq(AnswerType), stat : StatType, tasks : Seq(Nat)]
WorkType == [Workers -> [req : Nat, sent : BOOLEAN]]

\* Functor k of F is going to send the answer to a request.
IsSend(F, k) == F[k].op = "send"
ReqOf(F, k) == F[k].answer.req

\* Thread v solves a request.
Solves(w, v) == ~w[v].sent /\ w[v].req # 0

\* Only requests that were taken, n of them, are anywhere.
Within(T, F, A, w, n) ==
  /\ \A k \in 1 .. Len(T) : T[k] > 0 /\ T[k] =< n
  /\ \A k \in 1 .. Len(F) : IsSend(F, k) => ReqOf(F, k) > 0 /\ ReqOf(F, k) =< n /\ F[k].answer.what = "result"
  /\ \A k \in 1 .. Len(A) : A[k].req =< n
  /\ \A v \in Workers : w[v].req =< n /\ (w[v].sent => w[v].req # 0)

\* No request is at two places.
Apart(T, F, A, w) ==
  /\ \A j, k \in 1 .. Len(T) : T[j] = T[k] => j = k
  /\ \A j, k \in 1 .. Len(F) : IsSend(F, j) /\ IsSend(F, k) /\ ReqOf(F, j) = ReqOf(F, k) => j = k
  /\ \A j, k \in 1 .. Len(A) : A[j].req = A[k].req /\ A[j].req # 0 => j = k
  /\ \A u, v \in Workers : Solves(w, u) /\ Solves(w, v) /\ w[u].req = w[v].req => u = v
  /\ \A j \in 1 .. Len(T), k \in 1 .. Len(F) : IsSend(F, k) => T[j] # ReqOf(F, k)
  /\ \A j \in 1 .. Len(T), k \in 1 .. Len(A) : T[j] # A[k].req
  /\ \A j \in 1 .. Len(T), v \in Workers : Solves(w, v) => T[j] # w[v].req
  /\ \A j \in 1 .. Len(F), k \in 1 .. Len(A) : IsSend(F, j) => ReqOf(F, j) # A[k].req
  /\ \A j \in 1 .. Len(F), v \in Workers : IsSend(F, j) /\ Solves(w, v) => ReqOf(F, j) # w[v].req
  /\ \A j \in 1 .. Len(A), v \in Workers : Solves(w, v) => A[j].req # w[v].req

\* Request r is somewhere.
Somewhere(T, F, A, w, r) ==
  \/ \E k \in 1 .. Len(T) : T[k] = r
  \/ \E k \in 1 .. Len(F) : IsSend(F, k) /\ ReqOf(F, k) = r
  \/ \E k \in 1 .. Len(A) : A[k].req = r
  \/ \E v \in Workers : Solves(w, v) /\ w[v].req = r

\* Older requests are further on their way.
InTurn(T, F, A, w) ==
  /\ \A j, k \in 1 .. Len(T) : j < k => T[j] < T[k]
  /\ \A j, k \in 1 .. Len(F) : j < k /\ IsSend(F, j) /\ IsSend(F, k) => ReqOf(F, j) < ReqOf(F, k)
  /\ \A j, k \in 1 .. Len(A) : j < k /\ A[j].what = "result" /\ A[k].what = "result" => A[j].req < A[k].req
  /\ \A j \in 1 .. Len(T), k \in 1 .. Len(F) : IsSend(F, k) => ReqOf(F, k) < T[j]
  /\ \A j \in 1 .. Len(T), k \in 1 .. Len(A) : A[k].what = "result" => A[k].req < T[j]
  /\ \A j \in 1 .. Len(T), v \in Workers : Solves(w, v) => w[v].req < T[j]
  /\ \A j \in 1 .. Len(F), k \in 1 .. Len(A) : IsSend(F, j) /\ A[k].what = "result" => A[k].req < ReqOf(F, j)
  /\ \A j \in 1 .. Len(F), v \in Workers : IsSend(F, j) /\ Solves(w, v) => ReqOf(F, j) < w[v].req
  /\ \A j \in 1 .. Len(A), v \in Workers : A[j].what = "result" /\ Solves(w, v) => A[j].req < w[v].req

\* Without a pool nothing waits; with one thread only it has work.
PoolUsed(T, F, w) ==
  /\ Threads = 0 => T = << >> /\ \A k \in 1 .. Len(F) : ~IsSend(F, k)
  /\ \A v \in Workers : v > Threads => w[v].req = 0 /\ ~w[v].sent

\* The requests are where they should be.
Placed(T, F, A, w, n, down) ==
  /\ Within(T, F, A, w, n)
  /\ Apart(T, F, A, w)
  /\ ~down => \A r \in 1 .. n : Somewhere(T, F, A, w, r)
  /\ Threads =< 1 /\ ~Prod => InTurn(T, F, A, w)
  /\ PoolUsed(T, F, w)

Typed(T, F, A, w, n) ==
  T \in Seq(Nat) /\ F \in Seq(FunctorType) /\ A \in Seq(AnswerType) /\ w \in WorkType /\ n \in Nat

\* The invariant of one state s of the connection, with threads w, after n
\* requests were taken.
Good(s, w, n) ==
  /\ s \in StateType /\ w \in WorkType /\ n \in Nat
  /\ Placed(s.tasks, s.functors, s.sent, w, n, s.tcp.down)

\* t is s and one element more.
Grown(S, t, s, x) ==
  /\ t \in Seq(S) /\ Len(t) = Len(s) + 1 /\ Len(s) \in Nat
  /\ \A k \in 1 .. Len(s) : t[k] = s[k]
  /\ t[Len(s) + 1] = x

(* One element behind a sequence.                                          *)
LEMMA AppendGrows ==
  ASSUME NEW S, NEW s \in Seq(S), NEW x \in S
  PROVE  Grown(S, Append(s, x), s, x)
  BY DEF Grown

\* t is s without its first element x.
Shrunk(S, t, s, x) ==
  /\ t \in Seq(S) /\ Len(s) = Len(t) + 1 /\ Len(t) \in Nat
  /\ \A k \in 1 .. Len(t) : t[k] = s[k + 1]
  /\ x = s[1] /\ x \in S

(* The first element of a sequence is taken.                               *)
LEMMA TailShrinks ==
  ASSUME NEW S, NEW s \in Seq(S), s # << >>
  PROVE  Shrunk(S, Tail(s), s, Head(s))
  BY DEF Shrunk

\* What a send does to a state: it says the answer, unless the connection is
\* down, and it may queue a callback.
Said(t, s, a) ==
  /\ t \in StateType /\ t.tasks = s.tasks /\ t.stat = s.stat /\ t.tcp.down = s.tcp.down
  /\ (t.sent = s.sent /\ s.tcp.down) \/ Grown(AnswerType, t.sent, s.sent, a)
  /\ t.functors = s.functors \/ \E x \in QuietFunctor : Grown(FunctorType, t.functors, s.functors, x)

(* sendInLoop and send.                                                    *)
LEMMA SendSays ==
  ASSUME NEW s \in StateType, NEW a \in AnswerType, NEW t \in SendInLoop(s, a) \cup Send(s, a)
  PROVE  Said(t, s, a)
  <1>1. /\ s.tcp \in TcpType /\ s.functors \in Seq(FunctorType) /\ s.sent \in Seq(AnswerType)
        /\ s.tcp.out \in Nat /\ s.tcp.down \in BOOLEAN
    BY DEF StateType, TcpType
  <1>2. CASE t = s /\ s.tcp.down
    BY <1>2 DEF Said
  <1>3. ASSUME NEW x \in QuietFunctor, NEW F, F = s.functors \/ F = Append(s.functors, x)
        PROVE  /\ F \in Seq(FunctorType)
               /\ F = s.functors \/ Grown(FunctorType, F, s.functors, x)
    <2>1. x \in FunctorType
      BY DEF FunctorType
    <2>2. Grown(FunctorType, Append(s.functors, x), s.functors, x)
      BY <1>1, <2>1, AppendGrows
    <2> QED BY <1>1, <1>3, <2>2 DEF Grown
  <1>4. Grown(AnswerType, Append(s.sent, a), s.sent, a) /\ Append(s.sent, a) \in Seq(AnswerType)
    BY <1>1, AppendGrows DEF Grown
  <1>5. [op |-> "wrote"] \in QuietFunctor /\ [op |-> "mark", size |-> s.tcp.out + 1] \in QuietFunctor
    BY <1>1 DEF QuietFunctor
  <1> DEFINE spoken == [s EXCEPT !.sent = Append(@, a)]
             whole == [spoken EXCEPT !.functors = IF s.tcp.notify THEN Append(@, [op |-> "wrote"]) ELSE @]
             part == [spoken EXCEPT !.tcp.out = @ + 1,
                                  !.functors = IF Prod /\ s.tcp.out + 1 = s.tcp.mark
                                               THEN Append(@, [op |-> "mark", size |-> s.tcp.out + 1])
                                               ELSE @]
  <1>6. CASE t = whole
    <2>1. PICK F : F = IF s.tcp.notify THEN Append(s.functors, [op |-> "wrote"]) ELSE s.functors
      OBVIOUS
    <2>2. t = [s EXCEPT !.sent = Append(s.sent, a), !.functors = F]
      BY <1>6, <2>1 DEF StateType
    <2>3. /\ F \in Seq(FunctorType)
          /\ F = s.functors \/ \E x \in QuietFunctor : Grown(FunctorType, F, s.functors, x)
      BY <1>3, <1>5, <2>1
    <2> QED BY <1>4, <2>2, <2>3 DEF Said, StateType
  <1>7. CASE t = part
    <2>1. PICK F : F = IF Prod /\ s.tcp.out + 1 = s.tcp.mark
                       THEN Append(s.functors, [op |-> "mark", size |-> s.tcp.out + 1]) ELSE s.functors
      OBVIOUS
    <2>2. PICK c : c = [s.tcp EXCEPT !.out = @ + 1]
      OBVIOUS
    <2>3. c \in TcpType /\ c.down = s.tcp.down
      BY <1>1, <2>2 DEF TcpType
    <2>4. t = [s EXCEPT !.sent = Append(s.sent, a), !.tcp = c, !.functors = F]
      BY <1>7, <2>1, <2>2 DEF StateType
    <2>5. /\ F \in Seq(FunctorType)
          /\ F = s.functors \/ \E x \in QuietFunctor : Grown(FunctorType, F, s.functors, x)
      BY <1>3, <1>5, <2>1
    <2> QED BY <1>4, <2>3, <2>4, <2>5 DEF Said, StateType
  <1>8. (t = s /\ s.tcp.down) \/ t = whole \/ t = part
    BY DEF Send, SendInLoop
  <1> QED BY <1>2, <1>6, <1>7, <1>8

\* What the types say of the parts.
Parts(T, F, A, w, n) ==
  /\ Len(T) \in Nat /\ Len(F) \in Nat /\ Len(A) \in Nat /\ n \in Nat
  /\ \A k \in 1 .. Len(T) : T[k] \in Nat
  /\ \A k \in 1 .. Len(F) : IsSend(F, k) => ReqOf(F, k) \in Nat
  /\ \A k \in 1 .. Len(A) : A[k].req \in Nat
  /\ \A v \in Workers : w[v].req \in Nat /\ w[v].sent \in BOOLEAN

LEMMA TypedParts ==
  ASSUME NEW T, NEW F, NEW A, NEW w, NEW n, Typed(T, F, A, w, n)
  PROVE  Parts(T, F, A, w, n)
  <1>1. \A k \in 1 .. Len(F) : F[k] \in FunctorType
    BY DEF Typed
  <1>2. \A f \in FunctorType : f.op = "send" => f.answer.req \in Nat
    BY DEF FunctorType, QuietFunctor, AnswerType
  <1>3. \A k \in 1 .. Len(F) : IsSend(F, k) => ReqOf(F, k) \in Nat
    BY <1>1, <1>2 DEF IsSend, ReqOf
  <1>4. \A k \in 1 .. Len(A) : A[k].req \in Nat
    <2>1. \A k \in 1 .. Len(A) : A[k] \in AnswerType
      BY DEF Typed
    <2> QED BY <2>1 DEF AnswerType
  <1>5. \A v \in Workers : w[v].req \in Nat /\ w[v].sent \in BOOLEAN
    BY DEF Typed, WorkType
  <1> QED BY <1>3, <1>4, <1>5 DEF Typed, Parts

\* x is a callback, not a send.
Quiet(G, F, x) == x \in QuietFunctor /\ Grown(FunctorType, G, F, x)

(* A callback behind the functors changes no request's place.              *)
LEMMA QuietKeeps ==
  ASSUME NEW T, NEW F, NEW A, NEW w, NEW n, NEW down, NEW G, NEW x,
         Typed(T, F, A, w, n), Placed(T, F, A, w, n, down), Quiet(G, F, x)
  PROVE  Placed(T, G, A, w, n, down)
  <1>1. Parts(T, F, A, w, n)
    BY TypedParts
  <1>2. x.op # "send"
    BY DEF Quiet, QuietFunctor
  <1>3. Len(G) = Len(F) + 1 /\ Len(F) \in Nat
    BY DEF Quiet, Grown
  <1>4. \A k \in 1 .. Len(G) : IsSend(G, k) => k \in 1 .. Len(F) /\ IsSend(F, k) /\ ReqOf(G, k) = ReqOf(F, k) /\ G[k] = F[k]
    BY <1>2, <1>3 DEF Quiet, Grown, IsSend, ReqOf
  <1>5. \A k \in 1 .. Len(F) : IsSend(F, k) => k \in 1 .. Len(G) /\ IsSend(G, k) /\ ReqOf(G, k) = ReqOf(F, k)
    BY <1>2, <1>3 DEF Quiet, Grown, IsSend, ReqOf
  <1>6. Within(T, G, A, w, n)
    BY <1>4 DEF Placed, Within
  <1>7. Apart(T, G, A, w)
    BY <1>4 DEF Placed, Apart
  <1>8. ASSUME NEW r, Somewhere(T, F, A, w, r) PROVE Somewhere(T, G, A, w, r)
    BY <1>5, <1>8 DEF Somewhere
  <1>9. InTurn(T, F, A, w) => InTurn(T, G, A, w)
    BY <1>4 DEF InTurn
  <1>10. PoolUsed(T, G, w)
    BY <1>4 DEF Placed, PoolUsed
  <1> QED BY <1>6, <1>7, <1>8, <1>9, <1>10 DEF Placed
(* A refusal changes no request's place.                                   *)
LEMMA RefusalKeeps ==
  ASSUME NEW T, NEW F, NEW A, NEW w, NEW n, NEW down, NEW B, NEW a,
         Typed(T, F, A, w, n), Placed(T, F, A, w, n, down),
         Grown(AnswerType, B, A, a), a.req = 0, a.what = "bad"
  PROVE  Placed(T, F, B, w, n, down)
  <1>1. Parts(T, F, A, w, n)
    BY TypedParts
  <1>2. Len(B) = Len(A) + 1 /\ Len(A) \in Nat
    BY DEF Grown
  <1>3. \A k \in 1 .. Len(B) : \/ k \in 1 .. Len(A) /\ B[k] = A[k]
                               \/ k = Len(A) + 1 /\ B[k] = a
    BY <1>2 DEF Grown
  <1>4. \A k \in 1 .. Len(A) : k \in 1 .. Len(B) /\ B[k] = A[k]
    BY <1>2 DEF Grown
  <1>5. Within(T, F, B, w, n)
    <2>1. \A k \in 1 .. Len(A) : A[k].req =< n
      BY DEF Placed, Within
    <2>2. \A k \in 1 .. Len(B) : B[k].req =< n
      BY <1>1, <1>3, <2>1 DEF Parts
    <2> QED BY <2>2 DEF Placed, Within
  <1>6. Apart(T, F, B, w)
    <2>1. \A j, k \in 1 .. Len(B) : B[j].req = B[k].req /\ B[j].req # 0 => j = k
      BY <1>3 DEF Placed, Apart
    <2>2. \A j \in 1 .. Len(T), k \in 1 .. Len(B) : T[j] # B[k].req
      BY <1>1, <1>3 DEF Placed, Apart, Within, Parts
    <2>3. \A j \in 1 .. Len(F), k \in 1 .. Len(B) : IsSend(F, j) => ReqOf(F, j) # B[k].req
      BY <1>1, <1>3 DEF Placed, Apart, Within, Parts
    <2>4. \A j \in 1 .. Len(B), v \in Workers : Solves(w, v) => B[j].req # w[v].req
      BY <1>1, <1>3 DEF Placed, Apart, Solves
    <2> QED BY <2>1, <2>2, <2>3, <2>4 DEF Placed, Apart
  <1>7. ASSUME NEW r, Somewhere(T, F, A, w, r) PROVE Somewhere(T, F, B, w, r)
    BY <1>4, <1>7 DEF Somewhere
  <1>8. InTurn(T, F, A, w) => InTurn(T, F, B, w)
    <2> SUFFICES ASSUME InTurn(T, F, A, w) PROVE InTurn(T, F, B, w)
      OBVIOUS
    <2>1. \A k \in 1 .. Len(B) : B[k].what = "result" => k \in 1 .. Len(A) /\ B[k] = A[k]
      BY <1>3
    <2> QED BY <2>1 DEF InTurn
  <1> QED BY <1>5, <1>6, <1>7, <1>8 DEF Placed

\* Request r is nowhere.
Nowhere(T, F, A, w, r) ==
  /\ \A k \in 1 .. Len(T) : T[k] # r
  /\ \A k \in 1 .. Len(F) : IsSend(F, k) => ReqOf(F, k) # r
  /\ \A k \in 1 .. Len(A) : A[k].req # r
  /\ \A v \in Workers : w[v].req # r

(* The next request is a new one.                                          *)
LEMMA NextIsNowhere ==
  ASSUME NEW T, NEW F, NEW A, NEW w, NEW n, Typed(T, F, A, w, n), Within(T, F, A, w, n)
  PROVE  Nowhere(T, F, A, w, n + 1)
  <1>1. Parts(T, F, A, w, n)
    BY TypedParts
  <1> QED BY <1>1 DEF Within, Parts, Nowhere

(* A new request is answered at once, by prod or without a pool.           *)
LEMMA FreshAnswered ==
  ASSUME NEW T, NEW F, NEW A, NEW w, NEW n, NEW down, NEW B, NEW a,
         Typed(T, F, A, w, n), Placed(T, F, A, w, n, down), Threads \in Nat,
         Grown(AnswerType, B, A, a), a.req = n + 1, Prod \/ Threads = 0
  PROVE  Placed(T, F, B, w, n + 1, down)
  <1>1. Parts(T, F, A, w, n)
    BY TypedParts
  <1>0. Nowhere(T, F, A, w, n + 1)
    BY NextIsNowhere DEF Placed
  <1>2. Len(B) = Len(A) + 1 /\ Len(A) \in Nat
    BY DEF Grown
  <1>3. \A k \in 1 .. Len(B) : \/ k \in 1 .. Len(A) /\ B[k] = A[k]
                               \/ k = Len(A) + 1 /\ B[k] = a
    BY <1>2 DEF Grown
  <1>4. /\ \A k \in 1 .. Len(A) : k \in 1 .. Len(B) /\ B[k] = A[k]
        /\ Len(A) + 1 \in 1 .. Len(B) /\ B[Len(A) + 1] = a
    BY <1>2 DEF Grown
  <1>5. Within(T, F, B, w, n + 1)
    BY <1>1, <1>3 DEF Placed, Within, Parts
  <1>6. Apart(T, F, B, w)
    <2>1. \A j, k \in 1 .. Len(B) : B[j].req = B[k].req /\ B[j].req # 0 => j = k
      BY <1>0, <1>3 DEF Placed, Apart, Nowhere
    <2>2. \A j \in 1 .. Len(T), k \in 1 .. Len(B) : T[j] # B[k].req
      BY <1>0, <1>3 DEF Placed, Apart, Nowhere
    <2>3. \A j \in 1 .. Len(F), k \in 1 .. Len(B) : IsSend(F, j) => ReqOf(F, j) # B[k].req
      BY <1>0, <1>3 DEF Placed, Apart, Nowhere
    <2>4. \A j \in 1 .. Len(B), v \in Workers : Solves(w, v) => B[j].req # w[v].req
      BY <1>0, <1>3 DEF Placed, Apart, Nowhere
    <2> QED BY <2>1, <2>2, <2>3, <2>4 DEF Placed, Apart
  <1>7. ASSUME ~down, NEW r \in 1 .. n + 1 PROVE Somewhere(T, F, B, w, r)
    <2>1. CASE r = n + 1
      BY <1>4, <2>1 DEF Somewhere
    <2>2. CASE r # n + 1
      <3>1. Somewhere(T, F, A, w, r)
        BY <1>1, <1>7, <2>2 DEF Placed, Parts
      <3> QED BY <1>4, <3>1 DEF Somewhere
    <2> QED BY <2>1, <2>2
  <1>8. ~Prod => InTurn(T, F, B, w)
    <2> SUFFICES ASSUME ~Prod PROVE InTurn(T, F, B, w)
      OBVIOUS
    <2>1. /\ Len(T) = 0 /\ \A k \in 1 .. Len(F) : ~IsSend(F, k)
          /\ \A v \in Workers : ~Solves(w, v)
      BY DEF Placed, PoolUsed, Solves, Workers
    <2>2. InTurn(T, F, A, w)
      BY DEF Placed
    <2>3. \A j, k \in 1 .. Len(B) : j < k /\ B[j].what = "result" /\ B[k].what = "result" => B[j].req < B[k].req
      BY <1>1, <1>2, <1>3, <2>2, SMTT(60) DEF InTurn, Placed, Within, Parts
    <2> QED BY <2>1, <2>3 DEF InTurn
  <1> QED BY <1>5, <1>6, <1>7, <1>8 DEF Placed
(* A new request is queued for the pool.                                   *)
LEMMA FreshQueued ==
  ASSUME NEW T, NEW F, NEW A, NEW w, NEW n, NEW down, NEW U,
         Typed(T, F, A, w, n), Placed(T, F, A, w, n, down), Threads # 0, Grown(Nat, U, T, n + 1)
  PROVE  Placed(U, F, A, w, n + 1, down)
  <1>1. Parts(T, F, A, w, n)
    BY TypedParts
  <1>2. Nowhere(T, F, A, w, n + 1)
    BY NextIsNowhere DEF Placed
  <1>3. Len(U) = Len(T) + 1 /\ Len(T) \in Nat
    BY DEF Grown
  <1>4. \A k \in 1 .. Len(U) : \/ k \in 1 .. Len(T) /\ U[k] = T[k]
                               \/ k = Len(T) + 1 /\ U[k] = n + 1
    BY <1>3 DEF Grown
  <1>5. /\ \A k \in 1 .. Len(T) : k \in 1 .. Len(U) /\ U[k] = T[k]
        /\ Len(T) + 1 \in 1 .. Len(U) /\ U[Len(T) + 1] = n + 1
    BY <1>3 DEF Grown
  <1>6. Within(U, F, A, w, n + 1)
    BY <1>1, <1>4, SMTT(60) DEF Placed, Within, Parts
  <1>7. Apart(U, F, A, w)
    <2>1. \A j, k \in 1 .. Len(U) : U[j] = U[k] => j = k
      BY <1>2, <1>4 DEF Placed, Apart, Nowhere
    <2>2. \A j \in 1 .. Len(U), k \in 1 .. Len(F) : IsSend(F, k) => U[j] # ReqOf(F, k)
      BY <1>2, <1>4 DEF Placed, Apart, Nowhere
    <2>3. \A j \in 1 .. Len(U), k \in 1 .. Len(A) : U[j] # A[k].req
      BY <1>2, <1>4 DEF Placed, Apart, Nowhere
    <2>4. \A j \in 1 .. Len(U), v \in Workers : Solves(w, v) => U[j] # w[v].req
      BY <1>2, <1>4 DEF Placed, Apart, Nowhere
    <2> QED BY <2>1, <2>2, <2>3, <2>4 DEF Placed, Apart
  <1>8. ASSUME ~down, NEW r \in 1 .. n + 1 PROVE Somewhere(U, F, A, w, r)
    <2>1. CASE r = n + 1
      BY <1>5, <2>1 DEF Somewhere
    <2>2. CASE r # n + 1
      <3>1. Somewhere(T, F, A, w, r)
        BY <1>1, <1>8, <2>2 DEF Placed, Parts
      <3> QED BY <1>5, <3>1 DEF Somewhere
    <2> QED BY <2>1, <2>2
  <1>9. InTurn(T, F, A, w) => InTurn(U, F, A, w)
    <2> SUFFICES ASSUME InTurn(T, F, A, w) PROVE InTurn(U, F, A, w)
      OBVIOUS
    <2>1. \A j, k \in 1 .. Len(U) : j < k => U[j] < U[k]
      BY <1>1, <1>3, <1>4, SMTT(60) DEF InTurn, Placed, Within, Parts
    <2>2. \A j \in 1 .. Len(U), k \in 1 .. Len(F) : IsSend(F, k) => ReqOf(F, k) < U[j]
      BY <1>1, <1>4 DEF InTurn, Placed, Within, Parts
    <2>3. \A j \in 1 .. Len(U), k \in 1 .. Len(A) : A[k].what = "result" => A[k].req < U[j]
      BY <1>1, <1>4 DEF InTurn, Placed, Within, Parts
    <2>4. \A j \in 1 .. Len(U), v \in Workers : Solves(w, v) => w[v].req < U[j]
      BY <1>1, <1>4 DEF InTurn, Placed, Within, Parts
    <2> QED BY <2>1, <2>2, <2>3, <2>4 DEF InTurn
  <1>10. PoolUsed(U, F, w)
    BY DEF Placed, PoolUsed
  <1> QED BY <1>6, <1>7, <1>8, <1>9, <1>10 DEF Placed

(* The connection goes down, with a request that is refused or without.    *)
LEMMA DownKeeps ==
  ASSUME NEW T, NEW F, NEW A, NEW w, NEW n, NEW down, NEW m \in {n, n + 1},
         Typed(T, F, A, w, n), Placed(T, F, A, w, n, down)
  PROVE  Placed(T, F, A, w, m, TRUE)
  <1>1. Parts(T, F, A, w, n)
    BY TypedParts
  <1>2. Within(T, F, A, w, m)
    BY <1>1 DEF Placed, Within, Parts
  <1> QED BY <1>2 DEF Placed

(* A callback leaves the queue of functors.                                *)
LEMMA QuietGone ==
  ASSUME NEW T, NEW F, NEW A, NEW w, NEW n, NEW down, NEW G, NEW x,
         Typed(T, F, A, w, n), Placed(T, F, A, w, n, down), Shrunk(FunctorType, G, F, x), x.op # "send"
  PROVE  Placed(T, G, A, w, n, down)
  <1>1. Parts(T, F, A, w, n)
    BY TypedParts
  <1>2. Len(F) = Len(G) + 1 /\ Len(G) \in Nat /\ F[1] = x /\ \A k \in 1 .. Len(G) : G[k] = F[k + 1]
    BY DEF Shrunk
  <1>3. \A k \in 1 .. Len(G) : /\ k + 1 \in 1 .. Len(F) /\ G[k] = F[k + 1]
                               /\ IsSend(G, k) <=> IsSend(F, k + 1)
                               /\ ReqOf(G, k) = ReqOf(F, k + 1)
    BY <1>2 DEF IsSend, ReqOf
  <1>4. \A k \in 1 .. Len(F) : IsSend(F, k) => \E j \in 1 .. Len(G) : k = j + 1
    <2> SUFFICES ASSUME NEW k \in 1 .. Len(F), IsSend(F, k) PROVE \E j \in 1 .. Len(G) : k = j + 1
      OBVIOUS
    <2>1. k # 1
      BY <1>2 DEF IsSend
    <2> QED BY <1>2, <2>1
  <1>5. Within(T, G, A, w, n)
    BY <1>3 DEF Placed, Within
  <1>6. Apart(T, G, A, w)
    <2>1. \A j, k \in 1 .. Len(G) : IsSend(G, j) /\ IsSend(G, k) /\ ReqOf(G, j) = ReqOf(G, k) => j = k
      <3> SUFFICES ASSUME NEW j \in 1 .. Len(G), NEW k \in 1 .. Len(G), IsSend(G, j), IsSend(G, k), ReqOf(G, j) = ReqOf(G, k)
                   PROVE  j = k
        OBVIOUS
      <3>1. j + 1 = k + 1
        BY <1>3 DEF Placed, Apart
      <3> QED BY <1>2, <3>1
    <2>2. /\ \A j \in 1 .. Len(T), k \in 1 .. Len(G) : IsSend(G, k) => T[j] # ReqOf(G, k)
          /\ \A j \in 1 .. Len(G), k \in 1 .. Len(A) : IsSend(G, j) => ReqOf(G, j) # A[k].req
          /\ \A j \in 1 .. Len(G), v \in Workers : IsSend(G, j) /\ Solves(w, v) => ReqOf(G, j) # w[v].req
      BY <1>3 DEF Placed, Apart
    <2> QED BY <2>1, <2>2 DEF Placed, Apart
  <1>7. ASSUME NEW r, Somewhere(T, F, A, w, r) PROVE Somewhere(T, G, A, w, r)
    <2>1. CASE \E k \in 1 .. Len(F) : IsSend(F, k) /\ ReqOf(F, k) = r
      BY <1>3, <1>4, <2>1 DEF Somewhere
    <2> QED BY <1>7, <2>1 DEF Somewhere
  <1>8. InTurn(T, F, A, w) => InTurn(T, G, A, w)
    <2> SUFFICES ASSUME InTurn(T, F, A, w) PROVE InTurn(T, G, A, w)
      OBVIOUS
    <2>1. \A j, k \in 1 .. Len(G) : j < k /\ IsSend(G, j) /\ IsSend(G, k) => ReqOf(G, j) < ReqOf(G, k)
      <3> SUFFICES ASSUME NEW j \in 1 .. Len(G), NEW k \in 1 .. Len(G), j < k, IsSend(G, j), IsSend(G, k)
                   PROVE  ReqOf(G, j) < ReqOf(G, k)
        OBVIOUS
      <3>1. j + 1 < k + 1
        BY <1>2
      <3> QED BY <1>3, <3>1 DEF InTurn
    <2>2. /\ \A j \in 1 .. Len(T), k \in 1 .. Len(G) : IsSend(G, k) => ReqOf(G, k) < T[j]
          /\ \A j \in 1 .. Len(G), k \in 1 .. Len(A) : IsSend(G, j) /\ A[k].what = "result" => A[k].req < ReqOf(G, j)
          /\ \A j \in 1 .. Len(G), v \in Workers : IsSend(G, j) /\ Solves(w, v) => ReqOf(G, j) < w[v].req
      BY <1>3 DEF InTurn
    <2> QED BY <2>1, <2>2 DEF InTurn
  <1>9. PoolUsed(T, G, w)
    BY <1>3 DEF Placed, PoolUsed
  <1> QED BY <1>5, <1>6, <1>7, <1>8, <1>9 DEF Placed
(* A functor sends its answer, or finds that the connection is down.       *)
LEMMA SendGone ==
  ASSUME NEW T, NEW F, NEW A, NEW w, NEW n, NEW down, NEW G, NEW x, NEW B,
         Typed(T, F, A, w, n), Placed(T, F, A, w, n, down), Shrunk(FunctorType, G, F, x), x.op = "send",
         (B = A /\ down) \/ Grown(AnswerType, B, A, x.answer)
  PROVE  Placed(T, G, B, w, n, down)
  <1>1. Parts(T, F, A, w, n)
    BY TypedParts
  <1>2. Len(F) = Len(G) + 1 /\ Len(G) \in Nat /\ F[1] = x /\ \A k \in 1 .. Len(G) : G[k] = F[k + 1]
    BY DEF Shrunk
  <1>3. \A k \in 1 .. Len(G) : /\ k + 1 \in 1 .. Len(F) /\ k + 1 # 1 /\ G[k] = F[k + 1]
                               /\ IsSend(G, k) <=> IsSend(F, k + 1)
                               /\ ReqOf(G, k) = ReqOf(F, k + 1)
    BY <1>2 DEF IsSend, ReqOf
  <1>4. \A k \in 1 .. Len(F) : k = 1 \/ \E j \in 1 .. Len(G) : k = j + 1
    <2> SUFFICES ASSUME NEW k \in 1 .. Len(F), k # 1 PROVE \E j \in 1 .. Len(G) : k = j + 1
      OBVIOUS
    <2>1. k - 1 \in 1 .. Len(G) /\ k = (k - 1) + 1
      BY <1>2
    <2> QED BY <2>1
  <1>5. 1 \in 1 .. Len(F) /\ IsSend(F, 1) /\ ReqOf(F, 1) = x.answer.req /\ x.answer.what = "result"
    <2>1. 1 \in 1 .. Len(F) /\ IsSend(F, 1) /\ ReqOf(F, 1) = x.answer.req
      BY <1>2 DEF IsSend, ReqOf
    <2> QED BY <1>2, <2>1 DEF Placed, Within
  <1>6. \A k \in 1 .. Len(B) : (k \in 1 .. Len(A) /\ B[k] = A[k]) \/ (k = Len(A) + 1 /\ B[k] = x.answer)
    BY DEF Grown
  <1>7. /\ \A k \in 1 .. Len(A) : k \in 1 .. Len(B) /\ B[k] = A[k]
        /\ ~down => Len(A) + 1 \in 1 .. Len(B) /\ B[Len(A) + 1] = x.answer
    BY DEF Grown
  <1>8. Within(T, G, B, w, n)
    <2>1. \A k \in 1 .. Len(G) : IsSend(G, k) => ReqOf(G, k) > 0 /\ ReqOf(G, k) =< n /\ G[k].answer.what = "result"
      BY <1>3 DEF Placed, Within
    <2>2. \A k \in 1 .. Len(B) : B[k].req =< n
      BY <1>5, <1>6 DEF Placed, Within
    <2> QED BY <2>1, <2>2 DEF Placed, Within
  <1>9. Apart(T, G, B, w)
    <2>1. \A j, k \in 1 .. Len(G) : IsSend(G, j) /\ IsSend(G, k) /\ ReqOf(G, j) = ReqOf(G, k) => j = k
      <3> SUFFICES ASSUME NEW j \in 1 .. Len(G), NEW k \in 1 .. Len(G), IsSend(G, j), IsSend(G, k), ReqOf(G, j) = ReqOf(G, k)
                   PROVE  j = k
        OBVIOUS
      <3>1. j + 1 = k + 1
        BY <1>3 DEF Placed, Apart
      <3> QED BY <1>2, <3>1
    <2>2. /\ \A j \in 1 .. Len(T), k \in 1 .. Len(G) : IsSend(G, k) => T[j] # ReqOf(G, k)
          /\ \A j \in 1 .. Len(G), v \in Workers : IsSend(G, j) /\ Solves(w, v) => ReqOf(G, j) # w[v].req
      BY <1>3 DEF Placed, Apart
    <2>3. \A j, k \in 1 .. Len(B) : B[j].req = B[k].req /\ B[j].req # 0 => j = k
      BY <1>5, <1>6 DEF Placed, Apart
    <2>4. \A j \in 1 .. Len(T), k \in 1 .. Len(B) : T[j] # B[k].req
      BY <1>5, <1>6 DEF Placed, Apart
    <2>5. \A j \in 1 .. Len(G) : IsSend(G, j) => ReqOf(G, j) # x.answer.req
      BY <1>3, <1>5 DEF Placed, Apart
    <2>6. \A j \in 1 .. Len(G), k \in 1 .. Len(A) : IsSend(G, j) => ReqOf(G, j) # A[k].req
      BY <1>3 DEF Placed, Apart
    <2>7. \A j \in 1 .. Len(G), k \in 1 .. Len(B) : IsSend(G, j) => ReqOf(G, j) # B[k].req
      BY <1>6, <2>5, <2>6
    <2>8. \A j \in 1 .. Len(B), v \in Workers : Solves(w, v) => B[j].req # w[v].req
      BY <1>5, <1>6 DEF Placed, Apart
    <2> QED BY <2>1, <2>2, <2>3, <2>4, <2>7, <2>8 DEF Placed, Apart
  <1>10. ASSUME ~down, NEW r, Somewhere(T, F, A, w, r) PROVE Somewhere(T, G, B, w, r)
    <2>1. CASE \E k \in 1 .. Len(F) : IsSend(F, k) /\ ReqOf(F, k) = r
      <3>1. PICK k \in 1 .. Len(F) : IsSend(F, k) /\ ReqOf(F, k) = r
        BY <2>1
      <3>2. CASE k = 1
        BY <1>5, <1>7, <1>10, <3>1, <3>2 DEF Somewhere
      <3>3. CASE \E j \in 1 .. Len(G) : k = j + 1
        BY <1>3, <3>1, <3>3 DEF Somewhere
      <3> QED BY <1>4, <3>2, <3>3
    <2> QED BY <1>7, <1>10, <2>1 DEF Somewhere
  <1>11. InTurn(T, F, A, w) => InTurn(T, G, B, w)
    <2> SUFFICES ASSUME InTurn(T, F, A, w) PROVE InTurn(T, G, B, w)
      OBVIOUS
    <2>1. \A j, k \in 1 .. Len(G) : j < k /\ IsSend(G, j) /\ IsSend(G, k) => ReqOf(G, j) < ReqOf(G, k)
      <3> SUFFICES ASSUME NEW j \in 1 .. Len(G), NEW k \in 1 .. Len(G), j < k, IsSend(G, j), IsSend(G, k)
                   PROVE  ReqOf(G, j) < ReqOf(G, k)
        OBVIOUS
      <3>1. j + 1 < k + 1
        BY <1>2
      <3> QED BY <1>3, <3>1 DEF InTurn
    <2>2. /\ \A j \in 1 .. Len(T), k \in 1 .. Len(G) : IsSend(G, k) => ReqOf(G, k) < T[j]
          /\ \A j \in 1 .. Len(G), v \in Workers : IsSend(G, j) /\ Solves(w, v) => ReqOf(G, j) < w[v].req
      BY <1>3 DEF InTurn
    <2>3. \A j, k \in 1 .. Len(B) : j < k /\ B[j].what = "result" /\ B[k].what = "result" => B[j].req < B[k].req
      <3> SUFFICES ASSUME NEW j \in 1 .. Len(B), NEW k \in 1 .. Len(B), j < k, B[j].what = "result", B[k].what = "result"
                   PROVE  B[j].req < B[k].req
        OBVIOUS
      <3>1. j \in 1 .. Len(A) /\ B[j] = A[j]
        <4>1. Len(B) \in Nat /\ Len(B) =< Len(A) + 1 /\ Len(A) \in Nat
          BY <1>1 DEF Grown, Parts
        <4> QED BY <1>6, <4>1
      <3>2. A[j].req < x.answer.req
        BY <1>5, <3>1 DEF InTurn
      <3> QED BY <1>6, <3>1, <3>2 DEF InTurn
    <2>4. \A j \in 1 .. Len(T), k \in 1 .. Len(B) : B[k].what = "result" => B[k].req < T[j]
      BY <1>5, <1>6 DEF InTurn
    <2>5. \A j \in 1 .. Len(G), k \in 1 .. Len(B) : IsSend(G, j) /\ B[k].what = "result" => B[k].req < ReqOf(G, j)
      <3>1. \A j \in 1 .. Len(G) : IsSend(G, j) => x.answer.req < ReqOf(G, j)
        <4> SUFFICES ASSUME NEW j \in 1 .. Len(G), IsSend(G, j) PROVE x.answer.req < ReqOf(G, j)
          OBVIOUS
        <4>1. 1 < j + 1
          BY <1>2
        <4> QED BY <1>3, <1>5, <4>1 DEF InTurn
      <3>2. \A j \in 1 .. Len(G), k \in 1 .. Len(A) : IsSend(G, j) /\ A[k].what = "result" => A[k].req < ReqOf(G, j)
        BY <1>3 DEF InTurn
      <3> QED BY <1>6, <3>1, <3>2
    <2>6. \A j \in 1 .. Len(B), v \in Workers : B[j].what = "result" /\ Solves(w, v) => B[j].req < w[v].req
      BY <1>5, <1>6 DEF InTurn
    <2> QED BY <2>1, <2>2, <2>3, <2>4, <2>5, <2>6 DEF InTurn
  <1>12. PoolUsed(T, G, w)
    BY <1>3 DEF Placed, PoolUsed
  <1> QED BY <1>8, <1>9, <1>10, <1>11, <1>12 DEF Placed
(* Thread v takes the oldest request of the queue.                         *)
LEMMA TakeKeeps ==
  ASSUME NEW T, NEW F, NEW A, NEW w, NEW n, NEW down, NEW U, NEW q, NEW v \in Workers, NEW u,
         Typed(T, F, A, w, n), Placed(T, F, A, w, n, down), Threads \in Nat, v =< Threads,
         Shrunk(Nat, U, T, q), w[v] = Idle, u = [w EXCEPT ![v] = [req |-> q, sent |-> FALSE]]
  PROVE  Placed(U, F, A, u, n, down)
  <1>1. Parts(T, F, A, w, n)
    BY TypedParts
  <1>2. Len(T) = Len(U) + 1 /\ Len(U) \in Nat /\ T[1] = q /\ q \in Nat /\ \A k \in 1 .. Len(U) : U[k] = T[k + 1]
    BY DEF Shrunk
  <1>3. \A k \in 1 .. Len(U) : k + 1 \in 1 .. Len(T) /\ k + 1 # 1 /\ 1 < k + 1 /\ U[k] = T[k + 1]
    BY <1>2
  <1>4. \A k \in 1 .. Len(T) : k = 1 \/ \E j \in 1 .. Len(U) : k = j + 1
    <2> SUFFICES ASSUME NEW k \in 1 .. Len(T), k # 1 PROVE \E j \in 1 .. Len(U) : k = j + 1
      OBVIOUS
    <2>1. k - 1 \in 1 .. Len(U) /\ k = (k - 1) + 1
      BY <1>2
    <2> QED BY <2>1
  <1>5. 1 \in 1 .. Len(T) /\ q > 0 /\ q =< n
    <2>1. 1 \in 1 .. Len(T)
      BY <1>2
    <2> QED BY <1>2, <2>1 DEF Placed, Within
  <1>6. /\ u[v].req = q /\ ~u[v].sent /\ Solves(u, v)
        /\ \A z \in Workers \ {v} : u[z] = w[z]
    BY <1>5 DEF Typed, WorkType, Solves
  <1>7. \A z \in Workers : Solves(u, z) => (z = v /\ u[z].req = q) \/ (z # v /\ Solves(w, z) /\ u[z].req = w[z].req)
    BY <1>6 DEF Solves
  <1>8. \A z \in Workers : Solves(w, z) => z # v /\ Solves(u, z) /\ u[z].req = w[z].req
    BY <1>6 DEF Solves, Idle
  <1>9. Within(U, F, A, u, n)
    <2>1. \A k \in 1 .. Len(U) : U[k] > 0 /\ U[k] =< n
      BY <1>3 DEF Placed, Within
    <2>2. \A z \in Workers : u[z].req =< n /\ (u[z].sent => u[z].req # 0)
      BY <1>5, <1>6 DEF Placed, Within
    <2> QED BY <2>1, <2>2 DEF Placed, Within
  <1>10. Apart(U, F, A, u)
    <2>1. \A j, k \in 1 .. Len(U) : U[j] = U[k] => j = k
      <3> SUFFICES ASSUME NEW j \in 1 .. Len(U), NEW k \in 1 .. Len(U), U[j] = U[k] PROVE j = k
        OBVIOUS
      <3>1. j + 1 = k + 1
        BY <1>3 DEF Placed, Apart
      <3> QED BY <1>2, <3>1
    <2>2. /\ \A j \in 1 .. Len(U), k \in 1 .. Len(F) : IsSend(F, k) => U[j] # ReqOf(F, k)
          /\ \A j \in 1 .. Len(U), k \in 1 .. Len(A) : U[j] # A[k].req
          /\ \A j \in 1 .. Len(U) : U[j] # q
      BY <1>2, <1>3, <1>5 DEF Placed, Apart
    <2>3. \A j \in 1 .. Len(U), z \in Workers : Solves(w, z) => U[j] # w[z].req
      BY <1>3 DEF Placed, Apart
    <2>4. /\ \A k \in 1 .. Len(F) : IsSend(F, k) => q # ReqOf(F, k)
          /\ \A k \in 1 .. Len(A) : q # A[k].req
          /\ \A z \in Workers : Solves(w, z) => q # w[z].req
      BY <1>2, <1>5 DEF Placed, Apart
    <2>5. \A y, z \in Workers : Solves(u, y) /\ Solves(u, z) /\ u[y].req = u[z].req => y = z
      BY <1>7, <2>4 DEF Placed, Apart
    <2>6. \A j \in 1 .. Len(U), z \in Workers : Solves(u, z) => U[j] # u[z].req
      BY <1>7, <2>2, <2>3
    <2>7. \A j \in 1 .. Len(F), z \in Workers : IsSend(F, j) /\ Solves(u, z) => ReqOf(F, j) # u[z].req
      BY <1>7, <2>4 DEF Placed, Apart
    <2>8. \A j \in 1 .. Len(A), z \in Workers : Solves(u, z) => A[j].req # u[z].req
      BY <1>7, <2>4 DEF Placed, Apart
    <2> QED BY <2>1, <2>2, <2>5, <2>6, <2>7, <2>8 DEF Placed, Apart
  <1>11. ASSUME NEW r, Somewhere(T, F, A, w, r) PROVE Somewhere(U, F, A, u, r)
    <2>1. CASE \E k \in 1 .. Len(T) : T[k] = r
      <3>1. PICK k \in 1 .. Len(T) : T[k] = r
        BY <2>1
      <3>2. CASE k = 1
        BY <1>2, <1>6, <3>1, <3>2 DEF Somewhere
      <3>3. CASE \E j \in 1 .. Len(U) : k = j + 1
        BY <1>3, <3>1, <3>3 DEF Somewhere
      <3> QED BY <1>4, <3>2, <3>3
    <2> QED BY <1>8, <1>11, <2>1 DEF Somewhere
  <1>12. Threads =< 1 /\ InTurn(T, F, A, w) => InTurn(U, F, A, u)
    <2> SUFFICES ASSUME Threads =< 1, InTurn(T, F, A, w) PROVE InTurn(U, F, A, u)
      OBVIOUS
    <2>1. \A j, k \in 1 .. Len(U) : j < k => U[j] < U[k]
      <3> SUFFICES ASSUME NEW j \in 1 .. Len(U), NEW k \in 1 .. Len(U), j < k PROVE U[j] < U[k]
        OBVIOUS
      <3>1. j + 1 < k + 1
        BY <1>2
      <3> QED BY <1>3, <3>1 DEF InTurn
    <2>2. /\ \A j \in 1 .. Len(U), k \in 1 .. Len(F) : IsSend(F, k) => ReqOf(F, k) < U[j]
          /\ \A j \in 1 .. Len(U), k \in 1 .. Len(A) : A[k].what = "result" => A[k].req < U[j]
          /\ \A j \in 1 .. Len(U), z \in Workers : Solves(w, z) => w[z].req < U[j]
      BY <1>3 DEF InTurn
    <2>3. \A j \in 1 .. Len(U) : q < U[j]
      BY <1>2, <1>3, <1>5 DEF InTurn
    <2>4. \A j \in 1 .. Len(U), z \in Workers : Solves(u, z) => u[z].req < U[j]
      BY <1>7, <2>2, <2>3
    <2>5. \A j \in 1 .. Len(F), z \in Workers : IsSend(F, j) /\ Solves(u, z) => ReqOf(F, j) < u[z].req
      BY <1>2, <1>5, <1>7 DEF InTurn
    <2>6. \A j \in 1 .. Len(A), z \in Workers : A[j].what = "result" /\ Solves(u, z) => A[j].req < u[z].req
      BY <1>2, <1>5, <1>7 DEF InTurn
    <2> QED BY <2>1, <2>2, <2>4, <2>5, <2>6 DEF InTurn
  <1>13. PoolUsed(U, F, u)
    <2>1. Threads # 0
      BY DEF Workers
    <2>2. \A z \in Workers : z > Threads => z # v
      BY DEF Workers
    <2> QED BY <1>6, <2>1, <2>2 DEF Placed, PoolUsed
  <1> QED BY <1>9, <1>10, <1>11, <1>12, <1>13 DEF Placed
(* Thread v has solved its request: the answer is behind the functors,     *)
(* unless the connection is down.                                          *)
LEMMA SolveKeeps ==
  ASSUME NEW T, NEW F, NEW A, NEW w, NEW n, NEW down, NEW G, NEW x, NEW v \in Workers, NEW u,
         Typed(T, F, A, w, n), Placed(T, F, A, w, n, down), Threads \in Nat, Solves(w, v),
         (G = F /\ down) \/ Grown(FunctorType, G, F, x),
         x.op = "send", x.answer.req = w[v].req, x.answer.what = "result",
         u = [w EXCEPT ![v].sent = TRUE]
  PROVE  Placed(T, G, A, u, n, down)
  <1>1. Parts(T, F, A, w, n)
    BY TypedParts
  <1>2. Len(F) \in Nat /\ Len(G) \in Nat /\ Len(G) =< Len(F) + 1
    BY <1>1 DEF Grown, Parts
  <1>3. \A k \in 1 .. Len(G) : \/ k \in 1 .. Len(F) /\ G[k] = F[k]
                               \/ k = Len(F) + 1 /\ G[k] = x
    BY DEF Grown
  <1>4. /\ \A k \in 1 .. Len(F) : k \in 1 .. Len(G) /\ G[k] = F[k]
        /\ ~down => Len(F) + 1 \in 1 .. Len(G) /\ G[Len(F) + 1] = x
    BY DEF Grown
  <1>5. \A k \in 1 .. Len(G) : IsSend(G, k) =>
          \/ k \in 1 .. Len(F) /\ IsSend(F, k) /\ ReqOf(G, k) = ReqOf(F, k) /\ G[k] = F[k]
          \/ k = Len(F) + 1 /\ ReqOf(G, k) = w[v].req /\ G[k] = x
    BY <1>3 DEF IsSend, ReqOf
  <1>6. \A z \in Workers : Solves(u, z) => z # v /\ Solves(w, z) /\ u[z].req = w[z].req
    BY DEF Solves, Typed, WorkType
  <1>7. \A z \in Workers : z # v => u[z] = w[z]
    BY DEF Typed, WorkType
  <1>8. /\ \A z \in Workers : u[z].req = w[z].req
        /\ \A z \in Workers : u[z].sent => u[z].req # 0
    BY DEF Typed, WorkType, Solves, Placed, Within
  <1>9. w[v].req \in Nat /\ w[v].req > 0 /\ w[v].req =< n
    BY <1>1 DEF Solves, Placed, Within, Parts
  <1>10. Within(T, G, A, u, n)
    <2>1. \A k \in 1 .. Len(G) : IsSend(G, k) => ReqOf(G, k) > 0 /\ ReqOf(G, k) =< n /\ G[k].answer.what = "result"
      BY <1>5, <1>9 DEF Placed, Within
    <2> QED BY <1>8, <2>1 DEF Placed, Within
  <1>11. Apart(T, G, A, u)
    <2>1. \A j, k \in 1 .. Len(G) : IsSend(G, j) /\ IsSend(G, k) /\ ReqOf(G, j) = ReqOf(G, k) => j = k
      BY <1>5 DEF Placed, Apart
    <2>2. \A y, z \in Workers : Solves(u, y) /\ Solves(u, z) /\ u[y].req = u[z].req => y = z
      BY <1>6 DEF Placed, Apart
    <2>3. \A j \in 1 .. Len(T), k \in 1 .. Len(G) : IsSend(G, k) => T[j] # ReqOf(G, k)
      BY <1>5 DEF Placed, Apart
    <2>4. \A j \in 1 .. Len(T), z \in Workers : Solves(u, z) => T[j] # u[z].req
      BY <1>6 DEF Placed, Apart
    <2>5. \A j \in 1 .. Len(G), k \in 1 .. Len(A) : IsSend(G, j) => ReqOf(G, j) # A[k].req
      BY <1>5 DEF Placed, Apart
    <2>6. \A z \in Workers : Solves(u, z) => w[v].req # u[z].req
      BY <1>6 DEF Placed, Apart
    <2>7. \A j \in 1 .. Len(G), z \in Workers : IsSend(G, j) /\ Solves(u, z) => ReqOf(G, j) # u[z].req
      BY <1>5, <1>6, <2>6 DEF Placed, Apart
    <2>8. \A j \in 1 .. Len(A), z \in Workers : Solves(u, z) => A[j].req # u[z].req
      BY <1>6 DEF Placed, Apart
    <2> QED BY <2>1, <2>2, <2>3, <2>4, <2>5, <2>7, <2>8 DEF Placed, Apart
  <1>12. ASSUME ~down, NEW r, Somewhere(T, F, A, w, r) PROVE Somewhere(T, G, A, u, r)
    <2>1. CASE \E k \in 1 .. Len(F) : IsSend(F, k) /\ ReqOf(F, k) = r
      BY <1>4, <2>1 DEF Somewhere, IsSend, ReqOf
    <2>2. CASE \E z \in Workers : Solves(w, z) /\ w[z].req = r
      <3>1. PICK z \in Workers : Solves(w, z) /\ w[z].req = r
        BY <2>2
      <3>2. CASE z = v
        <4>1. IsSend(G, Len(F) + 1) /\ ReqOf(G, Len(F) + 1) = r
          BY <1>4, <1>12, <3>1, <3>2 DEF IsSend, ReqOf
        <4> QED BY <1>4, <1>12, <4>1 DEF Somewhere
      <3>3. CASE z # v
        BY <1>7, <3>1, <3>3 DEF Somewhere, Solves
      <3> QED BY <3>2, <3>3
    <2> QED BY <1>12, <2>1, <2>2 DEF Somewhere
  <1>13. v =< Threads
    BY <1>9 DEF Placed, PoolUsed, Workers
  <1>14. Threads =< 1 /\ InTurn(T, F, A, w) => InTurn(T, G, A, u)
    <2> SUFFICES ASSUME Threads =< 1, InTurn(T, F, A, w) PROVE InTurn(T, G, A, u)
      OBVIOUS
    <2>1. \A z \in Workers : ~Solves(u, z)
      <3>1. \A z \in Workers : z # v => z > Threads
        BY <1>13 DEF Workers
      <3> QED BY <1>6, <3>1 DEF Placed, PoolUsed, Solves
    <2>2. \A j, k \in 1 .. Len(G) : j < k /\ IsSend(G, j) /\ IsSend(G, k) => ReqOf(G, j) < ReqOf(G, k)
      <3> SUFFICES ASSUME NEW j \in 1 .. Len(G), NEW k \in 1 .. Len(G), j < k, IsSend(G, j), IsSend(G, k)
                   PROVE  ReqOf(G, j) < ReqOf(G, k)
        OBVIOUS
      <3>1. j \in 1 .. Len(F) /\ IsSend(F, j) /\ ReqOf(G, j) = ReqOf(F, j)
        BY <1>2, <1>5
      <3> QED BY <1>5, <3>1 DEF InTurn
    <2>3. \A j \in 1 .. Len(T), k \in 1 .. Len(G) : IsSend(G, k) => ReqOf(G, k) < T[j]
      BY <1>5 DEF InTurn
    <2>4. \A j \in 1 .. Len(G), k \in 1 .. Len(A) : IsSend(G, j) /\ A[k].what = "result" => A[k].req < ReqOf(G, j)
      BY <1>5 DEF InTurn
    <2> QED BY <2>1, <2>2, <2>3, <2>4 DEF InTurn
  <1>15. PoolUsed(T, G, u)
    <2>1. Threads # 0
      BY <1>13 DEF Workers
    <2>2. \A z \in Workers : z > Threads => z # v
      BY <1>13 DEF Workers
    <2> QED BY <1>7, <2>1, <2>2 DEF Placed, PoolUsed
  <1> QED BY <1>10, <1>11, <1>12, <1>14, <1>15 DEF Placed

(* Thread v has counted its response and waits for the next request.       *)
LEMMA RecordKeeps ==
  ASSUME NEW T, NEW F, NEW A, NEW w, NEW n, NEW down, NEW v \in Workers, NEW u,
         Typed(T, F, A, w, n), Placed(T, F, A, w, n, down), w[v].sent, u = [w EXCEPT ![v] = Idle]
  PROVE  Placed(T, F, A, u, n, down)
  <1>1. Idle.req = 0 /\ ~Idle.sent
    BY DEF Idle
  <1>2. \A z \in Workers : u[z] = IF z = v THEN Idle ELSE w[z]
    BY DEF Typed, WorkType
  <1>3. \A z \in Workers : /\ Solves(u, z) => Solves(w, z) /\ u[z].req = w[z].req
                           /\ Solves(w, z) => Solves(u, z) /\ u[z].req = w[z].req
    BY <1>1, <1>2 DEF Solves
  <1>4. Within(T, F, A, u, n)
    <2>1. \A z \in Workers : u[z].req =< n /\ (u[z].sent => u[z].req # 0)
      BY <1>1, <1>2 DEF Placed, Within, Typed
    <2> QED BY <2>1 DEF Placed, Within
  <1>5. Apart(T, F, A, u)
    <2>1. \A y, z \in Workers : Solves(u, y) /\ Solves(u, z) /\ u[y].req = u[z].req => y = z
      BY <1>3 DEF Placed, Apart
    <2>2. \A j \in 1 .. Len(T), z \in Workers : Solves(u, z) => T[j] # u[z].req
      BY <1>3 DEF Placed, Apart
    <2>3. \A j \in 1 .. Len(F), z \in Workers : IsSend(F, j) /\ Solves(u, z) => ReqOf(F, j) # u[z].req
      BY <1>3 DEF Placed, Apart
    <2>4. \A j \in 1 .. Len(A), z \in Workers : Solves(u, z) => A[j].req # u[z].req
      BY <1>3 DEF Placed, Apart
    <2> QED BY <2>1, <2>2, <2>3, <2>4 DEF Placed, Apart
  <1>6. ASSUME NEW r, Somewhere(T, F, A, w, r) PROVE Somewhere(T, F, A, u, r)
    BY <1>3, <1>6 DEF Somewhere
  <1>7. InTurn(T, F, A, w) => InTurn(T, F, A, u)
    BY <1>3 DEF InTurn
  <1>8. PoolUsed(T, F, u)
    BY <1>1, <1>2 DEF Placed, PoolUsed
  <1> QED BY <1>4, <1>5, <1>6, <1>7, <1>8 DEF Placed
(* The fields of a state have their types.                                 *)
LEMMA StateFields ==
  ASSUME NEW s, NEW w, NEW n, Good(s, w, n)
  PROVE  /\ Typed(s.tasks, s.functors, s.sent, w, n)
         /\ s \in StateType /\ s.tcp \in TcpType /\ s.stat \in StatType
  BY DEF Good, Typed, StateType

(* What a send queues besides changes no request's place.                  *)
LEMMA CallbackKeepsPlaces ==
  ASSUME NEW t, NEW s, NEW a, NEW w, NEW n, NEW down, Said(t, s, a),
         Typed(t.tasks, s.functors, t.sent, w, n), Placed(t.tasks, s.functors, t.sent, w, n, down)
  PROVE  Placed(t.tasks, t.functors, t.sent, w, n, down)
  <1>1. CASE t.functors = s.functors
    BY <1>1
  <1>2. CASE \E x \in QuietFunctor : Grown(FunctorType, t.functors, s.functors, x)
    <2>1. PICK x \in QuietFunctor : Grown(FunctorType, t.functors, s.functors, x)
      BY <1>2
    <2>2. Quiet(t.functors, s.functors, x)
      BY <2>1 DEF Quiet
    <2> QED BY <2>2, QuietKeeps
  <1> QED BY <1>1, <1>2 DEF Said

(* A refusal is sent.                                                      *)
LEMMA RefusalSaid ==
  ASSUME NEW s, NEW w, NEW n, NEW t, NEW a, Good(s, w, n), Said(t, s, a), a.req = 0, a.what = "bad"
  PROVE  Good(t, w, n)
  <1>1. Typed(s.tasks, s.functors, s.sent, w, n) /\ Placed(s.tasks, s.functors, s.sent, w, n, s.tcp.down)
    BY StateFields DEF Good
  <1>2. t \in StateType /\ t.tasks = s.tasks /\ t.tcp.down = s.tcp.down
    BY DEF Said
  <1>3. Placed(s.tasks, s.functors, t.sent, w, n, s.tcp.down)
    <2>1. CASE t.sent = s.sent
      BY <1>1, <2>1
    <2>2. CASE Grown(AnswerType, t.sent, s.sent, a)
      BY <1>1, <2>2, RefusalKeeps
    <2> QED BY <2>1, <2>2 DEF Said
  <1>4. Typed(t.tasks, s.functors, t.sent, w, n)
    BY <1>1, <1>2 DEF Typed, StateType
  <1>5. Placed(t.tasks, t.functors, t.sent, w, n, t.tcp.down)
    BY <1>2, <1>3, <1>4, CallbackKeepsPlaces
  <1> QED BY <1>2, <1>5 DEF Good

(* The answer to a new request is sent at once.                            *)
LEMMA FreshSaid ==
  ASSUME NEW s, NEW w, NEW n, NEW t, NEW a, Good(s, w, n), Said(t, s, a), Threads \in Nat,
         a.req = n + 1, Prod \/ Threads = 0
  PROVE  Good(t, w, n + 1)
  <1>1. Typed(s.tasks, s.functors, s.sent, w, n) /\ Placed(s.tasks, s.functors, s.sent, w, n, s.tcp.down)
    BY StateFields DEF Good
  <1>2. t \in StateType /\ t.tasks = s.tasks /\ t.tcp.down = s.tcp.down
    BY DEF Said
  <1>3. Placed(s.tasks, s.functors, t.sent, w, n + 1, s.tcp.down)
    <2>1. CASE t.sent = s.sent /\ s.tcp.down
      <3>1. Placed(s.tasks, s.functors, s.sent, w, n + 1, TRUE)
        BY <1>1, DownKeeps
      <3>2. s.tcp.down = TRUE
        BY <2>1, StateFields DEF TcpType
      <3> QED BY <2>1, <3>1, <3>2
    <2>2. CASE Grown(AnswerType, t.sent, s.sent, a)
      BY <1>1, <2>2, FreshAnswered
    <2> QED BY <2>1, <2>2 DEF Said
  <1>4. Typed(t.tasks, s.functors, t.sent, w, n + 1) /\ n + 1 \in Nat
    BY <1>1, <1>2 DEF Typed, StateType
  <1>5. Placed(t.tasks, t.functors, t.sent, w, n + 1, t.tcp.down)
    BY <1>2, <1>3, <1>4, CallbackKeepsPlaces
  <1> QED BY <1>2, <1>4, <1>5 DEF Good

\* The threads that have a request.
Loaded(w) == Cardinality({v \in Workers : w[v].req # 0})

\* The requests that are counted as over, without what the last reset carried over.
Over(q) == q.responses + q.dropped + (q.bad - q.other) - q.carried

\* The counters of state s and the requests in the pool differ by d.
Owed(s, w, d) == s.stat.requests = Over(s.stat) + Len(s.tasks) + Loaded(w) + d

(* A response, a drop or a bad request that was counted is one more; a bad *)
(* request that was not counted is none.                                   *)
LEMMA OverCounts ==
  ASSUME NEW p \in StatType, NEW q \in StatType, NEW k \in {0, 1}, q.carried = p.carried,
         \/ /\ q.responses + q.dropped = p.responses + p.dropped + k
            /\ q.bad = p.bad /\ q.other = p.other
         \/ /\ q.responses = p.responses /\ q.dropped = p.dropped
            /\ q.bad = p.bad + 1 /\ q.other = p.other + (1 - k)
  PROVE  Over(q) = Over(p) + k
  <1>1. /\ p.responses \in Int /\ p.dropped \in Int /\ p.bad \in Int /\ p.other \in Int /\ p.carried \in Int
        /\ q.responses \in Int /\ q.dropped \in Int /\ q.bad \in Int /\ q.other \in Int
    BY DEF StatType
  <1>2. PICK p1, p2, p3, p4, x \in Int :
          p1 = p.responses /\ p2 = p.dropped /\ p3 = p.bad /\ p4 = p.other /\ x = p.carried
    BY <1>1
  <1>3. PICK q1, q2, q3, q4 \in Int : q1 = q.responses /\ q2 = q.dropped /\ q3 = q.bad /\ q4 = q.other
    BY <1>1
  <1>4. \/ q1 + q2 = p1 + p2 + k /\ q3 = p3 /\ q4 = p4
        \/ q1 = p1 /\ q2 = p2 /\ q3 = p3 + 1 /\ q4 = p4 + (1 - k)
    BY <1>2, <1>3, Zenon
  <1>5. q1 + q2 + (q3 - q4) - x = (p1 + p2 + (p3 - p4) - x) + k
    BY <1>4
  <1> QED BY <1>2, <1>3, <1>5, Zenon DEF Over

LEMMA LoadedNat == \A w : IsFiniteSet({v \in Workers : w[v].req # 0}) /\ Loaded(w) \in Nat
  <1>1. IsFiniteSet(Workers)
    <2>1. 1 \in Int /\ MaxThreads \in Int
      BY ThreadsAssumption
    <2>2. IsFiniteSet(1 .. MaxThreads)
      BY <2>1, FS_Interval, Zenon
    <2> QED BY <2>2 DEF Workers
  <1> QED BY <1>1, FS_Subset, FS_CardinalityType DEF Loaded

\* c differs from s in the counters and in the connection alone.
Same(c, s) == c \in StateType /\ c.tasks = s.tasks /\ c.functors = s.functors /\ c.sent = s.sent

(* Such a change, also when the connection goes down, with the last        *)
(* request or without it, changes no request's place.                      *)
LEMMA SameKeeps ==
  ASSUME NEW s, NEW w, NEW n, NEW c, Good(s, w, n), Same(c, s)
  PROVE  /\ c.tcp.down = s.tcp.down => Good(c, w, n)
         /\ c.tcp.down = TRUE => Good(c, w, n) /\ Good(c, w, n + 1)
  <1>0. Typed(s.tasks, s.functors, s.sent, w, n)
    BY StateFields
  <1>1. /\ Placed(s.tasks, s.functors, s.sent, w, n, s.tcp.down)
        /\ w \in WorkType /\ n \in Nat /\ n + 1 \in Nat
    BY DEF Good
  <1>2. Placed(s.tasks, s.functors, s.sent, w, n, TRUE) /\ Placed(s.tasks, s.functors, s.sent, w, n + 1, TRUE)
    BY <1>0, <1>1, DownKeeps
  <1>3. c \in StateType /\ c.tasks = s.tasks /\ c.functors = s.functors /\ c.sent = s.sent
    BY DEF Same
  <1>4. ASSUME c.tcp.down = s.tcp.down PROVE Good(c, w, n)
    BY <1>1, <1>3, <1>4 DEF Good
  <1>5. ASSUME c.tcp.down = TRUE PROVE Good(c, w, n) /\ Good(c, w, n + 1)
    BY <1>1, <1>2, <1>3, <1>5 DEF Good
  <1> QED BY <1>4, <1>5

\* The counters of s are numbers.
Numbers(s, w) == s.stat.requests \in Int /\ Over(s.stat) \in Int /\ Len(s.tasks) \in Nat /\ Loaded(w) \in Nat

LEMMA StateNumbers ==
  ASSUME NEW s, NEW w, s \in StateType
  PROVE  Numbers(s, w)
  <1>1. Loaded(w) \in Nat
    BY LoadedNat, Zenon
  <1>2. s.stat \in StatType /\ s.tasks \in Seq(Nat)
    BY DEF StateType
  <1>3. Over(s.stat) \in Int /\ s.stat.requests \in Int
    BY <1>2 DEF StatType, Over
  <1> QED BY <1>1, <1>2, <1>3 DEF Numbers

\* c has k more counted events that end a request than s.
Ended(c, s, k) ==
  /\ c.stat.requests = s.stat.requests
  /\ Over(c.stat) = Over(s.stat) + k
  /\ c.tasks = s.tasks

LEMMA EndedOwed ==
  ASSUME NEW s, NEW c, NEW w, NEW d \in Int, NEW e \in Int, s \in StateType, c \in StateType,
         Owed(s, w, d), Ended(c, s, d - e)
  PROVE  Owed(c, w, e)
  <1>1. Numbers(s, w) /\ Numbers(c, w)
    BY StateNumbers
  <1> QED BY <1>1 DEF Owed, Ended, Numbers

(* The inspector's reset: what it carries over makes up for the counters   *)
(* that it clears and for the drops that it keeps.                         *)
LEMMA ResetKeeps ==
  ASSUME NEW s, NEW w, NEW n, NEW k \in Int, NEW h, NEW c, Good(s, w, n),
         h = Len(s.tasks) + Loaded(w) + k, c = ResetCounters(s, h)
  PROVE  Good(c, w, n) /\ Owed(c, w, k)
  <1>1. s \in StateType /\ s.stat \in StatType
    BY StateFields
  <1>2. Numbers(s, w)
    BY <1>1, StateNumbers
  <1>3. PICK x, y, z \in Int : x = s.stat.dropped /\ y = Len(s.tasks) /\ z = Loaded(w)
    BY <1>1, <1>2, SMTT(60) DEF Numbers, StatType
  <1>4. PICK e \in Int : e = x + (y + z + k)
    BY <1>3
  <1>5. PICK q : q = [requests |-> 0, responses |-> 0, bad |-> 0, other |-> 0, dropped |-> x, carried |-> e,
                      resets |-> s.stat.resets + 1]
    OBVIOUS
  <1>6. q \in StatType /\ q.requests = 0 /\ Over(q) = 0 + x + (0 - 0) - e
    BY <1>1, <1>3, <1>4, <1>5 DEF StatType, Over
  <1>7. c = [s EXCEPT !.stat = q]
    BY <1>3, <1>4, <1>5 DEF ResetCounters
  <1>8. Same(c, s) /\ c.stat = q /\ c.tcp = s.tcp
    BY <1>1, <1>6, <1>7 DEF Same, StateType
  <1>9. Good(c, w, n)
    BY <1>8, SameKeeps
  <1>10. c.tasks = s.tasks
    BY <1>8 DEF Same
  <1>11. 0 = (0 + x + (0 - 0) - e) + y + z + k
    BY <1>4
  <1>12. Owed(c, w, k)
    BY <1>3, <1>6, <1>8, <1>10, <1>11 DEF Owed
  <1> QED BY <1>9, <1>12

(* Bad Request! or Id too long!                                            *)
LEMMA RefuseKeeps ==
  ASSUME NEW s, NEW w, NEW n, NEW c, NEW counted \in BOOLEAN, Good(s, w, n), c \in Refuse(s, counted)
  PROVE  Good(c, w, n) /\ Good(c, w, n + 1) /\ Ended(c, s, IF counted THEN 1 ELSE 0)
  <1>1. Answer(0, "bad") \in AnswerType /\ Answer(0, "bad").req = 0 /\ Answer(0, "bad").what = "bad"
    BY DEF Answer, AnswerType
  <1>2. PICK t \in Send(s, Answer(0, "bad")) :
          c = [t EXCEPT !.tcp.down = TRUE, !.stat.bad = @ + 1, !.stat.other = IF counted THEN @ ELSE @ + 1]
    BY DEF Refuse
  <1>3. Said(t, s, Answer(0, "bad"))
    BY <1>1, SendSays, StateFields
  <1>4. Good(t, w, n)
    BY <1>1, <1>3, RefusalSaid
  <1>5. t \in StateType /\ t.stat \in StatType /\ t.tcp \in TcpType /\ t.stat = s.stat /\ t.tasks = s.tasks
    BY <1>3, <1>4, StateFields DEF Said
  <1>6. PICK o : o = IF counted THEN t.stat.other ELSE t.stat.other + 1
    OBVIOUS
  <1>7. PICK q : q = [t.stat EXCEPT !.bad = t.stat.bad + 1, !.other = o]
    OBVIOUS
  <1>8. PICK p : p = [t.tcp EXCEPT !.down = TRUE]
    OBVIOUS
  <1>9. t.stat.other \in Int /\ t.stat.bad \in Int /\ o \in Int
    BY <1>5, <1>6 DEF StatType
  <1>10. q \in StatType /\ q.bad = t.stat.bad + 1 /\ q.other = o /\ q.requests = t.stat.requests
           /\ q.responses = t.stat.responses /\ q.dropped = t.stat.dropped /\ q.carried = t.stat.carried
    <2>1. PICK b \in Int : b = t.stat.bad + 1
      BY <1>9
    <2>2. q = [t.stat EXCEPT !.bad = b, !.other = o]
      BY <1>7, <2>1
    <2> QED BY <1>5, <1>9, <2>1, <2>2 DEF StatType
  <1>11. p \in TcpType /\ p.down = TRUE
    BY <1>5, <1>8 DEF TcpType
  <1>12. c = [t EXCEPT !.tcp = p, !.stat = q]
    BY <1>2, <1>5, <1>6, <1>7, <1>8 DEF StateType, StatType
  <1>13. Same(c, t) /\ c.stat = q /\ c.tcp = p
    BY <1>5, <1>10, <1>11, <1>12 DEF Same, StateType
  <1>14. Good(c, w, n) /\ Good(c, w, n + 1)
    BY <1>4, <1>11, <1>13, SameKeeps
  <1>15. Ended(c, s, IF counted THEN 1 ELSE 0)
    <2>1. CASE counted
      <3>1. q.other = t.stat.other + (1 - 1)
        BY <1>6, <1>9, <1>10, <2>1
      <3>2. Over(q) = Over(t.stat) + 1
        BY <1>5, <1>10, <3>1, OverCounts
      <3> QED BY <1>5, <1>10, <1>13, <2>1, <3>2 DEF Ended, Same
    <2>2. CASE ~counted
      <3>1. q.other = t.stat.other + (1 - 0)
        BY <1>6, <1>9, <1>10, <2>2
      <3>2. Over(q) = Over(t.stat) + 0
        BY <1>5, <1>10, <3>1, OverCounts
      <3> QED BY <1>5, <1>10, <1>13, <2>2, <3>2 DEF Ended, Same
    <2> QED BY <2>1, <2>2
  <1> QED BY <1>14, <1>15

(* The answer to a new request is sent at once and counted.                *)
LEMMA FreshCounted ==
  ASSUME NEW s, NEW w, NEW n, NEW c, NEW what \in {"result", "busy"}, Good(s, w, n), Threads \in Nat,
         Prod \/ Threads = 0, NEW t \in Send(s, Answer(n + 1, what)),
         \/ c = [t EXCEPT !.stat.responses = @ + 1]
         \/ c = [t EXCEPT !.stat.dropped = @ + 1]
  PROVE  Good(c, w, n + 1) /\ Ended(c, s, 1)
  <1>1. Answer(n + 1, what) \in AnswerType /\ Answer(n + 1, what).req = n + 1
    BY DEF Answer, AnswerType, Good
  <1>2. Said(t, s, Answer(n + 1, what))
    BY <1>1, SendSays, StateFields
  <1>3. Good(t, w, n + 1)
    BY <1>1, <1>2, FreshSaid
  <1>4. t \in StateType /\ t.stat \in StatType /\ t.stat = s.stat /\ t.tasks = s.tasks
    BY <1>2, <1>3, StateFields DEF Said
  <1>5. PICK q : /\ q = [t.stat EXCEPT !.responses = @ + 1] \/ q = [t.stat EXCEPT !.dropped = @ + 1]
                 /\ c = [t EXCEPT !.stat = q]
    BY <1>4 DEF StateType
  <1>6. /\ q \in StatType /\ q.requests = t.stat.requests /\ q.bad = t.stat.bad /\ q.other = t.stat.other
        /\ q.responses + q.dropped = t.stat.responses + t.stat.dropped + 1 /\ q.carried = t.stat.carried
    BY <1>4, <1>5 DEF StatType
  <1>7. Same(c, t) /\ c.stat = q /\ c.tcp = t.tcp
    BY <1>4, <1>5, <1>6 DEF Same, StateType
  <1>8. Good(c, w, n + 1)
    BY <1>3, <1>7, SameKeeps
  <1>9. Ended(c, s, 1)
    <2>1. Over(q) = Over(t.stat) + 1
      BY <1>4, <1>6, OverCounts
    <2> QED BY <1>4, <1>6, <1>7, <2>1 DEF Ended, Same
  <1> QED BY <1>8, <1>9

(* processRequest: the next request is answered, queued, dropped or        *)
(* refused, and counted once.                                              *)
LEMMA ProcessKeeps ==
  ASSUME NEW s, NEW w, NEW n, NEW c, Good(s, w, n), Threads \in Nat, Owed(s, w, 1), c \in ProcessRequest(s, n + 1)
  PROVE  Good(c, w, n + 1) /\ Owed(c, w, 0)
  <1>1. ASSUME Good(c, w, n + 1), Ended(c, s, 1) PROVE Owed(c, w, 0)
    <2>1. s \in StateType /\ c \in StateType /\ Ended(c, s, 1 - 0)
      BY <1>1, StateFields
    <2> QED BY <2>1, EndedOwed
  <1>2. CASE c \in Refuse(s, TRUE)
    BY <1>1, <1>2, RefuseKeeps
  <1>3. CASE Prod /\ c \in {[t EXCEPT !.stat.dropped = @ + 1] : t \in Send(s, Answer(n + 1, "busy"))}
    <2>1. PICK t \in Send(s, Answer(n + 1, "busy")) : c = [t EXCEPT !.stat.dropped = @ + 1]
      BY <1>3
    <2> QED BY <1>1, <1>3, <2>1, FreshCounted
  <1>4. CASE Threads = 0 /\ c \in SolveHere(s, n + 1)
    <2>1. PICK t \in Send(s, Answer(n + 1, "result")) : c = [t EXCEPT !.stat.responses = @ + 1]
      BY <1>4 DEF SolveHere
    <2> QED BY <1>1, <1>4, <2>1, FreshCounted
  <1>5. CASE Threads # 0 /\ c = [s EXCEPT !.tasks = Append(@, n + 1)]
    <2>1. Typed(s.tasks, s.functors, s.sent, w, n) /\ s \in StateType
      BY StateFields
    <2>2. Placed(s.tasks, s.functors, s.sent, w, n, s.tcp.down) /\ n \in Nat /\ w \in WorkType
      BY DEF Good
    <2>3. PICK U : U = Append(s.tasks, n + 1)
      OBVIOUS
    <2>4. Grown(Nat, U, s.tasks, n + 1)
      BY <2>1, <2>2, <2>3, AppendGrows DEF Typed
    <2>5. U \in Seq(Nat) /\ Len(U) = Len(s.tasks) + 1
      BY <2>4 DEF Grown
    <2>6. c = [s EXCEPT !.tasks = U]
      BY <1>5, <2>1, <2>3 DEF StateType
    <2>7. c \in StateType /\ c.tasks = U /\ c.functors = s.functors /\ c.sent = s.sent /\ c.tcp = s.tcp /\ c.stat = s.stat
      BY <2>1, <2>5, <2>6 DEF StateType
    <2>8. Placed(U, s.functors, s.sent, w, n + 1, s.tcp.down)
      BY <1>5, <2>1, <2>2, <2>4, FreshQueued
    <2>9. Good(c, w, n + 1)
      BY <2>2, <2>7, <2>8 DEF Good
    <2>10. Owed(c, w, 0)
      <3>1. Numbers(s, w)
        BY <2>1, StateNumbers
      <3>2. PICK x, y, z \in Int : x = Over(s.stat) /\ y = Len(s.tasks) /\ z = Loaded(w)
        BY <3>1 DEF Numbers
      <3>3. s.stat.requests = x + y + z + 1
        BY <3>2 DEF Owed
      <3>4. s.stat.requests = x + (y + 1) + z + 0
        BY <3>3
      <3> QED BY <2>5, <2>7, <3>2, <3>4 DEF Owed
    <2> QED BY <2>9, <2>10
  <1> QED BY <1>2, <1>3, <1>4, <1>5 DEF ProcessRequest, Dispatch
\* The inductive invariant.
ServerInv ==
  /\ server \in Variants /\ input \in [got : Int, taken : Nat, busy : BOOLEAN]
  /\ Good(State, work, input.taken) /\ Owed(State, work, 0)

LEMMA PoolSize == ServerInv => Threads \in Nat
  BY ThreadsAssumption DEF ServerInv, Threads

LEMMA StateIs ==
  State.tcp = tcp /\ State.functors = functors /\ State.sent = sent /\ State.stat = stat /\ State.tasks = tasks
  BY DEF State

(* A state that the variables become.                                      *)
LEMMA BecomeState ==
  ASSUME NEW CONSTANT s, s \in StateType, Become(s)
  PROVE  State' = s
  <1>1. State' = [tcp |-> s.tcp, functors |-> s.functors, sent |-> s.sent, stat |-> s.stat, tasks |-> s.tasks]
    BY DEF Become, State
  <1>2. s = [tcp |-> s.tcp, functors |-> s.functors, sent |-> s.sent, stat |-> s.stat, tasks |-> s.tasks]
    BY DEF StateType
  <1> QED BY <1>1, <1>2

(* A thread that gets a request, and one that is idle again.               *)
LEMMA LoadChanges ==
  ASSUME NEW w \in WorkType, NEW v \in Workers, NEW x \in [req : Nat, sent : BOOLEAN], NEW u,
         u = [w EXCEPT ![v] = x]
  PROVE  /\ w[v].req = 0 /\ x.req # 0 => Loaded(u) = Loaded(w) + 1
         /\ w[v].req # 0 /\ x.req = 0 => Loaded(u) = Loaded(w) - 1
         /\ w[v].req = x.req => Loaded(u) = Loaded(w)
  <1>1. PICK S : S = {z \in Workers : w[z].req # 0}
    OBVIOUS
  <1>2. PICK R : R = {z \in Workers : u[z].req # 0}
    OBVIOUS
  <1>3. IsFiniteSet(S) /\ Loaded(w) = Cardinality(S) /\ Loaded(u) = Cardinality(R)
    BY <1>1, <1>2, LoadedNat, Zenon DEF Loaded
  <1>4. \A z \in Workers : u[z] = IF z = v THEN x ELSE w[z]
    BY DEF WorkType
  <1>5. ASSUME w[v].req = 0, x.req # 0 PROVE Loaded(u) = Loaded(w) + 1
    <2>1. R = S \cup {v} /\ v \notin S
      BY <1>1, <1>2, <1>4, <1>5
    <2> QED BY <1>3, <2>1, FS_AddElement
  <1>6. ASSUME w[v].req # 0, x.req = 0 PROVE Loaded(u) = Loaded(w) - 1
    <2>1. R = S \ {v} /\ v \in S
      BY <1>1, <1>2, <1>4, <1>6
    <2> QED BY <1>3, <2>1, FS_RemoveElement
  <1>7. ASSUME w[v].req = x.req PROVE Loaded(u) = Loaded(w)
    <2>1. R = S
      BY <1>1, <1>2, <1>4, <1>7
    <2> QED BY <1>3, <2>1
  <1> QED BY <1>5, <1>6, <1>7

LEMMA InitServerInv == SudokuInit => ServerInv
  <1> SUFFICES ASSUME SudokuInit PROVE ServerInv
    OBVIOUS
  <1>1. /\ tasks = << >> /\ functors = << >> /\ sent = << >> /\ work = [v \in Workers |-> Idle] /\ input.taken = 0
        /\ server \in Variants /\ input \in [got : Int, taken : Nat, busy : BOOLEAN]
    BY DEF SudokuInit
  <1>2. tcp \in TcpType /\ stat \in StatType
    BY DEF SudokuInit, TcpType, StatType
  <1>3. State \in StateType
    BY <1>1, <1>2 DEF State, StateType
  <1>4. work \in WorkType /\ \A v \in Workers : work[v].req = 0 /\ ~work[v].sent
    BY <1>1 DEF Idle, WorkType
  <1>5. Placed(tasks, functors, sent, work, 0, tcp.down)
    <2>1. Len(tasks) = 0 /\ Len(functors) = 0 /\ Len(sent) = 0
      BY <1>1
    <2>2. Within(tasks, functors, sent, work, 0)
      BY <1>4, <2>1 DEF Within
    <2>3. Apart(tasks, functors, sent, work)
      BY <1>4, <2>1 DEF Apart, Solves
    <2>4. InTurn(tasks, functors, sent, work)
      BY <1>4, <2>1 DEF InTurn, Solves
    <2>5. PoolUsed(tasks, functors, work)
      BY <1>1, <1>4, <2>1 DEF PoolUsed
    <2> QED BY <2>2, <2>3, <2>4, <2>5 DEF Placed
  <1>6. Good(State, work, input.taken)
    BY <1>1, <1>3, <1>4, <1>5, StateIs DEF Good
  <1>7. Owed(State, work, 0)
    <2>1. {v \in Workers : work[v].req # 0} = {}
      BY <1>4
    <2>2. Loaded(work) = 0
      BY <2>1, FS_EmptySet DEF Loaded
    <2>3. Over(stat) = 0 /\ stat.requests = 0
      BY DEF SudokuInit, Over
    <2>4. Len(tasks) = 0
      BY <1>1
    <2> QED BY <2>2, <2>3, <2>4, StateIs DEF Owed
  <1> QED BY <1>1, <1>6, <1>7 DEF ServerInv

(* A step that leads to a good state.                                      *)
LEMMA Reached ==
  ASSUME NEW CONSTANT c, NEW CONSTANT w, NEW CONSTANT n, ServerInv, server' = server,
         State' = c, work' = w, input' \in [got : Int, taken : Nat, busy : BOOLEAN], input'.taken = n,
         Good(c, w, n), Owed(c, w, 0)
  PROVE  ServerInv'
  <1>1. Good(State, work, input.taken)'
    BY DEF Good, Placed, PoolUsed, Threads, Prod
  <1>2. Owed(State, work, 0)'
    BY DEF Owed
  <1> QED BY <1>1, <1>2 DEF ServerInv

\* The data, in constants.
Now(s, w, i) == s = State /\ w = work /\ i = input

(* The variables of the connection as constants.                           *)
LEMMA NowGood ==
  ASSUME NEW CONSTANT s, NEW CONSTANT w, NEW CONSTANT i, ServerInv, Now(s, w, i)
  PROVE  /\ Good(s, w, i.taken) /\ Owed(s, w, 0) /\ s \in StateType /\ w \in WorkType
         /\ Typed(s.tasks, s.functors, s.sent, w, i.taken)
         /\ Placed(s.tasks, s.functors, s.sent, w, i.taken, s.tcp.down)
         /\ i \in [got : Int, taken : Nat, busy : BOOLEAN] /\ Threads \in Nat
  <1>1. Good(s, w, i.taken) /\ Owed(s, w, 0) /\ i \in [got : Int, taken : Nat, busy : BOOLEAN]
    BY DEF ServerInv, Now
  <1>2. Typed(s.tasks, s.functors, s.sent, w, i.taken)
    BY <1>1, StateFields
  <1>3. s \in StateType /\ w \in WorkType /\ Placed(s.tasks, s.functors, s.sent, w, i.taken, s.tcp.down)
    BY <1>1 DEF Good
  <1> QED BY <1>1, <1>2, <1>3, PoolSize

LEMMA ArriveInv ==
  ASSUME ServerInv, NEW m \in 1 .. Units(Len(line)), Arrive(m)
  PROVE  ServerInv'
  <1>0. PICK s, w, i : Now(s, w, i)
    BY DEF Now
  <1>1. Good(s, w, i.taken) /\ Owed(s, w, 0) /\ i \in [got : Int, taken : Nat, busy : BOOLEAN]
    BY <1>0, NowGood
  <1>2. input' = [i EXCEPT !.got = @ + m, !.busy = TRUE] /\ server' = server /\ work' = w
    BY <1>0 DEF Arrive, Now
  <1>3. State' = s
    BY <1>0 DEF Arrive, State, Now
  <1>4. m \in Int
    OBVIOUS
  <1>5. input' \in [got : Int, taken : Nat, busy : BOOLEAN] /\ input'.taken = i.taken
    <2>1. PICK x \in Int : x = i.got + m
      BY <1>1, <1>4
    <2>2. input' = [i EXCEPT !.got = x, !.busy = TRUE]
      BY <1>2, <2>1
    <2> QED BY <1>1, <2>1, <2>2
  <1> QED BY <1>1, <1>2, <1>3, <1>5, Reached

LEMMA DrainInv ==
  ASSUME ServerInv, Drain
  PROVE  ServerInv'
  <1>0. PICK s, w, i : Now(s, w, i)
    BY DEF Now
  <1>1. /\ Good(s, w, i.taken) /\ Owed(s, w, 0) /\ s \in StateType /\ w \in WorkType
        /\ Typed(s.tasks, s.functors, s.sent, w, i.taken)
        /\ Placed(s.tasks, s.functors, s.sent, w, i.taken, s.tcp.down)
        /\ i \in [got : Int, taken : Nat, busy : BOOLEAN]
    BY <1>0, NowGood
  <1>2. s.tcp = tcp /\ s.functors = functors /\ s.sent = sent /\ s.stat = stat /\ s.tasks = tasks
    BY <1>0, StateIs DEF Now
  <1>3. PICK p : p = [s.tcp EXCEPT !.out = @ - 1]
    OBVIOUS
  <1>4. PICK F : F = IF s.tcp.out = 1 /\ s.tcp.notify THEN Append(s.functors, [op |-> "wrote"]) ELSE s.functors
    OBVIOUS
  <1>5. /\ tcp' = p /\ functors' = F /\ sent' = s.sent /\ stat' = s.stat /\ tasks' = s.tasks
        /\ work' = w /\ input' = i /\ server' = server
    BY <1>0, <1>2, <1>3, <1>4 DEF Drain, Now
  <1>6. p \in TcpType /\ p.down = s.tcp.down
    <2>1. s.tcp \in TcpType /\ s.tcp.out > 0
      BY <1>1, <1>2 DEF StateType, Drain
    <2>2. PICK k : k = s.tcp.out - 1
      OBVIOUS
    <2>3. k \in Nat
      BY <2>1, <2>2 DEF TcpType
    <2>4. p = [s.tcp EXCEPT !.out = k]
      BY <1>3, <2>2
    <2> QED BY <2>1, <2>3, <2>4 DEF TcpType
  <1>7. F \in Seq(FunctorType) /\ Placed(s.tasks, F, s.sent, w, i.taken, s.tcp.down)
    <2>1. [op |-> "wrote"] \in QuietFunctor /\ [op |-> "wrote"] \in FunctorType /\ s.functors \in Seq(FunctorType)
      BY <1>1 DEF QuietFunctor, FunctorType, Typed
    <2>2. Quiet(Append(s.functors, [op |-> "wrote"]), s.functors, [op |-> "wrote"])
      BY <2>1, AppendGrows DEF Quiet
    <2>3. Placed(s.tasks, Append(s.functors, [op |-> "wrote"]), s.sent, w, i.taken, s.tcp.down)
      BY <1>1, <2>2, QuietKeeps
    <2> QED BY <1>1, <1>4, <2>1, <2>3
  <1>8. PICK c : c = [tcp |-> p, functors |-> F, sent |-> s.sent, stat |-> s.stat, tasks |-> s.tasks]
    OBVIOUS
  <1>9. State' = c
    BY <1>5, <1>8 DEF State
  <1>10. c \in StateType
    BY <1>1, <1>6, <1>7, <1>8 DEF StateType
  <1>11. Good(c, w, i.taken)
    BY <1>1, <1>6, <1>7, <1>8, <1>10 DEF Good
  <1>12. Owed(c, w, 0)
    BY <1>1, <1>8 DEF Owed
  <1> QED BY <1>1, <1>5, <1>9, <1>11, <1>12, Reached

LEMMA OnMessageInv ==
  ASSUME ServerInv, OnMessage
  PROVE  ServerInv'
  <1>0. PICK s, w, i : Now(s, w, i)
    BY DEF Now
  <1>1. /\ Good(s, w, i.taken) /\ Owed(s, w, 0) /\ s \in StateType /\ Threads \in Nat
        /\ i \in [got : Int, taken : Nat, busy : BOOLEAN]
    BY <1>0, NowGood
  <1>2. server' = server /\ work' = w
    BY <1>0 DEF OnMessage, Now
  <1>3. s = State /\ i = input
    BY <1>0 DEF Now
  <1>4. PICK d : d = [s EXCEPT !.stat.requests = @ + 1]
    OBVIOUS
  <1>12. Good(d, w, i.taken) /\ Owed(d, w, 1)
    <2>1. s.stat \in StatType
      BY <1>1 DEF StateType
    <2>2. PICK q : q = [s.stat EXCEPT !.requests = @ + 1]
      OBVIOUS
    <2>3. q \in StatType /\ q.requests = s.stat.requests + 1
      BY <2>1, <2>2 DEF StatType
    <2>4. d = [s EXCEPT !.stat = q]
      BY <1>1, <1>4, <2>2 DEF StateType
    <2>5. Same(d, s) /\ d.stat = q /\ d.tcp = s.tcp
      BY <1>1, <2>3, <2>4 DEF Same, StateType
    <2>6. Good(d, w, i.taken)
      BY <1>1, <2>5, SameKeeps
    <2>7. Over(q) = Over(s.stat)
      BY <2>1, <2>2 DEF Over, StatType
    <2>8. Numbers(s, w)
      BY <1>1, StateNumbers
    <2>9. Owed(d, w, 1)
      <3>1. PICK x, y, z \in Int : x = Over(s.stat) /\ y = Len(s.tasks) /\ z = Loaded(w)
        BY <2>8 DEF Numbers
      <3>2. s.stat.requests = x + y + z + 0
        BY <1>1, <3>1 DEF Owed
      <3>3. q.requests = x + y + z + 1
        BY <2>3, <3>2
      <3> QED BY <2>5, <2>7, <3>1, <3>3 DEF Owed, Same
    <2> QED BY <2>6, <2>9
  <1>5. ASSUME NEW e \in RecordRequest(s) PROVE Good(e, w, i.taken) /\ Owed(e, w, 1)
    <2>1. CASE e = d
      BY <1>12, <2>1
    <2>2. CASE e = ResetCounters(d, InHand(d) + 1)
      <3>1. PICK h : h = Len(d.tasks) + Loaded(w) + 1
        OBVIOUS
      <3>2. InHand(d) + 1 = h
        BY <1>0, <3>1 DEF InHand, Loaded, Now
      <3> QED BY <1>12, <2>2, <3>1, <3>2, ResetKeeps
    <2> QED BY <1>4, <1>5, <2>1, <2>2 DEF RecordRequest
  <1>6. ASSUME NEW e \in RecordRequest(s), NEW c \in ProcessRequest(e, i.taken + 1), Become(c), NEW b \in BOOLEAN,
               input' = [i EXCEPT !.taken = i.taken + 1, !.busy = b]
        PROVE  ServerInv'
    <2>1. Good(c, w, i.taken + 1) /\ Owed(c, w, 0)
      BY <1>1, <1>5, <1>6, ProcessKeeps
    <2>2. State' = c
      BY <1>6, <2>1, BecomeState DEF Good
    <2>3. PICK k \in Nat : k = i.taken + 1
      BY <1>1
    <2>4. input' \in [got : Int, taken : Nat, busy : BOOLEAN] /\ input'.taken = k
      BY <1>1, <1>6, <2>3
    <2> QED BY <1>2, <2>1, <2>2, <2>3, <2>4, Reached
  <1>7. ASSUME NEW c, Good(c, w, i.taken), Owed(c, w, 0), State' = c, input' = [i EXCEPT !.busy = FALSE]
        PROVE  ServerInv'
    <2>1. input' \in [got : Int, taken : Nat, busy : BOOLEAN] /\ input'.taken = i.taken
      BY <1>1, <1>7
    <2> QED BY <1>2, <1>7, <2>1, Reached
  <1>8. ASSUME NEW c \in Refuse(s, FALSE), Become(c), input' = [i EXCEPT !.busy = FALSE]
        PROVE  ServerInv'
    <2>1. Good(c, w, i.taken) /\ Ended(c, s, 0)
      BY <1>1, RefuseKeeps
    <2>2. c \in StateType /\ Ended(c, s, 0 - 0)
      BY <2>1 DEF Good
    <2>3. Owed(c, w, 0)
      BY <1>1, <2>2, EndedOwed
    <2>4. State' = c
      BY <1>8, <2>2, BecomeState
    <2> QED BY <1>7, <1>8, <2>1, <2>3, <2>4
  <1>9. ASSUME UNCHANGED <<tcp, functors, sent, stat, tasks>>, input' = [i EXCEPT !.busy = FALSE]
        PROVE  ServerInv'
    <2>1. State' = s
      BY <1>3, <1>9 DEF State
    <2> QED BY <1>1, <1>7, <1>9, <2>1
  <1>10. \/ /\ \E e \in RecordRequest(s) : \E c \in ProcessRequest(e, i.taken + 1) : Become(c)
            /\ input' = [i EXCEPT !.taken = i.taken + 1, !.busy = Acceptable(i.taken + 1)]
         \/ input' = [i EXCEPT !.busy = FALSE] /\ \E c \in Refuse(s, FALSE) : Become(c)
         \/ input' = [i EXCEPT !.busy = FALSE] /\ UNCHANGED <<tcp, functors, sent, stat, tasks>>
    BY <1>3, Zenon DEF OnMessage
  <1>11. Acceptable(i.taken + 1) \in BOOLEAN
    BY DEF Acceptable
  <1> QED BY <1>6, <1>8, <1>9, <1>10, <1>11

LEMMA StatResetInv ==
  ASSUME ServerInv, StatReset
  PROVE  ServerInv'
  <1>0. PICK s, w, i : Now(s, w, i)
    BY DEF Now
  <1>1. /\ Good(s, w, i.taken) /\ Owed(s, w, 0) /\ s \in StateType
        /\ i \in [got : Int, taken : Nat, busy : BOOLEAN]
    BY <1>0, NowGood
  <1>2. PICK h : h = Len(s.tasks) + Loaded(w) + 0
    OBVIOUS
  <1>3. InHand(s) = h
    <2>1. Numbers(s, w)
      BY <1>1, StateNumbers
    <2>2. InHand(s) = Len(s.tasks) + Loaded(w)
      BY <1>0 DEF InHand, Loaded, Now
    <2> QED BY <1>2, <2>1, <2>2 DEF Numbers
  <1>4. PICK c : c = ResetCounters(s, h)
    OBVIOUS
  <1>5. Good(c, w, i.taken) /\ Owed(c, w, 0)
    BY <1>1, <1>2, <1>4, ResetKeeps
  <1>6. Become(c) /\ server' = server /\ work' = w /\ input' = i
    BY <1>0, <1>3, <1>4 DEF StatReset, Now
  <1>7. State' = c
    BY <1>5, <1>6, BecomeState DEF Good
  <1> QED BY <1>1, <1>5, <1>6, <1>7, Reached

LEMMA TakeInv ==
  ASSUME ServerInv, NEW v \in Workers, Take(v)
  PROVE  ServerInv'
  <1>0. PICK s, w, i : Now(s, w, i)
    BY DEF Now
  <1>1. /\ Owed(s, w, 0) /\ s \in StateType /\ w \in WorkType /\ Threads \in Nat
        /\ Typed(s.tasks, s.functors, s.sent, w, i.taken)
        /\ Placed(s.tasks, s.functors, s.sent, w, i.taken, s.tcp.down)
        /\ i \in [got : Int, taken : Nat, busy : BOOLEAN]
    BY <1>0, NowGood
  <1>2. s.tcp = tcp /\ s.functors = functors /\ s.sent = sent /\ s.stat = stat /\ s.tasks = tasks /\ w = work /\ i = input
    BY <1>0, StateIs DEF Now
  <1>3. PICK U, q : U = Tail(s.tasks) /\ q = Head(s.tasks)
    OBVIOUS
  <1>4. PICK x : x = [req |-> q, sent |-> FALSE]
    OBVIOUS
  <1>5. PICK u : u = [w EXCEPT ![v] = x]
    OBVIOUS
  <1>6. /\ tcp' = s.tcp /\ functors' = s.functors /\ sent' = s.sent /\ stat' = s.stat /\ tasks' = U
        /\ work' = u /\ input' = i /\ server' = server /\ v =< Threads /\ w[v] = Idle /\ s.tasks # << >>
    BY <1>2, <1>3, <1>4, <1>5 DEF Take
  <1>7. Shrunk(Nat, U, s.tasks, q)
    BY <1>1, <1>3, <1>6, TailShrinks DEF Typed
  <1>8. U \in Seq(Nat) /\ q \in Nat /\ Len(s.tasks) = Len(U) + 1 /\ Len(U) \in Nat /\ q = s.tasks[1]
    BY <1>7 DEF Shrunk
  <1>9. Placed(U, s.functors, s.sent, u, i.taken, s.tcp.down)
    BY <1>1, <1>4, <1>5, <1>6, <1>7, TakeKeeps
  <1>10. x \in [req : Nat, sent : BOOLEAN] /\ u \in WorkType
    BY <1>1, <1>4, <1>5, <1>8 DEF WorkType
  <1>11. PICK c : c = [tcp |-> s.tcp, functors |-> s.functors, sent |-> s.sent, stat |-> s.stat, tasks |-> U]
    OBVIOUS
  <1>12. State' = c
    BY <1>6, <1>11 DEF State
  <1>13. c \in StateType
    BY <1>1, <1>8, <1>11 DEF StateType
  <1>14. Good(c, u, i.taken)
    BY <1>1, <1>9, <1>10, <1>11, <1>13 DEF Good
  <1>15. Owed(c, u, 0)
    <2>1. q # 0
      <3>1. 1 \in 1 .. Len(s.tasks)
        BY <1>8
      <3> QED BY <1>1, <1>8, <3>1 DEF Placed, Within
    <2>2. w[v].req = 0 /\ x.req = q /\ x.req \in Nat
      BY <1>4, <1>6, <1>8 DEF Idle
    <2>3. Loaded(u) = Loaded(w) + 1
      <3>1. w \in WorkType /\ x \in [req : Nat, sent : BOOLEAN] /\ w[v].req = 0 /\ x.req # 0
        BY <1>1, <1>10, <2>1, <2>2
      <3> QED BY <1>5, <3>1, LoadChanges, ZenonT(60)
    <2>4. Numbers(s, w)
      BY <1>1, StateNumbers
    <2>5. PICK a, b, e \in Int : a = Over(s.stat) /\ b = Len(U) /\ e = Loaded(w)
      BY <1>8, <2>4 DEF Numbers
    <2>6. s.stat.requests = a + (b + 1) + e + 0
      <3>1. s.stat.requests = Over(s.stat) + Len(s.tasks) + Loaded(w) + 0
        BY <1>1 DEF Owed
      <3> QED BY <1>8, <2>5, <3>1, Zenon
    <2>7. s.stat.requests = a + b + (e + 1) + 0
      BY <2>6
    <2> QED BY <1>11, <2>3, <2>5, <2>7 DEF Owed
  <1> QED BY <1>1, <1>6, <1>12, <1>14, <1>15, Reached

LEMMA SolveAndSendInv ==
  ASSUME ServerInv, NEW v \in Workers, SolveAndSend(v)
  PROVE  ServerInv'
  <1>0. PICK s, w, i : Now(s, w, i)
    BY DEF Now
  <1>1. /\ Owed(s, w, 0) /\ s \in StateType /\ w \in WorkType /\ Threads \in Nat
        /\ Typed(s.tasks, s.functors, s.sent, w, i.taken)
        /\ Placed(s.tasks, s.functors, s.sent, w, i.taken, s.tcp.down)
        /\ i \in [got : Int, taken : Nat, busy : BOOLEAN]
    BY <1>0, NowGood
  <1>2. s.tcp = tcp /\ s.functors = functors /\ s.sent = sent /\ s.stat = stat /\ s.tasks = tasks /\ w = work /\ i = input
    BY <1>0, StateIs DEF Now
  <1>3. PICK x : x = [op |-> "send", answer |-> Answer(w[v].req, "result")]
    OBVIOUS
  <1>4. PICK G : G = IF s.tcp.down THEN s.functors ELSE Append(s.functors, x)
    OBVIOUS
  <1>5. PICK u : u = [w EXCEPT ![v].sent = TRUE]
    OBVIOUS
  <1>6. /\ tcp' = s.tcp /\ functors' = G /\ sent' = s.sent /\ stat' = s.stat /\ tasks' = s.tasks
        /\ work' = u /\ input' = i /\ server' = server /\ Solves(w, v)
    BY <1>2, <1>3, <1>4, <1>5 DEF SolveAndSend, Solves
  <1>7. w[v].req \in Nat /\ w[v] \in [req : Nat, sent : BOOLEAN]
    BY <1>1 DEF WorkType
  <1>8. x \in FunctorType /\ x.op = "send" /\ x.answer.req = w[v].req /\ x.answer.what = "result"
    BY <1>3, <1>7 DEF FunctorType, AnswerType, Answer
  <1>9. G \in Seq(FunctorType) /\ ((G = s.functors /\ s.tcp.down) \/ Grown(FunctorType, G, s.functors, x))
    <2>1. s.functors \in Seq(FunctorType)
      BY <1>1 DEF Typed
    <2>2. Grown(FunctorType, Append(s.functors, x), s.functors, x)
      BY <1>8, <2>1, AppendGrows
    <2>3. Append(s.functors, x) \in Seq(FunctorType)
      BY <2>2 DEF Grown
    <2> QED BY <1>4, <2>1, <2>2, <2>3
  <1>10. Placed(s.tasks, G, s.sent, u, i.taken, s.tcp.down)
    BY <1>1, <1>5, <1>6, <1>8, <1>9, SolveKeeps
  <1>11. PICK y : y = [w[v] EXCEPT !.sent = TRUE]
    OBVIOUS
  <1>12. y \in [req : Nat, sent : BOOLEAN] /\ y.req = w[v].req /\ u = [w EXCEPT ![v] = y]
    BY <1>1, <1>5, <1>7, <1>11
  <1>13. u \in WorkType
    BY <1>1, <1>12 DEF WorkType
  <1>14. PICK c : c = [tcp |-> s.tcp, functors |-> G, sent |-> s.sent, stat |-> s.stat, tasks |-> s.tasks]
    OBVIOUS
  <1>15. State' = c
    BY <1>6, <1>14 DEF State
  <1>16. c \in StateType
    BY <1>1, <1>9, <1>14 DEF StateType
  <1>17. Good(c, u, i.taken)
    BY <1>1, <1>10, <1>13, <1>14, <1>16 DEF Good
  <1>18. Owed(c, u, 0)
    <2>1. Loaded(u) = Loaded(w)
      <3>1. w \in WorkType /\ w[v].req = y.req
        BY <1>1, <1>12
      <3> QED BY <1>12, <3>1, LoadChanges, ZenonT(60)
    <2> QED BY <1>1, <1>14, <2>1 DEF Owed
  <1> QED BY <1>1, <1>6, <1>15, <1>17, <1>18, Reached

LEMMA RecordResponseInv ==
  ASSUME ServerInv, NEW v \in Workers, RecordResponse(v)
  PROVE  ServerInv'
  <1>0. PICK s, w, i : Now(s, w, i)
    BY DEF Now
  <1>1. /\ Owed(s, w, 0) /\ s \in StateType /\ w \in WorkType /\ Threads \in Nat
        /\ Typed(s.tasks, s.functors, s.sent, w, i.taken)
        /\ Placed(s.tasks, s.functors, s.sent, w, i.taken, s.tcp.down)
        /\ i \in [got : Int, taken : Nat, busy : BOOLEAN]
    BY <1>0, NowGood
  <1>2. s.tcp = tcp /\ s.functors = functors /\ s.sent = sent /\ s.stat = stat /\ s.tasks = tasks /\ w = work /\ i = input
    BY <1>0, StateIs DEF Now
  <1>3. PICK q : q = [s.stat EXCEPT !.responses = @ + 1]
    OBVIOUS
  <1>4. PICK u : u = [w EXCEPT ![v] = Idle]
    OBVIOUS
  <1>5. /\ tcp' = s.tcp /\ functors' = s.functors /\ sent' = s.sent /\ stat' = q /\ tasks' = s.tasks
        /\ work' = u /\ input' = i /\ server' = server /\ w[v].sent
    BY <1>2, <1>3, <1>4 DEF RecordResponse
  <1>6. Placed(s.tasks, s.functors, s.sent, u, i.taken, s.tcp.down)
    BY <1>1, <1>4, <1>5, RecordKeeps
  <1>7. Idle \in [req : Nat, sent : BOOLEAN] /\ Idle.req = 0
    BY DEF Idle
  <1>8. u \in WorkType
    BY <1>1, <1>4, <1>7 DEF WorkType
  <1>9. s.stat \in StatType
    BY <1>1 DEF StateType
  <1>10. /\ q \in StatType /\ q.requests = s.stat.requests /\ q.bad = s.stat.bad /\ q.other = s.stat.other
         /\ q.responses + q.dropped = s.stat.responses + s.stat.dropped + 1 /\ q.carried = s.stat.carried
    BY <1>3, <1>9 DEF StatType
  <1>11. PICK c : c = [tcp |-> s.tcp, functors |-> s.functors, sent |-> s.sent, stat |-> q, tasks |-> s.tasks]
    OBVIOUS
  <1>12. State' = c
    BY <1>5, <1>11 DEF State
  <1>13. c \in StateType
    BY <1>1, <1>10, <1>11 DEF StateType
  <1>14. Good(c, u, i.taken)
    BY <1>1, <1>6, <1>8, <1>11, <1>13 DEF Good
  <1>15. Owed(c, u, 0)
    <2>1. w[v].req # 0
      BY <1>1, <1>5 DEF Placed, Within
    <2>2. Loaded(u) = Loaded(w) - 1
      <3>1. w \in WorkType
        BY <1>1
      <3> QED BY <1>4, <1>7, <2>1, <3>1, LoadChanges, ZenonT(60)
    <2>3. Over(q) = Over(s.stat) + 1
      BY <1>9, <1>10, OverCounts
    <2>4. Numbers(s, w)
      BY <1>1, StateNumbers
    <2>5. PICK a, b, e \in Int : a = Over(s.stat) /\ b = Len(s.tasks) /\ e = Loaded(w)
      BY <2>4 DEF Numbers
    <2>6. s.stat.requests = a + b + e + 0
      BY <1>1, <2>5 DEF Owed
    <2>7. s.stat.requests = (a + 1) + b + (e - 1) + 0
      BY <2>6
    <2> QED BY <1>10, <1>11, <2>2, <2>3, <2>5, <2>7 DEF Owed
  <1> QED BY <1>1, <1>5, <1>12, <1>14, <1>15, Reached

(* The state a functor runs in: the functor is no longer queued.           *)
LEMMA Dequeued ==
  ASSUME NEW s, NEW w, NEW n, NEW d, Good(s, w, n), s.functors # << >>,
         d = [s EXCEPT !.functors = Tail(@)], Head(s.functors).op # "send"
  PROVE  Good(d, w, n) /\ Ended(d, s, 0)
  <1>1. Typed(s.tasks, s.functors, s.sent, w, n) /\ s \in StateType
    BY StateFields
  <1>2. Placed(s.tasks, s.functors, s.sent, w, n, s.tcp.down) /\ n \in Nat /\ w \in WorkType
    BY DEF Good
  <1>3. PICK G, x : G = Tail(s.functors) /\ x = Head(s.functors)
    OBVIOUS
  <1>4. Shrunk(FunctorType, G, s.functors, x) /\ x.op # "send"
    BY <1>1, <1>3, TailShrinks DEF Typed
  <1>5. G \in Seq(FunctorType)
    BY <1>4 DEF Shrunk
  <1>6. d = [s EXCEPT !.functors = G]
    BY <1>3
  <1>7. /\ d \in StateType /\ d.tasks = s.tasks /\ d.functors = G /\ d.sent = s.sent /\ d.tcp = s.tcp /\ d.stat = s.stat
    BY <1>1, <1>5, <1>6 DEF StateType
  <1>8. Placed(s.tasks, G, s.sent, w, n, s.tcp.down)
    BY <1>1, <1>2, <1>4, QuietGone
  <1>9. Good(d, w, n)
    BY <1>2, <1>7, <1>8 DEF Good
  <1>10. Over(s.stat) \in Int
    BY <1>1, StateNumbers DEF Numbers
  <1>11. Ended(d, s, 0)
    BY <1>7, <1>10 DEF Ended
  <1> QED BY <1>9, <1>11
(* A queued send: the answer leaves the functors and is said.              *)
LEMMA SendRuns ==
  ASSUME NEW s, NEW w, NEW n, NEW d, NEW t, Good(s, w, n), s.functors # << >>,
         d = [s EXCEPT !.functors = Tail(@)], Head(s.functors).op = "send",
         t \in SendInLoop(d, Head(s.functors).answer)
  PROVE  Good(t, w, n) /\ Ended(t, s, 0)
  <1>1. Typed(s.tasks, s.functors, s.sent, w, n) /\ s \in StateType
    BY StateFields
  <1>2. Placed(s.tasks, s.functors, s.sent, w, n, s.tcp.down) /\ n \in Nat /\ w \in WorkType
    BY DEF Good
  <1>3. PICK G, x : G = Tail(s.functors) /\ x = Head(s.functors)
    OBVIOUS
  <1>4. Shrunk(FunctorType, G, s.functors, x) /\ x.op = "send"
    BY <1>1, <1>3, TailShrinks DEF Typed
  <1>5. G \in Seq(FunctorType) /\ x \in FunctorType
    BY <1>4 DEF Shrunk
  <1>6. x.answer \in AnswerType
    BY <1>4, <1>5 DEF FunctorType, QuietFunctor
  <1>7. d = [s EXCEPT !.functors = G]
    BY <1>3
  <1>8. d \in StateType /\ d.tasks = s.tasks /\ d.functors = G /\ d.sent = s.sent /\ d.tcp = s.tcp /\ d.stat = s.stat
    BY <1>1, <1>5, <1>7 DEF StateType
  <1>9. Said(t, d, x.answer)
    BY <1>3, <1>6, <1>8, SendSays
  <1>10. /\ t \in StateType /\ t.tasks = s.tasks /\ t.stat = s.stat /\ t.tcp.down = s.tcp.down
         /\ (t.sent = s.sent /\ s.tcp.down) \/ Grown(AnswerType, t.sent, s.sent, x.answer)
    BY <1>8, <1>9 DEF Said
  <1>11. Placed(s.tasks, G, t.sent, w, n, s.tcp.down)
    BY <1>1, <1>2, <1>4, <1>10, SendGone
  <1>12. Typed(t.tasks, d.functors, t.sent, w, n)
    BY <1>1, <1>5, <1>8, <1>10 DEF Typed, StateType
  <1>13. Placed(t.tasks, d.functors, t.sent, w, n, t.tcp.down)
    BY <1>8, <1>10, <1>11
  <1>14. Placed(t.tasks, t.functors, t.sent, w, n, t.tcp.down)
    BY <1>9, <1>12, <1>13, CallbackKeepsPlaces
  <1>15. Over(s.stat) \in Int
    BY <1>1, StateNumbers DEF Numbers
  <1> QED BY <1>2, <1>10, <1>14, <1>15 DEF Good, Ended

(* A queued callback: it changes the connection, or it refuses.            *)
LEMMA CallbackRuns ==
  ASSUME NEW d, NEW w, NEW n, NEW t, NEW m, Good(d, w, n), t \in HighWaterMark(d, m) \cup WriteComplete(d)
  PROVE  Good(t, w, n) /\ Ended(t, d, 0)
  <1>1. d \in StateType /\ d.tcp \in TcpType
    BY StateFields
  <1>2. CASE t \in Refuse(d, FALSE)
    BY <1>2, RefuseKeeps
  <1>3. ASSUME NEW p, t = [d EXCEPT !.tcp = p], p \in TcpType, p.down = d.tcp.down
        PROVE  Good(t, w, n) /\ Ended(t, d, 0)
    <2>1. Same(t, d) /\ t.tcp = p /\ t.stat = d.stat /\ t.tasks = d.tasks
      BY <1>1, <1>3 DEF Same, StateType
    <2>2. Good(t, w, n)
      BY <1>3, <2>1, SameKeeps
    <2>3. Over(d.stat) \in Int
      BY <1>1, StateNumbers DEF Numbers
    <2> QED BY <2>1, <2>2, <2>3 DEF Ended
  <1>4. CASE t = [d EXCEPT !.tcp.mark = HighMark, !.tcp.notify = TRUE, !.tcp.throttle = TRUE]
    <2>1. PICK p : p = [d.tcp EXCEPT !.mark = HighMark, !.notify = TRUE, !.throttle = TRUE]
      OBVIOUS
    <2>2. p \in TcpType /\ p.down = d.tcp.down
      BY <1>1, <2>1 DEF TcpType
    <2>3. t = [d EXCEPT !.tcp = p]
      BY <1>1, <1>4, <2>1 DEF StateType, TcpType
    <2> QED BY <1>3, <2>2, <2>3
  <1>5. CASE t = [d EXCEPT !.tcp.mark = LowMark, !.tcp.notify = FALSE, !.tcp.throttle = FALSE]
    <2>1. PICK p : p = [d.tcp EXCEPT !.mark = LowMark, !.notify = FALSE, !.throttle = FALSE]
      OBVIOUS
    <2>2. p \in TcpType /\ p.down = d.tcp.down
      BY <1>1, <2>1 DEF TcpType
    <2>3. t = [d EXCEPT !.tcp = p]
      BY <1>1, <1>5, <2>1 DEF StateType, TcpType
    <2> QED BY <1>3, <2>2, <2>3
  <1> QED BY <1>2, <1>4, <1>5 DEF HighWaterMark, WriteComplete

LEMMA FunctorInv ==
  ASSUME ServerInv, Functor
  PROVE  ServerInv'
  <1>0. PICK s, w, i : Now(s, w, i)
    BY DEF Now
  <1>1. /\ Good(s, w, i.taken) /\ Owed(s, w, 0) /\ s \in StateType
        /\ Typed(s.tasks, s.functors, s.sent, w, i.taken)
        /\ i \in [got : Int, taken : Nat, busy : BOOLEAN]
    BY <1>0, NowGood
  <1>2. s = State /\ s.functors = functors /\ w = work /\ i = input
    BY <1>0, StateIs DEF Now
  <1>3. PICK d : d = [s EXCEPT !.functors = Tail(@)]
    OBVIOUS
  <1>4. PICK f : f = Head(s.functors)
    OBVIOUS
  <1>5. s.functors # << >> /\ work' = w /\ input' = i /\ server' = server
    BY <1>2 DEF Functor
  <1>6. PICK t \in CASE f.op = "send"  -> SendInLoop(d, f.answer)
                     [] f.op = "mark"  -> HighWaterMark(d, f.size)
                     [] f.op = "wrote" -> WriteComplete(d) : Become(t)
    BY <1>2, <1>3, <1>4 DEF Functor
  <1>7. f.op \in {"send", "mark", "wrote"}
    <2>1. Shrunk(FunctorType, Tail(s.functors), s.functors, f)
      BY <1>1, <1>4, <1>5, TailShrinks DEF Typed
    <2>2. f \in FunctorType
      BY <2>1 DEF Shrunk
    <2> QED BY <2>2 DEF FunctorType, QuietFunctor
  <1>8. \/ f.op = "send" /\ t \in SendInLoop(d, f.answer)
        \/ f.op # "send" /\ t \in HighWaterMark(d, f.size) \cup WriteComplete(d)
    BY <1>6, <1>7
  <1>9. Good(t, w, i.taken) /\ Ended(t, s, 0)
    <2>1. CASE f.op = "send" /\ t \in SendInLoop(d, f.answer)
      BY <1>1, <1>3, <1>4, <1>5, <2>1, SendRuns, ZenonT(60)
    <2>2. CASE f.op # "send" /\ t \in HighWaterMark(d, f.size) \cup WriteComplete(d)
      <3>0. Head(s.functors).op # "send" /\ Good(s, w, i.taken)
        BY <1>1, <1>4, <2>2
      <3>1. Good(d, w, i.taken) /\ Ended(d, s, 0)
        BY <1>3, <1>5, <3>0, Dequeued
      <3>2. Good(t, w, i.taken) /\ Ended(t, d, 0)
        BY <2>2, <3>1, CallbackRuns
      <3>3. Over(s.stat) \in Int
        BY <1>1, StateNumbers DEF Numbers
      <3> QED BY <3>1, <3>2, <3>3 DEF Ended
    <2> QED BY <1>8, <2>1, <2>2
  <1>10. t \in StateType /\ Ended(t, s, 0 - 0)
    BY <1>9 DEF Good
  <1>11. Owed(t, w, 0)
    BY <1>1, <1>10, EndedOwed
  <1>12. State' = t
    BY <1>6, <1>10, BecomeState
  <1> QED BY <1>1, <1>5, <1>9, <1>11, <1>12, Reached

(* Every step of the loop, the pool and the client.                        *)
LEMMA NextServerInv == ServerInv /\ [SudokuNext]_sudokuVars => ServerInv'
  <1>1. ASSUME ServerInv, UNCHANGED sudokuVars PROVE ServerInv'
    <2>0. PICK s, w, i : Now(s, w, i)
      BY DEF Now
    <2>1. Good(s, w, i.taken) /\ Owed(s, w, 0) /\ i \in [got : Int, taken : Nat, busy : BOOLEAN]
      BY <1>1, <2>0, NowGood
    <2>2. State' = s /\ work' = w /\ input' = i /\ server' = server
      BY <1>1, <2>0 DEF sudokuVars, State, Now
    <2> QED BY <1>1, <2>1, <2>2, Reached
  <1>2. ASSUME ServerInv, SudokuNext PROVE ServerInv'
    BY <1>2, ArriveInv, OnMessageInv, FunctorInv, DrainInv, TakeInv, SolveAndSendInv, RecordResponseInv, StatResetInv
    DEF SudokuNext, PoolThread
  <1> QED BY <1>1, <1>2
(* What the invariant says of the requests.                                *)
LEMMA InvOneAnswer == ServerInv => OneAnswer
  <1> SUFFICES ASSUME ServerInv PROVE OneAnswer
    OBVIOUS
  <1>1. /\ Typed(tasks, functors, sent, work, input.taken)
        /\ Placed(tasks, functors, sent, work, input.taken, tcp.down)
    <2>1. Typed(State.tasks, State.functors, State.sent, work, input.taken)
      BY StateFields DEF ServerInv
    <2>2. Placed(State.tasks, State.functors, State.sent, work, input.taken, State.tcp.down)
      BY DEF ServerInv, Good
    <2> QED BY <2>1, <2>2, StateIs
  <1>2. Parts(tasks, functors, sent, work, input.taken)
    BY <1>1, TypedParts
  <1>3. DOMAIN tasks = 1 .. Len(tasks) /\ DOMAIN functors = 1 .. Len(functors) /\ DOMAIN sent = 1 .. Len(sent)
    BY <1>1 DEF Typed
  <1>4. Apart(tasks, functors, sent, work) /\ Within(tasks, functors, sent, work, input.taken)
    BY <1>1 DEF Placed
  <1>5. \A j, k \in DOMAIN sent : sent[j].req = sent[k].req /\ sent[j].req # 0 => j = k
    BY <1>3, <1>4 DEF Apart
  <1>6. \A r \in Waiting : \/ \E k \in 1 .. Len(tasks) : tasks[k] = r
                           \/ \E v \in Workers : ~work[v].sent /\ work[v].req = r
                           \/ \E k \in 1 .. Len(functors) : IsSend(functors, k) /\ ReqOf(functors, k) = r
    BY <1>3 DEF Waiting, InQueue, IsSend, ReqOf
  <1>7. (Answered \cap Waiting) \ {0} = {}
    <2> SUFFICES ASSUME NEW k \in 1 .. Len(sent), sent[k].req # 0, sent[k].req \in Waiting PROVE FALSE
      BY <1>3 DEF Answered
    <2>1. CASE \E j \in 1 .. Len(tasks) : tasks[j] = sent[k].req
      BY <1>4, <2>1 DEF Apart
    <2>2. CASE \E v \in Workers : ~work[v].sent /\ work[v].req = sent[k].req
      BY <1>4, <2>2 DEF Apart, Solves
    <2>3. CASE \E j \in 1 .. Len(functors) : IsSend(functors, j) /\ ReqOf(functors, j) = sent[k].req
      BY <1>4, <2>3 DEF Apart
    <2> QED BY <1>6, <2>1, <2>2, <2>3
  <1>8. ASSUME ~tcp.down, NEW r \in 1 .. input.taken PROVE r \in Answered \cup Waiting
    <2>1. Somewhere(tasks, functors, sent, work, r)
      BY <1>1, <1>8 DEF Placed
    <2>2. CASE \E k \in 1 .. Len(tasks) : tasks[k] = r
      BY <1>3, <2>2 DEF Waiting
    <2>3. CASE \E k \in 1 .. Len(functors) : IsSend(functors, k) /\ ReqOf(functors, k) = r
      BY <1>3, <2>3 DEF Waiting, InQueue, IsSend, ReqOf
    <2>4. CASE \E k \in 1 .. Len(sent) : sent[k].req = r
      BY <1>3, <2>4 DEF Answered
    <2>5. CASE \E v \in Workers : Solves(work, v) /\ work[v].req = r
      BY <2>5 DEF Waiting, Solves
    <2> QED BY <2>1, <2>2, <2>3, <2>4, <2>5 DEF Somewhere
  <1> QED BY <1>5, <1>7, <1>8 DEF OneAnswer

(* And of their order and number.                                          *)
LEMMA InvServerExact == ServerInv => ServerExact
  <1> SUFFICES ASSUME ServerInv PROVE ServerExact
    OBVIOUS
  <1>1. ResultsInOrder
    <2> SUFFICES ASSUME Threads =< 1 /\ ~Prod
                 PROVE  \A j, k \in DOMAIN sent : j < k /\ sent[j].what = "result" /\ sent[k].what = "result"
                                                    => sent[j].req < sent[k].req
      BY DEF ResultsInOrder
    <2>1. InTurn(State.tasks, State.functors, State.sent, work)
      BY DEF ServerInv, Good, Placed
    <2>2. State \in StateType
      BY DEF ServerInv, Good
    <2>3. sent \in Seq(AnswerType)
      BY <2>2, StateIs DEF StateType
    <2>4. DOMAIN sent = 1 .. Len(sent)
      BY <2>3
    <2> QED BY <2>1, <2>4, StateIs DEF InTurn
  <1>2. CountersAdd
    <2>1. State \in StateType
      BY DEF ServerInv, Good
    <2>2. Numbers(State, work)
      BY <2>1, StateNumbers
    <2>3. PICK y, z \in Int : y = Len(tasks) /\ z = Loaded(work)
      BY <2>2, StateIs DEF Numbers
    <2>4. PICK p1, p2, p3, p4, p5, p6 \in Int :
            /\ p1 = stat.responses /\ p2 = stat.dropped /\ p3 = stat.bad /\ p4 = stat.other
            /\ p5 = stat.carried /\ p6 = stat.requests
      BY <2>1, StateIs DEF StateType, StatType
    <2>5. p6 = (p1 + p2 + (p3 - p4) - p5) + y + z + 0
      BY <2>3, <2>4, StateIs DEF ServerInv, Owed, Over
    <2>6. p6 + p5 = p1 + p2 + (p3 - p4) + y + z
      BY <2>5
    <2> QED BY <2>3, <2>4, <2>6, Zenon DEF CountersAdd, Loaded
  <1> QED BY <1>1, <1>2, InvOneAnswer DEF ServerExact

(* For every sequence of lines, every pool and every limit of the queue    *)
(* and of the buffer, and however the loop thread, the threads of the pool *)
(* and the client interleave, and whenever the inspector resets the        *)
(* counters, a request that was taken is answered once, in order where the *)
(* server promises it, and counted once.                                   *)
THEOREM EveryRequestOnce == SudokuInit /\ [][SudokuNext]_sudokuVars => []ServerExact
  BY InitServerInv, NextServerInv, InvServerExact, PTL
----------------------------------------------------------------------------
(* The small examples.  pingpong: nothing but the two ends touches a block, *)
(* and a session that is not connected has nothing on the way.             *)

SessionType ==
  [state : {"connecting", "up", "closing", "down"}, out : Int, back : Int, read : Int, messages : Int]

\* Session x.
BlockKept(x) ==
  /\ x \in SessionType
  /\ x.state = "connecting" => x.back = 0
  /\ x.state = "up" => x.out + x.back = blockSize

PingInv == session \in [Sessions -> SessionType] /\ \A s \in Sessions : BlockKept(session[s])

LEMMA InitPingInv == PingInit => PingInv
  BY DEF PingInit, PingInv, BlockKept, SessionType

(* A session with new values.                                              *)
LEMMA BlockSet ==
  ASSUME NEW y \in SessionType, NEW o \in Int, NEW k \in Int, NEW r \in Int, NEW m \in Int,
         NEW st \in {"up", "closing", "down"}, st = "up" => o + k = blockSize
  PROVE  BlockKept([y EXCEPT !.state = st, !.out = o, !.back = k, !.read = r, !.messages = m])
  BY DEF BlockKept, SessionType

LEMMA NextPingInv == PingInv /\ [PingNext]_pingVars => PingInv'
  <1> SUFFICES ASSUME PingInv, [PingNext]_pingVars PROVE PingInv'
    OBVIOUS
  <1>1. session \in [Sessions -> SessionType] /\ \A s \in Sessions : session[s] \in SessionType /\ BlockKept(session[s])
    BY DEF PingInv
  <1>2. ASSUME NEW s \in Sessions, NEW x, BlockKept(x), session' = [session EXCEPT ![s] = x]
        PROVE  PingInv'
    <2>1. session' \in [Sessions -> SessionType]
      BY <1>1, <1>2 DEF BlockKept
    <2>2. \A v \in Sessions : session'[v] = IF v = s THEN x ELSE session[v]
      BY <1>1, <1>2
    <2>3. \A v \in Sessions : BlockKept(session'[v])
      BY <1>1, <1>2, <2>2
    <2> QED BY <2>1, <2>3 DEF PingInv, BlockKept
  <1>3. CASE HandleTimeout
    <2>1. \A s \in Sessions : session'[s] = IF session[s].state = "up" THEN [session[s] EXCEPT !.state = "closing"] ELSE session[s]
      BY <1>3 DEF HandleTimeout
    <2>2. \A s \in Sessions : BlockKept(session'[s])
      BY <1>1, <2>1 DEF SessionType, BlockKept
    <2>3. session' \in [Sessions -> SessionType]
      <3>1. session' = [s \in Sessions |-> session'[s]]
        BY <1>3 DEF HandleTimeout
      <3> QED BY <2>2, <3>1 DEF BlockKept
    <2> QED BY <2>2, <2>3 DEF PingInv, BlockKept
  <1>5. ASSUME NEW s \in Sessions, NEW y, y = session[s]
        PROVE  /\ y \in SessionType /\ y.out \in Int /\ y.back \in Int /\ y.read \in Int /\ y.messages \in Int
               /\ y.state = "connecting" => y.back = 0
               /\ y.state = "up" => y.out + y.back = blockSize
    BY <1>1, <1>5 DEF BlockKept, SessionType
  <1>6. ASSUME NEW s \in Sessions, OnConnection(s) PROVE PingInv'
    <2>1. PICK y : y = session[s]
      OBVIOUS
    <2>2. PICK x : x = [y EXCEPT !.state = "up", !.out = blockSize, !.back = y.back, !.read = y.read, !.messages = y.messages]
      OBVIOUS
    <2>3. /\ y \in SessionType /\ y.out \in Int /\ y.back \in Int /\ y.read \in Int /\ y.messages \in Int
          /\ y.state = "connecting" => y.back = 0
          /\ y.state = "up" => y.out + y.back = blockSize
      BY <1>5, <2>1
    <2>4. session' = [session EXCEPT ![s] = x] /\ y.state = "connecting"
      BY <1>1, <1>6, <2>1, <2>2, <2>3 DEF OnConnection, SessionType
    <2>5. blockSize \in Int /\ blockSize + y.back = blockSize
      BY <2>3, <2>4, BlockAssumption
    <2>6. BlockKept(x)
      BY <2>2, <2>3, <2>4, <2>5, BlockSet
    <2> QED BY <1>2, <2>4, <2>6
  <1>7. ASSUME NEW s \in Sessions, OnDisconnect(s) PROVE PingInv'
    <2>1. PICK y : y = session[s]
      OBVIOUS
    <2>2. PICK x : x = [y EXCEPT !.state = "down", !.out = 0, !.back = 0, !.read = y.read, !.messages = y.messages]
      OBVIOUS
    <2>3. /\ y \in SessionType /\ y.out \in Int /\ y.back \in Int /\ y.read \in Int /\ y.messages \in Int
          /\ y.state = "connecting" => y.back = 0
          /\ y.state = "up" => y.out + y.back = blockSize
      BY <1>5, <2>1
    <2>4. session' = [session EXCEPT ![s] = x] /\ TRUE
      BY <1>1, <1>7, <2>1, <2>2, <2>3 DEF OnDisconnect, SessionType
    <2>5. 0 \in Int
      BY <2>3, <2>4, BlockAssumption
    <2>6. BlockKept(x)
      BY <2>2, <2>3, <2>4, <2>5, BlockSet
    <2> QED BY <1>2, <2>4, <2>6
  <1>8. ASSUME NEW s \in Sessions, NEW n \in 1 .. blockSize, Echo(s, n) PROVE PingInv'
    <2>1. PICK y : y = session[s]
      OBVIOUS
    <2>2. PICK x : x = [y EXCEPT !.state = y.state, !.out = y.out - n, !.back = y.back + n, !.read = y.read, !.messages = y.messages]
      OBVIOUS
    <2>3. /\ y \in SessionType /\ y.out \in Int /\ y.back \in Int /\ y.read \in Int /\ y.messages \in Int
          /\ y.state = "connecting" => y.back = 0
          /\ y.state = "up" => y.out + y.back = blockSize
      BY <1>5, <2>1
    <2>4. session' = [session EXCEPT ![s] = x] /\ y.state \in {"up", "closing"}
      BY <1>1, <1>8, <2>1, <2>2, <2>3 DEF Echo, SessionType
    <2>5. /\ y.out - n \in Int /\ y.back + n \in Int
          /\ y.state = "up" => (y.out - n) + (y.back + n) = blockSize
      BY <2>3, <2>4, BlockAssumption
    <2>6. BlockKept(x)
      BY <2>2, <2>3, <2>4, <2>5, BlockSet
    <2> QED BY <1>2, <2>4, <2>6
  <1>9. ASSUME NEW s \in Sessions, NEW n \in 1 .. blockSize, OnPingMessage(s, n) PROVE PingInv'
    <2>1. PICK y : y = session[s]
      OBVIOUS
    <2>2. /\ y \in SessionType /\ y.out \in Int /\ y.back \in Int /\ y.read \in Int /\ y.messages \in Int
          /\ y.state = "up" => y.out + y.back = blockSize
      BY <1>5, <2>1
    <2>3. PICK o : o = IF y.state = "up" THEN y.out + n ELSE y.out
      OBVIOUS
    <2>4. PICK x : x = [y EXCEPT !.state = y.state, !.out = o, !.back = y.back - n, !.read = y.read + n, !.messages = y.messages + 1]
      OBVIOUS
    <2>5. session' = [session EXCEPT ![s] = x] /\ y.state \in {"up", "closing"}
      BY <1>1, <1>9, <2>1, <2>2, <2>3, <2>4 DEF OnPingMessage, SessionType
    <2>6. /\ o \in Int /\ y.back - n \in Int /\ y.read + n \in Int /\ y.messages + 1 \in Int
          /\ y.state = "up" => o + (y.back - n) = blockSize
      BY <2>2, <2>3, BlockAssumption
    <2>7. BlockKept(x)
      BY <2>2, <2>4, <2>5, <2>6, BlockSet
    <2> QED BY <1>2, <2>5, <2>7
  <1>10. CASE UNCHANGED pingVars
    BY <1>1, <1>10 DEF PingInv, pingVars, BlockKept
  <1> QED BY <1>3, <1>6, <1>7, <1>8, <1>9, <1>10 DEF PingNext, ClosedByServer, ConnectionLost

----------------------------------------------------------------------------
(* remote_lat: the count stops where the message stops.                    *)

Trips == IF totalMsgs > 1 THEN totalMsgs ELSE 1

LatInv ==
  /\ lat \in [count : Nat, at : {"none", "server", "client"}, state : {"connecting", "up", "closing", "quit"}]
  /\ lat.state = "connecting" => lat.count = 0 /\ lat.at = "none"
  /\ lat.at # "none" => lat.count < Trips
  /\ lat.state = "closing" => lat.count = Trips /\ lat.at = "none"
  /\ lat.count =< Trips

LEMMA InitLatInv == LatInit => LatInv
  BY MsgsAssumption DEF LatInit, LatInv, Trips

LEMMA NextLatInv == LatInv /\ [LatNext]_latVars => LatInv'
  <1> SUFFICES ASSUME LatInv, [LatNext]_latVars PROVE LatInv'
    OBVIOUS
  <1>1. CASE LatConnect
    <2>1. lat' = [lat EXCEPT !.at = "server", !.state = "up"] /\ lat.count = 0
      BY <1>1 DEF LatConnect, LatInv
    <2>2. lat'.count = 0 /\ lat'.state = "up" /\ lat'.at = "server"
      BY <2>1 DEF LatInv
    <2>3. 0 < Trips /\ Trips' = Trips
      BY MsgsAssumption DEF Trips
    <2>4. lat' \in [count : Nat, at : {"none", "server", "client"}, state : {"connecting", "up", "closing", "quit"}]
      BY <2>1 DEF LatInv
    <2> QED BY <2>2, <2>3, <2>4, MsgsAssumption DEF LatInv, Trips
  <1>2. CASE LocalLat
    BY <1>2, MsgsAssumption DEF LatInv, LocalLat, Trips
  <1>3. CASE OnStringMessage
    <2>1. PICK n, a, st : /\ n = lat.count + 1 /\ a = (IF n < totalMsgs THEN "server" ELSE "none")
                          /\ st = (IF n < totalMsgs THEN lat.state ELSE "closing")
      OBVIOUS
    <2>2. lat' = [lat EXCEPT !.count = n, !.at = a, !.state = st] /\ lat.at = "client"
      BY <1>3, <2>1 DEF OnStringMessage
    <2>3. lat.count \in Nat /\ lat.count < Trips /\ lat.state \in {"up", "quit"}
      BY <2>2 DEF LatInv
    <2>4. n \in Nat /\ n =< Trips /\ (n < totalMsgs => n < Trips) /\ (~(n < totalMsgs) => n = Trips)
      BY <2>1, <2>3, MsgsAssumption DEF Trips
    <2>5. lat'.count = n /\ lat'.at = a /\ lat'.state = st
      BY <2>2 DEF LatInv
    <2>6. lat' \in [count : Nat, at : {"none", "server", "client"}, state : {"connecting", "up", "closing", "quit"}]
      BY <2>1, <2>2, <2>3, <2>4 DEF LatInv
    <2>7. Trips' = Trips
      BY DEF Trips
    <2> QED BY <2>1, <2>3, <2>4, <2>5, <2>6, <2>7 DEF LatInv
  <1>4. CASE LatDisconnect
    <2>1. lat' = [lat EXCEPT !.state = "quit", !.at = "none"]
      BY <1>4 DEF LatDisconnect
    <2>2. lat'.count = lat.count /\ lat'.state = "quit" /\ lat'.at = "none"
      BY <2>1 DEF LatInv
    <2> QED BY <2>1, <2>2 DEF LatInv, Trips
  <1>5. CASE UNCHANGED latVars
    BY <1>5 DEF LatInv, latVars
  <1> QED BY <1>1, <1>2, <1>3, <1>4, <1>5 DEF LatNext
----------------------------------------------------------------------------
(* bench: the bytes that were fired and not yet read are tokens A, and     *)
(* token a is in pipe at[a].                                               *)

Held(A, at, i) == {a \in A : at[a] = i}
One(b) == IF b THEN 1 ELSE 0

Spread(A, at, p, m) ==
  /\ IsFiniteSet(A) /\ Cardinality(A) = m
  /\ \A i \in Pipes : p[i] = Cardinality(Held(A, at, i))

\* With the tokens B in the pipes to, one has left pipe i and one has come to y.
Moved(A, at, B, to, i, fires, y) ==
  \A j \in Pipes : /\ Cardinality(Held(A, at, j)) \in Nat
                   /\ Cardinality(Held(B, to, j)) = Cardinality(Held(A, at, j)) - One(j = i) + One(fires /\ j = y)

(* A token leaves its pipe, for another or for good.                       *)
LEMMA TokenMoves ==
  ASSUME NEW A, IsFiniteSet(A), NEW at, NEW a \in A, NEW B, NEW to, NEW y, NEW fires \in BOOLEAN,
         B = IF fires THEN A ELSE A \ {a},
         to = [x \in A |-> IF x = a THEN y ELSE at[x]]
  PROVE  Moved(A, at, B, to, at[a], fires, y)
  <1> SUFFICES ASSUME NEW i \in Pipes
               PROVE  /\ Cardinality(Held(A, at, i)) \in Nat
                      /\ Cardinality(Held(B, to, i)) = Cardinality(Held(A, at, i)) - One(i = at[a]) + One(fires /\ i = y)
    BY DEF Moved
  <1>1. PICK S : S = Held(A, at, i)
    OBVIOUS
  <1>2. S \in SUBSET A
    BY <1>1 DEF Held
  <1>3. IsFiniteSet(S) /\ Cardinality(S) \in Nat
    BY <1>2, FS_Subset, FS_CardinalityType
  <1>4. PICK R : R = Held(B, to, i)
    OBVIOUS
  <1>5. /\ Cardinality(S \ {a}) = IF a \in S THEN Cardinality(S) - 1 ELSE Cardinality(S)
        /\ Cardinality(S \cup {a}) = IF a \in S THEN Cardinality(S) ELSE Cardinality(S) + 1
    BY <1>3, FS_AddElement, FS_RemoveElement
  <1>6. a \in S <=> i = at[a]
    BY <1>1 DEF Held
  <1>7. R = IF fires /\ i = y THEN S \cup {a} ELSE S \ {a}
    BY <1>1, <1>4 DEF Held
  <1>8. Cardinality(R) = Cardinality(S) - One(i = at[a]) + One(fires /\ i = y)
    BY <1>3, <1>5, <1>6, <1>7 DEF One
  <1> QED BY <1>1, <1>3, <1>4, <1>8

BenchInv ==
  /\ g \in [reads : Int, writes : Nat, fired : Int] /\ halted \in BOOLEAN
  /\ g.fired + g.writes = numActive + numWrites
  /\ \E A, at : Spread(A, at, pipe, g.fired - g.reads)
  /\ halted <=> g.fired = g.reads
  /\ g.fired = g.reads => g.writes = 0

LEMMA InitBenchInv == BenchInit => BenchInv
  <1> SUFFICES ASSUME BenchInit PROVE BenchInv
    OBVIOUS
  <1>1. numActive \in Nat /\ numActive >= 1 /\ numWrites \in Nat
    BY PipesAssumption
  <1>2. PICK A : A = 0 .. numActive - 1
    OBVIOUS
  <1>3. IsFiniteSet(A) /\ Cardinality(A) = numActive
    <2>1. 0 \in Int /\ numActive - 1 \in Int
      BY <1>1
    <2>2. /\ IsFiniteSet(0 .. numActive - 1)
          /\ Cardinality(0 .. numActive - 1) = IF 0 > numActive - 1 THEN 0 ELSE (numActive - 1) - 0 + 1
      BY <2>1, FS_Interval, Zenon
    <2> QED BY <1>1, <1>2, <2>2
  <1>4. PICK at : at = [k \in A |-> k * (numPipes \div numActive)]
    OBVIOUS
  <1>5. \A i \in Pipes : pipe[i] = Cardinality(Held(A, at, i))
    <2> SUFFICES ASSUME NEW i \in Pipes PROVE pipe[i] = Cardinality(Held(A, at, i))
      OBVIOUS
    <2>1. Held(A, at, i) = {k \in 0 .. numActive - 1 : i = k * (numPipes \div numActive)}
      BY <1>2, <1>4 DEF Held
    <2>2. pipe[i] = Cardinality({k \in 0 .. numActive - 1 : i = k * (numPipes \div numActive)})
      BY DEF BenchInit
    <2> QED BY <2>1, <2>2
  <1>6. /\ g \in [reads : Int, writes : Nat, fired : Int] /\ halted = FALSE
        /\ g.fired = numActive /\ g.writes = numWrites /\ g.reads = 0
    BY <1>1 DEF BenchInit
  <1>7. g.fired - g.reads = numActive
    BY <1>1, <1>6
  <1>8. \E B, to : Spread(B, to, pipe, g.fired - g.reads)
    BY <1>3, <1>5, <1>7 DEF Spread
  <1>9. g.fired + g.writes = numActive + numWrites
    BY <1>6, Zenon
  <1>10. g.fired # g.reads
    BY <1>1, <1>6
  <1>11. halted \in BOOLEAN /\ ~halted
    BY <1>6, Zenon
  <1> QED BY <1>6, <1>8, <1>9, <1>10, <1>11, Zenon DEF BenchInv

LEMMA NextBenchInv == BenchInv /\ [BenchNext]_benchVars => BenchInv'
  <1> SUFFICES ASSUME BenchInv, [BenchNext]_benchVars PROVE BenchInv'
    OBVIOUS
  <1>1. CASE UNCHANGED benchVars
    <2>1. pipe' = pipe /\ g' = g /\ halted' = halted
      BY <1>1 DEF benchVars
    <2>2. PICK A, at : Spread(A, at, pipe, g.fired - g.reads)
      BY DEF BenchInv
    <2>3. Spread(A, at, pipe, g.fired - g.reads)'
      BY <2>1, <2>2 DEF Spread, Pipes
    <2>4. \E B, to : Spread(B, to, pipe, g.fired - g.reads)'
      BY <2>3
    <2> QED BY <2>1, <2>4 DEF BenchInv
  <1>2. ASSUME NEW i \in Pipes, ReadCallback(i) PROVE BenchInv'
    <2>1. PICK r, w, f : r = g.reads /\ w = g.writes /\ f = g.fired
      OBVIOUS
    <2>2. /\ r \in Int /\ w \in Nat /\ f \in Int /\ numActive \in Int /\ numWrites \in Int
          /\ f + w = numActive + numWrites /\ (halted <=> f = r) /\ (f = r => w = 0)
      BY <2>1, PipesAssumption DEF BenchInv
    <2>3. PICK A, at : Spread(A, at, pipe, f - r)
      BY <2>1 DEF BenchInv
    <2>4. PICK y : y = (i + 1) % numPipes
      OBVIOUS
    <2>5. PICK fires : fires = (w > 0)
      OBVIOUS
    <2>6. fires \in BOOLEAN
      BY <2>5
    <2>7. /\ pipe[i] > 0
          /\ \A j \in Pipes : pipe'[j] = pipe[j] - One(j = i) + One(fires /\ j = y)
          /\ g' = [reads |-> r + 1, writes |-> w - One(fires), fired |-> f + One(fires)]
          /\ halted' = (halted \/ f + One(fires) = r + 1)
      BY <1>2, <2>1, <2>4, <2>5 DEF ReadCallback, One
    <2>8. PICK a \in A : at[a] = i
      <3>1. pipe[i] = Cardinality(Held(A, at, i))
        BY <2>3 DEF Spread
      <3>2. Held(A, at, i) # {}
        BY <2>7, <3>1, FS_EmptySet
      <3> QED BY <3>2 DEF Held
    <2>9. f - r >= 1
      <3>1. IsFiniteSet(A) /\ Cardinality(A) = f - r /\ A # {}
        BY <2>3, <2>8 DEF Spread
      <3>2. Cardinality(A) \in Nat /\ Cardinality(A) # 0
        BY <3>1, FS_CardinalityType, FS_EmptySet
      <3> QED BY <3>1, <3>2
    <2>10. PICK B, to : B = (IF fires THEN A ELSE A \ {a}) /\ to = [x \in A |-> IF x = a THEN y ELSE at[x]]
      OBVIOUS
    <2>11. g'.reads = r + 1 /\ g'.writes = w - One(fires) /\ g'.fired = f + One(fires)
      BY <2>7
    <2>12. IsFiniteSet(B) /\ Cardinality(B) = g'.fired - g'.reads
      <3>1. IsFiniteSet(A) /\ Cardinality(A) = f - r
        BY <2>3 DEF Spread
      <3>2. IsFiniteSet(A \ {a}) /\ Cardinality(A \ {a}) = (f - r) - 1
        BY <2>8, <3>1, FS_RemoveElement
      <3>3. CASE fires
        BY <2>2, <2>10, <2>11, <3>1, <3>3 DEF One
      <3>4. CASE ~fires
        BY <2>2, <2>10, <2>11, <3>2, <3>4 DEF One
      <3> QED BY <3>3, <3>4
    <2>13. \A j \in Pipes : pipe'[j] = Cardinality(Held(B, to, j))
      <3> SUFFICES ASSUME NEW j \in Pipes PROVE pipe'[j] = Cardinality(Held(B, to, j))
        OBVIOUS
      <3>1. IsFiniteSet(A) /\ pipe[j] = Cardinality(Held(A, at, j))
        BY <2>3 DEF Spread
      <3>2. Cardinality(Held(B, to, j)) = Cardinality(Held(A, at, j)) - One(j = at[a]) + One(fires /\ j = y)
        <4>1. Moved(A, at, B, to, at[a], fires, y)
          BY <2>6, <2>10, <3>1, TokenMoves
        <4> QED BY <4>1 DEF Moved
      <3> QED BY <2>7, <2>8, <3>1, <3>2
    <2>14. Spread(B, to, pipe, g.fired - g.reads)'
      BY <2>12, <2>13 DEF Spread, Pipes
    <2>15. (\E C, in : Spread(C, in, pipe, g.fired - g.reads))'
      BY <2>14, Zenon
    <2>16. /\ r + 1 \in Int /\ w - One(fires) \in Nat /\ f + One(fires) \in Int
           /\ f + One(fires) + (w - One(fires)) = numActive + numWrites
           /\ f + One(fires) = r + 1 => w - One(fires) = 0
      <3>1. PICK u : u = One(fires)
        OBVIOUS
      <3>2. (u = 1 /\ w > 0) \/ (u = 0 /\ w = 0)
        <4>1. w > 0 \/ w = 0
          BY <2>2
        <4>2. CASE w > 0
          BY <2>5, <3>1, <4>2, Zenon DEF One
        <4>3. CASE w = 0
          <5>1. ~(w > 0)
            BY <4>3
          <5> QED BY <2>5, <3>1, <4>3, <5>1, Zenon DEF One
        <4> QED BY <4>1, <4>2, <4>3
      <3>3. /\ r + 1 \in Int /\ w - u \in Nat /\ f + u \in Int
            /\ f + u + (w - u) = numActive + numWrites
            /\ f + u = r + 1 => w - u = 0
        BY <2>2, <2>9, <3>2
      <3> QED BY <3>1, <3>3
    <2>17. halted = FALSE
      BY <2>2, <2>9 DEF BenchInv
    <2>18. g' \in [reads : Int, writes : Nat, fired : Int]
      BY <2>7, <2>16
    <2> QED BY <2>7, <2>11, <2>15, <2>16, <2>17, <2>18 DEF BenchInv
  <1> QED BY <1>1, <1>2 DEF BenchNext

LEMMA InvBench == BenchInv => BenchExact
  <1> SUFFICES ASSUME BenchInv PROVE BenchExact
    OBVIOUS
  <1>1. PICK A, at : Spread(A, at, pipe, g.fired - g.reads)
    BY DEF BenchInv
  <1>2. PICK r, w, f : r = g.reads /\ w = g.writes /\ f = g.fired
    OBVIOUS
  <1>3. /\ r \in Int /\ w \in Nat /\ f \in Int /\ numActive \in Int /\ numWrites \in Int
        /\ f + w = numActive + numWrites /\ (halted <=> f = r) /\ (f = r => w = 0)
    BY <1>2, PipesAssumption DEF BenchInv
  <1>4. IsFiniteSet(A) /\ Cardinality(A) = f - r /\ \A i \in Pipes : pipe[i] = Cardinality(Held(A, at, i))
    BY <1>1, <1>2 DEF Spread
  <1>5. f - r \in Nat
    BY <1>4, FS_CardinalityType
  <1>6. ASSUME f = r PROVE \A i \in Pipes : pipe[i] = 0
    <2>1. A = {}
      BY <1>3, <1>4, <1>6, FS_EmptySet
    <2>2. \A i \in Pipes : Held(A, at, i) = {}
      BY <2>1 DEF Held
    <2> QED BY <1>4, <2>2, FS_EmptySet
  <1>7. f = r <=> r = numActive + numWrites
    BY <1>3, <1>5
  <1> QED BY <1>2, <1>3, <1>6, <1>7 DEF BenchExact
----------------------------------------------------------------------------
(* finger: what has been read is a prefix of the query.                    *)

(* A set of numbers has a least one.                                       *)
LEMMA LeastNumber ==
  ASSUME NEW T, T \subseteq Nat, T # {}
  PROVE  \E m \in T : \A k \in T : m =< k
  <1>1. PICK R : R = {p \in Nat \X Nat : p[1] < p[2]}
    OBVIOUS
  <1>2. IsWellFoundedOn(R, Nat)
    BY <1>1, NatLessThanWellFounded DEF OpToRel
  <1>3. PICK m \in T : \A k \in T : ~(<<k, m>> \in R)
    BY <1>2, WFMin
  <1>4. \A k \in T : ~(k < m) /\ k \in Nat /\ m \in Nat
    BY <1>1, <1>3
  <1>5. \A k \in T : m =< k
    BY <1>4
  <1> QED BY <1>5

\* The first line of s ends at k.
LineEnds(s, k) == k \in 1 .. Len(s) /\ s[k] = "crlf" /\ \A j \in 1 .. k - 1 : s[j] # "crlf"

\* t is a beginning of s.
Begins(t, s) == Len(t) =< Len(s) /\ \A k \in 1 .. Len(t) : t[k] = s[k]

(* CrlfAt finds the end of the first line.                                 *)
LEMMA CrlfFinds ==
  ASSUME NEW s \in Seq(STRING)
  PROVE  /\ CrlfAt(s) # 0 => LineEnds(s, CrlfAt(s))
         /\ \A k : LineEnds(s, k) => CrlfAt(s) = k
  <1>1. DOMAIN s = 1 .. Len(s) /\ Len(s) \in Nat
    OBVIOUS
  <1>2. ASSUME NEW k, LineEnds(s, k) PROVE CrlfAt(s) = k
    <2>1. ASSUME NEW i \in DOMAIN s, s[i] = "crlf", \A j \in 1 .. i - 1 : s[j] # "crlf" PROVE i = k
      <3>1. k \in Int /\ i \in Int /\ k >= 1 /\ i >= 1
        BY <1>1, <1>2 DEF LineEnds
      <3>2. ~(k < i)
        BY <1>2, <2>1, <3>1 DEF LineEnds
      <3>3. ~(i < k)
        BY <1>2, <2>1, <3>1 DEF LineEnds
      <3> QED BY <3>1, <3>2, <3>3
    <2>2. k \in DOMAIN s /\ s[k] = "crlf" /\ \A j \in 1 .. k - 1 : s[j] # "crlf"
      BY <1>1, <1>2 DEF LineEnds
    <2> QED BY <2>1, <2>2 DEF CrlfAt
  <1>3. ASSUME CrlfAt(s) # 0 PROVE \E k : LineEnds(s, k)
    <2>1. PICK T : T = {k \in 1 .. Len(s) : s[k] = "crlf"}
      OBVIOUS
    <2>2. T # {} /\ T \subseteq Nat
      BY <1>1, <1>3, <2>1 DEF CrlfAt
    <2>3. PICK m \in T : \A k \in T : m =< k
      BY <2>2, LeastNumber
    <2>4. m \in 1 .. Len(s) /\ s[m] = "crlf"
      BY <2>1, <2>3
    <2>5. \A j \in 1 .. m - 1 : s[j] # "crlf"
      BY <1>1, <2>1, <2>3, <2>4
    <2> QED BY <2>4, <2>5 DEF LineEnds
  <1> QED BY <1>2, <1>3

(* The first line stays where it is when more is read.                     *)
LEMMA LineStays ==
  ASSUME NEW t \in Seq(STRING), NEW s \in Seq(STRING), Begins(t, s), CrlfAt(t) # 0
  PROVE  CrlfAt(s) = CrlfAt(t) /\ SubSeq(s, 1, CrlfAt(t) - 1) = SubSeq(t, 1, CrlfAt(t) - 1)
  <1>1. PICK k : k = CrlfAt(t)
    OBVIOUS
  <1>2. LineEnds(t, k)
    BY <1>1, CrlfFinds
  <1>3. k \in 1 .. Len(t) /\ Len(t) \in Nat /\ Len(s) \in Nat
    BY <1>2 DEF LineEnds
  <1>4. LineEnds(s, k)
    BY <1>2, <1>3 DEF LineEnds, Begins
  <1>5. CrlfAt(s) = k
    BY <1>4, CrlfFinds
  <1>6. SubSeq(s, 1, k - 1) = SubSeq(t, 1, k - 1)
    <2>1. PICK n : n = k - 1
      OBVIOUS
    <2>2. n \in Nat /\ \A i \in 1 .. n : i \in 1 .. Len(t) /\ i \in 1 .. Len(s) /\ t[i] = s[i]
      BY <1>3, <2>1 DEF Begins
    <2>3. \A i \in 1 .. n : t[i] \in STRING /\ s[i] \in STRING
      BY <2>2
    <2>4. PICK a, b : a = SubSeq(s, 1, n) /\ b = SubSeq(t, 1, n)
      OBVIOUS
    <2>5. /\ a \in Seq(STRING) /\ b \in Seq(STRING) /\ Len(a) = n /\ Len(b) = n
          /\ \A i \in 1 .. n : a[i] = s[i] /\ b[i] = t[i]
      BY <2>2, <2>3, <2>4, SubSeqProperties
    <2>6. a = b
      BY <2>2, <2>5, SeqEqual
    <2> QED BY <2>1, <2>4, <2>6
  <1> QED BY <1>1, <1>5, <1>6

\* What has been read of the query.
Got == SubSeq(query, 1, Len(query) - Len(unread))

FingerInv ==
  /\ query \in Seq(STRING) /\ unread \in Seq(STRING) /\ Len(unread) =< Len(query)
  /\ \A k \in 1 .. Len(unread) : unread[k] = query[Len(query) - Len(unread) + k]
  /\ fbuf \in Seq(STRING) /\ shut \in BOOLEAN
  /\ ~shut => fbuf = Got /\ CrlfAt(Got) = 0
  /\ shut => CrlfAt(Got) # 0
  /\ FingerOnce

LEMMA InitFingerInv == FingerInit => FingerInv
  <1> SUFFICES ASSUME FingerInit PROVE FingerInv
    OBVIOUS
  <1>1. query \in Seq(STRING) /\ unread = query /\ fbuf = << >> /\ said = << >> /\ shut = FALSE
    BY QueriesAssumption DEF FingerInit
  <1>2. Len(query) \in Nat /\ Len(query) - Len(unread) = 0
    BY <1>1
  <1>3. SubSeq(query, 1, Len(query) - Len(unread)) = << >>
    BY <1>1, <1>2
  <1>4. CrlfAt(<< >>) = 0
    BY DEF CrlfAt
  <1>5. FingerOnce
    BY <1>1, <1>3, <1>4 DEF FingerOnce
  <1>6. CrlfAt(Got) = 0 /\ fbuf = Got
    BY <1>1, <1>3, <1>4 DEF Got
  <1>7. Len(unread) =< Len(query) /\ \A k \in 1 .. Len(unread) : unread[k] = query[Len(query) - Len(unread) + k]
    BY <1>1, <1>2
  <1>8. fbuf \in Seq(STRING)
    BY <1>1
  <1>9. unread \in Seq(STRING) /\ shut \in BOOLEAN /\ ~shut
    BY <1>1, Zenon
  <1> QED BY <1>1, <1>5, <1>6, <1>7, <1>8, <1>9, Zenon DEF FingerInv
\* The answer to what has been read of the query.
AnswerTo(s) == IF CrlfAt(s) = 0 THEN << >> ELSE <<GetUser(SubSeq(s, 1, CrlfAt(s) - 1))>>

LEMMA FingerAnswer == FingerOnce <=> said = AnswerTo(Got)
  BY Zenon DEF FingerOnce, AnswerTo, Got

\* The piece that is read next, p, what is left, u, and what has been read, c
\* before and e after.
Read(p, u, c, e) ==
  /\ p \in Seq(STRING) /\ u \in Seq(STRING) /\ c \in Seq(STRING) /\ e \in Seq(STRING)
  /\ Len(e) = Len(c) + Len(p)
  /\ \A k \in 1 .. Len(c) : e[k] = c[k]
  /\ \A k \in 1 .. Len(p) : e[Len(c) + k] = p[k]

\* u is the end of q.
Rest(u, q) == Len(u) =< Len(q) /\ \A k \in 1 .. Len(u) : u[k] = q[Len(q) - Len(u) + k]

(* The query is cut after n more bytes.                                    *)
LEMMA QueryCut ==
  ASSUME NEW q \in Seq(STRING), NEW u \in Seq(STRING), Rest(u, q), NEW n \in 1 .. Len(u), NEW v, v = SubSeq(u, n + 1, Len(u))
  PROVE  /\ Read(SubSeq(u, 1, n), v, SubSeq(q, 1, Len(q) - Len(u)), SubSeq(q, 1, Len(q) - Len(v)))
         /\ Rest(v, q)
  <1>1. PICK m, l : m = Len(q) - Len(u) /\ l = Len(u)
    OBVIOUS
  <1>2. m \in Nat /\ l \in Nat /\ n \in Nat /\ n =< l /\ Len(q) = m + l
    BY <1>1 DEF Rest
  <1>3. \A k \in 1 .. l : u[k] = q[m + k] /\ u[k] \in STRING
    BY <1>1 DEF Rest
  <1>4. \A k \in 1 .. m + l : q[k] \in STRING
    BY <1>2
  <1>5. /\ v \in Seq(STRING) /\ Len(v) = l - n /\ \A k \in 1 .. l - n : v[k] = u[n + k]
    <2>1. \A k \in n + 1 .. l : u[k] \in STRING
      BY <1>2, <1>3
    <2>2. /\ SubSeq(u, n + 1, l) \in Seq(STRING)
          /\ Len(SubSeq(u, n + 1, l)) = IF n + 1 =< l THEN l - (n + 1) + 1 ELSE 0
          /\ \A k \in 1 .. l - (n + 1) + 1 : SubSeq(u, n + 1, l)[k] = u[n + 1 + k - 1]
      BY <1>2, <2>1, SubSeqProperties
    <2>3. \A k \in 1 .. l - n : k \in 1 .. l - (n + 1) + 1 /\ n + 1 + k - 1 = n + k
      BY <1>2
    <2>4. (IF n + 1 =< l THEN l - (n + 1) + 1 ELSE 0) = l - n
      BY <1>2
    <2>5. v = SubSeq(u, n + 1, l)
      BY <1>1
    <2> QED BY <2>2, <2>3, <2>4, <2>5
  <1>6. /\ SubSeq(u, 1, n) \in Seq(STRING) /\ Len(SubSeq(u, 1, n)) = n
        /\ \A k \in 1 .. n : SubSeq(u, 1, n)[k] = u[k]
    BY <1>2, <1>3, SubSeqProperties
  <1>7. /\ SubSeq(q, 1, m) \in Seq(STRING) /\ Len(SubSeq(q, 1, m)) = m
        /\ \A k \in 1 .. m : SubSeq(q, 1, m)[k] = q[k]
    BY <1>2, <1>4, SubSeqProperties
  <1>8. PICK e : e = m + n
    OBVIOUS
  <1>9. e \in Nat /\ e =< m + l /\ Len(q) - Len(v) = e
    <2>1. e \in Nat /\ e =< m + l /\ (m + l) - (l - n) = e
      BY <1>2, <1>8
    <2>2. Len(v) = l - n /\ Len(q) = m + l
      BY <1>2, <1>5, Zenon
    <2> QED BY <2>1, <2>2, Zenon
  <1>10. /\ SubSeq(q, 1, e) \in Seq(STRING) /\ Len(SubSeq(q, 1, e)) = e
         /\ \A k \in 1 .. e : SubSeq(q, 1, e)[k] = q[k]
    BY <1>4, <1>9, SubSeqProperties
  <1>11. \A k \in 1 .. n : m + k \in 1 .. e /\ k \in 1 .. l
    BY <1>2, <1>8
  <1>12. \A k \in 1 .. m : k \in 1 .. e
    BY <1>2, <1>8
  <1>13. Read(SubSeq(u, 1, n), v, SubSeq(q, 1, m), SubSeq(q, 1, e))
    <2>1. PICK p, c, d : p = SubSeq(u, 1, n) /\ c = SubSeq(q, 1, m) /\ d = SubSeq(q, 1, e)
      OBVIOUS
    <2>2. p \in Seq(STRING) /\ Len(p) = n /\ \A k \in 1 .. n : p[k] = u[k]
      BY <1>6, <2>1
    <2>3. c \in Seq(STRING) /\ Len(c) = m /\ \A k \in 1 .. m : c[k] = q[k]
      BY <1>7, <2>1
    <2>4. d \in Seq(STRING) /\ Len(d) = m + n /\ \A k \in 1 .. e : d[k] = q[k]
      BY <1>8, <1>10, <2>1
    <2>5. \A k \in 1 .. m : d[k] = c[k]
      BY <1>12, <2>3, <2>4
    <2>6. \A k \in 1 .. n : d[m + k] = p[k]
      BY <1>3, <1>11, <2>2, <2>4
    <2>7. Read(p, v, c, d)
      BY <1>5, <2>2, <2>3, <2>4, <2>5, <2>6 DEF Read
    <2> QED BY <2>1, <2>7
  <1>14. \A k \in 1 .. Len(v) : v[k] = q[Len(q) - Len(v) + k]
    <2>1. \A k \in 1 .. l - n : n + k \in 1 .. l /\ m + (n + k) = e + k
      BY <1>2, <1>8
    <2> QED BY <1>3, <1>5, <1>9, <2>1
  <1>15. Len(v) =< Len(q)
    BY <1>2, <1>5
  <1>16. Rest(v, q)
    BY <1>14, <1>15 DEF Rest
  <1> QED BY <1>1, <1>9, <1>13, <1>16, Zenon

LEMMA NextFingerInv == FingerInv /\ [FingerNext]_fingerVars => FingerInv'
  <1> SUFFICES ASSUME FingerInv, [FingerNext]_fingerVars PROVE FingerInv'
    OBVIOUS
  <1>1. CASE UNCHANGED fingerVars
    BY <1>1 DEF fingerVars, FingerInv, Got, FingerOnce
  <1>2. ASSUME NEW n \in 1 .. Len(unread), FingerMessage(SubSeq(unread, 1, n)),
               unread' = SubSeq(unread, n + 1, Len(unread)), query' = query
        PROVE  FingerInv'
    <2>1. PICK p, c, e, b : p = SubSeq(unread, 1, n) /\ c = Got /\ e = Got' /\ b = fbuf \o p
      OBVIOUS
    <2>2. Got = SubSeq(query, 1, Len(query) - Len(unread)) /\ Got' = SubSeq(query, 1, Len(query) - Len(unread'))
      BY <1>2 DEF Got
    <2>3. /\ Read(p, unread', c, e) /\ Len(unread') =< Len(query)
          /\ \A k \in 1 .. Len(unread') : unread'[k] = query[Len(query) - Len(unread') + k]
      <3>1. PICK q, u, v : q = query /\ u = unread /\ v = unread'
        OBVIOUS
      <3>2. q \in Seq(STRING) /\ u \in Seq(STRING) /\ Rest(u, q) /\ n \in 1 .. Len(u)
        BY <3>1 DEF FingerInv, Rest
      <3>3. v = SubSeq(u, n + 1, Len(u))
        BY <1>2, <3>1
      <3>4. /\ Read(SubSeq(u, 1, n), v, SubSeq(q, 1, Len(q) - Len(u)), SubSeq(q, 1, Len(q) - Len(v)))
            /\ Rest(v, q)
        BY <3>2, <3>3, QueryCut
      <3>5. p = SubSeq(u, 1, n) /\ c = SubSeq(q, 1, Len(q) - Len(u)) /\ e = SubSeq(q, 1, Len(q) - Len(v))
        BY <2>1, <2>2, <3>1
      <3>6. Read(p, v, c, e)
        BY <3>4, <3>5
      <3> QED BY <3>1, <3>4, <3>6 DEF Rest
    <2>4. /\ p \in Seq(STRING) /\ c \in Seq(STRING) /\ e \in Seq(STRING) /\ unread' \in Seq(STRING) /\ Begins(c, e)
      BY <2>3 DEF Read, Begins
    <2>5. b \in Seq(STRING) /\ fbuf \in Seq(STRING)
      BY <2>1, <2>4, ConcatProperties DEF FingerInv
    <2>6. fbuf' \in Seq(STRING)
      <3>1. CASE CrlfAt(b) = 0
        BY <1>2, <2>1, <2>5, <3>1 DEF FingerMessage
      <3>2. CASE CrlfAt(b) # 0
        <4>1. LineEnds(b, CrlfAt(b))
          BY <2>5, <3>2, CrlfFinds
        <4>2. PICK k : k = CrlfAt(b)
          OBVIOUS
        <4>3. k + 1 \in Int /\ Len(b) \in Int /\ k + 1 >= 1
          BY <2>5, <4>1, <4>2 DEF LineEnds
        <4>4. \A i \in k + 1 .. Len(b) : b[i] \in STRING
          BY <2>5, <4>3
        <4>5. SubSeq(b, k + 1, Len(b)) \in Seq(STRING)
          BY <4>3, <4>4, SubSeqProperties
        <4>6. fbuf' = SubSeq(b, k + 1, Len(b))
          BY <1>2, <2>1, <3>2, <4>2, Zenon DEF FingerMessage
        <4> QED BY <4>5, <4>6
      <3> QED BY <3>1, <3>2
    <2>7. shut \in BOOLEAN /\ shut' \in BOOLEAN /\ said = AnswerTo(c)
      BY <1>2, <2>1, FingerAnswer, Zenon DEF FingerInv, FingerMessage
    <2>8. ASSUME ~shut PROVE said' = AnswerTo(e) /\ (~shut' => fbuf' = e /\ CrlfAt(e) = 0) /\ (shut' => CrlfAt(e) # 0)
      <3>1. fbuf = c /\ CrlfAt(c) = 0
        BY <2>1, <2>8 DEF FingerInv
      <3>2. b = e
        <4>1. /\ Len(b) = Len(c) + Len(p) /\ Len(e) = Len(c) + Len(p) /\ Len(c) \in Nat /\ Len(p) \in Nat
              /\ \A i \in 1 .. Len(c) + Len(p) : b[i] = IF i <= Len(c) THEN c[i] ELSE p[i - Len(c)]
          BY <2>1, <2>3, <2>4, <3>1, ConcatProperties DEF Read
        <4>2. \A i \in 1 .. Len(b) : b[i] = e[i]
          <5> SUFFICES ASSUME NEW i \in 1 .. Len(b) PROVE b[i] = e[i]
            OBVIOUS
          <5>1. CASE i =< Len(c)
            <6>1. i \in 1 .. Len(c) /\ b[i] = c[i]
              BY <4>1, <5>1
            <6> QED BY <2>3, <6>1 DEF Read
          <5>2. CASE ~(i =< Len(c))
            <6>1. PICK j : j = i - Len(c)
              OBVIOUS
            <6>2. j \in 1 .. Len(p) /\ i = Len(c) + j /\ b[i] = p[j]
              BY <4>1, <5>2, <6>1
            <6> QED BY <2>3, <6>2 DEF Read
          <5> QED BY <5>1, <5>2
        <4> QED BY <2>4, <2>5, <4>1, <4>2, SeqEqual
      <3>3. said = << >>
        BY <2>7, <3>1 DEF AnswerTo
      <3>4. CASE CrlfAt(e) = 0
        <4>1. fbuf' = b /\ said' = said /\ shut' = shut
          BY <1>2, <2>1, <3>2, <3>4, Zenon DEF FingerMessage
        <4> QED BY <2>8, <3>2, <3>3, <3>4, <4>1 DEF AnswerTo
      <3>5. CASE CrlfAt(e) # 0
        <4>1. said' = Append(said, GetUser(SubSeq(b, 1, CrlfAt(b) - 1))) /\ shut' = TRUE
          BY <1>2, <2>1, <2>8, <3>2, <3>5, Zenon DEF FingerMessage
        <4>2. said' = <<GetUser(SubSeq(e, 1, CrlfAt(e) - 1))>>
          BY <3>2, <3>3, <4>1
        <4> QED BY <3>5, <4>1, <4>2, Zenon DEF AnswerTo
      <3> QED BY <3>4, <3>5
    <2>9. ASSUME shut PROVE said' = AnswerTo(e) /\ (~shut' => fbuf' = e /\ CrlfAt(e) = 0) /\ (shut' => CrlfAt(e) # 0)
      <3>1. CrlfAt(c) # 0
        BY <2>1, <2>9 DEF FingerInv
      <3>2. CrlfAt(e) = CrlfAt(c) /\ SubSeq(e, 1, CrlfAt(c) - 1) = SubSeq(c, 1, CrlfAt(c) - 1)
        BY <2>4, <3>1, LineStays
      <3>3. AnswerTo(e) = AnswerTo(c)
        BY <3>2, Zenon DEF AnswerTo
      <3>4. said' = said /\ shut'
        BY <1>2, <2>9, Zenon DEF FingerMessage
      <3> QED BY <2>7, <3>1, <3>2, <3>3, <3>4, Zenon
    <2>10. said' = AnswerTo(Got') /\ (~shut' => fbuf' = Got' /\ CrlfAt(Got') = 0) /\ (shut' => CrlfAt(Got') # 0)
      BY <2>1, <2>7, <2>8, <2>9, Zenon
    <2>11. FingerOnce'
      <3>1. FingerOnce' <=> said' = AnswerTo(Got')
        BY Zenon DEF FingerOnce, AnswerTo, Got, CrlfAt, GetUser
      <3> QED BY <2>10, <3>1
    <2>12. query' \in Seq(STRING)
      BY <1>2 DEF FingerInv
    <2>13. CrlfAt(Got)' = CrlfAt(Got')
      BY DEF CrlfAt
    <2> QED BY <1>2, <2>3, <2>4, <2>6, <2>7, <2>10, <2>11, <2>12, <2>13, Zenon DEF FingerInv
  <1> QED BY <1>1, <1>2 DEF FingerNext
(* The small examples, each with its own connections: for every block,     *)
(* ring, query and number of messages, and however the streams are cut, a  *)
(* pingpong session keeps its block, bench halts with empty pipes and not  *)
(* before, finger answers the first line once and remote_lat makes its     *)
(* round trips.                                                            *)
THEOREM ExamplesPassOn ==
  /\ PingInit /\ [][PingNext]_pingVars
  /\ BenchInit /\ [][BenchNext]_benchVars
  /\ FingerInit /\ [][FingerNext]_fingerVars
  /\ LatInit /\ [][LatNext]_latVars
  => []ExamplesExact
  <1>1. PingInv => BlockCirculates
    BY DEF PingInv, BlockKept, BlockCirculates
  <1>2. FingerInv => FingerOnce
    BY DEF FingerInv
  <1>3. LatInv => RoundTrips
    BY DEF LatInv, RoundTrips, Trips
  <1>4. PingInv /\ BenchInv /\ FingerInv /\ LatInv => ExamplesExact
    BY <1>1, <1>2, <1>3, InvBench DEF ExamplesExact
  <1> QED BY <1>4, InitPingInv, NextPingInv, InitBenchInv, NextBenchInv, InitFingerInv, NextFingerInv,
             InitLatInv, NextLatInv, PTL
================================================================================
