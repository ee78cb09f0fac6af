----------------------------- MODULE NgxHeartbeat -----------------------------
(***************************************************************************)
(* The heartbeat server of heartbeat/: ngx_server.c on ngx_reactor.c and   *)
(* ngx_event_timer.c.  One thread runs the loop of ngx_reactor_loop:       *)
(* epoll_wait, the handlers of its results, the handlers of the timers     *)
(* that are due.  A handler makes one system call whose result its peer    *)
(* can influence (recv or accept), so a handler is one step; the peers act *)
(* between any two of them.                                                *)
(*                                                                         *)
(* The code compares times only by their difference from ngx_current_msec. *)
(* So the model keeps differences: key is the time left until the timer is *)
(* due, idle the time since last_active, and the clock has no bound.       *)
(*                                                                         *)
(* ev[s] holds the ngx_event_t at reactor->ev[s] (what, status, idle,      *)
(* timer_set, key) and what the kernel knows of descriptor s (interest:    *)
(* its entry in the epoll set, peer, data).  Descriptors 0 to 2 are the    *)
(* standard streams, 3 is the listener, 4 the epoll descriptor.  The table *)
(* is too large for the heap of a fresh process, so malloc returns zeroed  *)
(* pages.  accept_cb searches for a free entry from index 0, which no      *)
(* socket ever uses, so the search always succeeds; the limit on           *)
(* descriptors keeps the index inside the table.  Nothing asks for         *)
(* WRITING, so send_cb is never called.                                    *)
(***************************************************************************)
EXTENDS Integers

CONSTANTS FdLimit,                  \* descriptors the process may have
          KEEPALIVE_INTVAL_MSEC,    \* the timeout of a connection, in ticks
          KEEPALIVE_INTVAL_PROBES,
          NGX_TIMER_LAZY_DELAY,     \* in ticks
          MaxDelta,                 \* bound on one advance of the clock
          MaxBacklog,               \* bound on clients not yet accepted
          MaxData                   \* bound on the reads a peer's data needs

FirstFd == 5
Fds == FirstFd .. FdLimit - 1
Listener == 3

ASSUME FdAssumption == FdLimit \in Nat /\ FdLimit > FirstFd
ASSUME TimeAssumption ==
  /\ KEEPALIVE_INTVAL_MSEC \in Nat \ {0}
  /\ KEEPALIVE_INTVAL_PROBES \in Nat \ {0}
  /\ NGX_TIMER_LAZY_DELAY \in 1 .. KEEPALIVE_INTVAL_MSEC
  /\ MaxDelta \in Nat \ {0}
ASSUME PeerAssumption == MaxBacklog \in Nat \ {0} /\ MaxData \in Nat \ {0}

VARIABLES ev,        \* the table, and the kernel's view of each descriptor
          loop,      \* where ngx_reactor_loop is
          batch,     \* results of epoll_wait still to be handled
          delta,     \* how far the clock moved during epoll_wait
          backlog    \* clients that have connected and are not accepted

vars == <<ev, loop, batch, delta, backlog>>

\* timeout_cb only asks whether this much time has passed.
IdleMax == KEEPALIVE_INTVAL_MSEC * KEEPALIVE_INTVAL_PROBES

Event == [what       : SUBSET {"READING", "TIMEOUT"},
          status     : {0, 1},
          idle       : 0 .. IdleMax,
          timer_set  : {0, 1},
          key        : 1 - MaxDelta .. KEEPALIVE_INTVAL_MSEC,
          interest   : {"none", "EPOLLIN"},
          peer       : {"none", "up", "fin", "reset"},
          data       : 0 .. MaxData]

\* The state in which ngx_reactor_addlistener and ngx_event_timer_init leave
\* the server; the listener itself is always registered.
Init ==
  /\ ev = [s \in Fds |-> [what |-> {}, status |-> 0, idle |-> IdleMax,
                          timer_set |-> 0, key |-> 0,
                          interest |-> "none", peer |-> "none", data |-> 0]]
  /\ loop = "poll"
  /\ batch = {}
  /\ delta = 0
  /\ backlog = 0

Open(s) == ev[s].peer # "none"

----------------------------------------------------------------------------
(* The peers *)

Connect ==
  /\ backlog < MaxBacklog
  /\ backlog' = backlog + 1
  /\ UNCHANGED <<ev, loop, batch, delta>>

Send(s) ==
  /\ ev[s].peer = "up"
  /\ ev[s].data < MaxData
  /\ ev' = [ev EXCEPT ![s] = [@ EXCEPT !.data = ev[s].data + 1]]
  /\ UNCHANGED <<loop, batch, delta, backlog>>

\* An orderly close, or a reset: then recv may fail before all data is read.
Leave(s) ==
  /\ ev[s].peer = "up"
  /\ \E how \in {"fin", "reset"} : ev' = [ev EXCEPT ![s] = [@ EXCEPT !.peer = how]]
  /\ UNCHANGED <<loop, batch, delta, backlog>>

----------------------------------------------------------------------------
(* Operations on an event *)

\* close() also takes the descriptor out of the epoll set.
Close(e) == [e EXCEPT !.peer = "none", !.data = 0, !.interest = "none"]

EventSet(e) == [e EXCEPT !.what = {}, !.idle = 0]

\* A timer that is set and nearly the same stays as it is.
AddTimer(e, timer) ==
  IF e.timer_set = 1 /\ timer - e.key < NGX_TIMER_LAZY_DELAY
  THEN e
  ELSE [e EXCEPT !.timer_set = 1, !.key = timer]

\* status decides between MOD, which fails for a descriptor that is not in
\* the epoll set, and ADD, which fails for a closed one.  status is 1
\* afterwards, and the timer is set, in either case.
EventAdd(e, what, timeout) ==
  LET t == IF "TIMEOUT" \in what THEN AddTimer(e, timeout) ELSE e
  IN  [t EXCEPT !.what = @ \cup what,
                !.status = 1,
                !.interest = IF e.status = 1 THEN @
                             ELSE IF e.peer = "none" THEN "none" ELSE "EPOLLIN"]

EventDel(e) ==
  IF e.status = 1 THEN [e EXCEPT !.status = 0, !.interest = "none"] ELSE e

----------------------------------------------------------------------------
(* The handlers of ngx_server.c.  Where recv may succeed or fail, each is  *)
(* the set of possible results.                                            *)

\* Mutant: the event is deleted after it has been added again.
RecvCbDeletesLast(e) ==
  (IF e.data > 0
   THEN {EventDel(EventAdd(EventSet([e EXCEPT !.data = @ - 1]), {"READING"},
                           KEEPALIVE_INTVAL_MSEC))}
   ELSE {}) \cup
  (IF e.data = 0 \/ e.peer = "reset" THEN {Close(EventDel(e))} ELSE {})

\* Mutant: the end of the stream is taken for an empty message.
RecvCbIgnoresEof(e) ==
  (IF e.data > 0 \/ e.peer = "fin"
   THEN {EventAdd(EventSet(EventDel([e EXCEPT !.data = IF @ > 0 THEN @ - 1 ELSE 0])),
                  {"READING"}, KEEPALIVE_INTVAL_MSEC)}
   ELSE {}) \cup
  (IF (e.data = 0 /\ e.peer # "fin") \/ e.peer = "reset" THEN {Close(EventDel(e))} ELSE {})

\* recv takes what fits into the buffer.  It fails with EAGAIN when there is
\* nothing to read and with EBADF when the descriptor is closed.
RecvCb(e) ==
  (IF e.data > 0
   THEN {EventAdd(EventSet(EventDel([e EXCEPT !.data = @ - 1])), {"READING"},
                  KEEPALIVE_INTVAL_MSEC)}
   ELSE {}) \cup
  (IF e.data = 0 \/ e.peer = "reset" THEN {Close(EventDel(e))} ELSE {})

TimeoutCb(e) == IF e.idle >= IdleMax THEN Close(e) ELSE e

\* recv_cb may clear what; the test for TIMEOUT comes after it.
ClientHandler(e) ==
  {IF "TIMEOUT" \in r.what
   THEN EventAdd(TimeoutCb(r), {"READING", "TIMEOUT"}, KEEPALIVE_INTVAL_MSEC)
   ELSE r : r \in IF "READING" \in e.what THEN RecvCb(e) ELSE {e}}

\* accept takes the lowest free descriptor; without one it fails and the
\* client stays in the queue.  The peer may have sent data or left already.
AcceptCb ==
  IF \A s \in Fds : Open(s)
  THEN UNCHANGED <<ev, backlog>>
  ELSE \E s \in Fds, how \in {"up", "fin", "reset"}, n \in 0 .. MaxData :
         /\ ~Open(s)
         /\ \A r \in Fds : ~Open(r) => s =< r
         /\ backlog' = backlog - 1
         /\ LET e == EventSet([ev[s] EXCEPT !.peer = how, !.data = n])
            IN  ev' = [ev EXCEPT ![s] =
                         EventAdd(e, {"READING", "TIMEOUT"}, KEEPALIVE_INTVAL_MSEC)]

----------------------------------------------------------------------------
(* ngx_reactor_loop *)

Timers == {s \in Fds : ev[s].timer_set = 1}

\* The timer at the left end of the tree.
Earliest(s) == s \in Timers /\ \A r \in Timers : ev[s].key =< ev[r].key

Readable(s) ==
  ev[s].interest = "EPOLLIN" /\ (ev[s].data > 0 \/ ev[s].peer \in {"fin", "reset"})

Ready == {s \in Fds : Readable(s)} \cup (IF backlog > 0 THEN {Listener} ELSE {})

\* ngx_time_update moves the clock by d.
Elapse(e, d) ==
  [e EXCEPT !.idle = IF @ + d < IdleMax THEN @ + d ELSE IdleMax,
            !.key = IF e.timer_set = 1 THEN @ - d ELSE @]

\* Without an event the call lasts until the earliest timer is due, or for
\* ever when there is none.  The clock may move further than that, and while
\* the handlers of the last round ran.  An interrupted call starts over.
EpollWait(d) ==
  /\ loop = "poll"
  /\ Ready = {} => \E s \in Timers : ev[s].key =< d
  /\ batch' = Ready
  /\ delta' = d
  /\ ev' = [s \in Fds |-> Elapse(ev[s], d)]
  /\ loop' = "events"
  /\ UNCHANGED backlog

Dispatch ==
  /\ loop = "events"
  /\ \E s \in batch :
       /\ batch' = batch \ {s}
       /\ \/ s = Listener /\ AcceptCb
          \/ /\ s # Listener
             /\ \E e \in ClientHandler(ev[s]) : ev' = [ev EXCEPT ![s] = e]
             /\ UNCHANGED backlog
  /\ UNCHANGED <<loop, delta>>

EventsDone ==
  /\ loop = "events"
  /\ batch = {}
  /\ loop' = IF delta > 0 THEN "timers" ELSE "poll"
  /\ UNCHANGED <<ev, batch, delta, backlog>>

\* Mutant: timers also expire while results of epoll_wait are pending.
ExpireAmongEvents ==
  /\ loop \in {"events", "timers"}
  /\ \E s \in Timers :
       /\ Earliest(s)
       /\ ev[s].key =< 0
       /\ \E e \in ClientHandler([ev[s] EXCEPT !.timer_set = 0, !.key = 0,
                                               !.what = @ \cup {"TIMEOUT"}]) :
            ev' = [ev EXCEPT ![s] = e]
  /\ UNCHANGED <<loop, batch, delta, backlog>>

\* The earliest timer leaves the tree and its handler runs.
Expire ==
  /\ loop = "timers"
  /\ \E s \in Timers :
       /\ Earliest(s)
       /\ ev[s].key =< 0
       /\ \E e \in ClientHandler([ev[s] EXCEPT !.timer_set = 0, !.key = 0,
                                               !.what = @ \cup {"TIMEOUT"}]) :
            ev' = [ev EXCEPT ![s] = e]
  /\ UNCHANGED <<loop, batch, delta, backlog>>

\* Mutant: a timer that is due right now is left for the next round.
TimersDoneEarly ==
  /\ loop = "timers"
  /\ \A s \in Timers : ev[s].key >= 0
  /\ loop' = "poll"
  /\ UNCHANGED <<ev, batch, delta, backlog>>

TimersDone ==
  /\ loop = "timers"
  /\ \A s \in Timers : ev[s].key > 0
  /\ loop' = "poll"
  /\ UNCHANGED <<ev, batch, delta, backlog>>

Peers == Connect \/ \E s \in Fds : Send(s) \/ Leave(s)

Handlers == Dispatch \/ EventsDone \/ Expire \/ TimersDone

Reactor == Handlers \/ \E d \in 0 .. MaxDelta : EpollWait(d)

Next == Peers \/ Reactor

Spec == Init /\ [][Next]_vars

\* The loop goes on, and its clock does not stand still for ever.
FairSpec ==
  /\ Spec
  /\ WF_vars(Reactor)
  /\ SF_vars(\E d \in 1 .. MaxDelta : EpollWait(d))

----------------------------------------------------------------------------
(* Properties *)

(* Every field of an ngx_event_t keeps its range; in particular a timer is *)
(* handled in the round in which it falls due, so key never falls further  *)
(* behind than one wait of epoll_wait (ngx_event_timer.c:71).              *)
TypeOK ==
  /\ ev \in [Fds -> Event]
  /\ loop \in {"poll", "events", "timers"}
  /\ batch \subseteq Fds \cup {Listener}
  /\ delta \in 0 .. MaxDelta
  /\ backlog \in 0 .. MaxBacklog

(* No accepted connection is forgotten: the epoll set or a timer will      *)
(* bring the loop back to it.  A new client on a descriptor that an        *)
(* expired connection left with status 1 is registered by MOD, which       *)
(* fails (ngx_reactor.c:48), and only its timer can reach it.              *)
NoneForgotten ==
  \A s \in Fds : Open(s) => ev[s].interest # "none" \/ ev[s].timer_set = 1

(* The kernel's epoll set holds no descriptor that the table believes to   *)
(* be absent, and none that has been closed: the DEL of ngx_event_del is   *)
(* never skipped for a registered event (ngx_reactor.c:68).                *)
RegisteredIsKnown ==
  \A s \in Fds : ev[s].interest # "none" => ev[s].status = 1 /\ Open(s)

(* When the loop goes back to epoll_wait no timer is due: the timeout that *)
(* ngx_event_find_timer passes to it is never 0 (ngx_event_timer.c:71).    *)
NoneOverdue ==
  loop = "poll" => \A s \in Timers : ev[s].key > 0

(* The server closes the connection of a live peer only when the timer of  *)
(* that connection is due and nothing has arrived: never on a read event   *)
(* that has become stale, and never because the descriptor was another     *)
(* client's before (ngx_server.c:57).                                      *)
ClosedOnlyWhenSilent ==
  [][\A s \in Fds :
       ev[s].peer = "up" /\ ev'[s].peer = "none" =>
         ev[s].timer_set = 1 /\ ev[s].key =< 0 /\ ev[s].data = 0]_vars

(* The descriptor of a peer that has left is closed, also when it is not   *)
(* in the epoll set (ngx_server.c:50-60), and a connection with a timer is *)
(* heard of or closed (ngx_server.c:167).                                  *)
GoneOrSilentClosed ==
  \A s \in Fds :
    /\ ev[s].peer \in {"fin", "reset"} ~> ~Open(s)
    /\ Open(s) /\ ev[s].timer_set = 1 ~> ~Open(s) \/ ev[s].data > 0

(* "readd timer for event" (ngx_server.c:170): a connection keeps a timer  *)
(* as long as it is open, or a silent peer is never noticed.               *)
Monitored == \A s \in Fds : Open(s) => ev[s].timer_set = 1
=============================================================================
