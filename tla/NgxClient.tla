------------------------------- MODULE NgxClient -------------------------------
(***************************************************************************)
(* heartbeat/ngx_client.c: one connection on ngx_reactor.c and the timer   *)
(* tree, here with a single node, so that the tree is the bit in.  main    *)
(* adds the event, and its timer, before ngx_reactor_loop empties the tree *)
(* (ngx_reactor.c:121): the loop starts with timer_set = 1 and a node that *)
(* is in no tree and whose links are null.  Deleting it follows them.      *)
(*                                                                         *)
(* Times are differences from ngx_current_msec, as in NgxHeartbeat.        *)
(***************************************************************************)
EXTENDS Integers

CONSTANTS Interval,    \* KEEPALIVE_INTVAL_MSEC, in ticks
          LazyDelay,   \* NGX_TIMER_LAZY_DELAY, in ticks
          MaxStep      \* bound on one advance of the clock

ASSUME IntervalAssumption ==
  Interval \in Nat \ {0} /\ LazyDelay \in 1 .. Interval /\ MaxStep \in Nat /\ MaxStep >= Interval

VARIABLES cl,      \* the event, its node and its descriptor
          stage,   \* where ngx_reactor_loop is
          moved,   \* the clock moved during epoll_wait
          serverSide   \* what the server has done: [data |-> ..., fin |-> ...]

clientVars == <<cl, stage, moved, serverSide>>

ClientInit ==
  /\ cl = [what |-> {"READING", "TIMEOUT"}, status |-> 1, timer_set |-> 1, key |-> Interval,
           in |-> FALSE, crashed |-> FALSE, interest |-> {"READING"}, open |-> TRUE]
  /\ stage = "poll" /\ moved = FALSE
  /\ serverSide = [data |-> FALSE, fin |-> FALSE]

CloseFd(c) == [c EXCEPT !.open = FALSE, !.interest = {}]

\* ngx_event_add_timer.  A node that is in the tree already, and is inserted
\* again with timer_set = 0, is the root: insertion hangs it below itself and
\* then overwrites its links, which leaves the tree with this one node.
Arm(c) ==
  IF c.timer_set = 1 /\ Interval - c.key < LazyDelay THEN c
  ELSE IF c.timer_set = 1 /\ ~c.in THEN [c EXCEPT !.crashed = TRUE]
  ELSE [c EXCEPT !.timer_set = 1, !.key = Interval, !.in = TRUE]

\* ngx_event_add; epoll_ctl fails on a closed descriptor and MOD on an absent one.
AddEvent(c, w) ==
  LET armed == Arm([c EXCEPT !.what = @ \cup w])
      done  == armed.open /\ (armed.status = 0 \/ armed.interest # {})
  IN  [armed EXCEPT !.status = 1, !.interest = IF done THEN w \ {"TIMEOUT"} ELSE @]

DelEvent(c) == IF c.status = 1 THEN [c EXCEPT !.status = 0, !.interest = {}] ELSE c

\* recv_cb, with the result of recv.
RecvCallback(c, result) ==
  IF result = "data"
  THEN AddEvent([DelEvent(c) EXCEPT !.what = {}], {"WRITING", "TIMEOUT"})
  ELSE CloseFd(DelEvent(c))

\* send_cb; send fails when the descriptor is closed or the socket is full.
SendCallback(c, sent) ==
  IF sent THEN AddEvent([DelEvent(c) EXCEPT !.what = {}], {"READING", "TIMEOUT"})
  ELSE DelEvent(CloseFd(c))

\* handler: all three parts in one call, each after the changes of the last.
Handler(c, result, sent) ==
  LET c1 == IF "READING" \in c.what THEN RecvCallback(c, result) ELSE c
      c2 == IF "WRITING" \in c1.what /\ ~c1.crashed THEN SendCallback(c1, sent) ELSE c1
  IN  IF "TIMEOUT" \in c2.what /\ ~c2.crashed
      THEN AddEvent([c2 EXCEPT !.timer_set = 0], {"READING", "TIMEOUT"}) ELSE c2

CallHandler(c) ==
  LET result == IF c.open /\ serverSide.data THEN "data" ELSE "none"
  IN  /\ \E sent \in BOOLEAN : (sent => c.open) /\ cl' = Handler(c, result, sent)
      /\ serverSide' = IF "READING" \in c.what /\ c.open THEN [serverSide EXCEPT !.data = FALSE] ELSE serverSide

----------------------------------------------------------------------------
(* The server, and ngx_reactor_loop *)

ServerSends == ~serverSide.data /\ ~serverSide.fin /\ serverSide' = [serverSide EXCEPT !.data = TRUE]
               /\ UNCHANGED <<cl, stage, moved>>

ServerLeaves == ~serverSide.fin /\ serverSide' = [serverSide EXCEPT !.fin = TRUE]
                /\ UNCHANGED <<cl, stage, moved>>

ReadyNow == \/ "READING" \in cl.interest /\ (serverSide.data \/ serverSide.fin)
            \/ "WRITING" \in cl.interest

\* epoll_wait returns for an event or for the timer, which may be late.
PollClient(d) ==
  /\ stage = "poll" /\ ~cl.crashed
  /\ ReadyNow \/ (cl.in /\ d >= cl.key)
  /\ cl' = [cl EXCEPT !.key = IF @ - d < -MaxStep THEN -MaxStep ELSE @ - d]
  /\ stage' = IF ReadyNow THEN "event" ELSE "timers"
  /\ moved' = (d > 0)
  /\ UNCHANGED serverSide

HandleClientEvent ==
  /\ stage = "event" /\ ~cl.crashed
  /\ CallHandler(cl)
  /\ stage' = IF moved THEN "timers" ELSE "poll"
  /\ UNCHANGED moved

ExpireClient ==
  /\ stage = "timers" /\ ~cl.crashed
  /\ IF cl.in /\ cl.key =< 0
     THEN CallHandler([cl EXCEPT !.in = FALSE, !.timer_set = 0, !.what = @ \cup {"TIMEOUT"}])
          /\ UNCHANGED stage
     ELSE stage' = "poll" /\ UNCHANGED <<cl, serverSide>>
  /\ UNCHANGED moved

ClientLoop == (\E d \in 0 .. MaxStep : PollClient(d)) \/ HandleClientEvent \/ ExpireClient

ClientNext == ServerSends \/ ServerLeaves \/ ClientLoop

----------------------------------------------------------------------------
(* Properties *)

(* Once the timer is in the tree the client waits with a timer for ever,   *)
(* whatever arrives or fails, and deletes no node that is not there:       *)
(* setting timer_set to 0 by hand (ngx_client.c:125) loses nothing.        *)
OnceArmed ==
  [](cl.in /\ stage = "poll" => [](~cl.crashed /\ (stage = "poll" => cl.in)))

(* A client whose server has gone closes its descriptor, unless it has    *)
(* followed the null links of a node that is in no tree.                   *)
ServerLossSeen == serverSide.fin ~> (~cl.open \/ cl.crashed)
=============================================================================
