-------------------------- MODULE NgxHeartbeatProofs --------------------------
(***************************************************************************)
(* Proofs about the heartbeat server, for every number of descriptors,     *)
(* every interval and lazy delay, and every advance of the clock.          *)
(*                                                                         *)
(* A handler is a composition of operations on one event, so the argument  *)
(* is made for one event: Sound is preserved by each operation, and lifted *)
(* to the table once.  The clock needs one fact about the loop: no timer   *)
(* is due while it waits, or while it handles events in a round in which   *)
(* the clock did not move (NotDue).                                        *)
(***************************************************************************)
EXTENDS NgxHeartbeat, TLAPS

\* What every operation on an event needs and keeps: its type, that the
\* epoll set is known to the table, and that a closed descriptor has no data.
Sound(e) ==
  /\ e \in Event
  /\ e.interest # "none" => e.status = 1 /\ e.peer # "none"
  /\ e.peer = "none" => e.data = 0

\* The loop will come back to the connection.
Reached(e) == e.peer # "none" => e.interest # "none" \/ e.timer_set = 1

\* The timer is not due.
NotDue(e) == e.timer_set = 1 => e.key > 0

----------------------------------------------------------------------------
(* Operations on one event *)

(* The cap on the idle time is a positive number.                          *)
LEMMA IdleMaxNat == IdleMax \in Nat
BY TimeAssumption DEF IdleMax

\* f is the event e with the field named changed to v.
Updated(e, f, field, v) ==
  /\ f \in Event
  /\ f.what = IF field = "what" THEN v ELSE e.what
  /\ f.status = IF field = "status" THEN v ELSE e.status
  /\ f.idle = IF field = "idle" THEN v ELSE e.idle
  /\ f.timer_set = IF field = "timer_set" THEN v ELSE e.timer_set
  /\ f.key = IF field = "key" THEN v ELSE e.key
  /\ f.interest = IF field = "interest" THEN v ELSE e.interest
  /\ f.peer = IF field = "peer" THEN v ELSE e.peer
  /\ f.data = IF field = "data" THEN v ELSE e.data

(* Changing what leaves an event and its other fields.                     *)
LEMMA UpdateWhat ==
  ASSUME NEW e \in Event, NEW v \in SUBSET {"READING", "TIMEOUT"}
  PROVE  Updated(e, [e EXCEPT !.what = v], "what", v)
BY DEF Updated, Event

(* Changing status leaves an event and its other fields.                   *)
LEMMA UpdateStatus ==
  ASSUME NEW e \in Event, NEW v \in {0, 1}
  PROVE  Updated(e, [e EXCEPT !.status = v], "status", v)
BY DEF Updated, Event

(* Changing idle leaves an event and its other fields.                     *)
LEMMA UpdateIdle ==
  ASSUME NEW e \in Event, NEW v \in 0 .. IdleMax
  PROVE  Updated(e, [e EXCEPT !.idle = v], "idle", v)
BY DEF Updated, Event

(* Changing timer_set leaves an event and its other fields.                *)
LEMMA UpdateTimerSet ==
  ASSUME NEW e \in Event, NEW v \in {0, 1}
  PROVE  Updated(e, [e EXCEPT !.timer_set = v], "timer_set", v)
BY DEF Updated, Event

(* Changing key leaves an event and its other fields.                      *)
LEMMA UpdateKey ==
  ASSUME NEW e \in Event, NEW v \in 1 - MaxDelta .. KEEPALIVE_INTVAL_MSEC
  PROVE  Updated(e, [e EXCEPT !.key = v], "key", v)
BY DEF Updated, Event

(* Changing interest leaves an event and its other fields.                 *)
LEMMA UpdateInterest ==
  ASSUME NEW e \in Event, NEW v \in {"none", "EPOLLIN"}
  PROVE  Updated(e, [e EXCEPT !.interest = v], "interest", v)
BY DEF Updated, Event

(* Changing peer leaves an event and its other fields.                     *)
LEMMA UpdatePeer ==
  ASSUME NEW e \in Event, NEW v \in {"none", "up", "fin", "reset"}
  PROVE  Updated(e, [e EXCEPT !.peer = v], "peer", v)
BY DEF Updated, Event

(* Changing data leaves an event and its other fields.                     *)
LEMMA UpdateData ==
  ASSUME NEW e \in Event, NEW v \in 0 .. MaxData
  PROVE  Updated(e, [e EXCEPT !.data = v], "data", v)
BY DEF Updated, Event

(* close() leaves a sound event that needs no attention.                   *)
LEMMA CloseSound ==
  ASSUME NEW e \in Event, Sound(e)
  PROVE  /\ Sound(Close(e)) /\ Reached(Close(e))
         /\ Close(e).timer_set = e.timer_set /\ Close(e).key = e.key
         /\ Close(e).what = e.what
<1> DEFINE e1 == [e EXCEPT !.peer = "none"]
           e2 == [e1 EXCEPT !.data = 0]
           e3 == [e2 EXCEPT !.interest = "none"]
<1>1. Close(e) = e3
  BY DEF Close
<1>2. Updated(e, e1, "peer", "none")
  BY UpdatePeer
<1> HIDE DEF e1
<1>3. Updated(e1, e2, "data", 0)
  BY <1>2, UpdateData, PeerAssumption DEF Updated
<1> HIDE DEF e2
<1>4. Updated(e2, e3, "interest", "none")
  BY <1>3, UpdateInterest DEF Updated
<1> HIDE DEF e3
<1> QED
  BY <1>1, <1>2, <1>3, <1>4 DEF Updated, Sound, Reached

(* ngx_event_set keeps an event sound and does not touch its timer.        *)
LEMMA EventSetSound ==
  ASSUME NEW e \in Event, Sound(e)
  PROVE  /\ Sound(EventSet(e))
         /\ EventSet(e).timer_set = e.timer_set /\ EventSet(e).key = e.key
         /\ EventSet(e).status = e.status
<1> DEFINE e1 == [e EXCEPT !.what = {}]
           e2 == [e1 EXCEPT !.idle = 0]
<1>1. EventSet(e) = e2
  BY DEF EventSet
<1>2. Updated(e, e1, "what", {})
  BY UpdateWhat
<1> HIDE DEF e1
<1>3. Updated(e1, e2, "idle", 0)
  BY <1>2, UpdateIdle, IdleMaxNat DEF Updated
<1> HIDE DEF e2
<1> QED
  BY <1>1, <1>2, <1>3 DEF Updated, Sound

(* ngx_event_del keeps an event sound and does not touch its timer.        *)
LEMMA EventDelSound ==
  ASSUME NEW e \in Event, Sound(e)
  PROVE  /\ Sound(EventDel(e))
         /\ EventDel(e).status = 0
         /\ EventDel(e).timer_set = e.timer_set /\ EventDel(e).key = e.key
<1> DEFINE e1 == [e EXCEPT !.status = 0]
           e2 == [e1 EXCEPT !.interest = "none"]
<1>1. EventDel(e) = IF e.status = 1 THEN e2 ELSE e
  BY DEF EventDel
<1>2. Updated(e, e1, "status", 0)
  BY UpdateStatus
<1> HIDE DEF e1
<1>3. Updated(e1, e2, "interest", "none")
  BY <1>2, UpdateInterest DEF Updated
<1> HIDE DEF e2
<1>4. CASE e.status = 1
  <2>1. EventDel(e) = e2
    BY <1>1, <1>4
  <2> QED
    BY <1>2, <1>3, <2>1 DEF Updated, Sound
<1>5. CASE e.status # 1
  <2>1. EventDel(e) = e /\ e.status = 0
    BY <1>1, <1>5 DEF Event
  <2> QED
    BY <2>1
<1> QED
  BY <1>4, <1>5

(* ngx_event_add_timer leaves a timer that is set and, unless the old one  *)
(* was due, not due.                                                       *)
LEMMA AddTimerSound ==
  ASSUME NEW e \in Event, Sound(e)
  PROVE  LET t == AddTimer(e, KEEPALIVE_INTVAL_MSEC)
         IN  /\ Sound(t)
             /\ t.timer_set = 1
             /\ NotDue(e) => NotDue(t)
             /\ t.what = e.what /\ t.status = e.status /\ t.peer = e.peer
             /\ t.interest = e.interest /\ t.data = e.data
<1> DEFINE t == AddTimer(e, KEEPALIVE_INTVAL_MSEC)
           e1 == [e EXCEPT !.timer_set = 1]
           e2 == [e1 EXCEPT !.key = KEEPALIVE_INTVAL_MSEC]
<1>1. \/ t = e /\ e.timer_set = 1
      \/ t = e2
  BY DEF AddTimer
<1>2. Updated(e, e1, "timer_set", 1)
  BY UpdateTimerSet
<1> HIDE DEF e1
<1>3. /\ KEEPALIVE_INTVAL_MSEC \in 1 - MaxDelta .. KEEPALIVE_INTVAL_MSEC
      /\ KEEPALIVE_INTVAL_MSEC > 0
  BY TimeAssumption
<1>4. Updated(e1, e2, "key", KEEPALIVE_INTVAL_MSEC)
  BY <1>2, <1>3, UpdateKey DEF Updated
<1> HIDE DEF e2, t
<1>5. CASE t = e /\ e.timer_set = 1
  BY <1>5 DEF t
<1>6. CASE t = e2
  <2>1. Sound(t)
    BY <1>2, <1>4, <1>6 DEF Updated, Sound
  <2>2. NotDue(t)
    BY <1>3, <1>4, <1>6 DEF Updated, NotDue
  <2>3. /\ t.timer_set = 1
        /\ t.what = e.what /\ t.status = e.status /\ t.peer = e.peer
        /\ t.interest = e.interest /\ t.data = e.data
    BY <1>2, <1>4, <1>6 DEF Updated
  <2> QED
    BY <2>1, <2>2, <2>3 DEF t
<1> QED
  BY <1>1, <1>5, <1>6

(* ngx_event_add leaves an event the loop comes back to, if it asks for a  *)
(* timer or if the event had been taken out of the epoll set.              *)
LEMMA EventAddSound ==
  ASSUME NEW e \in Event, Sound(e),
         NEW what \in SUBSET {"READING", "TIMEOUT"}
  PROVE  LET r == EventAdd(e, what, KEEPALIVE_INTVAL_MSEC)
         IN  /\ Sound(r)
             /\ NotDue(e) => NotDue(r)
             /\ "TIMEOUT" \in what \/ e.status = 0 => Reached(r)
<1> DEFINE t == IF "TIMEOUT" \in what THEN AddTimer(e, KEEPALIVE_INTVAL_MSEC) ELSE e
           w == t.what \cup what
           reg == IF e.status = 1 THEN t.interest
                  ELSE IF e.peer = "none" THEN "none" ELSE "EPOLLIN"
           t1 == [t EXCEPT !.what = w]
           t2 == [t1 EXCEPT !.status = 1]
           t3 == [t2 EXCEPT !.interest = reg]
           r == EventAdd(e, what, KEEPALIVE_INTVAL_MSEC)
<1>1. r = [t EXCEPT !.what = @ \cup what, !.status = 1,
                    !.interest = IF e.status = 1 THEN @
                                 ELSE IF e.peer = "none" THEN "none" ELSE "EPOLLIN"]
  BY DEF EventAdd
<1>2. r = [t EXCEPT !.what = w, !.status = 1, !.interest = reg]
  BY <1>1
<1>3. r = t3
  BY <1>2
<1>4. /\ t \in Event /\ Sound(t)
      /\ NotDue(e) => NotDue(t)
      /\ "TIMEOUT" \in what => t.timer_set = 1
      /\ t.status = e.status /\ t.peer = e.peer
      /\ t.interest = e.interest /\ t.data = e.data
  BY AddTimerSound DEF Sound
<1> HIDE DEF t
<1>5. w \in SUBSET {"READING", "TIMEOUT"} /\ reg \in {"none", "EPOLLIN"}
  BY <1>4 DEF Event
<1> HIDE DEF w
<1>6. Updated(t, t1, "what", w)
  BY <1>4, <1>5, UpdateWhat
<1> HIDE DEF t1
<1>7. Updated(t1, t2, "status", 1)
  BY <1>6, UpdateStatus DEF Updated
<1>8. reg = IF e.status = 1 THEN e.interest
             ELSE IF e.peer = "none" THEN "none" ELSE "EPOLLIN"
  BY <1>4
<1> HIDE DEF t2, reg
<1>9. Updated(t2, t3, "interest", reg)
  BY <1>5, <1>7, UpdateInterest DEF Updated
<1> HIDE DEF t3, r
<1>10. Sound(r)
  <2>1. r \in Event /\ r.status = 1 /\ r.peer = e.peer /\ r.data = e.data /\ r.interest = reg
    BY <1>3, <1>4, <1>6, <1>7, <1>9 DEF Updated
  <2>2. reg # "none" => e.peer # "none"
    BY <1>8 DEF Sound
  <2> QED
    BY <2>1, <2>2 DEF Sound
<1>11. NotDue(e) => NotDue(r)
  BY <1>3, <1>4, <1>6, <1>7, <1>9 DEF Updated, NotDue
<1>12. "TIMEOUT" \in what \/ e.status = 0 => Reached(r)
  <2>1. r.peer = e.peer /\ r.interest = reg /\ r.timer_set = t.timer_set
    BY <1>3, <1>4, <1>6, <1>7, <1>9 DEF Updated
  <2>2. CASE "TIMEOUT" \in what
    BY <2>1, <2>2, <1>4 DEF Reached
  <2>3. CASE e.status = 0 /\ e.peer # "none"
    <3>1. r.interest = "EPOLLIN"
      BY <1>8, <2>1, <2>3
    <3> QED
      BY <3>1 DEF Reached
  <2>4. CASE e.peer = "none"
    BY <2>1, <2>4 DEF Reached
  <2> QED
    BY <2>2, <2>3, <2>4
<1> QED
  BY <1>10, <1>11, <1>12 DEF r

(* recv_cb puts a connection it has read from into the epoll set, and      *)
(* closes it otherwise.                                                    *)
LEMMA RecvCbSound ==
  ASSUME NEW e \in Event, Sound(e), NEW r \in RecvCb(e)
  PROVE  Sound(r) /\ Reached(r) /\ (NotDue(e) => NotDue(r))
<1> DEFINE e1 == [e EXCEPT !.data = e.data - 1]
           e2 == EventDel(e1)
           e3 == EventSet(e2)
           d == EventDel(e)
<1>1. \/ e.data > 0 /\ r = EventAdd(e3, {"READING"}, KEEPALIVE_INTVAL_MSEC)
      \/ r = Close(d)
  BY DEF RecvCb
<1>2. CASE r = Close(d)
  <2>1. d \in Event /\ Sound(d) /\ d.timer_set = e.timer_set /\ d.key = e.key
    BY EventDelSound DEF Sound
  <2> HIDE DEF d
  <2>2. /\ Sound(Close(d)) /\ Reached(Close(d))
        /\ Close(d).timer_set = e.timer_set /\ Close(d).key = e.key
    BY <2>1, CloseSound
  <2> QED
    BY <1>2, <2>2 DEF NotDue
<1>3. CASE e.data > 0 /\ r = EventAdd(e3, {"READING"}, KEEPALIVE_INTVAL_MSEC)
  <2>1. e.data - 1 \in 0 .. MaxData /\ e.peer # "none"
    BY <1>3, PeerAssumption DEF Sound, Event
  <2>2. Updated(e, e1, "data", e.data - 1)
    BY <2>1, UpdateData
  <2> HIDE DEF e1
  <2>3. e1 \in Event /\ Sound(e1) /\ e1.timer_set = e.timer_set /\ e1.key = e.key
    BY <2>1, <2>2 DEF Updated, Sound
  <2>4. /\ e2 \in Event /\ Sound(e2) /\ e2.status = 0
        /\ e2.timer_set = e.timer_set /\ e2.key = e.key
    BY <2>3, EventDelSound DEF Sound
  <2> HIDE DEF e2
  <2>5. /\ e3 \in Event /\ Sound(e3) /\ e3.status = 0
        /\ e3.timer_set = e.timer_set /\ e3.key = e.key
    BY <2>4, EventSetSound DEF Sound
  <2> HIDE DEF e3
  <2>6. {"READING"} \in SUBSET {"READING", "TIMEOUT"}
    OBVIOUS
  <2>7. Sound(r) /\ Reached(r) /\ (NotDue(e3) => NotDue(r))
    BY <1>3, <2>5, <2>6, EventAddSound
  <2> QED
    BY <2>5, <2>7 DEF NotDue
<1> QED
  BY <1>1, <1>2, <1>3

(* client_handler leaves an event the loop comes back to, whether a result *)
(* of epoll_wait or a timer calls it: then the timer is out of the tree,   *)
(* TIMEOUT is in what, and nothing else need reach the connection.         *)
LEMMA ClientHandlerSound ==
  ASSUME NEW e \in Event, Sound(e), Reached(e) \/ "TIMEOUT" \in e.what,
         NEW r \in ClientHandler(e)
  PROVE  Sound(r) /\ Reached(r) /\ (NotDue(e) => NotDue(r))
<1>1. PICK c \in (IF "READING" \in e.what THEN RecvCb(e) ELSE {e}) :
        r = IF "TIMEOUT" \in c.what
            THEN EventAdd(TimeoutCb(c), {"READING", "TIMEOUT"}, KEEPALIVE_INTVAL_MSEC)
            ELSE c
  BY DEF ClientHandler
<1>2. /\ c \in Event /\ Sound(c) /\ (NotDue(e) => NotDue(c))
      /\ Reached(c) \/ "TIMEOUT" \in c.what
  <2>1. CASE "READING" \in e.what
    <3>1. c \in RecvCb(e)
      BY <1>1, <2>1
    <3> QED
      BY <3>1, RecvCbSound DEF Sound
  <2>2. CASE "READING" \notin e.what
    <3>1. c = e
      BY <1>1, <2>2
    <3> QED
      BY <3>1
  <2> QED
    BY <2>1, <2>2
<1>3. CASE "TIMEOUT" \notin c.what
  <2>1. r = c
    BY <1>1, <1>3
  <2> QED
    BY <1>2, <1>3, <2>1
<1>4. CASE "TIMEOUT" \in c.what
  <2> DEFINE t == TimeoutCb(c)
  <2>1. r = EventAdd(t, {"READING", "TIMEOUT"}, KEEPALIVE_INTVAL_MSEC)
    BY <1>1, <1>4
  <2>2. t = Close(c) \/ t = c
    BY DEF TimeoutCb
  <2> HIDE DEF t
  <2>3. Sound(Close(c)) /\ Close(c).timer_set = c.timer_set /\ Close(c).key = c.key
    BY <1>2, CloseSound
  <2>4. t \in Event /\ Sound(t) /\ (NotDue(c) => NotDue(t))
    <3>1. CASE t = c
      BY <1>2, <3>1
    <3>2. CASE t = Close(c)
      BY <2>3, <3>2 DEF Sound, NotDue
    <3> QED
      BY <2>2, <3>1, <3>2
  <2>5. {"READING", "TIMEOUT"} \in SUBSET {"READING", "TIMEOUT"}
    OBVIOUS
  <2>6. Sound(r) /\ Reached(r) /\ (NotDue(t) => NotDue(r))
    BY <2>1, <2>4, <2>5, EventAddSound
  <2> QED
    BY <1>2, <2>4, <2>6
<1> QED
  BY <1>3, <1>4

(* The clock moves: an event that was not due stays in its type, and its   *)
(* timer is still not due if the clock did not move at all.                *)
LEMMA ElapseSound ==
  ASSUME NEW e \in Event, Sound(e), Reached(e), NotDue(e), NEW d \in 0 .. MaxDelta
  PROVE  /\ Sound(Elapse(e, d)) /\ Reached(Elapse(e, d))
         /\ d = 0 => NotDue(Elapse(e, d))
<1> DEFINE i == IF e.idle + d < IdleMax THEN e.idle + d ELSE IdleMax
           k == IF e.timer_set = 1 THEN e.key - d ELSE e.key
           e1 == [e EXCEPT !.idle = i]
           e2 == [e1 EXCEPT !.key = k]
<1>1. Elapse(e, d) = [e EXCEPT !.idle = i, !.key = k]
  BY DEF Elapse
<1>2. Elapse(e, d) = e2
  BY <1>1
<1>3. i \in 0 .. IdleMax
  BY IdleMaxNat, TimeAssumption DEF Event
<1>4. k \in 1 - MaxDelta .. KEEPALIVE_INTVAL_MSEC /\ (d = 0 => k = e.key)
  BY TimeAssumption DEF Event, NotDue
<1> HIDE DEF i, k
<1>5. Updated(e, e1, "idle", i)
  BY <1>3, UpdateIdle
<1> HIDE DEF e1
<1>6. Updated(e1, e2, "key", k)
  BY <1>4, <1>5, UpdateKey DEF Updated
<1> HIDE DEF e2
<1>7. Sound(e2)
  BY <1>5, <1>6 DEF Updated, Sound
<1>8. Reached(e2)
  BY <1>5, <1>6 DEF Updated, Reached
<1>9. d = 0 => NotDue(e2)
  BY <1>4, <1>5, <1>6 DEF Updated, NotDue
<1> QED
  BY <1>2, <1>7, <1>8, <1>9

(* The timer of an event leaves the tree.                                  *)
LEMMA TimedOutSound ==
  ASSUME NEW e \in Event, Sound(e)
  PROVE  LET t == [e EXCEPT !.timer_set = 0, !.key = 0, !.what = @ \cup {"TIMEOUT"}]
         IN  t \in Event /\ Sound(t) /\ "TIMEOUT" \in t.what
<1> DEFINE w == e.what \cup {"TIMEOUT"}
           e1 == [e EXCEPT !.timer_set = 0]
           e2 == [e1 EXCEPT !.key = 0]
           e3 == [e2 EXCEPT !.what = w]
           t == [e EXCEPT !.timer_set = 0, !.key = 0, !.what = @ \cup {"TIMEOUT"}]
<1>1. t = [e EXCEPT !.timer_set = 0, !.key = 0, !.what = w]
  OBVIOUS
<1>2. t = e3
  BY <1>1
<1>3. w \in SUBSET {"READING", "TIMEOUT"} /\ "TIMEOUT" \in w
  BY DEF Event
<1> HIDE DEF w
<1>4. Updated(e, e1, "timer_set", 0)
  BY UpdateTimerSet
<1> HIDE DEF e1
<1>5. 0 \in 1 - MaxDelta .. KEEPALIVE_INTVAL_MSEC
  BY TimeAssumption
<1>6. Updated(e1, e2, "key", 0)
  BY <1>4, <1>5, UpdateKey DEF Updated
<1> HIDE DEF e2
<1>7. Updated(e2, e3, "what", w)
  BY <1>3, <1>6, UpdateWhat DEF Updated
<1> HIDE DEF e3, t
<1>8. t \in Event /\ Sound(t) /\ "TIMEOUT" \in t.what
  BY <1>2, <1>3, <1>4, <1>6, <1>7 DEF Updated, Sound
<1> QED
  BY <1>8 DEF t

----------------------------------------------------------------------------
(* The invariant *)

\* The part of the invariant that speaks of the events.
TableInv ==
  /\ ev \in [Fds -> Event]
  /\ \A s \in Fds : Sound(ev[s]) /\ Reached(ev[s])
  /\ loop = "poll" \/ (loop = "events" /\ delta = 0) => \A s \in Fds : NotDue(ev[s])

(* Replacing one event by a sound one keeps the table's invariant.         *)
LEMMA OneEvent ==
  ASSUME TableInv, NEW s \in Fds, NEW e, Sound(e), Reached(e),
         \/ NotDue(ev[s]) => NotDue(e)
         \/ loop = "timers",
         ev' = [ev EXCEPT ![s] = e], loop' = loop, delta' = delta
  PROVE  TableInv'
<1>1. e \in Event
  BY DEF Sound
<1>2. ev' \in [Fds -> Event]
  BY <1>1 DEF TableInv
<1>3. \A r \in Fds : ev'[r] = IF r = s THEN e ELSE ev[r]
  BY DEF TableInv
<1>4. ASSUME NEW r \in Fds PROVE Sound(ev[r])' /\ Reached(ev[r])'
  <2>1. Sound(ev'[r]) /\ Reached(ev'[r])
    BY <1>3 DEF TableInv
  <2> QED
    BY <2>1 DEF Sound, Reached
<1>5. ASSUME loop' = "poll" \/ (loop' = "events" /\ delta' = 0), NEW r \in Fds
      PROVE  NotDue(ev[r])'
  <2>1. NotDue(ev'[r])
    BY <1>3, <1>5 DEF TableInv
  <2> QED
    BY <2>1 DEF NotDue
<1> QED
  BY <1>2, <1>4, <1>5 DEF TableInv

\* The part of the invariant that speaks of the loop.
LoopInv ==
  /\ loop \in {"poll", "events", "timers"}
  /\ batch \subseteq Fds \cup {Listener}
  /\ delta \in 0 .. MaxDelta
  /\ backlog \in 0 .. MaxBacklog
  /\ Listener \in batch => backlog > 0

Inv == TableInv /\ LoopInv

(* The server starts with an empty table.                                  *)
LEMMA InitInv == Init => Inv
<1> SUFFICES ASSUME Init PROVE Inv
  OBVIOUS
<1> DEFINE z == [what |-> {}, status |-> 0, idle |-> IdleMax, timer_set |-> 0, key |-> 0,
                 interest |-> "none", peer |-> "none", data |-> 0]
<1>1. z \in Event
  BY IdleMaxNat, TimeAssumption, PeerAssumption DEF Event
<1>2. Sound(z) /\ Reached(z) /\ NotDue(z)
  BY <1>1 DEF Sound, Reached, NotDue
<1>3. ev = [s \in Fds |-> z]
  BY DEF Init
<1> HIDE DEF z
<1>4. TableInv
  BY <1>1, <1>2, <1>3 DEF TableInv
<1>5. LoopInv
  BY TimeAssumption, PeerAssumption DEF Init, LoopInv
<1> QED
  BY <1>4, <1>5 DEF Inv

(* Peers connect, send and leave.                                          *)
LEMMA PeersInv == Inv /\ Peers => Inv'
<1> SUFFICES ASSUME Inv, Peers PROVE Inv'
  OBVIOUS
<1> USE DEF Inv
<1>1. CASE Connect
  <2>1. TableInv'
    BY <1>1 DEF Connect, TableInv, Sound, Reached, NotDue
  <2>2. LoopInv'
    BY <1>1, PeerAssumption DEF Connect, LoopInv
  <2> QED
    BY <2>1, <2>2
<1>2. ASSUME NEW s \in Fds, Send(s) PROVE Inv'
  <2> DEFINE v == ev[s].data + 1
             e == [ev[s] EXCEPT !.data = v]
  <2>1. ev[s] \in Event /\ Sound(ev[s]) /\ Reached(ev[s])
    BY DEF TableInv
  <2>2. v \in 0 .. MaxData /\ ev[s].peer = "up"
    BY <1>2, <2>1, PeerAssumption DEF Send, Event
  <2>3. ev' = [ev EXCEPT ![s] = e]
    BY <1>2 DEF Send
  <2> HIDE DEF v
  <2>4. Updated(ev[s], e, "data", v)
    BY <2>1, <2>2, UpdateData
  <2> HIDE DEF e
  <2>5. Sound(e) /\ Reached(e) /\ (NotDue(ev[s]) => NotDue(e))
    BY <2>1, <2>2, <2>4 DEF Updated, Sound, Reached, NotDue
  <2>6. TableInv'
    BY <1>2, <2>3, <2>5, OneEvent DEF Send
  <2>7. LoopInv'
    BY <1>2 DEF Send, LoopInv
  <2> QED
    BY <2>6, <2>7
<1>3. ASSUME NEW s \in Fds, Leave(s) PROVE Inv'
  <2>1. PICK how \in {"fin", "reset"} : ev' = [ev EXCEPT ![s] = [@ EXCEPT !.peer = how]]
    BY <1>3 DEF Leave
  <2> DEFINE e == [ev[s] EXCEPT !.peer = how]
  <2>2. ev[s] \in Event /\ Sound(ev[s]) /\ Reached(ev[s]) /\ ev[s].peer = "up"
    BY <1>3 DEF TableInv, Leave
  <2>3. ev' = [ev EXCEPT ![s] = e]
    BY <2>1
  <2>4. Updated(ev[s], e, "peer", how)
    BY <2>2, UpdatePeer
  <2> HIDE DEF e
  <2>5. Sound(e) /\ Reached(e) /\ (NotDue(ev[s]) => NotDue(e))
    BY <2>2, <2>4 DEF Updated, Sound, Reached, NotDue
  <2>6. TableInv'
    BY <1>3, <2>3, <2>5, OneEvent DEF Leave
  <2>7. LoopInv'
    BY <1>3 DEF Leave, LoopInv
  <2> QED
    BY <2>6, <2>7
<1> QED
  BY <1>1, <1>2, <1>3 DEF Peers

(* epoll_wait returns and the clock moves.                                 *)
LEMMA EpollWaitInv ==
  ASSUME Inv, NEW d \in 0 .. MaxDelta, EpollWait(d)
  PROVE  Inv'
<1> USE DEF Inv
<1>1. ev' = [s \in Fds |-> Elapse(ev[s], d)] /\ loop' = "events" /\ delta' = d
  BY DEF EpollWait
<1>2. ASSUME NEW s \in Fds
      PROVE  /\ Sound(Elapse(ev[s], d)) /\ Reached(Elapse(ev[s], d))
             /\ d = 0 => NotDue(Elapse(ev[s], d))
  <2>1. ev[s] \in Event /\ Sound(ev[s]) /\ Reached(ev[s]) /\ NotDue(ev[s])
    BY DEF TableInv, EpollWait
  <2> QED
    BY <2>1, ElapseSound
<1>3. \A s \in Fds : Elapse(ev[s], d) \in Event
  BY <1>2 DEF Sound
<1>4. \A s \in Fds : ev'[s] = Elapse(ev[s], d)
  BY <1>1
<1>5. \A s \in Fds : /\ Sound(ev'[s]) /\ Reached(ev'[s])
                     /\ d = 0 => NotDue(ev'[s])
  BY <1>2, <1>4
<1>6. TableInv'
  <2>1. ev' \in [Fds -> Event]
    BY <1>1, <1>3
  <2> QED
    BY <1>1, <1>5, <2>1 DEF TableInv, Sound, Reached, NotDue
<1>7. LoopInv'
  <2>1. batch' \subseteq Fds \cup {Listener}
    BY DEF EpollWait, Ready
  <2>2. Listener \in batch' => backlog > 0
    BY DEF EpollWait, Ready, Fds, Listener, FirstFd
  <2> QED
    BY <1>1, <2>1, <2>2 DEF EpollWait, LoopInv
<1> QED
  BY <1>6, <1>7

(* accept_cb: the new connection is in the epoll set, or at least has a    *)
(* timer.                                                                  *)
LEMMA AcceptInv ==
  ASSUME Inv, AcceptCb, UNCHANGED <<loop, delta>>
  PROVE  TableInv'
<1>1. CASE \A s \in Fds : Open(s)
  BY <1>1 DEF Inv, AcceptCb, TableInv, Sound, Reached, NotDue
<1>2. CASE ~ \A s \in Fds : Open(s)
  <2>1. PICK s \in Fds, how \in {"up", "fin", "reset"}, n \in 0 .. MaxData :
          LET e == EventSet([ev[s] EXCEPT !.peer = how, !.data = n])
          IN  ev' = [ev EXCEPT ![s] =
                       EventAdd(e, {"READING", "TIMEOUT"}, KEEPALIVE_INTVAL_MSEC)]
    BY <1>2 DEF AcceptCb
  <2> DEFINE e1 == [ev[s] EXCEPT !.peer = how]
             e2 == [e1 EXCEPT !.data = n]
             e3 == EventSet(e2)
             r == EventAdd(e3, {"READING", "TIMEOUT"}, KEEPALIVE_INTVAL_MSEC)
  <2>2. ev' = [ev EXCEPT ![s] = r]
    BY <2>1
  <2>3. ev[s] \in Event /\ Sound(ev[s])
    BY DEF Inv, TableInv
  <2>4. Updated(ev[s], e1, "peer", how)
    BY <2>3, UpdatePeer
  <2> HIDE DEF e1
  <2>5. Updated(e1, e2, "data", n)
    BY <2>4, UpdateData DEF Updated
  <2> HIDE DEF e2
  <2>6. e2 \in Event /\ Sound(e2) /\ e2.timer_set = ev[s].timer_set /\ e2.key = ev[s].key
    BY <2>3, <2>4, <2>5 DEF Updated, Sound
  <2>7. e3 \in Event /\ Sound(e3) /\ e3.timer_set = ev[s].timer_set /\ e3.key = ev[s].key
    BY <2>6, EventSetSound DEF Sound
  <2> HIDE DEF e3
  <2>8. {"READING", "TIMEOUT"} \in SUBSET {"READING", "TIMEOUT"}
    OBVIOUS
  <2>9. Sound(r) /\ Reached(r) /\ (NotDue(e3) => NotDue(r))
    BY <2>7, <2>8, EventAddSound
  <2> HIDE DEF r
  <2>10. NotDue(ev[s]) => NotDue(r)
    BY <2>7, <2>9 DEF NotDue
  <2> QED
    BY <2>2, <2>9, <2>10, OneEvent DEF Inv
<1> QED
  BY <1>1, <1>2

(* The handler of one result of epoll_wait.                                *)
LEMMA DispatchInv == Inv /\ Dispatch => Inv'
<1> SUFFICES ASSUME Inv, Dispatch PROVE Inv'
  OBVIOUS
<1>1. PICK s \in batch :
        /\ batch' = batch \ {s}
        /\ \/ s = Listener /\ AcceptCb
           \/ /\ s # Listener
              /\ \E e \in ClientHandler(ev[s]) : ev' = [ev EXCEPT ![s] = e]
              /\ UNCHANGED backlog
  BY DEF Dispatch
<1>2. UNCHANGED <<loop, delta>>
  BY DEF Dispatch
<1>3. CASE s = Listener /\ AcceptCb
  <2>1. TableInv'
    BY <1>2, <1>3, AcceptInv
  <2>2. backlog > 0 /\ backlog \in 0 .. MaxBacklog
    BY <1>1, <1>3 DEF Inv, LoopInv
  <2>3. backlog' = backlog \/ backlog' = backlog - 1
    BY <1>3 DEF AcceptCb
  <2>4. backlog' \in 0 .. MaxBacklog
    BY <2>2, <2>3, PeerAssumption
  <2>5. LoopInv'
    BY <1>1, <1>2, <1>3, <2>4 DEF Inv, LoopInv
  <2> QED
    BY <2>1, <2>5 DEF Inv
<1>4. CASE s # Listener /\ UNCHANGED backlog /\ \E e \in ClientHandler(ev[s]) : ev' = [ev EXCEPT ![s] = e]
  <2>1. PICK e \in ClientHandler(ev[s]) : ev' = [ev EXCEPT ![s] = e]
    BY <1>4
  <2>2. s \in Fds
    BY <1>1, <1>4 DEF Inv, LoopInv
  <2>3. ev[s] \in Event /\ Sound(ev[s]) /\ Reached(ev[s])
    BY <2>2 DEF Inv, TableInv
  <2>4. Sound(e) /\ Reached(e) /\ (NotDue(ev[s]) => NotDue(e))
    BY <2>3, ClientHandlerSound
  <2>5. TableInv'
    BY <1>2, <2>1, <2>2, <2>4, OneEvent DEF Inv
  <2>6. LoopInv'
    BY <1>1, <1>2, <1>4 DEF Inv, LoopInv
  <2> QED
    BY <2>5, <2>6 DEF Inv
<1> QED
  BY <1>1, <1>3, <1>4

(* The handler of a timer that is due.                                     *)
LEMMA ExpireInv == Inv /\ Expire => Inv'
<1> SUFFICES ASSUME Inv, Expire PROVE Inv'
  OBVIOUS
<1>1. PICK s \in Timers :
        \E e \in ClientHandler([ev[s] EXCEPT !.timer_set = 0, !.key = 0,
                                             !.what = @ \cup {"TIMEOUT"}]) :
          ev' = [ev EXCEPT ![s] = e]
  BY DEF Expire
<1> DEFINE t == [ev[s] EXCEPT !.timer_set = 0, !.key = 0, !.what = @ \cup {"TIMEOUT"}]
<1>2. PICK e \in ClientHandler(t) : ev' = [ev EXCEPT ![s] = e]
  BY <1>1
<1>3. s \in Fds
  BY DEF Timers
<1>4. ev[s] \in Event /\ Sound(ev[s])
  BY <1>3 DEF Inv, TableInv
<1>5. t \in Event /\ Sound(t) /\ "TIMEOUT" \in t.what
  BY <1>4, TimedOutSound
<1> HIDE DEF t
<1>6. Sound(e) /\ Reached(e)
  BY <1>2, <1>5, ClientHandlerSound
<1>7. loop = "timers" /\ UNCHANGED <<loop, batch, delta, backlog>>
  BY DEF Expire
<1>8. TableInv'
  BY <1>2, <1>3, <1>6, <1>7, OneEvent DEF Inv
<1>9. LoopInv'
  BY <1>7 DEF Inv, LoopInv
<1> QED
  BY <1>8, <1>9 DEF Inv

(* The loop goes on to the timers and back to epoll_wait.                  *)
LEMMA RoundInv == Inv /\ (EventsDone \/ TimersDone) => Inv'
<1> SUFFICES ASSUME Inv, EventsDone \/ TimersDone PROVE Inv'
  OBVIOUS
<1>1. UNCHANGED <<ev, batch, delta, backlog>>
  BY DEF EventsDone, TimersDone
<1>2. loop' \in {"poll", "events", "timers"}
  BY DEF EventsDone, TimersDone
<1>3. loop' = "poll" \/ (loop' = "events" /\ delta' = 0) => \A s \in Fds : NotDue(ev[s])
  <2>1. CASE EventsDone
    <3>1. delta \in 0 .. MaxDelta
      BY DEF Inv, LoopInv
    <3>2. loop' = "poll" => delta = 0
      BY <2>1, <3>1 DEF EventsDone
    <3>3. loop = "events" /\ loop' # "events"
      BY <2>1 DEF EventsDone
    <3> QED
      BY <3>2, <3>3 DEF Inv, TableInv
  <2>2. CASE TimersDone
    BY <2>2 DEF TimersDone, Timers, NotDue
  <2> QED
    BY <2>1, <2>2
<1>4. TableInv'
  BY <1>1, <1>3 DEF Inv, TableInv, Sound, Reached, NotDue
<1>5. LoopInv'
  BY <1>1, <1>2 DEF Inv, LoopInv
<1> QED
  BY <1>4, <1>5 DEF Inv

(* Every step of the server and of its peers keeps the invariant.          *)
LEMMA NextInv == Inv /\ [Next]_vars => Inv'
<1> SUFFICES ASSUME Inv, [Next]_vars PROVE Inv'
  OBVIOUS
<1>1. CASE Peers
  BY <1>1, PeersInv
<1>2. ASSUME NEW d \in 0 .. MaxDelta, EpollWait(d) PROVE Inv'
  BY <1>2, EpollWaitInv
<1>3. CASE Handlers
  BY <1>3, DispatchInv, ExpireInv, RoundInv DEF Handlers
<1>4. CASE UNCHANGED vars
  BY <1>4 DEF vars, Inv, TableInv, LoopInv, Sound, Reached, NotDue
<1> QED
  BY <1>1, <1>2, <1>3, <1>4 DEF Next, Reactor

(* The inductive invariant of the heartbeat server: every event is sound   *)
(* and will be looked at again, and no timer is due while the loop waits   *)
(* (ngx_reactor.c:109-159).                                                *)
THEOREM Invariant == Spec => []Inv
BY InitInv, NextInv, PTL DEF Spec

(* Every variable of the heartbeat server keeps its type: the times that   *)
(* ngx_event_add_timer and ngx_event_expire_timers compare stay within one *)
(* interval and one advance of the clock.                                  *)
THEOREM TypeCorrect == Spec => []TypeOK
<1>1. Inv => TypeOK
  BY DEF Inv, TableInv, LoopInv, TypeOK
<1> QED
  BY <1>1, Invariant, PTL

(* No accepted connection is ever out of reach of the loop, although       *)
(* status may be wrong and MOD may fail (ngx_reactor.c:48).                *)
THEOREM Reachable == Spec => []NoneForgotten
<1>1. Inv => NoneForgotten
  BY DEF Inv, TableInv, Reached, NoneForgotten, Open
<1> QED
  BY <1>1, Invariant, PTL

(* The epoll set never holds a descriptor that is closed or that           *)
(* ngx_event_del would skip (ngx_reactor.c:68).                            *)
THEOREM EpollSetKnown == Spec => []RegisteredIsKnown
<1>1. Inv => RegisteredIsKnown
  BY DEF Inv, TableInv, Sound, RegisteredIsKnown, Open
<1> QED
  BY <1>1, Invariant, PTL

(* The loop never goes back to epoll_wait with a timer that is due         *)
(* (ngx_event_timer.c:60-90).                                              *)
THEOREM TimersHandled == Spec => []NoneOverdue
<1>1. Inv => NoneOverdue
  BY DEF Inv, TableInv, NotDue, NoneOverdue, Timers
<1> QED
  BY <1>1, Invariant, PTL
----------------------------------------------------------------------------
(* When a connection is closed *)

(* What the operations on an event do to peer and what.                    *)
LEMMA OperationFields ==
  ASSUME NEW e \in Event
  PROVE  /\ Close(e).peer = "none"
         /\ EventSet(e).peer = e.peer /\ EventSet(e).what = {}
         /\ EventDel(e).peer = e.peer /\ EventDel(e).what = e.what
         /\ \A what : LET r == EventAdd(e, what, KEEPALIVE_INTVAL_MSEC)
                      IN  r.peer = e.peer /\ r.what = e.what \cup what
<1>1. Close(e).peer = "none"
  BY DEF Close, Event
<1>2. EventSet(e).peer = e.peer /\ EventSet(e).what = {}
  BY DEF EventSet, Event
<1>3. EventDel(e).peer = e.peer /\ EventDel(e).what = e.what
  BY DEF EventDel, Event
<1>4. ASSUME NEW what
      PROVE  /\ EventAdd(e, what, KEEPALIVE_INTVAL_MSEC).peer = e.peer
             /\ EventAdd(e, what, KEEPALIVE_INTVAL_MSEC).what = e.what \cup what
  <2> DEFINE t == IF "TIMEOUT" \in what THEN AddTimer(e, KEEPALIVE_INTVAL_MSEC) ELSE e
             w == t.what \cup what
             reg == IF e.status = 1 THEN t.interest
                    ELSE IF e.peer = "none" THEN "none" ELSE "EPOLLIN"
  <2>1. t.peer = e.peer /\ t.what = e.what /\ DOMAIN t = DOMAIN e
    BY DEF AddTimer, Event
  <2>2. EventAdd(e, what, KEEPALIVE_INTVAL_MSEC)
          = [t EXCEPT !.what = w, !.status = 1, !.interest = reg]
    BY DEF EventAdd
  <2>3. {"peer", "what"} \in SUBSET DOMAIN e
    BY DEF Event
  <2> HIDE DEF t, reg
  <2> QED
    BY <2>1, <2>2, <2>3
<1> QED
  BY <1>1, <1>2, <1>3, <1>4

\* A connection is read before its timeout is looked at.
Reading(e) == e.peer # "none" => "READING" \in e.what

\* A read of the connection finds something.
Pending(e) == e.data > 0 \/ e.peer \in {"fin", "reset"}

(* client_handler keeps a connection readable, and does not close one      *)
(* whose live peer has sent something.                                     *)
LEMMA HandlerKeepsLive ==
  ASSUME NEW e \in Event, Sound(e), Reading(e), NEW r \in ClientHandler(e)
  PROVE  /\ Reading(r)
         /\ e.peer = "up" /\ e.data > 0 => r.peer # "none"
<1>1. PICK c \in (IF "READING" \in e.what THEN RecvCb(e) ELSE {e}) :
        r = IF "TIMEOUT" \in c.what
            THEN EventAdd(TimeoutCb(c), {"READING", "TIMEOUT"}, KEEPALIVE_INTVAL_MSEC)
            ELSE c
  BY DEF ClientHandler
<1>2. /\ c \in Event /\ Sound(c) /\ Reading(c)
      /\ e.peer = "up" /\ e.data > 0 => c.peer # "none" /\ "TIMEOUT" \notin c.what
  <2>1. CASE "READING" \notin e.what
    <3>1. c = e
      BY <1>1, <2>1
    <3>2. e.peer = "none"
      BY <2>1 DEF Reading
    <3> QED
      BY <3>1, <3>2
  <2>2. CASE "READING" \in e.what
    <3> DEFINE e1 == [e EXCEPT !.data = e.data - 1]
               e2 == EventDel(e1)
               e3 == EventSet(e2)
               d == EventDel(e)
    <3>1. c \in RecvCb(e)
      BY <1>1, <2>2
    <3>2. c \in Event /\ Sound(c)
      BY <3>1, RecvCbSound DEF Sound
    <3>3. \/ e.data > 0 /\ c = EventAdd(e3, {"READING"}, KEEPALIVE_INTVAL_MSEC)
          \/ (e.data = 0 \/ e.peer = "reset") /\ c = Close(d)
      BY <3>1 DEF RecvCb
    <3>4. CASE (e.data = 0 \/ e.peer = "reset") /\ c = Close(d)
      <4>1. d \in Event
        BY EventDelSound DEF Sound
      <4> HIDE DEF d
      <4>2. c.peer = "none"
        BY <3>4, <4>1, OperationFields
      <4> QED
        BY <3>2, <3>4, <4>2 DEF Reading
    <3>5. CASE e.data > 0 /\ c = EventAdd(e3, {"READING"}, KEEPALIVE_INTVAL_MSEC)
      <4>1. e.data - 1 \in 0 .. MaxData /\ e.peer # "none"
        BY <3>5, PeerAssumption DEF Sound, Event
      <4>2. Updated(e, e1, "data", e.data - 1)
        BY <4>1, UpdateData
      <4> HIDE DEF e1
      <4>3. e1 \in Event /\ Sound(e1) /\ e1.peer = e.peer
        BY <4>1, <4>2 DEF Updated, Sound
      <4>4. e2 \in Event /\ Sound(e2) /\ e2.peer = e.peer
        BY <4>3, EventDelSound, OperationFields DEF Sound
      <4> HIDE DEF e2
      <4>5. e3 \in Event /\ e3.peer = e.peer /\ e3.what = {}
        BY <4>4, EventSetSound, OperationFields DEF Sound
      <4> HIDE DEF e3
      <4>6. c.peer = e.peer /\ c.what = {} \cup {"READING"}
        BY <3>5, <4>5, OperationFields
      <4> QED
        BY <3>2, <4>1, <4>6 DEF Reading
    <3> QED
      BY <3>3, <3>4, <3>5
  <2> QED
    BY <2>1, <2>2
<1>3. CASE "TIMEOUT" \notin c.what
  <2>1. r = c
    BY <1>1, <1>3
  <2> QED
    BY <1>2, <2>1
<1>4. CASE "TIMEOUT" \in c.what
  <2> DEFINE t == TimeoutCb(c)
  <2>1. r = EventAdd(t, {"READING", "TIMEOUT"}, KEEPALIVE_INTVAL_MSEC)
    BY <1>1, <1>4
  <2>2. t \in Event
    <3>1. Sound(Close(c))
      BY <1>2, CloseSound
    <3> QED
      BY <1>2, <3>1 DEF TimeoutCb, Sound
  <2> HIDE DEF t
  <2>3. r.what = t.what \cup {"READING", "TIMEOUT"}
    BY <2>1, <2>2, OperationFields
  <2>4. Reading(r)
    BY <2>3 DEF Reading
  <2> QED
    BY <1>2, <1>4, <2>4
<1> QED
  BY <1>3, <1>4
\* The results of epoll_wait still to be handled are not stale.
WatchInv ==
  /\ \A s \in Fds : Reading(ev[s])
  /\ \A s \in batch \cap Fds : Pending(ev[s])
  /\ loop # "events" => batch = {}

\* What ClosedOnlyWhenSilent asks of one step.
SilentStep ==
  \A s \in Fds : ev[s].peer = "up" /\ ev'[s].peer = "none" =>
    ev[s].timer_set = 1 /\ ev[s].key =< 0 /\ ev[s].data = 0

(* The handler of one event.                                               *)
LEMMA HandleOne ==
  ASSUME Inv, WatchInv, NEW s \in Fds, NEW e, Reading(e), ev' = [ev EXCEPT ![s] = e],
         batch' = batch \ {s}, loop' = loop,
         ev[s].peer = "up" /\ e.peer = "none" =>
           ev[s].timer_set = 1 /\ ev[s].key =< 0 /\ ev[s].data = 0
  PROVE  WatchInv' /\ SilentStep
<1>1. ev'[s] = e /\ \A r \in Fds \ {s} : ev'[r] = ev[r]
  BY DEF Inv, TableInv
<1>2. \A r \in Fds : Reading(ev'[r])
  BY <1>1 DEF WatchInv
<1>3. \A r \in batch' \cap Fds : Pending(ev'[r])
  BY <1>1 DEF WatchInv
<1>4. WatchInv'
  BY <1>2, <1>3 DEF WatchInv, Reading, Pending
<1>5. SilentStep
  BY <1>1 DEF SilentStep
<1> QED
  BY <1>4, <1>5

LEMMA NextWatchInv == Inv /\ WatchInv /\ [Next]_vars => WatchInv' /\ SilentStep
<1> SUFFICES ASSUME Inv, WatchInv, [Next]_vars PROVE WatchInv' /\ SilentStep
  OBVIOUS
<1>1. ASSUME NEW s \in Fds PROVE ev[s] \in Event /\ Sound(ev[s]) /\ Reading(ev[s])
  BY DEF Inv, TableInv, WatchInv
<1>2. CASE Connect \/ EventsDone \/ TimersDone \/ UNCHANGED vars
  <2>1. ev' = ev /\ batch' = batch /\ (loop' # "events" => batch = {})
    BY <1>2 DEF Connect, EventsDone, TimersDone, vars, WatchInv
  <2> QED
    BY <2>1 DEF WatchInv, SilentStep, Reading, Pending
<1>3. ASSUME NEW s \in Fds, Send(s) \/ Leave(s) PROVE WatchInv' /\ SilentStep
  <2>1. PICK e \in Event :
                 /\ ev' = [ev EXCEPT ![s] = e]
                 /\ e.what = ev[s].what /\ e.peer # "none" /\ (Pending(ev[s]) => Pending(e))
    <3>1. CASE Send(s)
      <4> DEFINE e == [ev[s] EXCEPT !.data = ev[s].data + 1]
      <4>1. ev' = [ev EXCEPT ![s] = e]
        BY <3>1 DEF Send
      <4>2. e.what = ev[s].what /\ e.peer = ev[s].peer /\ e.data = ev[s].data + 1
        BY <1>1 DEF Event
      <4>3. ev[s].peer = "up" /\ ev[s].data \in Nat /\ ev[s].data + 1 \in 0 .. MaxData
        BY <1>1, <3>1, PeerAssumption DEF Send, Event
      <4>4. e \in Event
        BY <1>1, <4>3, UpdateData DEF Updated
      <4> HIDE DEF e
      <4>5. e.peer # "none" /\ (Pending(ev[s]) => Pending(e))
        BY <4>2, <4>3 DEF Pending
      <4> QED
        BY <4>1, <4>2, <4>4, <4>5
    <3>2. CASE Leave(s)
      <4>1. PICK how \in {"fin", "reset"} : ev' = [ev EXCEPT ![s] = [@ EXCEPT !.peer = how]]
        BY <3>2 DEF Leave
      <4> DEFINE e == [ev[s] EXCEPT !.peer = how]
      <4>2. ev' = [ev EXCEPT ![s] = e]
        BY <4>1
      <4>3. e.what = ev[s].what /\ e.peer = how
        BY <1>1 DEF Event
      <4>4. e \in Event
        BY <1>1, UpdatePeer DEF Updated
      <4> HIDE DEF e
      <4>5. e.peer # "none" /\ (Pending(ev[s]) => Pending(e))
        BY <4>3 DEF Pending
      <4> QED
        BY <4>2, <4>3, <4>4, <4>5
    <3> QED
      BY <1>3, <3>1, <3>2
  <2>2. ev[s].peer = "up" /\ UNCHANGED <<loop, batch>>
    BY <1>3 DEF Send, Leave
  <2>3. ev'[s] = e /\ \A r \in Fds \ {s} : ev'[r] = ev[r]
    BY <2>1 DEF Inv, TableInv
  <2>4. \A r \in Fds : Reading(ev'[r])
    BY <1>1, <2>1, <2>2, <2>3 DEF Reading
  <2>5. \A r \in batch \cap Fds : Pending(ev'[r])
    BY <2>1, <2>3 DEF WatchInv
  <2>6. WatchInv'
    BY <2>2, <2>4, <2>5 DEF WatchInv, Reading, Pending
  <2>7. SilentStep
    BY <2>1, <2>3 DEF SilentStep
  <2> QED
    BY <2>6, <2>7
<1>4. ASSUME NEW d \in 0 .. MaxDelta, EpollWait(d) PROVE WatchInv' /\ SilentStep
  <2>1. ASSUME NEW s \in Fds
        PROVE  ev'[s].peer = ev[s].peer /\ ev'[s].what = ev[s].what /\ ev'[s].data = ev[s].data
    <3>1. ev'[s] = Elapse(ev[s], d)
      BY <1>4 DEF EpollWait
    <3> QED
      BY <1>1, <3>1 DEF Elapse, Event
  <2>2. batch' = Ready /\ loop' = "events"
    BY <1>4 DEF EpollWait
  <2>3. \A s \in batch' \cap Fds : Pending(ev'[s])
    <3>1. \A s \in Ready \cap Fds : Pending(ev[s])
      BY DEF Ready, Readable, Pending, Fds, Listener, FirstFd
    <3> QED
      BY <2>1, <2>2, <3>1 DEF Pending
  <2>4. \A s \in Fds : Reading(ev'[s])
    BY <1>1, <2>1 DEF Reading
  <2>5. WatchInv'
    BY <2>2, <2>3, <2>4 DEF WatchInv, Reading, Pending
  <2>6. SilentStep
    BY <2>1 DEF SilentStep
  <2> QED
    BY <2>5, <2>6
<1>5. CASE Dispatch
  <2>1. PICK s \in batch :
          /\ batch' = batch \ {s}
          /\ \/ s = Listener /\ AcceptCb
             \/ /\ s # Listener
                /\ \E e \in ClientHandler(ev[s]) : ev' = [ev EXCEPT ![s] = e]
                /\ UNCHANGED backlog
    BY <1>5 DEF Dispatch
  <2>2. loop = "events" /\ loop' = loop
    BY <1>5 DEF Dispatch
  <2>3. CASE s # Listener /\ \E e \in ClientHandler(ev[s]) : ev' = [ev EXCEPT ![s] = e]
    <3>1. s \in Fds
      BY <2>1, <2>3 DEF Inv, LoopInv
    <3>2. PICK e \in ClientHandler(ev[s]) : ev' = [ev EXCEPT ![s] = e]
      BY <2>3
    <3>3. Reading(e) /\ (ev[s].peer = "up" /\ ev[s].data > 0 => e.peer # "none")
      BY <1>1, <3>1, HandlerKeepsLive
    <3>4. ev[s].peer = "up" => ev[s].data > 0
      BY <2>1, <3>1 DEF WatchInv, Pending
    <3> QED
      BY <2>1, <2>2, <3>1, <3>2, <3>3, <3>4, HandleOne
  <2>4. CASE s = Listener /\ AcceptCb
    <3>1. CASE \A r \in Fds : Open(r)
      <4>1. ev' = ev
        BY <2>4, <3>1 DEF AcceptCb
      <4> QED
        BY <2>1, <2>2, <4>1 DEF WatchInv, SilentStep, Reading, Pending
    <3>2. CASE ~ \A r \in Fds : Open(r)
      <4>1. PICK r \in Fds, how \in {"up", "fin", "reset"}, n \in 0 .. MaxData :
              /\ ~Open(r)
              /\ LET e == EventSet([ev[r] EXCEPT !.peer = how, !.data = n])
                 IN  ev' = [ev EXCEPT ![r] =
                              EventAdd(e, {"READING", "TIMEOUT"}, KEEPALIVE_INTVAL_MSEC)]
        BY <2>4, <3>2 DEF AcceptCb
      <4> DEFINE e1 == [ev[r] EXCEPT !.peer = how]
                 e2 == [e1 EXCEPT !.data = n]
                 e3 == EventSet(e2)
                 e == EventAdd(e3, {"READING", "TIMEOUT"}, KEEPALIVE_INTVAL_MSEC)
      <4>2. ev' = [ev EXCEPT ![r] = e]
        BY <4>1
      <4>3. Updated(ev[r], e1, "peer", how)
        BY <1>1, UpdatePeer
      <4> HIDE DEF e1
      <4>4. Updated(e1, e2, "data", n)
        BY <4>3, UpdateData DEF Updated
      <4> HIDE DEF e2
      <4>5. e2 \in Event /\ Sound(e2)
        BY <1>1, <4>3, <4>4 DEF Updated, Sound
      <4>6. e3 \in Event
        BY <4>5, EventSetSound DEF Sound
      <4> HIDE DEF e3
      <4>7. e.what = e3.what \cup {"READING", "TIMEOUT"}
        BY <4>6, OperationFields
      <4> HIDE DEF e
      <4>8. Reading(e)
        BY <4>7 DEF Reading
      <4>9. ev[r].peer = "none" /\ ev[r].data = 0 /\ r \notin batch
        BY <1>1, <4>1 DEF Open, Sound, WatchInv, Pending
      <4>10. ev'[r] = e /\ \A q \in Fds \ {r} : ev'[q] = ev[q]
        BY <4>2 DEF Inv, TableInv
      <4>11. \A q \in Fds : Reading(ev'[q])
        BY <1>1, <4>8, <4>10
      <4>12. \A q \in batch' \cap Fds : Pending(ev'[q])
        BY <2>1, <4>9, <4>10 DEF WatchInv
      <4>13. WatchInv'
        BY <2>2, <4>11, <4>12 DEF WatchInv, Reading, Pending
      <4>14. SilentStep
        BY <4>9, <4>10 DEF SilentStep
      <4> QED
        BY <4>13, <4>14
    <3> QED
      BY <3>1, <3>2
  <2> QED
    BY <2>1, <2>3, <2>4
<1>6. CASE Expire
  <2>1. PICK s \in Timers :
          /\ ev[s].key =< 0
          /\ \E e \in ClientHandler([ev[s] EXCEPT !.timer_set = 0, !.key = 0,
                                                  !.what = @ \cup {"TIMEOUT"}]) :
               ev' = [ev EXCEPT ![s] = e]
    BY <1>6 DEF Expire
  <2> DEFINE t == [ev[s] EXCEPT !.timer_set = 0, !.key = 0, !.what = @ \cup {"TIMEOUT"}]
  <2>2. PICK e \in ClientHandler(t) : ev' = [ev EXCEPT ![s] = e]
    BY <2>1
  <2>3. s \in Fds /\ ev[s].timer_set = 1
    BY DEF Timers
  <2>4. t \in Event /\ Sound(t)
    BY <1>1, <2>3, TimedOutSound
  <2>5. t.peer = ev[s].peer /\ t.data = ev[s].data /\ t.what = ev[s].what \cup {"TIMEOUT"}
    BY <1>1, <2>3 DEF Event
  <2> HIDE DEF t
  <2>6. Reading(t)
    BY <1>1, <2>3, <2>5 DEF Reading
  <2>7. Reading(e) /\ (t.peer = "up" /\ t.data > 0 => e.peer # "none")
    BY <2>2, <2>4, <2>6, HandlerKeepsLive
  <2>8. loop = "timers" /\ loop' = loop /\ batch' = batch /\ batch = {}
    BY <1>6 DEF Expire, WatchInv
  <2>9. ev[s].data \in Nat
    BY <1>1, <2>3, PeerAssumption DEF Event
  <2>10. ev[s].peer = "up" /\ e.peer = "none" => ev[s].data = 0
    BY <2>5, <2>7, <2>9
  <2>11. batch' = batch \ {s}
    BY <2>8
  <2> QED
    BY <2>1, <2>2, <2>3, <2>7, <2>8, <2>10, <2>11, HandleOne
<1> QED
  BY <1>2, <1>3, <1>4, <1>5, <1>6 DEF Next, Peers, Reactor, Handlers

(* The server closes the connection of a live peer only from the timer of  *)
(* that connection and only when nothing has arrived: no result of         *)
(* epoll_wait goes stale while others of the same round are handled, and   *)
(* client_handler reads before it looks at the timeout                     *)
(* (ngx_server.c:29-62, 155-178).                                          *)
THEOREM LivePeersKept == Spec => ClosedOnlyWhenSilent
<1>1. Init => WatchInv
  BY DEF Init, WatchInv, Reading, Pending
<1>2. Inv /\ WatchInv /\ [Next]_vars => WatchInv'
  BY NextWatchInv
<1>3. Inv /\ WatchInv /\ [Next]_vars => [SilentStep]_vars
  BY NextWatchInv
<1>4. Spec => [](Inv /\ WatchInv)
  BY <1>1, <1>2, Invariant, PTL DEF Spec
<1>5. Spec => [][SilentStep]_vars
  BY <1>3, <1>4, PTL DEF Spec
<1> QED
  BY <1>5 DEF ClosedOnlyWhenSilent, SilentStep
===============================================================================
