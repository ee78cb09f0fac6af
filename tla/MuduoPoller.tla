------------------------------ MODULE MuduoPoller ------------------------------
(***************************************************************************)
(* muduo/net/poller/EPollPoller.cc: the index of a channel (new, added,    *)
(* deleted), the map channels_ from descriptors to channels and the set    *)
(* inside epoll must agree, although a descriptor number is used again by  *)
(* the next channel.  Channel is not part of the repository: a handler     *)
(* sets the events of a channel and calls update, and remove once there    *)
(* are none; its descriptor is closed after that.                          *)
(***************************************************************************)
EXTENDS Integers, FiniteSets

CONSTANTS Channels, Fds,
          kInitEventListSize, MaxRoom,   \* bound on the size of events_
          NoChannel

VARIABLES chan,       \* per channel: descriptor, events and index
          channels,   \* channels_: per descriptor the channel, or NoChannel
          epset,      \* inside epoll: per descriptor the channel and its events
          room,       \* events_.size()
          fatal       \* an assertion or LOG_SYSFATAL has ended the process

pollerVars == <<chan, channels, epset, room, fatal>>

NoFd == 0
ASSUME FdsAssumption == NoFd \notin Fds /\ NoChannel \notin Channels

\* What epoll holds for a descriptor that was not added.
Absent == [ptr |-> NoChannel, events |-> {}]

PollerInit ==
  /\ chan = [c \in Channels |-> [fd |-> NoFd, events |-> {}, index |-> "new"]]
  /\ channels = [f \in Fds |-> NoChannel]
  /\ epset = [f \in Fds |-> Absent]
  /\ room = kInitEventListSize
  /\ fatal = FALSE

\* A channel is made for a new descriptor.
Open(c, f) ==
  /\ ~fatal /\ chan[c].fd = NoFd /\ \A d \in Channels : chan[d].fd # f
  /\ chan' = [chan EXCEPT ![c].fd = f]
  /\ UNCHANGED <<channels, epset, room, fatal>>

\* EPollPoller::update with the result of epoll_ctl: the new set, and whether
\* LOG_SYSFATAL ends the process; a failed DEL is only logged.
Ctl(op, c, events) ==
  LET f    == chan[c].fd
      here == epset[f] # Absent
  IN  CASE op = "ADD" -> [set |-> [epset EXCEPT ![f] = [ptr |-> c, events |-> events]], fatal |-> here]
        [] op = "MOD" -> [set |-> [epset EXCEPT ![f] = [ptr |-> c, events |-> events]], fatal |-> ~here]
        [] op = "DEL" -> [set |-> [epset EXCEPT ![f] = Absent], fatal |-> FALSE]

\* Mutant: a channel without events keeps the index "added".
UpdateChannelStaysAdded(c, events) ==
  LET index == chan[c].index
      f     == chan[c].fd
      op    == IF index # "added" THEN "ADD" ELSE IF events = {} THEN "DEL" ELSE "MOD"
      mine  == IF index = "new" THEN channels[f] = NoChannel ELSE channels[f] = c
      ctl   == Ctl(op, c, events)
  IN  /\ fatal' = (~mine \/ ctl.fatal)
      /\ channels' = [channels EXCEPT ![f] = c]
      /\ epset' = ctl.set
      /\ chan' = [chan EXCEPT ![c].events = events, ![c].index = "added"]

\* updateChannel, after Channel has set the events.
UpdateChannel(c, events) ==
  LET index == chan[c].index
      f     == chan[c].fd
      op    == IF index # "added" THEN "ADD" ELSE IF events = {} THEN "DEL" ELSE "MOD"
      mine  == IF index = "new" THEN channels[f] = NoChannel ELSE channels[f] = c
      ctl   == Ctl(op, c, events)
  IN  /\ fatal' = (~mine \/ ctl.fatal)
      /\ channels' = [channels EXCEPT ![f] = c]
      /\ epset' = ctl.set
      /\ chan' = [chan EXCEPT ![c].events = events,
                              ![c].index = IF op = "DEL" THEN "deleted" ELSE "added"]

Update(c, events) ==
  /\ ~fatal /\ chan[c].fd # NoFd
  /\ UpdateChannel(c, events)
  /\ UNCHANGED room

\* removeChannel, of a channel without events that was added at some time.
RemoveChannel(c) ==
  /\ fatal' = (channels[chan[c].fd] # c)
  /\ channels' = [channels EXCEPT ![chan[c].fd] = NoChannel]
  /\ epset' = IF chan[c].index = "added" THEN Ctl("DEL", c, {}).set ELSE epset
  /\ chan' = [chan EXCEPT ![c].index = "new"]

\* Channel::remove, from a handler.
Detach(c) ==
  /\ ~fatal /\ chan[c].events = {} /\ chan[c].index # "new"
  /\ RemoveChannel(c)
  /\ UNCHANGED room

\* The descriptor of a removed channel is closed; epoll drops it by itself.
Close(c) ==
  /\ ~fatal /\ chan[c].fd # NoFd /\ chan[c].index = "new"
  /\ epset' = [epset EXCEPT ![chan[c].fd] = Absent]
  /\ chan' = [chan EXCEPT ![c].fd = NoFd]
  /\ UNCHANGED <<channels, room, fatal>>

\* poll and fillActiveChannels, when the descriptors of ready have something
\* to report: events asked for, or a hang-up, which is reported in any case.
PollChannels(ready) ==
  /\ ~fatal /\ Cardinality(ready) =< room
  /\ \A f \in ready : epset[f] # Absent
  /\ fatal' = (\E f \in ready : channels[chan[epset[f].ptr].fd] # epset[f].ptr)
  /\ room' = IF ready # {} /\ Cardinality(ready) = room /\ 2 * room =< MaxRoom THEN 2 * room ELSE room
  /\ UNCHANGED <<chan, channels, epset>>

PollerNext ==
  \/ \E c \in Channels : \/ \E f \in Fds : Open(c, f)
                         \/ \E events \in SUBSET {"in", "out"} : Update(c, events)
                         \/ Detach(c)
                         \/ Close(c)
  \/ \E ready \in SUBSET Fds : PollChannels(ready)

PollerSpec == PollerInit /\ [][PollerNext]_pollerVars

----------------------------------------------------------------------------
(* Properties *)

(* No assertion of the poller fails and epoll_ctl never fails, whatever    *)
(* the order in which handlers update, remove and close channels and       *)
(* descriptors are used again (EPollPoller.cc:97, 113-188).                *)
NeverFatal == ~fatal

(* The index of a channel says where it is: in the map unless it is new,   *)
(* and in epoll with its current events exactly when it is added.          *)
IndexTells ==
  /\ \A c \in Channels :
       /\ chan[c].index # "new" => channels[chan[c].fd] = c
       /\ chan[c].index = "added" => epset[chan[c].fd] = [ptr |-> c, events |-> chan[c].events]
  /\ \A f \in Fds :
       /\ channels[f] # NoChannel => chan[channels[f]].fd = f /\ chan[channels[f]].index # "new"
       /\ epset[f] # Absent => channels[f] = epset[f].ptr /\ chan[channels[f]].index = "added"

(* The index of a channel, the map and the set inside epoll agree through  *)
(* every order of update and remove, so that none of the assertions and    *)
(* none of the fatal log lines is reached (EPollPoller.cc:113-212).        *)
PollerAgrees == NeverFatal /\ IndexTells
=============================================================================
