------------------------------ MODULE ZmqPubSub ------------------------------
(* The publish-subscribe programs of src/ZeroMQ: syncpub.c, which waits for    *)
(* SUBSCRIBERS_EXPECTED programs syncsub.c before it publishes, and the feeds  *)
(* psenvpub.c with psenvsub.c (two frames to a message) and wuserver.c with    *)
(* wuclient.c (a filter on the start of the message).  The PUB socket is       *)
(* external: it sends a message to the subscribers whose subscription has      *)
(* arrived and matches its first frame, all frames or none, and drops it for a *)
(* subscriber whose pipe is full.                                              *)
EXTENDS Integers, Sequences, FiniteSets

CONSTANTS
  Subscribers,   \* programs syncsub.c
  Expected,      \* SUBSCRIBERS_EXPECTED of syncpub.c
  Updates,       \* updates of syncpub.c and of wuclient.c: 10 in both
  Zips,          \* zip codes of wuserver.c, as sequences of digits
  Temps,         \* temperatures of wuserver.c
  Filter,        \* the subscription of wuclient.c, a sequence of digits
  Hwm,           \* messages a pipe holds
  MaxFeed        \* bound on the messages of the endless publishers

ASSUME UpdatesAssumption == Updates \in Nat

VARIABLES
  pub,           \* syncpub.c
  sub,           \* syncsub.c
  joined,        \* subscriptions that have reached syncpub.c
  requests,      \* syncsub.c whose request waits at the REP socket
  updates,       \* what the SUB sockets hold
  ready,         \* whether the subscription was there when the request was answered
  feed,          \* psenvpub.c or wuserver.c with its subscriber
  sent           \* the messages of the feed that its subscriber is to get

syncVars == <<pub, sub, joined, requests, updates, ready>>
feedVars == <<feed, sent>>

-----------------------------------------------------------------------------
(* syncpub.c and syncsub.c.                                                *)

SyncInit ==
  /\ pub = [pc |-> "sync", subscribers |-> 0, update_nbr |-> 0]
  /\ sub = [s \in Subscribers |-> [pc |-> "subscribe", update_nbr |-> 0]]
  /\ joined = {} /\ requests = {} /\ ready = {}
  /\ updates = [s \in Subscribers |-> <<>>]

\* zmq_connect and ZMQ_SUBSCRIBE return at once; the sleep of a second follows.
Subscribe(s) ==
  /\ sub[s].pc = "subscribe"
  /\ sub' = [sub EXCEPT ![s].pc = "sleep"]
  /\ UNCHANGED <<pub, joined, requests, updates, ready>>

\* The subscription reaches the publisher: in the second of sleep, or later.
Joins(s) ==
  /\ sub[s].pc /= "subscribe" /\ s \notin joined /\ pub.pc /= "done"
  /\ joined' = joined \cup {s}
  /\ UNCHANGED <<pub, sub, requests, updates, ready>>

Request(s) ==
  /\ sub[s].pc = "sleep"
  /\ sub' = [sub EXCEPT ![s].pc = "request"]
  /\ requests' = requests \cup {s}
  /\ UNCHANGED <<pub, joined, updates, ready>>

Publishes(n) == IF n < Expected THEN "sync" ELSE "update"

\* The REP socket answers one request; the client's s_recv returns.
Answer(s) ==
  /\ pub.pc = "sync" /\ s \in requests
  /\ requests' = requests \ {s}
  /\ ready' = IF s \in joined THEN ready \cup {s} ELSE ready
  /\ sub' = [sub EXCEPT ![s].pc = "updates"]
  /\ pub' = [pub EXCEPT !.subscribers = @ + 1, !.pc = Publishes(pub.subscribers + 1)]
  /\ UNCHANGED <<joined, updates>>

Publish(m) == updates' = [s \in Subscribers |-> IF s \in joined THEN Append(updates[s], m) ELSE updates[s]]

Broadcast ==
  /\ pub.pc = "update"
  /\ IF pub.update_nbr < Updates
       THEN /\ Publish("Rhubarb")
            /\ pub' = [pub EXCEPT !.update_nbr = @ + 1]
       ELSE /\ Publish("END")
            /\ pub' = [pub EXCEPT !.pc = "done"]
  /\ UNCHANGED <<sub, joined, requests, ready>>

Update(s) ==
  /\ sub[s].pc = "updates" /\ updates[s] /= <<>>
  /\ updates' = [updates EXCEPT ![s] = Tail(@)]
  /\ sub' = IF Head(updates[s]) = "END"
              THEN [sub EXCEPT ![s].pc = "done"]
              ELSE [sub EXCEPT ![s].update_nbr = @ + 1]
  /\ UNCHANGED <<pub, joined, requests, ready>>

SyncSub(s) == Subscribe(s) \/ Request(s) \/ Update(s)
SyncPub == Broadcast \/ \E s \in Subscribers : Answer(s)
SyncNext == SyncPub \/ \E s \in Subscribers : SyncSub(s) \/ Joins(s)

-----------------------------------------------------------------------------
(* The feeds.  feed.frames are the frames left of the message being sent.  *)

FeedInit ==
  /\ feed \in [kind : {"psenv", "wu"}, linked : {FALSE}, frames : {<<>>}, next : {"A"},
               to : {FALSE}, queue : {<<>>}, held : {<<>>}, got : {<<>>}, count : {0}, total : {0}]
  /\ sent = <<>>

StartsWith(p, s) == Len(p) <= Len(s) /\ SubSeq(s, 1, Len(p)) = p

\* The subscription: "B" in psenvsub.c, the zip code or its start in wuclient.c.
Matches(f, first) == StartsWith(IF f.kind = "psenv" THEN <<"B">> ELSE Filter, first)

FeedLinks ==
  /\ ~feed.linked
  /\ feed' = [feed EXCEPT !.linked = TRUE]
  /\ UNCHANGED sent

\* zmq_msg_send: the first frame decides who gets the message.
SendFrame(f, frame, first) ==
  LET to == IF first THEN f.linked /\ Len(f.queue) < Hwm /\ Matches(f, frame) ELSE f.to IN
  [f EXCEPT !.to = to, !.queue = IF to THEN Append(@, frame) ELSE @]

\* s_sendmore of the header, s_send of the body; A and B take turns.
PsEnvPub ==
  /\ feed.kind = "psenv"
  /\ IF feed.frames = <<>>
       THEN /\ feed.count < MaxFeed
            /\ feed' = [SendFrame(feed, <<feed.next>>, TRUE) EXCEPT
                          !.frames = <<<<"We", feed.next>>>>, !.count = @ + 1,
                          !.next = IF @ = "A" THEN "B" ELSE "A"]
       ELSE feed' = [SendFrame(feed, Head(feed.frames), FALSE) EXCEPT !.frames = <<>>]
  /\ UNCHANGED sent

\* Two s_recv to a turn of the loop: the address, then the contents.
PsEnvSub ==
  /\ feed.kind = "psenv" /\ feed.queue /= <<>>
  /\ feed' = [feed EXCEPT !.queue = Tail(@),
                !.held = IF @ = <<>> THEN <<Head(feed.queue)>> ELSE <<>>,
                !.got = IF feed.held = <<>> THEN <<>> ELSE feed.held \o <<Head(feed.queue)>>]
  /\ UNCHANGED sent

\* A random update; sent is what a subscriber with this filter is to see.
WuServer ==
  /\ feed.kind = "wu" /\ feed.count < MaxFeed
  /\ \E zip \in Zips, t \in Temps :
       LET f == SendFrame(feed, zip \o <<t>>, TRUE) IN
       /\ feed' = [f EXCEPT !.count = @ + 1]
       /\ sent' = IF f.to /\ StartsWith(Filter, zip) THEN Append(sent, t) ELSE sent

\* C division truncates towards zero.
Quot(a, b) == IF a >= 0 THEN a \div b ELSE -((-a) \div b)

\* The loop counts Updates messages, then the average is printed.
WuClient ==
  /\ feed.kind = "wu" /\ feed.queue /= <<>> /\ Len(feed.got) < Updates
  /\ LET m == Head(feed.queue) IN
     feed' = [feed EXCEPT !.queue = Tail(@), !.total = @ + m[Len(m)], !.got = Append(@, m[Len(m)])]
  /\ UNCHANGED sent

FeedNext == FeedLinks \/ PsEnvPub \/ PsEnvSub \/ WuServer \/ WuClient

-----------------------------------------------------------------------------

\* A subscriber whose subscription was there when its request was answered
\* counts every update, whatever the others do (syncsub.c:53-66).
SyncedCountsAll ==
  \A s \in ready : sub[s].pc = "done" => sub[s].update_nbr = Updates

\* With as many subscribers as are expected, one whose subscription is there
\* when it asks is answered and sees END (syncpub.c:42-60).
SyncedEnds ==
  \A s \in Subscribers : (sub[s].pc = "request" /\ s \in joined) ~> (sub[s].pc = "done")

\* psenvsub.c reads frames one by one and does not ask for ZMQ_RCVMORE: the
\* two it takes for address and contents are always those of one message B,
\* also when it joins late or messages are dropped (psenvsub.c:34-44).
EnvelopePairs ==
  feed.kind = "psenv" => feed.held \in {<<>>, <<<<"B">>>>} /\ feed.got \in {<<>>, <<<<"B">>, <<"We", "B">>>>}

\* wuclient.c averages the first Updates temperatures of its zip codes, none
\* skipped and none of another zip code (wuclient.c:34-48).
AverageOfOwnZip ==
  feed.kind = "wu" =>
    /\ StartsWith(feed.got, sent)
    /\ Len(feed.got) = Updates =>
         LET sum[i \in 0 .. Updates] == IF i = 0 THEN 0 ELSE sum[i - 1] + sent[i] IN
         Quot(feed.total, Updates) = Quot(sum[Updates], Updates)
=============================================================================
