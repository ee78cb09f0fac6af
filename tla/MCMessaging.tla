----------------------------- MODULE MCMessaging -----------------------------
(* The ZeroMQ programs, the two Go programs, the heartbeat client, the     *)
(* instant messaging server with its clients and the HTTP clients, one     *)
(* group at a time: the initial state chooses the group, and only its      *)
(* variables change.                                                       *)
EXTENDS ZmqReqRep, ZmqPubSub, ZmqTasks, GoSession, GoLogAgent, NgxClient, ImChat, HttpClients

VARIABLE part

MCZips == {<<1, 0>>, <<1, 1>>, <<0, 1>>}
MCTemps == {-3, 2}
MCFilter == <<1>>
MCTurns == [c \in ChatClients |-> IF c = "a" THEN 4 ELSE 1]

vars == <<part, rrVars, syncVars, feedVars, taskVars, relay, server, sessionVars, agentVars, clientVars,
          chatVars, asyncVars, selectVars>>

Init ==
  /\ part \in {"reqrep", "sync", "feed", "tasks", "relay", "server", "session", "agent", "client",
               "chat", "async", "select"}
  /\ part # "reqrep" => via = "direct"
  /\ ReqRepInit /\ SyncInit /\ FeedInit /\ TasksInit /\ RelayInit /\ ServerInit
  /\ SessionInit /\ AgentInit /\ ClientInit
  /\ ChatInit /\ AsyncInit /\ SelectInit
  /\ part # "feed" => feed.kind = "wu"
  /\ part # "agent" => logged = 0
  /\ part # "server" => server.prog = "interrupt1"

Others(name) ==
  /\ name # "reqrep" => UNCHANGED rrVars
  /\ name # "sync" => UNCHANGED syncVars
  /\ name # "feed" => UNCHANGED feedVars
  /\ name # "tasks" => UNCHANGED taskVars
  /\ name # "relay" => UNCHANGED relay
  /\ name # "server" => UNCHANGED server
  /\ name # "session" => UNCHANGED sessionVars
  /\ name # "agent" => UNCHANGED agentVars
  /\ name # "client" => UNCHANGED clientVars
  /\ name # "chat" => UNCHANGED chatVars
  /\ name # "async" => UNCHANGED asyncVars
  /\ name # "select" => UNCHANGED selectVars

\* A step A of the group that was chosen.
Of(name, A) == part = name /\ A /\ UNCHANGED part /\ Others(name)

Next ==
  \/ Of("reqrep", ReqRepNext) \/ Of("sync", SyncNext) \/ Of("feed", FeedNext)
  \/ Of("tasks", TasksNext) \/ Of("relay", RelayNext) \/ Of("server", ServerNext)
  \/ Of("session", SessionNext) \/ Of("agent", AgentNext) \/ Of("client", ClientNext)
  \/ Of("chat", ChatNext) \/ Of("async", AsyncNext) \/ Of("select", SelectNext)

\* Every program and thread keeps running; nothing is said of peers, of
\* failures and of SIGINT.
Fairness ==
  /\ \A c \in Clients : WF_vars(Of("reqrep", RrClient(c) \/ HwClient(c)))
  /\ \A w \in Workers : WF_vars(Of("reqrep", RrWorker(w) \/ MtWorker(w) \/ HwServer(w)))
  /\ WF_vars(Of("reqrep", RrBroker)) /\ WF_vars(Of("reqrep", Proxy))
  /\ WF_vars(Of("sync", SyncPub))
  /\ \A s \in Subscribers : WF_vars(Of("sync", SyncSub(s)))
  /\ WF_vars(Of("tasks", Vent)) /\ WF_vars(Of("tasks", SinkRecv))
  /\ \A w \in TaskWorkers : WF_vars(Of("tasks", TaskWork(w)))
  /\ \A t \in {"main", "step2", "step1"} : WF_vars(Of("relay", RelayThread(t)))
  /\ WF_vars(Of("server", ServerLoop))
  /\ WF_vars(Of("agent", Run)) /\ WF_vars(Of("client", ClientLoop))
  /\ WF_vars(Of("chat", Accept)) /\ WF_vars(Of("chat", Store))
  /\ \A t \in ChatClients : WF_vars(Of("chat", RecvMsg(t)))
  /\ WF_vars(Of("async", WaitStep)) /\ WF_vars(Of("async", HandleEvent \/ HandleEventFails))
  /\ WF_vars(Of("select", SelectReads \/ SelectFails))

FairSpec == Init /\ [][Next]_vars /\ Fairness

(* Through every broker and order of arrival a request is at one place and *)
(* its answer returns to its sender (rrbroker.c:82), synchronised          *)
(* subscribers count all updates (syncpub.c:51), and frames stay together  *)
(* (psenvsub.c).                                                           *)
MessagesExact == OnePlace /\ OwnReply /\ SyncedCountsAll /\ EnvelopePairs

(* A session that is marked as saved is what redis holds, except after a   *)
(* failed save (redis_session.go:111), and the topic has every line the    *)
(* agent has passed, in the order of the file within a partition           *)
(* (logagent1/main.go:50).                                                 *)
GoKeepsData == SavedIfUnmodified /\ NoGap /\ PartitionOrder

(* Every program that waits goes on: clients get their answers, the        *)
(* synchronised programs, the sink and the relay end, SIGINT ends the      *)
(* servers, the agent takes every line (main.go:50), and the heartbeat     *)
(* client, once its timer is in the tree, keeps it and sees the loss of    *)
(* its server (ngx_client.c:125).  What a program ends with is right: the  *)
(* average is of the own zip code (wuclient.c), and the sink has counted   *)
(* all tasks (tasksink.c:29).  Every PDU that has been sent is handled     *)
(* (server.cc:111), every request that was committed is answered by its    *)
(* callback (async_http.c:306), and the select loop ends unless it has     *)
(* timed out (sync_http.c:225).                                            *)
MessagingProgress ==
  /\ Served /\ SyncedEnds /\ SinkEnds /\ RelayEnds /\ SigintEnds /\ LinesTaken
  /\ OnceArmed /\ ServerLossSeen
  /\ []AverageOfOwnZip /\ []SinkCountsAll
  /\ AllHandled /\ Called /\ SyncEnds
=============================================================================
