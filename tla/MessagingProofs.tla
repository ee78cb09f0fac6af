---------------------------- MODULE MessagingProofs ----------------------------
(***************************************************************************)
(* Proofs about the programs of MCMessaging, one invariant to a program,   *)
(* for any number of clients, workers, subscribers, sessions, lines and    *)
(* requests.                                                               *)
(***************************************************************************)
EXTENDS MCMessaging, FiniteSetTheorems, TLAPS

----------------------------------------------------------------------------
(* The session store: a session is what redis holds unless its flag or a   *)
(* failed Save says otherwise, also before there is a manager.             *)

SessionInv ==
  /\ session \in [SessionIds -> [made : BOOLEAN, data : [Keys -> Vals \cup {NoVal}],
                                 flag : {"None", "Modify"}, pool : {"nil", "pool"}]]
  /\ stored \in [SessionIds -> [Keys -> Vals \cup {NoVal}]]
  /\ \A id \in SessionIds :
       /\ ~session[id].made => /\ session[id].flag = "None" /\ id \notin failed
                               /\ stored[id] = NoKeys
       /\ session[id].flag = "None" /\ id \notin failed => stored[id] = session[id].data

LEMMA InitSessionInv == SessionInit => SessionInv
<1> SUFFICES ASSUME SessionInit PROVE SessionInv
  OBVIOUS
<1> DEFINE new == [NewSession("nil") EXCEPT !.made = FALSE]
<1>1. NoKeys \in [Keys -> Vals \cup {NoVal}]
  BY DEF NoKeys
<1>2. session = [id \in SessionIds |-> new]
  BY DEF SessionInit
<1>3. /\ new \in [made : BOOLEAN, data : [Keys -> Vals \cup {NoVal}],
                  flag : {"None", "Modify"}, pool : {"nil", "pool"}]
      /\ new.flag = "None" /\ new.data = NoKeys
  BY <1>1 DEF NewSession
<1> HIDE DEF new
<1>4. stored = [id \in SessionIds |-> NoKeys] /\ failed = {}
  BY DEF SessionInit
<1> QED
  BY <1>1, <1>2, <1>3, <1>4 DEF SessionInv

(* A call changes one session, id, and its copy in redis.                  *)
LEMMA OneSession ==
  ASSUME SessionInv, NEW id \in SessionIds,
         NEW s \in [made : BOOLEAN, data : [Keys -> Vals \cup {NoVal}],
                    flag : {"None", "Modify"}, pool : {"nil", "pool"}],
         NEW d \in [Keys -> Vals \cup {NoVal}],
         session' = [session EXCEPT ![id] = s], stored' = [stored EXCEPT ![id] = d],
         \A i \in SessionIds \ {id} : i \in failed' <=> i \in failed,
         s.made, s.flag = "None" /\ id \notin failed' => d = s.data
  PROVE  SessionInv'
<1>1. session'[id] = s /\ stored'[id] = d
  BY DEF SessionInv
<1>2. \A i \in SessionIds \ {id} : session'[i] = session[i] /\ stored'[i] = stored[i]
  BY DEF SessionInv
<1>3. /\ session' \in [SessionIds -> [made : BOOLEAN, data : [Keys -> Vals \cup {NoVal}],
                                      flag : {"None", "Modify"}, pool : {"nil", "pool"}]]
      /\ stored' \in [SessionIds -> [Keys -> Vals \cup {NoVal}]]
  BY DEF SessionInv
<1> SUFFICES ASSUME NEW i \in SessionIds
             PROVE  /\ ~session'[i].made => /\ session'[i].flag = "None" /\ i \notin failed'
                                            /\ stored'[i] = NoKeys
                    /\ session'[i].flag = "None" /\ i \notin failed' => stored'[i] = session'[i].data
  BY <1>3 DEF SessionInv, NoKeys
<1>4. CASE i = id
  BY <1>1, <1>4
<1>5. CASE i # id
  BY <1>2, <1>5 DEF SessionInv
<1> QED
  BY <1>4, <1>5

LEMMA NextSessionInv == SessionInv /\ [SessionNext]_sessionVars => SessionInv'
<1> SUFFICES ASSUME SessionInv, [SessionNext]_sessionVars PROVE SessionInv'
  OBVIOUS
<1> DEFINE Data == [Keys -> Vals \cup {NoVal}]
           Sessions == [made : BOOLEAN, data : Data,
                        flag : {"None", "Modify"}, pool : {"nil", "pool"}]
<1>1. CASE UNCHANGED <<session, stored, failed>>
  BY <1>1 DEF SessionInv
<1>2. ASSUME NEW id \in SessionIds, CreateSession(id) \/ CreateDirectly(id) PROVE SessionInv'
  <2>1. PICK pool \in {"nil", "pool"} : session' = [session EXCEPT ![id] = NewSession(pool)]
    BY <1>2 DEF CreateSession, CreateDirectly
  <2>2. NewSession(pool) \in Sessions
    BY DEF NewSession, NoKeys
  <2>3. ~session[id].made /\ UNCHANGED <<stored, failed>>
    BY <1>2 DEF CreateSession, CreateDirectly
  <2>4. stored[id] = NoKeys /\ NoKeys \in Data
    BY <2>3 DEF SessionInv, NoKeys
  <2>5. stored' = [stored EXCEPT ![id] = NoKeys]
    BY <2>3, <2>4 DEF SessionInv
  <2>6. NewSession(pool).made /\ NewSession(pool).data = NoKeys
    BY DEF NewSession
  <2> QED
    BY <2>1, <2>2, <2>3, <2>4, <2>5, <2>6, OneSession
<1>3. ASSUME NEW id \in SessionIds, NEW k \in Keys, NEW v \in Vals \cup {NoVal},
             session[id].made, UNCHANGED <<stored, failed>>,
             session' = [session EXCEPT ![id].data[k] = v, ![id].flag = "Modify"]
      PROVE  SessionInv'
  <2> DEFINE s == [session[id] EXCEPT !.data[k] = v, !.flag = "Modify"]
  <2>1. session[id] \in Sessions
    BY DEF SessionInv
  <2>2. [session[id].data EXCEPT ![k] = v] \in Data
    BY <2>1
  <2>3. s \in Sessions /\ s.made /\ s.flag = "Modify"
    BY <1>3, <2>1, <2>2
  <2>4. session' = [session EXCEPT ![id] = s]
    BY <1>3 DEF SessionInv
  <2>5. stored' = [stored EXCEPT ![id] = stored[id]] /\ stored[id] \in Data
    BY <1>3 DEF SessionInv
  <2> HIDE DEF s
  <2> QED
    BY <1>3, <2>3, <2>4, <2>5, OneSession
<1>4. ASSUME NEW id \in SessionIds, Save(id), session[id].pool # "nil" PROVE SessionInv'
  <2> DEFINE s == [session[id] EXCEPT !.flag = "None"]
  <2>1. session[id] \in Sessions /\ stored[id] \in Data /\ session[id].made
    BY <1>4 DEF SessionInv, Save
  <2>2. s \in Sessions /\ s.made /\ s.data = session[id].data
    BY <2>1
  <2>3. session' = [session EXCEPT ![id] = s]
    BY <1>4 DEF Save, SessionInv
  <2>4. PICK err \in BOOLEAN, applied \in BOOLEAN :
          /\ ~err => applied
          /\ stored' = IF applied THEN [stored EXCEPT ![id] = session[id].data] ELSE stored
          /\ failed' = IF err THEN failed \cup {id} ELSE failed \ {id}
    BY <1>4 DEF Save
  <2> DEFINE d == IF applied THEN session[id].data ELSE stored[id]
  <2>5. d \in Data /\ stored' = [stored EXCEPT ![id] = d]
    BY <2>1, <2>4 DEF SessionInv
  <2>6. /\ \A i \in SessionIds \ {id} : i \in failed' <=> i \in failed
        /\ s.flag = "None" /\ id \notin failed' => d = s.data
    BY <2>2, <2>4
  <2> HIDE DEF s, d
  <2> QED
    BY <2>2, <2>3, <2>5, <2>6, OneSession
<1>5. ASSUME NEW id \in SessionIds, Save(id), session[id].pool = "nil" PROVE SessionInv'
  BY <1>1, <1>5 DEF Save
<1>6. ASSUME NEW id \in SessionIds, NEW k \in Keys, Del(id, k) PROVE SessionInv'
  BY <1>3, <1>6 DEF Del
<1>7. ASSUME NEW id \in SessionIds, NEW k \in Keys, NEW v \in Vals, Set(id, k, v) PROVE SessionInv'
  BY <1>3, <1>7 DEF Set
<1> QED
  BY <1>1, <1>2, <1>4, <1>5, <1>6, <1>7
     DEF SessionNext, MgrInit, CreateWithoutMgr, sessionVars

----------------------------------------------------------------------------
(* The log agent: the lines in the topic are those from the start to the   *)
(* one in hand, and that one is the largest, whatever partition each went  *)
(* to and however often it was tried.                                      *)

AgentInv ==
  /\ logged \in Nat
  /\ agent \in [pc : {"init", "select", "send", "ended"}, line : Nat, tries : Nat, start : Nat]
  /\ topic \in [Partitions -> Seq(Nat)]
  /\ agent.start =< agent.line
  /\ agent.pc = "init" => agent.line = 0 /\ agent.start = 0
  /\ agent.pc = "init" => \A p \in Partitions : topic[p] = << >>
  /\ agent.pc = "send" => agent.start < agent.line
  /\ \A p \in Partitions : \A i \in 1 .. Len(topic[p]) :
       agent.start < topic[p][i] /\ topic[p][i] =< agent.line
  /\ \A n \in Nat : agent.start < n /\ n < agent.line =>
       \E p \in Partitions : \E i \in 1 .. Len(topic[p]) : topic[p][i] = n
  /\ agent.pc = "select" /\ agent.line # agent.start =>
       \E p \in Partitions : \E i \in 1 .. Len(topic[p]) : topic[p][i] = agent.line
  /\ PartitionOrder

LEMMA InitAgentInv == AgentInit => AgentInv
<1> SUFFICES ASSUME AgentInit PROVE AgentInv
  OBVIOUS
<1>1. logged \in Nat /\ topic = [p \in Partitions |-> << >>] /\ << >> \in Seq(Nat)
  BY DEF AgentInit
<1>2. \A p \in Partitions : topic[p] = << >> /\ 1 .. Len(topic[p]) = {}
  BY <1>1
<1> QED
  BY <1>1, <1>2 DEF AgentInit, AgentInv, PartitionOrder

(* A line appended to one partition.                                       *)
LEMMA Appended ==
  ASSUME NEW t \in [Partitions -> Seq(Nat)], NEW p \in Partitions, NEW n \in Nat,
         NEW u, u = [t EXCEPT ![p] = Append(@, n)]
  PROVE  /\ u \in [Partitions -> Seq(Nat)]
         /\ Len(u[p]) = Len(t[p]) + 1 /\ u[p][Len(t[p]) + 1] = n
         /\ \A i \in 1 .. Len(t[p]) : u[p][i] = t[p][i]
         /\ \A q \in Partitions \ {p} : u[q] = t[q]
<1>1. t[p] \in Seq(Nat) /\ Append(t[p], n) \in Seq(Nat)
  OBVIOUS
<1>2. u[p] = Append(t[p], n) /\ \A q \in Partitions \ {p} : u[q] = t[q]
  OBVIOUS
<1> QED
  BY <1>1, <1>2

LEMMA NextAgentInv == AgentInv /\ [AgentNext]_agentVars => AgentInv'
<1> SUFFICES ASSUME AgentInv, [AgentNext]_agentVars PROVE AgentInv'
  OBVIOUS
<1>1. CASE UNCHANGED agentVars
  BY <1>1 DEF AgentInv, agentVars, PartitionOrder
<1>2. CASE Write
  BY <1>2 DEF Write, AgentInv, PartitionOrder
<1>3. CASE AgentStart
  <2>1. \A p \in Partitions : topic[p] = << >> /\ 1 .. Len(topic[p]) = {}
    BY <1>3 DEF AgentStart, AgentInv
  <2>2. agent'.line = agent'.start
    BY <1>3 DEF AgentStart, AgentInv
  <2>3. /\ agent' \in [pc : {"init", "select", "send", "ended"}, line : Nat, tries : Nat, start : Nat]
        /\ agent'.pc \in {"select", "ended"} /\ UNCHANGED <<logged, topic>>
    BY <1>3 DEF AgentStart, AgentInv
  <2> QED
    BY <2>1, <2>2, <2>3 DEF AgentInv, PartitionOrder
<1>4. CASE Select
  <2>1. /\ agent' \in [pc : {"init", "select", "send", "ended"}, line : Nat, tries : Nat, start : Nat]
        /\ agent'.pc = "send" /\ agent'.line = agent.line + 1 /\ agent'.start = agent.start
        /\ UNCHANGED <<logged, topic>> /\ agent.pc = "select"
    <3>1. agent \in [pc : {"init", "select", "send", "ended"}, line : Nat, tries : Nat, start : Nat]
      BY DEF AgentInv
    <3>2. agent' = [agent EXCEPT !.pc = "send", !.line = agent.line + 1, !.tries = 0]
      BY <1>4, <3>1 DEF Select
    <3> DEFINE n == agent.line + 1
               a == [agent EXCEPT !.pc = "send", !.line = n]
    <3>3. n \in Nat /\ n = agent.line + 1
      BY <3>1
    <3> HIDE DEF n
    <3>4. /\ a \in [pc : {"init", "select", "send", "ended"}, line : Nat, tries : Nat, start : Nat]
          /\ a.pc = "send" /\ a.line = agent.line + 1 /\ a.start = agent.start
      BY <3>1, <3>3
    <3>5. agent' = [a EXCEPT !.tries = 0]
      BY <3>2, <3>3
    <3> HIDE DEF a
    <3>6. /\ agent' \in [pc : {"init", "select", "send", "ended"}, line : Nat, tries : Nat, start : Nat]
          /\ agent'.pc = "send" /\ agent'.line = a.line /\ agent'.start = a.start
      BY <3>4, <3>5
    <3> QED
      BY <1>4, <3>4, <3>6 DEF Select
  <2>2. topic \in [Partitions -> Seq(Nat)] /\ agent.line \in Nat /\ agent.start \in Nat
    BY DEF AgentInv
  <2>3. \A p \in Partitions : \A i \in 1 .. Len(topic[p]) :
          agent'.start < topic[p][i] /\ topic[p][i] =< agent'.line
    <3> SUFFICES ASSUME NEW p \in Partitions, NEW i \in 1 .. Len(topic[p])
                 PROVE  agent'.start < topic[p][i] /\ topic[p][i] =< agent'.line
      OBVIOUS
    <3>1. topic[p][i] \in Nat /\ agent.start < topic[p][i] /\ topic[p][i] =< agent.line
      BY <2>2 DEF AgentInv
    <3> QED
      BY <2>1, <2>2, <3>1
  <2>4. \A n \in Nat : agent'.start < n /\ n < agent'.line =>
          \E p \in Partitions : \E i \in 1 .. Len(topic[p]) : topic[p][i] = n
    <3> SUFFICES ASSUME NEW n \in Nat, agent'.start < n, n < agent'.line
                 PROVE  \E p \in Partitions : \E i \in 1 .. Len(topic[p]) : topic[p][i] = n
      OBVIOUS
    <3>1. n < agent.line \/ (n = agent.line /\ agent.line # agent.start)
      BY <2>1, <2>2
    <3> QED
      BY <2>1, <3>1 DEF AgentInv
  <2> QED
    BY <2>1, <2>2, <2>3, <2>4 DEF AgentInv, PartitionOrder
<1>5. CASE Deliver
  <2>1. PICK p \in Partitions, written \in BOOLEAN, acked \in BOOLEAN :
          /\ acked => written
          /\ topic' = IF written THEN [topic EXCEPT ![p] = Append(@, agent.line)] ELSE topic
          /\ agent' = CASE acked -> [agent EXCEPT !.pc = "select"]
                        [] ~acked /\ agent.tries < MaxRetry -> [agent EXCEPT !.tries = @ + 1]
                        [] OTHER -> [agent EXCEPT !.pc = "ended"]
    BY <1>5 DEF Deliver
  <2>2. /\ agent.pc = "send" /\ logged' = logged /\ logged \in Nat
        /\ topic \in [Partitions -> Seq(Nat)]
        /\ agent \in [pc : {"init", "select", "send", "ended"}, line : Nat, tries : Nat, start : Nat]
        /\ agent.start < agent.line
    BY <1>5 DEF Deliver, AgentInv
  <2>3. /\ agent' \in [pc : {"init", "select", "send", "ended"}, line : Nat, tries : Nat, start : Nat]
        /\ agent'.line = agent.line /\ agent'.start = agent.start
        /\ agent'.pc \in {"select", "send", "ended"}
        /\ agent'.pc = "select" => acked
    <3>1. CASE acked
      BY <2>1, <2>2, <3>1
    <3>2. CASE ~acked /\ agent.tries < MaxRetry
      BY <2>1, <2>2, <3>2
    <3>3. CASE ~acked /\ ~(agent.tries < MaxRetry)
      BY <2>1, <2>2, <3>3
    <3> QED
      BY <3>1, <3>2, <3>3
  <2>4. CASE ~written
    <3>1. topic' = topic /\ agent'.pc \in {"send", "ended"}
      BY <2>1, <2>3, <2>4
    <3> QED
      BY <2>2, <2>3, <3>1 DEF AgentInv, PartitionOrder
  <2>5. CASE written
    <3>1. /\ topic' \in [Partitions -> Seq(Nat)]
          /\ Len(topic'[p]) = Len(topic[p]) + 1 /\ topic'[p][Len(topic[p]) + 1] = agent.line
          /\ \A i \in 1 .. Len(topic[p]) : topic'[p][i] = topic[p][i]
          /\ \A q \in Partitions \ {p} : topic'[q] = topic[q]
      BY <2>1, <2>2, <2>5, Appended
    <3>2. \A q \in Partitions : Len(topic[q]) \in Nat /\ \A i \in 1 .. Len(topic[q]) : topic[q][i] \in Nat
      BY <2>2
    <3>3. \A q \in Partitions : \A i \in 1 .. Len(topic'[q]) :
            agent.start < topic'[q][i] /\ topic'[q][i] =< agent.line
      <4> SUFFICES ASSUME NEW q \in Partitions, NEW i \in 1 .. Len(topic'[q])
                   PROVE  agent.start < topic'[q][i] /\ topic'[q][i] =< agent.line
        OBVIOUS
      <4>1. CASE q # p
        BY <3>1, <4>1 DEF AgentInv
      <4>2. CASE q = p /\ i = Len(topic[p]) + 1
        BY <2>2, <3>1, <4>2
      <4>3. CASE q = p /\ i \in 1 .. Len(topic[p])
        BY <3>1, <4>3 DEF AgentInv
      <4> QED
        BY <3>1, <3>2, <4>1, <4>2, <4>3
    <3>4. ASSUME NEW n \in Nat,
                 \E q \in Partitions : \E i \in 1 .. Len(topic[q]) : topic[q][i] = n
          PROVE  \E q \in Partitions : \E i \in 1 .. Len(topic'[q]) : topic'[q][i] = n
      <4>1. PICK q \in Partitions : \E i \in 1 .. Len(topic[q]) : topic[q][i] = n
        BY <3>4
      <4>2. PICK i \in 1 .. Len(topic[q]) : topic[q][i] = n
        BY <4>1
      <4>3. i \in 1 .. Len(topic'[q]) /\ topic'[q][i] = n
        <5>1. CASE q = p
          BY <3>1, <3>2, <4>2, <5>1
        <5>2. CASE q # p
          BY <3>1, <4>2, <5>2
        <5> QED
          BY <5>1, <5>2
      <4> QED
        BY <4>3
    <3>5. \E q \in Partitions : \E i \in 1 .. Len(topic'[q]) : topic'[q][i] = agent.line
      BY <3>1, <3>2
    <3>6. PartitionOrder'
      <4> SUFFICES ASSUME NEW q \in Partitions, NEW i \in 1 .. Len(topic'[q]) - 1
                   PROVE  topic'[q][i] <= topic'[q][i + 1]
        BY DEF PartitionOrder
      <4>1. CASE q # p
        BY <3>1, <4>1 DEF AgentInv, PartitionOrder
      <4>2. CASE q = p
        <5>1. i \in 1 .. Len(topic[p]) /\ topic'[p][i] = topic[p][i]
          BY <3>1, <3>2, <4>2
        <5>2. CASE i = Len(topic[p])
          BY <3>1, <4>2, <5>1, <5>2 DEF AgentInv
        <5>3. CASE i # Len(topic[p])
          <6>1. i \in 1 .. Len(topic[p]) - 1 /\ i + 1 \in 1 .. Len(topic[p])
            BY <3>2, <5>1, <5>3
          <6> QED
            BY <3>1, <4>2, <5>1, <6>1 DEF AgentInv, PartitionOrder
        <5> QED
          BY <5>2, <5>3
      <4> QED
        BY <4>1, <4>2
    <3>7. \A n \in Nat : agent'.start < n /\ n < agent'.line =>
            \E q \in Partitions : \E i \in 1 .. Len(topic'[q]) : topic'[q][i] = n
      BY <2>3, <3>4 DEF AgentInv
    <3>8. /\ logged' \in Nat /\ agent'.start =< agent'.line /\ agent'.pc # "init"
          /\ agent'.pc = "send" => agent'.start < agent'.line
      BY <2>2, <2>3
    <3>9. /\ \A q \in Partitions : \A i \in 1 .. Len(topic'[q]) :
              agent'.start < topic'[q][i] /\ topic'[q][i] =< agent'.line
          /\ \E q \in Partitions : \E i \in 1 .. Len(topic'[q]) : topic'[q][i] = agent'.line
      BY <2>3, <3>3, <3>5
    <3> QED
      BY <2>3, <3>1, <3>6, <3>7, <3>8, <3>9 DEF AgentInv
  <2> QED
    BY <2>4, <2>5
<1>6. CASE LinesClosed
  <2>1. /\ agent' \in [pc : {"init", "select", "send", "ended"}, line : Nat, tries : Nat, start : Nat]
        /\ agent'.pc = "ended" /\ agent'.line = agent.line /\ agent'.start = agent.start
        /\ UNCHANGED <<logged, topic>> /\ agent.pc = "select"
    BY <1>6 DEF LinesClosed, AgentInv
  <2> QED
    BY <2>1 DEF AgentInv, PartitionOrder
<1> QED
  BY <1>1, <1>2, <1>3, <1>4, <1>5, <1>6 DEF AgentNext, Run

LEMMA AgentInvNoGap == AgentInv => NoGap
<1> SUFFICES ASSUME AgentInv PROVE NoGap
  OBVIOUS
<1>1. topic \in [Partitions -> Seq(Nat)] /\ agent.line \in Nat /\ agent.start \in Nat
  BY DEF AgentInv
<1>2. \A n : n \in Received <=> \E p \in Partitions : \E i \in 1 .. Len(topic[p]) : topic[p][i] = n
  BY <1>1 DEF Received, Range
<1>3. (agent.start + 1) .. (agent.line - 1) \subseteq Received
  <2> SUFFICES ASSUME NEW n \in (agent.start + 1) .. (agent.line - 1) PROVE n \in Received
    OBVIOUS
  <2>1. n \in Nat /\ agent.start < n /\ n < agent.line
    BY <1>1
  <2> QED
    BY <1>2, <2>1 DEF AgentInv
<1>4. Received \subseteq (agent.start + 1) .. agent.line
  <2> SUFFICES ASSUME NEW n \in Received PROVE n \in (agent.start + 1) .. agent.line
    OBVIOUS
  <2>1. PICK p \in Partitions : \E i \in 1 .. Len(topic[p]) : topic[p][i] = n
    BY <1>2
  <2>2. PICK i \in 1 .. Len(topic[p]) : topic[p][i] = n
    BY <2>1
  <2>3. n \in Nat /\ agent.start < n /\ n =< agent.line
    BY <1>1, <2>2 DEF AgentInv
  <2> QED
    BY <1>1, <2>3
<1>5. agent.pc = "select" => agent.line = agent.start \/ agent.line \in Received
  BY <1>2 DEF AgentInv
<1> QED
  BY <1>3, <1>4, <1>5 DEF NoGap

(* A step of the programs is a step of the session store or leaves it      *)
(* alone, and the same of the agent.                                       *)
LEMMA GoSteps == [Next]_vars => [SessionNext]_sessionVars /\ [AgentNext]_agentVars
BY DEF Next, vars, Of, Others

(* In every behaviour, for any number of sessions, keys, connections,      *)
(* lines, partitions and retries: a redis session that is not marked as    *)
(* modified is what redis holds unless its last Save failed                *)
(* (redis_session.go:111), and the topic has the lines the agent has taken *)
(* without a gap, in order within a partition (logagent1/main.go:50).      *)
THEOREM GoDataKept == Init /\ [][Next]_vars => []GoKeepsData
<1>1. Init => SessionInv /\ AgentInv
  BY InitSessionInv, InitAgentInv DEF Init
<1>2. SessionInv /\ AgentInv /\ [Next]_vars => SessionInv' /\ AgentInv'
  BY NextSessionInv, NextAgentInv, GoSteps
<1>3. SessionInv /\ AgentInv => GoKeepsData
  BY AgentInvNoGap DEF GoKeepsData, SessionInv, SavedIfUnmodified, AgentInv
<1> QED
  BY <1>1, <1>2, <1>3, PTL

----------------------------------------------------------------------------
(* The heartbeat client: a node in the tree is never deleted twice, and    *)
(* every call of the handler that takes it out puts it in again.           *)

Conditions == {"READING", "WRITING", "TIMEOUT"}

ClientEvents ==
  [what : SUBSET Conditions, status : {0, 1}, timer_set : {0, 1}, key : Int, in : BOOLEAN,
   crashed : BOOLEAN, interest : SUBSET Conditions, open : BOOLEAN]

InTree(c) == c.in /\ ~c.crashed

\* Its next AddEvent inserts the node.
TakenOut(c) == c.timer_set = 0 /\ ~c.crashed

LEMMA ArmKeeps ==
  ASSUME NEW c \in ClientEvents
  PROVE  /\ Arm(c) \in ClientEvents /\ Arm(c).what = c.what
         /\ InTree(c) \/ TakenOut(c) => InTree(Arm(c))
         /\ ~c.crashed => (Arm(c).crashed => ~Arm(c).in)
<1>1. CASE c.timer_set = 1 /\ Interval - c.key < LazyDelay
  BY <1>1 DEF Arm, InTree, TakenOut, ClientEvents
<1>2. CASE ~(c.timer_set = 1 /\ Interval - c.key < LazyDelay) /\ c.timer_set = 1 /\ ~c.in
  <2>1. Arm(c) = [c EXCEPT !.crashed = TRUE]
    BY <1>2 DEF Arm
  <2>2. /\ Arm(c) \in ClientEvents /\ Arm(c).what = c.what /\ Arm(c).in = c.in
    BY <2>1 DEF ClientEvents
  <2> QED
    BY <1>2, <2>2 DEF InTree, TakenOut
<1>3. CASE ~(c.timer_set = 1 /\ Interval - c.key < LazyDelay) /\ ~(c.timer_set = 1 /\ ~c.in)
  <2>1. Arm(c) = [c EXCEPT !.timer_set = 1, !.key = Interval, !.in = TRUE]
    BY <1>3 DEF Arm
  <2>2. Interval \in Int
    BY IntervalAssumption
  <2> DEFINE d == [c EXCEPT !.timer_set = 1, !.key = Interval]
  <2>3. d \in ClientEvents /\ d.what = c.what /\ d.crashed = c.crashed
    BY <2>2 DEF ClientEvents
  <2>4. Arm(c) = [d EXCEPT !.in = TRUE]
    BY <2>1
  <2> HIDE DEF d
  <2>5. Arm(c) \in ClientEvents /\ Arm(c).what = d.what /\ Arm(c).crashed = d.crashed /\ Arm(c).in
    BY <2>3, <2>4 DEF ClientEvents
  <2> QED
    BY <2>3, <2>5 DEF InTree, TakenOut
<1> QED
  BY <1>1, <1>2, <1>3

LEMMA AddEventKeeps ==
  ASSUME NEW c \in ClientEvents, NEW w \in SUBSET Conditions
  PROVE  /\ AddEvent(c, w) \in ClientEvents /\ w \subseteq AddEvent(c, w).what
         /\ InTree(c) \/ TakenOut(c) => InTree(AddEvent(c, w))
         /\ ~c.crashed => (AddEvent(c, w).crashed => ~AddEvent(c, w).in)
<1> DEFINE b == [c EXCEPT !.what = @ \cup w]
           a == Arm(b)
           done == a.open /\ (a.status = 0 \/ a.interest # {})
           i == IF done THEN w \ {"TIMEOUT"} ELSE a.interest
<1>1. /\ b \in ClientEvents /\ b.what = c.what \cup w /\ b.in = c.in
      /\ b.crashed = c.crashed /\ b.timer_set = c.timer_set
  BY DEF ClientEvents
<1>2. /\ a \in ClientEvents /\ a.what = b.what
      /\ InTree(b) \/ TakenOut(b) => InTree(a)
      /\ ~b.crashed => (a.crashed => ~a.in)
  BY <1>1, ArmKeeps
<1>3. i \in SUBSET Conditions
  BY <1>2 DEF ClientEvents
<1>4. AddEvent(c, w) = [a EXCEPT !.status = 1, !.interest = i]
  BY <1>2 DEF AddEvent, ClientEvents
<1> HIDE DEF a, b, i
<1>5. /\ AddEvent(c, w) \in ClientEvents /\ AddEvent(c, w).what = a.what
      /\ AddEvent(c, w).in = a.in /\ AddEvent(c, w).crashed = a.crashed
  BY <1>2, <1>3, <1>4 DEF ClientEvents
<1> QED
  BY <1>1, <1>2, <1>5 DEF InTree, TakenOut

LEMMA DelEventKeeps ==
  ASSUME NEW c \in ClientEvents
  PROVE  /\ DelEvent(c) \in ClientEvents /\ DelEvent(c).what = c.what
         /\ DelEvent(c).in = c.in /\ DelEvent(c).crashed = c.crashed
         /\ DelEvent(c).timer_set = c.timer_set
BY DEF DelEvent, ClientEvents

LEMMA CloseFdKeeps ==
  ASSUME NEW c \in ClientEvents
  PROVE  /\ CloseFd(c) \in ClientEvents /\ CloseFd(c).what = c.what
         /\ CloseFd(c).in = c.in /\ CloseFd(c).crashed = c.crashed
         /\ CloseFd(c).timer_set = c.timer_set
BY DEF CloseFd, ClientEvents

\* What the two callbacks keep of an event.
Kept(c, d) ==
  /\ d \in ClientEvents
  /\ "TIMEOUT" \in c.what => "TIMEOUT" \in d.what
  /\ InTree(c) => InTree(d)
  /\ TakenOut(c) => InTree(d) \/ TakenOut(d)
  /\ ~c.crashed => (d.crashed => ~d.in)

LEMMA CallbackKeeps ==
  ASSUME NEW c \in ClientEvents, NEW w \in SUBSET Conditions, "TIMEOUT" \in w
  PROVE  /\ Kept(c, AddEvent([DelEvent(c) EXCEPT !.what = {}], w))
         /\ Kept(c, CloseFd(DelEvent(c))) /\ Kept(c, DelEvent(CloseFd(c)))
<1> DEFINE d == [DelEvent(c) EXCEPT !.what = {}]
<1>1. /\ d \in ClientEvents /\ d.in = c.in /\ d.crashed = c.crashed /\ d.timer_set = c.timer_set
  BY DelEventKeeps DEF ClientEvents
<1>2. Kept(c, AddEvent(d, w))
  <2> HIDE DEF d
  <2> QED
    BY <1>1, AddEventKeeps DEF Kept, InTree, TakenOut
<1>3. Kept(c, CloseFd(DelEvent(c)))
  BY DelEventKeeps, CloseFdKeeps DEF Kept, InTree, TakenOut
<1>4. Kept(c, DelEvent(CloseFd(c)))
  BY DelEventKeeps, CloseFdKeeps DEF Kept, InTree, TakenOut
<1> QED
  BY <1>2, <1>3, <1>4

LEMMA HandlerKeeps ==
  ASSUME NEW c \in ClientEvents, ~c.crashed, NEW after, NEW sentAll \in BOOLEAN
  PROVE  /\ Handler(c, after, sentAll) \in ClientEvents
         /\ InTree(c) => InTree(Handler(c, after, sentAll))
         /\ TakenOut(c) /\ "TIMEOUT" \in c.what => InTree(Handler(c, after, sentAll))
         /\ Handler(c, after, sentAll).crashed => ~Handler(c, after, sentAll).in
<1> DEFINE c1 == IF "READING" \in c.what THEN RecvCallback(c, after) ELSE c
           c2 == IF "WRITING" \in c1.what /\ ~c1.crashed THEN SendCallback(c1, sentAll) ELSE c1
           c3 == [c2 EXCEPT !.timer_set = 0]
<1>1. Kept(c, c1)
  <2>1. Kept(c, c)
    BY DEF Kept
  <2>2. Kept(c, RecvCallback(c, after))
    BY CallbackKeeps DEF RecvCallback, Conditions
  <2> QED
    BY <2>1, <2>2
<1>2. c1 \in ClientEvents
  BY <1>1 DEF Kept
<1> HIDE DEF c1
<1>3. Kept(c1, c2)
  <2>1. Kept(c1, c1)
    BY <1>2 DEF Kept
  <2>2. Kept(c1, SendCallback(c1, sentAll))
    BY <1>2, CallbackKeeps DEF SendCallback, Conditions
  <2> QED
    BY <2>1, <2>2
<1>4. c2 \in ClientEvents
  BY <1>3 DEF Kept
<1>5. Handler(c, after, sentAll)
        = IF "TIMEOUT" \in c2.what /\ ~c2.crashed THEN AddEvent(c3, {"READING", "TIMEOUT"}) ELSE c2
  BY DEF Handler, c1
<1> HIDE DEF c2
<1>6. /\ c3 \in ClientEvents /\ c3.timer_set = 0 /\ c3.in = c2.in /\ c3.crashed = c2.crashed
  BY <1>4 DEF ClientEvents
<1> HIDE DEF c3
<1>7. /\ AddEvent(c3, {"READING", "TIMEOUT"}) \in ClientEvents
      /\ ~c3.crashed => InTree(AddEvent(c3, {"READING", "TIMEOUT"}))
  BY <1>6, AddEventKeeps DEF TakenOut, Conditions
<1>8. CASE "TIMEOUT" \in c2.what /\ ~c2.crashed
  BY <1>5, <1>6, <1>7, <1>8 DEF InTree
<1>9. CASE ~("TIMEOUT" \in c2.what /\ ~c2.crashed)
  <2>1. Handler(c, after, sentAll) = c2
    BY <1>5, <1>9
  <2>2. c2.crashed => ~c2.in
    <3>1. CASE c1.crashed
      BY <1>1, <3>1 DEF Kept, c2
    <3>2. CASE ~c1.crashed
      BY <1>3, <3>2 DEF Kept
    <3> QED
      BY <3>1, <3>2
  <2>3. InTree(c) => InTree(c2)
    BY <1>1, <1>3 DEF Kept
  <2>4. ~(TakenOut(c) /\ "TIMEOUT" \in c.what)
    BY <1>1, <1>3, <1>9 DEF Kept, InTree, TakenOut
  <2> QED
    BY <1>4, <2>1, <2>2, <2>3, <2>4
<1> QED
  BY <1>8, <1>9

ClientInv == cl \in ClientEvents /\ (cl.crashed => ~cl.in)

LEMMA NextClientInv ==
  ASSUME ClientInv, [ClientNext]_clientVars
  PROVE  ClientInv' /\ (InTree(cl) => InTree(cl'))
<1>1. ASSUME NEW c \in ClientEvents, CallHandler(c), ~c.crashed,
             InTree(cl) => InTree(c) \/ (TakenOut(c) /\ "TIMEOUT" \in c.what)
      PROVE  ClientInv' /\ (InTree(cl) => InTree(cl'))
  <2>1. PICK sentAll \in BOOLEAN :
          cl' = Handler(c, IF c.open /\ serverSide.data THEN "data" ELSE "none", sentAll)
    BY <1>1 DEF CallHandler
  <2> QED
    BY <1>1, <2>1, HandlerKeeps DEF ClientInv
<1>2. ASSUME NEW d \in 0 .. MaxStep, PollClient(d) PROVE ClientInv' /\ (InTree(cl) => InTree(cl'))
  <2> DEFINE k == IF cl.key - d < -MaxStep THEN -MaxStep ELSE cl.key - d
  <2>1. k \in Int
    BY IntervalAssumption DEF ClientInv, ClientEvents
  <2>2. cl' = [cl EXCEPT !.key = k]
    BY <1>2 DEF PollClient, ClientInv, ClientEvents
  <2> HIDE DEF k
  <2> QED
    BY <2>1, <2>2 DEF ClientInv, ClientEvents, InTree
<1>3. CASE UNCHANGED cl
  BY <1>3 DEF ClientInv
<1>4. CASE HandleClientEvent
  BY <1>1, <1>4 DEF HandleClientEvent, ClientInv
<1>5. CASE ExpireClient
  <2> DEFINE c == [cl EXCEPT !.in = FALSE, !.timer_set = 0, !.what = @ \cup {"TIMEOUT"}]
  <2>1. CASE cl.in /\ cl.key =< 0
    <3>1. /\ c \in ClientEvents /\ c.timer_set = 0 /\ c.crashed = cl.crashed
          /\ c.in = FALSE /\ "TIMEOUT" \in c.what
      BY DEF ClientInv, ClientEvents, Conditions
    <3>2. CallHandler(c) /\ ~cl.crashed
      BY <1>5, <2>1 DEF ExpireClient
    <3> HIDE DEF c
    <3> QED
      BY <1>1, <3>1, <3>2 DEF TakenOut
  <2>2. CASE ~(cl.in /\ cl.key =< 0)
    BY <1>3, <1>5, <2>2 DEF ExpireClient
  <2> QED
    BY <2>1, <2>2
<1> QED
  BY <1>2, <1>3, <1>4, <1>5 DEF ClientNext, ClientLoop, ServerSends, ServerLeaves, clientVars

(* A heartbeat client whose timer is in the tree when it waits has it in   *)
(* the tree whenever it waits from then on, and never deletes a node that  *)
(* is not there, whatever the server sends, recv and send return and the   *)
(* clock does, and although timer_set is cleared by hand                   *)
(* (ngx_client.c:125).                                                     *)
THEOREM ClientStaysArmed == Init /\ [][Next]_vars => OnceArmed
<1> DEFINE P == cl.in /\ stage = "poll"
           Q == ~cl.crashed /\ (stage = "poll" => cl.in)
           G == ClientInv /\ InTree(cl)
<1>1. Init => ClientInv
  BY IntervalAssumption DEF Init, ClientInit, ClientInv, ClientEvents, Conditions
<1>2. ClientInv /\ [Next]_vars => ClientInv'
  BY NextClientInv DEF Next, vars, Of, Others
<1>3. G /\ [Next]_vars => G'
  BY NextClientInv DEF Next, vars, Of, Others, InTree
<1>4. ClientInv /\ P => G
  BY DEF ClientInv, InTree
<1>5. G => Q
  BY DEF InTree
<1>6. OnceArmed <=> [](P => []Q)
  BY DEF OnceArmed
<1> HIDE DEF P, Q, G
<1> QED
  BY <1>1, <1>2, <1>3, <1>4, <1>5, <1>6, PTL

----------------------------------------------------------------------------
(* syncpub.c and syncsub.c: what a synchronised subscriber has counted and *)
(* what is still in its pipe are together the updates published so far.    *)

\* The messages of a pipe: updates, and last at the end.
Pending(q, last) ==
  /\ \A i \in 1 .. Len(q) : q[i] = IF i = Len(q) THEN last ELSE "Rhubarb"
  /\ last = "END" => q # << >>

LastSent == IF pub.pc = "done" THEN "END" ELSE "Rhubarb"
AllSent == pub.update_nbr + (IF pub.pc = "done" THEN 1 ELSE 0)

SyncInv ==
  /\ pub \in [pc : {"sync", "update", "done"}, subscribers : Nat, update_nbr : Nat]
  /\ sub \in [Subscribers -> [pc : {"subscribe", "sleep", "request", "updates", "done"},
                              update_nbr : Nat]]
  /\ updates \in [Subscribers -> Seq({"Rhubarb", "END"})]
  /\ ready \subseteq joined /\ joined \subseteq Subscribers /\ requests \subseteq Subscribers
  /\ pub.update_nbr =< Updates
  /\ pub.pc = "sync" => pub.update_nbr = 0
  /\ pub.pc = "done" => pub.update_nbr = Updates
  /\ pub.pc = "sync" => \A s \in Subscribers : updates[s] = << >> /\ sub[s].update_nbr = 0
  /\ \A s \in ready : sub[s].pc = "updates" \/ (sub[s].pc = "done" /\ pub.pc = "done")
  /\ \A s \in ready : sub[s].pc = "done" => sub[s].update_nbr = Updates
  /\ \A s \in ready : sub[s].pc = "updates" =>
       Pending(updates[s], LastSent) /\ sub[s].update_nbr + Len(updates[s]) = AllSent

LEMMA InitSyncInv == SyncInit => SyncInv
<1> SUFFICES ASSUME SyncInit PROVE SyncInv
  OBVIOUS
<1>1. updates \in [Subscribers -> Seq({"Rhubarb", "END"})]
  BY DEF SyncInit
<1> QED
  BY <1>1, UpdatesAssumption DEF SyncInit, SyncInv

(* One more message in a pipe, and one less.                               *)
LEMMA PendingGrows ==
  ASSUME NEW q \in Seq({"Rhubarb", "END"}), Pending(q, "Rhubarb"), NEW m \in {"Rhubarb", "END"}
  PROVE  /\ Pending(Append(q, m), m) /\ Append(q, m) \in Seq({"Rhubarb", "END"})
         /\ Len(Append(q, m)) = Len(q) + 1
<1> DEFINE a == Append(q, m)
<1>1. /\ a \in Seq({"Rhubarb", "END"}) /\ Len(a) = Len(q) + 1 /\ a[Len(q) + 1] = m
      /\ \A i \in 1 .. Len(q) : a[i] = q[i]
  OBVIOUS
<1>2. Len(q) \in Nat /\ a # << >>
  OBVIOUS
<1>3. \A i \in 1 .. Len(q) : q[i] = "Rhubarb"
  BY DEF Pending
<1> HIDE DEF a
<1>4. \A i \in 1 .. Len(a) : a[i] = IF i = Len(a) THEN m ELSE "Rhubarb"
  BY <1>1, <1>2, <1>3
<1> QED
  BY <1>1, <1>2, <1>4 DEF Pending, a

LEMMA PendingShrinks ==
  ASSUME NEW q \in Seq({"Rhubarb", "END"}), NEW last \in {"Rhubarb", "END"}, Pending(q, last),
         q # << >>
  PROVE  /\ Tail(q) \in Seq({"Rhubarb", "END"}) /\ Len(Tail(q)) = Len(q) - 1
         /\ Head(q) = "END" => last = "END" /\ Len(q) = 1
         /\ Head(q) # "END" => Pending(Tail(q), last)
<1> DEFINE r == Tail(q)
<1>1. /\ r \in Seq({"Rhubarb", "END"}) /\ Len(r) = Len(q) - 1 /\ Len(q) \in Nat \ {0}
      /\ Head(q) = q[1] /\ \A i \in 1 .. Len(r) : r[i] = q[i + 1]
  OBVIOUS
<1>2. \A i \in 1 .. Len(q) : q[i] = IF i = Len(q) THEN last ELSE "Rhubarb"
  BY DEF Pending
<1> HIDE DEF r
<1>3. r = << >> => Len(q) = 1
  BY <1>1
<1>4. Head(q) = "END" => last = "END" /\ Len(q) = 1
  BY <1>1, <1>2
<1>5. ASSUME Head(q) # "END" PROVE Pending(r, last)
  <2>1. \A i \in 1 .. Len(r) : r[i] = IF i = Len(r) THEN last ELSE "Rhubarb"
    BY <1>1, <1>2
  <2>2. last = "END" => r # << >>
    BY <1>1, <1>2, <1>3, <1>5
  <2> QED
    BY <2>1, <2>2 DEF Pending
<1> QED
  BY <1>1, <1>4, <1>5 DEF r

LEMMA NextSyncInv == SyncInv /\ [SyncNext]_syncVars => SyncInv'
<1> SUFFICES ASSUME SyncInv, [SyncNext]_syncVars PROVE SyncInv'
  OBVIOUS
<1> DEFINE Subs == [pc : {"subscribe", "sleep", "request", "updates", "done"}, update_nbr : Nat]
<1>1. CASE UNCHANGED syncVars
  BY <1>1 DEF SyncInv, syncVars, LastSent, AllSent
<1>2. ASSUME NEW s \in Subscribers, Subscribe(s) \/ Request(s) PROVE SyncInv'
  <2>1. PICK pc \in {"sleep", "request"} : sub' = [sub EXCEPT ![s].pc = pc]
    BY <1>2 DEF Subscribe, Request
  <2>2. sub[s] \in Subs /\ s \notin ready
    BY <1>2 DEF SyncInv, Subscribe, Request
  <2> DEFINE d == [sub[s] EXCEPT !.pc = pc]
  <2>3. d \in Subs /\ d.update_nbr = sub[s].update_nbr
    BY <2>2
  <2>4. sub' = [sub EXCEPT ![s] = d]
    BY <2>1
  <2> HIDE DEF d
  <2>5. /\ sub' \in [Subscribers -> Subs] /\ sub'[s] = d
        /\ \A t \in Subscribers \ {s} : sub'[t] = sub[t]
    BY <2>3, <2>4 DEF SyncInv
  <2>6. /\ UNCHANGED <<pub, joined, updates, ready>> /\ requests' \subseteq Subscribers
    BY <1>2 DEF SyncInv, Subscribe, Request
  <2>7. \A t \in ready : sub'[t] = sub[t]
    BY <2>2, <2>5 DEF SyncInv
  <2>8. \A t \in Subscribers : sub'[t].update_nbr = sub[t].update_nbr
    BY <2>3, <2>5
  <2> QED
    BY <2>5, <2>6, <2>7, <2>8 DEF SyncInv, LastSent, AllSent
<1>3. ASSUME NEW s \in Subscribers, Joins(s) PROVE SyncInv'
  BY <1>3 DEF SyncInv, Joins, LastSent, AllSent
<1>4. ASSUME NEW s \in Subscribers, Answer(s) PROVE SyncInv'
  <2>1. /\ pub.pc = "sync" /\ pub.update_nbr = 0 /\ sub[s] \in Subs
        /\ \A t \in Subscribers : updates[t] = << >> /\ sub[t].update_nbr = 0
    BY <1>4 DEF SyncInv, Answer
  <2> DEFINE d == [sub[s] EXCEPT !.pc = "updates"]
  <2>2. d \in Subs /\ d.pc = "updates" /\ d.update_nbr = 0
    BY <2>1
  <2>3. sub' = [sub EXCEPT ![s] = d]
    BY <1>4 DEF Answer
  <2> HIDE DEF d
  <2>4. /\ sub' \in [Subscribers -> Subs] /\ sub'[s] = d
        /\ \A t \in Subscribers \ {s} : sub'[t] = sub[t]
    BY <2>2, <2>3 DEF SyncInv
  <2>5. /\ pub' \in [pc : {"sync", "update", "done"}, subscribers : Nat, update_nbr : Nat]
        /\ pub'.update_nbr = 0 /\ pub'.pc \in {"sync", "update"}
    <3> DEFINE n == pub.subscribers + 1
    <3>1. pub \in [pc : {"sync", "update", "done"}, subscribers : Nat, update_nbr : Nat]
      BY DEF SyncInv
    <3>2. n \in Nat /\ pub' = [pub EXCEPT !.subscribers = n, !.pc = Publishes(n)]
      BY <1>4, <3>1 DEF Answer
    <3>3. Publishes(n) \in {"sync", "update"}
      BY DEF Publishes
    <3> HIDE DEF n
    <3> QED
      BY <2>1, <3>1, <3>2, <3>3
  <2>6. /\ UNCHANGED <<joined, updates>> /\ requests' \subseteq Subscribers
        /\ ready' \subseteq joined' /\ ready' \subseteq ready \cup {s}
    BY <1>4 DEF SyncInv, Answer
  <2>7. \A t \in ready' : sub'[t].pc = "updates"
    <3> SUFFICES ASSUME NEW t \in ready', t # s PROVE sub'[t].pc = "updates"
      BY <2>2, <2>4
    <3>1. t \in ready /\ t \in Subscribers
      BY <2>6 DEF SyncInv
    <3> QED
      BY <2>1, <2>4, <3>1 DEF SyncInv
  <2>8. \A t \in Subscribers : updates'[t] = << >> /\ sub'[t].update_nbr = 0
    BY <2>1, <2>2, <2>4, <2>6
  <2>9. \A t \in ready' : Pending(updates'[t], LastSent')
    BY <2>5, <2>6, <2>8 DEF Pending, LastSent, SyncInv
  <2>10. \A t \in ready' : t \in Subscribers
    BY <2>6 DEF SyncInv
  <2> QED
    BY <2>4, <2>5, <2>6, <2>7, <2>8, <2>9, <2>10, UpdatesAssumption DEF SyncInv, AllSent
<1>5. CASE Broadcast
  <2>1. /\ pub.pc = "update" /\ UNCHANGED <<sub, joined, requests, ready>>
        /\ pub \in [pc : {"sync", "update", "done"}, subscribers : Nat, update_nbr : Nat]
    BY <1>5 DEF Broadcast, SyncInv
  <2>2. PICK m \in {"Rhubarb", "END"} :
          /\ Publish(m)
          /\ m = "Rhubarb" <=> pub.update_nbr < Updates
          /\ pub' = IF m = "Rhubarb" THEN [pub EXCEPT !.update_nbr = @ + 1]
                                     ELSE [pub EXCEPT !.pc = "done"]
    BY <1>5 DEF Broadcast
  <2>3. /\ pub' \in [pc : {"sync", "update", "done"}, subscribers : Nat, update_nbr : Nat]
        /\ m = "Rhubarb" => pub'.pc = "update" /\ pub'.update_nbr = pub.update_nbr + 1
        /\ m = "END" => pub'.pc = "done" /\ pub'.update_nbr = pub.update_nbr
    BY <2>1, <2>2
  <2>4. pub.update_nbr =< Updates /\ pub'.update_nbr =< Updates
    BY <2>1, <2>2, <2>3, UpdatesAssumption DEF SyncInv
  <2>5. updates' \in [Subscribers -> Seq({"Rhubarb", "END"})]
    BY <2>2 DEF SyncInv, Publish
  <2>6. \A s \in ready : sub[s].pc = "updates" /\ s \in Subscribers /\ s \in joined
    BY <2>1 DEF SyncInv
  <2>7. ASSUME NEW s \in ready
        PROVE  Pending(updates'[s], LastSent') /\ sub[s].update_nbr + Len(updates'[s]) = AllSent'
    <3>1. updates'[s] = Append(updates[s], m)
      BY <2>2, <2>6 DEF Publish
    <3>2. /\ updates[s] \in Seq({"Rhubarb", "END"}) /\ sub[s].update_nbr \in Nat
      BY <2>6 DEF SyncInv
    <3>3. LastSent = "Rhubarb" /\ AllSent = pub.update_nbr
      BY <2>1 DEF LastSent, AllSent
    <3>4. Pending(updates[s], "Rhubarb") /\ sub[s].update_nbr + Len(updates[s]) = pub.update_nbr
      BY <2>6, <3>3 DEF SyncInv
    <3>5. Len(updates'[s]) = Len(updates[s]) + 1 /\ Pending(updates'[s], m)
      BY <3>1, <3>2, <3>4, PendingGrows
    <3>6. LastSent' = m /\ AllSent' = pub.update_nbr + 1
      BY <2>1, <2>3 DEF LastSent, AllSent
    <3>7. Len(updates[s]) \in Nat
      BY <3>2
    <3> QED
      BY <2>1, <3>2, <3>4, <3>5, <3>6, <3>7
  <2>8. pub'.pc = "done" => pub'.update_nbr = Updates
    BY <2>1, <2>2, <2>3, <2>4, UpdatesAssumption
  <2>9. pub'.pc # "sync"
    BY <2>3
  <2> QED
    BY <2>1, <2>3, <2>4, <2>5, <2>6, <2>7, <2>8, <2>9 DEF SyncInv
<1>6. ASSUME NEW s \in Subscribers, Update(s) PROVE SyncInv'
  <2> DEFINE q == updates[s]
             d == IF Head(q) = "END" THEN [sub[s] EXCEPT !.pc = "done"]
                                     ELSE [sub[s] EXCEPT !.update_nbr = @ + 1]
  <2>1. /\ sub[s].pc = "updates" /\ q # << >> /\ q \in Seq({"Rhubarb", "END"}) /\ sub[s] \in Subs
        /\ UNCHANGED <<pub, joined, requests, ready>>
    BY <1>6 DEF Update, SyncInv
  <2>2. /\ updates' = [updates EXCEPT ![s] = Tail(q)] /\ sub' = [sub EXCEPT ![s] = d]
    BY <1>6 DEF Update
  <2>3. /\ d \in Subs
        /\ Head(q) = "END" => d.pc = "done" /\ d.update_nbr = sub[s].update_nbr
        /\ Head(q) # "END" => d.pc = "updates" /\ d.update_nbr = sub[s].update_nbr + 1
    BY <2>1
  <2>4. Tail(q) \in Seq({"Rhubarb", "END"})
    BY <2>1
  <2> HIDE DEF d
  <2>5. /\ sub' \in [Subscribers -> Subs] /\ sub'[s] = d
        /\ \A t \in Subscribers \ {s} : sub'[t] = sub[t]
    BY <2>2, <2>3 DEF SyncInv
  <2>6. /\ updates' \in [Subscribers -> Seq({"Rhubarb", "END"})] /\ updates'[s] = Tail(q)
        /\ \A t \in Subscribers \ {s} : updates'[t] = updates[t]
    BY <2>2, <2>4 DEF SyncInv
  <2>7. pub.pc # "sync"
    BY <2>1 DEF SyncInv
  <2>8. \A t \in ready : t \in Subscribers
    BY DEF SyncInv
  <2>9. ASSUME s \in ready
        PROVE  /\ d.pc = "updates" \/ (d.pc = "done" /\ pub.pc = "done")
               /\ d.pc = "done" => d.update_nbr = Updates
               /\ d.pc = "updates" => /\ Pending(Tail(q), LastSent)
                                      /\ d.update_nbr + Len(Tail(q)) = AllSent
    <3>1. /\ Pending(q, LastSent) /\ sub[s].update_nbr + Len(q) = AllSent
          /\ pub.update_nbr \in Nat /\ (pub.pc = "done" => pub.update_nbr = Updates)
      BY <2>1, <2>9 DEF SyncInv
    <3>2. LastSent \in {"Rhubarb", "END"} /\ AllSent \in Nat /\ Len(q) \in Nat /\ sub[s].update_nbr \in Nat
      BY <2>1, <3>1 DEF LastSent, AllSent
    <3>3. /\ Len(Tail(q)) = Len(q) - 1
          /\ Head(q) = "END" => LastSent = "END" /\ Len(q) = 1
          /\ Head(q) # "END" => Pending(Tail(q), LastSent)
      BY <2>1, <3>1, <3>2, PendingShrinks
    <3>4. LastSent = "END" => pub.pc = "done" /\ AllSent = Updates + 1
      BY <3>1 DEF LastSent, AllSent
    <3>5. CASE Head(q) = "END"
      <4>1. d.pc = "done" /\ d.update_nbr = sub[s].update_nbr /\ pub.pc = "done"
        BY <2>3, <3>3, <3>4, <3>5
      <4>2. sub[s].update_nbr + 1 = Updates + 1
        BY <3>1, <3>3, <3>4, <3>5
      <4> QED
        BY <3>2, <4>1, <4>2, UpdatesAssumption
    <3>6. CASE Head(q) # "END"
      <4>1. d.pc = "updates" /\ d.update_nbr = sub[s].update_nbr + 1
        BY <2>3, <3>2, <3>6
      <4>2. d.update_nbr + Len(Tail(q)) = AllSent
        <5>1. sub[s].update_nbr + Len(q) = AllSent /\ Len(Tail(q)) = Len(q) - 1
          BY <3>1, <3>3
        <5> QED
          BY <3>2, <4>1, <5>1
      <4> QED
        BY <3>3, <3>6, <4>1, <4>2
    <3> QED
      BY <3>5, <3>6
  <2> HIDE DEF q
  <2>10. LastSent' = LastSent /\ AllSent' = AllSent
    BY <2>1 DEF LastSent, AllSent
  <2>11. ASSUME NEW t \in ready
         PROVE  /\ sub'[t].pc = "updates" \/ (sub'[t].pc = "done" /\ pub.pc = "done")
                /\ sub'[t].pc = "done" => sub'[t].update_nbr = Updates
                /\ sub'[t].pc = "updates" => /\ Pending(updates'[t], LastSent)
                                             /\ sub'[t].update_nbr + Len(updates'[t]) = AllSent
    <3>1. CASE t = s
      BY <2>5, <2>6, <2>9, <3>1
    <3>2. CASE t # s
      BY <2>5, <2>6, <2>8, <3>2 DEF SyncInv
    <3> QED
      BY <3>1, <3>2
  <2> QED
    BY <2>1, <2>5, <2>6, <2>7, <2>10, <2>11 DEF SyncInv
<1> QED
  BY <1>1, <1>2, <1>3, <1>4, <1>5, <1>6 DEF SyncNext, SyncPub, SyncSub

----------------------------------------------------------------------------
(* psenvpub.c and psenvsub.c: the frames the subscriber holds and those in *)
(* its pipe are whole messages B, address and contents by turns, except    *)
(* that the contents of the last may still be to come.                     *)

PsFrame(k) == IF k % 2 = 1 THEN <<"B">> ELSE <<"We", "B">>

PsFeeds ==
  [kind : {"psenv"}, linked : BOOLEAN, frames : {<< >>, <<<<"We", "A">>>>, <<<<"We", "B">>>>},
   next : {"A", "B"}, to : BOOLEAN, queue : Seq({<<"B">>, <<"We", "B">>}),
   held : {<< >>, <<<<"B">>>>}, got : {<< >>, <<<<"B">>, <<"We", "B">>>>}, count : Nat, total : {0}]

HeldNbr(f) == IF f.held = << >> THEN 0 ELSE 1
OpenNbr(f) == IF f.frames # << >> /\ f.to THEN 1 ELSE 0

Paired(f) ==
  /\ f \in PsFeeds
  /\ f.frames # << >> /\ f.to => f.frames = <<<<"We", "B">>>>
  /\ \A i \in 1 .. Len(f.queue) : f.queue[i] = PsFrame(i + HeldNbr(f))
  /\ (Len(f.queue) + HeldNbr(f)) % 2 = OpenNbr(f)

FeedInv == "kind" \in DOMAIN feed /\ (feed.kind = "psenv" => Paired(feed))

LEMMA InitFeedInv == FeedInit => FeedInv
<1> SUFFICES ASSUME FeedInit PROVE FeedInv
  OBVIOUS
<1>1. feed \in [kind : {"psenv", "wu"}, linked : {FALSE}, frames : {<<>>}, next : {"A"},
                to : {FALSE}, queue : {<<>>}, held : {<<>>}, got : {<<>>}, count : {0}, total : {0}]
  BY DEF FeedInit
<1>2. /\ "kind" \in DOMAIN feed /\ feed.frames = << >> /\ feed.to = FALSE
      /\ feed.queue = << >> /\ feed.held = << >>
  BY <1>1
<1>3. feed.kind = "psenv" => feed \in PsFeeds
  <2> DEFINE S == Seq({<<"B">>, <<"We", "B">>})
             F == {<< >>, <<<<"We", "A">>>>, <<<<"We", "B">>>>}
             H == {<< >>, <<<<"B">>>>}
             G == {<< >>, <<<<"B">>, <<"We", "B">>>>}
  <2>1. << >> \in S /\ << >> \in F /\ << >> \in H /\ << >> \in G
    OBVIOUS
  <2> HIDE DEF S, F, H, G
  <2>2. /\ feed = [kind |-> feed.kind, linked |-> feed.linked, frames |-> feed.frames,
                   next |-> feed.next, to |-> feed.to, queue |-> feed.queue, held |-> feed.held,
                   got |-> feed.got, count |-> feed.count, total |-> feed.total]
        /\ feed.linked \in BOOLEAN /\ feed.frames = << >> /\ feed.next = "A" /\ feed.to \in BOOLEAN
        /\ feed.queue = << >> /\ feed.held = << >> /\ feed.got = << >>
        /\ feed.count = 0 /\ feed.total = 0
    BY <1>1
  <2>3. feed.kind = "psenv" =>
          feed \in [kind : {"psenv"}, linked : BOOLEAN, frames : F, next : {"A", "B"}, to : BOOLEAN,
                    queue : S, held : H, got : G, count : Nat, total : {0}]
    BY <2>1, <2>2
  <2> QED
    BY <2>3 DEF PsFeeds, S, F, H, G
<1> QED
  BY <1>2, <1>3 DEF FeedInv, Paired, HeldNbr, OpenNbr

(* Only a message B matches the subscription "B".                          *)
LEMMA OnlyB ==
  ASSUME NEW f \in PsFeeds, NEW x \in {"A", "B"}, Matches(f, <<x>>) PROVE x = "B"
<1>1. StartsWith(<<"B">>, <<x>>)
  BY DEF Matches, PsFeeds
<1>2. SubSeq(<<x>>, 1, 1) = <<"B">>
  BY <1>1 DEF StartsWith
<1>3. SubSeq(<<x>>, 1, 1)[1] = x /\ <<"B">>[1] = "B"
  OBVIOUS
<1> QED
  BY <1>2, <1>3

LEMMA NextParity == ASSUME NEW m \in Nat PROVE (m + 1) % 2 = 1 - (m % 2)
OBVIOUS

LEMMA Pair == ASSUME NEW x, NEW y PROVE <<x>> \o <<y>> = <<x, y>>
<1> DEFINE s == <<x>> \o <<y>>
<1>1. <<x>> \in Seq({x, y}) /\ <<y>> \in Seq({x, y}) /\ <<x, y>> \in Seq({x, y})
  OBVIOUS
<1>2. s \in Seq({x, y}) /\ Len(s) = 2 /\ s[1] = x /\ s[2] = y
  BY <1>1
<1> HIDE DEF s
<1>3. s = <<x, y>>
  BY <1>1, <1>2
<1> QED
  BY <1>3 DEF s

(* A frame at the end of the pipe, and the first one taken from it.        *)
LEMMA FrameSent ==
  ASSUME NEW q \in Seq({<<"B">>, <<"We", "B">>}), NEW h \in {0, 1}, NEW n \in {0, 1},
         \A i \in 1 .. Len(q) : q[i] = PsFrame(i + h), (Len(q) + h) % 2 = n
  PROVE  LET a == Append(q, PsFrame(n + 1))
         IN  /\ a \in Seq({<<"B">>, <<"We", "B">>})
             /\ \A i \in 1 .. Len(a) : a[i] = PsFrame(i + h)
             /\ (Len(a) + h) % 2 = 1 - n
<1> DEFINE x == PsFrame(n + 1)
           a == Append(q, x)
<1>1. Len(q) \in Nat /\ x \in {<<"B">>, <<"We", "B">>}
  BY DEF PsFrame
<1>2. (Len(q) + 1 + h) % 2 = (n + 1) % 2 /\ (Len(q) + 1 + h) % 2 = 1 - n
  <2>1. Len(q) + h \in Nat /\ Len(q) + 1 + h = (Len(q) + h) + 1
    BY <1>1
  <2>2. (Len(q) + 1 + h) % 2 = 1 - n
    BY <2>1, NextParity
  <2>3. (n + 1) % 2 = 1 - n
    <3>1. CASE n = 0
      BY <3>1
    <3>2. CASE n = 1
      BY <3>2
    <3> QED
      BY <3>1, <3>2
  <2> QED
    BY <2>2, <2>3
<1>3. x = PsFrame(Len(q) + 1 + h)
  BY <1>2 DEF PsFrame
<1> HIDE DEF x
<1>4. /\ a \in Seq({<<"B">>, <<"We", "B">>}) /\ Len(a) = Len(q) + 1 /\ a[Len(q) + 1] = x
      /\ \A i \in 1 .. Len(q) : a[i] = q[i]
  BY <1>1
<1> HIDE DEF a
<1>5. \A i \in 1 .. Len(a) : a[i] = PsFrame(i + h)
  BY <1>1, <1>3, <1>4
<1> QED
  BY <1>1, <1>2, <1>4, <1>5 DEF a, x

LEMMA FrameTaken ==
  ASSUME NEW q \in Seq({<<"B">>, <<"We", "B">>}), NEW h \in {0, 1}, NEW n \in {0, 1},
         \A i \in 1 .. Len(q) : q[i] = PsFrame(i + h), (Len(q) + h) % 2 = n, q # << >>
  PROVE  /\ Tail(q) \in Seq({<<"B">>, <<"We", "B">>}) /\ Head(q) = PsFrame(1 + h)
         /\ \A i \in 1 .. Len(Tail(q)) : Tail(q)[i] = PsFrame(i + (1 - h))
         /\ (Len(Tail(q)) + (1 - h)) % 2 = n
<1> DEFINE r == Tail(q)
<1>1. /\ Len(q) \in Nat \ {0} /\ r \in Seq({<<"B">>, <<"We", "B">>}) /\ Len(r) = Len(q) - 1
      /\ \A i \in 1 .. Len(r) : r[i] = q[i + 1]
      /\ Head(q) = q[1]
  OBVIOUS
<1> HIDE DEF r
<1>2. Head(q) = PsFrame(1 + h)
  BY <1>1
<1>3. ASSUME NEW i \in 1 .. Len(r) PROVE r[i] = PsFrame(i + (1 - h))
  <2>1. r[i] = PsFrame(i + 1 + h) /\ i \in Nat
    BY <1>1
  <2>2. (i + 1 + h) % 2 = (i + (1 - h)) % 2
    BY <2>1
  <2> QED
    BY <2>1, <2>2 DEF PsFrame
<1>4. (Len(r) + (1 - h)) % 2 = n
  BY <1>1
<1> QED
  BY <1>1, <1>2, <1>3, <1>4 DEF r

LEMMA SendFramePaired ==
  ASSUME Paired(feed), feed.kind = "psenv", PsEnvPub
  PROVE  Paired(feed')
<1>1. /\ feed \in PsFeeds /\ feed.queue \in Seq({<<"B">>, <<"We", "B">>})
      /\ feed.next \in {"A", "B"} /\ feed.count \in Nat /\ feed.to \in BOOLEAN
      /\ HeldNbr(feed) \in {0, 1} /\ OpenNbr(feed) \in {0, 1}
      /\ \A i \in 1 .. Len(feed.queue) : feed.queue[i] = PsFrame(i + HeldNbr(feed))
      /\ (Len(feed.queue) + HeldNbr(feed)) % 2 = OpenNbr(feed)
  BY DEF Paired, PsFeeds, HeldNbr, OpenNbr
<1> DEFINE first == feed.frames = << >>
           frame == IF first THEN <<feed.next>> ELSE Head(feed.frames)
           to == IF first THEN feed.linked /\ Len(feed.queue) < Hwm /\ Matches(feed, frame) ELSE feed.to
           q == IF to THEN Append(feed.queue, frame) ELSE feed.queue
           frames == IF first THEN <<<<"We", feed.next>>>> ELSE << >>
           next == IF first THEN (IF feed.next = "A" THEN "B" ELSE "A") ELSE feed.next
           count == IF first THEN feed.count + 1 ELSE feed.count
<1>2. to \in BOOLEAN /\ frames \in {<< >>, <<<<"We", "A">>>>, <<<<"We", "B">>>>}
  BY <1>1 DEF PsFeeds, Matches, StartsWith
<1>3. to => frame = PsFrame(OpenNbr(feed) + 1)
  <2>1. CASE first /\ to
    <3>1. feed.next = "B"
      BY <1>1, <2>1, OnlyB
    <3>2. OpenNbr(feed) = 0
      BY <2>1 DEF OpenNbr
    <3> QED
      BY <2>1, <3>1, <3>2 DEF PsFrame
  <2>2. CASE ~first /\ to
    <3>1. feed.frames = <<<<"We", "B">>>> /\ OpenNbr(feed) = 1
      BY <2>2 DEF Paired, OpenNbr
    <3> QED
      BY <2>2, <3>1 DEF PsFrame
  <2> QED
    BY <2>1, <2>2
<1>4. frames # << >> /\ to => frames = <<<<"We", "B">>>>
  <2> SUFFICES ASSUME first, to PROVE feed.next = "B"
    OBVIOUS
  <2> QED
    BY <1>1, OnlyB
<1>5. /\ to => (IF frames # << >> /\ to THEN 1 ELSE 0) = 1 - OpenNbr(feed)
      /\ ~to => (IF frames # << >> /\ to THEN 1 ELSE 0) = OpenNbr(feed)
  BY DEF OpenNbr
<1>6. /\ q \in Seq({<<"B">>, <<"We", "B">>})
      /\ \A i \in 1 .. Len(q) : q[i] = PsFrame(i + HeldNbr(feed))
      /\ (Len(q) + HeldNbr(feed)) % 2 = IF frames # << >> /\ to THEN 1 ELSE 0
  <2>1. CASE to
    <3> DEFINE a == Append(feed.queue, PsFrame(OpenNbr(feed) + 1))
    <3>1. q = a
      BY <1>3, <2>1
    <3>2. /\ a \in Seq({<<"B">>, <<"We", "B">>})
          /\ \A i \in 1 .. Len(a) : a[i] = PsFrame(i + HeldNbr(feed))
          /\ (Len(a) + HeldNbr(feed)) % 2 = 1 - OpenNbr(feed)
      BY <1>1, FrameSent
    <3> HIDE DEF q, a, to, frames
    <3> QED
      BY <1>5, <2>1, <3>1, <3>2
  <2>2. CASE ~to
    BY <1>1, <1>5, <2>2
  <2> QED
    BY <2>1, <2>2
<1>7. next \in {"A", "B"} /\ count \in Nat
  BY <1>1
<1>8. feed' = [feed EXCEPT !.to = to, !.queue = q, !.frames = frames, !.count = count, !.next = next]
  BY <1>1, ZenonT(60) DEF PsEnvPub, SendFrame, PsFeeds
<1> HIDE DEF to, q, frames, next, count
<1>9. /\ feed' \in PsFeeds /\ feed'.to = to /\ feed'.queue = q /\ feed'.frames = frames
      /\ feed'.held = feed.held
  BY <1>1, <1>2, <1>6, <1>7, <1>8 DEF PsFeeds
<1> QED
  BY <1>4, <1>6, <1>9 DEF Paired, HeldNbr, OpenNbr

LEMMA RecvFramePaired ==
  ASSUME Paired(feed), feed.kind = "psenv", PsEnvSub
  PROVE  Paired(feed')
<1>1. /\ feed \in PsFeeds /\ feed.queue \in Seq({<<"B">>, <<"We", "B">>}) /\ feed.queue # << >>
      /\ HeldNbr(feed) \in {0, 1} /\ OpenNbr(feed) \in {0, 1}
      /\ \A i \in 1 .. Len(feed.queue) : feed.queue[i] = PsFrame(i + HeldNbr(feed))
      /\ (Len(feed.queue) + HeldNbr(feed)) % 2 = OpenNbr(feed)
  BY DEF Paired, PsFeeds, HeldNbr, OpenNbr, PsEnvSub
<1> DEFINE q == Tail(feed.queue)
           held == IF feed.held = << >> THEN <<Head(feed.queue)>> ELSE << >>
           got == IF feed.held = << >> THEN << >> ELSE feed.held \o <<Head(feed.queue)>>
<1>2. /\ q \in Seq({<<"B">>, <<"We", "B">>}) /\ Head(feed.queue) = PsFrame(1 + HeldNbr(feed))
      /\ \A i \in 1 .. Len(q) : q[i] = PsFrame(i + (1 - HeldNbr(feed)))
      /\ (Len(q) + (1 - HeldNbr(feed))) % 2 = OpenNbr(feed)
  BY <1>1, FrameTaken
<1>3. feed' = [feed EXCEPT !.queue = q, !.held = held, !.got = got]
  BY <1>1 DEF PsEnvSub, PsFeeds
<1>4. CASE feed.held = << >>
  <2>1. held = <<<<"B">>>> /\ got = << >> /\ HeldNbr(feed) = 0
    BY <1>2, <1>4 DEF HeldNbr, PsFrame
  <2> HIDE DEF q, held, got
  <2>2. /\ feed' \in PsFeeds /\ feed'.queue = q /\ feed'.held = <<<<"B">>>>
        /\ feed'.frames = feed.frames /\ feed'.to = feed.to
    BY <1>1, <1>2, <1>3, <2>1 DEF PsFeeds
  <2>3. HeldNbr(feed') = 1 /\ OpenNbr(feed') = OpenNbr(feed)
    BY <2>2 DEF HeldNbr, OpenNbr
  <2> QED
    BY <1>2, <2>1, <2>2, <2>3 DEF Paired
<1>5. CASE feed.held # << >>
  <2>1. /\ feed.held = <<<<"B">>>> /\ HeldNbr(feed) = 1 /\ Head(feed.queue) = <<"We", "B">>
    BY <1>1, <1>2, <1>5 DEF HeldNbr, PsFrame, PsFeeds
  <2>2. held = << >> /\ got = <<<<"B">>, <<"We", "B">>>>
    BY <1>5, <2>1, Pair
  <2> HIDE DEF q, held, got
  <2>3. /\ feed' \in PsFeeds /\ feed'.queue = q /\ feed'.held = << >>
        /\ feed'.frames = feed.frames /\ feed'.to = feed.to
    BY <1>1, <1>2, <1>3, <2>2 DEF PsFeeds
  <2>4. HeldNbr(feed') = 0 /\ OpenNbr(feed') = OpenNbr(feed)
    BY <2>3 DEF HeldNbr, OpenNbr
  <2> QED
    BY <1>2, <2>1, <2>3, <2>4 DEF Paired
<1> QED
  BY <1>4, <1>5

LEMMA NextFeedInv == FeedInv /\ [FeedNext]_feedVars => FeedInv'
<1> SUFFICES ASSUME FeedInv, [FeedNext]_feedVars PROVE FeedInv'
  OBVIOUS
<1>1. CASE UNCHANGED feedVars
  BY <1>1 DEF feedVars, FeedInv
<1>2. CASE FeedLinks
  <2>1. feed' = [feed EXCEPT !.linked = TRUE] /\ "kind" \in DOMAIN feed
    BY <1>2 DEF FeedLinks, FeedInv
  <2>2. "kind" \in DOMAIN feed' /\ feed'.kind = feed.kind
    BY <2>1
  <2>3. ASSUME feed.kind = "psenv" PROVE Paired(feed')
    <3>1. feed \in PsFeeds
      BY <2>3 DEF FeedInv, Paired
    <3>2. /\ feed' \in PsFeeds /\ feed'.queue = feed.queue /\ feed'.held = feed.held
          /\ feed'.frames = feed.frames /\ feed'.to = feed.to
      BY <2>1, <3>1 DEF PsFeeds
    <3> QED
      BY <2>3, <3>2 DEF FeedInv, Paired, HeldNbr, OpenNbr
  <2> QED
    BY <2>2, <2>3 DEF FeedInv
<1>3. CASE PsEnvPub \/ PsEnvSub
  <2>1. feed.kind = "psenv" /\ Paired(feed)
    BY <1>3 DEF PsEnvPub, PsEnvSub, FeedInv
  <2>2. Paired(feed')
    BY <1>3, <2>1, SendFramePaired, RecvFramePaired
  <2> QED
    BY <2>2 DEF FeedInv, Paired, PsFeeds
<1>4. CASE WuServer \/ WuClient
  <2>1. feed.kind = "wu" /\ "kind" \in DOMAIN feed
    BY <1>4 DEF WuServer, WuClient, FeedInv
  <2>2. "kind" \in DOMAIN feed' /\ feed'.kind = feed.kind
    BY <1>4, <2>1 DEF WuServer, WuClient, SendFrame
  <2> QED
    BY <2>1, <2>2 DEF FeedInv
<1> QED
  BY <1>1, <1>2, <1>3, <1>4 DEF FeedNext

----------------------------------------------------------------------------
(* Requests and replies.  A request is followed through the pipes, the     *)
(* servers and the broker: at is the spot of each client's request, and    *)
(* every pipe holds the requests whose spot it is, once each.              *)

Asked(c, n) == <<Empty, Hello(c, n)>>
Answered(c, n) == <<Empty, World(Hello(c, n))>>
Request1(c, n) == <<Id(c), Empty, Hello(c, n)>>
Reply1(c, n) == <<Id(c), Empty, World(Hello(c, n))>>

Frames == {Empty} \cup {Id(c) : c \in Clients} \cup {Hello(c, n) : c \in Clients, n \in Nat}
            \cup {World(Hello(c, n)) : c \in Clients, n \in Nat}
Mail == {Asked(c, n) : c \in Clients, n \in Nat} \cup {Answered(c, n) : c \in Clients, n \in Nat}
          \cup {Request1(c, n) : c \in Clients, n \in Nat} \cup {Reply1(c, n) : c \in Clients, n \in Nat}

Spots == ({"none", "front", "reply", "broker"} \X {0}) \cup ({"to", "work", "back"} \X Workers)
At(at, tag, w) == {c \in Clients : at[c] = <<tag, w>>}

\* The messages of q are those that F gives the clients of C.
Holding(q, C, F) ==
  /\ q \in Seq(Mail)
  /\ \A i \in 1 .. Len(q) : \E c \in C : q[i] = F[c]
  /\ \A c \in C : \E i \in 1 .. Len(q) : q[i] = F[c]
  /\ \A i, j \in 1 .. Len(q) : i # j => q[i] # q[j]

Reqs == [c \in Clients |-> Request1(c, client[c].nbr)]
Reps == [c \in Clients |-> Reply1(c, client[c].nbr)]

RrTypes ==
  /\ client \in [Clients -> [pc : {"send", "recv", "done", "ended"}, nbr : Nat]]
  /\ worker \in [Workers -> [pc : {"recv", "send", "ended"}, msg : Mail \cup {<< >>}]]
  /\ pipe \in [front : [Clients -> Seq(Mail)], to : [Workers -> Seq(Mail)],
               back : [Workers -> Seq(Mail)], reply : [Clients -> Seq(Mail)]]
  /\ broker \in [at : {"poll", "front", "back", "ended"}, revents : SUBSET {"front", "back"},
                 rest : Seq(Frames), out : Seq(Frames)]
  /\ signals \in Nat
  /\ via # "rrbroker" => broker.rest = << >>

OneClient(at, c) ==
  /\ pipe.front[c] = IF at[c] = <<"front", 0>> THEN <<Asked(c, client[c].nbr)>> ELSE << >>
  /\ pipe.reply[c] = IF at[c] = <<"reply", 0>> THEN <<Answered(c, client[c].nbr)>> ELSE << >>
  /\ client[c].pc \in {"send", "done"} => at[c] = <<"none", 0>>
  /\ client[c].pc = "recv" /\ signals = 0 => at[c] # <<"none", 0>>
  /\ at[c] = <<"reply", 0>> => client[c].pc = "recv"

OneWorker(at, w) ==
  /\ Holding(pipe.to[w], At(at, "to", w), Reqs)
  /\ Holding(pipe.back[w], At(at, "back", w), Reps)
  /\ worker[w].pc = "send" <=> worker[w].msg # << >>
  /\ Holding(IF worker[w].pc = "send" THEN <<worker[w].msg>> ELSE << >>, At(at, "work", w), Reqs)

\* The frames of m before and after the loop has copied one or two of them.
HalfCopied(m) == \/ broker.out = <<m[1]>> /\ broker.rest = <<m[2], m[3]>>
                 \/ broker.out = <<m[1], m[2]>> /\ broker.rest = <<m[3]>>

AtBroker(at) ==
  /\ broker.rest = << >> => broker.out = << >> /\ At(at, "broker", 0) = {}
  /\ broker.rest # << >> => \E c \in Clients :
       /\ At(at, "broker", 0) = {c}
       /\ \/ broker.at = "front" /\ HalfCopied(Reqs[c])
          \/ broker.at = "back" /\ HalfCopied(Reps[c])

Located(at) ==
  /\ \A c \in Clients : OneClient(at, c)
  /\ \A w \in Workers : OneWorker(at, w)
  /\ AtBroker(at)

RrInv == RrTypes /\ \E at \in [Clients -> Spots] : Located(at)

(* The frames and the messages are told apart.                             *)
LEMMA FrameFacts ==
  ASSUME NEW c \in Clients, NEW d \in Clients, NEW n \in Nat, NEW k \in Nat
  PROVE  /\ Id(c) = Id(d) => c = d
         /\ Hello(c, n) = Hello(d, k) => c = d
         /\ Id(c) # Empty /\ Hello(c, n) # Empty /\ World(Hello(c, n)) # Empty
         /\ Id(c) # Hello(d, k) /\ Id(c) # World(Hello(d, k)) /\ Hello(c, n) # World(Hello(d, k))
         /\ Id(c)[2] = c
BY DEF Id, Hello, World, Empty

LEMMA MessageFacts ==
  ASSUME NEW c \in Clients, NEW n \in Nat
  PROVE  /\ Asked(c, n) \in Mail /\ Answered(c, n) \in Mail
         /\ Request1(c, n) \in Mail /\ Reply1(c, n) \in Mail
         /\ Len(Request1(c, n)) = 3 /\ Len(Reply1(c, n)) = 3
         /\ Request1(c, n)[1] = Id(c) /\ Request1(c, n)[2] = Empty /\ Request1(c, n)[3] = Hello(c, n)
         /\ Reply1(c, n)[1] = Id(c) /\ Reply1(c, n)[2] = Empty /\ Reply1(c, n)[3] = World(Hello(c, n))
         /\ Request1(c, n) # << >>
BY DEF Mail, Asked, Answered, Request1, Reply1

LEMMA OneOfEach ==
  ASSUME NEW c \in Clients, NEW d \in Clients, NEW n \in Nat, NEW k \in Nat
  PROVE  /\ Request1(c, n) = Request1(d, k) => c = d
         /\ Reply1(c, n) = Reply1(d, k) => c = d
<1>1. Request1(c, n)[1] = Id(c) /\ Request1(d, k)[1] = Id(d) /\ Reply1(c, n)[1] = Id(c) /\ Reply1(d, k)[1] = Id(d)
  BY MessageFacts
<1> QED
  BY <1>1, FrameFacts

(* The ROUTER puts the sender in front, and takes it off again.            *)
LEMMA Addressed ==
  ASSUME NEW c \in Clients, NEW n \in Nat
  PROVE  <<Id(c)>> \o Asked(c, n) = Request1(c, n) /\ Tail(Reply1(c, n)) = Answered(c, n)
<1>1. ASSUME NEW x, NEW y, NEW z PROVE <<x>> \o <<y, z>> = <<x, y, z>> /\ Tail(<<x, y, z>>) = <<y, z>>
  <2> DEFINE s == <<x>> \o <<y, z>>
             S == {x, y, z}
  <2>1. <<x>> \in Seq(S) /\ <<y, z>> \in Seq(S) /\ <<x, y, z>> \in Seq(S)
    OBVIOUS
  <2>2. s \in Seq(S) /\ Len(s) = 3 /\ s[1] = x /\ s[2] = y /\ s[3] = z
    BY <2>1
  <2> HIDE DEF s
  <2>3. s = <<x, y, z>>
    BY <2>1, <2>2
  <2>4. Tail(<<x, y, z>>) = <<y, z>>
    BY <2>1
  <2> QED
    BY <2>3, <2>4 DEF s
<1> QED
  BY <1>1 DEF Asked, Request1, Answered, Reply1

(* The REP socket keeps the envelope of a request and puts it in front of  *)
(* its answer.                                                             *)
LEMMA ReplyFacts ==
  ASSUME NEW w \in Workers, NEW c \in Clients, NEW n \in Nat, worker[w].msg = Request1(c, n)
  PROVE  Reply(w) = Reply1(c, n)
<1> DEFINE m == Request1(c, n)
<1>1. Len(m) = 3 /\ m[1] = Id(c) /\ m[2] = Empty /\ m[3] = Hello(c, n)
  BY MessageFacts
<1>2. m[1] # Empty /\ m[3] # Empty
  BY <1>1, FrameFacts
<1>3. Envelope(m) = 2
  <2>1. 2 \in 1 .. Len(m) /\ m[2] = Empty /\ \A j \in 1 .. 2 - 1 : m[j] # Empty
    BY <1>1, <1>2
  <2>2. \A i \in 1 .. Len(m) : m[i] = Empty /\ (\A j \in 1 .. i - 1 : m[j] # Empty) => i = 2
    BY <1>1, <1>2
  <2> HIDE DEF m
  <2> QED
    BY <2>1, <2>2 DEF Envelope
<1>4. SubSeq(m, 1, 2) = <<Id(c), Empty>>
  <2> DEFINE s == SubSeq(m, 1, 2)
  <2>1. m \in Seq(Frames) /\ <<Id(c), Empty>> \in Seq(Frames)
    BY DEF Request1, Frames
  <2> HIDE DEF m
  <2>2. s \in Seq(Frames) /\ Len(s) = 2 /\ s[1] = m[1] /\ s[2] = m[2]
    BY <1>1, <2>1
  <2> HIDE DEF s
  <2>3. s = <<Id(c), Empty>>
    BY <1>1, <2>1, <2>2
  <2> QED
    BY <2>3 DEF s
<1>5. Reply(w) = SubSeq(m, 1, 2) \o <<World(m[2 + 1])>>
  BY <1>3 DEF Reply
<1>6. Reply(w) = <<Id(c), Empty>> \o <<World(Hello(c, n))>>
  BY <1>1, <1>4, <1>5
<1>7. ASSUME NEW x, NEW y, NEW z PROVE <<x, y>> \o <<z>> = <<x, y, z>>
  <2> DEFINE s == <<x, y>> \o <<z>>
             S == {x, y, z}
  <2>1. <<x, y>> \in Seq(S) /\ <<z>> \in Seq(S) /\ <<x, y, z>> \in Seq(S)
    OBVIOUS
  <2>2. s \in Seq(S) /\ Len(s) = 3 /\ s[1] = x /\ s[2] = y /\ s[3] = z
    BY <2>1
  <2> HIDE DEF s
  <2>3. s = <<x, y, z>>
    BY <2>1, <2>2
  <2> QED
    BY <2>3 DEF s
<1> QED
  BY <1>6, <1>7 DEF Reply1

LEMMA RequestWellFormed ==
  ASSUME NEW c \in Clients, NEW n \in Nat PROVE WellFormed(Request1(c, n))
<1>1. Len(Request1(c, n)) = 3 /\ Request1(c, n)[2] = Empty
  BY MessageFacts
<1> QED
  BY <1>1 DEF WellFormed

(* A pipe that holds the messages of a set of clients.                     *)
LEMMA HoldingNone ==
  ASSUME NEW C, NEW F PROVE Holding(<< >>, C, F) <=> C = {}
<1>1. << >> \in Seq(Mail) /\ Len(<< >>) = 0
  OBVIOUS
<1> QED
  BY <1>1 DEF Holding

LEMMA HoldingMore ==
  ASSUME NEW C \in SUBSET Clients, NEW F, NEW q, Holding(q, C, F), NEW c \in Clients \ C,
         F[c] \in Mail, \A d \in C : F[d] # F[c]
  PROVE  Holding(Append(q, F[c]), C \cup {c}, F)
<1> DEFINE a == Append(q, F[c])
<1>1. q \in Seq(Mail) /\ Len(q) \in Nat
  BY DEF Holding
<1>2. /\ a \in Seq(Mail) /\ Len(a) = Len(q) + 1 /\ a[Len(q) + 1] = F[c]
      /\ \A i \in 1 .. Len(q) : a[i] = q[i]
  BY <1>1
<1> HIDE DEF a
<1>3. \A i \in 1 .. Len(a) : i \in 1 .. Len(q) \/ i = Len(q) + 1
  BY <1>1, <1>2
<1>4. \A i \in 1 .. Len(q) : q[i] # F[c]
  BY DEF Holding
<1>5. \A i \in 1 .. Len(a) : \E d \in C \cup {c} : a[i] = F[d]
  BY <1>2, <1>3 DEF Holding
<1>6. \A d \in C \cup {c} : \E i \in 1 .. Len(a) : a[i] = F[d]
  <2>1. ASSUME NEW d \in C PROVE \E i \in 1 .. Len(a) : a[i] = F[d]
    <3>1. PICK i \in 1 .. Len(q) : q[i] = F[d]
      BY DEF Holding
    <3> QED
      BY <1>1, <1>2, <3>1
  <2>2. \E i \in 1 .. Len(a) : a[i] = F[c]
    BY <1>1, <1>2
  <2> QED
    BY <2>1, <2>2
<1>7. \A i, j \in 1 .. Len(a) : i # j => a[i] # a[j]
  BY <1>2, <1>3, <1>4 DEF Holding
<1> QED
  BY <1>2, <1>5, <1>6, <1>7 DEF Holding, a

LEMMA HoldingLess ==
  ASSUME NEW C, NEW F, NEW q, Holding(q, C, F), q # << >>,
         \A c, d \in C : F[c] = F[d] => c = d
  PROVE  \E c \in C : Head(q) = F[c] /\ Holding(Tail(q), C \ {c}, F)
<1> DEFINE r == Tail(q)
<1>1. q \in Seq(Mail) /\ Len(q) \in Nat \ {0}
  BY DEF Holding
<1>2. /\ r \in Seq(Mail) /\ Len(r) = Len(q) - 1 /\ Head(q) = q[1]
      /\ \A i \in 1 .. Len(r) : r[i] = q[i + 1]
  BY <1>1
<1> HIDE DEF r
<1>3. PICK c \in C : q[1] = F[c]
  BY <1>1 DEF Holding
<1>4. \A i \in 1 .. Len(r) : i + 1 \in 1 .. Len(q) /\ i + 1 # 1
  BY <1>1, <1>2
<1>5. ASSUME NEW i \in 1 .. Len(r) PROVE \E d \in C \ {c} : r[i] = F[d]
  <2>1. PICK d \in C : q[i + 1] = F[d]
    BY <1>4 DEF Holding
  <2>2. q[i + 1] # q[1]
    BY <1>1, <1>4 DEF Holding
  <2> QED
    BY <1>2, <1>3, <2>1, <2>2
<1>6. ASSUME NEW d \in C \ {c} PROVE \E i \in 1 .. Len(r) : r[i] = F[d]
  <2>1. PICK i \in 1 .. Len(q) : q[i] = F[d]
    BY DEF Holding
  <2>2. i # 1
    BY <1>3, <2>1
  <2>3. i - 1 \in 1 .. Len(r) /\ r[i - 1] = q[i]
    BY <1>1, <1>2, <2>2
  <2> QED
    BY <2>1, <2>3
<1>7. ASSUME NEW i \in 1 .. Len(r), NEW j \in 1 .. Len(r), i # j PROVE r[i] # r[j]
  <2>1. i + 1 # j + 1
    BY <1>2, <1>7
  <2>2. i + 1 \in 1 .. Len(q) /\ j + 1 \in 1 .. Len(q)
    BY <1>4
  <2>3. q[i + 1] # q[j + 1]
    BY <2>1, <2>2 DEF Holding
  <2>4. r[i] = q[i + 1] /\ r[j] = q[j + 1]
    BY <1>2
  <2> QED
    BY <2>3, <2>4
<1> QED
  BY <1>2, <1>3, <1>5, <1>6, <1>7 DEF Holding, r

LEMMA HoldingSame ==
  ASSUME NEW C, NEW F, NEW G, NEW q, Holding(q, C, F), \A c \in C : F[c] = G[c]
  PROVE  Holding(q, C, G)
BY DEF Holding

LEMMA ReqFacts ==
  ASSUME RrTypes
  PROVE  /\ \A c \in Clients : /\ Reqs[c] = Request1(c, client[c].nbr) /\ Reqs[c] \in Mail
                               /\ Reps[c] = Reply1(c, client[c].nbr) /\ Reps[c] \in Mail
                               /\ client[c].nbr \in Nat
         /\ \A c, d \in Clients : Reqs[c] = Reqs[d] => c = d
         /\ \A c, d \in Clients : Reps[c] = Reps[d] => c = d
<1>1. \A c \in Clients : client[c].nbr \in Nat
  BY DEF RrTypes
<1>2. \A c \in Clients : Reqs[c] = Request1(c, client[c].nbr) /\ Reps[c] = Reply1(c, client[c].nbr)
  BY DEF Reqs, Reps
<1> QED
  BY <1>1, <1>2, MessageFacts, OneOfEach

(* What a change of the spot of one client does to the sets.               *)
LEMMA AtMoves ==
  ASSUME NEW at \in [Clients -> Spots], NEW c \in Clients, NEW s \in Spots, NEW tag, NEW v
  PROVE  LET at2 == [at EXCEPT ![c] = s] IN
         /\ at2 \in [Clients -> Spots] /\ at2[c] = s
         /\ \A d \in Clients : d # c => at2[d] = at[d]
         /\ s = <<tag, v>> => At(at2, tag, v) = At(at, tag, v) \cup {c}
         /\ s # <<tag, v>> => At(at2, tag, v) = At(at, tag, v) \ {c}
         /\ at[c] = <<tag, v>> <=> c \in At(at, tag, v)
         /\ At(at, tag, v) \in SUBSET Clients
BY DEF At

LEMMA SpotFacts ==
  /\ \A t \in {"none", "front", "reply", "broker"} : <<t, 0>> \in Spots
  /\ \A t \in {"to", "work", "back"}, w \in Workers : <<t, w>> \in Spots
BY DEF Spots

(* The parts of the invariant that a step does not touch.                  *)
LEMMA ClientSame ==
  ASSUME NEW at, NEW at2, NEW d \in Clients, OneClient(at, d), at2[d] = at[d],
         client'[d] = client[d], pipe'.front[d] = pipe.front[d], pipe'.reply[d] = pipe.reply[d],
         signals' = 0 => signals = 0
  PROVE  OneClient(at2, d)'
BY DEF OneClient, Asked, Answered

LEMMA ReqsSame ==
  ASSUME NEW d \in Clients, client'[d].nbr = client[d].nbr
  PROVE  Reqs'[d] = Reqs[d] /\ Reps'[d] = Reps[d]
BY DEF Reqs, Reps, Request1, Reply1

LEMMA WorkerStep ==
  ASSUME NEW at2, NEW w \in Workers,
         \A c \in Clients : at2[c] # <<"none", 0>> => client'[c].nbr = client[c].nbr,
         Holding(pipe'.to[w], At(at2, "to", w), Reqs),
         Holding(pipe'.back[w], At(at2, "back", w), Reps),
         worker'[w].pc = "send" <=> worker'[w].msg # << >>,
         Holding(IF worker'[w].pc = "send" THEN <<worker'[w].msg>> ELSE << >>, At(at2, "work", w), Reqs)
  PROVE  OneWorker(at2, w)'
<1>1. ASSUME NEW tag \in {"to", "work", "back"}, NEW c \in At(at2, tag, w)
      PROVE  Reqs[c] = Reqs'[c] /\ Reps[c] = Reps'[c]
  <2>1. c \in Clients /\ at2[c] # <<"none", 0>>
    BY DEF At
  <2> QED
    BY <2>1, ReqsSame
<1>2. Holding(pipe'.to[w], At(at2, "to", w), Reqs')
  BY <1>1, HoldingSame
<1>3. Holding(pipe'.back[w], At(at2, "back", w), Reps')
  BY <1>1, HoldingSame
<1>4. Holding(IF worker'[w].pc = "send" THEN <<worker'[w].msg>> ELSE << >>, At(at2, "work", w), Reqs')
  BY <1>1, HoldingSame
<1> QED
  BY <1>2, <1>3, <1>4 DEF OneWorker, Holding, At

LEMMA WorkerSame ==
  ASSUME NEW at, NEW at2, NEW w \in Workers, OneWorker(at, w),
         pipe'.to[w] = pipe.to[w], pipe'.back[w] = pipe.back[w], worker'[w] = worker[w],
         \A tag \in {"to", "work", "back"} : At(at2, tag, w) = At(at, tag, w),
         \A c \in Clients : at2[c] # <<"none", 0>> => client'[c].nbr = client[c].nbr
  PROVE  OneWorker(at2, w)'
<1>1. At(at2, "to", w) = At(at, "to", w) /\ At(at2, "work", w) = At(at, "work", w) /\ At(at2, "back", w) = At(at, "back", w)
  OBVIOUS
<1>2. /\ Holding(pipe'.to[w], At(at2, "to", w), Reqs)
      /\ Holding(pipe'.back[w], At(at2, "back", w), Reps)
      /\ worker'[w].pc = "send" <=> worker'[w].msg # << >>
      /\ Holding(IF worker'[w].pc = "send" THEN <<worker'[w].msg>> ELSE << >>, At(at2, "work", w), Reqs)
  BY <1>1 DEF OneWorker
<1> QED
  BY <1>2, WorkerStep

LEMMA BrokerSame ==
  ASSUME RrTypes, NEW at \in [Clients -> Spots], NEW at2 \in [Clients -> Spots], AtBroker(at),
         broker'.rest = broker.rest, broker'.out = broker.out, broker'.rest # << >> => broker'.at = broker.at,
         At(at2, "broker", 0) = At(at, "broker", 0),
         \A c \in Clients : at2[c] # <<"none", 0>> => client'[c].nbr = client[c].nbr
  PROVE  AtBroker(at2)'
<1>1. CASE broker.rest = << >>
  BY <1>1 DEF AtBroker, At
<1>2. CASE broker.rest # << >>
  <2>1. PICK c \in Clients : /\ At(at, "broker", 0) = {c}
                             /\ \/ broker.at = "front" /\ HalfCopied(Reqs[c])
                                \/ broker.at = "back" /\ HalfCopied(Reps[c])
    BY <1>2 DEF AtBroker
  <2>2. at2[c] # <<"none", 0>> /\ At(at2, "broker", 0)' = {c}
    BY <2>1 DEF At
  <2>3. Reqs'[c] = Reqs[c] /\ Reps'[c] = Reps[c]
    BY <2>2, ReqsSame
  <2>4. \/ broker'.at = "front" /\ HalfCopied(Reqs[c])'
        \/ broker'.at = "back" /\ HalfCopied(Reps[c])'
    BY <1>2, <2>1, <2>3 DEF HalfCopied
  <2> QED
    BY <1>2, <2>2, <2>4 DEF AtBroker
<1> QED
  BY <1>1, <1>2

(* What the one message of a client's pipe is.                             *)
LEMMA FrontMessage ==
  ASSUME RrTypes, NEW at, NEW c \in Clients, OneClient(at, c), pipe.front[c] # << >>
  PROVE  /\ at[c] = <<"front", 0>> /\ Tail(pipe.front[c]) = << >>
         /\ <<Id(c)>> \o Head(pipe.front[c]) = Reqs[c]
<1>1. at[c] = <<"front", 0>> /\ pipe.front[c] = <<Asked(c, client[c].nbr)>>
  BY DEF OneClient
<1>2. client[c].nbr \in Nat /\ Reqs[c] = Request1(c, client[c].nbr)
  BY ReqFacts
<1>3. \A x : Head(<<x>>) = x /\ Tail(<<x>>) = << >>
  OBVIOUS
<1> QED
  BY <1>1, <1>2, <1>3, Addressed

LEMMA ReplyMessage ==
  ASSUME NEW at, NEW c \in Clients, OneClient(at, c), pipe.reply[c] # << >>
  PROVE  at[c] = <<"reply", 0>> /\ Tail(pipe.reply[c]) = << >>
<1>1. at[c] = <<"reply", 0>> /\ pipe.reply[c] = <<Answered(c, client[c].nbr)>>
  BY DEF OneClient
<1>2. \A x : Tail(<<x>>) = << >>
  OBVIOUS
<1> QED
  BY <1>1, <1>2

LEMMA RouterSends ==
  ASSUME RrTypes, NEW c \in Clients, NEW p
  PROVE  RouterSend(p, Reps[c]) =
           IF client[c].pc = "recv"
             THEN [p EXCEPT !.reply[c] = Append(@, Answered(c, client[c].nbr))] ELSE p
<1>1. /\ Reps[c] = Reply1(c, client[c].nbr) /\ client[c].nbr \in Nat
  BY ReqFacts
<1>2. Reps[c][1] = Id(c)
  BY <1>1, MessageFacts
<1>3. Tail(Reps[c]) = Answered(c, client[c].nbr)
  BY <1>1, Addressed
<1>4. Id(c)[2] = c
  BY DEF Id
<1> QED
  BY <1>2, <1>3, <1>4 DEF RouterSend

PipeType == [front : [Clients -> Seq(Mail)], to : [Workers -> Seq(Mail)],
             back : [Workers -> Seq(Mail)], reply : [Clients -> Seq(Mail)]]

(* The message of a client's pipes after a step.                           *)
LEMMA ClientGains ==
  ASSUME RrTypes, NEW at, NEW c \in Clients, OneClient(at, c), NEW n,
         at[c] \notin {<<"front", 0>>, <<"reply", 0>>}
  PROVE  pipe.front[c] = << >> /\ pipe.reply[c] = << >> /\ Append(pipe.reply[c], n) = <<n>>
           /\ Append(pipe.front[c], n) = <<n>>
<1>1. pipe.front[c] = << >> /\ pipe.reply[c] = << >>
  BY DEF OneClient
<1>2. Append(<< >>, n) = <<n>>
  <2>1. << >> \in Seq({n}) /\ <<n>> \in Seq({n})
    OBVIOUS
  <2> QED
    BY <2>1
<1> QED
  BY <1>1, <1>2

(* The pipes after one of them has changed.                                *)
SetFront(p, c, q) == [p EXCEPT !.front[c] = q]
SetReply(p, c, q) == [p EXCEPT !.reply[c] = q]
SetTo(p, w, q) == [p EXCEPT !.to[w] = q]
SetBack(p, w, q) == [p EXCEPT !.back[w] = q]

LEMMA FrontPipe ==
  ASSUME NEW p \in PipeType, NEW c \in Clients, NEW q \in Seq(Mail)
  PROVE  LET r == SetFront(p, c, q) IN
         /\ r \in PipeType /\ r.to = p.to /\ r.back = p.back /\ r.reply = p.reply
         /\ r.front[c] = q /\ \A d \in Clients : d # c => r.front[d] = p.front[d]
BY DEF PipeType, SetFront, SetReply, SetTo, SetBack

LEMMA ReplyPipe ==
  ASSUME NEW p \in PipeType, NEW c \in Clients, NEW q \in Seq(Mail)
  PROVE  LET r == SetReply(p, c, q) IN
         /\ r \in PipeType /\ r.to = p.to /\ r.back = p.back /\ r.front = p.front
         /\ r.reply[c] = q /\ \A d \in Clients : d # c => r.reply[d] = p.reply[d]
BY DEF PipeType, SetFront, SetReply, SetTo, SetBack

LEMMA ToPipe ==
  ASSUME NEW p \in PipeType, NEW w \in Workers, NEW q \in Seq(Mail)
  PROVE  LET r == SetTo(p, w, q) IN
         /\ r \in PipeType /\ r.front = p.front /\ r.back = p.back /\ r.reply = p.reply
         /\ r.to[w] = q /\ \A v \in Workers : v # w => r.to[v] = p.to[v]
BY DEF PipeType, SetFront, SetReply, SetTo, SetBack

LEMMA BackPipe ==
  ASSUME NEW p \in PipeType, NEW w \in Workers, NEW q \in Seq(Mail)
  PROVE  LET r == SetBack(p, w, q) IN
         /\ r \in PipeType /\ r.front = p.front /\ r.to = p.to /\ r.reply = p.reply
         /\ r.back[w] = q /\ \A v \in Workers : v # w => r.back[v] = p.back[v]
BY DEF PipeType, SetFront, SetReply, SetTo, SetBack

LEMMA AtSame ==
  ASSUME NEW at, NEW at2, NEW c \in Clients, \A d \in Clients : d # c => at2[d] = at[d],
         NEW tag, NEW v, at[c] # <<tag, v>>, at2[c] # <<tag, v>>
  PROVE  At(at2, tag, v) = At(at, tag, v)
BY DEF At

(* A client's move among its own two pipes concerns no server.             *)
LEMMA AtClient ==
  ASSUME NEW at, NEW at2, NEW c \in Clients, \A d \in Clients : d # c => at2[d] = at[d],
         at[c] \in {<<"none", 0>>, <<"front", 0>>, <<"reply", 0>>},
         at2[c] \in {<<"none", 0>>, <<"front", 0>>, <<"reply", 0>>}
  PROVE  /\ \A w \in Workers : \A tag \in {"to", "work", "back"} : At(at2, tag, w) = At(at, tag, w)
         /\ At(at2, "broker", 0) = At(at, "broker", 0)
<1>1. ASSUME NEW tag \in {"to", "work", "back", "broker"}, NEW v PROVE At(at2, tag, v) = At(at, tag, v)
  BY AtSame
<1> QED
  BY <1>1

LEMMA ReqSendStep ==
  ASSUME RrInv, NEW c \in Clients, ReqSend(c)
  PROVE  RrInv'
<1>1. PICK at \in [Clients -> Spots] : Located(at)
  BY DEF RrInv
<1>2. RrTypes /\ pipe \in PipeType
  BY DEF RrInv, RrTypes, PipeType
<1> DEFINE at2 == [at EXCEPT ![c] = <<"front", 0>>]
           n == client[c].nbr
<1>3. /\ at2 \in [Clients -> Spots] /\ at2[c] = <<"front", 0>> /\ at[c] = <<"none", 0>>
      /\ \A d \in Clients : d # c => at2[d] = at[d]
  <2>1. at[c] = <<"none", 0>>
    BY <1>1 DEF ReqSend, Located, OneClient
  <2> QED
    BY <2>1, AtMoves, SpotFacts
<1> HIDE DEF at2
<1>4. /\ \A w \in Workers : \A tag \in {"to", "work", "back"} : At(at2, tag, w) = At(at, tag, w)
      /\ At(at2, "broker", 0) = At(at, "broker", 0)
  BY <1>3, AtClient
<1>5. pipe.front[c] = << >> /\ pipe.reply[c] = << >> /\ Append(pipe.front[c], Asked(c, n)) = <<Asked(c, n)>>
  <2>1. OneClient(at, c) /\ at[c] \notin {<<"front", 0>>, <<"reply", 0>>}
    BY <1>1, <1>3 DEF Located
  <2> QED
    BY <1>2, <2>1, ClientGains
<1>6. n \in Nat /\ Asked(c, n) \in Mail /\ client \in [Clients -> [pc : {"send", "recv", "done", "ended"}, nbr : Nat]]
  BY <1>2, ReqFacts, MessageFacts DEF RrTypes
<1>7. /\ client'[c] = [pc |-> "recv", nbr |-> n] /\ \A d \in Clients : d # c => client'[d] = client[d]
      /\ client' \in [Clients -> [pc : {"send", "recv", "done", "ended"}, nbr : Nat]]
      /\ \A d \in Clients : client'[d].nbr = client[d].nbr
  BY <1>6 DEF ReqSend
<1>8. pipe' = [pipe EXCEPT !.front[c] = Append(@, Asked(c, n))]
  BY DEF ReqSend, Asked
<1> DEFINE q == <<Asked(c, n)>>
<1>9. pipe' = SetFront(pipe, c, q) /\ q \in Seq(Mail)
  BY <1>5, <1>6, <1>8 DEF SetFront
<1> HIDE DEF q
<1>10. /\ pipe' \in PipeType /\ pipe'.to = pipe.to /\ pipe'.back = pipe.back /\ pipe'.reply = pipe.reply
       /\ pipe'.front[c] = q /\ \A d \in Clients : d # c => pipe'.front[d] = pipe.front[d]
  BY <1>2, <1>9, FrontPipe
<1>11. UNCHANGED <<via, worker, broker, signals>>
  BY DEF ReqSend
<1>12. RrTypes'
  BY <1>2, <1>7, <1>10, <1>11 DEF RrTypes, PipeType
<1>13. ASSUME NEW d \in Clients PROVE OneClient(at2, d)'
  <2>1. CASE d = c
    BY <1>3, <1>5, <1>7, <1>10, <2>1 DEF OneClient, Asked, Answered, q
  <2>2. CASE d # c
    BY <1>1, <1>3, <1>7, <1>10, <1>11, <2>2, ClientSame DEF Located
  <2> QED
    BY <2>1, <2>2
<1>14. ASSUME NEW w \in Workers PROVE OneWorker(at2, w)'
  BY <1>1, <1>4, <1>7, <1>10, <1>11, WorkerSame DEF Located
<1>15. AtBroker(at2)'
  BY <1>1, <1>2, <1>3, <1>4, <1>7, <1>11, BrokerSame DEF Located
<1> QED
  BY <1>3, <1>12, <1>13, <1>14, <1>15 DEF RrInv, Located

(* A step of a client concerns its own two pipes.                          *)
LEMMA ClientMove ==
  ASSUME RrTypes, NEW at \in [Clients -> Spots], NEW at2 \in [Clients -> Spots], Located(at),
         NEW c \in Clients, OneClient(at2, c)',
         at[c] \in {<<"none", 0>>, <<"front", 0>>, <<"reply", 0>>},
         at2[c] \in {<<"none", 0>>, <<"front", 0>>, <<"reply", 0>>},
         at2[c] # <<"none", 0>> => client'[c].nbr = client[c].nbr,
         \A d \in Clients : d # c => /\ at2[d] = at[d] /\ client'[d] = client[d]
                                     /\ pipe'.front[d] = pipe.front[d] /\ pipe'.reply[d] = pipe.reply[d],
         pipe'.to = pipe.to, pipe'.back = pipe.back, worker' = worker, broker' = broker,
         signals' = 0 => signals = 0
  PROVE  Located(at2)'
<1>1. /\ \A w \in Workers : \A tag \in {"to", "work", "back"} : At(at2, tag, w) = At(at, tag, w)
      /\ At(at2, "broker", 0) = At(at, "broker", 0)
  BY AtClient
<1>2. \A d \in Clients : at2[d] # <<"none", 0>> => client'[d].nbr = client[d].nbr
  OBVIOUS
<1>3. ASSUME NEW d \in Clients, d # c PROVE OneClient(at2, d)'
  BY <1>3, ClientSame DEF Located
<1>4. ASSUME NEW w \in Workers PROVE OneWorker(at2, w)'
  BY <1>1, <1>2, WorkerSame DEF Located
<1>5. AtBroker(at2)'
  BY <1>1, <1>2, BrokerSame DEF Located
<1> QED
  BY <1>3, <1>4, <1>5 DEF Located

LEMMA ReqRecvStep ==
  ASSUME RrInv, NEW c \in Clients, NEW next \in {"send", "done"}, ReqRecv(c, next)
  PROVE  RrInv'
<1>1. PICK at \in [Clients -> Spots] : Located(at)
  BY DEF RrInv
<1>2. RrTypes /\ pipe \in PipeType
  BY DEF RrInv, RrTypes, PipeType
<1> DEFINE at2 == [at EXCEPT ![c] = <<"none", 0>>]
           n == client[c].nbr
<1>3. at2 \in [Clients -> Spots] /\ at2[c] = <<"none", 0>> /\ \A d \in Clients : d # c => at2[d] = at[d]
  BY AtMoves, SpotFacts
<1> HIDE DEF at2
<1>4. at[c] = <<"reply", 0>> /\ Tail(pipe.reply[c]) = << >>
  BY <1>1, ReplyMessage DEF ReqRecv, Located
<1>5. pipe.front[c] = << >>
  <2>1. OneClient(at, c) /\ at[c] # <<"front", 0>>
    BY <1>1, <1>4 DEF Located
  <2> QED
    BY <2>1 DEF OneClient
<1>6. client \in [Clients -> [pc : {"send", "recv", "done", "ended"}, nbr : Nat]] /\ n \in Nat
  BY <1>2 DEF RrTypes
<1>7. /\ client'[c] = [pc |-> next, nbr |-> n + 1] /\ \A d \in Clients : d # c => client'[d] = client[d]
      /\ client' \in [Clients -> [pc : {"send", "recv", "done", "ended"}, nbr : Nat]]
  BY <1>6 DEF ReqRecv
<1> DEFINE q == << >>
<1>8. q \in Seq(Mail) /\ Tail(pipe.reply[c]) = q
  BY <1>4
<1> HIDE DEF q
<1>9. pipe' = SetReply(pipe, c, q)
  BY <1>8 DEF SetReply, ReqRecv
<1>10. /\ pipe' \in PipeType /\ pipe'.to = pipe.to /\ pipe'.back = pipe.back /\ pipe'.front = pipe.front
      /\ pipe'.reply[c] = q /\ \A d \in Clients : d # c => pipe'.reply[d] = pipe.reply[d]
  BY <1>2, <1>8, <1>9, ReplyPipe
<1>11. UNCHANGED <<via, worker, broker, signals>>
  BY DEF ReqRecv
<1>12. RrTypes'
  BY <1>2, <1>7, <1>10, <1>11 DEF RrTypes, PipeType
<1>13. OneClient(at2, c)'
  BY <1>3, <1>5, <1>7, <1>10 DEF OneClient, q
<1>14. Located(at2)'
  BY <1>1, <1>2, <1>3, <1>4, <1>7, <1>11, <1>13, <1>10, ClientMove
<1> QED
  BY <1>3, <1>12, <1>14 DEF RrInv

LEMMA ClientInterruptedStep ==
  ASSUME RrInv, NEW c \in Clients, ClientInterrupted(c)
  PROVE  RrInv'
<1>1. PICK at \in [Clients -> Spots] : Located(at)
  BY DEF RrInv
<1>2. RrTypes /\ pipe \in PipeType
  BY DEF RrInv, RrTypes, PipeType
<1> DEFINE own == {<<"none", 0>>, <<"front", 0>>, <<"reply", 0>>}
           at2 == [at EXCEPT ![c] = IF at[c] \in own THEN <<"none", 0>> ELSE at[c]]
           q == << >>
<1>3. at2 \in [Clients -> Spots] /\ \A d \in Clients : d # c => at2[d] = at[d]
  BY SpotFacts
<1>4. (at[c] \in own => at2[c] = <<"none", 0>>) /\ (at[c] \notin own => at2[c] = at[c])
  OBVIOUS
<1>5. client \in [Clients -> [pc : {"send", "recv", "done", "ended"}, nbr : Nat]] /\ signals \in Nat
  BY <1>2 DEF RrTypes
<1>6. /\ client'[c] = [pc |-> "ended", nbr |-> client[c].nbr] /\ \A d \in Clients : d # c => client'[d] = client[d]
      /\ client' \in [Clients -> [pc : {"send", "recv", "done", "ended"}, nbr : Nat]]
      /\ \A d \in Clients : client'[d].nbr = client[d].nbr
      /\ signals' \in Nat /\ signals' # 0
  BY <1>5 DEF ClientInterrupted
<1>7. pipe' = SetReply(SetFront(pipe, c, q), c, q) /\ q \in Seq(Mail)
  BY DEF SetReply, SetFront, ClientInterrupted, DropClient
<1> HIDE DEF q, at2
<1>8. /\ pipe' \in PipeType /\ pipe'.to = pipe.to /\ pipe'.back = pipe.back
      /\ pipe'.front[c] = q /\ pipe'.reply[c] = q
      /\ \A d \in Clients : d # c => pipe'.front[d] = pipe.front[d] /\ pipe'.reply[d] = pipe.reply[d]
  <2> DEFINE p == SetFront(pipe, c, q)
  <2>1. /\ p \in PipeType /\ p.to = pipe.to /\ p.back = pipe.back /\ p.reply = pipe.reply
        /\ p.front[c] = q /\ \A d \in Clients : d # c => p.front[d] = pipe.front[d]
    BY <1>2, <1>7, FrontPipe
  <2>2. pipe' = SetReply(p, c, q)
    BY <1>7
  <2> HIDE DEF p
  <2>3. /\ pipe' \in PipeType /\ pipe'.to = p.to /\ pipe'.back = p.back /\ pipe'.front = p.front
        /\ pipe'.reply[c] = q /\ \A d \in Clients : d # c => pipe'.reply[d] = p.reply[d]
    BY <1>7, <2>1, <2>2, ReplyPipe
  <2> QED
    BY <2>1, <2>3
<1>9. UNCHANGED <<via, worker, broker>>
  BY DEF ClientInterrupted
<1>10. RrTypes'
  BY <1>2, <1>6, <1>8, <1>9 DEF RrTypes, PipeType
<1>11. OneClient(at2, c)'
  <2>1. at2[c] # <<"front", 0>> /\ at2[c] # <<"reply", 0>>
    BY <1>4
  <2> QED
    BY <1>6, <1>8, <2>1 DEF OneClient, q
<1>12. Located(at2)'
  <2>1. CASE at[c] \in own
    BY <1>1, <1>2, <1>3, <1>4, <1>6, <1>8, <1>9, <1>11, <2>1, ClientMove
  <2>2. CASE at[c] \notin own
    <3>1. at2 = at
      BY <2>2 DEF at2
    <3>2. ASSUME NEW d \in Clients, d # c PROVE OneClient(at2, d)'
      BY <1>1, <1>3, <1>6, <1>8, <3>2, ClientSame DEF Located
    <3>3. ASSUME NEW w \in Workers PROVE OneWorker(at2, w)'
      BY <1>1, <1>6, <1>8, <1>9, <3>1, WorkerSame DEF Located
    <3>4. AtBroker(at2)'
      BY <1>1, <1>2, <1>6, <1>9, <3>1, BrokerSame DEF Located
    <3> QED
      BY <1>11, <3>2, <3>3, <3>4 DEF Located
  <2> QED
    BY <2>1, <2>2
<1> QED
  BY <1>3, <1>10, <1>12 DEF RrInv

LEMMA HoldingOne ==
  ASSUME NEW F, NEW c, F[c] \in Mail
  PROVE  Holding(<<F[c]>>, {c}, F)
<1>1. <<F[c]>> \in Seq(Mail) /\ Len(<<F[c]>>) = 1 /\ <<F[c]>>[1] = F[c]
  OBVIOUS
<1> QED
  BY <1>1 DEF Holding

\* The request of c stays with server w, and no other server and no client
\* sees a change.
MovesAt(at, at2, c, w) ==
  /\ at[c] \in {<<"to", w>>, <<"work", w>>, <<"back", w>>}
  /\ at2[c] \in {<<"to", w>>, <<"work", w>>, <<"back", w>>}
  /\ \A d \in Clients : d # c => at2[d] = at[d]

OnlyWorker(w) ==
  /\ \A v \in Workers : v # w => pipe'.to[v] = pipe.to[v] /\ pipe'.back[v] = pipe.back[v] /\ worker'[v] = worker[v]
  /\ pipe'.front = pipe.front /\ pipe'.reply = pipe.reply
  /\ client' = client /\ broker' = broker /\ signals' = signals

(* A step of a server concerns its own two pipes.                          *)
LEMMA WorkerMove ==
  ASSUME RrTypes, NEW at \in [Clients -> Spots], NEW at2 \in [Clients -> Spots], Located(at),
         NEW c \in Clients, NEW w \in Workers, OneWorker(at2, w)', MovesAt(at, at2, c, w), OnlyWorker(w)
  PROVE  Located(at2)'
<1> USE DEF MovesAt, OnlyWorker
<1>1. ASSUME NEW v \in Workers, v # w, NEW tag \in {"to", "work", "back"} PROVE At(at2, tag, v) = At(at, tag, v)
  BY <1>1, AtSame
<1>2. At(at2, "broker", 0) = At(at, "broker", 0)
  BY AtSame
<1>3. ASSUME NEW d \in Clients, d # c PROVE OneClient(at2, d)'
  BY <1>3, ClientSame DEF Located
<1>4. OneClient(at2, c)'
  <2>1. OneClient(at, c) /\ at[c] \notin {<<"none", 0>>, <<"front", 0>>, <<"reply", 0>>}
    BY DEF Located
  <2>2. at2[c] # <<"none", 0>> /\ at2[c] # <<"front", 0>> /\ at2[c] # <<"reply", 0>>
    OBVIOUS
  <2>3. pipe.front[c] = << >> /\ pipe.reply[c] = << >> /\ client[c].pc \notin {"send", "done"}
    BY <2>1 DEF OneClient
  <2> QED
    BY <2>2, <2>3 DEF OneClient
<1>5. ASSUME NEW v \in Workers, v # w PROVE OneWorker(at2, v)'
  BY <1>1, <1>5, WorkerSame DEF Located
<1>6. AtBroker(at2)'
  BY <1>2, BrokerSame DEF Located
<1> QED
  BY <1>3, <1>4, <1>5, <1>6 DEF Located

LEMMA AtWorker ==
  ASSUME NEW at, NEW at2, NEW c \in Clients, NEW w, NEW t, NEW u, NEW x, t # u, x # t, x # u,
         at[c] = <<t, w>>, at2[c] = <<u, w>>, \A d \in Clients : d # c => at2[d] = at[d]
  PROVE  /\ At(at2, t, w) = At(at, t, w) \ {c} /\ At(at2, u, w) = At(at, u, w) \cup {c}
         /\ At(at2, x, w) = At(at, x, w) /\ c \notin At(at, u, w)
<1>1. <<t, w>> # <<u, w>> /\ <<x, w>> # <<t, w>> /\ <<x, w>> # <<u, w>>
  OBVIOUS
<1> QED
  BY <1>1 DEF At

LEMMA RepRecvStep ==
  ASSUME RrInv, NEW w \in Workers, RepRecv(w)
  PROVE  RrInv'
<1>1. PICK at \in [Clients -> Spots] : Located(at)
  BY DEF RrInv
<1>2. RrTypes /\ pipe \in PipeType /\ worker \in [Workers -> [pc : {"recv", "send", "ended"}, msg : Mail \cup {<< >>}]]
  BY DEF RrInv, RrTypes, PipeType
<1>3. OneWorker(at, w) /\ worker[w].pc = "recv" /\ pipe.to[w] # << >>
  BY <1>1 DEF Located, RepRecv
<1>4. Holding(pipe.to[w], At(at, "to", w), Reqs) /\ Holding(pipe.back[w], At(at, "back", w), Reps)
  BY <1>3 DEF OneWorker
<1>5. \A c, d \in At(at, "to", w) : Reqs[c] = Reqs[d] => c = d
  BY <1>2, ReqFacts DEF At
<1>6. PICK c \in At(at, "to", w) : Head(pipe.to[w]) = Reqs[c] /\ Holding(Tail(pipe.to[w]), At(at, "to", w) \ {c}, Reqs)
  BY <1>3, <1>4, <1>5, HoldingLess
<1>7. c \in Clients /\ at[c] = <<"to", w>>
  BY DEF At
<1>8. Reqs[c] \in Mail /\ Reqs[c] # << >> /\ WellFormed(Reqs[c])
  BY <1>2, <1>7, ReqFacts, MessageFacts, RequestWellFormed
<1> DEFINE at2 == [at EXCEPT ![c] = <<"work", w>>]
           q == Tail(pipe.to[w])
<1>9. at2 \in [Clients -> Spots] /\ at2[c] = <<"work", w>> /\ \A d \in Clients : d # c => at2[d] = at[d]
  BY <1>7, SpotFacts, AtMoves
<1> HIDE DEF at2
<1>10. /\ At(at2, "to", w) = At(at, "to", w) \ {c} /\ At(at2, "work", w) = At(at, "work", w) \cup {c}
      /\ At(at2, "back", w) = At(at, "back", w)
  BY <1>7, <1>9, AtWorker
<1>11. q \in Seq(Mail) /\ pipe' = SetTo(pipe, w, q)
  BY <1>6 DEF RepRecv, SetTo, Holding
<1>12. worker' = [worker EXCEPT ![w] = [pc |-> "send", msg |-> Reqs[c]]]
  BY <1>6, <1>8 DEF RepRecv
<1>13. Holding(q, At(at2, "to", w), Reqs)
  BY <1>6, <1>10
<1> HIDE DEF q
<1>14. /\ pipe' \in PipeType /\ pipe'.front = pipe.front /\ pipe'.back = pipe.back /\ pipe'.reply = pipe.reply
       /\ pipe'.to[w] = q /\ \A v \in Workers : v # w => pipe'.to[v] = pipe.to[v]
  BY <1>2, <1>11, ToPipe
<1>15. /\ worker' \in [Workers -> [pc : {"recv", "send", "ended"}, msg : Mail \cup {<< >>}]]
       /\ worker'[w] = [pc |-> "send", msg |-> Reqs[c]] /\ \A v \in Workers : v # w => worker'[v] = worker[v]
  BY <1>2, <1>8, <1>12
<1>16. UNCHANGED <<via, client, broker, signals>>
  BY DEF RepRecv
<1>17. RrTypes'
  BY <1>2, <1>14, <1>15, <1>16 DEF RrTypes, PipeType
<1>18. At(at2, "work", w) = {c}
  <2>1. Holding(<< >>, At(at, "work", w), Reqs)
    BY <1>3 DEF OneWorker
  <2> QED
    BY <1>10, <2>1, HoldingNone
<1>19. Holding(IF worker'[w].pc = "send" THEN <<worker'[w].msg>> ELSE << >>, At(at2, "work", w), Reqs)
  <2>1. Holding(<<Reqs[c]>>, {c}, Reqs)
    BY <1>8, HoldingOne
  <2>2. worker'[w].pc = "send" /\ worker'[w].msg = Reqs[c]
    BY <1>15
  <2> QED
    BY <1>18, <2>1, <2>2
<1>20. Holding(pipe'.to[w], At(at2, "to", w), Reqs) /\ Holding(pipe'.back[w], At(at2, "back", w), Reps)
  BY <1>4, <1>10, <1>13, <1>14
<1>21. worker'[w].pc = "send" <=> worker'[w].msg # << >>
  BY <1>8, <1>15
<1>22. OneWorker(at2, w)'
  BY <1>16, <1>19, <1>20, <1>21, WorkerStep
<1>23. Located(at2)'
  <2>1. MovesAt(at, at2, c, w)
    BY <1>7, <1>9 DEF MovesAt
  <2>2. OnlyWorker(w)
    BY <1>14, <1>15, <1>16 DEF OnlyWorker
  <2>3. c \in Clients /\ at2 \in [Clients -> Spots] /\ RrTypes
    BY <1>2, <1>7, <1>9
  <2> QED
    BY <1>1, <1>22, <2>1, <2>2, <2>3, WorkerMove
<1> QED
  BY <1>17, <1>23, <1>9 DEF RrInv

LEMMA RepSendStep ==
  ASSUME RrInv, NEW w \in Workers, RepSend(w)
  PROVE  RrInv'
<1>1. PICK at \in [Clients -> Spots] : Located(at)
  BY DEF RrInv
<1>2. RrTypes /\ pipe \in PipeType /\ worker \in [Workers -> [pc : {"recv", "send", "ended"}, msg : Mail \cup {<< >>}]]
  BY DEF RrInv, RrTypes, PipeType
<1>3. OneWorker(at, w) /\ worker[w].pc = "send"
  BY <1>1 DEF Located, RepSend
<1>4. /\ Holding(pipe.to[w], At(at, "to", w), Reqs) /\ Holding(pipe.back[w], At(at, "back", w), Reps)
      /\ Holding(<<worker[w].msg>>, At(at, "work", w), Reqs)
  BY <1>3 DEF OneWorker
<1>5. PICK c \in At(at, "work", w) : worker[w].msg = Reqs[c] /\ Holding(<< >>, At(at, "work", w) \ {c}, Reqs)
  <2>1. \A c, d \in At(at, "work", w) : Reqs[c] = Reqs[d] => c = d
    BY <1>2, ReqFacts DEF At
  <2>2. \A x : <<x>> # << >> /\ Head(<<x>>) = x /\ Tail(<<x>>) = << >>
    OBVIOUS
  <2>3. \E c \in At(at, "work", w) : Head(<<worker[w].msg>>) = Reqs[c] /\ Holding(Tail(<<worker[w].msg>>), At(at, "work", w) \ {c}, Reqs)
    BY <1>4, <2>1, <2>2, HoldingLess
  <2> QED
    BY <2>2, <2>3
<1>6. c \in Clients /\ at[c] = <<"work", w>>
  BY DEF At
<1>7. Reply(w) = Reps[c] /\ Reps[c] \in Mail
  BY <1>2, <1>5, <1>6, ReqFacts, ReplyFacts
<1> DEFINE at2 == [at EXCEPT ![c] = <<"back", w>>]
           q == Append(pipe.back[w], Reps[c])
<1>8. at2 \in [Clients -> Spots] /\ at2[c] = <<"back", w>> /\ \A d \in Clients : d # c => at2[d] = at[d]
  BY <1>6, SpotFacts, AtMoves
<1> HIDE DEF at2
<1>9. /\ At(at2, "work", w) = At(at, "work", w) \ {c} /\ At(at2, "back", w) = At(at, "back", w) \cup {c}
      /\ At(at2, "to", w) = At(at, "to", w) /\ c \notin At(at, "back", w)
  BY <1>6, <1>8, AtWorker
<1>10. Holding(q, At(at2, "back", w), Reps)
  <2>1. At(at, "back", w) \in SUBSET Clients /\ c \in Clients \ At(at, "back", w)
    BY <1>6, <1>9 DEF At
  <2>2. \A d \in At(at, "back", w) : Reps[d] # Reps[c]
    BY <1>2, <2>1, ReqFacts
  <2> QED
    BY <1>4, <1>7, <1>9, <2>1, <2>2, HoldingMore
<1>11. q \in Seq(Mail) /\ pipe' = SetBack(pipe, w, q)
  BY <1>7, <1>10 DEF RepSend, SetBack, Holding
<1> HIDE DEF q
<1>12. /\ pipe' \in PipeType /\ pipe'.front = pipe.front /\ pipe'.to = pipe.to /\ pipe'.reply = pipe.reply
       /\ pipe'.back[w] = q /\ \A v \in Workers : v # w => pipe'.back[v] = pipe.back[v]
  BY <1>2, <1>11, BackPipe
<1>13. /\ worker' \in [Workers -> [pc : {"recv", "send", "ended"}, msg : Mail \cup {<< >>}]]
       /\ worker'[w] = [pc |-> "recv", msg |-> << >>] /\ \A v \in Workers : v # w => worker'[v] = worker[v]
  BY <1>2 DEF RepSend
<1>14. UNCHANGED <<via, client, broker, signals>>
  BY DEF RepSend
<1>15. RrTypes'
  BY <1>2, <1>12, <1>13, <1>14 DEF RrTypes, PipeType
<1>16. /\ Holding(pipe'.to[w], At(at2, "to", w), Reqs) /\ Holding(pipe'.back[w], At(at2, "back", w), Reps)
       /\ Holding(<< >>, At(at2, "work", w), Reqs)
  BY <1>4, <1>5, <1>9, <1>10, <1>12
<1>17. worker'[w].pc = "recv" /\ worker'[w].msg = << >>
  BY <1>13
<1>18. /\ worker'[w].pc = "send" <=> worker'[w].msg # << >>
       /\ Holding(IF worker'[w].pc = "send" THEN <<worker'[w].msg>> ELSE << >>, At(at2, "work", w), Reqs)
  BY <1>16, <1>17
<1>19. OneWorker(at2, w)'
  BY <1>14, <1>16, <1>18, WorkerStep
<1>20. Located(at2)'
  <2>1. MovesAt(at, at2, c, w)
    BY <1>6, <1>8 DEF MovesAt
  <2>2. OnlyWorker(w)
    BY <1>12, <1>13, <1>14 DEF OnlyWorker
  <2>3. c \in Clients /\ at2 \in [Clients -> Spots] /\ RrTypes
    BY <1>2, <1>6, <1>8
  <2> QED
    BY <1>1, <1>19, <2>1, <2>2, <2>3, WorkerMove
<1> QED
  BY <1>8, <1>15, <1>20 DEF RrInv

(* The requests that wait in the pipe of a server that ends are gone.      *)
LEMMA WorkerInterruptedStep ==
  ASSUME RrInv, NEW w \in Workers, WorkerInterrupted(w)
  PROVE  RrInv'
<1>1. PICK at \in [Clients -> Spots] : Located(at)
  BY DEF RrInv
<1>2. RrTypes /\ pipe \in PipeType /\ worker \in [Workers -> [pc : {"recv", "send", "ended"}, msg : Mail \cup {<< >>}]]
        /\ signals \in Nat
  BY DEF RrInv, RrTypes, PipeType
<1> DEFINE at2 == [d \in Clients |-> IF at[d] = <<"to", w>> THEN <<"none", 0>> ELSE at[d]]
           q == << >>
<1>3. at2 \in [Clients -> Spots]
  BY SpotFacts
<1>4. \A d \in Clients : (at[d] = <<"to", w>> => at2[d] = <<"none", 0>>) /\ (at[d] # <<"to", w>> => at2[d] = at[d])
  OBVIOUS
<1>5. q \in Seq(Mail) /\ pipe' = SetTo(pipe, w, q)
  BY DEF WorkerInterrupted, DropWorker, SetTo
<1> HIDE DEF at2, q
<1>6. /\ pipe' \in PipeType /\ pipe'.front = pipe.front /\ pipe'.back = pipe.back /\ pipe'.reply = pipe.reply
      /\ pipe'.to[w] = q /\ \A v \in Workers : v # w => pipe'.to[v] = pipe.to[v]
  BY <1>2, <1>5, ToPipe
<1>7. /\ worker' \in [Workers -> [pc : {"recv", "send", "ended"}, msg : Mail \cup {<< >>}]]
      /\ worker'[w].pc = "ended" /\ worker'[w].msg = worker[w].msg
      /\ \A v \in Workers : v # w => worker'[v] = worker[v]
  BY <1>2 DEF WorkerInterrupted
<1>8. UNCHANGED <<via, client, broker>> /\ signals' \in Nat /\ signals' # 0
  BY <1>2 DEF WorkerInterrupted
<1>9. RrTypes'
  BY <1>2, <1>6, <1>7, <1>8 DEF RrTypes, PipeType
<1>10. /\ At(at2, "to", w) = {}
       /\ \A v \in Workers : v # w => At(at2, "to", v) = At(at, "to", v)
       /\ \A v \in Workers : At(at2, "work", v) = At(at, "work", v) /\ At(at2, "back", v) = At(at, "back", v)
       /\ At(at2, "broker", 0) = At(at, "broker", 0)
  <2>1. \A tag, v : (<<tag, v>> # <<"to", w>> /\ <<tag, v>> # <<"none", 0>>) => At(at2, tag, v) = At(at, tag, v)
    BY <1>4 DEF At
  <2>2. At(at2, "to", w) = {}
    BY <1>4 DEF At
  <2> QED
    BY <2>1, <2>2
<1>11. ASSUME NEW d \in Clients PROVE OneClient(at2, d)'
  <2>1. OneClient(at, d)
    BY <1>1 DEF Located
  <2>2. CASE at[d] # <<"to", w>>
    BY <1>4, <1>6, <1>8, <2>1, <2>2, ClientSame
  <2>3. CASE at[d] = <<"to", w>>
    <3>1. at2[d] = <<"none", 0>> /\ at[d] # <<"front", 0>> /\ at[d] # <<"reply", 0>>
      BY <1>4, <2>3
    <3>2. pipe.front[d] = << >> /\ pipe.reply[d] = << >>
      BY <2>1, <3>1 DEF OneClient
    <3>3. at2[d] # <<"front", 0>> /\ at2[d] # <<"reply", 0>>
      BY <3>1
    <3> QED
      BY <1>6, <1>8, <3>1, <3>2, <3>3 DEF OneClient
  <2> QED
    BY <2>2, <2>3
<1>12. ASSUME NEW v \in Workers PROVE OneWorker(at2, v)'
  <2>1. OneWorker(at, v)
    BY <1>1 DEF Located
  <2>2. CASE v # w
    <3>1. \A tag \in {"to", "work", "back"} : At(at2, tag, v) = At(at, tag, v)
      BY <1>10, <2>2
    <3> QED
      BY <1>6, <1>7, <1>8, <2>1, <2>2, <3>1, WorkerSame
  <2>3. CASE v = w
    <3>1. worker[w].pc = "recv"
      BY DEF WorkerInterrupted
    <3>2. /\ Holding(pipe.back[w], At(at, "back", w), Reps) /\ worker[w].msg = << >>
          /\ Holding(<< >>, At(at, "work", w), Reqs)
      BY <2>1, <2>3, <3>1 DEF OneWorker
    <3>3. Holding(<< >>, At(at2, "to", w), Reqs)
      BY <1>10, HoldingNone
    <3>4. /\ Holding(pipe'.to[w], At(at2, "to", w), Reqs) /\ Holding(pipe'.back[w], At(at2, "back", w), Reps)
          /\ Holding(<< >>, At(at2, "work", w), Reqs)
      BY <1>6, <1>10, <3>2, <3>3 DEF q
    <3>5. /\ worker'[w].pc = "send" <=> worker'[w].msg # << >>
          /\ Holding(IF worker'[w].pc = "send" THEN <<worker'[w].msg>> ELSE << >>, At(at2, "work", w), Reqs)
      BY <1>7, <3>2, <3>4
    <3> QED
      BY <1>8, <2>3, <3>4, <3>5, WorkerStep
  <2> QED
    BY <2>2, <2>3
<1>13. AtBroker(at2)'
  BY <1>1, <1>2, <1>3, <1>8, <1>10, BrokerSame DEF Located
<1> QED
  BY <1>3, <1>9, <1>11, <1>12, <1>13 DEF RrInv, Located

LEMMA ThreadInterruptedStep ==
  ASSUME RrInv, NEW w \in Workers, ThreadInterrupted(w)
  PROVE  RrInv'
<1>1. PICK at \in [Clients -> Spots] : Located(at)
  BY DEF RrInv
<1>2. RrTypes /\ signals \in Nat /\ broker.rest = << >>
  BY DEF RrInv, RrTypes, ThreadInterrupted
<1> DEFINE at2 == [d \in Clients |-> <<"none", 0>>]
<1>3. at2 \in [Clients -> Spots] /\ \A d \in Clients : at2[d] = <<"none", 0>>
  BY SpotFacts
<1> HIDE DEF at2
<1>4. \A tag, v : tag # "none" => At(at2, tag, v) = {}
  BY <1>3 DEF At
<1>5. /\ pipe' \in PipeType
      /\ \A d \in Clients : pipe'.front[d] = << >> /\ pipe'.reply[d] = << >>
      /\ \A v \in Workers : pipe'.to[v] = << >> /\ pipe'.back[v] = << >>
  BY DEF ThreadInterrupted, NoPipes, PipeType
<1>6. /\ worker' \in [Workers -> [pc : {"recv", "send", "ended"}, msg : Mail \cup {<< >>}]]
      /\ \A v \in Workers : worker'[v].pc = "ended" /\ worker'[v].msg = << >>
  BY DEF ThreadInterrupted
<1>7. UNCHANGED <<via, client, broker>> /\ signals' \in Nat /\ signals' # 0
  BY <1>2 DEF ThreadInterrupted
<1>8. RrTypes'
  BY <1>2, <1>5, <1>6, <1>7 DEF RrTypes, PipeType
<1>9. ASSUME NEW d \in Clients PROVE OneClient(at2, d)'
  <2>1. at2[d] # <<"front", 0>> /\ at2[d] # <<"reply", 0>>
    BY <1>3
  <2> QED
    BY <1>3, <1>5, <1>7, <2>1 DEF OneClient
<1>10. ASSUME NEW v \in Workers PROVE OneWorker(at2, v)'
  <2>1. \A F : Holding(<< >>, {}, F)
    BY HoldingNone
  <2>2. /\ Holding(pipe'.to[v], At(at2, "to", v), Reqs) /\ Holding(pipe'.back[v], At(at2, "back", v), Reps)
        /\ Holding(<< >>, At(at2, "work", v), Reqs)
    BY <1>4, <1>5, <2>1
  <2>3. /\ worker'[v].pc = "send" <=> worker'[v].msg # << >>
        /\ Holding(IF worker'[v].pc = "send" THEN <<worker'[v].msg>> ELSE << >>, At(at2, "work", v), Reqs)
    BY <1>6, <2>2
  <2> QED
    BY <1>7, <2>2, <2>3, WorkerStep
<1>11. AtBroker(at2)'
  <2>1. At(at2, "broker", 0) = {} /\ broker.out = << >>
    BY <1>1, <1>2, <1>4 DEF Located, AtBroker
  <2> QED
    BY <1>2, <1>7, <2>1 DEF AtBroker, At
<1> QED
  BY <1>3, <1>8, <1>9, <1>10, <1>11 DEF RrInv, Located

(* The steps between clients and servers, by where the request goes.       *)
LEMMA ClientAway ==
  ASSUME NEW at, NEW at2, NEW c \in Clients, OneClient(at, c), at[c] # <<"none", 0>>,
         at2[c] \notin {<<"none", 0>>, <<"front", 0>>, <<"reply", 0>>},
         pipe'.front[c] = << >>, pipe'.reply[c] = << >>, client' = client
  PROVE  OneClient(at2, c)'
<1>1. client[c].pc \notin {"send", "done"}
  BY DEF OneClient
<1>2. at2[c] # <<"none", 0>> /\ at2[c] # <<"front", 0>> /\ at2[c] # <<"reply", 0>>
  OBVIOUS
<1> QED
  BY <1>1, <1>2 DEF OneClient

LEMMA ClientEmpty ==
  ASSUME NEW at, NEW c \in Clients, OneClient(at, c)
  PROVE  /\ at[c] # <<"front", 0>> => pipe.front[c] = << >>
         /\ at[c] # <<"reply", 0>> => pipe.reply[c] = << >>
BY DEF OneClient

LEMMA WorkersApart ==
  ASSUME NEW at, NEW at2, Located(at), NEW c \in Clients, NEW v \in Workers,
         \A d \in Clients : d # c => at2[d] = at[d],
         \A tag \in {"to", "work", "back"} : at[c] # <<tag, v>> /\ at2[c] # <<tag, v>>,
         pipe'.to[v] = pipe.to[v], pipe'.back[v] = pipe.back[v], worker'[v] = worker[v], client' = client
  PROVE  OneWorker(at2, v)'
<1>1. ASSUME NEW tag \in {"to", "work", "back"} PROVE At(at2, tag, v) = At(at, tag, v)
  BY AtSame
<1> QED
  BY <1>1, WorkerSame DEF Located

LEMMA ToWorker ==
  ASSUME RrTypes, NEW at \in [Clients -> Spots], NEW at2 \in [Clients -> Spots], Located(at),
         NEW c \in Clients, NEW w \in Workers, at[c] \in {<<"front", 0>>, <<"broker", 0>>}, at2[c] = <<"to", w>>,
         \A d \in Clients : d # c => at2[d] = at[d] /\ pipe'.front[d] = pipe.front[d],
         pipe'.front[c] = << >>, pipe'.to[w] = Append(pipe.to[w], Reqs[c]),
         \A v \in Workers : v # w => pipe'.to[v] = pipe.to[v],
         pipe'.back = pipe.back, pipe'.reply = pipe.reply, client' = client, worker' = worker, signals' = signals,
         AtBroker(at2)'
  PROVE  Located(at2)'
<1>1. ASSUME NEW d \in Clients, d # c PROVE OneClient(at2, d)'
  BY <1>1, ClientSame DEF Located
<1>2. OneClient(at2, c)'
  <2>1. OneClient(at, c) /\ at[c] # <<"none", 0>> /\ at[c] # <<"reply", 0>>
    BY DEF Located
  <2>2. pipe.reply[c] = << >>
    BY <2>1, ClientEmpty
  <2>3. at2[c] \notin {<<"none", 0>>, <<"front", 0>>, <<"reply", 0>>}
    OBVIOUS
  <2> QED
    BY <2>1, <2>2, <2>3, ClientAway
<1>3. ASSUME NEW v \in Workers, v # w PROVE OneWorker(at2, v)'
  <2>1. \A tag \in {"to", "work", "back"} : at[c] # <<tag, v>> /\ at2[c] # <<tag, v>>
    BY <1>3
  <2> QED
    BY <1>3, <2>1, WorkersApart
<1>4. OneWorker(at2, w)'
  <2>1. OneWorker(at, w)
    BY DEF Located
  <2>2. At(at2, "work", w) = At(at, "work", w) /\ At(at2, "back", w) = At(at, "back", w)
    BY AtSame
  <2>3. At(at2, "to", w) = At(at, "to", w) \cup {c} /\ c \in Clients \ At(at, "to", w) /\ At(at, "to", w) \in SUBSET Clients
    BY DEF At
  <2>4. /\ Holding(pipe.to[w], At(at, "to", w), Reqs) /\ Holding(pipe.back[w], At(at, "back", w), Reps)
        /\ worker[w].pc = "send" <=> worker[w].msg # << >>
        /\ Holding(IF worker[w].pc = "send" THEN <<worker[w].msg>> ELSE << >>, At(at, "work", w), Reqs)
    BY <2>1 DEF OneWorker
  <2>5. Reqs[c] \in Mail /\ \A d \in At(at, "to", w) : Reqs[d] # Reqs[c]
    BY <2>3, ReqFacts
  <2>6. Holding(Append(pipe.to[w], Reqs[c]), At(at, "to", w) \cup {c}, Reqs)
    BY <2>3, <2>4, <2>5, HoldingMore
  <2>7. /\ Holding(pipe'.to[w], At(at2, "to", w), Reqs) /\ Holding(pipe'.back[w], At(at2, "back", w), Reps)
        /\ worker'[w].pc = "send" <=> worker'[w].msg # << >>
        /\ Holding(IF worker'[w].pc = "send" THEN <<worker'[w].msg>> ELSE << >>, At(at2, "work", w), Reqs)
    BY <2>2, <2>3, <2>4, <2>6
  <2> QED
    BY <2>7, WorkerStep
<1> QED
  BY <1>1, <1>2, <1>3, <1>4 DEF Located

(* The first message of a server's pipe to the DEALER leaves it.           *)
LEMMA BackMessage ==
  ASSUME RrTypes, NEW at, Located(at), NEW w \in Workers, pipe.back[w] # << >>
  PROVE  \E c \in Clients : /\ at[c] = <<"back", w>> /\ Head(pipe.back[w]) = Reps[c]
                            /\ Holding(Tail(pipe.back[w]), At(at, "back", w) \ {c}, Reps)
<1>1. Holding(pipe.back[w], At(at, "back", w), Reps)
  BY DEF Located, OneWorker
<1>2. \A c, d \in At(at, "back", w) : Reps[c] = Reps[d] => c = d
  BY ReqFacts DEF At
<1>3. \E c \in At(at, "back", w) : /\ Head(pipe.back[w]) = Reps[c]
                                   /\ Holding(Tail(pipe.back[w]), At(at, "back", w) \ {c}, Reps)
  BY <1>1, <1>2, HoldingLess
<1> QED
  BY <1>3 DEF At

LEMMA LeavesBack ==
  ASSUME RrTypes, NEW at \in [Clients -> Spots], NEW at2 \in [Clients -> Spots], Located(at),
         NEW c \in Clients, NEW w \in Workers, at[c] = <<"back", w>>,
         at2[c] \in {<<"none", 0>>, <<"reply", 0>>, <<"broker", 0>>},
         \A d \in Clients : d # c => at2[d] = at[d],
         Holding(pipe'.back[w], At(at, "back", w) \ {c}, Reps),
         \A v \in Workers : v # w => pipe'.back[v] = pipe.back[v],
         pipe'.to = pipe.to, client' = client, worker' = worker
  PROVE  \A v \in Workers : OneWorker(at2, v)'
<1>1. ASSUME NEW v \in Workers, v # w PROVE OneWorker(at2, v)'
  <2>1. \A tag \in {"to", "work", "back"} : at[c] # <<tag, v>> /\ at2[c] # <<tag, v>>
    BY <1>1
  <2> QED
    BY <1>1, <2>1, WorkersApart
<1>2. OneWorker(at2, w)'
  <2>1. OneWorker(at, w)
    BY DEF Located
  <2>2. At(at2, "work", w) = At(at, "work", w) /\ At(at2, "to", w) = At(at, "to", w)
    BY AtSame
  <2>3. At(at2, "back", w) = At(at, "back", w) \ {c}
    BY DEF At
  <2>4. /\ Holding(pipe.to[w], At(at, "to", w), Reqs)
        /\ worker[w].pc = "send" <=> worker[w].msg # << >>
        /\ Holding(IF worker[w].pc = "send" THEN <<worker[w].msg>> ELSE << >>, At(at, "work", w), Reqs)
    BY <2>1 DEF OneWorker
  <2>5. /\ Holding(pipe'.to[w], At(at2, "to", w), Reqs) /\ Holding(pipe'.back[w], At(at2, "back", w), Reps)
        /\ worker'[w].pc = "send" <=> worker'[w].msg # << >>
        /\ Holding(IF worker'[w].pc = "send" THEN <<worker'[w].msg>> ELSE << >>, At(at2, "work", w), Reqs)
    BY <2>2, <2>3, <2>4
  <2> QED
    BY <2>5, WorkerStep
<1> QED
  BY <1>1, <1>2

(* The ROUTER delivers a reply to a client that waits, and drops the other.*)
Delivered(c) == IF client[c].pc = "recv" THEN <<"reply", 0>> ELSE <<"none", 0>>

LEMMA ToClient ==
  ASSUME RrTypes, NEW at, NEW at2, Located(at), NEW c \in Clients,
         at[c] \notin {<<"none", 0>>, <<"front", 0>>, <<"reply", 0>>}, at2[c] = Delivered(c),
         \A d \in Clients : d # c => at2[d] = at[d] /\ pipe'.reply[d] = pipe.reply[d],
         pipe'.front = pipe.front,
         pipe'.reply[c] = IF client[c].pc = "recv" THEN Append(pipe.reply[c], Answered(c, client[c].nbr)) ELSE pipe.reply[c],
         client' = client, signals' = signals
  PROVE  \A d \in Clients : OneClient(at2, d)'
<1>1. ASSUME NEW d \in Clients, d # c PROVE OneClient(at2, d)'
  BY <1>1, ClientSame DEF Located
<1>2. OneClient(at2, c)'
  <2>1. OneClient(at, c) /\ at[c] # <<"none", 0>> /\ at[c] # <<"front", 0>> /\ at[c] # <<"reply", 0>>
    BY DEF Located
  <2>2. /\ pipe.front[c] = << >> /\ pipe.reply[c] = << >>
        /\ Append(pipe.reply[c], Answered(c, client[c].nbr)) = <<Answered(c, client[c].nbr)>>
    BY <2>1, ClientGains, ZenonT(60)
  <2>3. client[c].pc \notin {"send", "done"}
    BY <2>1 DEF OneClient
  <2>4. CASE client[c].pc = "recv"
    <3>1. at2[c] = <<"reply", 0>> /\ at2[c] # <<"front", 0>> /\ at2[c] # <<"none", 0>>
      BY <2>4 DEF Delivered
    <3> QED
      BY <2>2, <2>4, <3>1 DEF OneClient, Answered
  <2>5. CASE client[c].pc # "recv"
    <3>1. at2[c] = <<"none", 0>> /\ at2[c] # <<"front", 0>> /\ at2[c] # <<"reply", 0>>
      BY <2>5 DEF Delivered
    <3> QED
      BY <2>2, <2>5, <3>1 DEF OneClient
  <2> QED
    BY <2>4, <2>5
<1> QED
  BY <1>1, <1>2

\* The first request of c goes to w, and no other pipe changes.
Forwarded(c, w) ==
  /\ pipe.front[c] # << >> /\ pipe' \in PipeType /\ pipe'.front[c] = Tail(pipe.front[c])
  /\ \A d \in Clients : d # c => pipe'.front[d] = pipe.front[d]
  /\ pipe'.to[w] = Append(pipe.to[w], <<Id(c)>> \o Head(pipe.front[c]))
  /\ \A v \in Workers : v # w => pipe'.to[v] = pipe.to[v]
  /\ pipe'.back = pipe.back /\ pipe'.reply = pipe.reply
  /\ UNCHANGED <<via, client, worker, broker, signals>>

LEMMA ForwardFront ==
  ASSUME RrInv, NEW c \in Clients, NEW w \in Workers, Forwarded(c, w)
  PROVE  RrInv'
<1> USE DEF Forwarded
<1>1. PICK at \in [Clients -> Spots] : Located(at)
  BY DEF RrInv
<1>2. RrTypes
  BY DEF RrInv
<1>3. at[c] = <<"front", 0>> /\ Tail(pipe.front[c]) = << >> /\ <<Id(c)>> \o Head(pipe.front[c]) = Reqs[c]
  BY <1>1, <1>2, FrontMessage DEF Located
<1> DEFINE at2 == [at EXCEPT ![c] = <<"to", w>>]
<1>4. at2 \in [Clients -> Spots] /\ at2[c] = <<"to", w>> /\ \A d \in Clients : d # c => at2[d] = at[d]
  BY SpotFacts, AtMoves
<1> HIDE DEF at2
<1>5. At(at2, "broker", 0) = At(at, "broker", 0)
  BY <1>3, <1>4, AtSame
<1>6. AtBroker(at2)'
  BY <1>1, <1>2, <1>4, <1>5, BrokerSame DEF Located
<1>7. pipe'.front[c] = << >> /\ pipe'.to[w] = Append(pipe.to[w], Reqs[c])
  BY <1>3
<1>8. Located(at2)'
  BY <1>1, <1>2, <1>3, <1>4, <1>6, <1>7, ToWorker
<1>9. RrTypes'
  BY <1>2 DEF RrTypes, PipeType
<1> QED
  BY <1>4, <1>8, <1>9 DEF RrInv

(* What the ROUTER does with a message that a server sent back.            *)
LEMMA RouterFields ==
  ASSUME RrTypes, NEW p \in PipeType, NEW c \in Clients
  PROVE  LET r == RouterSend(p, Reps[c]) IN
         /\ r \in PipeType /\ r.front = p.front /\ r.to = p.to /\ r.back = p.back
         /\ \A d \in Clients : d # c => r.reply[d] = p.reply[d]
         /\ r.reply[c] = IF client[c].pc = "recv" THEN Append(p.reply[c], Answered(c, client[c].nbr)) ELSE p.reply[c]
<1> DEFINE q == Append(p.reply[c], Answered(c, client[c].nbr))
           r == RouterSend(p, Reps[c])
<1>1. q \in Seq(Mail)
  BY ReqFacts, MessageFacts DEF PipeType
<1>2. r = IF client[c].pc = "recv" THEN SetReply(p, c, q) ELSE p
  BY RouterSends DEF SetReply
<1> HIDE DEF r
<1>3. CASE client[c].pc = "recv"
  <2> HIDE DEF q
  <2>1. r = SetReply(p, c, q)
    BY <1>2, <1>3
  <2>2. /\ r \in PipeType /\ r.to = p.to /\ r.back = p.back /\ r.front = p.front
        /\ r.reply[c] = q /\ \A d \in Clients : d # c => r.reply[d] = p.reply[d]
    BY <1>1, <2>1, ReplyPipe
  <2> QED
    BY <1>3, <2>2 DEF r, q
<1>4. CASE client[c].pc # "recv"
  <2>1. r = p
    BY <1>2, <1>4
  <2> QED
    BY <1>4, <2>1 DEF r
<1> QED
  BY <1>3, <1>4

Routed(w) ==
  \/ pipe' = RouterSend(SetBack(pipe, w, Tail(pipe.back[w])), Head(pipe.back[w]))
  \/ LET p == RouterSend(pipe, Head(pipe.back[w])) IN pipe' = SetBack(p, w, Tail(p.back[w]))

LEMMA ForwardBack ==
  ASSUME RrInv, NEW w \in Workers, pipe.back[w] # << >>, Routed(w),
         UNCHANGED <<via, client, worker, broker, signals>>
  PROVE  RrInv'
<1>1. PICK at \in [Clients -> Spots] : Located(at)
  BY DEF RrInv
<1>2. RrTypes /\ pipe \in PipeType
  BY DEF RrInv, RrTypes, PipeType
<1>3. PICK c \in Clients : /\ at[c] = <<"back", w>> /\ Head(pipe.back[w]) = Reps[c]
                           /\ Holding(Tail(pipe.back[w]), At(at, "back", w) \ {c}, Reps)
  BY <1>1, <1>2, BackMessage
<1>4. PICK s \in Spots : s = Delivered(c)
  BY SpotFacts DEF Delivered
<1> DEFINE q == Tail(pipe.back[w])
           at2 == [at EXCEPT ![c] = s]
<1>5. q \in Seq(Mail)
  BY <1>3 DEF Holding
<1>6. at2 \in [Clients -> Spots] /\ at2[c] = Delivered(c) /\ \A d \in Clients : d # c => at2[d] = at[d]
  BY <1>4, AtMoves
<1> HIDE DEF at2
<1>7. /\ pipe' \in PipeType /\ pipe'.front = pipe.front /\ pipe'.to = pipe.to
      /\ pipe'.back[w] = Tail(pipe.back[w]) /\ \A v \in Workers : v # w => pipe'.back[v] = pipe.back[v]
      /\ \A d \in Clients : d # c => pipe'.reply[d] = pipe.reply[d]
      /\ pipe'.reply[c] = IF client[c].pc = "recv" THEN Append(pipe.reply[c], Answered(c, client[c].nbr)) ELSE pipe.reply[c]
  <2>1. CASE pipe' = RouterSend(SetBack(pipe, w, q), Head(pipe.back[w]))
    <3> DEFINE p == SetBack(pipe, w, q)
    <3> HIDE DEF q
    <3>1. /\ p \in PipeType /\ p.front = pipe.front /\ p.to = pipe.to /\ p.reply = pipe.reply
          /\ p.back[w] = q /\ \A v \in Workers : v # w => p.back[v] = pipe.back[v]
      BY <1>2, <1>5, BackPipe
    <3>2. pipe' = RouterSend(p, Reps[c])
      BY <1>3, <2>1
    <3> HIDE DEF p
    <3>3. /\ pipe' \in PipeType /\ pipe'.front = p.front /\ pipe'.to = p.to /\ pipe'.back = p.back
          /\ \A d \in Clients : d # c => pipe'.reply[d] = p.reply[d]
          /\ pipe'.reply[c] = IF client[c].pc = "recv" THEN Append(p.reply[c], Answered(c, client[c].nbr)) ELSE p.reply[c]
      BY <1>2, <3>1, <3>2, RouterFields
    <3> QED
      BY <3>1, <3>3 DEF q
  <2>2. CASE LET p == RouterSend(pipe, Head(pipe.back[w])) IN pipe' = SetBack(p, w, Tail(p.back[w]))
    <3> DEFINE p == RouterSend(pipe, Reps[c])
    <3>1. /\ p \in PipeType /\ p.front = pipe.front /\ p.to = pipe.to /\ p.back = pipe.back
          /\ \A d \in Clients : d # c => p.reply[d] = pipe.reply[d]
          /\ p.reply[c] = IF client[c].pc = "recv" THEN Append(pipe.reply[c], Answered(c, client[c].nbr)) ELSE pipe.reply[c]
      BY <1>2, RouterFields
    <3>2. pipe' = SetBack(p, w, Tail(p.back[w]))
      BY <1>3, <2>2
    <3> HIDE DEF p
    <3>3. pipe' = SetBack(p, w, q)
      BY <3>1, <3>2
    <3> HIDE DEF q
    <3>4. /\ pipe' \in PipeType /\ pipe'.front = p.front /\ pipe'.to = p.to /\ pipe'.reply = p.reply
          /\ pipe'.back[w] = q /\ \A v \in Workers : v # w => pipe'.back[v] = p.back[v]
      BY <1>5, <3>1, <3>3, BackPipe
    <3> QED
      BY <3>1, <3>4 DEF q
  <2> QED
    BY <2>1, <2>2 DEF Routed
<1>8. \A d \in Clients : OneClient(at2, d)'
  BY <1>1, <1>2, <1>3, <1>6, <1>7, ToClient
<1>9. at2[c] \in {<<"none", 0>>, <<"reply", 0>>, <<"broker", 0>>} /\ at2[c] # <<"broker", 0>>
  BY <1>6 DEF Delivered
<1>10. \A v \in Workers : OneWorker(at2, v)'
  BY <1>1, <1>2, <1>3, <1>6, <1>7, <1>9, LeavesBack
<1>11. At(at2, "broker", 0) = At(at, "broker", 0)
  BY <1>3, <1>6, <1>9, AtSame
<1>12. AtBroker(at2)'
  BY <1>1, <1>2, <1>6, <1>11, BrokerSame DEF Located
<1>13. RrTypes'
  BY <1>2, <1>7 DEF RrTypes, PipeType
<1> QED
  BY <1>6, <1>8, <1>10, <1>12, <1>13 DEF RrInv, Located

LEMMA HwServerStep ==
  ASSUME RrInv, NEW w \in Workers, HwServer(w)
  PROVE  RrInv'
<1>1. pipe \in PipeType
  BY DEF RrInv, RrTypes, PipeType
<1>2. ASSUME NEW c \in Clients, pipe.front[c] # << >>, pipe.to[w] = << >>,
             pipe' = [pipe EXCEPT !.front[c] = Tail(@), !.to[w] = <<<<Id(c)>> \o Head(pipe.front[c])>>],
             UNCHANGED <<via, client, worker, broker, signals>>
      PROVE  RrInv'
  <2> DEFINE m == <<Id(c)>> \o Head(pipe.front[c])
             q == Tail(pipe.front[c])
             r == <<m>>
             p == SetFront(pipe, c, q)
  <2>1. pipe' = SetTo(p, w, r)
    BY <1>2 DEF SetTo, SetFront
  <2>2. q = << >> /\ m = Reqs[c] /\ Reqs[c] \in Mail
    <3>1. PICK at \in [Clients -> Spots] : Located(at)
      BY DEF RrInv
    <3>2. q = << >> /\ m = Reqs[c]
      BY <1>2, <3>1, FrontMessage DEF Located, RrInv
    <3>3. Reqs[c] \in Mail
      BY ReqFacts DEF RrInv
    <3> QED
      BY <3>2, <3>3
  <2> HIDE DEF q, m
  <2>3. m \in Mail /\ q \in Seq(Mail)
    BY <2>2
  <2>4. r \in Seq(Mail) /\ Append(<< >>, m) = r
    <3>1. << >> \in Seq(Mail) /\ <<m>> \in Seq(Mail)
      BY <2>3
    <3> QED
      BY <3>1
  <2>5. /\ p \in PipeType /\ p.to = pipe.to /\ p.back = pipe.back /\ p.reply = pipe.reply
        /\ p.front[c] = q /\ \A d \in Clients : d # c => p.front[d] = pipe.front[d]
    BY <1>1, <2>3, FrontPipe
  <2> HIDE DEF r, p
  <2>6. /\ pipe' \in PipeType /\ pipe'.front = p.front /\ pipe'.back = p.back /\ pipe'.reply = p.reply
        /\ pipe'.to[w] = r /\ \A v \in Workers : v # w => pipe'.to[v] = p.to[v]
    BY <2>1, <2>4, <2>5, ToPipe
  <2>7. pipe'.to[w] = Append(pipe.to[w], m)
    BY <1>2, <2>4, <2>6
  <2>8. pipe'.to[w] = Append(pipe.to[w], <<Id(c)>> \o Head(pipe.front[c])) /\ pipe'.front[c] = Tail(pipe.front[c])
    BY <2>5, <2>6, <2>7 DEF m, q
  <2>9. pipe.front[c] # << >> /\ UNCHANGED <<via, client, worker, broker, signals>>
    BY <1>2
  <2> QED
    <3>1. Forwarded(c, w)
      BY <2>5, <2>6, <2>8, <2>9 DEF Forwarded
    <3> QED
      BY <3>1, ForwardFront
<1>3. ASSUME pipe.back[w] # << >>,
             pipe' = [RouterSend(pipe, Head(pipe.back[w])) EXCEPT !.back[w] = Tail(@)],
             UNCHANGED <<via, client, worker, broker, signals>>
      PROVE  RrInv'
  <2>1. LET p == RouterSend(pipe, Head(pipe.back[w])) IN pipe' = SetBack(p, w, Tail(p.back[w]))
    BY <1>3 DEF SetBack
  <2> QED
    BY <1>3, <2>1, ForwardBack DEF Routed
<1> QED
  BY <1>2, <1>3, RepRecvStep, RepSendStep DEF HwServer

LEMMA ProxyStep ==
  ASSUME RrInv, Proxy
  PROVE  RrInv'
<1>1. pipe \in PipeType /\ UNCHANGED <<via, client, worker, broker, signals>> /\ ProxyForward
  BY DEF RrInv, RrTypes, PipeType, Proxy
<1>2. ASSUME NEW c \in Clients, NEW w \in Live, pipe.front[c] # << >>,
             pipe' = DealerSend([pipe EXCEPT !.front[c] = Tail(@)], <<Id(c)>> \o Head(pipe.front[c]), w)
      PROVE  RrInv'
  <2>1. w \in Workers
    BY DEF Live
  <2> DEFINE m == <<Id(c)>> \o Head(pipe.front[c])
             q == Tail(pipe.front[c])
             p == SetFront(pipe, c, q)
             r == Append(p.to[w], m)
  <2>2. pipe' = SetTo(p, w, r)
    BY <1>2 DEF SetTo, SetFront, DealerSend
  <2>3. q = << >> /\ m = Reqs[c] /\ Reqs[c] \in Mail
    <3>1. PICK at \in [Clients -> Spots] : Located(at)
      BY DEF RrInv
    <3>2. q = << >> /\ m = Reqs[c]
      BY <1>2, <3>1, FrontMessage DEF Located, RrInv
    <3>3. Reqs[c] \in Mail
      BY ReqFacts DEF RrInv
    <3> QED
      BY <3>2, <3>3
  <2> HIDE DEF q, m
  <2>4. m \in Mail /\ q \in Seq(Mail)
    BY <2>3
  <2>5. /\ p \in PipeType /\ p.to = pipe.to /\ p.back = pipe.back /\ p.reply = pipe.reply
        /\ p.front[c] = q /\ \A d \in Clients : d # c => p.front[d] = pipe.front[d]
    BY <1>1, <2>4, FrontPipe
  <2> HIDE DEF p
  <2>6. r \in Seq(Mail)
    BY <2>1, <2>4, <2>5 DEF PipeType
  <2> HIDE DEF r
  <2>7. /\ pipe' \in PipeType /\ pipe'.front = p.front /\ pipe'.back = p.back /\ pipe'.reply = p.reply
        /\ pipe'.to[w] = r /\ \A v \in Workers : v # w => pipe'.to[v] = p.to[v]
    BY <2>1, <2>2, <2>5, <2>6, ToPipe
  <2>8. pipe'.to[w] = Append(pipe.to[w], <<Id(c)>> \o Head(pipe.front[c])) /\ pipe'.front[c] = Tail(pipe.front[c])
    BY <2>5, <2>7 DEF m, q, r
  <2>9. pipe.front[c] # << >> /\ UNCHANGED <<via, client, worker, broker, signals>>
    BY <1>1, <1>2
  <2> QED
    <3>1. Forwarded(c, w)
      BY <2>5, <2>7, <2>8, <2>9 DEF Forwarded
    <3> QED
      BY <2>1, <3>1, ForwardFront
<1>3. ASSUME NEW w \in Workers, pipe.back[w] # << >>,
             pipe' = RouterSend([pipe EXCEPT !.back[w] = Tail(@)], Head(pipe.back[w]))
      PROVE  RrInv'
  <2>1. pipe' = RouterSend(SetBack(pipe, w, Tail(pipe.back[w])), Head(pipe.back[w]))
    BY <1>3 DEF SetBack
  <2> QED
    BY <1>1, <1>3, <2>1, ForwardBack DEF Routed
<1> QED
  BY <1>1, <1>2, <1>3 DEF ProxyForward

LEMMA PollStep ==
  ASSUME RrInv, Poll
  PROVE  RrInv'
<1>1. PICK at \in [Clients -> Spots] : Located(at)
  BY DEF RrInv
<1>2. RrTypes
  BY DEF RrInv
<1>3. UNCHANGED <<via, client, worker, pipe, signals>> /\ broker.at = "poll"
  BY DEF Poll
<1>4. broker.rest = << >>
  BY <1>1, <1>3 DEF Located, AtBroker
<1>5. /\ broker' \in [at : {"poll", "front", "back", "ended"}, revents : SUBSET {"front", "back"}, rest : Seq(Frames), out : Seq(Frames)]
      /\ broker'.rest = broker.rest /\ broker'.out = broker.out
  <2>1. Readable \in SUBSET {"front", "back"}
    BY DEF Readable
  <2>2. broker \in [at : {"poll", "front", "back", "ended"}, revents : SUBSET {"front", "back"}, rest : Seq(Frames), out : Seq(Frames)]
    BY <1>2 DEF RrTypes
  <2>3. broker' = [broker EXCEPT !.revents = Readable, !.at = IF "front" \in Readable THEN "front" ELSE "back"]
    BY DEF Poll
  <2> DEFINE x == IF "front" \in Readable THEN "front" ELSE "back"
  <2>4. x \in {"front", "back"}
    OBVIOUS
  <2> HIDE DEF x
  <2> QED
    BY <2>1, <2>2, <2>3, <2>4 DEF x
<1>6. AtBroker(at)'
  BY <1>1, <1>2, <1>3, <1>4, <1>5, BrokerSame DEF Located
<1>7. ASSUME NEW d \in Clients PROVE OneClient(at, d)'
  BY <1>1, <1>3, ClientSame DEF Located
<1>8. ASSUME NEW v \in Workers PROVE OneWorker(at, v)'
  BY <1>1, <1>3, WorkerSame DEF Located
<1>9. RrTypes'
  BY <1>2, <1>3, <1>5 DEF RrTypes
<1> QED
  BY <1>6, <1>7, <1>8, <1>9 DEF RrInv, Located

LEMMA PollInterruptedStep ==
  ASSUME RrInv, PollInterrupted
  PROVE  RrInv'
<1>1. PICK at \in [Clients -> Spots] : Located(at)
  BY DEF RrInv
<1>2. RrTypes /\ signals \in Nat
  BY DEF RrInv, RrTypes
<1>3. /\ UNCHANGED <<via, client, worker, pipe>> /\ broker.at = "poll"
      /\ signals' \in Nat /\ signals' # 0
  BY <1>2 DEF PollInterrupted
<1>4. broker.rest = << >>
  BY <1>1, <1>3 DEF Located, AtBroker
<1>5. /\ broker' \in [at : {"poll", "front", "back", "ended"}, revents : SUBSET {"front", "back"}, rest : Seq(Frames), out : Seq(Frames)]
      /\ broker'.rest = broker.rest /\ broker'.out = broker.out
  BY <1>2 DEF RrTypes, PollInterrupted
<1>6. AtBroker(at)'
  BY <1>1, <1>2, <1>3, <1>4, <1>5, BrokerSame DEF Located
<1>7. ASSUME NEW d \in Clients PROVE OneClient(at, d)'
  BY <1>1, <1>3, ClientSame DEF Located
<1>8. ASSUME NEW v \in Workers PROVE OneWorker(at, v)'
  BY <1>1, <1>3, WorkerSame DEF Located
<1>9. RrTypes'
  BY <1>2, <1>3, <1>5 DEF RrTypes
<1> QED
  BY <1>6, <1>7, <1>8, <1>9 DEF RrInv, Located

(* The loop copies a message of three frames in three passes.              *)
LEMMA FrameAppended ==
  ASSUME NEW S, NEW x \in S, NEW y \in S, NEW z \in S
  PROVE  Append(<< >>, x) = <<x>> /\ Append(<<x>>, y) = <<x, y>> /\ Append(<<x, y>>, z) = <<x, y, z>>
<1>1. ASSUME NEW s \in Seq(S), Len(s) = 1, s[1] = x PROVE s = <<x>>
  BY <1>1
<1>2. ASSUME NEW s \in Seq(S), Len(s) = 2, s[1] = x, s[2] = y PROVE s = <<x, y>>
  BY <1>2
<1>3. ASSUME NEW s \in Seq(S), Len(s) = 3, s[1] = x, s[2] = y, s[3] = z PROVE s = <<x, y, z>>
  BY <1>3
<1>4. << >> \in Seq(S) /\ <<x>> \in Seq(S) /\ <<x, y>> \in Seq(S)
  OBVIOUS
<1>5. Append(<< >>, x) = <<x>>
  <2> DEFINE s == Append(<< >>, x)
  <2>1. s \in Seq(S) /\ Len(s) = 1 /\ s[1] = x
    BY <1>4
  <2> HIDE DEF s
  <2>2. s = <<x>>
    BY <1>1, <2>1
  <2> QED
    BY <2>2 DEF s
<1>6. Append(<<x>>, y) = <<x, y>>
  <2> DEFINE s == Append(<<x>>, y)
  <2>1. s \in Seq(S) /\ Len(s) = 2 /\ s[1] = x /\ s[2] = y
    BY <1>4
  <2> HIDE DEF s
  <2>2. s = <<x, y>>
    BY <1>2, <2>1
  <2> QED
    BY <2>2 DEF s
<1>7. Append(<<x, y>>, z) = <<x, y, z>>
  <2> DEFINE s == Append(<<x, y>>, z)
  <2>1. s \in Seq(S) /\ Len(s) = 3 /\ s[1] = x /\ s[2] = y /\ s[3] = z
    BY <1>4
  <2> HIDE DEF s
  <2>2. s = <<x, y, z>>
    BY <1>3, <2>1
  <2> QED
    BY <2>2 DEF s
<1> QED
  BY <1>5, <1>6, <1>7

LEMMA CopyFacts ==
  ASSUME NEW x \in Frames, NEW y \in Frames, NEW z \in Frames
  PROVE  /\ broker.out = << >> => LET s == CopyFrame(<<x, y, z>>) IN
              s.more /\ s.rest = <<y, z>> /\ s.out = <<x>> /\ s.sent = << >>
         /\ broker.out = <<x>> => LET s == CopyFrame(<<y, z>>) IN
              s.more /\ s.rest = <<z>> /\ s.out = <<x, y>> /\ s.sent = << >>
         /\ broker.out = <<x, y>> => LET s == CopyFrame(<<z>>) IN
              ~ s.more /\ s.rest = << >> /\ s.out = << >> /\ s.sent = <<<<x, y, z>>>>
<1>1. /\ << >> \in Seq(Frames) /\ <<x>> \in Seq(Frames) /\ <<x, y>> \in Seq(Frames) /\ <<x, y, z>> \in Seq(Frames)
      /\ <<z>> \in Seq(Frames) /\ <<y, z>> \in Seq(Frames)
  OBVIOUS
<1>2. /\ Len(<<x, y, z>>) > 1 /\ Len(<<y, z>>) > 1 /\ ~ (Len(<<z>>) > 1)
      /\ Head(<<x, y, z>>) = x /\ Head(<<y, z>>) = y /\ Head(<<z>>) = z
      /\ Tail(<<x, y, z>>) = <<y, z>> /\ Tail(<<y, z>>) = <<z>> /\ Tail(<<z>>) = << >>
  BY <1>1
<1>3. Append(<< >>, x) = <<x>> /\ Append(<<x>>, y) = <<x, y>> /\ Append(<<x, y>>, z) = <<x, y, z>>
  BY FrameAppended
<1>4. ASSUME NEW f
      PROVE  LET s == CopyFrame(f)
                 out == Append(broker.out, Head(f)) IN
             /\ s.more = (Len(f) > 1) /\ s.rest = Tail(f)
             /\ Len(f) > 1 => s.out = out /\ s.sent = << >>
             /\ ~ (Len(f) > 1) => s.out = << >> /\ s.sent = <<out>>
  BY DEF CopyFrame
<1>5. ASSUME broker.out = << >> PROVE LET s == CopyFrame(<<x, y, z>>) IN
        s.more /\ s.rest = <<y, z>> /\ s.out = <<x>> /\ s.sent = << >>
  BY <1>2, <1>3, <1>4, <1>5
<1>6. ASSUME broker.out = <<x>> PROVE LET s == CopyFrame(<<y, z>>) IN
        s.more /\ s.rest = <<z>> /\ s.out = <<x, y>> /\ s.sent = << >>
  BY <1>2, <1>3, <1>4, <1>6
<1>7. ASSUME broker.out = <<x, y>> PROVE LET s == CopyFrame(<<z>>) IN
        ~ s.more /\ s.rest = << >> /\ s.out = << >> /\ s.sent = <<<<x, y, z>>>>
  BY <1>2, <1>3, <1>4, <1>7
<1> QED
  BY <1>5, <1>6, <1>7

BrokerType == [at : {"poll", "front", "back", "ended"}, revents : SUBSET {"front", "back"},
               rest : Seq(Frames), out : Seq(Frames)]

(* Three frames of a message, and that the loop has none, one or two of    *)
(* them copied.                                                            *)
LEMMA ThreeFrames ==
  ASSUME RrTypes, NEW c \in Clients
  PROVE  /\ Reqs[c] = <<Reqs[c][1], Reqs[c][2], Reqs[c][3]>> /\ Reps[c] = <<Reps[c][1], Reps[c][2], Reps[c][3]>>
         /\ Reqs[c][1] \in Frames /\ Reqs[c][2] \in Frames /\ Reqs[c][3] \in Frames
         /\ Reps[c][1] \in Frames /\ Reps[c][2] \in Frames /\ Reps[c][3] \in Frames
<1> DEFINE n == client[c].nbr
<1>1. Reqs[c] = Request1(c, n) /\ Reps[c] = Reply1(c, n) /\ n \in Nat
  BY ReqFacts
<1> HIDE DEF n
<1>2. Id(c) \in Frames /\ Empty \in Frames /\ Hello(c, n) \in Frames /\ World(Hello(c, n)) \in Frames
  BY <1>1 DEF Frames
<1>3. \A x, y, z : <<x, y, z>>[1] = x /\ <<x, y, z>>[2] = y /\ <<x, y, z>>[3] = z
  OBVIOUS
<1> QED
  BY <1>1, <1>2, <1>3 DEF Request1, Reply1

(* The loop starts with the message of client c.                           *)
LEMMA BrokerTakes ==
  ASSUME RrTypes, NEW at \in [Clients -> Spots], NEW at2 \in [Clients -> Spots], AtBroker(at), NEW c \in Clients,
         broker.rest = << >>, at2[c] = <<"broker", 0>>, \A d \in Clients : d # c => at2[d] = at[d],
         NEW m, \/ broker.at = "front" /\ m = Reqs[c]
                \/ broker.at = "back" /\ m = Reps[c],
         broker' = [broker EXCEPT !.rest = <<m[2], m[3]>>, !.out = <<m[1]>>, !.at = broker.at], client' = client
  PROVE  AtBroker(at2)' /\ broker' \in BrokerType
<1>1. m[1] \in Frames /\ m[2] \in Frames /\ m[3] \in Frames
  BY ThreeFrames
<1>2. broker \in BrokerType
  BY DEF RrTypes, BrokerType
<1> DEFINE r == <<m[2], m[3]>>
           o == <<m[1]>>
<1>3. r \in Seq(Frames) /\ o \in Seq(Frames) /\ r # << >>
  BY <1>1
<1> HIDE DEF r, o
<1>4. broker' \in BrokerType /\ broker'.rest = r /\ broker'.out = o /\ broker'.at = broker.at
  BY <1>2, <1>3 DEF BrokerType, r, o
<1>5. At(at, "broker", 0) = {}
  BY DEF AtBroker
<1>6. At(at2, "broker", 0) = {c}
  BY <1>5 DEF At
<1>7. At(at2, "broker", 0)' = {c}
  BY <1>6 DEF At
<1>8. Reqs'[c] = Reqs[c] /\ Reps'[c] = Reps[c]
  BY ReqsSame
<1>9. \/ broker'.at = "front" /\ HalfCopied(Reqs[c])'
      \/ broker'.at = "back" /\ HalfCopied(Reps[c])'
  BY <1>4, <1>8 DEF HalfCopied, r, o
<1> QED
  BY <1>3, <1>4, <1>7, <1>9 DEF AtBroker

(* A later pass of the loop sends the second frame or the whole message.   *)
LEMMA LoopFacts ==
  ASSUME RrTypes, NEW at, AtBroker(at), broker.rest # << >>
  PROVE  \E c \in Clients : \E m \in {Reqs[c], Reps[c]} :
           /\ At(at, "broker", 0) = {c}
           /\ \/ broker.at = "front" /\ m = Reqs[c]
              \/ broker.at = "back" /\ m = Reps[c]
           /\ LET s == CopyFrame(broker.rest) IN
              \/ s.more /\ s.rest = <<m[3]>> /\ s.out = <<m[1], m[2]>> /\ s.sent = << >>
              \/ ~ s.more /\ s.rest = << >> /\ s.out = << >> /\ s.sent = <<m>>
<1>1. PICK c \in Clients : /\ At(at, "broker", 0) = {c}
                           /\ \/ broker.at = "front" /\ HalfCopied(Reqs[c])
                              \/ broker.at = "back" /\ HalfCopied(Reps[c])
  BY DEF AtBroker
<1>2. PICK m \in {Reqs[c], Reps[c]} : /\ HalfCopied(m)
                                      /\ \/ broker.at = "front" /\ m = Reqs[c]
                                         \/ broker.at = "back" /\ m = Reps[c]
  BY <1>1
<1>3. m = <<m[1], m[2], m[3]>> /\ m[1] \in Frames /\ m[2] \in Frames /\ m[3] \in Frames
  BY ThreeFrames
<1>4. CASE broker.out = <<m[1]>> /\ broker.rest = <<m[2], m[3]>>
  <2>1. LET s == CopyFrame(<<m[2], m[3]>>) IN s.more /\ s.rest = <<m[3]>> /\ s.out = <<m[1], m[2]>> /\ s.sent = << >>
    BY <1>3, <1>4, CopyFacts
  <2>2. LET s == CopyFrame(broker.rest) IN s.more /\ s.rest = <<m[3]>> /\ s.out = <<m[1], m[2]>> /\ s.sent = << >>
    BY <1>4, <2>1
  <2> QED
    BY <1>1, <1>2, <2>2
<1>5. CASE broker.out = <<m[1], m[2]>> /\ broker.rest = <<m[3]>>
  <2>1. LET s == CopyFrame(<<m[3]>>) IN ~ s.more /\ s.rest = << >> /\ s.out = << >> /\ s.sent = <<<<m[1], m[2], m[3]>>>>
    BY <1>3, <1>5, CopyFacts
  <2>2. LET s == CopyFrame(broker.rest) IN ~ s.more /\ s.rest = << >> /\ s.out = << >> /\ s.sent = <<m>>
    BY <1>3, <1>5, <2>1
  <2> QED
    BY <1>1, <1>2, <2>2
<1> QED
  BY <1>2, <1>4, <1>5 DEF HalfCopied

LEMMA BrokerGoesOn ==
  ASSUME RrTypes, NEW at, NEW c \in Clients, At(at, "broker", 0) = {c},
         NEW m, \/ broker.at = "front" /\ m = Reqs[c]
                \/ broker.at = "back" /\ m = Reps[c],
         broker' = [broker EXCEPT !.rest = <<m[3]>>, !.out = <<m[1], m[2]>>, !.at = broker.at], client' = client
  PROVE  AtBroker(at)' /\ broker' \in BrokerType
<1>1. m[1] \in Frames /\ m[2] \in Frames /\ m[3] \in Frames
  BY ThreeFrames
<1>2. broker \in BrokerType
  BY DEF RrTypes, BrokerType
<1> DEFINE r == <<m[3]>>
           o == <<m[1], m[2]>>
<1>3. r \in Seq(Frames) /\ o \in Seq(Frames) /\ r # << >>
  BY <1>1
<1> HIDE DEF r, o
<1>4. broker' \in BrokerType /\ broker'.rest = r /\ broker'.out = o /\ broker'.at = broker.at
  BY <1>2, <1>3 DEF BrokerType, r, o
<1>5. At(at, "broker", 0)' = {c}
  BY DEF At
<1>6. Reqs'[c] = Reqs[c] /\ Reps'[c] = Reps[c]
  BY ReqsSame
<1>7. \/ broker'.at = "front" /\ HalfCopied(Reqs[c])'
      \/ broker'.at = "back" /\ HalfCopied(Reps[c])'
  BY <1>4, <1>6 DEF HalfCopied, r, o
<1> QED
  BY <1>3, <1>4, <1>5, <1>7 DEF AtBroker

LEMMA BrokerDone ==
  ASSUME NEW at \in [Clients -> Spots], NEW at2 \in [Clients -> Spots], NEW c \in Clients,
         At(at, "broker", 0) = {c}, at2[c] # <<"broker", 0>>, \A d \in Clients : d # c => at2[d] = at[d],
         broker'.rest = << >>, broker'.out = << >>
  PROVE  AtBroker(at2)'
<1>1. At(at2, "broker", 0)' = {}
  BY DEF At
<1> QED
  BY <1>1 DEF AtBroker

LEMMA BrokerReset ==
  ASSUME NEW b \in BrokerType, NEW x \in {"front", "back", "poll"}
  PROVE  LET r == [b EXCEPT !.rest = << >>, !.out = << >>, !.at = x] IN
         r \in BrokerType /\ r.rest = << >> /\ r.out = << >>
<1> DEFINE q == << >>
           r == [b EXCEPT !.rest = q, !.out = q, !.at = x]
<1>1. q \in Seq(Frames)
  OBVIOUS
<1> HIDE DEF q
<1>2. r \in BrokerType /\ r.rest = q /\ r.out = q
  BY <1>1 DEF BrokerType
<1> QED
  BY <1>2 DEF q

(* A pass that only moves a frame inside the broker.                       *)
LEMMA MiddleFrame ==
  ASSUME RrTypes, NEW at \in [Clients -> Spots], Located(at), broker.rest # << >>, via = "rrbroker",
         NEW c \in Clients, At(at, "broker", 0) = {c}, NEW m,
         \/ broker.at = "front" /\ m = Reqs[c]
         \/ broker.at = "back" /\ m = Reps[c],
         broker' = [broker EXCEPT !.rest = <<m[3]>>, !.out = <<m[1], m[2]>>, !.at = broker.at],
         UNCHANGED <<via, client, worker, pipe, signals>>
  PROVE  RrInv'
<1>1. AtBroker(at)' /\ broker' \in BrokerType
  BY BrokerGoesOn
<1>2. ASSUME NEW d \in Clients PROVE OneClient(at, d)'
  BY ClientSame DEF Located
<1>3. ASSUME NEW v \in Workers PROVE OneWorker(at, v)'
  BY WorkerSame DEF Located
<1>4. RrTypes'
  BY <1>1 DEF RrTypes, BrokerType
<1> QED
  BY <1>1, <1>2, <1>3, <1>4 DEF RrInv, Located

LEMMA CopyFrontStep ==
  ASSUME RrInv, via = "rrbroker", CopyFront
  PROVE  RrInv'
<1>1. PICK at \in [Clients -> Spots] : Located(at)
  BY DEF RrInv
<1>2. RrTypes /\ pipe \in PipeType
  BY DEF RrInv, RrTypes, PipeType
<1>3. broker.at = "front" /\ UNCHANGED <<via, client, worker, signals>>
  BY DEF CopyFront
<1>4. CASE broker.rest = << >>
  <2>1. PICK c \in Clients, w \in Live :
          LET step == CopyFrame(<<Id(c)>> \o Head(pipe.front[c])) IN
          /\ pipe.front[c] # << >>
          /\ LET p == [pipe EXCEPT !.front[c] = Tail(@)] IN
             pipe' = IF step.sent = << >> THEN p ELSE DealerSend(p, step.sent[1], w)
          /\ broker' = [broker EXCEPT !.rest = step.rest, !.out = step.out,
               !.at = IF step.more THEN "front" ELSE IF "back" \in broker.revents THEN "back" ELSE "poll"]
    BY <1>4 DEF CopyFront
  <2>2. at[c] = <<"front", 0>> /\ Tail(pipe.front[c]) = << >> /\ <<Id(c)>> \o Head(pipe.front[c]) = Reqs[c]
    BY <1>1, <1>2, <2>1, FrontMessage DEF Located
  <2> DEFINE m == Reqs[c]
             step == CopyFrame(m)
  <2>3. step.more /\ step.rest = <<m[2], m[3]>> /\ step.out = <<m[1]>> /\ step.sent = << >>
    <3>1. broker.out = << >>
      BY <1>1, <1>4 DEF Located, AtBroker
    <3>2. m = <<m[1], m[2], m[3]>> /\ m[1] \in Frames /\ m[2] \in Frames /\ m[3] \in Frames
      BY <1>2, ThreeFrames
    <3> HIDE DEF m
    <3>3. LET s == CopyFrame(<<m[1], m[2], m[3]>>) IN s.more /\ s.rest = <<m[2], m[3]>> /\ s.out = <<m[1]>> /\ s.sent = << >>
      BY <3>1, <3>2, CopyFacts
    <3> QED
      BY <3>2, <3>3
  <2>4. /\ pipe' = [pipe EXCEPT !.front[c] = << >>]
        /\ broker' = [broker EXCEPT !.rest = <<m[2], m[3]>>, !.out = <<m[1]>>, !.at = broker.at]
    <3> HIDE DEF m
    <3>1. <<Id(c)>> \o Head(pipe.front[c]) = m
      BY <2>2 DEF m
    <3>2. /\ pipe' = IF step.sent = << >> THEN [pipe EXCEPT !.front[c] = Tail(@)]
                     ELSE DealerSend([pipe EXCEPT !.front[c] = Tail(@)], step.sent[1], w)
          /\ broker' = [broker EXCEPT !.rest = step.rest, !.out = step.out,
               !.at = IF step.more THEN "front" ELSE IF "back" \in broker.revents THEN "back" ELSE "poll"]
      BY <2>1, <3>1
    <3> HIDE DEF step
    <3> QED
      BY <1>3, <2>2, <2>3, <3>2
  <2> DEFINE at2 == [at EXCEPT ![c] = <<"broker", 0>>]
             q == << >>
  <2>5. at2 \in [Clients -> Spots] /\ at2[c] = <<"broker", 0>> /\ \A d \in Clients : d # c => at2[d] = at[d]
    BY SpotFacts, AtMoves
  <2> HIDE DEF at2
  <2>6. AtBroker(at2)' /\ broker' \in BrokerType
    BY <1>1, <1>2, <1>3, <1>4, <2>4, <2>5, BrokerTakes DEF Located
  <2>7. q \in Seq(Mail) /\ pipe' = SetFront(pipe, c, q)
    BY <2>4 DEF SetFront
  <2> HIDE DEF q
  <2>8. /\ pipe' \in PipeType /\ pipe'.to = pipe.to /\ pipe'.back = pipe.back /\ pipe'.reply = pipe.reply
        /\ pipe'.front[c] = q /\ \A d \in Clients : d # c => pipe'.front[d] = pipe.front[d]
    BY <1>2, <2>7, FrontPipe
  <2>9. ASSUME NEW d \in Clients, d # c PROVE OneClient(at2, d)'
    BY <1>1, <1>3, <2>5, <2>8, <2>9, ClientSame DEF Located
  <2>10. OneClient(at2, c)'
    <3>1. OneClient(at, c) /\ at[c] # <<"none", 0>> /\ at[c] # <<"reply", 0>>
      BY <1>1, <2>2 DEF Located
    <3>2. pipe'.reply[c] = << >> /\ pipe'.front[c] = << >>
      BY <2>8, <3>1, ClientEmpty DEF q
    <3>3. at2[c] \notin {<<"none", 0>>, <<"front", 0>>, <<"reply", 0>>}
      BY <2>5
    <3> QED
      BY <1>3, <3>1, <3>2, <3>3, ClientAway
  <2>11. ASSUME NEW v \in Workers PROVE OneWorker(at2, v)'
    <3>1. \A tag \in {"to", "work", "back"} : at[c] # <<tag, v>> /\ at2[c] # <<tag, v>>
      BY <2>2, <2>5
    <3> QED
      BY <1>1, <1>3, <2>5, <2>8, <3>1, WorkersApart
  <2>12. RrTypes'
    BY <1>2, <1>3, <2>6, <2>8 DEF RrTypes, PipeType, BrokerType
  <2> QED
    BY <2>5, <2>6, <2>9, <2>10, <2>11, <2>12 DEF RrInv, Located
<1>5. CASE broker.rest # << >>
  <2>1. PICK w \in Live :
          LET step == CopyFrame(broker.rest) IN
          /\ pipe' = IF step.sent = << >> THEN pipe ELSE DealerSend(pipe, step.sent[1], w)
          /\ broker' = [broker EXCEPT !.rest = step.rest, !.out = step.out,
               !.at = IF step.more THEN "front" ELSE IF "back" \in broker.revents THEN "back" ELSE "poll"]
    BY <1>5 DEF CopyFront
  <2> DEFINE step == CopyFrame(broker.rest)
  <2>2. PICK c \in Clients : /\ At(at, "broker", 0) = {c}
                             /\ LET m == Reqs[c] IN
                                \/ step.more /\ step.rest = <<m[3]>> /\ step.out = <<m[1], m[2]>> /\ step.sent = << >>
                                \/ ~ step.more /\ step.rest = << >> /\ step.out = << >> /\ step.sent = <<m>>
    <3>1. broker.at # "back"
      BY <1>3
    <3> HIDE DEF step
    <3>2. \E c \in Clients : \E m \in {Reqs[c], Reps[c]} :
           /\ At(at, "broker", 0) = {c}
           /\ \/ broker.at = "front" /\ m = Reqs[c]
              \/ broker.at = "back" /\ m = Reps[c]
           /\ \/ step.more /\ step.rest = <<m[3]>> /\ step.out = <<m[1], m[2]>> /\ step.sent = << >>
              \/ ~ step.more /\ step.rest = << >> /\ step.out = << >> /\ step.sent = <<m>>
      BY <1>1, <1>2, <1>5, LoopFacts DEF Located, step
    <3> QED
      BY <3>1, <3>2
  <2> DEFINE m == Reqs[c]
  <2> HIDE DEF m, step
  <2>3. CASE step.more /\ step.rest = <<m[3]>> /\ step.out = <<m[1], m[2]>> /\ step.sent = << >>
    <3>1. /\ pipe' = pipe
          /\ broker' = [broker EXCEPT !.rest = <<m[3]>>, !.out = <<m[1], m[2]>>, !.at = broker.at]
      BY <1>3, <2>1, <2>3 DEF step
    <3>2. m = Reqs[c]
      BY DEF m
    <3> QED
      BY <1>1, <1>2, <1>3, <1>5, <2>2, <3>1, <3>2, MiddleFrame
  <2>4. CASE ~ step.more /\ step.rest = << >> /\ step.out = << >> /\ step.sent = <<m>>
    <3> DEFINE x == IF "back" \in broker.revents THEN "back" ELSE "poll"
    <3>1. x \in {"front", "back", "poll"}
      OBVIOUS
    <3>2. <<m>> # << >> /\ <<m>>[1] = m
      OBVIOUS
    <3>3. /\ pipe' = DealerSend(pipe, m, w)
          /\ broker' = [broker EXCEPT !.rest = << >>, !.out = << >>, !.at = x]
      BY <2>1, <2>4, <3>2 DEF step
    <3> HIDE DEF x
    <3>4. w \in Workers /\ at[c] = <<"broker", 0>>
      BY <2>2 DEF Live, At
    <3> DEFINE at2 == [at EXCEPT ![c] = <<"to", w>>]
               q == Append(pipe.to[w], m)
    <3>5. at2 \in [Clients -> Spots] /\ at2[c] = <<"to", w>> /\ \A d \in Clients : d # c => at2[d] = at[d]
      BY <3>4, SpotFacts, AtMoves
    <3> HIDE DEF at2
    <3>6. broker' \in BrokerType /\ broker'.rest = << >> /\ broker'.out = << >>
      <4>1. broker \in BrokerType
        BY <1>2 DEF RrTypes, BrokerType
      <4> QED
        BY <3>1, <3>3, <4>1, BrokerReset
    <3>7. at2[c] # <<"broker", 0>>
      BY <3>5
    <3>8. AtBroker(at2)' /\ broker' \in BrokerType
      BY <2>2, <3>5, <3>6, <3>7, BrokerDone
    <3>9. q \in Seq(Mail) /\ pipe' = SetTo(pipe, w, q)
      <4>1. m \in Mail
        BY <1>2, ReqFacts DEF m
      <4> QED
        BY <1>2, <3>3, <3>4, <4>1 DEF PipeType, SetTo, DealerSend
    <3> HIDE DEF q
    <3>10. /\ pipe' \in PipeType /\ pipe'.front = pipe.front /\ pipe'.back = pipe.back /\ pipe'.reply = pipe.reply
          /\ pipe'.to[w] = q /\ \A v \in Workers : v # w => pipe'.to[v] = pipe.to[v]
      BY <1>2, <3>4, <3>9, ToPipe
    <3>11. pipe'.front[c] = << >> /\ pipe'.to[w] = Append(pipe.to[w], Reqs[c])
      <4>1. OneClient(at, c) /\ at[c] # <<"front", 0>>
        BY <1>1, <3>4 DEF Located
      <4> QED
        BY <3>10, <4>1, ClientEmpty DEF q, m
    <3>12. Located(at2)'
      BY <1>1, <1>2, <1>3, <3>4, <3>5, <3>8, <3>10, <3>11, ToWorker
    <3>13. RrTypes'
      BY <1>2, <1>3, <3>8, <3>10 DEF RrTypes, PipeType, BrokerType
    <3> QED
      BY <3>5, <3>12, <3>13 DEF RrInv
  <2> QED
    BY <2>2, <2>3, <2>4 DEF m
<1> QED
  BY <1>4, <1>5

LEMMA CopyBackStep ==
  ASSUME RrInv, via = "rrbroker", CopyBack
  PROVE  RrInv'
<1>1. PICK at \in [Clients -> Spots] : Located(at)
  BY DEF RrInv
<1>2. RrTypes /\ pipe \in PipeType
  BY DEF RrInv, RrTypes, PipeType
<1>3. broker.at = "back" /\ UNCHANGED <<via, client, worker, signals>>
  BY DEF CopyBack
<1>4. CASE broker.rest = << >>
  <2>1. PICK w \in Workers :
          LET step == CopyFrame(Head(pipe.back[w])) IN
          /\ pipe.back[w] # << >>
          /\ LET p == [pipe EXCEPT !.back[w] = Tail(@)] IN
             pipe' = IF step.sent = << >> THEN p ELSE RouterSend(p, step.sent[1])
          /\ broker' = [broker EXCEPT !.rest = step.rest, !.out = step.out,
                                      !.at = IF step.more THEN "back" ELSE "poll"]
    BY <1>4 DEF CopyBack
  <2>2. PICK c \in Clients : /\ at[c] = <<"back", w>> /\ Head(pipe.back[w]) = Reps[c]
                             /\ Holding(Tail(pipe.back[w]), At(at, "back", w) \ {c}, Reps)
    BY <1>1, <1>2, <2>1, BackMessage
  <2> DEFINE m == Reps[c]
             step == CopyFrame(m)
             q == Tail(pipe.back[w])
  <2>3. step.more /\ step.rest = <<m[2], m[3]>> /\ step.out = <<m[1]>> /\ step.sent = << >>
    <3>1. broker.out = << >>
      BY <1>1, <1>4 DEF Located, AtBroker
    <3>2. m = <<m[1], m[2], m[3]>> /\ m[1] \in Frames /\ m[2] \in Frames /\ m[3] \in Frames
      BY <1>2, ThreeFrames
    <3> HIDE DEF m
    <3>3. LET s == CopyFrame(<<m[1], m[2], m[3]>>) IN s.more /\ s.rest = <<m[2], m[3]>> /\ s.out = <<m[1]>> /\ s.sent = << >>
      BY <3>1, <3>2, CopyFacts
    <3> QED
      BY <3>2, <3>3
  <2>4. /\ pipe' = SetBack(pipe, w, q)
        /\ broker' = [broker EXCEPT !.rest = <<m[2], m[3]>>, !.out = <<m[1]>>, !.at = broker.at]
    <3> HIDE DEF m
    <3>1. Head(pipe.back[w]) = m
      BY <2>2 DEF m
    <3>2. /\ pipe' = IF step.sent = << >> THEN [pipe EXCEPT !.back[w] = Tail(@)]
                     ELSE RouterSend([pipe EXCEPT !.back[w] = Tail(@)], step.sent[1])
          /\ broker' = [broker EXCEPT !.rest = step.rest, !.out = step.out,
                                      !.at = IF step.more THEN "back" ELSE "poll"]
      BY <2>1, <3>1
    <3> HIDE DEF step
    <3> QED
      BY <1>3, <2>3, <3>2 DEF SetBack
  <2> DEFINE at2 == [at EXCEPT ![c] = <<"broker", 0>>]
  <2>5. at2 \in [Clients -> Spots] /\ at2[c] = <<"broker", 0>> /\ \A d \in Clients : d # c => at2[d] = at[d]
    BY SpotFacts, AtMoves
  <2> HIDE DEF at2
  <2>6. AtBroker(at2)' /\ broker' \in BrokerType
    BY <1>1, <1>2, <1>3, <1>4, <2>4, <2>5, BrokerTakes DEF Located
  <2>7. q \in Seq(Mail) /\ Holding(q, At(at, "back", w) \ {c}, Reps)
    BY <2>2 DEF Holding
  <2> HIDE DEF q
  <2>8. /\ pipe' \in PipeType /\ pipe'.front = pipe.front /\ pipe'.to = pipe.to /\ pipe'.reply = pipe.reply
        /\ pipe'.back[w] = q /\ \A v \in Workers : v # w => pipe'.back[v] = pipe.back[v]
    BY <1>2, <2>4, <2>7, BackPipe
  <2>9. ASSUME NEW d \in Clients, d # c PROVE OneClient(at2, d)'
    BY <1>1, <1>3, <2>5, <2>8, <2>9, ClientSame DEF Located
  <2>10. OneClient(at2, c)'
    <3>1. OneClient(at, c) /\ at[c] # <<"none", 0>> /\ at[c] # <<"reply", 0>> /\ at[c] # <<"front", 0>>
      BY <1>1, <2>2 DEF Located
    <3>2. pipe'.reply[c] = << >> /\ pipe'.front[c] = << >>
      BY <2>8, <3>1, ClientEmpty
    <3>3. at2[c] \notin {<<"none", 0>>, <<"front", 0>>, <<"reply", 0>>}
      BY <2>5
    <3> QED
      BY <1>3, <3>1, <3>2, <3>3, ClientAway
  <2>11. Holding(pipe'.back[w], At(at, "back", w) \ {c}, Reps) /\ at2[c] \in {<<"none", 0>>, <<"reply", 0>>, <<"broker", 0>>}
    BY <2>5, <2>7, <2>8
  <2>12. \A v \in Workers : OneWorker(at2, v)'
    BY <1>1, <1>2, <1>3, <2>2, <2>5, <2>8, <2>11, LeavesBack
  <2>13. RrTypes'
    BY <1>2, <1>3, <2>6, <2>8 DEF RrTypes, PipeType, BrokerType
  <2> QED
    BY <2>5, <2>6, <2>9, <2>10, <2>12, <2>13 DEF RrInv, Located
<1>5. CASE broker.rest # << >>
  <2> DEFINE step == CopyFrame(broker.rest)
  <2>1. /\ pipe' = IF step.sent = << >> THEN pipe ELSE RouterSend(pipe, step.sent[1])
        /\ broker' = [broker EXCEPT !.rest = step.rest, !.out = step.out,
                                    !.at = IF step.more THEN "back" ELSE "poll"]
    BY <1>5 DEF CopyBack
  <2>2. PICK c \in Clients : /\ At(at, "broker", 0) = {c}
                             /\ LET m == Reps[c] IN
                                \/ step.more /\ step.rest = <<m[3]>> /\ step.out = <<m[1], m[2]>> /\ step.sent = << >>
                                \/ ~ step.more /\ step.rest = << >> /\ step.out = << >> /\ step.sent = <<m>>
    <3>1. broker.at # "front"
      BY <1>3
    <3> HIDE DEF step
    <3>2. \E c \in Clients : \E m \in {Reqs[c], Reps[c]} :
           /\ At(at, "broker", 0) = {c}
           /\ \/ broker.at = "front" /\ m = Reqs[c]
              \/ broker.at = "back" /\ m = Reps[c]
           /\ \/ step.more /\ step.rest = <<m[3]>> /\ step.out = <<m[1], m[2]>> /\ step.sent = << >>
              \/ ~ step.more /\ step.rest = << >> /\ step.out = << >> /\ step.sent = <<m>>
      BY <1>1, <1>2, <1>5, LoopFacts DEF Located, step
    <3> QED
      BY <3>1, <3>2
  <2> DEFINE m == Reps[c]
  <2> HIDE DEF m, step
  <2>3. CASE step.more /\ step.rest = <<m[3]>> /\ step.out = <<m[1], m[2]>> /\ step.sent = << >>
    <3>1. /\ pipe' = pipe
          /\ broker' = [broker EXCEPT !.rest = <<m[3]>>, !.out = <<m[1], m[2]>>, !.at = broker.at]
      BY <1>3, <2>1, <2>3
    <3>2. m = Reps[c]
      BY DEF m
    <3> QED
      BY <1>1, <1>2, <1>3, <1>5, <2>2, <3>1, <3>2, MiddleFrame
  <2>4. CASE ~ step.more /\ step.rest = << >> /\ step.out = << >> /\ step.sent = <<m>>
    <3>1. <<m>> # << >> /\ <<m>>[1] = m
      OBVIOUS
    <3>2. /\ pipe' = RouterSend(pipe, Reps[c])
          /\ broker' = [broker EXCEPT !.rest = << >>, !.out = << >>, !.at = "poll"]
      BY <2>1, <2>4, <3>1 DEF m
    <3>3. at[c] = <<"broker", 0>>
      BY <2>2 DEF At
    <3>4. PICK s \in Spots : s = Delivered(c)
      BY SpotFacts DEF Delivered
    <3> DEFINE at2 == [at EXCEPT ![c] = s]
    <3>5. at2 \in [Clients -> Spots] /\ at2[c] = Delivered(c) /\ \A d \in Clients : d # c => at2[d] = at[d]
      BY <3>4, AtMoves
    <3> HIDE DEF at2
    <3>6. at2[c] = <<"reply", 0>> \/ at2[c] = <<"none", 0>>
      BY <3>5 DEF Delivered
    <3>7. broker' \in BrokerType /\ broker'.rest = << >> /\ broker'.out = << >>
      <4>1. broker \in BrokerType
        BY <1>2 DEF RrTypes, BrokerType
      <4> QED
        BY <3>2, <4>1, BrokerReset
    <3>8. at2[c] # <<"broker", 0>>
      BY <3>6
    <3>9. AtBroker(at2)'
      BY <2>2, <3>5, <3>7, <3>8, BrokerDone
    <3>10. /\ pipe' \in PipeType /\ pipe'.front = pipe.front /\ pipe'.to = pipe.to /\ pipe'.back = pipe.back
           /\ \A d \in Clients : d # c => pipe'.reply[d] = pipe.reply[d]
           /\ pipe'.reply[c] = IF client[c].pc = "recv" THEN Append(pipe.reply[c], Answered(c, client[c].nbr)) ELSE pipe.reply[c]
      BY <1>2, <3>2, RouterFields
    <3>11. at[c] \notin {<<"none", 0>>, <<"front", 0>>, <<"reply", 0>>}
      BY <3>3
    <3>12. \A d \in Clients : OneClient(at2, d)'
      BY <1>1, <1>2, <1>3, <3>5, <3>10, <3>11, ToClient
    <3>13. ASSUME NEW v \in Workers PROVE OneWorker(at2, v)'
      <4>1. \A tag \in {"to", "work", "back"} : at[c] # <<tag, v>> /\ at2[c] # <<tag, v>>
        BY <3>3, <3>6
      <4>2. /\ pipe'.to[v] = pipe.to[v] /\ pipe'.back[v] = pipe.back[v] /\ worker'[v] = worker[v] /\ client' = client
            /\ \A d \in Clients : d # c => at2[d] = at[d]
        BY <1>3, <3>5, <3>10
      <4> QED
        BY <1>1, <4>1, <4>2, WorkersApart
    <3>14. RrTypes'
      BY <1>2, <1>3, <3>7, <3>10 DEF RrTypes, PipeType, BrokerType
    <3> QED
      BY <3>5, <3>9, <3>12, <3>13, <3>14 DEF RrInv, Located
  <2> QED
    BY <2>2, <2>3, <2>4 DEF m
<1> QED
  BY <1>4, <1>5

LEMMA InitRrInv == ReqRepInit => RrInv
<1> SUFFICES ASSUME ReqRepInit PROVE RrInv
  OBVIOUS
<1> DEFINE at == [d \in Clients |-> <<"none", 0>>]
<1>1. at \in [Clients -> Spots] /\ \A d \in Clients : at[d] = <<"none", 0>>
  BY SpotFacts
<1> HIDE DEF at
<1>2. \A tag, v : tag # "none" => At(at, tag, v) = {}
  BY <1>1 DEF At
<1>3. RrTypes
  BY DEF ReqRepInit, RrTypes, NoPipes, Idle
<1>4. ASSUME NEW d \in Clients PROVE OneClient(at, d)
  <2>1. at[d] # <<"front", 0>> /\ at[d] # <<"reply", 0>>
    BY <1>1
  <2> QED
    BY <1>1, <2>1 DEF OneClient, ReqRepInit, NoPipes
<1>5. ASSUME NEW w \in Workers PROVE OneWorker(at, w)
  <2>1. pipe.to[w] = << >> /\ pipe.back[w] = << >> /\ worker[w].pc = "recv" /\ worker[w].msg = << >>
    BY DEF ReqRepInit, NoPipes
  <2>2. \A F : Holding(<< >>, {}, F)
    BY HoldingNone
  <2>3. At(at, "to", w) = {} /\ At(at, "work", w) = {} /\ At(at, "back", w) = {}
    BY <1>2
  <2> QED
    BY <2>1, <2>2, <2>3 DEF OneWorker
<1>6. AtBroker(at)
  BY <1>2 DEF ReqRepInit, Idle, AtBroker
<1> QED
  BY <1>1, <1>3, <1>4, <1>5, <1>6 DEF RrInv, Located

LEMMA NextRrInv == RrInv /\ [ReqRepNext]_rrVars => RrInv'
<1> SUFFICES ASSUME RrInv, [ReqRepNext]_rrVars PROVE RrInv'
  OBVIOUS
<1>1. ASSUME NEW c \in Clients, RrClient(c) \/ HwClient(c) \/ ClientInterrupted(c) PROVE RrInv'
  <2>1. CASE ReqSend(c)
    BY <2>1, ReqSendStep
  <2>2. ASSUME NEW next \in {"send", "done"}, ReqRecv(c, next) PROVE RrInv'
    BY <2>2, ReqRecvStep
  <2>3. CASE ClientInterrupted(c)
    BY <2>3, ClientInterruptedStep
  <2> QED
    BY <1>1, <2>1, <2>2, <2>3 DEF RrClient, HwClient
<1>2. ASSUME NEW w \in Workers, RrWorker(w) \/ MtWorker(w) \/ HwServer(w) \/ WorkerInterrupted(w) \/ ThreadInterrupted(w)
      PROVE  RrInv'
  <2>1. CASE RepRecv(w) \/ RepSend(w)
    BY <2>1, RepRecvStep, RepSendStep
  <2>2. CASE HwServer(w)
    BY <2>2, HwServerStep
  <2>3. CASE WorkerInterrupted(w)
    BY <2>3, WorkerInterruptedStep
  <2>4. CASE ThreadInterrupted(w)
    BY <2>4, ThreadInterruptedStep
  <2> QED
    BY <1>2, <2>1, <2>2, <2>3, <2>4 DEF RrWorker, MtWorker
<1>3. CASE RrBroker
  BY <1>3, PollStep, CopyFrontStep, CopyBackStep DEF RrBroker
<1>4. CASE Proxy
  BY <1>4, ProxyStep
<1>6. CASE PollInterrupted
  BY <1>6, PollInterruptedStep
<1>5. CASE UNCHANGED rrVars
  <2>1. PICK at \in [Clients -> Spots] : Located(at)
    BY DEF RrInv
  <2>2. UNCHANGED <<via, client, worker, broker, pipe, signals>> /\ RrTypes
    BY <1>5 DEF rrVars, RrInv
  <2>3. ASSUME NEW d \in Clients PROVE OneClient(at, d)'
    BY <2>1, <2>2, ClientSame DEF Located
  <2>4. ASSUME NEW v \in Workers PROVE OneWorker(at, v)'
    BY <2>1, <2>2, WorkerSame DEF Located
  <2>5. AtBroker(at)'
    BY <2>1, <2>2, BrokerSame DEF Located
  <2>6. RrTypes'
    BY <2>2 DEF RrTypes
  <2> QED
    BY <2>3, <2>4, <2>5, <2>6 DEF RrInv, Located
<1> QED
  BY <1>1, <1>2, <1>3, <1>4, <1>5, <1>6 DEF ReqRepNext

(* A message names the client whose request it is, and no other.           *)
LEMMA AboutFacts ==
  ASSUME RrTypes, NEW c \in Clients, NEW d \in Clients
  PROVE  (About(c, Reqs[d]) <=> c = d) /\ (About(c, Reps[d]) <=> c = d)
<1> DEFINE n == client[d].nbr
           k == client[c].nbr
<1>1. Reqs[d] = Request1(d, n) /\ Reps[d] = Reply1(d, n) /\ n \in Nat /\ k \in Nat
  BY ReqFacts
<1> DEFINE q == Reqs[d]
           p == Reps[d]
<1>2. /\ Len(q) = 3 /\ q[1] = Id(d) /\ q[2] = Empty /\ q[3] = Hello(d, n)
      /\ Len(p) = 3 /\ p[1] = Id(d) /\ p[2] = Empty /\ p[3] = World(Hello(d, n))
  BY <1>1, MessageFacts
<1> HIDE DEF n, k, q, p
<1>3. /\ Id(c) = Id(d) => c = d
      /\ Hello(c, k) = Hello(d, n) => c = d
      /\ Id(c) # Empty /\ Hello(c, k) # Empty
      /\ Id(c) # Hello(d, n) /\ Id(c) # World(Hello(d, n)) /\ Hello(c, k) # World(Hello(d, n))
      /\ Id(d) # Hello(c, k)
  BY <1>1, FrameFacts
<1>4. About(c, q) <=> \E i \in 1 .. 3 : q[i] = Id(c) \/ q[i] = Hello(c, k)
  BY <1>2 DEF About, k
<1>5. About(c, p) <=> \E i \in 1 .. 3 : p[i] = Id(c) \/ p[i] = Hello(c, k)
  BY <1>2 DEF About, k
<1>6. \A i \in 1 .. 3 : i = 1 \/ i = 2 \/ i = 3
  OBVIOUS
<1>7. About(c, q) <=> c = d
  BY <1>2, <1>3, <1>4, <1>6
<1>8. About(c, p) <=> c = d
  BY <1>2, <1>3, <1>5, <1>6
<1> QED
  BY <1>7, <1>8 DEF p, q

(* The places of a request in a pipe that holds messages: one if the       *)
(* client's is among them, and none otherwise.                             *)
LEMMA WithinFacts ==
  ASSUME NEW c \in Clients, NEW name, NEW w, NEW q, NEW C \in SUBSET Clients, NEW F, Holding(q, C, F),
         \A d \in Clients : About(c, F[d]) <=> c = d
  PROVE  /\ c \notin C => Within(c, name, w, q) = {}
         /\ c \in C => \E i \in 1 .. Len(q) : Within(c, name, w, q) = {<<name, w, i>>}
<1>1. ASSUME NEW i \in 1 .. Len(q), About(c, q[i]) PROVE c \in C /\ q[i] = F[c]
  <2>1. PICK d \in C : q[i] = F[d]
    BY DEF Holding
  <2> QED
    BY <1>1, <2>1
<1>2. CASE c \notin C
  <2>1. {j \in 1 .. Len(q) : About(c, q[j])} = {}
    BY <1>1, <1>2
  <2> QED
    BY <1>2, <2>1 DEF Within
<1>3. CASE c \in C
  <2>1. PICK i \in 1 .. Len(q) : q[i] = F[c]
    BY <1>3 DEF Holding
  <2>2. \A j \in 1 .. Len(q) : q[j] = F[c] => j = i
    BY <2>1 DEF Holding
  <2>3. About(c, q[i])
    BY <2>1
  <2>4. {j \in 1 .. Len(q) : About(c, q[j])} = {i}
    BY <1>1, <2>2, <2>3
  <2>5. Within(c, name, w, q) = {<<name, w, i>>}
    BY <2>4 DEF Within
  <2> QED
    BY <1>3, <2>5
<1> QED
  BY <1>2, <1>3

OwnPlaces(c) == {<<"front", i>> : i \in 1 .. Len(pipe.front[c])} \cup {<<"reply", i>> : i \in 1 .. Len(pipe.reply[c])}
PipePlaces(c) == UNION {Within(c, "to", w, pipe.to[w]) \cup Within(c, "back", w, pipe.back[w]) : w \in Workers}
WorkPlaces(c) == {<<"worker", w>> : w \in {v \in Workers : About(c, worker[v].msg)}}
BrokerPlaces(c) == {<<"broker">> : b \in {m \in {broker.out \o broker.rest} : About(c, m)}}

LEMMA OwnPlacesAre ==
  ASSUME NEW at, NEW c \in Clients, OneClient(at, c)
  PROVE  /\ at[c] = <<"front", 0>> => OwnPlaces(c) = {<<"front", 1>>}
         /\ at[c] = <<"reply", 0>> => OwnPlaces(c) = {<<"reply", 1>>}
         /\ at[c] # <<"front", 0>> /\ at[c] # <<"reply", 0>> => OwnPlaces(c) = {}
<1>1. \A x : Len(<<x>>) = 1 /\ Len(<< >>) = 0
  OBVIOUS
<1>2. 1 .. 1 = {1} /\ 1 .. 0 = {}
  OBVIOUS
<1>3. ASSUME at[c] = <<"front", 0>> PROVE OwnPlaces(c) = {<<"front", 1>>}
  <2>1. at[c] # <<"reply", 0>>
    BY <1>3
  <2>2. Len(pipe.front[c]) = 1 /\ Len(pipe.reply[c]) = 0
    BY <1>1, <1>3, <2>1 DEF OneClient
  <2> QED
    BY <1>2, <2>2 DEF OwnPlaces
<1>4. ASSUME at[c] = <<"reply", 0>> PROVE OwnPlaces(c) = {<<"reply", 1>>}
  <2>1. at[c] # <<"front", 0>>
    BY <1>4
  <2>2. Len(pipe.front[c]) = 0 /\ Len(pipe.reply[c]) = 1
    BY <1>1, <1>4, <2>1 DEF OneClient
  <2> QED
    BY <1>2, <2>2 DEF OwnPlaces
<1>5. ASSUME at[c] # <<"front", 0>>, at[c] # <<"reply", 0>> PROVE OwnPlaces(c) = {}
  <2>1. Len(pipe.front[c]) = 0 /\ Len(pipe.reply[c]) = 0
    BY <1>1, <1>5 DEF OneClient
  <2> QED
    BY <1>2, <2>1 DEF OwnPlaces
<1> QED
  BY <1>3, <1>4, <1>5

LEMMA PipePlacesAre ==
  ASSUME RrTypes, NEW at \in [Clients -> Spots], Located(at), NEW c \in Clients
  PROVE  /\ \A w \in Workers : at[c] = <<"to", w>> \/ at[c] = <<"back", w>> => \E p : PipePlaces(c) = {p}
         /\ (\A w \in Workers : at[c] # <<"to", w>> /\ at[c] # <<"back", w>>) => PipePlaces(c) = {}
<1>1. \A d \in Clients : (About(c, Reqs[d]) <=> c = d) /\ (About(c, Reps[d]) <=> c = d)
  BY AboutFacts
<1>2. ASSUME NEW w \in Workers
      PROVE  /\ at[c] # <<"to", w>> => Within(c, "to", w, pipe.to[w]) = {}
             /\ at[c] = <<"to", w>> => \E i : Within(c, "to", w, pipe.to[w]) = {<<"to", w, i>>}
             /\ at[c] # <<"back", w>> => Within(c, "back", w, pipe.back[w]) = {}
             /\ at[c] = <<"back", w>> => \E i : Within(c, "back", w, pipe.back[w]) = {<<"back", w, i>>}
  <2>1. Holding(pipe.to[w], At(at, "to", w), Reqs) /\ Holding(pipe.back[w], At(at, "back", w), Reps)
    BY DEF Located, OneWorker
  <2>2. At(at, "to", w) \in SUBSET Clients /\ At(at, "back", w) \in SUBSET Clients
    BY DEF At
  <2>3. (c \in At(at, "to", w) <=> at[c] = <<"to", w>>) /\ (c \in At(at, "back", w) <=> at[c] = <<"back", w>>)
    BY DEF At
  <2>4. /\ c \notin At(at, "to", w) => Within(c, "to", w, pipe.to[w]) = {}
        /\ c \in At(at, "to", w) => \E i \in 1 .. Len(pipe.to[w]) : Within(c, "to", w, pipe.to[w]) = {<<"to", w, i>>}
    <3>1. \A d \in Clients : About(c, Reqs[d]) <=> c = d
      BY <1>1
    <3> QED
      BY <2>1, <2>2, <3>1, WithinFacts, SMTT(30)
  <2>5. /\ c \notin At(at, "back", w) => Within(c, "back", w, pipe.back[w]) = {}
        /\ c \in At(at, "back", w) => \E i \in 1 .. Len(pipe.back[w]) : Within(c, "back", w, pipe.back[w]) = {<<"back", w, i>>}
    BY <1>1, <2>1, <2>2, WithinFacts
  <2> QED
    BY <2>3, <2>4, <2>5
<1> DEFINE W(w) == Within(c, "to", w, pipe.to[w]) \cup Within(c, "back", w, pipe.back[w])
<1>3. ASSUME NEW w \in Workers, at[c] = <<"to", w>> \/ at[c] = <<"back", w>> PROVE \E p : PipePlaces(c) = {p}
  <2>1. PICK p : W(w) = {p}
    <3>1. CASE at[c] = <<"to", w>>
      <4>1. at[c] # <<"back", w>>
        BY <3>1
      <4> QED
        BY <1>2, <3>1, <4>1
    <3>2. CASE at[c] = <<"back", w>>
      <4>1. at[c] # <<"to", w>>
        BY <3>2
      <4> QED
        BY <1>2, <3>2, <4>1
    <3> QED
      BY <1>3, <3>1, <3>2
  <2>2. \A v \in Workers : v # w => W(v) = {}
    <3>1. ASSUME NEW v \in Workers, v # w PROVE W(v) = {}
      <4>1. at[c] # <<"to", v>> /\ at[c] # <<"back", v>>
        BY <1>3, <3>1
      <4> QED
        BY <1>2, <4>1
    <3> QED
      BY <3>1
  <2>3. PipePlaces(c) = UNION {W(v) : v \in Workers}
    BY DEF PipePlaces
  <2> HIDE DEF W
  <2>4. UNION {W(v) : v \in Workers} = {p}
    BY <2>1, <2>2
  <2> QED
    BY <2>3, <2>4
<1>4. ASSUME \A w \in Workers : at[c] # <<"to", w>> /\ at[c] # <<"back", w>> PROVE PipePlaces(c) = {}
  <2>1. \A w \in Workers : W(w) = {}
    BY <1>2, <1>4
  <2>2. PipePlaces(c) = UNION {W(v) : v \in Workers}
    BY DEF PipePlaces
  <2> HIDE DEF W
  <2>3. UNION {W(v) : v \in Workers} = {}
    BY <2>1
  <2> QED
    BY <2>2, <2>3
<1> QED
  BY <1>3, <1>4

LEMMA WorkPlacesAre ==
  ASSUME RrTypes, NEW at \in [Clients -> Spots], Located(at), NEW c \in Clients
  PROVE  /\ \A w \in Workers : at[c] = <<"work", w>> => WorkPlaces(c) = {<<"worker", w>>}
         /\ (\A w \in Workers : at[c] # <<"work", w>>) => WorkPlaces(c) = {}
<1>1. \A d \in Clients : About(c, Reqs[d]) <=> c = d
  BY AboutFacts
<1>2. ASSUME NEW w \in Workers PROVE About(c, worker[w].msg) <=> at[c] = <<"work", w>>
  <2>1. /\ worker[w].pc = "send" <=> worker[w].msg # << >>
        /\ Holding(IF worker[w].pc = "send" THEN <<worker[w].msg>> ELSE << >>, At(at, "work", w), Reqs)
    BY DEF Located, OneWorker
  <2>2. CASE worker[w].pc = "send"
    <3> DEFINE m == worker[w].msg
    <3>1. Holding(<<m>>, At(at, "work", w), Reqs)
      BY <2>1, <2>2
    <3> HIDE DEF m
    <3>2. Len(<<m>>) = 1 /\ <<m>>[1] = m /\ 1 .. 1 = {1}
      OBVIOUS
    <3>3. (\E d \in At(at, "work", w) : m = Reqs[d]) /\ (\A d \in At(at, "work", w) : m = Reqs[d])
      BY <3>1, <3>2 DEF Holding
    <3> QED
      BY <1>1, <3>3 DEF m, At
  <2>3. CASE worker[w].pc # "send"
    <3>1. worker[w].msg = << >> /\ Holding(<< >>, At(at, "work", w), Reqs)
      BY <2>1, <2>3
    <3>2. At(at, "work", w) = {}
      BY <3>1, HoldingNone
    <3>3. ~ About(c, << >>)
      BY DEF About
    <3> QED
      BY <3>1, <3>2, <3>3 DEF At
  <2> QED
    BY <2>2, <2>3
<1>3. ASSUME NEW w \in Workers, at[c] = <<"work", w>> PROVE WorkPlaces(c) = {<<"worker", w>>}
  <2>1. \A v \in Workers : at[c] = <<"work", v>> => v = w
    BY <1>3
  <2>2. {v \in Workers : About(c, worker[v].msg)} = {w}
    BY <1>2, <1>3, <2>1
  <2> QED
    BY <2>2 DEF WorkPlaces
<1>4. ASSUME \A w \in Workers : at[c] # <<"work", w>> PROVE WorkPlaces(c) = {}
  <2>1. {v \in Workers : About(c, worker[v].msg)} = {}
    BY <1>2, <1>4
  <2> QED
    BY <2>1 DEF WorkPlaces
<1> QED
  BY <1>3, <1>4

LEMMA Joined ==
  ASSUME NEW x \in Frames, NEW y \in Frames, NEW z \in Frames
  PROVE  <<x>> \o <<y, z>> = <<x, y, z>> /\ <<x, y>> \o <<z>> = <<x, y, z>> /\ << >> \o << >> = << >>
<1>1. /\ <<x>> \in Seq(Frames) /\ <<x, y>> \in Seq(Frames) /\ <<x, y, z>> \in Seq(Frames)
      /\ <<z>> \in Seq(Frames) /\ <<y, z>> \in Seq(Frames)
  OBVIOUS
<1>2. ASSUME NEW s \in Seq(Frames), Len(s) = 3, s[1] = x, s[2] = y, s[3] = z PROVE s = <<x, y, z>>
  BY <1>2
<1>3. <<x>> \o <<y, z>> = <<x, y, z>>
  <2> DEFINE s == <<x>> \o <<y, z>>
  <2>1. s \in Seq(Frames) /\ Len(s) = 3 /\ s[1] = x /\ s[2] = y /\ s[3] = z
    BY <1>1
  <2> HIDE DEF s
  <2>2. s = <<x, y, z>>
    BY <1>2, <2>1
  <2> QED
    BY <2>2 DEF s
<1>4. <<x, y>> \o <<z>> = <<x, y, z>>
  <2> DEFINE s == <<x, y>> \o <<z>>
  <2>1. s \in Seq(Frames) /\ Len(s) = 3 /\ s[1] = x /\ s[2] = y /\ s[3] = z
    BY <1>1
  <2> HIDE DEF s
  <2>2. s = <<x, y, z>>
    BY <1>2, <2>1
  <2> QED
    BY <2>2 DEF s
<1>5. << >> \o << >> = << >>
  OBVIOUS
<1> QED
  BY <1>3, <1>4, <1>5

LEMMA BrokerPlacesAre ==
  ASSUME RrTypes, NEW at \in [Clients -> Spots], Located(at), NEW c \in Clients
  PROVE  /\ at[c] = <<"broker", 0>> => BrokerPlaces(c) = {<<"broker">>}
         /\ at[c] # <<"broker", 0>> => BrokerPlaces(c) = {}
<1> DEFINE m == broker.out \o broker.rest
<1>1. About(c, m) <=> at[c] = <<"broker", 0>>
  <2>1. AtBroker(at)
    BY DEF Located
  <2>2. CASE broker.rest = << >>
    <3>1. broker.out = << >> /\ At(at, "broker", 0) = {}
      BY <2>1, <2>2 DEF AtBroker
    <3>2. << >> \o << >> = << >>
      OBVIOUS
    <3>3. m = << >>
      BY <2>2, <3>1, <3>2
    <3>4. ~ About(c, << >>)
      BY DEF About
    <3> HIDE DEF m
    <3> QED
      BY <3>1, <3>3, <3>4 DEF At
  <2>3. CASE broker.rest # << >>
    <3>1. PICK d \in Clients : /\ At(at, "broker", 0) = {d}
                               /\ HalfCopied(Reqs[d]) \/ HalfCopied(Reps[d])
      BY <2>1, <2>3 DEF AtBroker
    <3>2. PICK r \in {Reqs[d], Reps[d]} : HalfCopied(r)
      BY <3>1
    <3>3. r = <<r[1], r[2], r[3]>> /\ r[1] \in Frames /\ r[2] \in Frames /\ r[3] \in Frames
      BY ThreeFrames
    <3>4. <<r[1]>> \o <<r[2], r[3]>> = <<r[1], r[2], r[3]>> /\ <<r[1], r[2]>> \o <<r[3]>> = <<r[1], r[2], r[3]>>
      BY <3>3, Joined
    <3>5. m = <<r[1], r[2], r[3]>>
      BY <3>2, <3>4 DEF HalfCopied
    <3>6. m = r
      BY <3>3, <3>5
    <3> HIDE DEF m
    <3>7. About(c, r) <=> c = d
      BY AboutFacts
    <3> QED
      BY <3>1, <3>6, <3>7 DEF At
  <2> QED
    BY <2>2, <2>3
<1>2. BrokerPlaces(c) = {<<"broker">> : b \in {x \in {m} : About(c, x)}}
  BY DEF BrokerPlaces
<1> HIDE DEF m
<1> QED
  BY <1>1, <1>2

LEMMA PlacesFollow == RrInv => OnePlace /\ OwnReply
<1> SUFFICES ASSUME RrInv PROVE OnePlace /\ OwnReply
  OBVIOUS
<1>1. PICK at \in [Clients -> Spots] : Located(at)
  BY DEF RrInv
<1>2. RrTypes
  BY DEF RrInv
<1>3. ASSUME signals = 0, NEW c \in Clients, client[c].pc = "recv" PROVE \E p : Places(c) = {p}
  <2>1. OneClient(at, c)
    BY <1>1 DEF Located
  <2>2. at[c] # <<"none", 0>>
    BY <1>3, <2>1 DEF OneClient
  <2>3. Places(c) = OwnPlaces(c) \cup PipePlaces(c) \cup WorkPlaces(c) \cup BrokerPlaces(c)
    BY DEF Places, OwnPlaces, PipePlaces, WorkPlaces, BrokerPlaces
  <2>4. /\ at[c] = <<"front", 0>> => OwnPlaces(c) = {<<"front", 1>>}
        /\ at[c] = <<"reply", 0>> => OwnPlaces(c) = {<<"reply", 1>>}
        /\ at[c] # <<"front", 0>> /\ at[c] # <<"reply", 0>> => OwnPlaces(c) = {}
    BY <2>1, OwnPlacesAre
  <2>5. /\ \A w \in Workers : at[c] = <<"to", w>> \/ at[c] = <<"back", w>> => \E p : PipePlaces(c) = {p}
        /\ (\A w \in Workers : at[c] # <<"to", w>> /\ at[c] # <<"back", w>>) => PipePlaces(c) = {}
    BY <1>1, <1>2, PipePlacesAre
  <2>6. /\ \A w \in Workers : at[c] = <<"work", w>> => WorkPlaces(c) = {<<"worker", w>>}
        /\ (\A w \in Workers : at[c] # <<"work", w>>) => WorkPlaces(c) = {}
    BY <1>1, <1>2, WorkPlacesAre
  <2>7. /\ at[c] = <<"broker", 0>> => BrokerPlaces(c) = {<<"broker">>}
        /\ at[c] # <<"broker", 0>> => BrokerPlaces(c) = {}
    BY <1>1, <1>2, BrokerPlacesAre
  <2>8. \/ at[c] \in {<<"front", 0>>, <<"reply", 0>>} \/ at[c] = <<"broker", 0>>
        \/ \E w \in Workers : at[c] = <<"to", w>> \/ at[c] = <<"back", w>>
        \/ \E w \in Workers : at[c] = <<"work", w>>
    <3>1. at[c] \in Spots
      OBVIOUS
    <3> QED
      BY <2>2, <3>1 DEF Spots
  <2>9. CASE at[c] \in {<<"front", 0>>, <<"reply", 0>>}
    <3>1. /\ at[c] # <<"broker", 0>> /\ \A w \in Workers : at[c] # <<"to", w>> /\ at[c] # <<"back", w>>
          /\ \A w \in Workers : at[c] # <<"work", w>>
      BY <2>9
    <3>2. \E p : OwnPlaces(c) = {p}
      BY <2>4, <2>9
    <3>3. Places(c) = OwnPlaces(c)
      BY <2>3, <2>5, <2>6, <2>7, <3>1
    <3> QED
      BY <3>2, <3>3
  <2>10. CASE at[c] = <<"broker", 0>>
    <3>1. /\ at[c] # <<"front", 0>> /\ at[c] # <<"reply", 0>> /\ \A w \in Workers : at[c] # <<"work", w>>
          /\ \A w \in Workers : at[c] # <<"to", w>> /\ at[c] # <<"back", w>>
      BY <2>10
    <3>2. Places(c) = BrokerPlaces(c)
      BY <2>3, <2>4, <2>5, <2>6, <3>1
    <3> QED
      BY <2>7, <2>10, <3>2
  <2>11. ASSUME NEW w \in Workers, at[c] = <<"to", w>> \/ at[c] = <<"back", w>> PROVE \E p : Places(c) = {p}
    <3>1. /\ at[c] # <<"front", 0>> /\ at[c] # <<"reply", 0>> /\ \A v \in Workers : at[c] # <<"work", v>>
          /\ at[c] # <<"broker", 0>>
      BY <2>11
    <3>2. Places(c) = PipePlaces(c)
      BY <2>3, <2>4, <2>6, <2>7, <3>1
    <3> QED
      BY <2>5, <2>11, <3>2
  <2>12. ASSUME NEW w \in Workers, at[c] = <<"work", w>> PROVE \E p : Places(c) = {p}
    <3>1. /\ at[c] # <<"front", 0>> /\ at[c] # <<"reply", 0>> /\ at[c] # <<"broker", 0>>
          /\ \A v \in Workers : at[c] # <<"to", v>> /\ at[c] # <<"back", v>>
      BY <2>12
    <3>2. Places(c) = WorkPlaces(c)
      BY <2>3, <2>4, <2>5, <2>7, <3>1
    <3> QED
      BY <2>6, <2>12, <3>2
  <2> QED
    BY <2>8, <2>9, <2>10, <2>11, <2>12
<1>4. OnePlace
  BY <1>3 DEF OnePlace
<1>5. OwnReply
  <2>1. ASSUME NEW c \in Clients, pipe.reply[c] # << >>
        PROVE  client[c].pc = "recv" /\ pipe.reply[c] = <<<<Empty, World(Hello(c, client[c].nbr))>>>>
    <3>1. OneClient(at, c)
      BY <1>1 DEF Located
    <3> QED
      BY <2>1, <3>1 DEF OneClient, Answered
  <2> QED
    BY <2>1 DEF OwnReply
<1> QED
  BY <1>4, <1>5

LEMMA MessageSteps == [Next]_vars => [ReqRepNext]_rrVars /\ [SyncNext]_syncVars /\ [FeedNext]_feedVars
BY DEF Next, vars, Of, Others

(* In every behaviour, for any number of clients, servers, rounds, signals *)
(* and subscribers, and through every broker: while a client waits and     *)
(* nothing was interrupted its request or the answer is at exactly one     *)
(* place, a client is handed only the answer to the request it waits for   *)
(* (rrbroker.c:46-114, rrclient.c:46), a synchronised subscriber that      *)
(* ends has counted all updates (syncpub.c:51), and the two frames of a    *)
(* message stay together (psenvsub.c:23).                                  *)
THEOREM MessagesKept == Init /\ [][Next]_vars => []MessagesExact
<1>1. Init => RrInv /\ SyncInv /\ FeedInv
  BY InitRrInv, InitSyncInv, InitFeedInv DEF Init
<1>2. RrInv /\ SyncInv /\ FeedInv /\ [Next]_vars => RrInv' /\ SyncInv' /\ FeedInv'
  BY NextRrInv, NextSyncInv, NextFeedInv, MessageSteps
<1>3. SyncInv => SyncedCountsAll
  BY DEF SyncInv, SyncedCountsAll
<1>4. FeedInv => EnvelopePairs
  <2>1. FeedInv /\ feed.kind = "psenv" => feed \in PsFeeds
    BY DEF FeedInv, Paired
  <2>2. ASSUME NEW H, NEW G, NEW K, NEW L, NEW F, NEW N, NEW T, NEW Q, NEW C, NEW S,
               feed \in [kind : K, linked : L, frames : F, next : N, to : T, queue : Q, held : H, got : G, count : C, total : S]
        PROVE  feed.held \in H /\ feed.got \in G
    BY <2>2
  <2>3. feed \in PsFeeds => feed.held \in {<< >>, <<<<"B">>>>} /\ feed.got \in {<< >>, <<<<"B">>, <<"We", "B">>>>}
    BY <2>2, Zenon DEF PsFeeds
  <2> QED
    BY <2>1, <2>3, Zenon DEF EnvelopePairs
<1>5. RrInv /\ SyncInv /\ FeedInv => MessagesExact
  BY <1>3, <1>4, PlacesFollow DEF MessagesExact
<1> QED
  BY <1>1, <1>2, <1>5, PTL

----------------------------------------------------------------------------
(* The two HTTP clients, for any number of requests, sockets and pieces,   *)
(* and any size of the batch.  The ep_arg of an event is looked at long    *)
(* after main has handed it to epoll, and main uses the numbers of closed  *)
(* sockets again.  The invariant ties a request to one socket, that socket *)
(* to one entry of epoll, and every event of a batch to such an entry.     *)

HttpTypes ==
  /\ caller \in [req : Nat, pc : {"connect", "send", "add", "cancel", "exit"},
                 fd : Sockets \cup {0}]
  /\ sock \in [Sockets -> Requests \cup {0}]
  /\ arg \in [Requests -> {"none", "live", "freed"}]
  /\ epoll \in [set : [Sockets -> Requests \cup {0}], open : BOOLEAN]
  /\ poller \in [state : {"wait", "batch", "ended"}, batch : Seq(Requests)]
  /\ answer \in [Requests -> [sent : Nat, read : Nat, closed : BOOLEAN]]
  /\ result \in [Requests -> Seq(Int)]
  /\ refused \subseteq Requests

Committing == caller.pc \in {"send", "add"}

\* One socket for a request, and only for one that main has come to.
SocketOwned ==
  /\ \A f, g \in Sockets : sock[f] = sock[g] /\ sock[f] # 0 => f = g
  /\ \A f \in Sockets : sock[f] # 0 => \/ sock[f] < caller.req
                                       \/ sock[f] = caller.req /\ Committing
  /\ Committing => /\ caller.fd \in Sockets /\ caller.req \in Requests
                   /\ sock[caller.fd] = caller.req

\* What main has not come to yet is untouched.
Untouched ==
  /\ \A r \in refused : r < caller.req
  /\ \A r \in Requests : r > caller.req => arg[r] = "none"
  /\ \A r \in Requests : r = caller.req =>
       arg[r] = IF caller.pc = "add" THEN "live" ELSE "none"

\* An entry of epoll is the socket of a committed request whose ep_arg lives.
EntryLive ==
  \A f \in Sockets : epoll.set[f] # 0 =>
    /\ sock[f] = epoll.set[f] /\ sock[f] < caller.req
    /\ arg[sock[f]] = "live" /\ sock[f] \notin refused

\* A socket that is not being committed and was not refused is in epoll.
SocketListed ==
  \A f \in Sockets : sock[f] # 0 =>
    \/ sock[f] = caller.req /\ Committing
    \/ sock[f] \in refused
    \/ epoll.set[f] = sock[f]

\* The events still to be handled are different entries of epoll.
BatchLive ==
  /\ poller.state = "batch" <=> poller.batch # << >>
  /\ \A k \in DOMAIN poller.batch : \E f \in Sockets : epoll.set[f] = poller.batch[k]
  /\ \A j, k \in DOMAIN poller.batch : j # k => poller.batch[j] # poller.batch[k]

\* A callback frees the ep_arg, and only that of a committed request.
ResultOnce ==
  \A r \in Requests : /\ result[r] # << >> => arg[r] = "freed" /\ r \notin refused
                      /\ Len(result[r]) =< 1

AsyncInv ==
  /\ HttpTypes /\ SocketOwned /\ Untouched /\ EntryLive /\ SocketListed
  /\ BatchLive /\ ResultOnce

LEMMA RequestFacts == /\ 0 \notin Requests /\ 0 \notin Sockets
                      /\ \A r \in Requests : r \in Nat
BY HttpAssumption

LEMMA SocketNumbers == HttpTypes => /\ caller.req \in Nat
                                     /\ \A f \in Sockets : sock[f] \in Nat /\ epoll.set[f] \in Nat
BY RequestFacts DEF HttpTypes

LEMMA InitAsyncInv == AsyncInit => AsyncInv
<1> SUFFICES ASSUME AsyncInit PROVE AsyncInv
  OBVIOUS
<1>1. HttpTypes
  BY DEF AsyncInit, HttpTypes
<1>2. SocketOwned /\ Untouched /\ EntryLive /\ SocketListed
  BY DEF AsyncInit, SocketOwned, Untouched, EntryLive, SocketListed, Committing
<1>3. BatchLive /\ ResultOnce
  BY DEF AsyncInit, BatchLive, ResultOnce
<1> QED
  BY <1>1, <1>2, <1>3 DEF AsyncInv

LEMMA ConnectInv == AsyncInv /\ CommitConnect => AsyncInv'
<1> SUFFICES ASSUME AsyncInv, CommitConnect PROVE AsyncInv'
  OBVIOUS
<1>1. PICK f \in Sockets : /\ sock[f] = 0
                           /\ sock' = [sock EXCEPT ![f] = caller.req]
                           /\ caller' = [caller EXCEPT !.pc = "send", !.fd = f]
  BY DEF CommitConnect
<1>2. /\ caller.pc = "connect" /\ caller.req \in Requests
      /\ UNCHANGED <<arg, epoll, poller, answer, result, refused>>
  BY DEF CommitConnect
<1>3. /\ caller' \in [req : Nat, pc : {"connect", "send", "add", "cancel", "exit"},
                      fd : Sockets \cup {0}]
      /\ caller'.req = caller.req /\ caller'.pc = "send" /\ caller'.fd = f
  BY <1>1 DEF AsyncInv, HttpTypes
<1>4. sock'[f] = caller.req /\ \A g \in Sockets \ {f} : sock'[g] = sock[g]
  BY <1>1 DEF AsyncInv, HttpTypes
<1>5. \A g \in Sockets : sock[g] # caller.req
  <2>1. \A g \in Sockets : sock[g] # 0 => sock[g] < caller.req
    BY <1>2 DEF AsyncInv, SocketOwned, Committing
  <2>2. caller.req # 0 /\ caller.req \in Nat /\ \A g \in Sockets : sock[g] \in Nat
    BY <1>2, RequestFacts, SocketNumbers DEF AsyncInv
  <2> QED
    BY <2>1, <2>2
<1>6. HttpTypes'
  BY <1>1, <1>2, <1>3 DEF AsyncInv, HttpTypes
<1>7. SocketOwned'
  BY <1>2, <1>3, <1>4, <1>5, RequestFacts DEF AsyncInv, SocketOwned, Committing
<1>8. Untouched'
  BY <1>2, <1>3 DEF AsyncInv, Untouched
<1>9. EntryLive'
  BY <1>1, <1>2, <1>3, <1>4 DEF AsyncInv, EntryLive
<1>10. SocketListed'
  BY <1>2, <1>3, <1>4 DEF AsyncInv, SocketListed, Committing
<1>11. BatchLive' /\ ResultOnce'
  BY <1>2 DEF AsyncInv, BatchLive, ResultOnce
<1> QED
  BY <1>6, <1>7, <1>8, <1>9, <1>10, <1>11 DEF AsyncInv

LEMMA SendInv == ASSUME NEW ok \in BOOLEAN PROVE AsyncInv /\ CommitSend(ok) => AsyncInv'
<1> SUFFICES ASSUME AsyncInv, CommitSend(ok) PROVE AsyncInv'
  OBVIOUS
<1> DEFINE q == caller.req
<1>1. /\ caller.pc = "send" /\ q \in Requests /\ q \in Nat /\ q + 1 \in Nat
      /\ UNCHANGED <<sock, epoll, poller, answer, result>>
      /\ arg[q] = "none"
  BY RequestFacts DEF CommitSend, AsyncInv, HttpTypes, SocketOwned, Committing, Untouched
<1>2. CASE ok
  <2>1. /\ arg' = [arg EXCEPT ![q] = "live"] /\ refused' = refused
        /\ caller' = [caller EXCEPT !.pc = "add"]
    BY <1>2 DEF CommitSend
  <2>2. /\ caller' \in [req : Nat, pc : {"connect", "send", "add", "cancel", "exit"},
                        fd : Sockets \cup {0}]
        /\ caller'.req = q /\ caller'.pc = "add" /\ caller'.fd = caller.fd
    BY <2>1 DEF AsyncInv, HttpTypes
  <2>3. arg'[q] = "live" /\ \A r \in Requests \ {q} : arg'[r] = arg[r]
    BY <1>1, <2>1 DEF AsyncInv, HttpTypes
  <2>4. HttpTypes'
    BY <1>1, <2>1, <2>2 DEF AsyncInv, HttpTypes
  <2>5. SocketOwned' /\ SocketListed'
    BY <1>1, <2>1, <2>2 DEF AsyncInv, SocketOwned, SocketListed, Committing
  <2>6. Untouched'
    BY <1>1, <2>1, <2>2, <2>3 DEF AsyncInv, Untouched
  <2>7. EntryLive'
    BY <1>1, <2>1, <2>2, <2>3 DEF AsyncInv, EntryLive, HttpTypes
  <2>8. BatchLive'
    BY <1>1 DEF AsyncInv, BatchLive
  <2>9. ResultOnce'
    BY <1>1, <2>1, <2>3 DEF AsyncInv, ResultOnce
  <2> QED
    BY <2>4, <2>5, <2>6, <2>7, <2>8, <2>9 DEF AsyncInv
<1>3. CASE ~ok
  <2>1. /\ arg' = arg /\ refused' = refused \cup {q}
        /\ caller' = [req |-> q + 1, pc |-> "connect", fd |-> 0]
    BY <1>3 DEF CommitSend, NextRequest
  <2>2. caller'.req = q + 1 /\ caller'.pc = "connect"
    BY <2>1
  <2>3. HttpTypes'
    BY <1>1, <2>1 DEF AsyncInv, HttpTypes
  <2>4. SocketOwned'
    <3>1. ~Committing' /\ sock' = sock
      BY <1>1, <2>2 DEF Committing
    <3>2. \A f \in Sockets : sock[f] # 0 => sock[f] < q + 1
      BY <1>1, SocketNumbers DEF AsyncInv, SocketOwned
    <3> QED
      BY <2>2, <3>1, <3>2 DEF AsyncInv, SocketOwned
  <2>5. Untouched'
    BY <1>1, <2>1, <2>2, RequestFacts DEF AsyncInv, HttpTypes, Untouched
  <2>6. EntryLive'
    BY <1>1, <2>1, <2>2, RequestFacts DEF AsyncInv, EntryLive, HttpTypes
  <2>7. SocketListed'
    BY <1>1, <2>1, <2>2 DEF AsyncInv, SocketListed
  <2>8. BatchLive'
    BY <1>1 DEF AsyncInv, BatchLive
  <2>9. ResultOnce'
    BY <1>1, <2>1 DEF AsyncInv, ResultOnce
  <2> QED
    BY <2>3, <2>4, <2>5, <2>6, <2>7, <2>8, <2>9 DEF AsyncInv
<1> QED
  BY <1>2, <1>3

LEMMA AddInv == ASSUME NEW ok \in BOOLEAN PROVE AsyncInv /\ CommitAdd(ok) => AsyncInv'
<1> SUFFICES ASSUME AsyncInv, CommitAdd(ok) PROVE AsyncInv'
  OBVIOUS
<1> DEFINE q == caller.req
           h == caller.fd
<1>1. /\ caller.pc = "add" /\ q \in Requests /\ q \in Nat /\ q + 1 \in Nat
      /\ h \in Sockets /\ sock[h] = q /\ q # 0
      /\ UNCHANGED <<sock, arg, poller, answer, result>>
      /\ arg[q] = "live"
  BY RequestFacts DEF CommitAdd, AsyncInv, HttpTypes, SocketOwned, Committing, Untouched
<1>2. /\ caller' = [req |-> q + 1, pc |-> "connect", fd |-> 0]
      /\ caller'.req = q + 1 /\ caller'.pc = "connect"
  BY DEF CommitAdd, NextRequest
<1>3. SocketOwned'
  <2>1. ~Committing' /\ sock' = sock
    BY <1>1, <1>2 DEF Committing
  <2>2. \A f \in Sockets : sock[f] # 0 => sock[f] < q + 1
    BY <1>1, SocketNumbers DEF AsyncInv, SocketOwned
  <2> QED
    BY <1>2, <2>1, <2>2 DEF AsyncInv, SocketOwned
<1>4. q \notin refused /\ result[q] = << >>
  BY <1>1 DEF AsyncInv, Untouched, ResultOnce
<1>5. CASE ok
  <2>1. refused' = refused /\ epoll' = [epoll EXCEPT !.set[h] = q]
    BY <1>5 DEF CommitAdd
  <2>2. /\ epoll' \in [set : [Sockets -> Requests \cup {0}], open : BOOLEAN]
        /\ epoll'.set[h] = q /\ \A f \in Sockets \ {h} : epoll'.set[f] = epoll.set[f]
    BY <1>1, <2>1 DEF AsyncInv, HttpTypes
  <2>3. HttpTypes'
    BY <1>1, <1>2, <2>1, <2>2 DEF AsyncInv, HttpTypes
  <2>4. Untouched'
    BY <1>1, <1>2, <2>1, RequestFacts DEF AsyncInv, HttpTypes, Untouched
  <2>5. EntryLive'
    BY <1>1, <1>2, <1>4, <2>1, <2>2, RequestFacts DEF AsyncInv, EntryLive, HttpTypes
  <2>6. SocketListed'
    BY <1>1, <1>2, <2>1, <2>2 DEF AsyncInv, SocketListed, SocketOwned
  <2>7. BatchLive'
    <3>1. epoll.set[h] = 0
      BY <1>1, SocketNumbers DEF AsyncInv, EntryLive
    <3>2. \A f \in Sockets : epoll.set[f] # 0 => epoll'.set[f] = epoll.set[f]
      BY <2>2, <3>1
    <3>3. \A k \in DOMAIN poller.batch : poller.batch[k] \in Requests
      BY DEF AsyncInv, HttpTypes
    <3> QED
      BY <1>1, <3>2, <3>3, RequestFacts DEF AsyncInv, BatchLive
  <2>8. ResultOnce'
    BY <1>1, <2>1 DEF AsyncInv, ResultOnce
  <2> QED
    BY <1>3, <2>3, <2>4, <2>5, <2>6, <2>7, <2>8 DEF AsyncInv
<1>6. CASE ~ok
  <2>1. refused' = refused \cup {q} /\ epoll' = epoll
    BY <1>6 DEF CommitAdd
  <2>2. HttpTypes'
    BY <1>1, <1>2, <2>1 DEF AsyncInv, HttpTypes
  <2>3. Untouched'
    BY <1>1, <1>2, <2>1, RequestFacts DEF AsyncInv, HttpTypes, Untouched
  <2>4. EntryLive'
    BY <1>1, <1>2, <2>1, RequestFacts DEF AsyncInv, EntryLive, HttpTypes
  <2>5. SocketListed'
    BY <1>1, <1>2, <2>1 DEF AsyncInv, SocketListed
  <2>6. BatchLive'
    BY <1>1, <2>1 DEF AsyncInv, BatchLive
  <2>7. ResultOnce'
    BY <1>1, <1>4, <2>1 DEF AsyncInv, ResultOnce
  <2> QED
    BY <1>3, <2>2, <2>3, <2>4, <2>5, <2>6, <2>7 DEF AsyncInv
<1> QED
  BY <1>5, <1>6

(* The end of main, the servers, and a wait that fails.                    *)
LEMMA QuietInv ==
  ASSUME AsyncInv,
         \/ DestroyContext \/ CancelThread \/ EpollWaitFails
         \/ \E r \in Requests : ServerSendsPiece(r) \/ ServerClosesSocket(r)
         \/ UNCHANGED asyncVars
  PROVE  AsyncInv'
<1>1. UNCHANGED <<sock, arg, result, refused>> /\ epoll'.set = epoll.set
  BY DEF DestroyContext, CancelThread, EpollWaitFails, ServerSendsPiece, ServerClosesSocket,
         asyncVars, AsyncInv, HttpTypes
<1>2. caller'.req = caller.req /\ caller'.fd = caller.fd
  BY DEF DestroyContext, CancelThread, EpollWaitFails, ServerSendsPiece, ServerClosesSocket,
         asyncVars, AsyncInv, HttpTypes
<1>3. /\ Committing' <=> Committing
      /\ caller'.pc = "add" <=> caller.pc = "add"
  BY DEF DestroyContext, CancelThread, EpollWaitFails, ServerSendsPiece, ServerClosesSocket,
         asyncVars, AsyncInv, HttpTypes, Committing
<1>4. /\ poller'.batch = poller.batch
      /\ poller'.state = "batch" <=> poller.state = "batch"
  BY DEF DestroyContext, CancelThread, EpollWaitFails, ServerSendsPiece, ServerClosesSocket,
         asyncVars, AsyncInv, HttpTypes
<1>5. HttpTypes'
  <2>1. /\ caller' \in [req : Nat, pc : {"connect", "send", "add", "cancel", "exit"},
                        fd : Sockets \cup {0}]
        /\ epoll' \in [set : [Sockets -> Requests \cup {0}], open : BOOLEAN]
    BY DEF DestroyContext, CancelThread, EpollWaitFails, ServerSendsPiece, ServerClosesSocket,
           asyncVars, AsyncInv, HttpTypes
  <2>2. poller' \in [state : {"wait", "batch", "ended"}, batch : Seq(Requests)]
    BY DEF DestroyContext, CancelThread, EpollWaitFails, ServerSendsPiece, ServerClosesSocket,
           asyncVars, AsyncInv, HttpTypes
  <2>3. answer' \in [Requests -> [sent : Nat, read : Nat, closed : BOOLEAN]]
    <3>1. ASSUME NEW r \in Requests, ServerSendsPiece(r) PROVE <2>3
      <4>1. answer[r] \in [sent : Nat, read : Nat, closed : BOOLEAN]
        BY DEF AsyncInv, HttpTypes
      <4>2. [answer[r] EXCEPT !.sent = @ + 1] \in [sent : Nat, read : Nat, closed : BOOLEAN]
        BY <4>1
      <4>3. answer' = [answer EXCEPT ![r] = [answer[r] EXCEPT !.sent = @ + 1]]
        BY <3>1 DEF ServerSendsPiece
      <4> QED
        BY <4>2, <4>3 DEF AsyncInv, HttpTypes
    <3>2. ASSUME NEW r \in Requests, ServerClosesSocket(r) PROVE <2>3
      <4>1. answer[r] \in [sent : Nat, read : Nat, closed : BOOLEAN]
        BY DEF AsyncInv, HttpTypes
      <4>2. [answer[r] EXCEPT !.closed = TRUE] \in [sent : Nat, read : Nat, closed : BOOLEAN]
        BY <4>1
      <4>3. answer' = [answer EXCEPT ![r] = [answer[r] EXCEPT !.closed = TRUE]]
        BY <3>2 DEF ServerClosesSocket
      <4> QED
        BY <4>2, <4>3 DEF AsyncInv, HttpTypes
    <3>3. CASE UNCHANGED answer
      BY <3>3 DEF AsyncInv, HttpTypes
    <3> QED
      BY <3>1, <3>2, <3>3 DEF DestroyContext, CancelThread, EpollWaitFails, asyncVars
  <2> QED
    BY <1>1, <2>1, <2>2, <2>3 DEF AsyncInv, HttpTypes
<1>6. SocketOwned' /\ SocketListed'
  BY <1>1, <1>2, <1>3 DEF AsyncInv, SocketOwned, SocketListed
<1>7. Untouched' /\ EntryLive'
  BY <1>1, <1>2, <1>3 DEF AsyncInv, Untouched, EntryLive
<1>8. BatchLive' /\ ResultOnce'
  BY <1>1, <1>4 DEF AsyncInv, BatchLive, ResultOnce
<1> QED
  BY <1>5, <1>6, <1>7, <1>8 DEF AsyncInv

(* The image of a finite set under a function, counted.                    *)
LEMMA ImageFinite ==
  ASSUME NEW S, IsFiniteSet(S), S # {}, NEW T, NEW f \in [S -> T], T = {f[x] : x \in S}
  PROVE  IsFiniteSet(T) /\ Cardinality(T) \in Nat \ {0}
<1>1. f \in Surjection(S, T)
  BY DEF Surjection
<1>2. IsFiniteSet(T)
  BY <1>1, FS_Surjection
<1>3. T # {}
  OBVIOUS
<1> QED
  BY <1>2, <1>3, FS_CardinalityType, FS_EmptySet

LEMMA OrderIsSeq ==
  ASSUME NEW n \in Nat \ {0}, NEW T, NEW U, T \subseteq U, NEW s \in [1 .. n -> T]
  PROVE  s \in Seq(U) /\ s # << >> /\ DOMAIN s = 1 .. n
<1>1. s \in [1 .. n -> U]
  OBVIOUS
<1> QED
  BY <1>1

(* epoll_wait hands out entries of epoll, each once.                       *)
LEMMA WaitInv == ASSUME NEW batch \in SUBSET Sockets PROVE AsyncInv /\ EpollWait(batch) => AsyncInv'
<1> SUFFICES ASSUME AsyncInv, EpollWait(batch) PROVE AsyncInv'
  OBVIOUS
<1> DEFINE T == {epoll.set[f] : f \in batch}
<1>1. /\ batch # {} /\ \A f \in batch : epoll.set[f] # 0
      /\ UNCHANGED <<caller, sock, arg, epoll, answer, result, refused>>
  BY DEF EpollWait
<1>2. PICK order \in SetToSeqs(T) : poller' = [state |-> "batch", batch |-> order]
  BY DEF EpollWait
<1>3. IsFiniteSet(T) /\ Cardinality(T) \in Nat \ {0}
  <2>1. IsFiniteSet(batch)
    BY HttpAssumption, FS_Subset
  <2> DEFINE g == [f \in batch |-> epoll.set[f]]
  <2>2. g \in [batch -> T] /\ T = {g[f] : f \in batch}
    OBVIOUS
  <2>3. batch # {}
    BY <1>1
  <2> HIDE DEF g, T
  <2> QED
    BY <2>1, <2>2, <2>3, ImageFinite
<1>4. T \subseteq Requests
  BY <1>1 DEF AsyncInv, HttpTypes
<1>5. /\ order \in [1 .. Cardinality(T) -> T]
      /\ \A i, j \in 1 .. Cardinality(T) : i # j => order[i] # order[j]
  BY <1>2 DEF SetToSeqs
<1>6. /\ order \in Seq(Requests) /\ order # << >> /\ DOMAIN order = 1 .. Cardinality(T)
  BY <1>3, <1>4, <1>5, OrderIsSeq
<1>7. HttpTypes'
  BY <1>1, <1>2, <1>6 DEF AsyncInv, HttpTypes
<1>8. SocketOwned' /\ Untouched' /\ EntryLive' /\ SocketListed' /\ ResultOnce'
  BY <1>1 DEF AsyncInv, SocketOwned, Untouched, EntryLive, SocketListed, ResultOnce, Committing
<1>9. BatchLive'
  <2>1. \A k \in DOMAIN order : \E f \in Sockets : epoll.set[f] = order[k]
    BY <1>5, <1>6
  <2> QED
    BY <1>1, <1>2, <1>5, <1>6, <2>1 DEF BatchLive
<1> QED
  BY <1>7, <1>8, <1>9 DEF AsyncInv

(* The first event of a batch: its entry, its socket, and the rest of the  *)
(* batch after it.                                                         *)
LEMMA FirstEvent ==
  ASSUME AsyncInv, poller.state = "batch"
  PROVE  LET r == Head(poller.batch)  h == FdOf(r)
         IN  /\ r \in Requests /\ h \in Sockets
             /\ sock[h] = r /\ epoll.set[h] = r /\ r < caller.req
             /\ arg[r] = "live" /\ r \notin refused
             /\ \A f \in Sockets : sock[f] = r => f = h
<1> DEFINE r == Head(poller.batch)
           h == FdOf(r)
<1>1. poller.batch \in Seq(Requests) /\ poller.batch # << >>
  BY DEF AsyncInv, HttpTypes, BatchLive
<1>2. 1 \in DOMAIN poller.batch /\ r = poller.batch[1] /\ r \in Requests
  BY <1>1
<1>3. PICK g \in Sockets : epoll.set[g] = r
  BY <1>2 DEF AsyncInv, BatchLive
<1>4. r # 0
  BY <1>2, RequestFacts
<1>5. /\ sock[g] = r /\ r < caller.req
      /\ arg[r] = "live" /\ r \notin refused
  BY <1>3, <1>4 DEF AsyncInv, EntryLive
<1>6. \A f \in Sockets : sock[f] = r => f = g
  BY <1>4, <1>5 DEF AsyncInv, SocketOwned
<1>7. h = g
  BY <1>5, <1>6 DEF FdOf
<1> QED
  BY <1>2, <1>3, <1>5, <1>6, <1>7

LEMMA RestOfBatch ==
  ASSUME AsyncInv, poller.state = "batch"
  PROVE  LET rest == Tail(poller.batch)
         IN  /\ AfterEvent \in [state : {"wait", "batch"}, batch : Seq(Requests)]
             /\ AfterEvent.batch = rest
             /\ AfterEvent.state = "batch" <=> rest # << >>
             /\ \A k \in DOMAIN rest : /\ k + 1 \in DOMAIN poller.batch
                                       /\ rest[k] = poller.batch[k + 1]
                                       /\ rest[k] # Head(poller.batch)
             /\ \A j, k \in DOMAIN rest : j # k => rest[j] # rest[k]
<1> DEFINE rest == Tail(poller.batch)
<1>1. poller.batch \in Seq(Requests) /\ poller.batch # << >>
  BY DEF AsyncInv, HttpTypes, BatchLive
<1>2. rest \in Seq(Requests) /\ 1 \in DOMAIN poller.batch /\ Head(poller.batch) = poller.batch[1]
  BY <1>1
<1>3. \A k \in DOMAIN rest : /\ k \in Nat \ {0} /\ k + 1 \in DOMAIN poller.batch
                             /\ rest[k] = poller.batch[k + 1]
  BY <1>1
<1>4. \A j, k \in DOMAIN poller.batch : j # k => poller.batch[j] # poller.batch[k]
  BY DEF AsyncInv, BatchLive
<1>5. \A k \in DOMAIN rest : rest[k] # Head(poller.batch)
  BY <1>2, <1>3, <1>4
<1>6. \A j, k \in DOMAIN rest : j # k => rest[j] # rest[k]
  BY <1>3, <1>4
<1> QED
  BY <1>2, <1>3, <1>5, <1>6 DEF AfterEvent

(* An event that is handled, with its callback or after an error: socket,  *)
(* entry and ep_arg go together, and those of the other events stay.       *)
LEMMA EventInv ==
  ASSUME AsyncInv, poller.state = "batch",
         RecvAndFinish(Head(poller.batch)) \/ RecvFails(Head(poller.batch))
  PROVE  AsyncInv'
<1> DEFINE r == Head(poller.batch)
           h == FdOf(r)
           rest == Tail(poller.batch)
<1>1. /\ r \in Requests /\ h \in Sockets
      /\ sock[h] = r /\ epoll.set[h] = r /\ r < caller.req
      /\ arg[r] = "live" /\ r \notin refused
      /\ \A f \in Sockets : sock[f] = r => f = h
  BY FirstEvent
<1>2. /\ sock' = [sock EXCEPT ![h] = 0] /\ epoll' = [epoll EXCEPT !.set[h] = 0]
      /\ arg' = [arg EXCEPT ![r] = "freed"] /\ poller' = AfterEvent
      /\ UNCHANGED <<caller, refused>>
  BY DEF RecvAndFinish, RecvFails
<1>3. /\ sock' \in [Sockets -> Requests \cup {0}]
      /\ sock'[h] = 0 /\ \A f \in Sockets \ {h} : sock'[f] = sock[f]
  BY <1>1, <1>2 DEF AsyncInv, HttpTypes
<1>4. /\ epoll' \in [set : [Sockets -> Requests \cup {0}], open : BOOLEAN]
      /\ epoll'.set[h] = 0 /\ \A f \in Sockets \ {h} : epoll'.set[f] = epoll.set[f]
  BY <1>1, <1>2 DEF AsyncInv, HttpTypes
<1>5. /\ arg' \in [Requests -> {"none", "live", "freed"}]
      /\ arg'[r] = "freed" /\ \A q \in Requests \ {r} : arg'[q] = arg[q]
  BY <1>1, <1>2 DEF AsyncInv, HttpTypes
<1>6. /\ result[r] = << >> /\ result' \in [Requests -> Seq(Int)]
      /\ \A q \in Requests \ {r} : result'[q] = result[q]
      /\ Len(result'[r]) =< 1
  <2>1. result[r] = << >>
    BY <1>1 DEF AsyncInv, ResultOnce
  <2>2. CASE RecvFails(r)
    BY <1>1, <2>1, <2>2 DEF RecvFails, AsyncInv, HttpTypes
  <2>3. CASE RecvAndFinish(r)
    <3> DEFINE n == answer[r].sent - answer[r].read
    <3>1. n \in Int
      BY <1>1 DEF AsyncInv, HttpTypes
    <3>2. result' = [result EXCEPT ![r] = <<n>>]
      BY <1>1, <2>1, <2>3 DEF RecvAndFinish, AsyncInv, HttpTypes
    <3>3. <<n>> \in Seq(Int) /\ Len(<<n>>) = 1
      BY <3>1
    <3> HIDE DEF n
    <3> QED
      BY <1>1, <2>1, <3>2, <3>3 DEF AsyncInv, HttpTypes
  <2> QED
    BY <2>2, <2>3
<1>7. answer' \in [Requests -> [sent : Nat, read : Nat, closed : BOOLEAN]]
  <2>1. CASE RecvFails(r)
    BY <2>1 DEF RecvFails, AsyncInv, HttpTypes
  <2>2. CASE RecvAndFinish(r)
    <3>1. answer[r] \in [sent : Nat, read : Nat, closed : BOOLEAN]
      BY <1>1 DEF AsyncInv, HttpTypes
    <3>2. [answer[r] EXCEPT !.read = answer[r].sent] \in [sent : Nat, read : Nat, closed : BOOLEAN]
      BY <3>1
    <3>3. answer' = [answer EXCEPT ![r] = [answer[r] EXCEPT !.read = answer[r].sent]]
      BY <2>2 DEF RecvAndFinish
    <3> QED
      BY <3>2, <3>3 DEF AsyncInv, HttpTypes
  <2> QED
    BY <2>1, <2>2
<1>8. /\ poller' \in [state : {"wait", "batch"}, batch : Seq(Requests)]
      /\ poller'.batch = rest
      /\ poller'.state = "batch" <=> rest # << >>
      /\ \A k \in DOMAIN rest : /\ k + 1 \in DOMAIN poller.batch
                                /\ rest[k] = poller.batch[k + 1]
                                /\ rest[k] # r
      /\ \A j, k \in DOMAIN rest : j # k => rest[j] # rest[k]
  BY <1>2, RestOfBatch
<1> HIDE DEF r, h, rest
<1>9. HttpTypes'
  BY <1>2, <1>3, <1>4, <1>5, <1>6, <1>7, <1>8 DEF AsyncInv, HttpTypes
<1>10. SocketOwned'
  <2>1. caller' = caller /\ (Committing' <=> Committing)
    BY <1>2 DEF Committing
  <2>2. \A f \in Sockets : sock'[f] # 0 => f # h /\ sock'[f] = sock[f]
    BY <1>3
  <2>3. Committing => caller.fd # h /\ caller.fd \in Sockets
    BY <1>1, SocketNumbers DEF AsyncInv, SocketOwned
  <2>4. \A f, g \in Sockets : sock'[f] = sock'[g] /\ sock'[f] # 0 => f = g
    BY <2>2 DEF AsyncInv, SocketOwned
  <2>5. Committing => /\ caller.fd \in Sockets /\ caller.req \in Requests
                      /\ sock'[caller.fd] = caller.req
    BY <1>3, <2>3 DEF AsyncInv, SocketOwned
  <2>6. \A f \in Sockets : sock'[f] # 0 => \/ sock'[f] < caller.req
                                           \/ sock'[f] = caller.req /\ Committing
    BY <2>2 DEF AsyncInv, SocketOwned
  <2> QED
    BY <2>1, <2>4, <2>5, <2>6 DEF SocketOwned
<1>11. Untouched'
  <2>1. r \in Nat /\ caller.req \in Nat /\ \A q \in Requests : q \in Nat
    BY <1>1, RequestFacts, SocketNumbers DEF AsyncInv
  <2>2. \A q \in Requests : q >= caller.req => arg'[q] = arg[q]
    BY <1>1, <1>5, <2>1
  <2> QED
    BY <1>2, <2>1, <2>2 DEF AsyncInv, Untouched
<1>12. EntryLive'
  <2> SUFFICES ASSUME NEW f \in Sockets, epoll'.set[f] # 0
               PROVE  /\ sock'[f] = epoll'.set[f] /\ sock'[f] < caller'.req
                      /\ arg'[sock'[f]] = "live" /\ sock'[f] \notin refused'
    BY DEF EntryLive
  <2>1. f # h /\ epoll'.set[f] = epoll.set[f] /\ sock'[f] = sock[f]
    BY <1>3, <1>4
  <2>2. sock[f] # r /\ sock[f] \in Requests
    BY <1>1, <2>1 DEF AsyncInv, HttpTypes, EntryLive
  <2> QED
    BY <1>2, <1>5, <2>1, <2>2 DEF AsyncInv, EntryLive
<1>13. SocketListed'
  BY <1>2, <1>3, <1>4 DEF AsyncInv, SocketListed, Committing
<1>14. BatchLive'
  <2>1. ASSUME NEW k \in DOMAIN rest PROVE \E f \in Sockets : epoll'.set[f] = rest[k]
    <3>1. PICK f \in Sockets : epoll.set[f] = rest[k]
      BY <1>8 DEF AsyncInv, BatchLive
    <3>2. f # h
      BY <1>1, <1>8, <3>1
    <3> QED
      BY <1>4, <3>1, <3>2
  <2> QED
    BY <1>8, <2>1 DEF BatchLive
<1>15. ResultOnce'
  BY <1>1, <1>2, <1>5, <1>6 DEF AsyncInv, ResultOnce
<1> QED
  BY <1>9, <1>10, <1>11, <1>12, <1>13, <1>14, <1>15 DEF AsyncInv

LEMMA NextAsyncInv == AsyncInv /\ [AsyncNext]_asyncVars => AsyncInv'
<1> SUFFICES ASSUME AsyncInv, [AsyncNext]_asyncVars PROVE AsyncInv'
  OBVIOUS
<1>1. CASE CommitConnect
  BY <1>1, ConnectInv
<1>2. ASSUME NEW ok \in BOOLEAN, CommitSend(ok) \/ CommitAdd(ok) PROVE AsyncInv'
  BY <1>2, SendInv, AddInv
<1>3. CASE \/ DestroyContext \/ CancelThread \/ EpollWaitFails
           \/ \E r \in Requests : ServerSendsPiece(r) \/ ServerClosesSocket(r)
           \/ UNCHANGED asyncVars
  BY <1>3, QuietInv
<1>4. ASSUME NEW batch \in SUBSET Sockets, EpollWait(batch) PROVE AsyncInv'
  BY <1>4, WaitInv
<1>5. CASE HandleEvent \/ HandleEventFails
  BY <1>5, EventInv DEF HandleEvent, HandleEventFails
<1> QED
  BY <1>1, <1>2, <1>3, <1>4, <1>5 DEF AsyncNext, WaitStep

----------------------------------------------------------------------------
(* The select loop of sync_http.c. *)

SelectInv ==
  /\ get \in [sent : Nat, closed : BOOLEAN, read : Nat, reset : {"no", "pending", "seen"}, fdread : BOOLEAN,
              tv : {"left", "zero"}, state : {"loop", "done", "crashed"}, timedOut : BOOLEAN]
  /\ get.read =< get.sent
  /\ get.state = "done" => get.read = get.sent /\ (get.closed \/ get.reset = "seen")
  /\ get.reset = "seen" => get.read = get.sent /\ (get.state = "crashed" <=> get.read = 0)
  /\ get.state = "crashed" => get.reset = "seen"

LEMMA NextSelectInv == SelectInv /\ [SelectNext]_get => SelectInv'
<1> SUFFICES ASSUME SelectInv, [SelectNext]_get PROVE SelectInv'
  OBVIOUS
<1>1. CASE SyncServer
  <2>1. get.state = "loop" /\ get.reset = "no"
    BY <1>1 DEF SyncServer, SelectInv
  <2>2. CASE get' = [get EXCEPT !.sent = @ + 1]
    BY <2>1, <2>2 DEF SelectInv
  <2>3. CASE get' = [get EXCEPT !.closed = TRUE]
    BY <2>1, <2>3 DEF SelectInv
  <2>4. CASE get' = [get EXCEPT !.reset = "pending"]
    BY <2>1, <2>4 DEF SelectInv
  <2> QED
    BY <1>1, <2>2, <2>3, <2>4 DEF SyncServer
<1>2. CASE SelectReads
  <2>1. CASE get.read < get.sent
    <3>1. get' = [get EXCEPT !.read = get.sent] /\ get.state = "loop"
      BY <1>2, <2>1 DEF SelectReads
    <3>2. get.reset # "seen"
      BY <2>1 DEF SelectInv
    <3> QED
      BY <3>1, <3>2 DEF SelectInv
  <2>2. CASE ~(get.read < get.sent)
    <3>1. /\ get' = [get EXCEPT !.state = "done"] /\ get.state = "loop"
          /\ get.reset # "pending" /\ (get.closed \/ get.reset # "no")
      BY <1>2, <2>2 DEF SelectReads, SelectReadable
    <3> QED
      BY <2>2, <3>1 DEF SelectInv
  <2> QED
    BY <2>1, <2>2
<1>3. CASE SelectFails
  <2>1. /\ get.state = "loop" /\ get.read = get.sent /\ get.reset = "pending"
        /\ get' = [get EXCEPT !.reset = "seen", !.state = IF get.read = 0 THEN "crashed" ELSE "loop"]
    BY <1>3 DEF SelectFails, SelectInv
  <2> QED
    BY <2>1 DEF SelectInv
<1>4. CASE SelectTimesOut
  BY <1>4 DEF SelectTimesOut, SelectInv
<1>5. CASE UNCHANGED get
  BY <1>5 DEF SelectInv
<1> QED
  BY <1>1, <1>2, <1>3, <1>4, <1>5 DEF SelectNext

LEMMA InvIsSafe == AsyncInv /\ SelectInv => HttpClientSafe
<1> SUFFICES ASSUME AsyncInv, SelectInv PROVE HttpClientSafe
  OBVIOUS
<1>1. ArgAlive
  <2> SUFFICES ASSUME NEW k \in DOMAIN poller.batch
               PROVE  /\ arg[poller.batch[k]] = "live"
                      /\ \E f \in Sockets : sock[f] = poller.batch[k]
    BY DEF ArgAlive
  <2>1. PICK f \in Sockets : epoll.set[f] = poller.batch[k]
    BY DEF AsyncInv, BatchLive
  <2>2. poller.batch[k] # 0
    BY RequestFacts DEF AsyncInv, HttpTypes
  <2> QED
    BY <2>1, <2>2 DEF AsyncInv, EntryLive
<1>2. NoSocketLeaks
  BY DEF NoSocketLeaks, AsyncInv, SocketListed, EntryLive
<1>3. CalledOnce
  BY DEF CalledOnce, AsyncInv, ResultOnce
<1>4. SyncWhole
  BY DEF SyncWhole, SelectInv
<1> QED
  BY <1>1, <1>2, <1>3, <1>4 DEF HttpClientSafe

(* In every behaviour of the two clients, whatever the number of requests, *)
(* of sockets and of events in a batch, and in whatever order the answers, *)
(* the errors and the close of the context come: an event is handled with  *)
(* a live ep_arg and its own socket, no socket stays open but those of     *)
(* commits that failed (async_http.c:352, 367), a callback is called once  *)
(* at most, and the select loop returns at the close of the server with    *)
(* the whole answer, or after a reset with the part that had arrived; it   *)
(* crashes only when a reset leaves it without any.                        *)
THEOREM HttpClientsSafe == HttpClientsSpec => []HttpClientSafe
<1>1. AsyncInit /\ SelectInit => AsyncInv /\ SelectInv
  BY InitAsyncInv DEF SelectInit, SelectInv
<1>2. /\ AsyncInv /\ SelectInv
      /\ [\/ AsyncNext /\ UNCHANGED get
          \/ SelectNext /\ UNCHANGED asyncVars]_<<asyncVars, get>>
      => AsyncInv' /\ SelectInv'
  BY NextAsyncInv, NextSelectInv
<1>3. AsyncInv /\ SelectInv => HttpClientSafe
  BY InvIsSafe
<1> QED
  BY <1>1, <1>2, <1>3, PTL DEF HttpClientsSpec
================================================================================
