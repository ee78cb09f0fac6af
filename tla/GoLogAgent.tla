----------------------------- MODULE GoLogAgent ------------------------------
(* The log agent of src/Go/log/logagent1: tail follows a file from its end    *)
(* and hands the lines over one by one, Run sends each to kafka and waits for  *)
(* the answer.  Tail and the producer are external: a line is sent to a random *)
(* partition, again after a failure, and at last SendMessage gives up.         *)
EXTENDS Naturals, Sequences, Functions

CONSTANTS
  Lines,        \* lines written to the file, counted
  Partitions,   \* partitions of the topic
  MaxRetry      \* attempts of the producer after the first

VARIABLES
  logged,       \* lines in the file; before: those that were there at the start
  agent,        \* Run: what it does, the line it has, the attempts for it
  topic         \* the partitions

agentVars == <<logged, agent, topic>>

AgentInit ==
  /\ logged \in 0 .. 1
  /\ agent = [pc |-> "init", line |-> 0, tries |-> 0, start |-> 0]
  /\ topic = [p \in Partitions |-> <<>>]

Write ==
  /\ logged < Lines
  /\ logged' = logged + 1
  /\ UNCHANGED <<agent, topic>>

\* kafka.Init and taillog.Init; an error in the first ends the program.  The
\* tail starts at the end of the file (Whence 2).
AgentStart ==
  /\ agent.pc = "init"
  /\ \/ agent' = [agent EXCEPT !.pc = "ended"]
     \/ agent' = [agent EXCEPT !.pc = "select", !.line = logged, !.start = logged]
  /\ UNCHANGED <<logged, topic>>

\* The select of Run takes the next line; without one it sleeps.
Select ==
  /\ agent.pc = "select" /\ agent.line < logged
  /\ agent' = [agent EXCEPT !.pc = "send", !.line = @ + 1, !.tries = 0]
  /\ UNCHANGED <<logged, topic>>

\* Tail has given the file up and closed its channel.
LinesClosed ==
  /\ agent.pc = "select"
  /\ agent' = [agent EXCEPT !.pc = "ended"]
  /\ UNCHANGED <<logged, topic>>

\* Mutant: a failed line is skipped and the loop goes on.
DeliverOrSkip ==
  /\ agent.pc = "send"
  /\ \E p \in Partitions, written \in BOOLEAN :
       /\ topic' = IF written THEN [topic EXCEPT ![p] = Append(@, agent.line)] ELSE topic
       /\ agent' = IF written \/ agent.tries = MaxRetry THEN [agent EXCEPT !.pc = "select"]
                                                        ELSE [agent EXCEPT !.tries = @ + 1]
  /\ UNCHANGED logged

\* One attempt of the producer.  Written without an answer, it is tried again.
Deliver ==
  /\ agent.pc = "send"
  /\ \E p \in Partitions, written \in BOOLEAN, acked \in BOOLEAN :
       /\ acked => written
       /\ ~written => p = CHOOSE q \in Partitions : TRUE
       /\ topic' = IF written THEN [topic EXCEPT ![p] = Append(@, agent.line)] ELSE topic
       /\ agent' = CASE acked -> [agent EXCEPT !.pc = "select"]
                     [] ~acked /\ agent.tries < MaxRetry -> [agent EXCEPT !.tries = @ + 1]
                     [] OTHER -> [agent EXCEPT !.pc = "ended"]
  /\ UNCHANGED logged

Run == Select \/ Deliver
AgentNext == Write \/ AgentStart \/ LinesClosed \/ Run

Received == UNION {Range(topic[p]) : p \in Partitions}

\* What has arrived is the lines since the start without a gap; only the last
\* one taken may be missing, and with it the agent ends (main.go:50).
NoGap ==
  /\ (agent.start + 1) .. (agent.line - 1) \subseteq Received
  /\ Received \subseteq (agent.start + 1) .. agent.line
  /\ agent.pc = "select" => agent.line = agent.start \/ agent.line \in Received

\* Within a partition the lines are in order, although one may come twice
\* (kafka.go:15-18: the partition of every message is chosen at random).
PartitionOrder ==
  \A p \in Partitions : \A i \in 1 .. Len(topic[p]) - 1 : topic[p][i] <= topic[p][i + 1]

\* A line that is written while the agent runs is taken, or the agent ends.
LinesTaken == (agent.pc \in {"select", "send"} /\ agent.line < logged) ~> (agent.line = logged \/ agent.pc = "ended")
=============================================================================
