------------------------------ MODULE HttpClients ------------------------------
(***************************************************************************)
(* syncHttp_and_asyncHttp.  async_http.c: the main thread commits requests *)
(* one after the other, a second thread waits for the answers with epoll.  *)
(* sync_http.c: one request with a select loop.  Answers are sequences of  *)
(* pieces, as they arrive; descriptors are used again after close.         *)
(***************************************************************************)
EXTENDS Integers, Sequences, SequencesExt, FiniteSets, FiniteSetsExt

CONSTANTS Requests,      \* 1 .. the number of reqs
          Sockets,       \* descriptor numbers
          EPOLL_WAIT_NUM,
          Pieces         \* the pieces of an answer, at most

ASSUME HttpAssumption ==
  Requests \subseteq Nat \ {0} /\ Sockets \subseteq Nat \ {0} /\ IsFiniteSet(Sockets)

VARIABLES caller,    \* the main thread: request, pc and its socket
          sock,      \* per open descriptor: the request it was opened for, or 0
          arg,       \* per request: ep_arg is "none", "live" or "freed"
          epoll,     \* descriptors in the epoll set, with their ep_arg; closed or not
          poller,    \* the thread: its batch of events
          answer,    \* per request: pieces the server has sent, read, and its close
          result,    \* per request: the results given to the callback
          refused     \* requests whose commit has returned -1

asyncVars == <<caller, sock, arg, epoll, poller, answer, result, refused>>

AsyncInit ==
  /\ caller = [req |-> 1, pc |-> "connect", fd |-> 0]
  /\ sock = [f \in Sockets |-> 0]
  /\ arg = [r \in Requests |-> "none"]
  /\ epoll = [set |-> [f \in Sockets |-> 0], open |-> TRUE]
  /\ poller = [state |-> "wait", batch |-> << >>]
  /\ answer = [r \in Requests |-> [sent |-> 0, read |-> 0, closed |-> FALSE]]
  /\ result = [r \in Requests |-> << >>]
  /\ refused = {}

Running == caller.pc # "exit"
FdOf(r) == CHOOSE f \in Sockets : sock[f] = r

----------------------------------------------------------------------------
(* async_http_commit; a socket or connect that fails ends the process *)

CommitConnect ==
  /\ caller.pc = "connect" /\ caller.req \in Requests
  /\ \E f \in Sockets :
       /\ sock[f] = 0 /\ \A g \in Sockets : sock[g] = 0 => f =< g
       /\ sock' = [sock EXCEPT ![f] = caller.req]
       /\ caller' = [caller EXCEPT !.pc = "send", !.fd = f]
  /\ UNCHANGED <<arg, epoll, poller, answer, result, refused>>

NextRequest == [req |-> caller.req + 1, pc |-> "connect", fd |-> 0]

\* send, and calloc when it has succeeded; otherwise commit returns -1.
CommitSend(ok) ==
  /\ caller.pc = "send"
  /\ arg' = IF ok THEN [arg EXCEPT ![caller.req] = "live"] ELSE arg
  /\ caller' = IF ok THEN [caller EXCEPT !.pc = "add"] ELSE NextRequest
  /\ refused' = IF ok THEN refused ELSE refused \cup {caller.req}
  /\ UNCHANGED <<sock, epoll, poller, answer, result>>

CommitAdd(ok) ==
  /\ caller.pc = "add"
  /\ epoll' = IF ok THEN [epoll EXCEPT !.set[caller.fd] = caller.req] ELSE epoll
  /\ caller' = NextRequest
  /\ refused' = IF ok THEN refused ELSE refused \cup {caller.req}
  /\ UNCHANGED <<sock, arg, poller, answer, result>>

\* async_http_destory_context, after a key was pressed; the process ends.
DestroyContext ==
  /\ caller.req \notin Requests /\ caller.pc = "connect"
  /\ epoll' = [epoll EXCEPT !.open = FALSE]
  /\ caller' = [caller EXCEPT !.pc = "cancel"]
  /\ UNCHANGED <<sock, arg, poller, answer, result, refused>>

CancelThread ==
  /\ caller.pc = "cancel"
  /\ caller' = [caller EXCEPT !.pc = "exit"]
  /\ UNCHANGED <<sock, arg, epoll, poller, answer, result, refused>>

----------------------------------------------------------------------------
(* The servers *)

ServerSendsPiece(r) ==
  /\ \E f \in Sockets : sock[f] = r
  /\ arg[r] # "none" /\ ~answer[r].closed /\ answer[r].sent < Pieces
  /\ answer' = [answer EXCEPT ![r].sent = @ + 1]
  /\ UNCHANGED <<caller, sock, arg, epoll, poller, result, refused>>

ServerClosesSocket(r) ==
  /\ \E f \in Sockets : sock[f] = r
  /\ arg[r] # "none" /\ ~answer[r].closed
  /\ answer' = [answer EXCEPT ![r].closed = TRUE]
  /\ UNCHANGED <<caller, sock, arg, epoll, poller, result, refused>>

----------------------------------------------------------------------------
(* async_http_thread_func *)

HttpReadable(r) == answer[r].read < answer[r].sent \/ answer[r].closed

EpollWait(batch) ==
  /\ Running /\ poller.state = "wait" /\ epoll.open
  /\ batch # {} /\ Cardinality(batch) =< EPOLL_WAIT_NUM
  /\ \A f \in batch : epoll.set[f] # 0 /\ (sock[f] # 0 => HttpReadable(sock[f]))
  /\ \E order \in SetToSeqs({epoll.set[f] : f \in batch}) :
       poller' = [state |-> "batch", batch |-> order]
  /\ UNCHANGED <<caller, sock, arg, epoll, answer, result, refused>>

\* epoll_wait on a closed descriptor fails and the thread ends.
EpollWaitFails ==
  /\ Running /\ poller.state = "wait" /\ ~epoll.open
  /\ poller' = [poller EXCEPT !.state = "ended"]
  /\ UNCHANGED <<caller, sock, arg, epoll, answer, result, refused>>

AfterEvent == LET rest == Tail(poller.batch) IN [state |-> IF rest = << >> THEN "wait" ELSE "batch", batch |-> rest]

\* recv fails: close and free, without the callback.
RecvFails(r) ==
  /\ sock' = [sock EXCEPT ![FdOf(r)] = 0]
  /\ epoll' = [epoll EXCEPT !.set[FdOf(r)] = 0]
  /\ arg' = [arg EXCEPT ![r] = "freed"]
  /\ poller' = AfterEvent
  /\ UNCHANGED <<caller, answer, result, refused>>

\* Mutant: the socket stays open and in the epoll set.
RecvAndFinishOpen(r) ==
  /\ answer' = [answer EXCEPT ![r].read = answer[r].sent]
  /\ result' = [result EXCEPT ![r] = Append(@, answer[r].sent - answer[r].read)]
  /\ arg' = [arg EXCEPT ![r] = "freed"]
  /\ poller' = AfterEvent
  /\ UNCHANGED <<caller, sock, epoll, refused>>

\* recv takes what has arrived, none after a close; then the callback,
\* EPOLL_CTL_DEL, close and free, whether DEL succeeds or not.
RecvAndFinish(r) ==
  /\ answer' = [answer EXCEPT ![r].read = answer[r].sent]
  /\ result' = [result EXCEPT ![r] = Append(@, answer[r].sent - answer[r].read)]
  /\ sock' = [sock EXCEPT ![FdOf(r)] = 0]
  /\ epoll' = [epoll EXCEPT !.set[FdOf(r)] = 0]
  /\ arg' = [arg EXCEPT ![r] = "freed"]
  /\ poller' = AfterEvent
  /\ UNCHANGED <<caller, refused>>

HandleEvent == Running /\ poller.state = "batch" /\ RecvAndFinish(Head(poller.batch))
HandleEventFails == Running /\ poller.state = "batch" /\ RecvFails(Head(poller.batch))
WaitStep == (\E batch \in SUBSET Sockets : EpollWait(batch)) \/ EpollWaitFails

AsyncNext ==
  \/ CommitConnect \/ DestroyContext \/ CancelThread
  \/ \E ok \in BOOLEAN : CommitSend(ok) \/ CommitAdd(ok)
  \/ \E r \in Requests : ServerSendsPiece(r) \/ ServerClosesSocket(r)
  \/ WaitStep \/ HandleEvent \/ HandleEventFails

----------------------------------------------------------------------------
(* sync_http.c: http_send_request *)

VARIABLES get   \* answer pieces, how the server ends, what select looks at, the time left, the result

selectVars == <<get>>

SelectInit ==
  get = [sent |-> 0, closed |-> FALSE, read |-> 0, reset |-> "no",
         fdread |-> TRUE, tv |-> "left", state |-> "loop", timedOut |-> FALSE]

\* The server sends a piece, closes, or its connection is reset.
SyncServer ==
  /\ ~get.closed /\ get.reset = "no"
  /\ \/ get.sent < Pieces /\ get' = [get EXCEPT !.sent = @ + 1]
     \/ get' = [get EXCEPT !.closed = TRUE]
     \/ get' = [get EXCEPT !.reset = "pending"]

SelectReadable == get.fdread /\ (get.read < get.sent \/ get.closed \/ get.reset # "no")

\* recv takes what is there; 0, after a close or after the error of a reset
\* has been returned, ends the loop.
SelectReads ==
  /\ get.state = "loop" /\ SelectReadable
  /\ get.read < get.sent \/ get.reset # "pending"
  /\ get' = IF get.read < get.sent THEN [get EXCEPT !.read = get.sent] ELSE [get EXCEPT !.state = "done"]

\* recv returns -1 once when the connection was reset.  The loop does not look:
\* realloc gives the text one byte less than it needs, where it stays as it is,
\* and the loop goes on; without any text realloc(result, 0) frees it, and
\* strncat writes through NULL.
SelectFails ==
  /\ get.state = "loop" /\ SelectReadable
  /\ get.read = get.sent /\ get.reset = "pending"
  /\ get' = [get EXCEPT !.reset = "seen", !.state = IF get.read = 0 THEN "crashed" ELSE @]

\* The five seconds are over, in all calls together: select empties fdread,
\* which is never filled again, and from now on returns 0 at once.
SelectTimesOut ==
  /\ get.state = "loop" /\ ~SelectReadable
  /\ get' = [get EXCEPT !.fdread = FALSE, !.tv = "zero", !.timedOut = TRUE]

SelectNext == SyncServer \/ SelectReads \/ SelectFails \/ SelectTimesOut

\* The two programs, each by itself.
HttpClientsSpec ==
  /\ AsyncInit /\ SelectInit
  /\ [][\/ AsyncNext /\ UNCHANGED get
        \/ SelectNext /\ UNCHANGED asyncVars]_<<asyncVars, get>>

----------------------------------------------------------------------------
(* Properties *)

(* Every event of a batch that is still to be handled has its ep_arg and   *)
(* its socket, although main opens sockets with the numbers of closed ones *)
(* meanwhile (async_http.c:306-328).                                       *)
ArgAlive ==
  \A k \in DOMAIN poller.batch : arg[poller.batch[k]] = "live" /\ \E f \in Sockets : sock[f] = poller.batch[k]

(* A socket is open only while its request waits for its answer, or after  *)
(* its commit has failed, which leaves it open (async_http.c:352, 367).    *)
NoSocketLeaks ==
  \A f \in Sockets : sock[f] # 0 =>
    \/ sock[f] = caller.req
    \/ sock[f] \in refused
    \/ epoll.set[f] = sock[f] /\ arg[sock[f]] = "live"

(* The callback is called once at most, and never for a commit that has    *)
(* returned -1.                                                            *)
CalledOnce == \A r \in Requests : Len(result[r]) =< 1 /\ (r \in refused => result[r] = << >>)

(* A request that was committed gets its callback, or its socket an error, *)
(* once the server has answered or closed, unless the context is destroyed. *)
Called ==
  \A r \in Requests : (r \notin refused /\ arg[r] = "live" /\ HttpReadable(r) /\ caller.req # r)
                        ~> (arg[r] = "freed" \/ ~epoll.open)

(* The synchronous client returns everything that has arrived, and not     *)
(* before the server has closed: the whole answer, unless the connection   *)
(* was reset.  Then it returns the part that has arrived as if it were     *)
(* all, and crashes if there is none (sync_http.c:237-243).                *)
SyncWhole ==
  /\ get.state = "done" => get.read = get.sent /\ (get.closed \/ (get.reset = "seen" /\ get.read > 0))
  /\ get.state = "crashed" => get.reset = "seen" /\ get.read = 0

(* ... and it ends when the server closes or resets, unless select has     *)
(* timed out before: then it spins for ever (sync_http.c:225-231).         *)
SyncEnds == (get.closed \/ get.reset # "no") ~> (get.state # "loop" \/ get.timedOut)

(* No event is handled with an ep_arg that has been freed, no socket stays *)
(* open but those of a failed commit, no callback is called twice, and the *)
(* select loop returns at the close of the server with the whole answer,   *)
(* or after a reset with the part that had arrived (async_http.c:281-411,  *)
(* sync_http.c:222-250).                                                   *)
HttpClientSafe == ArgAlive /\ NoSocketLeaks /\ CalledOnce /\ SyncWhole
=============================================================================
