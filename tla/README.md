# TLA+ specifications of csdn-code

This directory models the programs of the repository that have state worth
arguing about, checks them with TLC on small instances, and proves with TLAPS
what matters most for every size of the instance.

The repository is the code of a series of articles: about thirty independent
programs in C, C++ and Go. There is no single system. What they have in common
are event loops on epoll with tables of events and timers, message streams that
must be cut and put together again, queues shared by threads, and a few pure
algorithms. The specifications follow that division.

Contents: 1 inventory, 2 modules and how they follow the code, 3 runs, 4 bounds,
5 fairness, 6 proofs, 7 what only TLC checks, 8 assumptions, 9 what the code does
that a reader might not expect, 10 what is not modelled, 11 what could follow.

## 1. Inventory

### Servers, queues and streams in C

**`cas_queue/`** — a linked queue without locks (`queue_cas.h`) and its driver
(`queue_cas.cpp`), one thread that pushes and one that pops.
State: `_head`, `_tail`, the nodes, the locals of the threads. Operations: the
constructor, `push` (scan to the last node, CAS its `_next`, CAS `_tail`), `pop`
(read `_head`, compare-and-swap it, delete the old node), the destructor.
Interaction: shared memory only. Hard: every memory access interleaves; `pop`
deletes nodes a `push` may be about to read; the allocator reuses addresses;
`_tail` is moved without a retry. Correct means: no deleted node is touched, no
node is lost or leaked, elements come out in order, the program ends.

**`server-client/reactor.c`** — a single-threaded echo server. State: a table
of `ntyevent` indexed by descriptor (status, events, callback, buffer), the
epoll set, the batch of results being handled. Operations:
`accept_callback`, `recv_callback`, `send_callback`,
`ntyreactor_event_set/add/del` and the loop `ntyreactor_run`. Interaction:
callbacks through the table, clients through sockets. Hard: results of one
`epoll_wait` are handled one after another while earlier ones close and reuse
descriptors; each connection alternates between EPOLLIN and EPOLLOUT; calls fail
half-way; a send to a peer that is gone raises SIGPIPE; the table is shorter than
the number of descriptors may be. Correct
means: results are never stale, the slot of a descriptor is its own, bytes are
echoed to their sender without loss or repetition, descriptors are released.

**`udp_piece/circular_buffer.c`** — a ring of bytes. State: two indices, size,
array. Operations: write, read, pop_front, get, reset. Hard: wrap-around, full
against empty, short writes. Correct means: it is a bounded queue of bytes.

**`udp_piece/udp-piece.c`, client and server** — messages are cut into pieces
with a 12-byte header; each piece travels in two datagrams; the server merges
them from the ring (`udp_piece_merge_ex`) or from each datagram
(`udp_piece_merge`). State: the handle (`recv_pieces`, `total_size`,
`total_pieces`, `recv_len`, `recv_buf`), the ring, the datagrams on their way.
Hard: parts that end inside a header, data that looks like a header, lost
datagrams, a server that starts in the middle of a piece, `malloc` failing between
two assignments. Correct means: what the server prints is what the client sent.

**`heartbeat/` (server)** — a reactor with timers: `ngx_server.c` on
`ngx_reactor.c` and `ngx_event_timer.c`. State: the table of `ngx_event_t`
(`what`, `status`, `last_active`, `timer_set`, `key`), the epoll set, the set of
timers, the clock. Operations: `accept_cb`, `recv_cb`, `timeout_cb`,
`client_handler`, `ngx_event_set/add/del`, `ngx_event_add_timer`,
`ngx_event_expire_timers`, `ngx_reactor_loop`. Hard: the same event is reached
from a result of `epoll_wait` and from its timer; fields are left over from the
connection that used the descriptor before; a timer falls due exactly now.
Correct means: no connection gets out of reach of both the epoll set and the
timers, a live peer is not closed for another's sake, departed and silent peers
are closed.

**`heartbeat/ngx_rbtree.c`** — the red-black tree of timers. State: root and
the links, colours and keys of the nodes, which live inside the events. Hard:
rebalancing in mirrored cases, a successor that is a child of the deleted node,
keys that are compared across the overflow of the clock. Correct means: balanced,
in order, links that agree, the leftmost node is the earliest timer.

**`heartbeat/` (client)** — one connection on the same reactor. Its timer is
added before `ngx_reactor_loop` empties the tree, so the loop starts with a node
that says it is in the tree and is not. Correct means: once the timer has been
in the tree the client never waits without one, and it sees the loss of its server.

### Messaging and Go programs

| Component | State and operations | Hard | Correct means |
|---|---|---|---|
| `ZeroMQ/` request and reply: `hwclient`, `hwserver`, `rrclient`, `rrworker`, `rrbroker`, `msgqueue`, `mtserver` | frames on their way, sockets' turn; send, receive, copying of frames | envelopes torn apart by a wrong flag, receive calls interrupted by signals, any order of arrival | a request is in one place, and its answer returns to its sender |
| `ZeroMQ/` publish and subscribe: `syncpub`, `syncsub`, `psenvpub`, `psenvsub`, `wuserver`, `wuclient` | subscriptions, pipes with a high-water mark | late subscriptions, dropped messages | a subscriber whose subscription was there sees all updates; frames stay together |
| `ZeroMQ/` pipeline, relay and interrupt: `taskvent`, `taskwork`, `tasksink`, `mtrelay`, `interrupt1`, `interrupt2` | tasks, results, start signal; the calls of each thread; the flag set by a signal | results before the start signal, killed workers, a signal at any point | the sink counts all tasks, relay and servers end |
| `Go/Session` | managers, sessions, modified flag, redis with its pool | saves that fail before or after they are carried out, a pool that runs dry | a session marked as saved is what redis holds, except after a failed save |
| `Go/log/logagent1` | file, tail, producer, partitions | attempts that fail after the broker has stored the line, a tail that gives up | no gap in the topic, order within a partition |

### muduo

| Component | State and operations | Hard | Correct means |
|---|---|---|---|
| `muduo/net/poller/EPollPoller.cc` | index of a channel, map `channels_`, epoll set, growing result list; `poll`, `updateChannel`, `removeChannel` | the same descriptor number used by the next channel, any order of update and remove | index, map and epoll set agree; no assertion, no fatal log line |
| `muduo/net/http` | parser state, buffer; `parseRequest`, `onMessage`, `onRequest` | requests in pieces or pipelined | answers do not depend on the cuts |
| `examples/sudoku`, four servers | pool queue, functor queue of the loop, output buffer, throttle flag, counters | loop thread against pool threads and the inspector's thread, limits | each request answered once, in order where promised; counters add up; throttled connections are released |
| `examples/sudoku/sudoku.cc` | dancing links, stack of the search | links taken out and put back over many levels | a solution exactly if there is one; all links restored |
| `examples/sudoku/stat.h`, `percentile.h` | window per second, sorted latencies | clock jumps back or ahead by exactly the window | the window holds the last seconds; ranks and histogram by definition |
| `examples/sudoku` clients | requests in flight, buffer | short and long answers in pieces | window kept, report once, progress |
| pingpong, echo, finger, zeromq examples | session states, token ring, query line | connects and closes around the timeout | blocks circulate, each query answered once, ends |

### Instant messaging and HTTP clients

| Component | State and operations | Hard | Correct means |
|---|---|---|---|
| `protobuf/im`, `im_new`: server, client | the accept loop's variable, one thread for each connection | the thread reads a variable that the next `accept` overwrites | a thread serves its own connection unless `accept` overtakes it |
| PDU framing: `ImPduBase`, `UtilPdu` | buffer, read position, header | PDUs in pieces, several at once | each PDU handled whole, once, in order, at once |
| utilities and locks: `util.cc`, `Lock.cc` | reference count, texts | the last two owners release together | the last owner deletes; encoders and decoders agree |
| `async_http.c` | requests of one thread, answers in an epoll thread that frees their argument | freed arguments in the same batch, descriptors used again, calls that fail | no event with a freed argument, at most one callback, no leak but the one named in section 9 |
| `sync_http.c` | one request with a select loop | pieces, timeouts, a connection that is reset | the whole answer is handed over, or after a reset what had arrived |

### Libraries and programs that keep data

| Component | State and operations | Hard | Correct means |
|---|---|---|---|
| `cJSON.c`, tree | items, lists, owners of names and values; add, insert, replace, detach, delete, duplicate, references, arrays | the first item's `prev` is the last one or NULL; allocations that fail half-way | one owner for everything, lists well-formed |
| `cJSON.c`, text | buffer and offset; parse, print, minify, compare | exact space before each write, surrogates, the end of the text | prints stay inside and parse back; parsing never leaves the text |
| `comment_test.c`, `demo1.c` | a document in a file | kills, files that cannot be opened, data without a final zero | the document is as it was left, or known to be torn |
| `tinyxml2.cpp`, tree | nodes, pools, list of unlinked nodes; link, move, clone, delete | moves between places, several documents | links agree; each node in a tree or in the list; pools count right |
| `tinyxml2.cpp`, text | in-place buffer; parse, print, entities | decoding over the text being read, unmatched tags, depth limit | saved is loaded, tags match, no overtaking |
| `demo03.cpp`, `demo04.cpp`, `demo05.cpp` | a document in a file | saves that fail, kills between emptying and writing | edits undone or kept, only what was asked is modified |
| `BloomFilter/bloomfilter.h` | bit array, flag, file | lazy reset, failed loads, saved files | no false negative, nothing found that was never added without a collision, blocks freed once |
| `HuffmanDecompression/` | counts, tree, codes, bit buffer | equal counts, last byte, cut files | uncompress is the inverse of compress; least cost |
| `zlib/` | buffers around deflate and inflate | output that fills the buffer exactly, damaged files | every byte passed on; of a damaged file right bytes as far as the damage |

The remaining parts (generated protobuf code, demonstrations of library calls,
Docker and SQL material) are listed in section 10 and in `PROJECT.json`.

## 2. Modules and how they follow the code

| Module | Models | Extends / uses |
|---|---|---|
| `FifoQueue` | what a queue promises (abstract) | |
| `CasQueue` | `queue_cas.h`, `queue_cas.cpp` | implements `FifoQueue` |
| `NtyReactor` | `server-client/reactor.c` | |
| `CircularBuffer` | the functions of `circular_buffer.c` as operators | |
| `ByteQueue` | what the ring promises (abstract) | |
| `RingBuffer` | any sequence of calls of `circular_buffer.c` | `CircularBuffer`, implements `ByteQueue` |
| `UdpPiece` | `udp-piece.c` with client and server programs | composes `CircularBuffer` |
| `NgxHeartbeat` | `ngx_server.c`, `ngx_reactor.c`, `ngx_event_timer.c` | |
| `NgxRbtree` | `ngx_rbtree.c` | |
| `NgxClient` | `ngx_client.c` on the reactor | |
| `ZmqReqRep`, `ZmqPubSub`, `ZmqTasks` | the programs of `ZeroMQ/` | |
| `GoSession`, `GoLogAgent` | `Go/Session`, `Go/log/logagent1` | |
| `MuduoPoller`, `MuduoHttp` | `EPollPoller.cc`; `HttpContext`, `HttpServer`, the test server | |
| `SudokuServer`, `SudokuSolver`, `SudokuClients` | `muduo/examples/sudoku` | |
| `MuduoExamples` | pingpong, echo, finger, zeromq examples | |
| `ImChat`, `ImUtil` | `protobuf/im`, `protobuf/im_new` | |
| `HttpClients` | `async_http.c`, `sync_http.c` | |
| `CJsonTree`, `CJsonText`, `JsonDemos` | `cJSON.c` and its programs | `JsonDemos` uses `CJsonText` |
| `XmlTree`, `XmlText`, `XmlDemos` | `tinyxml2.cpp` and its programs | |
| `BloomFilter`, `Huffman`, `ZlibStream` | the three data programs | |
| `CasQueueProofs`, `NtyReactorProofs`, `RingBufferProofs`, `NgxHeartbeatProofs` | proofs about the module of that name | that module |
| `UdpPieceProofs` | proofs about `UdpPiece` | `UdpPiece`, `RingBufferProofs` |
| `MuduoProofs` | proofs about the poller, the sudoku servers and the small examples | `MuduoPoller`, `SudokuServer`, `MuduoExamples` |
| `MessagingProofs` | proofs about the ZeroMQ and Go programs, the heartbeat client and the HTTP clients | `MCMessaging` |
| `DataProofs` | proofs about the Bloom filter and the loops around zlib | `BloomFilter`, `ZlibStream` |
| `MCMessaging`, `MCMuduo`, `MCLibraries` | instances for TLC | |

Independent programs share an instance where each is small: in `MCMessaging`,
`MCMuduo` and `MCLibraries` the initial state chooses one part, and the
variables of the others do not move. Their properties are conjunctions of the
parts' named properties (`HttpExact == CutsDoNotMatter /\ AnsweredAtOnce /\ ...`),
each stated and explained in the module of its part. `CasQueue`, `NtyReactor`,
`UdpPiece` and `NgxHeartbeat` are checked as they are, with nothing around them.

Some definitions are preceded by an operator whose comment starts with "Mutant",
a faulty variant of the definition that follows. No specification uses
them; replacing the definition by its variant must make a property fail, which
shows that the property depends on that piece of code. `PROJECT.json` pairs them.

**CasQueue.** Each access to memory that another thread may write is a step;
`pc` says which one is next. `New`, `ReadTail`, `ReadOldp`, `Scan`, `Link`,
`Swing` are the lines of `push`; `ReadHead`, `Test`, `ReadArg`, `Unlink`,
`Delete`, `Count` those of `pop` and of the loop around it; `Destroy` is one
round of the destructor after both threads have been joined. `live` is the set
of allocated addresses, and `New` may return any address outside it, including
one deleted before. `linked` and `taken` are history variables: the nodes in the
order in which a CAS linked them, and how many have left.

**NtyReactor.** A callback makes one system call whose result a client can
influence, so it is one step, and clients act between any two. The fields of the
table are functions of the index. The state of a socket is the client behind it
(`conn`), the bytes not read (`inbox`) and the bytes received back (`echo`).
`Faults` chooses which calls may fail: `epoll_ctl`, `fcntl`, short sends, a
signal during `epoll_wait`. The end of the process by SIGPIPE is no fault of a run: a client that
sends, closes and resets is enough, so it is part of every run.

**CircularBuffer, RingBuffer.** The ring is a record with the fields of the
structure; the two-step copies of the code are two-step copies here, so that the
equality with the `%` of `circular_buffer_get` is a result and not an assumption.
Cells start as `Junk`, which is not a byte. `RingBuffer` has one action for each
function and records argument, output and return value, so that the abstract
queue specifies them too.

**UdpPiece.** Pieces are sequences of bytes, header included, because the
server's search for the synchronisation word looks at bytes. Client: `SendTo`
sends the next part of the next piece, `FirstPart` bytes (5 in the program) and then
the rest. Network: a queue of datagrams; `LoseStart` takes a first part out of it.
Server: `Receive` (recvfrom, write to the ring), `Sync`, `MergePiece` (one round of
the merge loop), `MallocFails`, `MergeEnd`, `Return` (print or reset), and `Restart`,
after which it may begin anywhere in the stream. `use_ring` chooses between the two
merge functions; `udp_piece_merge`, the older one, takes every datagram for whole
pieces, and for it the client sends them as in the line that is commented out
(`udp-piece-client.c:77`).

**NgxHeartbeat.** The code compares times only by their difference from
`ngx_current_msec`, so the model keeps the differences: `key` is the time left
to a timer, `idle` the time since `last_active` (capped where `timeout_cb` stops
telling values apart). The clock is therefore unbounded. One record for each
descriptor holds the `ngx_event_t` and the kernel's view of the descriptor; the
operations `EventSet`, `EventAdd`, `EventDel`, `AddTimer`, `RecvCb`, `TimeoutCb`,
`ClientHandler` are functions from record to record, as the functions of the
code change one `ngx_event_t` and its epoll entry. A call of `epoll_ctl` that
names the wrong operation (MOD of an absent descriptor, ADD of a closed one)
fails as the kernel makes it fail, and the model keeps what the code leaves
behind.

**NgxRbtree, NgxClient.** A tree is a record of root, links, colours and keys.
`kid[d][n]` with a side `d` makes one definition of the two mirrored halves of
the code; recursion follows the loops of the fix-ups. Keys are words and are
compared by the sign of their difference. In `NgxClient` the tree has one node, so
it is one bit; deleting a node that is in no tree follows its null links, as
the code does.

**ZmqReqRep, ZmqPubSub, ZmqTasks.** A program is the position in its loop; a
message is the sequence of its frames. Sockets are external: what ROUTER, DEALER,
REQ, REP, PUB, SUB, PUSH, PULL and PAIR do is taken from how the programs use
them, including what they drop. `via` chooses between no broker, the copying
broker and `zmq_proxy`.

**GoSession, GoLogAgent.** A method holds its lock from first to last line, so
it is one step; `SET` of redis and the producer's attempts fail before or after they
are carried out. An error of `json.Marshal` in `Save` returns before anything has
changed, so it is a step that leaves everything as it is.

**MuduoPoller.** One action for each public operation, in any order that
`Channel` allows; `NeverFatal` watches all assertions and fatal log lines.
**MuduoHttp.** A line is two tokens, its text and its CRLF; a piece may end after
either. `parseRequest` and `onMessage` are one action, as they are one callback.
The reference parses the whole stream. **SudokuServer.** The loop thread, its
queue of functors and the threads of the pool interleave; `send` from another thread,
the high-water mark and the write-complete callback are functors of the loop. The
inspector of hybrid and prod runs in a thread of its own: `StatReset` comes between any
two steps, and also between the counting of a request and the rest of its turn
(`RecordRequest`). `carried` is what a reset leaves to counters that know nothing of it.
**SudokuSolver.** The recursion of `solve` is a stack, every step of it an action, on
boards of four by four. It also keeps the circular buffers of `stat.h`.
**SudokuClients, MuduoExamples.** One action for each callback.

**ImChat.** The accept loop reads and the threads read the same variable; `raced`
records that an `accept` came first. The stream is cut anywhere; the units of a
PDU know where they belong. **ImUtil.** Operators on byte values, each
checked against its inverse or definition; the reference count has its lock as a
step of its own. **HttpClients.** Each system call of the committing thread
interleaves with the epoll thread; `socket` takes the lowest free descriptor, so that
descriptors are used again, and `epoll_wait` returns the events of a batch in any order.
In the select loop `SelectFails` is a `recv` that returns -1 after a reset, which the loop
does not look at.

**CJsonTree, XmlTree.** The heap is a function from addresses to records; each
call of the library is an action. Allocation fails when all addresses are in use.
**CJsonText, XmlText.** Texts are sequences of character codes, because the
properties are about single characters; parsing and printing are recursive operators in
the shape of the code's functions. The texts are initial states, there are no
steps. **JsonDemos, XmlDemos.** One action for each function of `main`; a file is
emptied by one step and written by the next, a kill may come between. `denied` records
that a file could not be opened.

**BloomFilter.** The hash is an arbitrary function. One action for each function
and for each way it fails. **Huffman.** Compression and the way back as recursive
operators over all small files and both orders of equal counts. **ZlibStream.**
The two loops over the buffers; the library may hold back any amount up to a bound. It
notices a spoilt place there (`InflateNotices`), or decodes it and what follows into
arbitrary bytes (`InflateMistakes`) and notices it at the checksum; `good` is the number
of bytes that were out before. That a checksum fits wrong bytes is disregarded.

## 3. Runs

Every passing run visits all actions of its next-state relation that its
constants allow; together they visit all. State counts are distinct states.

| Run | Instance | Checks | States |
|---|---|---|---|
| `cas_spsc` | 1 pusher, 1 popper, 3 elements, 4 addresses | NoUseAfterFree, NoLeak, FifoSpec | 24,724 |
| `cas_pushers` | 2 pushers, 2 elements each, 5 addresses | ChainIsList, TailAdvances, Termination | 104,165 |
| `nty_echo` | 2 clients, 3 bytes each, 2 client descriptors, no faults | SlotIsFd, StatusIsMembership, EchoConservation, EchoProgress | 96,381 |
| `nty_faults` | 3 clients, table one shorter than the descriptors, all faults but fcntl | NoStaleEvent, EchoInOrder | 2,000,320 |
| `udp_orderly` | 3 messages of one length, parts split inside the header, smallest ring, no faults | PrintedInOrder, EveryMessageArrives | 289 |
| `udp_faults` | both merge functions, one message three times, lost first parts, new starts, malloc | OnlyWholePrinted | 84,809 |
| `udp_mixed` | the same message, lost first parts | WholeFrames is violated | |
| `hb_loop` | 2 descriptors reused for ever | NoneForgotten, NoneOverdue, ClosedOnlyWhenSilent, GoneOrSilentClosed | 296,026 |
| `hb_monitor` | the same | Monitored is violated | |
| `messaging` | ZeroMQ and Go programs, heartbeat client, chat server, HTTP clients | MessagesExact, GoKeepsData, PdusExact, HttpClientSafe, MessagingProgress | 64,065 |
| `muduo` | poller, HTTP, sudoku, small examples | PollerAgrees, StreamsExact, ServerExact, ExamplesExact, AlgorithmsExact, MuduoProgress | 96,916 |
| `libraries` | ring, timer tree, cJSON, tinyxml2, their programs, Bloom filter, Huffman, zlib, byte streams and utilities of the chat | TimerTreeSound, JsonTreeSound, JsonTextSound, XmlTreeSound, XmlTextSound, BloomSound, ZlibSound, CodersExact, FilesKept, QueueSpec | 257,994 |

What they show:

- **cas_spsc.** With the threads the program starts, a `pop` never deletes a node
  that `push` still reads, although nothing protects it: `push` follows `_tail`
  only while `_tail` is the last node, and `pop` never takes the last node. Between
  the two CASes of `push`, `_tail` may even point to a deleted node, but nobody
  follows it then. Every allocated node is accounted for, and the program
  implements a FIFO queue step by step.
- **cas_pushers.** With several pushers the retry loop loses no node; the list in
  memory is always the nodes linked; `_tail` may lag behind the last node, but never
  moves back; every push ends.
- **nty_echo.** Bytes echoed, bytes in the buffer and bytes in the socket are
  together, in order, what the client wrote; each byte comes back unless the
  client leaves; the descriptor of a client that left is closed. All this as long as no
  client sends, closes and resets, which ends the server (section 9).
- **nty_faults.** Although callbacks close descriptors and `accept` reuses them
  within one batch, no result is stale when its turn comes (`accept` reuses a
  descriptor only after the result for it was handled, since it was that result that
  closed it).
- **udp_orderly.** On a network that keeps datagrams and their order every message is
  printed, once and in order, also when it contains the synchronisation word.
- **udp_faults.** The client's message comes again and again, in two datagrams a piece. When
  first parts are lost, the server is started anew or `malloc` fails, the search for the
  synchronisation word finds the next piece; only pieces that were sent are taken for pieces,
  their data stays inside the buffer, and what is printed has the client's bytes and, after a
  loss, holes. Without a loss it is whole, although the server may have begun in the middle.
- **udp_mixed.** Pieces 0 and 2 arrive, the first part of piece 1 is lost. Piece 0 of the
  next round has the same length and count, is taken for the third piece, and the server
  prints a message whose middle was never written.
- **hb_loop.** `status` can be wrong (it stays 1 when ADD fails on a descriptor
  that was closed a moment before), and the next client on that descriptor is
  then not in the epoll set; its timer still reaches it, and it is repaired or
  closed there. A live peer is closed only by its own due timer while nothing has
  arrived. Departed peers are closed, and a connection that has
  a timer is heard of or closed.
- **messaging.** A request is in one place and its answer returns to its sender
  through every broker; subscribers whose subscription is there when they ask to start
  count all updates; a two-frame message stays together; the sink counts all tasks
  even if the start signal comes late; SIGINT ends both servers, `interrupt1` at the latest with
  the next request. A session that is not marked as modified is what redis holds,
  except after a failed save; the topic has every line the agent has passed. The
  heartbeat client keeps its timer once it is in the tree. Chat PDUs are handled whole, once
  and in order, and the race on the accept loop's variable is the only way in which a thread
  serves a wrong descriptor. The epoll thread of the HTTP client never uses a freed argument
  and never calls back twice; the select loop returns everything that arrived.
- **muduo.** The poller's three tables agree, so no assertion fails. The HTTP
  answers are the same wherever the stream is cut. In the sudoku servers every
  request is answered, dropped or refused exactly once and the counters add up, with what
  a reset from the inspector's thread carries over; a
  throttled connection whose client reads is released or goes down. The solver finds a solution exactly if there is
  one and puts every link back. The statistics survive clock jumps.
- **libraries.** The ring, with blocks longer than it and counts beyond the contents,
  is a queue. All sequences of insertions and deletions of nine timers leave a balanced tree
  in order. Any sequence of calls within the bounds keeps the trees of cJSON and
  tinyxml2 sound; every value and document of the instance prints and parses back; every
  text, right or wrong, is parsed without leaving it. The demo programs find
  their documents after any kill, except where a file was emptied and not yet written;
  demo03 never repairs such a file. Keys and files come out again, of a spoilt file the bytes
  before the damage, and the
  encoders and decoders of the chat agree.

An observation that follows from the model of the heartbeat server: `recv_cb` is
called for every expired timer, reads a non-blocking socket, and treats EAGAIN as
an error. So a connection is closed at its first expiry, one interval after it
was accepted, unless data is waiting at that very moment; the test of
`timeout_cb` for three intervals never decides.

## 4. Bounds

- **Addresses and elements of the queue.** With 3 elements and 4 addresses the
  first deleted address is reused while the queue is in use, and the list has
  every length from 1 to 4. The theorems of section 6 have no bound.
- **Clients and descriptors of the echo server.** Reuse of a descriptor needs a
  client that leaves and one that comes; a stale result needs two descriptors in
  a batch and a third client. Three clients on three descriptors, of which the table
  covers two, give all of these. A buffer of 2 against 3 bytes makes a message take
  two rounds. The batch is a set, so the order of results in it is arbitrary.
- **Ring.** Capacity 4 is the smallest in which a block can wrap with bytes on both
  sides of the end while others remain; blocks and counts go one beyond it.
- **Pieces.** PIECE_FIX_SIZE 2 with messages of 3 and 5 bytes gives full and partial
  pieces, and with 5 a middle piece. The first part has the program's 5 bytes, so headers
  are split in the middle of a field, and the ring holds exactly one piece, the least the
  code can work with (64 bytes in `udp_mixed`). Three rounds of the message let a loss in the first or a new start
  reach into the next two. `MaxNet` bounds the datagrams on their way.
- **Heartbeat.** A tick is half the interval. The clock advances by 0 to
  `MaxDelta` = 3 ticks in one `epoll_wait`, more than an interval, so timers can be
  late; two probes, a lazy delay of one tick. Two descriptors are reused
  without limit. `MaxBacklog` and `MaxData` bound what waits in the kernel at
  one time, not how much is sent altogether.
- **Messaging.** Two clients and two workers with two rounds, so that answers can
  overtake each other; three subscribers; five messages of a feed against pipes of
  two, so that some are dropped; three tasks for two workers of which one may be
  killed; a pool of two redis connections, which runs dry; four lines, one retry.
- **Timer tree.** Nine nodes reach all cases of the fix-ups on both sides; words of
  16 values with keys on both sides of the overflow, most of them twice.
- **muduo.** Two channels that may have either of two descriptors; every pair of seven
  requests; three lines of a sudoku client with at most two pool threads, a queue limit of one, marks of two
  and three units, and up to two resets of the counters of hybrid and prod; a window of three seconds and clocks that jump by up to seven; boards
  with six to nine gaps, some of them without a solution.
- **Chat and HTTP clients.** Two clients, of which one sends enough for two turns of its cycle; PDUs of
  3 and 4 units against reads of 5, so that a read holds parts of two; memory from too
  small to sufficient; texts of up to three characters of all classes; two
  requests on two descriptors with batches of two, so that a descriptor is used again and one
  event of a batch is freed before the other is handled. The theorem about the HTTP clients has
  no such bound.
- **cJSON, tinyxml2.** Four items or nodes, five or six calls: enough to have a
  reference, a duplicate and a replaced item in one list, and two documents. Texts are
  all sequences of up to four (JSON) or three (XML) markers and longer ones of chosen
  shape. Three runs of a program with kills between.
- **Bloom, Huffman, zlib.** Three keys, two seeds, six calls, sums of hashes that
  overflow; all files of up to five of four characters with bytes of three bits; all
  files of up to four of two bytes, which begin with the first of them because the two are
  alike, with blocks and buffers of two, runs held back up to three; a spoilt
  place, and each unit behind it, becomes `MaxWrong` = 1 wrong byte at most.

Symmetry is used only in `nty_faults`, which checks no liveness; clients are
interchangeable there.

Deadlock is checked except where programs end or wait for a peer that need not come.

## 5. Fairness

- `CasQueue!FairSpec`: weak fairness of each thread. The threads are pthreads on
  a preemptive scheduler; a step of a thread is never disabled by another for
  ever, because there is no lock.
- `NtyReactor!FairSpec`: weak fairness of the loop. Clients need not do anything.
- `UdpPiece!FairSpec`: weak fairness of the client's and of the server's
  loop, only on the network without loss.
- `NgxHeartbeat!FairSpec`: weak fairness of the loop, and strong fairness of
  `epoll_wait` returning after the clock has moved. A single call may return
  within the same millisecond, but real time passes, and calls that return at once
  cannot go on for ever without a millisecond going by.
- `MCMessaging!FairSpec`: weak fairness of each program, thread and loop. Signals,
  kills and the growth of the log need not happen. For the chat server and the HTTP clients:
  the accept loop, each thread, the epoll thread and the select loop; peers, failures and
  SIGINT need not act.
- `MCMuduo!FairSpec`: weak fairness of the loop's callbacks, of its functors and of
  the kernel draining a buffer whose reader reads, of the search, of a server that
  answers and of deliveries. Timers of the user, arrivals and lost connections need not
  happen.

## 6. Proofs

All theorems hold for every value of the constants that satisfies the
assumptions named in the modules: any number of threads, clients, workers,
descriptors, sessions, requests, any sizes and limits. An assumption in a
theorem itself (a fault that is left out) is named below. Each action
has a lemma of its own that it keeps the invariant; a theorem puts them together.

| Theorem | States | Inductive invariant |
|---|---|---|
| `CasQueueProofs!TypeCorrect`, `MemorySafe`, `NothingLost`, `NothingLeaked` | TypeOK, NoUseAfterFree, ChainIsList, NoLeak | `IInv` |
| `CasQueueProofs!TailNeverRetreats` | TailAdvances (action property) | `IInv /\ TailInv` |
| `CasQueueProofs!Refinement` | FifoSpec (refinement) | `IInv` |
| `NtyReactorProofs!TypeCorrect`, `BatchFresh` | TypeOK, NoStaleEvent | `IInv` |
| `NtyReactorProofs!SlotPerDescriptor` | SlotIsFd, InBounds, if `fcntl` does not fail | `IInv /\ TableInv` |
| `NtyReactorProofs!StatusTells` | StatusIsMembership, if `epoll_ctl` does not fail | `IInv /\ ArmedWaits` |
| `NtyReactorProofs!EchoOrdered` | EchoInOrder | `IInv /\ OneSlot /\ OrderInv` |
| `NtyReactorProofs!EchoComplete` | EchoConservation, if `fcntl` does not fail and no send is short | `IInv /\ OneSlot /\ KeepInv` |
| `RingBufferProofs!RingSound`, `RingIsQueue` | TypeOK, Consistent; QueueSpec (refinement) | both together |
| `UdpPieceProofs!WholeMessages` | OnlyWholePrinted, if the client repeats one message (`Repeating`) | `Base /\ RepeatInv` |
| `UdpPieceProofs!MessagesInOrder` | PrintedInOrder, if nothing is lost and nothing fails, and the ring has room for a piece (`Orderly`) | `Base /\ OrderInv` |
| `NgxHeartbeatProofs!TypeCorrect`, `Reachable`, `EpollSetKnown`, `TimersHandled` | TypeOK, NoneForgotten, RegisteredIsKnown, NoneOverdue | `TableInv /\ LoopInv` |
| `NgxHeartbeatProofs!LivePeersKept` | ClosedOnlyWhenSilent (action property) | the same and `WatchInv` |
| `MuduoProofs!PollerConsistent` | PollerAgrees | `PollerInv` |
| `MuduoProofs!EveryRequestOnce` | ServerExact | `ServerInv` |
| `MuduoProofs!ExamplesPassOn` | ExamplesExact | `PingInv`, `BenchInv`, `FingerInv`, `LatInv` |
| `MessagingProofs!MessagesKept` | MessagesExact | `RrInv`, `SyncInv`, `FeedInv` |
| `MessagingProofs!GoDataKept` | GoKeepsData | `SessionInv`, `AgentInv` |
| `MessagingProofs!ClientStaysArmed` | OnceArmed (`[](P => []Q)`) | `ClientInv` |
| `MessagingProofs!HttpClientsSafe` | HttpClientSafe | `AsyncInv`, `SelectInv` |
| `DataProofs!KeysAreFound` | BloomSound | `BloomInv` |
| `DataProofs!FilesComeBack` | ZlibSound, for files of the bytes `ZBytes` | `ZlibInv` |

**CasQueueProofs.** None of the properties is inductive alone. The invariant `IInv` adds that
the nodes of the list are distinct and allocated (`SegmentInjective`), that the dummy node is
there until the destructor takes it (`DummyPresent`), that the nodes held by threads are
private (`PrivateNodes`), where the locals of pushers may point (`ManyPushers` when
nobody pops: any linked node; `OnePusher` when somebody does: the last node,
which is `_tail` except between the two CASes), and that the locals of the
popper agree with `_head` (`PopLocals`).
`ListFrame` deals at once with the steps that leave the list alone,
`ShiftFacts` with the two that take its first node. For the refinement
`LinkPushes` and `ShiftPops` show that the successful CAS of `push` and of `pop`
are the abstract operations, and `ContentsFrame` that all other steps stutter.
That `_tail` never moves back needs the history of all nodes: without poppers no address
comes back, so a node has one position, and between the two CASes `oldp` stands before the
node that was linked (`TailInv`); with a popper `OnePusher` says the same.

**NtyReactorProofs.** `IInv` holds under all faults, and when SIGPIPE ends the loop inside a send. It says that each slot is wired
consistently: a registered descriptor is open, its event is the one the table asks for, its
callback fits the event (`SlotsWired`), the listener keeps its callback
(`ListenerWired`), and what is left of the batch is still waited for
(`BatchWired`). `SlotPerDescriptor`: accept returns the lowest free descriptor, a free
slot below the end exists, so the descriptor is below the end (`AcceptTableInv`); only
this theorem establishes `InBounds`. For the two theorems about bytes, `OneSlot` gives a client one
descriptor at most. `OrderInv` orders three places, what came back, the buffer of a
slot that waits to send, and the socket: each part is increasing and lies behind the
one before, which survives short sends. `KeepInv` says instead that the three together are
all the client wrote; a short send, which drops the rest, and a failed `fcntl`, which leaves
old contents in a slot, really break it, hence the assumptions.

**RingBufferProofs.** The lemmas follow the functions:
`WriteByte` locates each byte after a copy that wraps or does not,
`WriteAppends`, `PopRemoves`, `ReadReturns` and `GetReturns` say what each
function does to the contents, and `StepSimulates` puts them together.

**UdpPieceProofs.** Both theorems rest on the arithmetic of the cut (`PiecesFit`, `PiecesCover`:
the pieces of a message fit into it and leave no gap), on `PieceBytes` and `PieceAsInput`
(what the merge loop reads off a piece is what the client wrote into its header), and on
`PieceMerged`: if the handle holds the set `R` of pieces of a message (`Held`), then after a
round of the loop it holds `R` and one more. No sum over pieces is needed: `recv_len` is
`PIECE_FIX_SIZE` times the number of pieces in `R`, less what the last piece lacks.
For the client that repeats one message (`Repeating`) two things are shown apart. `Shape` is
about the bytes: what the server has not merged, and what is on its way, is a sequence of first
and second parts in which a second part follows each first one, whatever first parts are missing.
As no second part contains the synchronisation word, `Sync` skips exactly those that have lost
their first, and what is left is a piece or the beginning of one (`Little`, `Parts`, `Whole`).
`Fill` is about the handle: all rounds have one size and count, so every byte that was stored is the
message's at its place (`Holed`), whichever rounds the pieces come from. Without a loss `InStep` says more: there is a
place in the stream, message `f`, piece `i`, half `h`, at which the server stands, and it has the pieces
from where it began, possibly in the middle of a round, up to there; they are all different, so that
the count is complete only when each has come.
For the orderly network (`Orderly`) the witness of `OrderInv` is such a place too, and it is the place
after everything printed: what is in the ring and
on its way are exactly the parts from there up to the client's position (`Waiting`, `Working`),
and everything before has been printed. The parts may end anywhere in the header
(`PartAssumption`), and the messages may contain the synchronisation word.

**NgxHeartbeatProofs.** Three predicates on one event, `Sound`, `Reached` and `NotDue`, are shown
to be kept or established by each operation on one event; `OneEvent` lifts this to the table.
`TableInv` adds that no timer is due while the loop polls or handles events
with `delta` 0, and `LoopInv` that the listener is in the batch only if somebody
waits, which `accept_cb` needs. For `LivePeersKept`, `WatchInv` says that every result of
`epoll_wait` still to be handled finds data or the end of its peer, and that an open
connection is always read before its timeout is looked at; so a handler that finds nothing to
read was called by a timer that is due.

**MuduoProofs.** `IndexTells` is nearly inductive. It needs that two channels have
different descriptors, that a channel the poller knows has one (`OwnFd`), and
that an entry of epoll belongs to a channel (`EntryOwned`). `FreshFd` derives that the
descriptor of a new channel is neither in the map nor in epoll, so ADD and MOD never fail.

*Sudoku servers.* ServerExact speaks of answers that are out; a request on its way there is in
one of four places, the queue of the pool, a thread, a functor of the loop, the answers
(`Placed`): no place names a request that has not come (`Within`), none is in two places or twice in
one (`Apart`), each is somewhere unless the connection went down (`Somewhere`), and with at most
one thread the older ones are further on (`InTurn`), which is what the promised order needs.
The counters lag behind the places; `Owed` says by how much: requests are responses, dropped and
counted bad ones, and those still queued or with a thread, less what the last reset carried over
(`Over`); a reset moves the whole of it there (`ResetCounters`). Each kind of step has a lemma that moves a request from one place
to the next (`SendGone`, `TakeKeeps`, `SolveKeeps`, `RecordKeeps`, `ProcessKeeps`) or none
(`QuietKeeps`), for all four servers, any number of threads and any limits.
*Small examples.* A block of pingpong is split between the two directions (`PingInv`). For the token
race `BenchInv` has a witness that puts each token that is still running into one pipe
(`Spread`), since bytes in pipes have no names. `FingerInv` says that what was read and what
was not are the query, and that the answer is due exactly if a whole line was read; the first
line is found with a least number, from the well-foundedness of `<`. `LatInv` counts round trips.

**MessagingProofs.** *Requests.* No formula about the pipes alone is inductive; `RrInv` says
that there is a function `at` from clients to spots (a pipe, a server, the broker, none) such that every pipe,
server and the broker's half-copied frames hold exactly the messages of the
clients whose spot it is, once each (`Located`). Every action moves one client to
another spot or none; the lemmas `HoldingMore`, `HoldingLess`, `AtMoves` and one lemma for
each place say what that does. `PlacesFollow` reads OnePlace and OwnReply off `Located`.
*Subscribers.* What a synchronised subscriber has counted and what its pipe holds
are together all that was published (`SyncInv`); the frames a subscriber of envelopes
holds and those in its pipe alternate, and their parity tells whether the publisher is
between two frames (`FeedInv`). *Go.* A session is what redis holds unless its flag or a
failed save says otherwise, also before there is a manager (`SessionInv`); the lines in the topic are
those between the start and the line in hand (`AgentInv`). *Heartbeat client.* Each operation on
the event keeps the node in the tree, or leaves `timer_set` 0 with the
timeout still to be handled, and then the handler inserts it again (`CallbackKeeps`, `HandlerKeeps`).
*HTTP clients.* A request has one socket (`SocketOwned`), an entry of epoll is the
socket of a committed request whose `ep_arg` lives (`EntryLive`), a socket is being committed,
refused or in epoll (`SocketListed`), and the events of a batch still to be handled are different
entries (`BatchLive`). The last is what makes the free of one event harmless to the others,
also when the committing thread reuses the descriptor in between.
The theorems about messages and Go data are about `Init /\ [][Next]_vars` of `MCMessaging`, in which one part of the
choice runs; the lemmas `GoSteps` and `MessageSteps` reduce its steps to those of the parts.

**DataProofs.** *Bloom filter.* The filter that is emptied only by the next `Add` is what
makes NoFalseNegative not inductive: `KeysKnown` adds that a filter whose flag is not 1 has no
keys, so `Add` may forget its bits. A file brings bits back into another process, so `FileKnown`
says of a whole file what `KeysKnown` says of the filter. `PointersGood` says that only a
failed load leaves pointers to freed blocks. The positions of a key depend on seed and size only
(`SamePositions`), and nothing is assumed of the hash.
*zlib.* A compressed file is a sequence of runs; to add up their lengths would need an induction,
so the invariant has a witness instead, a function from the runs to the places in the
original at which they begin and end (`Spelt`, `Leads`). While compressing, the runs that are
out spell the beginning of the file, and what the library holds and what it has not been
given are the rest (`Deflating`). While decompressing, what is out and what is held is a beginning,
and the runs still to come lead on from there, to an `End` at the end of the file, to the damage,
or to the cut (`Inflating`). `Standing` says why no output is lost when a call returns -1: the
buffer is then empty, because the library has moved nothing since it was appended
(`DeflateRefuses`); only on a damaged file is a part of it dropped (`InflateRefuses`).
Once the library has decoded a spoilt place, the output is right up to the mark set there and
no further (`Right`, `Astray`), and its `End` is never accepted; before that, everything is as with an
undamaged file (`OnTheWay`).
`DamageLeads` shows that each kind of damage leaves such a file, and
`MadeMore` and `LeadsOn` extend the witness by one run.

## 7. Checked by TLC only

Liveness (Termination, EchoProgress, EveryMessageArrives, GoneOrSilentClosed,
MessagingProgress, MuduoProgress) is out of the prover's reach.
MessagingProgress also contains AverageOfOwnZip and SinkCountsAll: both are about sums over
messages or tasks, whose laws need an induction over data.

What a recursive definition computes for every input is also out of its reach, and a
module with RECURSIVE operators cannot hold a theorem: `NgxRbtree`, `MuduoHttp`,
`SudokuSolver`, `SudokuClients`, `ImUtil`, `CJsonTree`, `CJsonText`, `JsonDemos` (through
`CJsonText`), `XmlTree`, `XmlText` and `Huffman` stay with TLC, and with them StreamsExact
(HttpExact and ClientsExact), AlgorithmsExact, CodersExact (UtilExact and Huffman), TimerTreeSound, JsonTreeSound, JsonTextSound,
XmlTreeSound, XmlTextSound and FilesKept. PdusExact is about the loop that cuts a
buffer into PDUs, a recursive function whose value for every buffer needs an induction over data.

## 8. Assumptions

- The CAS queue is used as `test_queue` uses it: one popping thread with one
  pushing thread, or only pushing threads (`ThreadAssumption`). With two poppers,
  or a popper and two pushers, a thread can read a deleted node; the code has no
  protection against that and no program of the repository does it.
- Memory accesses of the queue are sequentially consistent: the GCC builtins used
  for CAS are full barriers, and the compiler is assumed not to merge the plain
  reads of the retry loops.
- The tables of both reactors come from `malloc` in a fresh process and are larger than
  the threshold for mapping, so they are zero.
- In the echo server `SlotPerDescriptor`, `EchoComplete` and the runs assume that
  `fcntl(F_SETFL)` on a new socket succeeds; the other theorems do not. `StatusTells`
  assumes that `epoll_ctl` succeeds, `EchoComplete` that `send` takes all it is given.
- Requests and sockets of `HttpClients` are numbers above 0 (`HttpAssumption`; 0 stands for
  none), and a process has finitely many sockets.
- The sudoku servers have a fixed number of pool threads, `MaxThreads` at most
  (`ThreadsAssumption`). In the examples block, pipe and message counts are numbers, there is at least one
  token and no more tokens than pipes, since `runOnce` divides by `numActive`
  (`BlockAssumption`, `PipesAssumption`, `MsgsAssumption`), and a query is a sequence of marks
  (`QueriesAssumption`).
- The Bloom filter is made for at least one item, its bits are aligned to at least one, and the
  word of the hash has at least one value (`BloomAssumption`). A block read for zlib has at least
  one byte (`ZlibAssumption`: `DATA_SIZE` is not 0), since an empty read ends the file; run and wrong
  output of the library are bounded by any numbers.
- In the heartbeat server the process may have at most as many descriptors as the table
  has entries (1024, the usual limit); `fcntl` on a new socket and memory for
  `epoll_ctl` do not fail; the wall clock is not set back.
- Messages of `udp_piece` are not empty and shorter than 65536 bytes, the range of the
  header's fields (`FrameAssumption`), a piece carries at least one byte (`PieceAssumption`), a byte
  has 8 bits (`ByteAssumption`), and the first part of a piece ends within
  its header (`PartAssumption`; the client sends 5 bytes, then the rest). `WholeMessages` assumes of it
  that it ends between the synchronisation word and the fields that differ between pieces, that all
  messages are the same and that no second part contains the synchronisation word (`Repeating`),
  which is so for the text that `udp-piece-client.c` sends; `MessagesInOrder` assumes none of this. `PIECE_FIX_SIZE` is written `(576-8-20-12)UL` in the source,
  which does not compile; the constant stands for the value meant. The reads of
  `udp_piece_merge` one byte behind a datagram find a 0, as the server clears its
  buffer.

## 9. What the code does that a reader might not expect

Two disagreements with a comment have a run of their own:

- `udp_piece/udp-piece.c:364`: the rounds of one message cannot be told apart; after a loss in a
  middle piece the first piece of the next round completes the count, and the server prints a
  message with a hole as a success (`udp_mixed`).
- `heartbeat/ngx_server.c:167`: "readd timer for event" does not happen when data
  arrives between `epoll_wait` and the expiry, because `recv_cb` clears `what`
  first; the connection is then without a timer (`hb_monitor`). TLC needs a
  connection, its expiry and a byte in that window.

The others are part of the models as the code has them; the properties either allow
exactly this behaviour or are stated for the rest.

*Servers and streams.* `server-client/reactor.c:483`: `send` without MSG_NOSIGNAL, and SIGPIPE is
never ignored. A peer that closes and then resets (a closed socket answers the echo so) leaves EPIPE
behind; the next `send` kills the server, with all other connections, and does not take the branch
"send失败 … 关闭、移除" (send failed … close, remove). After a reset alone the first `send` fails with
ECONNRESET, without a signal, and that branch is taken. EchoProgress is stated up to this end of
the server. `server-client/reactor.c:247`: the comment says that the loop
goes on after a signal; the test is for EAGAIN, an interrupted `epoll_wait` gives
EINTR, and the server ends. `udp-piece.c:411`: `get_all_pieces - 1;` has no
effect, so `udp_piece_merge_ex` returns 0 where the header promises -1.

*Messaging and Go.* `RedisSeesionMgr.Init` drops the pool that `myPool` makes, so a
session of that manager panics in `Save`; `Init` returns no error for an unknown provider;
connections are never given back, and the flag is cleared before the error is
looked at. `interrupt2.c:127` says `if(rc = -1)`. In `interrupt1.c` a signal between the test and
the blocking call is not seen until the next request. `tasksink.c` takes the first
message for the start signal, whoever sent it; the counts come out right all the same.

*muduo.* A second `disableAll` on a deleted channel adds it to epoll again, without
events. Several requests in one buffer get one answer for each call of `onMessage`. A header
line without a colon ends the headers. After a 400 more data makes the assertion in
`setMethod` fail in debug builds. `server_prod` with exactly one pool thread, and
`server_threadpool` with any number, accept requests without id although answers can
overtake each other. "Bad Request" drops results that are pending. Short answers
stay in the clients' buffers until a longer one arrives. The throttle flag may be set
after the buffer has drained. `reset()` leaves `droppedRequests_`, and requests that were in the pool
are counted as responses after it, so the totals of a report need not add up. A pingpong session that
connects after the timeout is never stopped, and the client can quit early.

*Instant messaging, HTTP.* The accept loop passes the address of its variable
(`server.cc:79`). `fds[100]` is filled and never reduced (`server.cc:80`). The
client logs in once and then sends a text every third turn. A `CByteStream` over a
`CSimpleBuffer` throws at every read. `memfind` misses a match at the last position;
`CStrExplode` leaves entries unset when fields are empty; the top bit of an id is lost by
the way through a URL; `ReleaseRef` deletes the object with its lock held. The
asynchronous client takes the first `recv` for the whole answer, and leaves the sockets of
failed commits open. After a timeout the synchronous client's `select` has an empty set and
no time left, and the loop spins for ever. A `recv` that fails (`sync_http.c:237`) is not noticed: the
result gets one byte too little, where nothing is written that was not there, the next `recv`
returns 0, and the part that arrived is returned as the answer; if nothing had arrived,
`realloc(result, 0)` frees the text and `strncat` writes through NULL.

*cJSON.* `minify_string` mistakes a string that ends in an escaped backslash.
`cJSON_Compare` may call an object with two members of one name different from its
copy. The case-sensitive lookup stops at an item without a name. A failed
`AddItemReferenceToObject` loses the reference. `\u0000`, or wrong hexadecimal digits, put a zero
into the string. Programs: `deleteDataToJson` loses the detached item; no zero is put
behind data read from a file; `analysisJsonPrint` prints the array only if it is
NULL; the comment's string is appended to 256 bytes; `comment_test.c` uses the result of `fopen`
unseen (186–188).

*tinyxml2.* `InsertAfterChild(a, b)` with `b` the next and last sibling of `a` follows a null
pointer (955–971). `ShallowEqual` compares attribute values, not names. An unknown
entity behind a known one loses its `&`. A surplus closing tag at document level ends
the document without error. Text behind the last element prints, but cannot be loaded.
The comment at 1928 says that duplicate attributes are not detected; 1921 refuses them.
`LoadFile` does not clean up after a failed parse as `Parse` does. Programs:
`ModifyOneCameraById` of demo05 uses a null `id` for cameras with `DevID`
(338–344); `exposureTime` is never set; a kill between emptying and writing leaves
`demo03.xml` empty for good.

*Data.* A Bloom filter saved between a reset and the next `Add` brings its old keys
back when it is loaded (positives too many, never a false negative); `Check` does not look at
the flag, so old keys are found after a reset; a failed load leaves pointers to
freed blocks. Huffman: a file with one distinct character crashes `Uncompress`, an
empty one `Compress`; cut data gives the full length with a wrong tail. zlib: a call may
return -1 although all output was handed over, and its caller ignores it; a
truncated file gives a prefix and the exit code 0; of a spoilt one `decompressOneFile` may write wrong
bytes, since each block is written before the checksum is seen, and it goes on after the error
and returns 0 as well; a second gzip stream
is passed over; the branch of `Inflate` that calls `deflate`
(`InflatingStream.cpp:111–124`) cannot be reached.

## 10. Not modelled, and why

Parts left out altogether: the heartbeat message codec (a draft that nothing calls and
that does not compile), the small ZeroMQ programs (a version number, a copy of
`hwserver.c`, a proxy between addresses that no program here uses), the queue under a mutex
(no interleaving to check), the sequential test of the CAS queue, the multi-port epoll client (a load
generator), the gRPC and person demos and all generated protobuf code, the
wrappers of iconv, the OpenSSL and jsoncpp demos (single library calls), the Docker, Qt, STL
and mysql material. `protobuf/im` is an earlier copy of `protobuf/im_new`.

Inside the modelled parts:

- `show` of the queue (only prints; only the sequential test calls it); `circular_buffer_deinit` and
  `udp_piece_deinit` (nobody calls them while in use); start-up and its failures (some are
  ignored: `main` of `reactor.c` goes on when `init_server` returns -1, and the loop then runs
  without a listener); `send_cb` of the heartbeat server (nothing asks for WRITING).
- `udp_piece`: loss of the second part of a piece, duplicates, reordering, and a client that is
  ended between two parts (`udp-piece.c:294`). The next piece is then taken for the missing bytes:
  a header is made of two headers, its fields are arbitrary numbers, and the copy that
  follows is undefined. Messages of 65536 bytes or more
  (`udp-piece.c:136`), whose lengths do not fit into 16 bits.
- Sudoku: puzzles with characters that are no digits, which `solveSudoku` answers with
  NoSolution (`sudoku.cc:274`); "Line is too long!" of the clients, since no server here sends
  more than 100 bytes without a line end.
- Heartbeat server: the limit of the table never applies, because the search starts at index 0
  which no socket uses (`ngx_server.c:112`); a wall clock that is set
  (`ngx_times.c:17`).
- `NgxHeartbeat` uses the set of timers and its minimum; that the tree gives this
  minimum is what `TimerTreeSound` shows. The two are not composed.
- IM: more than 100 connections (`server.cc:80`), strings of `CByteStream`, the
  read-write lock that nobody uses, SIGINT.
- cJSON: `ParseWithLength`, raw values, the `Create…Reference` calls, custom
  allocators, a `realloc` that fails in `ensure`, numbers other than integers. tinyxml2: conversions between numbers and text,
  error messages, line numbers, `CollapseWhitespace`. Text of the sudoku reports.
- Huffman: the layout of the table of counts (a cut inside it makes `Uncompress` loop). zlib: the
  gzip header (`DeflatingStream.cpp:32`), and wrong bytes whose checksum fits.
- The order in which a CPU with weak memory could show plain stores.

## 11. What could follow

The models and proofs above are complete for what they state. What would add most:

- `DeletedByLast` of the reference count, in a module without the recursive text helpers;
- `NgxHeartbeat` on `NgxRbtree`, with the set of timers as the refinement mapping. TLC can check
  it; the tree's own invariant is recursive and stays out of the prover's reach.
