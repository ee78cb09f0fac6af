-------------------------------- MODULE MCMuduo --------------------------------
(* The muduo components, of which the initial state chooses one. *)
EXTENDS MuduoPoller, MuduoHttp, SudokuServer, SudokuSolver, SudokuClients, MuduoExamples

VARIABLE part

\* HTTP: two requests of these, one after the other.
MCRequests ==
  {<<RequestLine("GET", "/", "1.1"), HeaderLine("Host", "a"), EmptyLine>>,
   <<RequestLine("GET", "/", "1.1"), HeaderLine("Connection", "close"), EmptyLine>>,
   <<RequestLine("POST", "/hello", "1.0"), HeaderLine("Connection", "Keep-Alive"), EmptyLine>>,
   <<RequestLine("GET", "/hello", "1.0"), EmptyLine>>,
   <<RequestLine("GET", "/other", "1.1"), EmptyLine>>,
   <<RequestLine("GET", "/", "2.0"), EmptyLine>>,
   <<RequestLine("NONE", "/", "1.1"), EmptyLine>>}
MCStreams == {r \o s : r, s \in MCRequests}

\* Sudoku server: good lines with and without id, a short one and a long one.
MCLine(id, good, size) == [id |-> id, good |-> good, size |-> size]
MCLines ==
  LET asks == MCLine("a", TRUE, 2)
  IN  {<<asks, asks, x>> : x \in {asks, MCLine("", TRUE, 2), MCLine("", FALSE, 1), MCLine("", FALSE, 4)}}
MCVariants ==
  {<<"basic", 0, 0>>, <<"threadpool", 1, 0>>, <<"hybrid", 0, 1>>, <<"hybrid", 2, 1>>,
   <<"prod", 0, 2>>, <<"prod", 1, 1>>, <<"prod", 2, 0>>}

MCLatencies == {-3, 0, 4, 5, 9, 23}

\* Solver: boards of four by four cells with gaps, and some with a given that
\* contradicts the others.
MCComplete == [i \in Cells |-> <<1, 2, 3, 4, 3, 4, 1, 2, 2, 1, 4, 3, 4, 3, 2, 1>>[i + 1]]
MCErase(s) == [i \in Cells |-> IF i \in s THEN 0 ELSE MCComplete[i]]
MCPuzzles ==
  LET gaps == {{0, 1, 2, 4, 5, 8, 9, 14}, {0, 2, 4, 5, 9, 14}}
  IN  {MCErase(s) : s \in gaps} \cup {[MCErase(s) EXCEPT ![15] = 2] : s \in gaps}
        \cup {[MCErase(s \cup {10}) EXCEPT ![3] = 3] : s \in gaps}

MCQueries == {<<"a", "crlf">>, <<"schen", "crlf", "a", "crlf">>, <<"a", "b", "crlf", "schen", "crlf", "x">>}
MCUsers == {<<"schen">>}

vars == <<part, pollerVars, httpVars, sudokuVars, statVars, solverVars, clientsVars,
          pingVars, benchVars, fingerVars, latVars>>

\* Of the parts that were not chosen one initial state is enough.
Init ==
  /\ part \in {"poller", "http", "sudoku", "stat", "percentile", "solver", "clients",
              "ping", "bench", "finger", "lat"}
  /\ part # "http" => stream = CHOOSE s \in Streams : TRUE
  /\ part # "sudoku" => line = CHOOSE l \in Lines : TRUE
  /\ part # "sudoku" => server = <<"basic", 0, 0>>
  /\ part # "solver" => puzzle = CHOOSE p \in Puzzles : TRUE
  /\ part # "finger" => query = CHOOSE q \in Queries : TRUE
  /\ PollerInit /\ HttpInit /\ SudokuInit /\ StatInit /\ SolverInit
  /\ ClientsInit /\ PingInit /\ BenchInit /\ FingerInit /\ LatInit
  /\ part # "clients" => client.kind = "batch"

\* A step A of the part that was chosen.
Others(name) ==
  /\ name # "poller" => UNCHANGED pollerVars
  /\ name # "http" => UNCHANGED httpVars
  /\ name # "sudoku" => UNCHANGED sudokuVars
  /\ name \notin {"stat", "percentile"} => UNCHANGED statVars
  /\ name # "solver" => UNCHANGED solverVars
  /\ name # "clients" => UNCHANGED clientsVars
  /\ name # "ping" => UNCHANGED pingVars
  /\ name # "bench" => UNCHANGED benchVars
  /\ name # "finger" => UNCHANGED fingerVars
  /\ name # "lat" => UNCHANGED latVars

Of(name, A) == part = name /\ A /\ UNCHANGED part /\ Others(name)

Next ==
  \/ Of("poller", PollerNext) \/ Of("http", HttpNext) \/ Of("sudoku", SudokuNext)
  \/ Of("stat", StatNext) \/ Of("percentile", PercentileNext) \/ Of("solver", SolverNext)
  \/ Of("clients", ClientsNext) \/ Of("ping", PingNext) \/ Of("bench", BenchNext)
  \/ Of("finger", FingerNext) \/ Of("lat", LatNext)

\* The loops run, what is in a socket is delivered and an answering server
\* answers; nothing is said of timeouts, arrivals and lost connections.
Fairness ==
  /\ WF_vars(Of("sudoku", OnMessage)) /\ WF_vars(Of("sudoku", Functor)) /\ WF_vars(Of("sudoku", Drain))
  /\ WF_vars(Of("solver", SolverNext))
  /\ \A i \in Ids : WF_vars(Of("clients", \E size \in {1, FullAnswer} : ServerAnswers(i, size)))
  /\ WF_vars(Of("clients", ReceiveStep))
  /\ \A s \in Sessions : WF_vars(Of("ping", ClosedByServer(s)))

FairSpec == Init /\ [][Next]_vars /\ Fairness

(* However a stream is cut, what is put together again from its pieces is  *)
(* right: the HTTP server answers the same requests (HttpContext.cc:64),   *)
(* and the sudoku clients know what is on its way (batch.cc:80-120).       *)
StreamsExact == HttpExact /\ ClientsExact

(* The solver finds a solution exactly if there is one and restores all    *)
(* its links (sudoku.cc:150-260); the window holds the last seconds under  *)
(* any jump of the clock (stat.h:100-140); ranks and histogram are those   *)
(* of their definitions (percentile.h:20-80).                              *)
AlgorithmsExact == SolvesExactly /\ LinksRestored /\ WindowExact /\ NearestRank /\ HistogramExact

(* Nothing waits for ever: a throttled connection is released              *)
(* (server_prod.cc:79), the search ends, the clients go on and end         *)
(* (batch.cc:111), pingpong stops its sessions (pingpong/client.cc).       *)
MuduoProgress == Released /\ SolverEnds /\ ClientsGoOn /\ BatchEnds /\ PingEnds
=============================================================================
