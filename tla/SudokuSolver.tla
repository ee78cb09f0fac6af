------------------------------ MODULE SudokuSolver ------------------------------
(***************************************************************************)
(* muduo/examples/sudoku/sudoku.cc: the exact-cover search on dancing      *)
(* links, for boards of Side by Side cells (the code has Side 9, Box 3).   *)
(* The matrix is the array nodes_: node 1 is root_, columns and nodes are  *)
(* numbered as the constructor allocates them.  The recursion of solve is  *)
(* a stack of frames, and each of its steps an action.  Behind it, the     *)
(* statistics of the servers and clients, stat.h and percentile.h.         *)
(***************************************************************************)
EXTENDS Integers, Sequences, FiniteSets, SequencesExt, FiniteSetsExt

CONSTANTS Box, Puzzles   \* boards, 0 for an empty cell

Side == Box * Box
Cells == 0 .. Side * Side - 1
RowOf(i) == i \div Side
ColOf(i) == i % Side
BoxOf(i) == (RowOf(i) \div Box) * Box + ColOf(i) \div Box

VARIABLES puzzle,
          board,    \* inout_
          links,    \* the matrix
          frames,   \* the calls of solve: column, row and the matrix on entry
          mode,     \* what the innermost call does next
          intact    \* history: every call that failed left the matrix as it was

solverVars == <<puzzle, board, links, frames, mode, intact>>

----------------------------------------------------------------------------
(* The matrix *)

root == 1

\* The lines through a cell that a value in it would fill.
LinesThrough(i, v) == <<<<"row", RowOf(i), v>>, <<"col", ColOf(i), v>>, <<"box", BoxOf(i), v>>>>

\* Lines that have their value.
Filled(b) == UNION {{LinesThrough(j, b[j])[k] : k \in 1 .. 3} : j \in Cells}

\* new_column and append_column: the columns, in the order of their creation.
Columns(b) ==
  LET line(k)  == <<"row", "col", "box">>[(k % 3) + 1]
      wanted   == [k \in 1 .. 3 * Side * Side |->
                     <<line(k - 1), (k - 1) \div (3 * Side), (((k - 1) \div 3) % Side) + 1>>]
      empty    == SelectSeq([k \in 1 .. Side * Side |-> k - 1], LAMBDA i : b[i] = 0)
  IN  [k \in DOMAIN empty |-> <<"cell", empty[k]>>] \o SelectSeq(wanted, LAMBDA w : w \notin Filled(b))

\* The values that are possible in the empty cells, in the order of creation.
Possible(b) ==
  SelectSeq([k \in 1 .. Side * Side * Side |-> <<(k - 1) \div Side, ((k - 1) % Side) + 1>>],
            LAMBDA c : b[c[1]] = 0 /\ \A k \in 1 .. 3 : LinesThrough(c[1], c[2])[k] \notin Filled(b))

\* The neighbour of node n in the ring that put_left or put_up has made.
After(ring, n) == LET k == CHOOSE j \in DOMAIN ring : ring[j] = n IN ring[(k % Len(ring)) + 1]

\* The constructor: root_ and the columns are one ring, the four nodes of a
\* choice another (new_row, put_left), a column and its nodes a third (put_up).
Matrix(b) ==
  LET columns == Columns(b)
      choices == Possible(b)
      base    == 1 + Len(columns)
      total   == base + 4 * Len(choices)
      choice(n) == choices[((n - base - 1) \div 4) + 1]
      name == [n \in 1 .. total |->
                 IF n = root THEN <<"root">> ELSE IF n =< base THEN columns[n - 1]
                 ELSE (<<<<"cell", choice(n)[1]>>>> \o LinesThrough(choice(n)[1], choice(n)[2]))[((n - base - 1) % 4) + 1]] \o << >>
      col  == [n \in 1 .. total |->
                 IF n =< base THEN n ELSE CHOOSE c \in 2 .. base : columns[c - 1] = name[n]] \o << >>
      across(n) == IF n =< base THEN [k \in 1 .. base |-> k]
                   ELSE [k \in 1 .. 4 |-> n - ((n - base - 1) % 4) + k - 1]
      along(n)  == SelectSeq([k \in 1 .. total |-> k], LAMBDA k : col[k] = col[n])
      table(f(_)) == [n \in 1 .. total |-> f(n)] \o << >>   \* a tuple for TLC
  IN  [name |-> name, col |-> col,
       size |-> table(LAMBDA n : IF n =< base THEN Len(along(n)) - 1 ELSE 0),
       r |-> table(LAMBDA n : After(across(n), n)), l |-> table(LAMBDA n : After(Reverse(across(n)), n)),
       d |-> table(LAMBDA n : After(along(n), n)),  u |-> table(LAMBDA n : After(Reverse(along(n)), n))]

\* An operation on the matrix for each of some nodes in turn; the matrix is
\* bound to a variable, as below, so that TLC computes it once.
RECURSIVE ForEach(_, _, _)
ForEach(Op(_, _), m, js) ==
  IF js = << >> THEN m
  ELSE CHOOSE r \in {ForEach(Op, n, rest) : n \in {Op(m, Head(js))}, rest \in {Tail(js)}} : TRUE

\* The nodes after n in the direction of link, up to n itself.
RECURSIVE Round(_, _, _)
Round(link, n, k) == IF link[k] = n THEN << >> ELSE <<link[k]>> \o Round(link, n, link[k])

Unhook(m, j) ==
  [m EXCEPT !.u[m.d[j]] = m.u[j], !.d[m.u[j]] = m.d[j], !.size[m.col[j]] = @ - 1]

Hook(m, j) ==
  [m EXCEPT !.u[m.d[j]] = j, !.d[m.u[j]] = j, !.size[m.col[j]] = @ + 1]

UnhookRow(m, row) == ForEach(Unhook, m, Round(m.r, row, row))
HookRow(m, row) == ForEach(Hook, m, Round(m.l, row, row))

Cover(m, c) ==
  ForEach(UnhookRow, [m EXCEPT !.l[m.r[c]] = m.l[c], !.r[m.l[c]] = m.r[c]], Round(m.d, c, c))

\* The opposite of cover, in the opposite order.
Uncover(m, c) ==
  [ForEach(HookRow, m, Round(m.u, c, c)) EXCEPT !.l[m.r[c]] = c, !.r[m.l[c]] = c]

CoverColumnOf(m, j) == Cover(m, m.col[j])
UncoverColumnOf(m, j) == Uncover(m, m.col[j])

\* The first column of the smallest size; one of size 0 or 1 ends the search.
FirstSmallest(m, cs) ==
  LET size(k) == m.size[cs[k]]
  IN  CHOOSE k \in DOMAIN cs :
        IF \E j \in DOMAIN cs : size(j) =< 1 THEN size(k) =< 1 /\ \A j \in 1 .. k - 1 : size(j) > 1
        ELSE \A j \in DOMAIN cs : size(k) < size(j) \/ (size(k) = size(j) /\ k =< j)

MinColumn(m) == CHOOSE c \in {cs[FirstSmallest(m, cs)] : cs \in {Round(m.r, root, root)}} : TRUE

----------------------------------------------------------------------------
(* solve *)

SolverInit ==
  /\ puzzle \in Puzzles /\ board = puzzle
  /\ links = Matrix(puzzle)
  /\ frames = << >> /\ mode = "solve" /\ intact = TRUE

\* What the rows on the stack say, written to the board.
CellOf(m, n) == LET k == CHOOSE j \in {n, m.r[n], m.r[m.r[n]], m.r[m.r[m.r[n]]]} : m.name[j][1] = "cell" IN m.name[k][2]
ValueOf(m, n) == LET k == CHOOSE j \in {n, m.r[n]} : m.name[j][1] # "cell" IN m.name[k][3]

Found ==
  /\ mode = "solve" /\ links.l[root] = root
  /\ board' = [i \in Cells |->
                 IF \E k \in DOMAIN frames : CellOf(links, frames[k].row) = i
                 THEN ValueOf(links, frames[CHOOSE k \in DOMAIN frames : CellOf(links, frames[k].row) = i].row)
                 ELSE board[i]]
  /\ mode' = "solved"
  /\ UNCHANGED <<puzzle, links, frames, intact>>

Choose ==
  /\ mode = "solve" /\ links.l[root] # root
  /\ LET c == MinColumn(links)
     IN  /\ frames' = Append(frames, [col |-> c, row |-> c, saved |-> links])
         /\ links' = Cover(links, c)
  /\ mode' = "next"
  /\ UNCHANGED <<puzzle, board, intact>>

Top == frames[Len(frames)]

\* Mutant: only the column next to the row's node is covered.
TryRowCoversOne ==
  LET row == links.d[Top.row]
  IN  /\ mode = "next"
      /\ IF row # Top.col
         THEN /\ frames' = [frames EXCEPT ![Len(frames)].row = row]
              /\ links' = CoverColumnOf(links, links.r[row])
              /\ mode' = "solve"
              /\ UNCHANGED intact
         ELSE /\ links' = Uncover(links, Top.col)
              /\ frames' = Front(frames)
              /\ mode' = IF Len(frames) = 1 THEN "none" ELSE "undo"
              /\ intact' = (intact /\ links' = Top.saved)
      /\ UNCHANGED <<puzzle, board>>

\* The next row of the column, or, after the last, the call's return.
TryRow ==
  LET row == links.d[Top.row]
  IN  /\ mode = "next"
      /\ IF row # Top.col
         THEN /\ frames' = [frames EXCEPT ![Len(frames)].row = row]
              /\ links' = ForEach(CoverColumnOf, links, Round(links.r, row, row))
              /\ mode' = "solve"
              /\ UNCHANGED intact
         ELSE /\ links' = Uncover(links, Top.col)
              /\ frames' = Front(frames)
              /\ mode' = IF Len(frames) = 1 THEN "none" ELSE "undo"
              /\ intact' = (intact /\ links' = Top.saved)
      /\ UNCHANGED <<puzzle, board>>

\* The inner call has failed: the row is taken back.
Undo ==
  /\ mode = "undo"
  /\ links' = ForEach(UncoverColumnOf, links, Round(links.l, Top.row, Top.row))
  /\ mode' = "next"
  /\ UNCHANGED <<puzzle, board, frames, intact>>

SolverNext == Found \/ Choose \/ TryRow \/ Undo

----------------------------------------------------------------------------
(* Properties *)

Legal(b) ==
  \A i, j \in Cells : i # j /\ b[i] = b[j] /\ b[i] # 0 =>
    RowOf(i) # RowOf(j) /\ ColOf(i) # ColOf(j) /\ BoxOf(i) # BoxOf(j)

RECURSIVE Solvable(_)
Solvable(b) ==
  /\ Legal(b)
  /\ LET empty == {i \in Cells : b[i] = 0}
     IN  empty # {} => LET i == CHOOSE j \in empty : TRUE
                       IN  \E v \in 1 .. Side : Solvable([b EXCEPT ![i] = v])

(* The solver finds a completion of the puzzle exactly when there is one,  *)
(* also for puzzles whose givens contradict each other.                    *)
SolvesExactly ==
  /\ mode = "solved" => /\ Legal(board) /\ \A i \in Cells : board[i] # 0
                        /\ \A i \in Cells : puzzle[i] # 0 => board[i] = puzzle[i]
  /\ mode = "none" => ~Solvable(puzzle)

(* A call of solve that fails leaves every link and every size of the      *)
(* matrix as it found them (sudoku.cc:124-131, 218-242).                   *)
LinksRestored == intact

(* A search that has begun ends.                                           *)
SolverEnds == mode = "next" ~> mode \in {"solved", "none"}

----------------------------------------------------------------------------
(* muduo/examples/sudoku/stat.h: a window of responses per second, in two  *)
(* circular buffers of capacity kSeconds, under a clock that jumps either  *)
(* way; and percentile.h, which sorts the latencies a client has measured  *)
(* into ranks and a histogram.                                             *)

CONSTANTS kSeconds, MaxSecond,   \* bound on the clock
          MaxResponses,          \* bound on the responses recorded
          Latencies,             \* what a client may measure
          MaxSamples

VARIABLES window,   \* lastSecond_, requests_, latencies_ and the totals
          seen,     \* history: per second the latencies recorded since the reset
          sample    \* the sorted latencies of a client

statVars == <<window, seen, sample>>

NoResponses == [s \in 1 .. MaxSecond |-> << >>]

StatInit ==
  /\ window = [last |-> 0, requests |-> << >>, latencies |-> << >>,
               responses |-> 0, latency |-> 0, bad |-> 0]
  /\ seen = NoResponses
  /\ sample = << >>

----------------------------------------------------------------------------
(* SudokuStat *)

\* circular_buffer::push_back: a full buffer loses its oldest entry.
PushBack(buf, x) == Append(IF Len(buf) = kSeconds THEN Tail(buf) ELSE buf, x)
Zeros(n) == [k \in 1 .. n |-> 0]
PushZeros(buf, n) == FoldLeft(PushBack, buf, Zeros(n))

\* The window that contains this second, and the entry of the second in it,
\* which is below 1 when the second lies before the window.
WindowAt(w, second) ==
  LET first == w.last - Len(w.requests) + 1
      grown(n) == [requests |-> PushZeros(w.requests, n), latencies |-> PushZeros(w.latencies, n), last |-> second,
                   idx |-> Min({Len(w.requests) + n, kSeconds})]
  IN  IF w.last = 0 THEN grown(1)
      ELSE IF second > w.last /\ second < w.last + kSeconds THEN grown(second - w.last)
      ELSE IF second > w.last THEN [requests |-> <<0>>, latencies |-> <<0>>, last |-> second, idx |-> 1]
      ELSE [requests |-> w.requests, latencies |-> w.latencies, last |-> w.last, idx |-> second - first + 1]

\* recordResponse in some second, for a request that took elapsed; a negative
\* time is only counted.
RecordResponseAt(second, elapsed) ==
  LET w    == [window EXCEPT !.responses = @ + 1, !.bad = @ + (IF elapsed < 0 THEN 1 ELSE 0)]
      now  == WindowAt(w, second)
      in   == now.idx >= 1
  IN  /\ window.responses < MaxResponses
      /\ IF elapsed < 0 THEN window' = w /\ UNCHANGED seen
         ELSE /\ window' = [w EXCEPT !.latency = @ + elapsed, !.last = now.last,
                              !.requests  = IF in THEN [now.requests EXCEPT ![now.idx] = @ + 1] ELSE now.requests,
                              !.latencies = IF in THEN [now.latencies EXCEPT ![now.idx] = @ + elapsed] ELSE now.latencies]
              /\ seen' = [seen EXCEPT ![second] = Append(@, elapsed)]
      /\ UNCHANGED sample

\* reset, from the inspector's thread.
ResetStat ==
  /\ window' = [last |-> 0, requests |-> << >>, latencies |-> << >>,
                responses |-> 0, latency |-> 0, bad |-> 0]
  /\ seen' = NoResponses
  /\ UNCHANGED sample

----------------------------------------------------------------------------
(* Percentile *)

\* A client measures one more latency; the constructor sorts them.
Measure(x) ==
  /\ Len(sample) < MaxSamples
  /\ sample' = SortSeq(Append(sample, x), <)
  /\ UNCHANGED <<window, seen>>

\* getPercentile, of a sorted vector; idx counts from 1 here.
GetPercentile(s, percent) ==
  LET idx == IF percent > 0 THEN (Len(s) * percent + 99) \div 100 ELSE 1 IN s[idx]

kInterval == 5

\* The division of C, which rounds towards zero.
BucketOf(x) == IF x < 0 THEN -((-x \div kInterval) * kInterval) ELSE (x \div kInterval) * kInterval

\* save: the lines of the histogram, each with its low end, count and running sum.
SaveHistogram(s) ==
  LET step(acc, x) ==
        IF x < acc.low + kInterval THEN [acc EXCEPT !.count = @ + 1]
        ELSE [low |-> BucketOf(x), count |-> 1, sum |-> acc.sum + acc.count,
              lines |-> Append(acc.lines, <<acc.low, acc.count, acc.sum + acc.count>>)]
      end == FoldLeft(step, [low |-> BucketOf(s[1]), count |-> 0, sum |-> 0, lines |-> << >>], s)
  IN  Append(end.lines, <<end.low, end.count, end.sum + end.count>>)

StatNext ==
  \/ \E second \in 1 .. MaxSecond, elapsed \in {-1, 2} : RecordResponseAt(second, elapsed)
  \/ ResetStat

PercentileNext == \E x \in Latencies : Measure(x)

----------------------------------------------------------------------------
(* Properties *)

(* "requests_.back() is for that second", "requests_.front() is for second *)
(* (last second - size() + 1)" (stat.h:183-186): every entry holds exactly *)
(* the responses of its second, however the clock jumps.                   *)
WindowExact ==
  /\ Len(window.requests) = Len(window.latencies)
  /\ \A k \in DOMAIN window.requests :
       LET second == window.last - Len(window.requests) + k
       IN  IF second < 1 THEN window.requests[k] = 0
           ELSE /\ window.requests[k] = Len(seen[second])
                /\ window.latencies[k] = FoldLeft(LAMBDA a, b : a + b, 0, seen[second])

(* The percentile is the nearest rank: at least percent of the latencies   *)
(* are not larger, and fewer are smaller (percentile.h:82).                *)
NearestRank ==
  sample # << >> => \A percent \in {50, 90, 99, 100} :
    LET v == GetPercentile(sample, percent)
        below == Cardinality({k \in DOMAIN sample : sample[k] < v})
        upto  == Cardinality({k \in DOMAIN sample : sample[k] =< v})
    IN  100 * below < percent * Len(sample) /\ percent * Len(sample) =< 100 * upto

(* The histogram counts every latency once, each non-negative one in the   *)
(* bucket it belongs to (percentile.h:58-73).                              *)
HistogramExact ==
  sample # << >> =>
    LET lines == SaveHistogram(sample)
    IN  /\ lines[Len(lines)][3] = Len(sample)
        /\ sample[1] >= 0 => \A k \in DOMAIN lines :
             lines[k][2] = Cardinality({j \in DOMAIN sample : BucketOf(sample[j]) = lines[k][1]})
===============================================================================
