------------------------------- MODULE UdpPiece -------------------------------
(***************************************************************************)
(* udp_piece: the client cuts a message into pieces with a header, sends   *)
(* each one in two datagrams, and the server puts the message together     *)
(* again from the bytes in its ring buffer (udp_piece_merge_ex) or from    *)
(* each datagram alone (udp_piece_merge).  Client and server have a handle *)
(* each; below, the fields of the handle are the server's.                 *)
(***************************************************************************)
EXTENDS CircularBuffer

CONSTANTS PIECE_FIX_SIZE,   \* bytes of data in a piece
          Frames,           \* the messages, in the order the client sends them
          FirstPart,        \* bytes of a piece in its first datagram
          Variants,         \* the merge functions: TRUE is merge_ex, FALSE is merge
          Faults,           \* what may go wrong in this run
          MaxNet            \* bound on the datagrams on their way

HEAD_SIZE == 12

ASSUME PieceAssumption == PIECE_FIX_SIZE \in Nat \ {0}
ASSUME ByteAssumption == Byte = 0 .. 255
ASSUME FrameAssumption ==
  Frames \in Seq(Seq(Byte)) /\ \A f \in DOMAIN Frames : 0 < Len(Frames[f]) /\ Len(Frames[f]) < 65536
ASSUME PartAssumption == FirstPart \in 1 .. HEAD_SIZE   \* not beyond the header
ASSUME BoundAssumption == MaxNet \in Nat
ASSUME VariantAssumption == Variants \subseteq BOOLEAN
ASSUME FaultAssumption == Faults \subseteq {"lose", "restart", "malloc"}

VARIABLES
  frame, index, half,   \* client: message, piece and part to send next
  net, lost,            \* the datagrams on their way; whether the network lost one
  use_ring,             \* server: it calls udp_piece_merge_ex
  pc,                   \* server: where in echo_server and the merge function
  circular_buffer, rest,   \* bytes not yet merged, for merge_ex and for merge
  recv_pieces, total_size, total_pieces, recv_len, recv_buf,   \* the handle
  get_all_pieces,       \* what the merge function is going to return
  delivered             \* the messages the server has printed

client == <<frame, index, half>>
handle == <<recv_pieces, total_size, total_pieces, recv_len, recv_buf>>
vars == <<client, net, lost, use_ring, pc, circular_buffer, rest, handle, get_all_pieces, delivered>>

Init ==
  /\ frame = 1 /\ index = 0 /\ half = 0
  /\ net = << >> /\ lost = FALSE
  /\ use_ring \in Variants
  /\ pc = "recvfrom"
  /\ circular_buffer = RingInit /\ rest = << >>
  /\ recv_pieces = 0 /\ total_size = 0 /\ total_pieces = 0 /\ recv_len = 0
  /\ recv_buf = << >>
  /\ get_all_pieces = 0
  /\ delivered = << >>

----------------------------------------------------------------------------
(* The client *)

\* The number of pieces.
Cut(size) ==
  IF size % PIECE_FIX_SIZE > 0 THEN size \div PIECE_FIX_SIZE + 1 ELSE size \div PIECE_FIX_SIZE

TwoBytes(n) == <<(n \div 256) % 256, n % 256>>

\* The size of piece i of a message.
PieceSize(size, i) ==
  IF i = Cut(size) - 1 /\ size % PIECE_FIX_SIZE > 0 THEN size % PIECE_FIX_SIZE ELSE PIECE_FIX_SIZE

\* udp_piece_get: the header, of which two bytes stay 0, and the data.
Piece(f, i) ==
  LET size == Len(Frames[f])
      n == PieceSize(size, i)
  IN  <<175, 174>> \o TwoBytes(size) \o TwoBytes(Cut(size)) \o TwoBytes(i) \o TwoBytes(n)
        \o <<0, 0>> \o SubSeq(Frames[f], PIECE_FIX_SIZE * i + 1, PIECE_FIX_SIZE * i + n)

\* One sendto: a piece goes out in two datagrams, or in one where the server
\* calls udp_piece_merge, which takes every datagram for whole pieces.  After
\* the last piece the client sleeps and starts again.
SendTo ==
  LET piece == Piece(frame, index)
      last == half = 1 \/ ~use_ring
  IN  /\ frame \in DOMAIN Frames
      /\ Len(net) < MaxNet
      /\ net' = Append(net, IF ~use_ring THEN piece
                            ELSE IF half = 0 THEN SubSeq(piece, 1, FirstPart)
                            ELSE SubSeq(piece, FirstPart + 1, Len(piece)))
      /\ half' = IF last THEN 0 ELSE 1
      /\ index' = IF ~last THEN index
                  ELSE IF index + 1 = Cut(Len(Frames[frame])) THEN 0 ELSE index + 1
      /\ frame' = IF last /\ index + 1 = Cut(Len(Frames[frame])) THEN frame + 1 ELSE frame
      /\ UNCHANGED <<lost, use_ring, pc, circular_buffer, rest, handle, get_all_pieces, delivered>>

----------------------------------------------------------------------------
(* The network *)

\* The datagram begins with the synchronisation word.
StartsPiece(d) == Len(d) >= 2 /\ d[1] = 175 /\ d[2] = 174

Without(s, i) == SubSeq(s, 1, i - 1) \o SubSeq(s, i + 1, Len(s))

\* The network loses the start of a piece.
LoseStart ==
  /\ "lose" \in Faults
  /\ \E i \in DOMAIN net : StartsPiece(net[i]) /\ net' = Without(net, i)
  /\ lost' = TRUE
  /\ UNCHANGED <<client, use_ring, pc, circular_buffer, rest, handle, get_all_pieces, delivered>>

----------------------------------------------------------------------------
(* The server *)

\* The bytes the merge function works on.
Input == IF use_ring THEN Contents(circular_buffer) ELSE rest

\* n of them are consumed.
Consume(n) ==
  IF use_ring THEN circular_buffer' = RingPop(circular_buffer, n) /\ UNCHANGED rest
             ELSE rest' = SubSeq(rest, n + 1, Len(rest)) /\ UNCHANGED circular_buffer

\* recvfrom, and the start of the merge function.
Receive ==
  /\ pc = "recvfrom"
  /\ net # << >>
  /\ net' = Tail(net)
  /\ IF use_ring
     THEN /\ circular_buffer' = RingWrite(circular_buffer, Head(net))
          /\ UNCHANGED rest
          /\ IF WriteCount(circular_buffer, Head(net)) # Len(Head(net))
             THEN pc' = "return" /\ get_all_pieces' = -1
             ELSE pc' = "sync" /\ get_all_pieces' = 0
     ELSE /\ rest' = Head(net)
          /\ UNCHANGED circular_buffer
          /\ pc' = "sync"
          /\ get_all_pieces' = 0
  /\ UNCHANGED <<client, use_ring, lost, handle, delivered>>

\* A byte is skipped while the next two are not the synchronisation word.
\* merge_ex keeps a last byte; merge finds a 0 behind it and skips it too.
Sync ==
  LET found(k) == k + 2 =< Len(Input) /\ Input[k + 1] = 175 /\ Input[k + 2] = 174
      end == IF use_ring /\ Input # << >> THEN Len(Input) - 1 ELSE Len(Input)
  IN  /\ pc = "sync"
      /\ \E k \in 0 .. end :
           /\ found(k) \/ k = end
           /\ \A j \in 0 .. k - 1 : ~found(j)
           /\ Consume(k)
      /\ pc' = "merge"
      /\ UNCHANGED <<client, use_ring, net, lost, handle, get_all_pieces, delivered>>

\* The number in the header at a position, counted from 0.
Field(pos) == Input[pos + 1] * 256 + Input[pos + 2]
TotalSize == Field(2)
TotalPieces == Field(4)
PIndex == Field(6)
DataLen == Field(8)

\* Mutant: a piece that ends with the bytes that are there is left.
HavePieceMore == Len(Input) > HEAD_SIZE /\ Len(Input) > HEAD_SIZE + DataLen

\* There is a piece to merge.
HavePiece == Len(Input) > HEAD_SIZE /\ Len(Input) >= HEAD_SIZE + DataLen

\* The first piece after a reset, or one that belongs to another message.
NewFrame == total_size = 0 \/ TotalSize # total_size \/ TotalPieces # total_pieces

\* recv_buf has total_size + 1 bytes that malloc leaves as they are.
Malloc(n) == [k \in 1 .. n |-> Junk]

\* What a piece whose counts complete a message with another length does to
\* the result: udp_piece_merge sets -1, the statement of merge_ex does nothing.
Mismatch == IF use_ring THEN get_all_pieces ELSE -1

\* Mutant: a piece is stored behind the bytes received so far.
MergeInOrder ==
  /\ pc = "merge" /\ HavePiece
  /\ LET data == SubSeq(Input, HEAD_SIZE + 1, HEAD_SIZE + DataLen)
         buf == IF NewFrame THEN Malloc(TotalSize + 1) ELSE recv_buf
         pieces == IF NewFrame THEN 1 ELSE recv_pieces + 1
         len == IF NewFrame THEN 0 ELSE recv_len
     IN  /\ recv_buf' = [k \in DOMAIN buf |-> IF k - len \in 1 .. DataLen THEN data[k - len] ELSE buf[k]]
         /\ total_size' = TotalSize
         /\ recv_len' = len + DataLen
         /\ IF pieces = TotalPieces
            THEN /\ total_pieces' = 0 /\ recv_pieces' = 0
                 /\ get_all_pieces' = IF len + DataLen = TotalSize THEN 1 ELSE Mismatch
            ELSE /\ total_pieces' = TotalPieces /\ recv_pieces' = pieces
                 /\ UNCHANGED get_all_pieces
  /\ Consume(HEAD_SIZE + DataLen)
  /\ UNCHANGED <<client, use_ring, net, lost, pc, delivered>>

\* Mutant: pieces are numbered from 1.
MergeFromOne ==
  /\ pc = "merge" /\ HavePiece
  /\ LET data == SubSeq(Input, HEAD_SIZE + 1, HEAD_SIZE + DataLen)
         buf == IF NewFrame THEN Malloc(TotalSize + 1) ELSE recv_buf
         pieces == IF NewFrame THEN 1 ELSE recv_pieces + 1
         len == (IF NewFrame THEN 0 ELSE recv_len) + DataLen
         at == PIECE_FIX_SIZE * (PIndex + 1)
     IN  /\ recv_buf' = [k \in DOMAIN buf |-> IF k - at \in 1 .. DataLen THEN data[k - at] ELSE buf[k]]
         /\ total_size' = TotalSize
         /\ recv_len' = len
         /\ IF pieces = TotalPieces
            THEN /\ total_pieces' = 0 /\ recv_pieces' = 0
                 /\ get_all_pieces' = IF len = TotalSize THEN 1 ELSE Mismatch
            ELSE /\ total_pieces' = TotalPieces /\ recv_pieces' = pieces
                 /\ UNCHANGED get_all_pieces
  /\ Consume(HEAD_SIZE + DataLen)
  /\ UNCHANGED <<client, use_ring, net, lost, pc, delivered>>

\* One turn of the merge loop.
MergePiece ==
  /\ pc = "merge" /\ HavePiece
  /\ LET data == SubSeq(Input, HEAD_SIZE + 1, HEAD_SIZE + DataLen)
         buf == IF NewFrame THEN Malloc(TotalSize + 1) ELSE recv_buf
         pieces == IF NewFrame THEN 1 ELSE recv_pieces + 1
         len == (IF NewFrame THEN 0 ELSE recv_len) + DataLen
         at == PIECE_FIX_SIZE * PIndex
     IN  /\ recv_buf' = [k \in DOMAIN buf |-> IF k - at \in 1 .. DataLen THEN data[k - at] ELSE buf[k]]
         /\ total_size' = TotalSize
         /\ recv_len' = len
         /\ IF pieces = TotalPieces
            THEN /\ total_pieces' = 0 /\ recv_pieces' = 0
                 /\ get_all_pieces' = IF len = TotalSize THEN 1 ELSE Mismatch
            ELSE /\ total_pieces' = TotalPieces /\ recv_pieces' = pieces
                 /\ UNCHANGED get_all_pieces
  /\ Consume(HEAD_SIZE + DataLen)
  /\ UNCHANGED <<client, use_ring, net, lost, pc, delivered>>

\* malloc fails: the piece stays where it is.
MallocFails ==
  /\ "malloc" \in Faults
  /\ pc = "merge" /\ HavePiece /\ NewFrame
  /\ total_size' = TotalSize
  /\ total_pieces' = TotalPieces
  /\ recv_pieces' = IF total_size = 0 THEN 0 ELSE 1
  /\ recv_len' = 0
  /\ recv_buf' = << >>
  /\ get_all_pieces' = -1
  /\ pc' = "return"
  /\ UNCHANGED <<client, use_ring, net, lost, circular_buffer, rest, delivered>>

\* Too few bytes for another piece.
MergeEnd ==
  /\ pc = "merge" /\ ~HavePiece
  /\ pc' = "return"
  /\ UNCHANGED <<client, use_ring, net, lost, circular_buffer, rest, handle, get_all_pieces, delivered>>

\* echo_server prints a complete message; udp_piece_reset empties the ring too.
\* The rest of a datagram is only forgotten by merge.
Return ==
  /\ pc = "return"
  /\ pc' = "recvfrom"
  /\ IF get_all_pieces = 0
     THEN UNCHANGED <<circular_buffer, handle, delivered>>
     ELSE /\ delivered' = IF get_all_pieces = 1
                          THEN Append(delivered, SubSeq(recv_buf, 1, recv_len)) ELSE delivered
          /\ circular_buffer' = RingReset(circular_buffer)
          /\ recv_pieces' = 0 /\ total_size' = 0 /\ total_pieces' = 0 /\ recv_len' = 0
          /\ recv_buf' = << >>
  /\ rest' = << >>
  /\ UNCHANGED <<client, use_ring, net, lost, get_all_pieces>>

\* The server is ended and started again: what was sent to it is gone, and so
\* is what it had received.
Restart ==
  /\ "restart" \in Faults
  /\ net' = << >>
  /\ pc' = "recvfrom"
  /\ circular_buffer' = RingInit /\ rest' = << >>
  /\ recv_pieces' = 0 /\ total_size' = 0 /\ total_pieces' = 0 /\ recv_len' = 0
  /\ recv_buf' = << >>
  /\ get_all_pieces' = 0
  /\ UNCHANGED <<client, use_ring, lost, delivered>>

Server == Receive \/ Sync \/ MergePiece \/ MallocFails \/ MergeEnd \/ Return

Next == SendTo \/ LoseStart \/ Restart \/ Server

Spec == Init /\ [][Next]_vars

\* Both programs go on running.
FairSpec == Spec /\ WF_vars(SendTo) /\ WF_vars(Server)

----------------------------------------------------------------------------
(* Properties *)

(* The fields of the handle, the ring and the client's position keep their *)
(* types; the merge functions return -1, 0 or 1 (udp-piece.h:89).          *)
TypeOK ==
  /\ frame \in 1 .. Len(Frames) + 1 /\ index \in Nat /\ half \in {0, 1}
  /\ net \in Seq(Seq(Byte)) /\ lost \in BOOLEAN
  /\ use_ring \in Variants
  /\ pc \in {"recvfrom", "sync", "merge", "return"}
  /\ circular_buffer.beg \in Cells /\ circular_buffer.end \in Cells /\ circular_buffer.size \in 0 .. Capacity
  /\ rest \in Seq(Byte)
  /\ recv_pieces \in Nat /\ total_size \in Nat /\ total_pieces \in Nat /\ recv_len \in Nat
  /\ recv_buf \in Seq(Byte \cup {Junk})
  /\ get_all_pieces \in {-1, 0, 1}

(* The server prints the messages of the client, one after the other, none *)
(* skipped, merged or damaged, although they arrive in parts that end in   *)
(* the middle of a header.                                                 *)
InOrder ==
  /\ Len(delivered) =< Len(Frames)
  /\ \A k \in DOMAIN delivered : delivered[k] = Frames[k]

(* The merge function never fails: the ring never refuses bytes when it    *)
(* has room for one piece, since each datagram ends a piece or starts one. *)
NeverRefused == pc = "return" => get_all_pieces # -1

\* All the pieces there are.
Pieces == UNION {{Piece(f, i) : i \in 0 .. Cut(Len(Frames[f])) - 1} : f \in DOMAIN Frames}

(* What the merge loop takes for a piece is one that the client sent, and  *)
(* its data fits into the buffer it is copied to.                          *)
ParsesPieces ==
  pc = "merge" /\ HavePiece =>
    /\ SubSeq(Input, 1, HEAD_SIZE + DataLen) \in Pieces
    /\ PIECE_FIX_SIZE * PIndex + DataLen =< TotalSize

(* "Returns 1 if the reassembly succeeded" (udp-piece.h:89): a message is  *)
(* printed only if every byte of it has been received.                     *)
WholeFrames == \A k \in DOMAIN delivered : \E f \in DOMAIN Frames : delivered[k] = Frames[f]

(* What is printed has the length of the client's message, and each of its *)
(* bytes is the client's at this place, or was never received.             *)
HolesAtMost ==
  \A k \in DOMAIN delivered :
    /\ Len(delivered[k]) = Len(Frames[1])
    /\ \A n \in 1 .. Len(Frames[1]) : delivered[k][n] \in {Frames[1][n], Junk}

(* For a network that keeps datagrams and their order, and a ring with     *)
(* room for one piece: the server prints the messages of the client, one   *)
(* after the other, none skipped, merged or damaged, although they arrive  *)
(* in parts that end in the middle of a header (udp-piece-client.c:78);    *)
(* and the ring never refuses bytes (udp-piece.c:283).                     *)
PrintedInOrder == TypeOK /\ InOrder /\ NeverRefused /\ ParsesPieces

(* The client sends one message again and again, and its data holds no     *)
(* synchronisation word (udp-piece-client.c:64).  Wherever the server is   *)
(* started again, malloc fails (udp-piece.c:344) or the network loses the  *)
(* start of a piece: the server finds the next piece, what it takes for    *)
(* one is one that the client sent and fits into the buffer                *)
(* (udp-piece.c:309), and nothing is printed but the bytes of the message, *)
(* with holes at most.  Without a loss the message is whole, although the  *)
(* server may begin in the middle of it and of a piece.                    *)
OnlyWholePrinted ==
  TypeOK /\ ParsesPieces /\ HolesAtMost /\ (~lost => WholeFrames)

(* On an orderly network every message of the client arrives, whatever the *)
(* order in which client and server run (udp-piece.c:415).                 *)
EveryMessageArrives == <>(delivered = Frames)

----------------------------------------------------------------------------
(* Values of the constants for TLC *)

Bytes == 0 .. 255

\* One length for all, as the client sends; data that looks like a header.
SameSize == << <<175, 174, 1>>, <<2, 175, 174>>, <<3, 175, 3>> >>

\* The same message each time; pieces that end like a header begins.
Repeated == [round \in 1 .. 3 |-> <<1, 175, 174, 4, 175>>]
=============================================================================
