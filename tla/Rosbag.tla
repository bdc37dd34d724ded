------------------------------- MODULE Rosbag -------------------------------
(***************************************************************************)
(* RosbagRecorder (converter/rosbag_recorder.cpp): the points of packets   *)
(* as a bag, one chunk with one message per frame.  A chunk is put         *)
(* together in a buffer, with lengths that are filled in when its points   *)
(* are known; behind the chunks follow the connection and one record for   *)
(* each chunk that tells where it begins; and the header, written first,   *)
(* is written again with the number of chunks and the place of the index.  *)
(*                                                                         *)
(* The bag is a sequence of cells, a record or a point each, and a         *)
(* position is a number of cells.  The bag goes to a file; writing to a    *)
(* callback is left out, and so are the records' other fields.             *)
(***************************************************************************)
EXTENDS Integers, Sequences, FiniteSets

CONSTANTS
  MaxBagged,       (* bound: packets                                         *)
  MaxPoints,       (* bound: points of a packet                              *)
  kBagBufferSize,  (* cells of the buffer                                    *)
  SizeLimits,      (* size_limit_ of a recorder, here 0 for a negative one    *)
  LongGap          (* steps of time that are taken for a jump of the clock   *)

RosbagAssumption ==
  /\ {MaxBagged, MaxPoints, kBagBufferSize, LongGap} \subseteq Nat \ {0} /\ SizeLimits \subseteq Nat

VARIABLES
  limit,     (* size_limit_                                                  *)
  bag,       (* the recorder and its file                                    *)
  given      (* the frame of each point that was put into the buffer         *)

rosbagVars == <<limit, bag, given>>

Cell(kind, n, pos) == [kind |-> kind, n |-> n, pos |-> pos]
Version == Cell("version", 0, 0)
Padding == Cell("padding", 0, 0)
Connection == Cell("connection", 0, 0)

(* frame: last_frame_id_; begin and size: file_chunk_begin_pos_ and        *)
(* current_chunk_size_; chunk and message: where in the buffer the records *)
(* begin that are to be filled in; last, last2 and offset: the times of    *)
(* the last two packets as they are recorded, and what was taken off.      *)
NewBag == [full |-> FALSE, called |-> 0, frame |-> 0, buffer |-> <<>>, file |-> <<>>, seek |-> 0,
          written |-> 0, header |-> 0, begin |-> 0, size |-> 0, chunk |-> 0, message |-> 0,
          points |-> 0, index |-> 0, chunks |-> <<>>, last |-> -1, last2 |-> -1, offset |-> 0,
          ts |-> 0]

RosbagInit == limit \in SizeLimits /\ bag = NewBag /\ given = <<>>

-----------------------------------------------------------------------------
Buffered(b, cells) == [b EXCEPT !.buffer = @ \o cells]

(* flush_buffer_: the buffer goes to where the file stands.                *)
Flushed(b) ==
  LET n == Len(b.buffer)
  IN  [b EXCEPT !.file = SubSeq(@, 1, b.seek) \o b.buffer \o SubSeq(@, b.seek + n + 1, Len(@)),
                !.seek = @ + n, !.written = @ + n, !.buffer = <<>>]

Header(b, count, pos) ==
  IF count > 0 THEN Flushed(Buffered(b, <<Cell("bag", count, pos)>>))
  ELSE LET c == Buffered(b, <<Cell("bag", count, pos), Padding>>)
       IN  Flushed([c EXCEPT !.begin = @ + Len(c.buffer)])

StartWriting(b) ==
  LET c == Buffered(b, <<Version>>) IN [Header([c EXCEPT !.header = Len(c.buffer)], 0, 0) EXCEPT !.buffer = <<>>]

IndexPlace(b) == b.index

(* stop_writing_: connection, chunks, and the header once more.            *)
StopWriting(b) ==
  LET info(c) == Cell("info", 0, c.pos)
      tail == Flushed(Buffered(Buffered(b, <<Connection>>), [i \in 1..Len(b.chunks) |-> info(b.chunks[i])]))
  IN  [Header([tail EXCEPT !.seek = b.header], Len(b.chunks), IndexPlace(b)) EXCEPT !.full = TRUE]

TotalSize(b) == b.written + 1 + b.message - b.chunk + Len(b.chunks) + 1

(* start_writing_chunk_                                                    *)
StartChunk(b, idx) ==
  IF limit > 0 /\ TotalSize(b) > limit THEN StopWriting(b)
  ELSE LET place == b.begin + b.size
           c == [b EXCEPT !.begin = place, !.size = 0, !.points = 0, !.chunk = 0,
                          !.chunks = Append(@, [pos |-> place, start |-> b.last, end |-> -1]),
                          !.buffer = <<Cell("chunk", 0, 0)>>]
           d == IF Len(c.chunks) = 1 THEN Buffered(c, <<Connection>>) ELSE c
       IN  Buffered([d EXCEPT !.message = Len(d.buffer)], <<Cell("message", 0, idx)>>)

(* update_ps_value_                                                        *)
Filled(b) ==
  [b EXCEPT !.buffer[b.chunk + 1].n = b.points + b.message - b.chunk + 1,
            !.buffer[b.message + 1].n = b.points]

(* Mutant of MessagePlace: behind the connection in every chunk.           *)
MessageBehind(b) == 1
MessagePlace(b) == IF Len(b.chunks) = 1 THEN 1 ELSE 0

Grown(b, cells) == b.size + cells

(* stop_writing_chunk_                                                     *)
StopChunk(b) ==
  LET n == Len(b.chunks)
      c == Buffered(Filled([b EXCEPT !.chunks[n].end = IF b.last2 >= 0 THEN b.last2 ELSE b.last]),
               <<Cell("dense", 0, 0)>>)
      d == Buffered(Flushed([c EXCEPT !.points = 0, !.size = @ + Len(c.buffer)]),
               <<Cell("index", 0, MessagePlace(c))>>)
      e == Flushed([d EXCEPT !.size = Grown(d, Len(d.buffer))])
  IN  [e EXCEPT !.index = e.written]

-----------------------------------------------------------------------------
(* The time of a packet as it is recorded: a jump of the lidar's clock is  *)
(* taken off, with what has passed meanwhile instead.                      *)
Timed(b, ts, passed) ==
  LET jumps == ts > b.last + b.offset + LongGap
      last  == IF b.last < 0 THEN ts ELSE IF jumps THEN b.last + passed ELSE ts - b.offset
  IN  [b EXCEPT !.last2 = b.last, !.last = last, !.ts = ts,
                !.offset = IF b.last < 0 THEN @ ELSE ts - last]

Fits(b, n) == Len(b.buffer) + n + 1 <= kBagBufferSize

(* add_block: a packet of a frame, with points that have a radius.         *)
AddBlock(idx, n, ts) ==
  /\ ~bag.full /\ bag.called < MaxBagged
  /\ LET t == Timed(bag, ts, 1)
         a == IF t.called = 0 THEN StartChunk(StartWriting([t EXCEPT !.frame = idx]), idx) ELSE t
         b == IF ~a.full /\ a.frame # idx THEN StartChunk(StopChunk(a), idx) ELSE a
         c == [b EXCEPT !.frame = idx, !.called = @ + 1]
         points == [i \in 1..n |-> Cell("point", 0, idx)]
     IN  IF b.full THEN bag' = b /\ UNCHANGED given
         ELSE IF Fits(c, n)
         THEN /\ bag' = [Buffered(c, points) EXCEPT !.points = @ + n]
              /\ given' = given \o [i \in 1..n |-> idx]
         ELSE bag' = c /\ UNCHANGED given
  /\ UNCHANGED limit

(* add_block without a packet ends the bag.                                *)
End ==
  /\ ~bag.full /\ bag.called > 0
  /\ bag' = StopWriting(StopChunk(bag)) /\ UNCHANGED <<limit, given>>

RosbagNext ==
  \/ \E idx \in {bag.frame, bag.frame + 1}, n \in 0..MaxPoints, ts \in {bag.ts + 1, bag.ts + LongGap + 2} :
       AddBlock(idx, n, ts)
  \/ End

RosbagSpec == RosbagInit /\ [][RosbagNext]_rosbagVars

-----------------------------------------------------------------------------
At(file, pos) == file[pos + 1]
IsAt(file, pos, kind) == pos < Len(file) /\ At(file, pos).kind = kind

ChunkIsWhole(file, pos) ==
  /\ IsAt(file, pos, "chunk")
  /\ LET data == pos + 1
         index == data + At(file, pos).n
         place == data + At(file, index).pos
     IN  /\ IsAt(file, index, "index") /\ IsAt(file, place, "message")
         /\ \A i \in 1..At(file, place).n :
              IsAt(file, place + i, "point") /\ At(file, place + i).pos = At(file, place).pos
         /\ IsAt(file, place + At(file, place).n + 1, "dense")

(* The points in the first k cells.                                        *)
PointsIn(file, k) == {i \in 1..k : file[i].kind = "point"}

(* The points of the file are these, in their order.                       *)
HasPoints(file, points) ==
  /\ Cardinality(PointsIn(file, Len(file))) = Len(points)
  /\ \A k \in PointsIn(file, Len(file)) : file[k].pos = points[Cardinality(PointsIn(file, k))]

Readable(file, points) ==
  LET count == At(file, 1).n
      index == At(file, 1).pos
  IN  /\ IsAt(file, 0, "version") /\ IsAt(file, 1, "bag") /\ IsAt(file, 2, "padding")
      /\ count > 0 => IsAt(file, index, "connection") /\ Len(file) = index + 1 + count
      /\ \A i \in 1..count : IsAt(file, index + i, "info") /\ ChunkIsWhole(file, At(file, index + i).pos)
      /\ HasPoints(file, points)

(* A bag that was ended is read as it was written: the header tells how    *)
(* many chunks there are and where the index begins, the index where each  *)
(* chunk does, and there the lengths lead over all its points to its end;  *)
(* and every point that was taken is in the bag once.                      *)
BagIsWhole == bag.full => Readable(bag.file, given) /\ At(bag.file, 1).n = Len(bag.chunks)

(* Chunks follow each other in time, whatever the clock of the lidar       *)
(* jumps; but the last chunk is said to end with the last packet but one.  *)
ChunksInTime ==
  \A i \in 1..Len(bag.chunks) :
    LET c == bag.chunks[i]
    IN  /\ i < Len(bag.chunks) => c.start <= c.end /\ c.end <= bag.chunks[i + 1].start
        /\ bag.chunks[i].start <= bag.last

(* The limit is passed by no more than the last chunk that was begun, the  *)
(* connection and the index.                                               *)
LimitIsKept ==
  bag.full /\ limit > 0 =>
    LET before == IF Len(bag.chunks) = 0 THEN 0 ELSE bag.chunks[Len(bag.chunks)].pos
    IN  before <= limit

BagsAreSound == BagIsWhole /\ ChunksInTime /\ LimitIsKept
=============================================================================
