--------------------------- MODULE FrameConverter ---------------------------
(***************************************************************************)
(* CframeConverter (converter/cframe_converter.cpp): the packets of a      *)
(* frame as one frame of the old format.  Two buffers take turns: the      *)
(* frame that is handed to the caller stays in one while the next grows in *)
(* the other.  A point is the packet it came with and its time since the   *)
(* frame began.                                                            *)
(***************************************************************************)
EXTENDS Integers, Sequences, FiniteSets

CONSTANTS
  Intervals,           (* the interval of the caller: every frame, or each n-th *)
  kMaxNumberInCframe,  (* points of a frame                                  *)
  MaxConverted,        (* bound: packets                                     *)
  MaxItems             (* bound: points of a packet                          *)

ConverterAssumption ==
  /\ Intervals \subseteq Nat /\ {kMaxNumberInCframe, MaxConverted, MaxItems} \subseteq Nat

Highest == 255   \* confidence level of a new frame

VARIABLES
  interval,
  current,     (* current_cframe_id_ and the buffer of current_cframe_       *)
  cframes,     (* the two buffers                                            *)
  handed,      (* the frame the caller was handed last, as it was then       *)
  added        (* the packets that came                                      *)

converterVars == <<interval, current, cframes, handed, added>>

Blank == [idx |-> -1, start |-> 0, end |-> 0, conf |-> 0, items |-> <<>>]
Nothing == [buffer |-> 0, frame |-> Blank, kept |-> TRUE, closed |-> FALSE]

ConverterInit ==
  /\ interval \in Intervals
  /\ current = [id |-> -1, buffer |-> 0] /\ cframes = [b \in {0, 1} |-> Blank]
  /\ handed = Nothing /\ added = <<>>

Wanted(id) == interval = 0 \/ id % interval = 0

Other(buffer) == 1 - buffer

(* start_new_current_cframe_                                               *)
Started(p) == [idx |-> p.idx, start |-> p.ts, end |-> p.ts, conf |-> Highest, items |-> <<>>]

(* update_current_cframe_v2_, for a packet that is sound: points without a *)
(* radius are left out, and those a full frame has no room for.            *)
Updated(f, p) ==
  LET points == [i \in 1..p.n |-> [packet |-> p.ts, since |-> p.ts - f.start]]
      room   == kMaxNumberInCframe - Len(f.items)
  IN  [f EXCEPT !.end = p.ts, !.conf = IF p.conf < @ THEN p.conf ELSE @,
                !.items = @ \o SubSeq(points, 1, IF p.n < room THEN p.n ELSE room)]

Hands(buffer, frame, closed) == [buffer |-> buffer, frame |-> frame, kept |-> TRUE, closed |-> closed]
Older == IF handed = Nothing THEN Nothing ELSE [handed EXCEPT !.kept = FALSE]

(* add_data_packet                                                         *)
AddDataPacket(p) ==
  /\ Len(added) < MaxConverted
  /\ added' = Append(added, p)
  /\ LET new  == p.idx # current.id
         next == IF new THEN Other(current.buffer) ELSE current.buffer
         done == [cframes[current.buffer] EXCEPT !.end = p.ts]
         ends == [cframes EXCEPT ![current.buffer] = IF new /\ current.id >= 0 THEN done ELSE @]
         begun == [ends EXCEPT ![next] = IF new THEN Started(p) ELSE @]
     IN  /\ current' = [id |-> p.idx, buffer |-> next]
         /\ cframes' = [begun EXCEPT ![next] = IF Wanted(p.idx) THEN Updated(@, p) ELSE @]
         /\ handed' = IF ~new THEN handed
                      ELSE IF current.id >= 0 /\ Wanted(current.id)
                      THEN Hands(current.buffer, done, FALSE) ELSE Older
  /\ UNCHANGED interval

(* close_current_frame: a frame without points is not handed over and goes *)
(* on.                                                                     *)
CloseCurrentFrame ==
  /\ current.id # -1 /\ cframes[current.buffer].items # <<>>
  /\ handed' = Hands(current.buffer, cframes[current.buffer], TRUE)
  /\ current' = [current EXCEPT !.id = -1]
  /\ UNCHANGED <<interval, cframes, added>>

Time == Len(added)

ConverterNext ==
  \/ \E idx \in {0, 1, 2}, n \in 0..MaxItems :
       AddDataPacket([idx |-> idx, n |-> n, conf |-> IF n = 1 THEN 0 ELSE Highest, ts |-> Time])
  \/ CloseCurrentFrame

ConverterSpec == ConverterInit /\ [][ConverterNext]_converterVars

-----------------------------------------------------------------------------
(* The packets of a frame: those of its number that came from its start to *)
(* the one that began the next.                                            *)
PacketsOf(f, closed) ==
  {i \in 1..Len(added) : f.start <= added[i].ts /\ (IF closed THEN added[i].ts <= f.end ELSE added[i].ts < f.end)}

(* The frame that is handed over is of one number, in the order of its     *)
(* packets, with their points as far as there is room, the lowest of their *)
(* confidence levels, and the times at which it begins and the next does.  *)
HandedIsWhole ==
  handed # Nothing =>
    LET f == handed.frame
        its == PacketsOf(f, handed.closed)
        count == [i \in its |-> Cardinality({k \in 1..Len(f.items) : f.items[k].packet = added[i].ts})]
    IN  /\ its # {} /\ \A i \in its : added[i].idx = f.idx /\ added[i].conf >= f.conf
        /\ \E i \in its : added[i].conf = f.conf
        /\ \A k \in 1..Len(f.items) : f.items[k].since = f.items[k].packet - f.start
        /\ \A k \in 1..(Len(f.items) - 1) : f.items[k].packet <= f.items[k + 1].packet
        /\ \A i \in its : count[i] <= added[i].n
                          /\ (count[i] < added[i].n => Len(f.items) = kMaxNumberInCframe)

(* It is not touched while the next frame grows, nor when that is the last *)
(* one and is closed.                                                      *)
HandedIsKept == handed # Nothing /\ handed.kept => cframes[handed.buffer] = handed.frame

FramesAreConverted == HandedIsWhole /\ HandedIsKept
=============================================================================
