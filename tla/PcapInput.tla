----------------------------- MODULE PcapInput ------------------------------
(***************************************************************************)
(* PcapInput (sdk_client/stage_client_read_pcap.cpp): reads the captured   *)
(* packets of a pcap file and puts the fragments of UDP datagrams together *)
(* again, in a cache with one place for all identifications that are equal *)
(* modulo its length.                                                      *)
(*                                                                         *)
(* A fragment is its datagram and its number; the headers of the link, IP  *)
(* and UDP layers are left out, but for what tells fragments apart.  The   *)
(* capture may lose, repeat and reorder fragments.  The rounds and the     *)
(* packets in the datagrams are those of FileInput.                        *)
(***************************************************************************)
EXTENDS Integers, Sequences

CONSTANTS
  Datagrams,      (* bound: [id, parts, ours]; ours if sent to one of the    *)
                  (* three ports of the lidar                                *)
  PCAP_CACHE_LENGTH,
  MaxParts,       (* UDP_PACKET_MAX_SIZE, in fragments                       *)
  MaxCaptured     (* bound: captured packets                                 *)

PcapAssumption ==
  /\ Datagrams \subseteq [id : Nat, parts : Nat \ {0}, ours : BOOLEAN]
  /\ \A d, e \in Datagrams : d.id = e.id => d = e
  /\ {PCAP_CACHE_LENGTH, MaxParts, MaxCaptured} \subseteq Nat \ {0}

Fragments == UNION {{[of |-> d, offset |-> i] : i \in 0..(d.parts - 1)} : d \in Datagrams}

IsLast(f) == f.offset = f.of.parts - 1       \* IP_MF is not set
Whole(f)  == f.of.parts = 1                  \* or IP_DF is set

VARIABLES
  cache_,         (* id, and the fragments so far; offset and len count them *)
  captured,       (* history: what was read from the file                    *)
  packets         (* history: the datagrams that were put together           *)

pcapVars == <<cache_, captured, packets>>

Slot(f) == f.of.id % PCAP_CACHE_LENGTH
Empty(id) == [id |-> id, buf |-> <<>>]

PcapInit ==
  /\ cache_ = [s \in 0..(PCAP_CACHE_LENGTH - 1) |-> Empty(0)]
  /\ captured = <<>> /\ packets = <<>>

Read(f) ==
  /\ Len(captured) < MaxCaptured /\ captured' = Append(captured, f)

(* The ports stand in the first fragment.                                  *)
NotOurs(f) == f.offset = 0 /\ ~f.of.ours

SkipForeign == \E f \in Fragments :
  /\ NotOurs(f) /\ Read(f)
  /\ UNCHANGED <<cache_, packets>>

Unfragmented == \E f \in Fragments :
  /\ ~NotOurs(f) /\ Whole(f) /\ Read(f)
  /\ packets' = Append(packets, <<f>>)
  /\ UNCHANGED cache_

Claimed(f) == IF cache_[Slot(f)].id = f.of.id THEN cache_[Slot(f)] ELSE Empty(f.of.id)

Put(f, place) == cache_' = [cache_ EXCEPT ![Slot(f)] = place]

(* A fragment that is not the next one is lost; a first one starts over.   *)
Unexpected == \E f \in Fragments :
  /\ ~NotOurs(f) /\ ~Whole(f) /\ Read(f)
  /\ f.offset # 0 /\ f.offset # Len(Claimed(f).buf)
  /\ Put(f, Claimed(f))
  /\ UNCHANGED packets

StartsOver(f) == IF f.offset = 0 THEN <<>> ELSE Claimed(f).buf

(* The next fragment: a datagram that outgrows its buffer is discarded;    *)
(* the last fragment makes it a packet, which read_fd_ takes before it     *)
(* reads on.                                                               *)
Reassemble == \E f \in Fragments :
  /\ ~NotOurs(f) /\ ~Whole(f) /\ Read(f)
  /\ f.offset = 0 \/ f.offset = Len(Claimed(f).buf)
  /\ LET buf == Append(StartsOver(f), f)
     IN  CASE Len(buf) > MaxParts -> Put(f, Empty(f.of.id)) /\ UNCHANGED packets
           [] Len(buf) <= MaxParts /\ IsLast(f) ->
                Put(f, Empty(f.of.id)) /\ packets' = Append(packets, buf)
           [] OTHER -> Put(f, [id |-> f.of.id, buf |-> buf]) /\ UNCHANGED packets

(* The end of the file.                                                    *)
EndOfFile == Len(captured) = MaxCaptured /\ UNCHANGED pcapVars

PcapNext == SkipForeign \/ Unfragmented \/ Unexpected \/ Reassemble \/ EndOfFile

PcapSpec == PcapInit /\ [][PcapNext]_pcapVars

-----------------------------------------------------------------------------
PcapTypeOK ==
  /\ DOMAIN cache_ = 0..(PCAP_CACHE_LENGTH - 1)
  /\ \A s \in DOMAIN cache_ : cache_[s].id \in Nat /\ cache_[s].buf \in Seq(Fragments)
  /\ captured \in Seq(Fragments) /\ packets \in Seq(Seq(Fragments))

(* All the fragments of a datagram, in their order.                        *)
AllOf(d) == [i \in 1..d.parts |-> [of |-> d, offset |-> i - 1]]

(* What the place of a datagram sees: fragments of datagrams, its own and  *)
(* others, but not first ones that are of the ports of others.             *)
AtPlace(g, d) == Slot(g) = d.id % PCAP_CACHE_LENGTH /\ ~Whole(g) /\ ~NotOurs(g)

(* The first k fragments of d were captured in their order, where "at"     *)
(* says, and since the first of them nothing else that its place sees.     *)
InTurn(d, k, at) ==
  /\ \A j \in 1..k : captured[at[j]] = [of |-> d, offset |-> j - 1]
  /\ \A i, j \in 1..k : i < j => at[i] < at[j]
  /\ \A i \in at[1]..Len(captured) : AtPlace(captured[i], d) => \E j \in 1..k : at[j] = i

(* A packet is one datagram of ours, whole and in order, and it was        *)
(* captured; and a datagram whose fragments came in order, with no other   *)
(* for the same place between them, has become a packet.                   *)
DatagramsAreWhole ==
  /\ \A i \in DOMAIN packets : LET d == packets[i][1].of IN d.ours /\ packets[i] = AllOf(d)
  /\ captured # <<>> =>
       LET d == captured[Len(captured)].of
       IN  /\ d.ours /\ d.parts \in 2..MaxParts
           /\ \E at \in [1..d.parts -> DOMAIN captured] :
                InTurn(d, d.parts, at) /\ at[d.parts] = Len(captured)
           => packets # <<>> /\ packets[Len(packets)] = AllOf(d)
=============================================================================
