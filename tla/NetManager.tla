----------------------------- MODULE NetManager -----------------------------
(***************************************************************************)
(* NetManager (utils/net_manager.cpp) and the requests of                  *)
(* LidarClientCommunication: one call of the application, over a           *)
(* connection of its own to the lidar, with a network that refuses, times  *)
(* out, cuts short and damages.                                            *)
(*                                                                         *)
(* Contents are sequences of units 1, 2, ...; 0 is a damaged unit.  The    *)
(* lengths that precede a content are one unit of their own, the header of *)
(* an HTTP answer is kHeader units.                                        *)
(***************************************************************************)
EXTENDS Integers, SequencesExt

CONSTANTS
  MaxContent,     (* bound: units of a content                               *)
  BufferSize,     (* of the caller                                           *)
  Refusals        (* read_timeout_sec in steps of 10 ms                      *)

NetAssumption == {MaxContent, BufferSize, Refusals} \subseteq Nat \ {0}

Calls   == {"http_get", "recv_length_buffer", "recv_file", "send_file", "send_command"}
kHeader == 2
Tries   == 2               \* of send_command_and_get_reply_v_

Units(n) == [i \in 1..n |-> i]

(* What the lidar answers with.                                            *)
LidarAnswers == [header : {"good", "version", "garbage", "no_length", "bad_length"},
            status : {200, 404}, length : 0..MaxContent, damaged : BOOLEAN]

(* What the application asks of an HTTP answer, and the size of its buffer *)
(* for it; a value is read from the text, which may not be one.            *)
Requests == [what : {"set", "get", "table", "value"}, size : 1..(MaxContent + 1), readable : BOOLEAN]

FirstRequest == [what |-> "get", size |-> 1, readable |-> TRUE]

VARIABLES
  call, request,
  address_ok,       (* inet_pton takes the address                           *)
  content,          (* of the file or the command that is sent               *)
  answer,           (* what the lidar will send, chosen beforehand           *)
  at_call, tries, left,  (* left: of the time for refused connections             *)
  open, leaked,     (* the connections that are open; that nobody will close *)
  executed,         (* how often the lidar has got the command               *)
  cursor,           (* units received of the answer                          *)
  got,              (* the content as received, and as written to a file     *)
  file, short,      (* short: a write took less than it was given            *)
  ret               (* the outcome, "none" as long as there is none          *)

callVars == <<call, request, address_ok, content, answer>>
netVars == <<callVars, at_call, tries, left, open, leaked, executed, cursor, got, file, short, ret>>

NetInit ==
  /\ call \in Calls /\ address_ok \in BOOLEAN /\ content = Units(MaxContent)
  /\ answer \in {a \in LidarAnswers : call = "http_get" \/ (a.header = "good" /\ a.status = 200)}
  /\ request \in {r \in Requests : (call = "http_get" /\ answer.header = "good") \/ r = FirstRequest}
  /\ at_call = "connect" /\ tries = 1 /\ left = Refusals /\ open = 0 /\ leaked = 0
  /\ executed = 0 /\ cursor = 0 /\ got = <<>> /\ file = <<>> /\ short = FALSE /\ ret = "none"

-----------------------------------------------------------------------------
(* The end of a call, or of one try of a command: the connection is        *)
(* closed, left open, or was never there.                                  *)
ReturnsWith(result) ==
  IF call = "send_command" /\ result # "ok" /\ tries < Tries
  THEN /\ at_call' = "connect" /\ tries' = tries + 1 /\ left' = Refusals /\ cursor' = 0
       /\ UNCHANGED ret
  ELSE at_call' = "returned" /\ ret' = result /\ UNCHANGED <<tries, left, cursor>>

CloseConnection == open' = 0 /\ UNCHANGED leaked
Leave == open' = 0 /\ leaked' = leaked + open

CallFails(result) == ReturnsWith(result) /\ CloseConnection

-----------------------------------------------------------------------------
(* get_connection: a socket is made, set up and connected.                 *)
NoSocket ==
  /\ at_call = "connect" /\ open = 0 /\ CallFails("no_connection")
  /\ UNCHANGED <<callVars, executed, got, file, short>>

MakeSocket ==
  /\ at_call = "connect" /\ open = 0 /\ open' = 1 /\ at_call' = "connecting"
  /\ UNCHANGED <<callVars, tries, left, leaked, executed, cursor, got, file, short, ret>>

(* inet_pton does not take the address; the socket is forgotten.           *)
BadAddress ==
  /\ at_call = "connecting" /\ ~address_ok /\ ReturnsWith("no_connection") /\ Leave
  /\ UNCHANGED <<callVars, executed, got, file, short>>

(* An option cannot be set, connect fails at once or times out.            *)
CannotConnect ==
  /\ at_call = "connecting" /\ address_ok /\ CallFails("no_connection")
  /\ UNCHANGED <<callVars, executed, got, file, short>>

LeftAfterRefusal == left - 1

(* A refused connection is tried again with a new socket.                  *)
Refused ==
  /\ at_call = "connecting" /\ address_ok
  /\ IF LeftAfterRefusal <= 0 THEN CallFails("no_connection")
     ELSE /\ left' = LeftAfterRefusal /\ open' = 0 /\ at_call' = "connect"
          /\ UNCHANGED <<tries, leaked, cursor, ret>>
  /\ UNCHANGED <<callVars, executed, got, file, short>>

Connected ==
  /\ at_call = "connecting" /\ address_ok /\ at_call' = "send"
  /\ UNCHANGED <<callVars, tries, left, open, leaked, executed, cursor, got, file, short, ret>>

-----------------------------------------------------------------------------
(* write_full_buffer: after a write that took i units the next one begins  *)
(* at the start of the buffer again.                                       *)
Takes(n)      == IF n = 0 THEN {0} ELSE 1..n
Written(s, i) == SubSeq(s, 1, i) \o SubSeq(s, 1, Len(s) - i)

(* The command is sent.  http_get calls send() itself and leaves the       *)
(* connection to whoever finds it when not all of it is taken.             *)
SendRequest ==
  /\ at_call = "send"
  /\ executed' = executed + 1
  /\ at_call' = CASE call = "send_file" -> "send_content" [] call = "http_get" -> "recv_header"
             [] call = "send_command" -> "recv_reply" [] OTHER -> "recv_length"
  /\ UNCHANGED <<callVars, tries, left, open, leaked, cursor, got, file, short, ret>>

CannotSend ==
  /\ at_call = "send" /\ ReturnsWith("not_sent")
  /\ IF call = "http_get" THEN Leave ELSE CloseConnection
  /\ UNCHANGED <<callVars, executed, got, file, short>>

-----------------------------------------------------------------------------
(* http_get: read until the header is there, and then the content.         *)
Room == BufferSize - 1 - cursor

Complete(n) == n = answer.length

Damaged(s) == IF answer.damaged /\ s # <<>> THEN [s EXCEPT ![Len(s)] = 0] ELSE s

(* The CRC tells whether a unit is damaged.                                *)
CrcFails(s) == 0 \in ToSet(s)

HttpDone(n) ==
  LET s == Damaged(Units(n))
  IN  /\ got' = s /\ cursor' = kHeader + n
      /\ at_call' = "returned" /\ ret' = (IF CrcFails(s) THEN "crc" ELSE "ok")
      /\ CloseConnection /\ UNCHANGED <<tries, left>>

(* n units come; all but the last read return less than there is room for. *)
ReadHttp == \E n \in 1..(kHeader + MaxContent + 1) :
  /\ at_call = "recv_header" /\ n <= Room
  /\ LET after == cursor + n
         more  == after - kHeader            \* units of the content
     IN  IF after < kHeader
         THEN /\ IF answer.header = "version" THEN CallFails("version")
                 ELSE IF after >= BufferSize - 1 THEN CallFails("no_room")
                 ELSE cursor' = after /\ UNCHANGED <<at_call, tries, left, open, leaked, ret>>
              /\ UNCHANGED got
         ELSE IF answer.header = "good" /\ Complete(more) THEN HttpDone(more)
         ELSE /\ UNCHANGED got
              /\ CASE answer.header = "version" -> CallFails("version")
                   [] answer.header = "garbage" -> CallFails("bad_response")
                   [] answer.header = "no_length" -> CallFails("no_length")
                   [] answer.header = "bad_length" ->
                        IF after >= BufferSize - 1 THEN CallFails("no_room")
                        ELSE cursor' = after /\ UNCHANGED <<at_call, tries, left, open, leaked, ret>>
                   [] answer.header = "good" /\ answer.length - more > Room - n ->
                        CallFails("no_room")
                   [] answer.header = "good" /\ answer.length < more -> CallFails("too_much")
                   [] OTHER -> cursor' = after /\ at_call' = "recv_rest"
                               /\ UNCHANGED <<tries, left, open, leaked, ret>>
  /\ UNCHANGED <<callVars, executed, file, short>>

(* recv_full_buffer for the rest.                                          *)
ReadRest ==
  /\ at_call = "recv_rest" /\ HttpDone(answer.length)
  /\ UNCHANGED <<callVars, executed, file, short>>

-----------------------------------------------------------------------------
(* recv_length_buffer and recv_file: the length, the content, the MD5.     *)
RecvLength ==
  /\ at_call = "recv_length"
  /\ IF call = "recv_length_buffer" /\ answer.length >= BufferSize
     THEN CallFails("too_large")
     ELSE at_call' = "recv_content" /\ UNCHANGED <<tries, left, open, leaked, cursor, ret>>
  /\ UNCHANGED <<callVars, executed, got, file, short>>

(* recv_file writes what it has received to a file.                        *)
RecvContent == \E took \in Takes(answer.length) :
  /\ at_call = "recv_content" /\ at_call' = "recv_md5"
  /\ got' = Damaged(Units(answer.length))
  /\ IF call = "recv_file"
     THEN file' = Written(got', took) /\ short' = (took < answer.length)
     ELSE UNCHANGED <<file, short>>
  /\ UNCHANGED <<callVars, tries, left, open, leaked, executed, cursor, ret>>

CannotWrite ==
  /\ at_call = "recv_content" /\ call = "recv_file" /\ CallFails("not_written")
  /\ got' = Damaged(Units(answer.length))
  /\ UNCHANGED <<callVars, executed, file, short>>

(* The MD5 of the lidar is of what it meant to send.                       *)
RecvMd5 ==
  /\ at_call = "recv_md5"
  /\ CallFails(IF got = Units(answer.length) THEN "ok" ELSE "md5")
  /\ UNCHANGED <<callVars, executed, got, file, short>>

-----------------------------------------------------------------------------
(* send_file: length, content, MD5, and the length the lidar has got.      *)
SendContent ==
  /\ at_call = "send_content" /\ at_call' = "recv_ack"
  /\ \E cut \in BOOLEAN : got' = IF cut THEN Front(content) ELSE content
  /\ UNCHANGED <<callVars, tries, left, open, leaked, executed, cursor, file, short, ret>>

RecvAck ==
  /\ at_call = "recv_ack" /\ CallFails(IF Len(got) = Len(content) THEN "ok" ELSE "ack")
  /\ UNCHANGED <<callVars, executed, got, file, short>>

-----------------------------------------------------------------------------
(* send_command_with_fd_v_ reads up to an empty line; an end before it is  *)
(* taken for one, if anything has come.                                    *)
RecvReply ==
  /\ at_call = "recv_reply" /\ cursor < answer.length /\ cursor < BufferSize
  /\ cursor' = cursor + 1 /\ got' = Units(cursor + 1)
  /\ UNCHANGED <<callVars, at_call, tries, left, open, leaked, executed, file, short, ret>>

ReplyEnds ==
  /\ at_call = "recv_reply"
  /\ \/ cursor = BufferSize /\ CallFails("too_long") /\ UNCHANGED got
     \/ cursor < BufferSize /\ cursor = 0 /\ CallFails("closed") /\ UNCHANGED got
     \/ cursor < BufferSize /\ cursor > 0 /\ CallFails("ok") /\ UNCHANGED got
  /\ UNCHANGED <<callVars, executed, file, short>>

(* Any other wait for the lidar ends with an error, a timeout or the end   *)
(* of the connection.                                                      *)
Waits == {"recv_header", "recv_rest", "recv_length", "recv_content", "recv_md5",
          "send_content", "recv_ack", "recv_reply"}
Breaks ==
  /\ at_call \in Waits /\ CallFails("broken")
  /\ UNCHANGED <<callVars, executed, got, file, short>>

(* What LidarClientCommunication makes of it: send_set_command_,           *)
(* send_get_command_, get_anglehv_table, and the calls that read a value.  *)
Fits == answer.length + (IF request.what = "table" THEN 0 ELSE 1) <= request.size

Told ==
  CASE ret # "ok" -> ret
    [] ret = "ok" /\ answer.status # 200 -> "unsuccessful"
    [] ret = "ok" /\ answer.status = 200 /\ request.what # "set" /\ ~Fits -> "too_big"
    [] ret = "ok" /\ answer.status = 200 /\ request.what = "value" /\ Fits /\ ~request.readable
         -> "unreadable"
    [] OTHER -> "ok"

TellResult ==
  /\ at_call = "returned" /\ call = "http_get" /\ at_call' = "told" /\ ret' = Told
  /\ UNCHANGED <<callVars, tries, left, open, leaked, executed, cursor, got, file, short>>

CallReturned == at_call = (IF call = "http_get" THEN "told" ELSE "returned") /\ UNCHANGED netVars

-----------------------------------------------------------------------------
GetConnection == NoSocket \/ MakeSocket \/ BadAddress \/ CannotConnect \/ Refused \/ Connected
Receive == ReadHttp \/ ReadRest \/ RecvLength \/ RecvContent \/ CannotWrite \/ RecvMd5
           \/ RecvReply \/ ReplyEnds \/ Breaks

Call == \/ GetConnection \/ SendRequest \/ CannotSend \/ SendContent \/ RecvAck
        \/ Receive \/ TellResult

NetNext == Call \/ CallReturned

NetSpec == NetInit /\ [][NetNext]_netVars

(* Waits have timeouts; a lidar takes what is sent to it.                  *)
FairNetSpec == NetSpec /\ WF_netVars(Call)

-----------------------------------------------------------------------------
NetTypeOK ==
  /\ call \in Calls /\ answer \in LidarAnswers /\ tries \in 1..Tries /\ left \in 0..Refusals
  /\ at_call \in Waits \cup {"connect", "connecting", "send", "returned", "told"}
  /\ open \in {0, 1} /\ leaked \in 0..Tries /\ executed \in 0..Tries /\ cursor \in Nat
  /\ got \in Seq(0..MaxContent) /\ file \in Seq(0..MaxContent) /\ short \in BOOLEAN

(* A call that succeeds has got what the lidar sent, whole and undamaged,  *)
(* however it came; a file that was received holds it, if no write took    *)
(* less than it was given; and a file that was sent has arrived.  A        *)
(* command that was answered was executed, and none more than twice.  No   *)
(* connection is left open, but by a bad address and by http_get when it   *)
(* cannot send.                                                            *)
AnswersAreWhole ==
  /\ ret = "ok" =>
       /\ executed >= 1
       /\ call \in {"http_get", "recv_length_buffer", "recv_file"} => got = Units(answer.length)
       /\ call = "recv_file" /\ ~short => file = got
       /\ call = "send_file" => got = content
       /\ at_call = "told" /\ request.what # "set" => Len(got) <= request.size
  /\ executed <= IF call = "send_command" THEN Tries ELSE 1
  /\ at_call = "returned" => open = 0
  /\ leaked > 0 => ~address_ok \/ (call = "http_get" /\ ret = "not_sent")

(* A call returns, whatever the lidar does, if it takes what is sent.      *)
CallReturns == <>(at_call \in {"returned", "told"})
=============================================================================
