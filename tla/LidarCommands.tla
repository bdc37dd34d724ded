--------------------------- MODULE LidarCommands ---------------------------
(***************************************************************************)
(* LidarCommunication (sdk_common/lidar_communication.cpp): commands to    *)
(* the lidar over one object that threads share.  Its requests are those   *)
(* of NetManager; here a request is asked, answered after some time or not *)
(* at all, and asked again once.  Shared are the default timeout, which    *)
(* commands change for themselves, the counters of get_status, and the     *)
(* descriptor of the stream.  Nothing in the repository makes such an      *)
(* object; the callers are those of its interface.                         *)
(***************************************************************************)
EXTENDS Integers, FiniteSets

CONSTANTS
  Callers,
  MaxCalls,      (* bound: calls of all threads                              *)
  CounterWrap,   (* bound: values of a counter of losses, 2^32 in the code   *)
  MaxLose        (* bound: losses of the lidar                               *)

CommandAssumption ==
  /\ IsFiniteSet(Callers) /\ MaxCalls \in Nat
  /\ CounterWrap \in Nat \ {0} /\ MaxLose \in Nat

(* One command of each kind: those that take their own time, those that    *)
(* answer with text, a plain one, and the two that do more.                *)
Commands == {"set_config_section_key_value", "set_mode", "get_reply_info_", "reg_read",
             "get_status", "get_frame_rate"}

(* Timeouts in steps of 0.5 seconds.                                       *)
kDefaultTimeoutSec == 1
InitialTimeout     == 2      \* timeout_sec of the constructor
SetTimeout == [c \in Commands |-> CASE c = "set_config_section_key_value" -> 4
                                    [] c = "set_mode" -> 10 [] OTHER -> 0]

Modes == {"normal", "calibration", "protection"}

Idle == [cmd |-> "none", step |-> "none", used |-> 0, tries |-> 0, answer |-> "none",
         lose |-> 0, alone |-> TRUE, in_time |-> TRUE, seen |-> {}]

VARIABLES
  timeout,     (* default_timeout_sec_                                       *)
  commanded,       (* mode, lastmode and losses of the lidar                     *)
  counters,    (* first_ and last_ctrlor_lose_1_, get_status_called_cnt_     *)
  told,        (* the sum of the differences that get_status has returned    *)
  commands,          (* the call of each thread                                    *)
  calls, lowered, \* lowered: something has put the timeout to its default
  result,      (* the last call that returned                                *)
  streaming       (* streaming_fd_ and the descriptors that are open            *)

commandVars == <<timeout, commanded, counters, told, commands, calls, lowered, result, streaming>>

NoResult  == [cmd |-> "none", ok |-> TRUE, due |-> FALSE, section |-> "none", seen |-> {}]
NoStream  == [step |-> "closed", fd |-> 0, open |-> {}]

CommandInit ==
  /\ timeout = InitialTimeout /\ counters = [first |-> 0, last |-> 0, called |-> 0] /\ told = 0
  /\ commanded = [mode |-> "normal", lastmode |-> "normal", lose |-> 0]
  /\ commands = [t \in Callers |-> Idle] /\ calls = 0 /\ lowered = FALSE
  /\ result = NoResult /\ streaming = NoStream

Busy(t) == commands[t].cmd # "none"

-----------------------------------------------------------------------------
(* The lidar loses data.                                                   *)
Lose ==
  /\ commanded.lose < MaxLose /\ \E t \in Callers : commands[t].cmd = "get_status"
  /\ commanded' = [commanded EXCEPT !.lose = @ + 1]
  /\ UNCHANGED <<timeout, counters, told, commands, calls, lowered, result, streaming>>

FirstStep(c) == IF c = "get_frame_rate" THEN "get_model" ELSE c

(* A call begins; from here on no other call is alone.                     *)
Begin(t, c) ==
  /\ ~Busy(t) /\ calls < MaxCalls /\ streaming = NoStream
  /\ calls' = calls + 1
  /\ LET others == {u \in Callers : Busy(u)}
     IN  commands' = [u \in Callers |->
                  IF u = t THEN [Idle EXCEPT !.cmd = c, !.step = FirstStep(c),
                                             !.alone = others = {}, !.seen = {commanded.mode}]
                  ELSE IF u \in others THEN [commands[u] EXCEPT !.alone = FALSE] ELSE commands[u]]
  /\ timeout' = IF SetTimeout[c] > 0 THEN SetTimeout[c] ELSE timeout
  /\ UNCHANGED <<commanded, counters, told, lowered, result, streaming>>

(* The request goes out, with the timeout that stands there.               *)
SendCommand(t) ==
  /\ Busy(t) /\ commands[t].used = 0
  /\ commands' = [commands EXCEPT ![t].used = timeout, ![t].tries = @ + 1]
  /\ UNCHANGED <<timeout, commanded, counters, told, calls, lowered, result, streaming>>

(* Mutant of Reported: lastmode is read for mode.                          *)
ReportedLast(m) == m.lastmode
Reported(m) == m.mode

ReplyContent(t) ==
  CASE commands[t].step = "get_mode" -> Reported(commanded)
    [] commands[t].step \in {"galvo_framerate_quiet_mode", "galvo_framerate_motor",
                       "galvo_framerate_calibration_mode"} -> commands[t].step
    [] OTHER -> "done"

(* The lidar does what it is asked, and answers after a while.             *)
Execute(t, duration) ==
  /\ Busy(t) /\ commands[t].used > 0 /\ commands[t].answer = "none"
  /\ LET modes == IF commands[t].step = "set_mode" THEN Modes ELSE {commanded.mode}
     IN \E m \in modes :
        /\ commanded' = [commanded EXCEPT !.mode = m,
                                           !.lastmode = IF m # commanded.mode
                                                        THEN commanded.mode ELSE @]
        /\ commands' = [u \in Callers |->
             IF u # t
             THEN IF Busy(u) THEN [commands[u] EXCEPT !.seen = @ \cup {m}] ELSE commands[u]
             ELSE IF duration <= commands[t].used
             THEN [commands[t] EXCEPT !.answer = ReplyContent(t),
                                      !.lose = commanded.lose % CounterWrap, !.seen = @ \cup {m}]
             ELSE [commands[t] EXCEPT !.used = 0, !.seen = @ \cup {m},
                     !.answer = IF commands[t].tries < 2 THEN "none" ELSE "lost",
                     !.in_time = @ /\ duration <= SetTimeout[commands[t].cmd]]]
  /\ UNCHANGED <<timeout, counters, told, calls, lowered, result, streaming>>

-----------------------------------------------------------------------------
(* A call returns.  A set puts the timeout to its default whatever came    *)
(* of it, a query for text does when it has an answer.                     *)
LowersTimeout(c, answered) == SetTimeout[c] > 0 \/ (c = "get_reply_info_" /\ answered)

CommandReturns(t, ok, section) ==
  LET c == commands[t].cmd
  IN  /\ commands' = [commands EXCEPT ![t] = Idle]
      /\ IF LowersTimeout(c, commands[t].answer # "lost")
         THEN timeout' = kDefaultTimeoutSec /\ lowered' = TRUE
         ELSE UNCHANGED <<timeout, lowered>>
      /\ result' = [cmd |-> c, ok |-> ok,
                    due |-> commands[t].alone /\ commands[t].in_time /\ SetTimeout[c] > 0,
                    section |-> section, seen |-> commands[t].seen]
      /\ UNCHANGED <<commanded, calls, streaming>>

CommandFails(t) ==
  /\ commands[t].answer = "lost" /\ CommandReturns(t, FALSE, "none") /\ UNCHANGED <<counters, told>>

Succeeds(t) ==
  /\ commands[t].cmd \in {"set_config_section_key_value", "set_mode", "get_reply_info_", "reg_read"}
  /\ commands[t].answer = "done" /\ CommandReturns(t, TRUE, "none") /\ UNCHANGED <<counters, told>>

RememberedCounters(c, lose, get_diff) ==
  IF c.called = 0 THEN [c EXCEPT !.first = lose, !.last = lose]
  ELSE IF get_diff THEN [c EXCEPT !.last = lose] ELSE c

(* get_status, under the mutex: the counter, or how much it has grown.     *)
GotStatus(t, get_diff) ==
  /\ commands[t].cmd = "get_status" /\ commands[t].answer = "done"
  /\ LET lose == commands[t].lose
         last == IF counters.called = 0 THEN lose ELSE counters.last
     IN  /\ counters' = [RememberedCounters(counters, lose, get_diff) EXCEPT !.called = @ + 1]
         /\ told' = IF get_diff THEN (told + lose - last) % CounterWrap ELSE told
  /\ CommandReturns(t, TRUE, "none")

-----------------------------------------------------------------------------
(* get_mode_section                                                        *)
get_mode_section(m) ==
  CASE m = "normal" -> "galvo_framerate_motor"
    [] m = "calibration" -> "galvo_framerate_calibration_mode"
    [] m = "protection" -> "galvo_framerate_quiet_mode"

NextRequest(t, step) ==
  /\ commands' = [commands EXCEPT ![t].step = step, ![t].used = 0, ![t].tries = 0,
                                  ![t].answer = "none"]
  /\ UNCHANGED <<timeout, commanded, counters, told, calls, lowered, result, streaming>>

(* get_frame_rate: some models tell it at once, of the others it is in the *)
(* section of their mode, which for one mode must be asked for too.        *)
FrameRate(t) ==
  /\ commands[t].cmd = "get_frame_rate" /\ commands[t].answer \notin {"none", "lost"}
  /\ \/ /\ commands[t].step = "get_model"
        /\ \E s \in {"get_frame_rate", "get_mode"} : NextRequest(t, s)
     \/ /\ commands[t].step = "get_mode"
        /\ NextRequest(t, IF commands[t].answer = "calibration" THEN "calibration_mode_id"
                          ELSE get_mode_section(commands[t].answer))
     \/ commands[t].step = "calibration_mode_id" /\ NextRequest(t, get_mode_section("calibration"))
     \/ /\ commands[t].step \in {"get_frame_rate"} \cup {get_mode_section(m) : m \in Modes}
        /\ CommandReturns(t, TRUE, IF commands[t].step = "get_frame_rate" THEN "none"
                                   ELSE commands[t].step)
        /\ UNCHANGED <<counters, told>>

-----------------------------------------------------------------------------
(* The stream, by the thread that owns it: opened, started, closed.  That  *)
(* it is open or closed as it must be is verified.  Bound: no commands     *)
(* are given meanwhile.                                                    *)
StreamStep(from, to) ==
  /\ calls = 0 /\ streaming.step = from
  /\ streaming' = to
  /\ UNCHANGED <<timeout, commanded, counters, told, commands, calls, lowered, result>>

open_streaming ==
  \/ StreamStep("closed", [streaming EXCEPT !.step = "opened", !.fd = 3, !.open = {3}])
  \/ StreamStep("closed", [streaming EXCEPT !.fd = 0])

Closed(s) == [s EXCEPT !.step = "closed", !.fd = 0, !.open = IF s.fd > 0 THEN @ \ {s.fd} ELSE @]

start_streaming == StreamStep("opened", [streaming EXCEPT !.step = "started"])
close_streaming == streaming.step # "closed" /\ StreamStep(streaming.step, Closed(streaming))

-----------------------------------------------------------------------------
CommandNext ==
  \/ Lose
  \/ \E t \in Callers :
       \/ \E c \in Commands : Begin(t, c)
       \/ SendCommand(t)
       \/ \E duration \in {1, 3, 11} : Execute(t, duration)
       \/ CommandFails(t) \/ Succeeds(t) \/ FrameRate(t)
       \/ \E get_diff \in BOOLEAN : GotStatus(t, get_diff)
  \/ open_streaming \/ start_streaming \/ close_streaming

CommandSpec == CommandInit /\ [][CommandNext]_commandVars

-----------------------------------------------------------------------------
(* Whoever changes the default timeout meanwhile, once no command is under *)
(* way that raised it, it is the default again.                            *)
TimeoutComesBack ==
  lowered /\ (\A t \in Callers : Busy(t) => SetTimeout[commands[t].cmd] = 0)
    => timeout = kDefaultTimeoutSec

(* A command that changes something is given its own time, if no other     *)
(* thread calls meanwhile: one may take that time away.                    *)
SlowAnswersAreAwaited == result.due => result.ok

(* The differences of get_status add up to what was lost since the first,  *)
(* in whatever order answers are taken, and when the counter wraps around. *)
DifferencesAddUp ==
  counters.called > 0 => (counters.first + told) % CounterWrap = counters.last

(* A frame rate is that of a mode the lidar had while it was asked for.    *)
RateIsOfAMode ==
  result.section # "none" => \E m \in result.seen : result.section = get_mode_section(m)

(* No descriptor of a stream stays open when the stream is closed.         *)
StreamIsClosed == streaming.open = IF streaming.fd > 0 THEN {streaming.fd} ELSE {}

CommandsAreSound ==
  TimeoutComesBack /\ SlowAnswersAreAwaited /\ DifferencesAddUp /\ RateIsOfAMode /\ StreamIsClosed
=============================================================================
