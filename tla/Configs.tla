------------------------------ MODULE Configs -------------------------------
(***************************************************************************)
(* Config and ConfigManager (utils/config.cpp): the settings of the stages *)
(* of a lidar.  What the application sets is kept by the manager and given *)
(* to the configuration of a stage, at once or when the stage is made; the *)
(* stage works on a copy it takes while others set.  Reading and           *)
(* connecting stages live as long as the lidar, the deliver stage from a   *)
(* start to a stop.  The driver sets a list of pairs before it starts the  *)
(* lidar (driver_lidar.cc).  Each stage has one key here.                  *)
(***************************************************************************)
EXTENDS Integers, Sequences

CONSTANTS
  Pairs,       (* lists of pairs the driver is given                         *)
  MaxSets      (* bound: calls of set_config_key_value by the application    *)

StageTypes   == {"deliver", "read", "comm"}
Numbers      == {"one", "two"}
ConfigValues == Numbers \cup {"text"}   \* a text where a number is wanted
PairSet      == [type : StageTypes, known : BOOLEAN, value : ConfigValues]

ConfigAssumption == Pairs \subseteq Seq(PairSet) /\ MaxSets \in Nat

VARIABLES
  base, copy_,   (* config_base_ and config_ of each stage                   *)
  configs,       (* configs_: the stages that are there                      *)
  had,           (* and those that have been                                 *)
  history,       (* history_: of each stage what was set last                *)
  setter,        (* the call that holds the mutex of the manager             *)
  copied,        (* the deliver stage has taken its copy                     *)
  pairs, sets,   (* what the driver has left to set; the application's calls *)
  asked_for      (* of each stage the last value, if it was a number         *)

configVars == <<base, copy_, configs, had, history, setter, copied, pairs, sets, asked_for>>

DefaultConfig == [value |-> "default", version |-> 0]
NoSetter      == [step |-> "idle", type |-> "none", value |-> "none", by |-> "none"]

ConfigInit ==
  /\ base = [t \in StageTypes |-> DefaultConfig] /\ copy_ = [t \in StageTypes |-> DefaultConfig]
  /\ configs = {"read", "comm"} /\ had = configs
  /\ history = [t \in StageTypes |-> "none"] /\ asked_for = history
  /\ setter = NoSetter /\ copied = FALSE /\ pairs \in Pairs /\ sets = 0

MutexIsFree == setter = NoSetter

-----------------------------------------------------------------------------
(* What set_config_key_value returns, but for the call that goes on:       *)
(* applied later, applied by nobody, or refused.  Stages other than the    *)
(* deliver stage take a key they do not know.                              *)
SetResult(p) ==
  CASE p.type \notin had -> -2
    [] p.type \notin configs -> 0
    [] p.value \notin Numbers -> -1
    [] ~p.known -> IF p.type = "deliver" THEN -1 ELSE 0
    [] OTHER -> 1

(* The driver gives up a list at the first pair that does not return zero. *)
Remaining(by, result) ==
  IF by # "driver" THEN pairs ELSE IF result = 0 THEN Tail(pairs) ELSE <<>>

Remember(p) ==
  IF p.known
  THEN /\ history' = [history EXCEPT ![p.type] = p.value]
       /\ asked_for' = [asked_for EXCEPT ![p.type] = IF p.value \in Numbers THEN p.value ELSE "none"]
  ELSE UNCHANGED <<history, asked_for>>

VersionSet(c) == [c EXCEPT !.version = @ + 1]

(* ConfigManager::set_config_key_value, begun.                             *)
SetConfig(p, by) ==
  /\ MutexIsFree
  /\ Remember(p)
  /\ IF SetResult(p) = 1
     THEN setter' = [step |-> "field", type |-> p.type, value |-> p.value, by |-> by]
          /\ UNCHANGED <<base, pairs>>
     ELSE /\ pairs' = Remaining(by, SetResult(p))
          /\ base' = IF p.type \in configs /\ SetResult(p) = 0
                     THEN [base EXCEPT ![p.type] = VersionSet(@)] ELSE base
          /\ UNCHANGED setter
  /\ UNCHANGED <<copy_, configs, had, copied>>

DriverSets == pairs # <<>> /\ SetConfig(Head(pairs), "driver") /\ UNCHANGED sets
ApplicationSets ==
  /\ pairs = <<>> /\ sets < MaxSets /\ sets' = sets + 1
  /\ \E p \in PairSet : SetConfig(p, "app")

(* Config::set_key_value: the field, and in a step of its own the version. *)
SetKeyValue ==
  /\ ~MutexIsFree
  /\ \/ /\ setter.step = "field" /\ base' = [base EXCEPT ![setter.type].value = setter.value]
        /\ setter' = [setter EXCEPT !.step = "version"] /\ UNCHANGED pairs
     \/ /\ setter.step = "version" /\ base' = [base EXCEPT ![setter.type] = VersionSet(@)]
        /\ setter' = NoSetter /\ pairs' = Remaining(setter.by, 0)
  /\ UNCHANGED <<copy_, configs, had, history, copied, sets, asked_for>>

-----------------------------------------------------------------------------
(* Mutant of Replay: what was set before is not applied.                   *)
NoReplay(v) == NoSetter
Replay(v) == IF v \in Numbers THEN [step |-> "field", type |-> "deliver", value |-> v, by |-> "replay"]
             ELSE NoSetter

(* The deliver stage is made: add_config.                                  *)
AddConfig ==
  /\ pairs = <<>> /\ "deliver" \notin configs /\ MutexIsFree
  /\ configs' = configs \cup {"deliver"} /\ had' = had \cup {"deliver"} /\ copied' = FALSE
  /\ base' = [base EXCEPT !["deliver"] = DefaultConfig]
  /\ copy_' = [copy_ EXCEPT !["deliver"] = DefaultConfig]
  /\ setter' = Replay(history["deliver"])
  /\ UNCHANGED <<history, pairs, sets, asked_for>>

(* remove_config, when it is deleted.                                      *)
RemoveConfig ==
  /\ "deliver" \in configs /\ copied /\ MutexIsFree /\ configs' = configs \ {"deliver"}
  /\ UNCHANGED <<base, copy_, had, history, setter, copied, pairs, sets, asked_for>>

(* A stage takes its copy, the deliver stage when it is made and the       *)
(* replay is done, the others with each job and each request.              *)
CopyFromSrc(t) ==
  /\ t \in configs /\ (t = "deliver" => ~copied /\ setter.by # "replay")
  /\ copy_' = [copy_ EXCEPT ![t] = IF base[t].version # @.version THEN base[t] ELSE @]
  /\ copied' = (copied \/ t = "deliver")
  /\ UNCHANGED <<base, configs, had, history, setter, pairs, sets, asked_for>>

-----------------------------------------------------------------------------
ConfigNext ==
  \/ DriverSets \/ ApplicationSets \/ SetKeyValue \/ AddConfig \/ RemoveConfig
  \/ \E t \in StageTypes : CopyFromSrc(t)

ConfigSpec == ConfigInit /\ [][ConfigNext]_configVars

-----------------------------------------------------------------------------
(* A copy of the version of its original has the values of its original,   *)
(* whenever it was taken; so none stays behind for good.                   *)
CopiesFollow ==
  \A t \in configs :
    copy_[t].version = base[t].version /\ ~(setter.type = t /\ setter.step = "version")
    => copy_[t].value = base[t].value

(* What was set last is what a stage has, now and after the next start,    *)
(* also if there was no stage yet; unless it was no number, in which case  *)
(* the value before is lost with the next start.                           *)
SettingsAreKept ==
  MutexIsFree => \A t \in configs : asked_for[t] \in Numbers => base[t].value = asked_for[t]

ConfigsAreSound == CopiesFollow /\ SettingsAreKept
=============================================================================
