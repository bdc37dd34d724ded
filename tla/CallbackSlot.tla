---------------------------- MODULE CallbackSlot ----------------------------
(***************************************************************************)
(* The place of the recorder's callback and of its context (InnoLidarBase, *)
(* sdk_common/lidar_base.h): threads of the application set it, the        *)
(* recorder of the read stage calls it, without the lock that guards the   *)
(* place, and clears it when it fails.                                     *)
(***************************************************************************)
EXTENDS Naturals

CONSTANTS
  Setters,    \* threads that set a callback, each its own with its own context
  Recorders,  \* threads that call it: the SDK has one, the recorder thread
  MaxSlotSets \* bound: calls of set_recorder_callback

SlotAssumption == MaxSlotSets \in Nat /\ "none" \notin Setters

VARIABLES
  recorder_callbacks_,         \* the setter whose callback it is, or "none"
  recorder_callbacks_context_, \* the setter whose context it is, or "none"
  slot_lock,                   \* the setter between its two assignments, or "none"
  accepted,                    \* callbacks that were set and have not failed
  slot_sets,
  slot_at,                     \* slot_at[r]: what recorder r is about to do
  copied_callback,             \* copied_callback[r]: what it copied under the lock
  called                       \* history: callbacks called with a context not theirs

slotVars == <<recorder_callbacks_, recorder_callbacks_context_, slot_lock, accepted, slot_sets,
              slot_at, copied_callback, called>>

SlotInit ==
  /\ recorder_callbacks_ = "none" /\ recorder_callbacks_context_ = "none" /\ slot_lock = "none"
  /\ accepted = {} /\ slot_sets = 0 /\ called = {}
  /\ slot_at = [r \in Recorders |-> "test"] /\ copied_callback = [r \in Recorders |-> "none"]

(* set_recorder_callback: one that is set is not replaced.                 *)
SetCallback(s) ==
  /\ slot_lock = "none" /\ slot_sets < MaxSlotSets /\ slot_sets' = slot_sets + 1
  /\ IF recorder_callbacks_ # "none" THEN UNCHANGED <<recorder_callbacks_, slot_lock, accepted>>
     ELSE recorder_callbacks_' = s /\ slot_lock' = s /\ accepted' = accepted \cup {s}
  /\ UNCHANGED <<recorder_callbacks_context_, slot_at, copied_callback, called>>

SetContext(s) ==
  /\ slot_lock = s
  /\ recorder_callbacks_context_' = s /\ slot_lock' = "none"
  /\ UNCHANGED <<recorder_callbacks_, accepted, slot_sets, slot_at, copied_callback, called>>

(* do_recorder_callback: tested without the lock, copied with it; called   *)
(* with the context as it is then; cleared if it fails.                    *)
TestCallback(r) ==
  /\ slot_at[r] = "test" /\ recorder_callbacks_ # "none"
  /\ slot_at' = [slot_at EXCEPT ![r] = "copy"]
  /\ UNCHANGED <<recorder_callbacks_, recorder_callbacks_context_, slot_lock, accepted, slot_sets,
                 copied_callback, called>>

CopyCallback(r) ==
  /\ slot_at[r] = "copy" /\ slot_lock = "none"
  /\ copied_callback' = [copied_callback EXCEPT ![r] = recorder_callbacks_]
  /\ slot_at' = [slot_at EXCEPT ![r] = IF recorder_callbacks_ = "none" THEN "test" ELSE "call"]
  /\ UNCHANGED <<recorder_callbacks_, recorder_callbacks_context_, slot_lock, accepted, slot_sets, called>>

CallCallback(r, fails) ==
  /\ slot_at[r] = "call"
  /\ called' = IF recorder_callbacks_context_ = copied_callback[r] THEN called
               ELSE called \cup {copied_callback[r]}
  /\ slot_at' = [slot_at EXCEPT ![r] = IF fails THEN "clear" ELSE "test"]
  /\ accepted' = IF fails THEN accepted \ {copied_callback[r]} ELSE accepted
  /\ UNCHANGED <<recorder_callbacks_, recorder_callbacks_context_, slot_lock, slot_sets, copied_callback>>

ClearCallback(r) ==
  /\ slot_at[r] = "clear" /\ slot_lock = "none"
  /\ recorder_callbacks_' = "none" /\ recorder_callbacks_context_' = "none"
  /\ slot_at' = [slot_at EXCEPT ![r] = "test"]
  /\ UNCHANGED <<slot_lock, accepted, slot_sets, copied_callback, called>>

SlotNext ==
  \/ \E s \in Setters : SetCallback(s) \/ SetContext(s)
  \/ \E r \in Recorders : \/ TestCallback(r) \/ CopyCallback(r) \/ ClearCallback(r)
                          \/ \E fails \in BOOLEAN : CallCallback(r, fails)

SlotSpec == SlotInit /\ [][SlotNext]_slotVars

-----------------------------------------------------------------------------
(* A callback is called with the context it was set with, and one that was *)
(* accepted stays until it fails itself: the failure of another does not   *)
(* clear it.  Both need that only one thread calls it.                     *)
CallbacksStay ==
  /\ called = {}
  /\ \A s \in accepted : recorder_callbacks_ = s
=============================================================================
