------------------------------- MODULE Timers -------------------------------
(***************************************************************************)
(* A Timer object as a soft timer (esp_timer): how remove(), which stops   *)
(* and then deletes, meets a callback that starts the timer again.         *)
(* esp_timer runs its callbacks in a task of its own and refuses to delete *)
(* a timer that is armed, and to arm one that is.  The timer is used from  *)
(* create() on, by one application task besides the callback, which does   *)
(* not destroy a timer it has removed: the destructor removes it, and a    *)
(* second remove() would delete the handle of a deleted timer.             *)
(*                                                                         *)
(* A definition whose name ends in _<lowercase words> is a faulty variant  *)
(* of the one after it, kept to show that the properties notice.           *)
(***************************************************************************)
VARIABLES
  soft_handle,  (* unset, valid or deleted                                   *)
  armed,        (* no, once or periodic                                      *)
  inCallback,
  removing,     (* remove() has stopped the timer and not yet deleted it     *)
  rearmed       (* the callback has started it in the meantime               *)

timerVars == <<soft_handle, armed, inCallback, removing, rearmed>>

TimersInit ==
  /\ soft_handle = "unset" /\ armed = "no" /\ inCallback = FALSE
  /\ removing = FALSE /\ rearmed = FALSE

CreateTimer ==
  /\ soft_handle \in {"unset", "deleted"} /\ ~inCallback
  /\ soft_handle' = "valid" /\ armed' = "no" /\ rearmed' = FALSE
  /\ UNCHANGED <<inCallback, removing>>

Arm(kind) == armed' = IF armed = "no" THEN kind ELSE armed

StartSoft(periodic) ==
  /\ soft_handle = "valid" /\ ~removing
  /\ Arm(IF periodic THEN "periodic" ELSE "once")
  /\ UNCHANGED <<soft_handle, inCallback, removing, rearmed>>

StopSoft ==
  /\ soft_handle = "valid" /\ ~removing
  /\ armed' = "no"
  /\ UNCHANGED <<soft_handle, inCallback, removing, rearmed>>

Fire ==
  /\ armed # "no" /\ ~inCallback
  /\ inCallback' = TRUE
  /\ armed' = IF armed = "once" THEN "no" ELSE armed
  /\ UNCHANGED <<soft_handle, removing, rearmed>>

\* the callback may start the timer again
CallbackStarts ==
  /\ inCallback /\ soft_handle = "valid"
  /\ Arm("once")
  /\ rearmed' = (rearmed \/ removing)
  /\ UNCHANGED <<soft_handle, inCallback, removing>>

CallbackReturns ==
  /\ inCallback /\ inCallback' = FALSE
  /\ UNCHANGED <<soft_handle, armed, removing, rearmed>>

RemoveStops_notAtAll ==
  /\ soft_handle = "valid" /\ ~removing
  /\ removing' = TRUE /\ rearmed' = FALSE
  /\ UNCHANGED <<soft_handle, armed, inCallback>>

\* the first half of remove(): stop()
RemoveStops ==
  /\ soft_handle = "valid" /\ ~removing
  /\ armed' = "no" /\ removing' = TRUE /\ rearmed' = FALSE
  /\ UNCHANGED <<soft_handle, inCallback>>

\* the second: esp_timer_delete
RemoveDeletes ==
  /\ removing /\ removing' = FALSE
  /\ soft_handle' = IF armed = "no" THEN "deleted" ELSE soft_handle
  /\ UNCHANGED <<armed, inCallback, rearmed>>

TimersNext ==
  \/ CreateTimer \/ StopSoft \/ (\E periodic \in BOOLEAN : StartSoft(periodic))
  \/ Fire \/ CallbackStarts \/ CallbackReturns \/ RemoveStops \/ RemoveDeletes

(* remove() removes: once both its steps are done the timer is deleted and *)
(* never fires again, unless its callback started it between the two       *)
(* (Timer::remove).                                                        *)
RemoveRemoves ==
  /\ [][removing /\ ~removing' => soft_handle' = "deleted" \/ rearmed]_timerVars
  /\ [](soft_handle = "deleted" => armed = "no")
=============================================================================
