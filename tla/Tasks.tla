------------------------------- MODULE Tasks -------------------------------
(***************************************************************************)
(* One Task object of tasks-comp: task_handle against the FreeRTOS tasks   *)
(* that run its loop.  One application task creates, suspends and          *)
(* notifies; it and the loops remove, line by line, and with an external   *)
(* stack a task runs before create() has stored its handle.  A failing     *)
(* xTaskCreate changes nothing and is left out.                            *)
(*                                                                         *)
(* A definition whose name ends in _<lowercase words> is a faulty variant  *)
(* of the one after it, kept to show that the properties notice.           *)
(***************************************************************************)
EXTENDS Naturals

CONSTANT MaxCreated  (* bound: tasks created *)

ASSUME TasksAssumption == MaxCreated \in Nat

AppTask == 0
TaskCallers == 0 .. MaxCreated  (* the application's task and the loops *)

VARIABLES
  task_handle,  (* 0 is NULL                                                 *)
  storing,      (* tasks whose handle xTaskCreateStatic has yet to return    *)
  removal,      (* of each caller: out of remove(), or the line it is before *)
  running,      (* tasks that exist                                          *)
  suspended,    (* those that are suspended                                  *)
  waiting,      (* those inside take() or notifyWait()                       *)
  notified,     (* those with a notification pending                         *)
  created,      (* tasks created so far: their numbers                       *)
  overwritten,  (* tasks whose handle create() has overwritten               *)
  raced,        (* tasks whose create() a remove() ran alongside             *)
  gone          (* tasks that have deleted themselves                        *)

handleVars == <<task_handle, storing, removal>>
kernelVars == <<running, suspended, waiting, notified, created>>
lostVars   == <<overwritten, raced, gone>>
taskVars   == <<handleVars, kernelVars, lostVars>>

TasksInit ==
  /\ task_handle = 0 /\ storing = {}
  /\ removal = [c \in TaskCallers |-> "out"]
  /\ running = {} /\ suspended = {} /\ waiting = {} /\ notified = {} /\ created = 0
  /\ overwritten = {} /\ raced = {} /\ gone = {}

\* the ones that can go on with their own code
Going(c) == \/ c = AppTask /\ removal[c] # "ended" /\ storing = {}
            \/ c \in running \ (suspended \cup waiting)

Idling(c) == Going(c) /\ removal[c] = "out"

Deleting == \E c \in TaskCallers : removal[c] = "delete"
Clearing == \E c \in TaskCallers : removal[c] = "clear"

-----------------------------------------------------------------------------
(* Creating.                                                               *)

NewTask ==
  /\ Idling(AppTask) /\ created < MaxCreated
  /\ created' = created + 1
  /\ running' = running \cup {created'}
  /\ raced' = IF Deleting \/ Clearing THEN raced \cup {created'} ELSE raced
  /\ UNCHANGED <<removal, suspended, waiting, notified, gone>>

SetHandle(h) ==
  /\ task_handle' = h
  /\ overwritten' = overwritten \cup ({task_handle} \cap running)

\* xTaskCreate sets the handle before the task can run
create ==
  /\ NewTask
  /\ SetHandle(created')
  /\ UNCHANGED storing

\* xTaskCreateStatic: the task runs, its handle is still to be returned
createStatic ==
  /\ NewTask
  /\ storing' = {created'}
  /\ UNCHANGED <<task_handle, overwritten>>

StoreHandle ==
  /\ \E t \in storing : SetHandle(t)
  /\ storing' = {}
  /\ UNCHANGED <<removal, kernelVars, raced, gone>>

\* no memory for the stack or the buffer and FreeRTOS without assertions:
\* NULL is stored over the old handle
createStaticFails ==
  /\ Idling(AppTask)
  /\ SetHandle(0)
  /\ UNCHANGED <<storing, removal, kernelVars, raced, gone>>

-----------------------------------------------------------------------------
(* Removing.                                                               *)

\* if (task_handle != NULL)
remove(c) ==
  /\ Idling(c)
  /\ removal' = [removal EXCEPT ![c] = IF task_handle = 0 THEN "clear" ELSE "delete"]
  /\ raced' = raced \cup storing
  /\ UNCHANGED <<task_handle, storing, kernelVars, overwritten, gone>>

\* vTaskDelete of the handle as it is now: NULL, and its own, mean the caller,
\* who does not return; a handle whose task is gone is undefined and left out
DeleteTask(c) ==
  /\ removal[c] = "delete" /\ Going(c)
  /\ task_handle \in running \cup {0}
  /\ LET victim == IF task_handle = 0 THEN c ELSE task_handle
     IN /\ running' = running \ {victim} /\ suspended' = suspended \ {victim}
        /\ waiting' = waiting \ {victim} /\ notified' = notified \ {victim}
        /\ removal' = IF victim = c THEN [removal EXCEPT ![c] = "ended"]
                       ELSE [removal EXCEPT ![c] = "clear", ![victim] = "ended"]
        /\ gone' = IF victim = c THEN gone \cup {c} ELSE gone
  /\ UNCHANGED <<task_handle, storing, created, overwritten, raced>>

ClearHandle_notDone(c) ==
  /\ removal[c] = "clear" /\ Going(c)
  /\ removal' = [removal EXCEPT ![c] = "out"]
  /\ UNCHANGED <<task_handle, storing, kernelVars, lostVars>>

\* task_handle = NULL
ClearHandle(c) ==
  /\ removal[c] = "clear" /\ Going(c)
  /\ task_handle' = 0
  /\ removal' = [removal EXCEPT ![c] = "out"]
  /\ UNCHANGED <<storing, kernelVars, lostVars>>

-----------------------------------------------------------------------------
(* Suspending and notifying, on a handle whose task exists.                *)

suspend ==
  /\ task_handle \in running
  /\ suspended' = suspended \cup {task_handle}
  /\ UNCHANGED <<handleVars, running, waiting, notified, created, lostVars>>

resume ==
  /\ task_handle \in running
  /\ suspended' = suspended \ {task_handle}
  /\ UNCHANGED <<handleVars, running, waiting, notified, created, lostVars>>

\* notify() and give()
notify ==
  /\ task_handle \in running
  /\ notified' = notified \cup {task_handle}
  /\ UNCHANGED <<handleVars, running, suspended, waiting, created, lostVars>>

\* take() and notifyWait(), called from the loop
Wait(t) ==
  /\ t \in running /\ Idling(t)
  /\ waiting' = waiting \cup {t}
  /\ UNCHANGED <<handleVars, running, suspended, notified, created, lostVars>>

\* the notification is cleared on the way out
Wake(t) ==
  /\ t \in waiting \cap notified /\ t \notin suspended
  /\ waiting' = waiting \ {t} /\ notified' = notified \ {t}
  /\ UNCHANGED <<handleVars, running, suspended, created, lostVars>>

TasksNext ==
  \/ create \/ createStatic \/ StoreHandle \/ createStaticFails
  \/ \E c \in TaskCallers : remove(c) \/ DeleteTask(c) \/ ClearHandle(c)
  \/ suspend \/ resume \/ notify
  \/ \E t \in running : Wait(t) \/ Wake(t)

(* Every task that runs the loop can be removed, or will be when its       *)
(* handle is stored, unless a create() was called over it or raced with a  *)
(* remove(); and the handle names a task that exists, save one that        *)
(* deleted itself, until a remove() has come to the line that clears it    *)
(* (Task::create, Task::remove).                                           *)
TasksAccounted ==
  /\ running \ ({task_handle} \cup storing) \subseteq overwritten \cup raced
  /\ task_handle \in running \cup gone \cup {0} \/ Clearing
=============================================================================
