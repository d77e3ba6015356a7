------------------------------- MODULE AwsIot -------------------------------
(***************************************************************************)
(* AwsIoT: its internal task yields to the SDK client under                *)
(* yieldSemaphore, and the application's tasks call into the same client.  *)
(* Their takes are bounded, the result is not looked at, and what was not  *)
(* taken is given back all the same.  The tests call init() once, before   *)
(* anything else.                                                          *)
(*                                                                         *)
(* A definition whose name ends in _<lowercase words> is a faulty variant  *)
(* of the one after it, kept to show that the properties notice.           *)
(***************************************************************************)
EXTENDS Naturals

CONSTANTS
  Callers,       (* tasks of the application                                 *)
  internalTask,
  Nobody

ASSUME AwsAssumption == internalTask \notin Callers /\ Nobody \notin Callers \cup {internalTask}

VARIABLES
  awsState,      (* none, failed (no internal task) or running               *)
  awsPc,         (* idle, take, use (inside the SDK), give                   *)
  awsCall,       (* the operation each caller is in                          *)
  inTime,        (* whether the last take of each caller succeeded           *)
  yieldSemaphore,(* its holder                                               *)
  last_status,
  asserted       (* FreeRTOS has stopped the chip                            *)

awsVars == <<awsState, awsPc, awsCall, inTime, yieldSemaphore, last_status, asserted>>

AwsUsers == Callers \cup {internalTask}
AwsCalls == {"connect", "autoReconnect", "subscribe", "publish", "updateShadow", "status"}

AwsInit ==
  /\ awsState = "none" /\ asserted = FALSE
  /\ awsPc = [t \in AwsUsers |-> "idle"]
  /\ awsCall = [t \in Callers |-> "status"]
  /\ inTime = [t \in Callers |-> TRUE]
  /\ yieldSemaphore = Nobody
  /\ last_status \in {"success", "error"}  \* never initialised

\* the task starts whether or not anybody will connect
InitClient(ok) ==
  /\ awsState = "none"
  /\ awsState' = IF ok THEN "running" ELSE "failed"
  /\ awsPc' = [awsPc EXCEPT ![internalTask] = IF ok THEN "take" ELSE "idle"]
  /\ UNCHANGED <<awsCall, inTime, yieldSemaphore, last_status, asserted>>

Locked_publishForgotten(op) == op \in {"subscribe", "updateShadow", "status"}

\* connect() and autoReconnect() go straight to the SDK
Locked(op) == op \in {"subscribe", "publish", "updateShadow", "status"}

Call(t, op) ==
  /\ awsState # "none" /\ ~asserted /\ awsPc[t] = "idle"
  /\ awsCall' = [awsCall EXCEPT ![t] = op]
  /\ inTime' = [inTime EXCEPT ![t] = TRUE]
  /\ awsPc' = [awsPc EXCEPT ![t] = IF Locked(op) THEN "take" ELSE "use"]
  /\ UNCHANGED <<awsState, yieldSemaphore, last_status, asserted>>

\* status() only waits for its turn
Take(t) ==
  /\ ~asserted /\ awsPc[t] = "take" /\ yieldSemaphore = Nobody
  /\ yieldSemaphore' = t
  /\ awsPc' = [awsPc EXCEPT ![t] = IF t \in Callers /\ awsCall[t] = "status"
                                     THEN "give" ELSE "use"]
  /\ UNCHANGED <<awsState, awsCall, inTime, last_status, asserted>>

\* only status() looks at the result
TakeTimesOut(t) ==
  /\ ~asserted /\ awsPc[t] = "take" /\ yieldSemaphore # Nobody
  /\ inTime' = [inTime EXCEPT ![t] = FALSE]
  /\ awsPc' = [awsPc EXCEPT ![t] = IF awsCall[t] = "status" THEN "idle" ELSE "use"]
  /\ UNCHANGED <<awsState, awsCall, yieldSemaphore, last_status, asserted>>

SdkReturns(t) ==
  /\ ~asserted /\ t \in Callers /\ awsPc[t] = "use"
  /\ awsPc' = [awsPc EXCEPT ![t] = IF Locked(awsCall[t]) THEN "give" ELSE "idle"]
  /\ UNCHANGED <<awsState, awsCall, inTime, yieldSemaphore, last_status, asserted>>

aws_iot_task_returnsEarly(rc) ==
  /\ ~asserted /\ awsPc[internalTask] = "use"
  /\ last_status' = rc
  /\ awsPc' = [awsPc EXCEPT ![internalTask] = IF rc = "error" THEN "take" ELSE "give"]
  /\ UNCHANGED <<awsState, awsCall, inTime, yieldSemaphore, asserted>>

\* the yield returns
aws_iot_task(rc) ==
  /\ ~asserted /\ awsPc[internalTask] = "use"
  /\ last_status' = rc
  /\ awsPc' = [awsPc EXCEPT ![internalTask] = "give"]
  /\ UNCHANGED <<awsState, awsCall, inTime, yieldSemaphore, asserted>>

\* a mutex that is free may be given by anybody, to no effect; one that is
\* held only by its holder
Give(t) ==
  /\ ~asserted /\ awsPc[t] = "give"
  /\ awsPc' = [awsPc EXCEPT ![t] = IF t = internalTask THEN "take" ELSE "idle"]
  /\ asserted' = (yieldSemaphore \notin {t, Nobody})
  /\ yieldSemaphore' = IF asserted' THEN yieldSemaphore ELSE Nobody
  /\ UNCHANGED <<awsState, awsCall, inTime, last_status>>

AwsNext ==
  \/ \E ok \in BOOLEAN : InitClient(ok)
  \/ \E t \in Callers :
       \/ \E op \in AwsCalls : Call(t, op)
       \/ TakeTimesOut(t) \/ SdkReturns(t)
  \/ \E rc \in {"success", "error"} : aws_iot_task(rc)
  \/ \E t \in AwsUsers : Take(t) \/ Give(t)

\* SDK calls return, and the internal task's priority gets it the mutex in
\* the end
AwsFairness ==
  /\ SF_awsVars(Take(internalTask))
  /\ WF_awsVars(\E rc \in {"success", "error"} : aws_iot_task(rc))
  /\ \A t \in AwsUsers : WF_awsVars(SdkReturns(t)) /\ WF_awsVars(Give(t))

-----------------------------------------------------------------------------
(* Properties.                                                             *)

(* Two tasks are inside the SDK client at once only if one of them went in *)
(* without asking (connect, autoReconnect) or after its take had timed out *)
(* (subscribe, publish, updateShadow, aws_iot_task).                       *)
OneUser ==
  \A s, t \in AwsUsers :
    (s # t /\ awsPc[s] = "use" /\ awsPc[t] = "use") =>
      \E u \in {s, t} \cap Callers : awsCall[u] \in {"connect", "autoReconnect"} \/ ~inTime[u]

(* Once it runs, the internal task yields to the client again and again,   *)
(* whatever the callers do and whatever the SDK answers, unless a mutex    *)
(* given by a task that does not hold it has stopped the chip.             *)
YieldsGoOn == [](awsState = "running" => <>(asserted \/ awsPc[internalTask] = "use"))
=============================================================================
