-------------------------------- MODULE Sntp --------------------------------
(***************************************************************************)
(* SNTP: the SDK marks a synchronisation as completed and then calls back, *)
(* which gives the one binary semaphore of all objects; syncWait takes it  *)
(* and then asks for the status, which forgets a completion it reports,    *)
(* also when it is asked only for a log line after a timeout.              *)
(*                                                                         *)
(* A definition whose name ends in _<lowercase words> is a faulty variant  *)
(* of the one after it, kept to show that the properties notice.           *)
(***************************************************************************)
EXTENDS Naturals

CONSTANTS
  Waiters,   (* tasks that call syncWait                                     *)
  MaxSyncs   (* bound: synchronisations                                      *)

ASSUME SntpAssumption == MaxSyncs \in Nat

VARIABLES
  semaphore,  (* none, empty, full or deleted                                *)
  starting,   (* init() has started the client and not yet emptied it        *)
  completed,  (* the SDK's sync status is COMPLETED                          *)
  notifying,  (* the SDK has set it and is about to call back                *)
  sntpPc,     (* idle, wait, taken or timedOut                               *)
  syncs,      (* synchronisations so far                                     *)
  trues       (* times syncWait has returned true                            *)

sntpVars == <<semaphore, starting, completed, notifying, sntpPc, syncs, trues>>

SntpInit ==
  /\ semaphore = "none" /\ starting = FALSE /\ completed = FALSE /\ notifying = FALSE
  /\ sntpPc = [t \in Waiters |-> "idle"] /\ syncs = 0 /\ trues = 0

\* again it does nothing, also after the semaphore has been deleted
InitSntp ==
  /\ IF semaphore = "none" THEN semaphore' = "empty" /\ starting' = TRUE
                            ELSE UNCHANGED <<semaphore, starting>>
  /\ UNCHANGED <<completed, notifying, sntpPc, syncs, trues>>

\* so that a synchronisation that came at once has no token, but is COMPLETED
InitTakes ==
  /\ starting /\ starting' = FALSE
  /\ semaphore' = "empty"
  /\ UNCHANGED <<completed, notifying, sntpPc, syncs, trues>>

\* the destructor stops the client; nobody waits then
DestroySntp ==
  /\ semaphore \in {"empty", "full"} /\ ~starting /\ ~notifying
  /\ \A t \in Waiters : sntpPc[t] = "idle"
  /\ semaphore' = "deleted"
  /\ UNCHANGED <<starting, completed, notifying, sntpPc, syncs, trues>>

\* sntp_sync_time
Synchronise ==
  /\ semaphore \in {"empty", "full"} /\ ~notifying /\ syncs < MaxSyncs
  /\ completed' = TRUE /\ notifying' = TRUE /\ syncs' = syncs + 1
  /\ UNCHANGED <<semaphore, starting, sntpPc, trues>>

time_sync_notification_cb ==
  /\ notifying /\ notifying' = FALSE
  /\ semaphore' = "full"
  /\ UNCHANGED <<starting, completed, sntpPc, syncs, trues>>

\* a restart of the client does not take a completion back
WaitForSync(t) ==
  /\ semaphore \in {"empty", "full"} /\ sntpPc[t] = "idle"
  /\ sntpPc' = [sntpPc EXCEPT ![t] = "wait"]
  /\ UNCHANGED <<semaphore, starting, completed, notifying, syncs, trues>>

TakesSemaphore(t) ==
  /\ sntpPc[t] = "wait" /\ semaphore = "full"
  /\ semaphore' = "empty"
  /\ sntpPc' = [sntpPc EXCEPT ![t] = "taken"]
  /\ UNCHANGED <<starting, completed, notifying, syncs, trues>>

WaitTimesOut(t) ==
  /\ sntpPc[t] = "wait" /\ semaphore = "empty"
  /\ sntpPc' = [sntpPc EXCEPT ![t] = "timedOut"]
  /\ UNCHANGED <<semaphore, starting, completed, notifying, syncs, trues>>

Succeeds_eitherWay(t) == sntpPc[t] = "taken" \/ completed

Succeeds(t) == sntpPc[t] = "taken" /\ completed

\* every branch reads the status
WaitReturns(t) ==
  /\ sntpPc[t] \in {"taken", "timedOut"}
  /\ trues' = IF Succeeds(t) THEN trues + 1 ELSE trues
  /\ completed' = FALSE
  /\ sntpPc' = [sntpPc EXCEPT ![t] = "idle"]
  /\ UNCHANGED <<semaphore, starting, notifying, syncs>>

SntpNext ==
  \/ InitSntp \/ InitTakes \/ DestroySntp \/ Synchronise \/ time_sync_notification_cb
  \/ \E t \in Waiters :
       WaitForSync(t) \/ TakesSemaphore(t) \/ WaitTimesOut(t) \/ WaitReturns(t)

(* No synchronisation is reported twice, whoever waits and however the     *)
(* callback, a timeout and the two steps of syncWait fall (SNTP::syncWait, *)
(* time_sync_notification_cb).                                             *)
ReportedOnce == trues <= syncs
=============================================================================
