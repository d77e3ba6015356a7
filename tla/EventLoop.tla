----------------------------- MODULE EventLoop -----------------------------
(***************************************************************************)
(* EventLoop: the default loop, which any task may ask for and which the   *)
(* static default_running remembers.  The loop of an object is IDF's own   *)
(* and not modelled.                                                       *)
(*                                                                         *)
(* A definition whose name ends in _<lowercase words> is a faulty variant  *)
(* of the one after it, kept to show that the properties notice.           *)
(***************************************************************************)
CONSTANT Starters  (* tasks that may be inside initDefault() at once *)

VARIABLES
  default_running,
  defaultLoop,    (* the default loop exists                                 *)
  asking,         (* where each task is in initDefault(): idle, create or    *)
                  (* the result of creating: ok, exists, nomem               *)
  promised,       (* initDefault() has returned ESP_OK                       *)
  deleted         (* deinitDefault() has been called                         *)

loopVars == <<default_running, defaultLoop, asking, promised, deleted>>

LoopInit ==
  /\ default_running = FALSE /\ defaultLoop = FALSE /\ promised = FALSE /\ deleted = FALSE
  /\ asking = [t \in Starters |-> "idle"]

\* initDefault(), also from registerEventDefault, WiFi::init, Provision::init
AskDefault(t) ==
  /\ asking[t] = "idle"
  /\ asking' = [asking EXCEPT ![t] = IF default_running THEN "ok" ELSE "create"]
  /\ UNCHANGED <<default_running, defaultLoop, promised, deleted>>

CreateDefault(t, memory) ==
  /\ asking[t] = "create"
  /\ asking' = [asking EXCEPT ![t] = IF defaultLoop THEN "exists"
                                     ELSE IF memory THEN "ok" ELSE "nomem"]
  /\ defaultLoop' = (defaultLoop \/ memory)
  /\ UNCHANGED <<default_running, promised, deleted>>

Running_anyResult(err) == err \in {"ok", "exists", "nomem"}

Running(err) == err \in {"ok", "exists"}

SetDefault(t) ==
  /\ asking[t] \in {"ok", "exists", "nomem"}
  /\ default_running' = Running(asking[t])
  /\ promised' = (promised \/ default_running')
  /\ asking' = [asking EXCEPT ![t] = "idle"]
  /\ UNCHANGED <<defaultLoop, deleted>>

\* default_running stays; no task is inside initDefault() meanwhile
deinitDefault ==
  /\ \A t \in Starters : asking[t] = "idle"
  /\ defaultLoop' = FALSE /\ deleted' = TRUE
  /\ UNCHANGED <<default_running, asking, promised>>

LoopNext ==
  \/ \E t \in Starters :
       \/ AskDefault(t) \/ SetDefault(t)
       \/ \E memory \in BOOLEAN : CreateDefault(t, memory)
  \/ deinitDefault

(* An initDefault() that has said ESP_OK told the truth, however many      *)
(* tasks ask at once and whichever of them finds no memory, until somebody *)
(* calls deinitDefault(), after which default_running lies                 *)
(* (EventLoop::initDefault, registerEventDefault).                         *)
DefaultIsThere == promised /\ ~deleted => defaultLoop
=============================================================================
