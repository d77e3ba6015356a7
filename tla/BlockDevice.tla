---------------------------- MODULE BlockDevice ----------------------------
(***************************************************************************)
(* What diskio_rawmsc.cpp lets FatFS believe about ff_raw_read and         *)
(* ff_raw_write: a call that returns RES_OK has done all it was asked to,  *)
(* one that returns RES_ERROR may have stored its blocks or not, and       *)
(* nothing happens to the disk or to a caller's buffer outside a call.     *)
(***************************************************************************)
EXTENDS Naturals, Sequences

CONSTANTS Tasks, Luns, Lbas, Contents,
          Requests     (* the requests each task may make                    *)

VARIABLES disk,        (* what is stored on each logical unit                *)
          request,     (* the call each task is in                           *)
          answer       (* what its last call returned                        *)

vars == <<disk, request, answer>>

NoRequest == [op |-> "none"]
Pending   == [status |-> "pending", data |-> <<>>]
Failures  == {"ESP_FAIL", "ESP_ERR_NO_MEM", "ESP_ERR_TIMEOUT"}

Covers(r, b) == b \in r.lba .. r.lba + r.n - 1
BlocksOf(r)  == [i \in 1 .. r.n |-> disk[r.lun][r.lba + i - 1]]

Init ==
  /\ disk \in [Luns -> [Lbas -> Contents]]
  /\ request = [t \in Tasks |-> NoRequest]
  /\ answer = [t \in Tasks |-> [status |-> "none", data |-> <<>>]]

Call(t) ==
  /\ request[t] = NoRequest
  /\ \E r \in Requests[t] : request' = [request EXCEPT ![t] = r]
  /\ answer' = [answer EXCEPT ![t] = Pending]
  /\ UNCHANGED disk

\* The blocks of a write reach the disk, all of them at once.
Store(t) ==
  /\ request[t].op = "WRITE_10"
  /\ LET r == request[t]
     IN disk' = [disk EXCEPT ![r.lun] =
                   [b \in Lbas |-> IF Covers(r, b) THEN r.data[b - r.lba + 1] ELSE @[b]]]
  /\ UNCHANGED <<request, answer>>

Succeed(t) ==
  /\ request[t] # NoRequest
  /\ request[t].op = "WRITE_10" => BlocksOf(request[t]) = request[t].data
  /\ answer' = [answer EXCEPT ![t] =
                  [status |-> "ESP_OK",
                   data |-> IF request[t].op = "READ_10" THEN BlocksOf(request[t])
                            ELSE <<>>]]
  /\ request' = [request EXCEPT ![t] = NoRequest]
  /\ UNCHANGED disk

\* Also a call that fails at once, before anything else can be seen of it.
Fail(t) ==
  /\ request' = [request EXCEPT ![t] = NoRequest]
  /\ \E f \in Failures :
       answer' = [answer EXCEPT ![t] = [status |-> f, data |-> <<>>]]
  /\ UNCHANGED disk

Next == \E t \in Tasks : Call(t) \/ Store(t) \/ Succeed(t) \/ Fail(t)

Spec == Init /\ [][Next]_vars

=============================================================================
