------------------------------- MODULE UsbAcm -------------------------------
(***************************************************************************)
(* USBacmDevice (usb-host-comp/acm) over USBhostDevice, on top of UsbHost: *)
(* one control transfer for all requests, a transfer allocated for each    *)
(* INDATA and OUTDATA, and the callbacks the client task runs for          *)
(* completed transfers.  The application makes the object once a device is *)
(* open and deletes it when none of its transfers is under way.            *)
(*                                                                         *)
(* A definition whose name ends in _<lowercase words> is a faulty variant  *)
(* of the one after it, kept to show that the properties notice.           *)
(***************************************************************************)
EXTENDS UsbHost

CONSTANTS
  Lengths,    (* lengths passed to INDATA                                    *)
  InMps,      (* packet size of the IN endpoint                              *)
  OutMps,     (* packet size of the OUT endpoint                             *)
  MaxFlying,  (* bound: transfers of one direction under way                 *)
  MaxLeaked   (* bound: transfers given up                                   *)

ASSUME AcmAssumption ==
  /\ Lengths \subseteq Nat /\ InMps \in Nat \ {0} /\ OutMps \in Nat \ {0}
  /\ MaxFlying \in Nat /\ MaxLeaked \in Nat

VARIABLES
  object,     (* none, made (constructed), ready (init done)                 *)
  connected,
  ctrlDev,    (* xfer_ctrl->device_handle                                    *)
  ctrl,       (* xfer_ctrl is idle, flying or done                           *)
  flying,     (* data transfers under way, by direction                      *)
  done,       (* data transfers whose callback has not run, by direction     *)
  leaked,     (* transfers nobody will free                                  *)
  allocated   (* transfers the library has given out                         *)

ctrlVars == <<ctrlDev, ctrl>>
dataVars == <<flying, done>>
acmVars  == <<object, connected, ctrlVars, dataVars, leaked, allocated>>

Directions == {"in", "out"}
None == [d \in Directions |-> 0]

RoundUp(len, mps) == ((len + mps - 1) \div mps) * mps

\* the library takes a transfer for an open device whose interface is claimed
Accepts(dev) == device = [id |-> dev, state |-> "open"] /\ Current /\ claimed = dev

AcmInit ==
  /\ object = "none" /\ connected = FALSE
  /\ ctrlDev = 0 /\ ctrl = "idle"
  /\ flying = None /\ done = None /\ leaked = 0 /\ allocated = 0

-----------------------------------------------------------------------------
(* The application's calls.                                                *)

\* claims the interfaces; connected is whatever was in memory
Construct ==
  /\ object = "none" /\ dev_hdl # 0
  /\ object' = "made"
  /\ connected' \in BOOLEAN
  /\ claimed' = IF device = [id |-> dev_hdl, state |-> "open"] THEN dev_hdl ELSE claimed
  /\ UNCHANGED <<client, clients, device, events, libFlags, memberVars, taskVars, portVars>>
  /\ UNCHANGED <<ctrlVars, dataVars, leaked, allocated>>

InitAcm ==
  /\ object = "made"
  /\ object' = "ready"
  /\ ctrlDev' = dev_hdl
  /\ allocated' = allocated + 1
  /\ UNCHANGED <<connected, ctrl, dataVars, leaked, hostVars>>

\* setControlLine, setLineCoding, getLineCoding: a transfer that is under
\* way is not taken again, though its buffer has been rewritten
Control ==
  /\ object = "ready"
  /\ ctrl = "idle" /\ Accepts(ctrlDev)
  /\ ctrl' = "flying"
  /\ UNCHANGED <<object, connected, ctrlDev, dataVars, leaked, allocated, hostVars>>

\* allocate and submit; a transfer that is refused is not freed
Submit(dir, ok) ==
  /\ flying[dir] + done[dir] < MaxFlying
  /\ allocated' = allocated + 1
  /\ IF Accepts(dev_hdl) /\ ok
       THEN flying' = [flying EXCEPT ![dir] = @ + 1] /\ UNCHANGED leaked
       ELSE leaked < MaxLeaked /\ leaked' = leaked + 1 /\ UNCHANGED flying
  /\ UNCHANGED <<object, connected, ctrlVars, done, hostVars>>

\* the length is rounded to the packets of the other endpoint
INDATA(len) ==
  /\ object # "none" /\ connected
  /\ Submit("in", RoundUp(len, OutMps) % InMps = 0)

OUTDATA ==
  /\ object # "none" /\ connected
  /\ Submit("out", TRUE)

Delete ==
  /\ object # "none" /\ ctrl = "idle" /\ flying = None /\ done = None
  /\ object' = "none"
  /\ allocated' = IF object = "ready" THEN allocated - 1 ELSE allocated
  /\ UNCHANGED <<connected, ctrlVars, dataVars, leaked, hostVars>>

-----------------------------------------------------------------------------
(* Completions and callbacks.                                              *)

\* by the device or, once it is gone, by the library
CompleteControl ==
  /\ ctrl = "flying" /\ ctrl' = "done"
  /\ UNCHANGED <<object, connected, ctrlDev, dataVars, leaked, allocated, hostVars>>

CompleteData(dir) ==
  /\ flying[dir] > 0
  /\ flying' = [flying EXCEPT ![dir] = @ - 1]
  /\ done' = [done EXCEPT ![dir] = @ + 1]
  /\ UNCHANGED <<object, connected, ctrlVars, leaked, allocated, hostVars>>

\* any control transfer that ends, a failed one too, counts as a connection
usb_ctrl_cb ==
  /\ pc = "client" /\ ctrl = "done"
  /\ ctrl' = "idle"
  /\ connected' = TRUE
  /\ UNCHANGED <<object, ctrlDev, dataVars, leaked, allocated, hostVars>>

usb_data_cb_keepsTransfer(dir) ==
  /\ pc = "client" /\ done[dir] > 0
  /\ done' = [done EXCEPT ![dir] = @ - 1]
  /\ UNCHANGED <<object, connected, ctrlVars, flying, leaked, allocated, hostVars>>

\* usb_read_cb and usb_write_cb
usb_data_cb(dir) ==
  /\ pc = "client" /\ done[dir] > 0
  /\ done' = [done EXCEPT ![dir] = @ - 1]
  /\ allocated' = allocated - 1
  /\ UNCHANGED <<object, connected, ctrlVars, flying, leaked, hostVars>>

Application ==
  \/ Construct \/ InitAcm \/ Control
  \/ (\E len \in Lengths : INDATA(len)) \/ OUTDATA \/ Delete

Transfers ==
  \/ CompleteControl \/ usb_ctrl_cb
  \/ \E dir \in Directions : CompleteData(dir) \/ usb_data_cb(dir)

StackInit == HostInit /\ AcmInit
StackNext == (HostNext /\ UNCHANGED acmVars) \/ Application \/ Transfers
StackSpec == StackInit /\ [][StackNext]_<<hostVars, acmVars>>
               /\ WF_hostVars((Library \/ ClientTask) /\ UNCHANGED acmVars)

-----------------------------------------------------------------------------
(* Properties.                                                             *)

(* Every transfer the library has given out is the control transfer of a   *)
(* ready object, is under way, waits for its callback, or is one of those  *)
(* whose submission was refused: the callbacks free each exactly once,     *)
(* whatever is unplugged meanwhile (usb_read_cb, usb_write_cb, INDATA).    *)
TransfersAccounted ==
  allocated = flying["in"] + flying["out"] + done["in"] + done["out"] + leaked
                + (IF object = "ready" THEN 1 ELSE 0)
=============================================================================
