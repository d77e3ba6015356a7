-------------------------- MODULE UsbStack_proofs --------------------------
(***************************************************************************)
(* Proofs about UsbHost and UsbAcm on top of it, for any number of plugs,  *)
(* transfers and lengths.                                                  *)
(***************************************************************************)
EXTENDS UsbAcm, TLAPS

stackVars == <<hostVars, acmVars>>

LEMMA HostStep ==
  ASSUME [StackNext]_stackVars
  PROVE  \/ HostNext /\ UNCHANGED acmVars
         \/ Application \/ Transfers
         \/ UNCHANGED stackVars
BY DEF StackNext

-----------------------------------------------------------------------------
(* The device handle.                                                      *)

DevHandleInv ==
  /\ device \in [id : Nat, state : {"none", "idle", "open", "gone", "closed"}]
  /\ plugs \in Nat
  /\ DevHandleIsOpen

LEMMA HostKeepsDevHandle == DevHandleInv /\ HostNext => DevHandleInv'
<1> SUFFICES ASSUME DevHandleInv, HostNext PROVE DevHandleInv'
  OBVIOUS
<1> USE DEF DevHandleInv, DevHandleIsOpen, memberVars, taskVars, libraryVars, portVars,
            hostVars, NoDevice
<1>0. /\ device.id \in Nat
      /\ device.state \in {"none", "idle", "open", "gone", "closed"}
  OBVIOUS
<1>1. CASE Plug
  BY <1>1 DEF Plug
<1>2. CASE Unplug
  BY <1>2 DEF Unplug
<1>3. CASE Enumerate
  <2>1. device' = [id |-> plugs, state |-> "idle"]
    BY <1>3 DEF Enumerate
  <2> QED
    BY <1>3, <2>1 DEF Enumerate
<1>4. CASE Disconnect
  <2>1. CASE device.state = "open"
    <3>1. device' = [device EXCEPT !.state = "gone"]
      BY <1>4, <2>1 DEF Disconnect
    <3>2. device'.id = device.id /\ device'.state = "gone"
      BY <3>1, <1>0
    <3> QED
      BY <1>4, <2>1, <3>1, <3>2, <1>0 DEF Disconnect
  <2>2. CASE device.state # "open"
    BY <1>4, <2>2 DEF Disconnect
  <2> QED
    BY <2>1, <2>2
<1>5. CASE FreeClosed
  BY <1>5 DEF FreeClosed
<1>6. CASE LoopTop
  BY <1>6 DEF LoopTop
<1>7. CASE OnNewDevice
  <2>2. plugs' = plugs
    BY <1>7 DEF OnNewDevice
  <2>3. CASE device = [id |-> Head(events).dev, state |-> "idle"]
    <3>1. dev_hdl' = device.id /\ device' = [device EXCEPT !.state = "open"]
      BY <1>7, <2>3 DEF OnNewDevice, open
    <3> QED
      BY <2>2, <3>1, <1>0
  <2>4. CASE device # [id |-> Head(events).dev, state |-> "idle"]
    BY <1>7, <2>2, <2>4 DEF OnNewDevice, open
  <2> QED
    BY <2>3, <2>4
<1>8. CASE \E release \in BOOLEAN : OnDeviceGone(release)
  <2>2. plugs' = plugs /\ dev_hdl' = dev_hdl
    BY <1>8 DEF OnDeviceGone
  <2>3. device' = device \/ device' = [device EXCEPT !.state = "closed"]
    BY <1>8 DEF OnDeviceGone, close
  <2> QED
    BY <2>2, <2>3, <1>0
<1>9. CASE ClientEventsDone
  BY <1>9 DEF ClientEventsDone
<1>10. CASE LibEventsDone
  BY <1>10 DEF LibEventsDone
<1>11. CASE FreeAllSpins
  BY <1>11 DEF FreeAllSpins
<1>12. CASE Reinstall
  BY <1>12 DEF Reinstall, init
<1>13. CASE \E refused \in BOOLEAN : Deregister(refused)
  BY <1>13 DEF Deregister
<1>14. CASE ForgetClient
  BY <1>14 DEF ForgetClient
<1> QED
  BY <1>1, <1>2, <1>3, <1>4, <1>5, <1>6, <1>7, <1>8, <1>9, <1>10, <1>11, <1>12, <1>13, <1>14
     DEF HostNext, Library, ClientTask

\* what the application and the transfers leave alone
LEMMA AcmKeepsHost ==
  ASSUME Application \/ Transfers
  PROVE  UNCHANGED <<device, plugs, dev_hdl, client, client_hdl, pc, hdl, flags, libFlags>>
<1> USE DEF hostVars, memberVars, taskVars, libraryVars, portVars
<1>1. CASE Application
  BY <1>1 DEF Application, Construct, InitAcm, Control, INDATA, OUTDATA, Submit, Delete
<1>2. CASE Transfers
  BY <1>2 DEF Transfers, CompleteControl, usb_ctrl_cb, CompleteData, usb_data_cb
<1> QED
  BY <1>1, <1>2

(* For any number of plugs, unplugs and reinstallations, dev_hdl names the *)
(* device the library has open, from open() to close() (usb_host.cpp).     *)
THEOREM HandleNamesDevice == StackSpec => []DevHandleIsOpen
<1>1. StackInit => DevHandleInv
  BY DEF StackInit, HostInit, DevHandleInv, DevHandleIsOpen, NoDevice
<1>2. DevHandleInv /\ [StackNext]_stackVars => DevHandleInv'
  <2> SUFFICES ASSUME DevHandleInv, [StackNext]_stackVars PROVE DevHandleInv'
    OBVIOUS
  <2>1. CASE HostNext
    BY <2>1, HostKeepsDevHandle
  <2>2. CASE Application \/ Transfers
    BY <2>2, AcmKeepsHost DEF DevHandleInv, DevHandleIsOpen
  <2>3. CASE UNCHANGED stackVars
    BY <2>3 DEF stackVars, hostVars, libraryVars, memberVars, portVars, DevHandleInv,
                DevHandleIsOpen
  <2> QED
    BY <2>1, <2>2, <2>3, HostStep
<1>3. DevHandleInv => DevHandleIsOpen
  BY DEF DevHandleInv
<1> QED
  BY <1>1, <1>2, <1>3, PTL DEF StackSpec, stackVars

-----------------------------------------------------------------------------
(* The client handle.                                                      *)

(* The flag NO_CLIENTS stands from the deregistration to the reinstall,    *)
(* and as long as it does the task holds no handle once it has forgotten   *)
(* the member: the reinstallation finds no copy of an old handle.          *)
NoClients == "NO_CLIENTS" \in libFlags

ClientInv ==
  /\ ClientHandleIsRegistered
  /\ pc = "lib" /\ hdl # 0 => hdl = client
  /\ NoClients => pc \in {"forget", "top", "client", "lib"}
  /\ NoClients /\ pc # "forget" => client_hdl = 0
  /\ NoClients /\ pc \in {"client", "lib"} => hdl = 0
  /\ pc = "free" => hdl = 0

LEMMA HostKeepsClientHandle == ClientInv /\ HostNext => ClientInv'
<1> SUFFICES ASSUME ClientInv, HostNext PROVE ClientInv'
  OBVIOUS
<1> USE DEF ClientInv, ClientHandleIsRegistered, NoClients, memberVars, taskVars,
            libraryVars, portVars, hostVars
<1>1. CASE Plug \/ Unplug
  BY <1>1 DEF Plug, Unplug
<1>2. CASE Library
  <2>1. /\ UNCHANGED <<client_hdl, client, pc, hdl>>
        /\ NoClients' = NoClients
    BY <1>2 DEF Library, Enumerate, Disconnect, FreeClosed
  <2> QED
    BY <2>1
<1>3. CASE LoopTop
  BY <1>3 DEF LoopTop
<1>4. CASE OnNewDevice
  BY <1>4 DEF OnNewDevice, open
<1>5. CASE \E release \in BOOLEAN : OnDeviceGone(release)
  BY <1>5 DEF OnDeviceGone
<1>6. CASE ClientEventsDone
  BY <1>6 DEF ClientEventsDone
<1>7. CASE LibEventsDone
  BY <1>7 DEF LibEventsDone
<1>8. CASE FreeAllSpins
  BY <1>8 DEF FreeAllSpins
<1>9. CASE Reinstall
  BY <1>9 DEF Reinstall, init
<1>10. ASSUME NEW refused \in BOOLEAN, Deregister(refused) PROVE ClientInv'
  BY <1>10 DEF Deregister
<1>11. CASE ForgetClient
  BY <1>11 DEF ForgetClient
<1> QED
  BY <1>1, <1>2, <1>3, <1>4, <1>5, <1>6, <1>7, <1>8, <1>9, <1>10, <1>11
     DEF HostNext, ClientTask

(* However often the library is reinstalled and the client deregistered,   *)
(* also when that is refused, client_hdl is NULL or names the registered   *)
(* client outside the one line between usb_host_client_deregister and the  *)
(* assignment of NULL, and the task never uses a stale copy of it          *)
(* (client_async_seq_task, USBhost::init).                                 *)
THEOREM ClientHandleKnown == StackSpec => []ClientHandleIsRegistered
<1>1. StackInit => ClientInv
  BY DEF StackInit, HostInit, ClientInv, ClientHandleIsRegistered, NoClients
<1>2. ClientInv /\ [StackNext]_stackVars => ClientInv'
  <2> SUFFICES ASSUME ClientInv, [StackNext]_stackVars
               PROVE  ClientInv'
    OBVIOUS
  <2>1. CASE HostNext
    BY <2>1, HostKeepsClientHandle
  <2>2. CASE Application \/ Transfers
    BY <2>2, AcmKeepsHost DEF ClientInv, ClientHandleIsRegistered, NoClients
  <2>3. CASE UNCHANGED stackVars
    BY <2>3 DEF stackVars, hostVars, libraryVars, memberVars, taskVars, ClientInv,
                ClientHandleIsRegistered, NoClients
  <2> QED
    BY <2>1, <2>2, <2>3, HostStep
<1>3. ClientInv => ClientHandleIsRegistered
  BY DEF ClientInv
<1> QED
  BY <1>1, <1>2, <1>3, PTL DEF StackSpec, stackVars

-----------------------------------------------------------------------------
(* The transfers.                                                          *)

AccountInv ==
  /\ flying \in [Directions -> Nat] /\ done \in [Directions -> Nat]
  /\ leaked \in Nat
  /\ object \in {"none", "made", "ready"}
  /\ TransfersAccounted

LEMMA SubmitKeepsAccount ==
  ASSUME AccountInv, NEW dir \in Directions, NEW ok, Submit(dir, ok)
  PROVE  AccountInv'
<1> USE DEF AccountInv, TransfersAccounted, Directions
<1>1. /\ flying["in"] \in Nat /\ flying["out"] \in Nat
      /\ done["in"] \in Nat /\ done["out"] \in Nat
  OBVIOUS
<1>2. /\ allocated' = allocated + 1
      /\ object' = object /\ done' = done
  BY DEF Submit
<1>3. CASE Accepts(dev_hdl) /\ ok
  <2>1. flying' = [flying EXCEPT ![dir] = @ + 1] /\ leaked' = leaked
    BY <1>3 DEF Submit
  <2>2. CASE dir = "in"
    BY <1>1, <1>2, <2>1, <2>2
  <2>3. CASE dir = "out"
    BY <1>1, <1>2, <2>1, <2>3
  <2> QED
    BY <2>2, <2>3
<1>4. CASE ~(Accepts(dev_hdl) /\ ok)
  <2>1. leaked' = leaked + 1 /\ flying' = flying
    BY <1>4 DEF Submit
  <2> QED
    BY <1>1, <1>2, <2>1
<1> QED
  BY <1>3, <1>4

LEMMA TransfersKeepAccount == AccountInv /\ Transfers => AccountInv'
<1> SUFFICES ASSUME AccountInv, Transfers PROVE AccountInv'
  OBVIOUS
<1> USE DEF AccountInv, TransfersAccounted
<1>0. /\ flying["in"] \in Nat /\ flying["out"] \in Nat
      /\ done["in"] \in Nat /\ done["out"] \in Nat
  BY DEF Directions
<1>1. CASE CompleteControl
  BY <1>1 DEF CompleteControl, dataVars
<1>2. CASE usb_ctrl_cb
  BY <1>2 DEF usb_ctrl_cb, dataVars
<1>3. ASSUME NEW dir \in Directions, CompleteData(dir) PROVE AccountInv'
  <2>1. /\ flying' = [flying EXCEPT ![dir] = @ - 1]
        /\ done' = [done EXCEPT ![dir] = @ + 1]
        /\ flying[dir] > 0
        /\ UNCHANGED <<object, leaked, allocated>>
    BY <1>3 DEF CompleteData
  <2>2. CASE dir = "in"
    BY <1>0, <2>1, <2>2 DEF Directions
  <2>3. CASE dir = "out"
    BY <1>0, <2>1, <2>3 DEF Directions
  <2> QED
    BY <2>2, <2>3 DEF Directions
<1>4. ASSUME NEW dir \in Directions, usb_data_cb(dir) PROVE AccountInv'
  <2>1. /\ done' = [done EXCEPT ![dir] = @ - 1]
        /\ allocated' = allocated - 1
        /\ done[dir] > 0
        /\ UNCHANGED <<object, leaked, flying>>
    BY <1>4 DEF usb_data_cb
  <2>2. CASE dir = "in"
    BY <1>0, <2>1, <2>2 DEF Directions
  <2>3. CASE dir = "out"
    BY <1>0, <2>1, <2>3 DEF Directions
  <2> QED
    BY <2>2, <2>3 DEF Directions
<1> QED
  BY <1>1, <1>2, <1>3, <1>4 DEF Transfers

LEMMA ApplicationKeepsAccount == AccountInv /\ Application => AccountInv'
<1> SUFFICES ASSUME AccountInv, Application PROVE AccountInv'
  OBVIOUS
<1>0. /\ flying["in"] \in Nat /\ flying["out"] \in Nat
      /\ done["in"] \in Nat /\ done["out"] \in Nat
  BY DEF AccountInv, Directions
<1>1. CASE Construct
  BY <1>1 DEF Construct, dataVars, AccountInv, TransfersAccounted
<1>2. CASE InitAcm
  BY <1>0, <1>2 DEF InitAcm, dataVars, AccountInv, TransfersAccounted
<1>3. CASE Control
  BY <1>3 DEF Control, dataVars, AccountInv, TransfersAccounted
<1>4. CASE \E len \in Lengths : INDATA(len)
  BY <1>4, SubmitKeepsAccount DEF INDATA, Directions
<1>5. CASE OUTDATA
  BY <1>5, SubmitKeepsAccount DEF OUTDATA, Directions
<1>6. CASE Delete
  BY <1>0, <1>6 DEF Delete, dataVars, AccountInv, TransfersAccounted
<1> QED
  BY <1>1, <1>2, <1>3, <1>4, <1>5, <1>6 DEF Application

(* For any number of transfers, plugs and lengths, each transfer given out *)
(* is freed by exactly one callback or lost by a refused submission        *)
(* (USBacmDevice::INDATA, OUTDATA and the callbacks).                      *)
THEOREM NoTransferForgotten == StackSpec => []TransfersAccounted
<1>1. StackInit => AccountInv
  BY DEF StackInit, AcmInit, AccountInv, TransfersAccounted, None, Directions
<1>2. AccountInv /\ [StackNext]_stackVars => AccountInv'
  <2> SUFFICES ASSUME AccountInv, [StackNext]_stackVars PROVE AccountInv'
    OBVIOUS
  <2>1. CASE UNCHANGED acmVars
    BY <2>1 DEF acmVars, dataVars, AccountInv, TransfersAccounted
  <2> QED
    BY <2>1, HostStep, ApplicationKeepsAccount, TransfersKeepAccount DEF stackVars
<1>3. AccountInv => TransfersAccounted
  BY DEF AccountInv
<1> QED
  BY <1>1, <1>2, <1>3, PTL DEF StackSpec, stackVars
=============================================================================
