------------------------------ MODULE UsbHost ------------------------------
(***************************************************************************)
(* USBhost and its client task (usb-host-comp/host): one root port, one    *)
(* registered client, at most one open device.  The task alternates        *)
(* between the client's events, whose callback opens and closes the        *)
(* device, and the library's own work, after which it may find that the    *)
(* last device is free (it deregisters the client) or that there is no     *)
(* client (it reinstalls the library and registers a new one).             *)
(*                                                                         *)
(* The library does its work only while the task is inside                 *)
(* usb_host_lib_handle_events; plugging happens at any time.               *)
(*                                                                         *)
(* A definition whose name ends in _<lowercase words> is a faulty variant  *)
(* of the one after it, kept to show that the properties notice.           *)
(***************************************************************************)
EXTENDS Naturals, Sequences

CONSTANT MaxPlugs  (* bound: how often a device is plugged in *)

ASSUME PlugAssumption == MaxPlugs \in Nat \ {0}

VARIABLES
  \* members of USBhost; 0 is NULL
  client_hdl, dev_hdl,
  \* client_async_seq_task
  pc,         (* where it is in its loop                                     *)
  hdl,        (* its copy of client_hdl                                      *)
  flags,      (* event_flags                                                 *)
  \* the USB host library
  client,     (* the registered client, or 0                                 *)
  clients,    (* handles given to clients so far                             *)
  device,     (* the device it knows: its number and state                   *)
  events,     (* messages for the client                                     *)
  libFlags,   (* flags the next handle_events will return                    *)
  claimed,    (* the device whose interfaces the client has claimed, or 0    *)
  \* the port
  plugged,    (* something is plugged in now                                 *)
  plugs       (* how often something was: devices are numbered by it         *)

memberVars  == <<client_hdl, dev_hdl>>
taskVars    == <<pc, hdl, flags>>
libraryVars == <<client, clients, device, events, libFlags, claimed>>
portVars    == <<plugged, plugs>>
hostVars    == <<memberVars, taskVars, libraryVars, portVars>>

NoDevice == [id |-> 0, state |-> "none"]

\* the device that is plugged in now is the one the library knows
Current == plugged /\ device.id = plugs

-----------------------------------------------------------------------------
(* The initial state is the one init(true) leaves.                         *)

HostInit ==
  /\ client_hdl = 1 /\ dev_hdl = 0
  /\ pc = "top" /\ hdl = 0 /\ flags = {}
  /\ client = 1 /\ clients = 1
  /\ device = NoDevice /\ events = <<>> /\ libFlags = {} /\ claimed = 0
  /\ plugged = FALSE /\ plugs = 0

-----------------------------------------------------------------------------
(* The port and the library.                                               *)

Plug ==
  /\ ~plugged /\ plugs < MaxPlugs
  /\ plugged' = TRUE /\ plugs' = plugs + 1
  /\ UNCHANGED <<memberVars, taskVars, libraryVars>>

Unplug ==
  /\ plugged
  /\ plugged' = FALSE
  /\ UNCHANGED <<plugs, memberVars, taskVars, libraryVars>>

Tell(kind) ==
  events' = IF client = 0 THEN events
            ELSE Append(events, [kind |-> kind, dev |-> device'.id])

Enumerate ==
  /\ pc = "lib" /\ plugged /\ device = NoDevice
  /\ device' = [id |-> plugs, state |-> "idle"]
  /\ Tell("NEW_DEV")
  /\ UNCHANGED <<client, clients, libFlags, claimed, memberVars, taskVars, portVars>>

\* an open device waits to be closed, any other is freed at once
Disconnect ==
  /\ pc = "lib" /\ device.state \in {"idle", "open"} /\ ~Current
  /\ IF device.state = "open"
       THEN /\ device' = [device EXCEPT !.state = "gone"]
            /\ Tell("DEV_GONE")
            /\ UNCHANGED libFlags
       ELSE /\ device' = NoDevice
            /\ libFlags' = libFlags \cup {"ALL_FREE"}
            /\ UNCHANGED events
  /\ UNCHANGED <<client, clients, claimed, memberVars, taskVars, portVars>>

FreeClosed ==
  /\ pc = "lib" /\ device.state = "closed"
  /\ device' = NoDevice
  /\ libFlags' = libFlags \cup {"ALL_FREE"}
  /\ UNCHANGED <<client, clients, events, claimed, memberVars, taskVars, portVars>>

\* usb_host_lib_handle_events goes on until nothing is left to do
Idle == /\ ~(plugged /\ device = NoDevice)
        /\ device.state # "closed"
        /\ device.state \in {"idle", "open"} => Current

-----------------------------------------------------------------------------
(* The client task.                                                        *)

LoopTop ==
  /\ pc = "top"
  /\ hdl' = client_hdl
  /\ pc' = IF client_hdl = 0 THEN "lib" ELSE "client"
  /\ UNCHANGED <<flags, memberVars, libraryVars, portVars>>

open_keepsHandle(dev) ==
  /\ IF device = [id |-> dev, state |-> "idle"]
       THEN device' = [device EXCEPT !.state = "open"] ELSE UNCHANGED device
  /\ UNCHANGED dev_hdl

\* usb_host_device_open by address: only a device nobody has pulled out
open(dev) ==
  IF device = [id |-> dev, state |-> "idle"]
    THEN device' = [device EXCEPT !.state = "open"] /\ dev_hdl' = dev
    ELSE UNCHANGED <<device, dev_hdl>>

OnNewDevice ==
  /\ pc = "client" /\ events # <<>> /\ Head(events).kind = "NEW_DEV"
  /\ open(Head(events).dev)
  /\ events' = Tail(events)
  /\ UNCHANGED <<client_hdl, client, clients, libFlags, claimed, taskVars, portVars>>

close_notCalled == UNCHANGED device

\* usb_host_device_close: refused while an interface is claimed
close ==
  IF device = [id |-> dev_hdl, state |-> "gone"] /\ claimed' = 0
    THEN device' = [device EXCEPT !.state = "closed"]
    ELSE UNCHANGED device

\* the application's callback comes before close() and may release
OnDeviceGone(release) ==
  /\ pc = "client" /\ events # <<>> /\ Head(events).kind = "DEV_GONE"
  /\ claimed' = IF release THEN 0 ELSE claimed
  /\ close
  /\ events' = Tail(events)
  /\ UNCHANGED <<client, clients, libFlags, memberVars, taskVars, portVars>>

ClientEventsDone ==
  /\ pc = "client" /\ events = <<>>
  /\ pc' = "lib"
  /\ UNCHANGED <<hdl, flags, memberVars, libraryVars, portVars>>

LibEventsDone ==
  /\ pc = "lib" /\ Idle
  /\ flags' = libFlags /\ libFlags' = {}
  /\ pc' = IF "NO_CLIENTS" \in libFlags THEN "free"
           ELSE IF "ALL_FREE" \in libFlags THEN "deregister" ELSE "top"
  /\ UNCHANGED <<hdl, client, clients, device, events, claimed, memberVars, portVars>>

\* usb_host_device_free_all says NOT_FINISHED: the loop asks again, and the
\* library cannot free anything meanwhile
FreeAllSpins ==
  /\ pc = "free" /\ device # NoDevice
  /\ UNCHANGED hostVars

\* install and register; uninstall has dropped what the library knew
init ==
  /\ clients' = clients + 1
  /\ client' = clients' /\ client_hdl' = clients'
  /\ events' = <<>>

Reinstall ==
  /\ pc = "free" /\ device = NoDevice
  /\ init
  /\ pc' = IF "ALL_FREE" \in flags THEN "deregister" ELSE "top"
  /\ UNCHANGED <<dev_hdl, hdl, flags, device, libFlags, claimed, portVars>>

\* usb_host_client_deregister of the handle read at the top; the library may
\* refuse, and nobody looks at the result
Deregister(refused) ==
  /\ pc = "deregister"
  /\ IF hdl = 0 \/ refused
       THEN UNCHANGED <<client, events, libFlags>>
       ELSE /\ client' = 0 /\ events' = <<>>
            /\ libFlags' = libFlags \cup {"NO_CLIENTS"}
  /\ pc' = "forget"
  /\ UNCHANGED <<hdl, flags, clients, device, claimed, memberVars, portVars>>

ForgetClient_keepsHandle ==
  /\ pc = "forget"
  /\ pc' = "top"
  /\ UNCHANGED <<hdl, flags, memberVars, libraryVars, portVars>>

\* host->client_hdl = NULL
ForgetClient ==
  /\ pc = "forget"
  /\ client_hdl' = 0
  /\ pc' = "top"
  /\ UNCHANGED <<dev_hdl, hdl, flags, libraryVars, portVars>>

Library == Enumerate \/ Disconnect \/ FreeClosed

ClientTask ==
  \/ LoopTop \/ OnNewDevice \/ (\E release \in BOOLEAN : OnDeviceGone(release))
  \/ ClientEventsDone \/ LibEventsDone \/ FreeAllSpins \/ Reinstall
  \/ (\E refused \in BOOLEAN : Deregister(refused)) \/ ForgetClient

HostNext == Plug \/ Unplug \/ Library \/ ClientTask

HostSpec == HostInit /\ [][HostNext]_hostVars /\ WF_hostVars(Library \/ ClientTask)

-----------------------------------------------------------------------------
(* Properties.                                                             *)

(* While the library has a device open, dev_hdl names that device, so that *)
(* close() and every transfer reach it (usb_host.cpp, open and close).     *)
DevHandleIsOpen == device.state \in {"open", "gone"} => dev_hdl = device.id

(* The client handle that other tasks read is the one of the registered    *)
(* client, save between the deregistration and the line that forgets the   *)
(* handle; and the task's own copy is not stale where the task uses it,    *)
(* after the reinstallation that may come between, too (clientHandle(),    *)
(* client_async_seq_task).                                                 *)
ClientHandleIsRegistered ==
  /\ client_hdl # 0 => client_hdl = client \/ pc = "forget"
  /\ pc \in {"client", "deregister"} /\ hdl # 0 => hdl = client

(* The three ways the host stops finding devices: the task spins in        *)
(* usb_host_device_free_all, a registered client was forgotten (the one of *)
(* init(false), or one whose deregistration was refused), or the           *)
(* application kept its claim and close() was refused.                     *)
Lost ==
  \/ pc = "free" /\ device # NoDevice
  \/ client # 0 /\ client_hdl = 0
  \/ device.state = "gone" /\ events = <<>> /\ claimed # 0

(* A device that stays plugged in is opened in the end, after any number   *)
(* of unplugs and reinstallations, unless the host is lost in one of those *)
(* three ways.                                                             *)
DeviceServed == plugged ~> (~plugged \/ Lost \/ (Current /\ device.state = "open"))
=============================================================================
