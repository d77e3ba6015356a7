-------------------------------- MODULE WiFi --------------------------------
(***************************************************************************)
(* The WIFI object: its copy of the mode, the driver's own mode, and the   *)
(* two network interfaces, over the default event loop of EventLoop.  One  *)
(* task calls it.  A call of the driver that fails leaves the driver as it *)
(* was, but setMode has assigned the copy by then.  esp_netif has one AP   *)
(* and one station interface at most and answers NULL for another.         *)
(*                                                                         *)
(* A definition whose name ends in _<lowercase words> is a faulty variant  *)
(* of the one after it, kept to show that the properties notice.           *)
(***************************************************************************)
EXTENDS EventLoop

VARIABLES
  mode,           (* the object's: the set of interfaces that are on         *)
  driverMode,     (* the driver's                                            *)
  wifiDriver,     (* none, stopped or started                                *)
  esp_netif_ap,   (* none or ap                                              *)
  esp_netif_sta,  (* none, sta, or ap by mistake                             *)
  connecting,
  granted,        (* interfaces enabled with ESP_OK since init() or setMode  *)
  asked           (* interfaces somebody asked for                           *)

netifVars == <<esp_netif_ap, esp_netif_sta>>
wifiVars  == <<mode, driverMode, wifiDriver, netifVars, connecting, granted, asked>>

Interfaces == {"ap", "sta"}

WiFiInit ==  \* WIFI is static
  /\ mode = {} /\ driverMode = {} /\ wifiDriver = "none" /\ connecting = FALSE
  /\ esp_netif_ap = "none" /\ esp_netif_sta = "none"
  /\ granted = {} /\ asked = {}

\* init() asks for the default loop, whatever the answer; `fails` is the
\* first of the steps after that which does, or none
InitWiFi(memory, fails) ==
  /\ default_running' = (default_running \/ defaultLoop \/ memory)
  /\ defaultLoop' = (defaultLoop \/ (~default_running /\ memory))
  /\ promised' = (promised \/ default_running')
  /\ wifiDriver' = IF fails = "none" THEN "started"
                   ELSE IF fails # "init" /\ wifiDriver = "none" THEN "stopped"
                   ELSE wifiDriver
  /\ mode' = IF fails \in {"init", "storage"} THEN mode ELSE {}
  /\ driverMode' = IF fails \in {"start", "none"} THEN {} ELSE driverMode
  /\ connecting' = (connecting /\ "sta" \in driverMode')
  /\ granted' = {} /\ asked' = driverMode' \cup mode'
  /\ UNCHANGED <<asking, deleted, netifVars>>

\* assigns the member, then tells the driver
DriverMode(m, ok) ==
  /\ mode' = m
  /\ driverMode' = IF ok /\ wifiDriver # "none" THEN m ELSE driverMode

SetMode(m, ok) ==
  /\ DriverMode(m, ok)
  /\ connecting' = (connecting /\ "sta" \in driverMode')
  /\ granted' = {} /\ asked' = asked \cup m
  /\ UNCHANGED <<loopVars, wifiDriver, netifVars>>

Creates(kind, memory) ==
  memory /\ (kind = "ap" => "ap" \notin {esp_netif_ap, esp_netif_sta})

NetifAp(memory) ==
  IF esp_netif_ap = "none" /\ Creates("ap", memory) THEN "ap" ELSE esp_netif_ap

NetifSta(kind, memory) ==
  IF esp_netif_sta = "none" /\ Creates(kind, memory) THEN kind ELSE esp_netif_sta

ModeWith_thisOnly(ifx) == {ifx}

\* the other interface stays on if it was
ModeWith(ifx) == IF mode \subseteq {ifx} THEN {ifx} ELSE Interfaces

\* the rest of enableAP and enableSTA once the interface is there; `fails`
\* is mode, start, config (also for connect) or none
Enabled(ifx, fails) ==
  /\ wifiDriver = "none" => fails = "mode"
  /\ DriverMode(ModeWith(ifx), fails # "mode")
  /\ wifiDriver' = IF fails \in {"mode", "start"} THEN wifiDriver ELSE "started"
  /\ granted' = IF fails = "none" THEN granted \cup {ifx} ELSE granted
  /\ asked' = asked \cup {ifx}

EnableAP(memory, fails) ==
  /\ esp_netif_ap' = NetifAp(memory)
  /\ IF esp_netif_ap' = "none"
       THEN UNCHANGED <<mode, driverMode, wifiDriver, granted, asked>>
       ELSE Enabled("ap", fails)
  /\ UNCHANGED <<loopVars, esp_netif_sta, connecting>>

EnableSTA(connects, memory, fails) ==
  /\ esp_netif_sta' = NetifSta("sta", memory)
  /\ IF esp_netif_sta' = "none"
       THEN UNCHANGED <<mode, driverMode, wifiDriver, granted, asked, connecting>>
       ELSE /\ Enabled("sta", fails)
            /\ connecting' = (connecting \/ (connects /\ fails = "none"))
  /\ UNCHANGED <<loopVars, esp_netif_ap>>

\* setAPConfig and setSTAConfig create the interface if it is not there, both
\* of them an AP
SetAPConfig(memory) ==
  /\ esp_netif_ap' = NetifAp(memory)
  /\ UNCHANGED <<loopVars, mode, driverMode, wifiDriver, esp_netif_sta, connecting,
                 granted, asked>>

SetSTAConfig(memory) ==
  /\ esp_netif_sta' = NetifSta("ap", memory)
  /\ UNCHANGED <<loopVars, mode, driverMode, wifiDriver, esp_netif_ap, connecting,
                 granted, asked>>

StartWiFi ==
  /\ wifiDriver # "none" /\ wifiDriver' = "started"
  /\ UNCHANGED <<loopVars, mode, driverMode, netifVars, connecting, granted, asked>>

StopWiFi ==
  /\ wifiDriver # "none" /\ wifiDriver' = "stopped" /\ connecting' = FALSE
  /\ UNCHANGED <<loopVars, mode, driverMode, netifVars, granted, asked>>

Connect ==  \* with mode AP it says ESP_OK and does nothing
  /\ mode # {"ap"} /\ wifiDriver = "started" /\ "sta" \in driverMode
  /\ connecting' = TRUE
  /\ UNCHANGED <<loopVars, mode, driverMode, wifiDriver, netifVars, granted, asked>>

Disconnect ==
  /\ connecting' = FALSE
  /\ UNCHANGED <<loopVars, mode, driverMode, wifiDriver, netifVars, granted, asked>>

ScanStations ==
  /\ esp_netif_sta # "none" /\ wifiDriver = "started" /\ "sta" \in driverMode
  /\ UNCHANGED <<loopVars, wifiVars>>

WiFiNext ==
  \/ LoopNext /\ UNCHANGED wifiVars
  \/ \E memory \in BOOLEAN :
       \/ \E fails \in {"init", "storage", "mode", "start", "none"} : InitWiFi(memory, fails)
       \/ \E fails \in {"mode", "start", "config", "none"} :
            \/ EnableAP(memory, fails)
            \/ \E connects \in BOOLEAN : EnableSTA(connects, memory, fails)
       \/ SetAPConfig(memory) \/ SetSTAConfig(memory)
  \/ \E m \in SUBSET Interfaces, ok \in BOOLEAN : SetMode(m, ok)
  \/ StartWiFi \/ StopWiFi \/ Connect \/ Disconnect \/ ScanStations

NetworkInit == LoopInit /\ WiFiInit

WiFiSpec == NetworkInit /\ [][WiFiNext]_<<loopVars, wifiVars>>

-----------------------------------------------------------------------------
(* Properties.                                                             *)

(* An interface enabled with ESP_OK stays on in the driver while the other *)
(* one is enabled, with success or without, until init() or setMode(); and *)
(* none is on that nobody asked for, although mode, from which enableAP    *)
(* and enableSTA compute the next one, runs ahead of the driver after a    *)
(* failure (WiFi::enableAP, enableSTA, setMode).                           *)
EnabledStaysOn == granted \subseteq driverMode /\ driverMode \subseteq asked
=============================================================================
