-------------------------------- MODULE Eth ---------------------------------
(***************************************************************************)
(* ETH in the order of its test: init, then start, stop and deinit again   *)
(* and again, whatever they return.  A start() that installs no driver     *)
(* leaves the handles of the round before, and the stop() and deinit()     *)
(* that follow use them: deinit() then deletes a glue that was deleted     *)
(* before, which the heap does not survive.                                *)
(* The driver counts the netif glue that refers to it and is uninstalled   *)
(* only when it is stopped and nobody does.  setConfig chooses between     *)
(* DHCP and a fixed address.                                               *)
(*                                                                         *)
(* A definition whose name ends in _<lowercase words> is a faulty variant  *)
(* of the one after it, kept to show that the properties notice.           *)
(***************************************************************************)
EXTENDS Naturals

CONSTANT MaxDrivers  (* bound: drivers left installed *)

ASSUME EthAssumption == MaxDrivers \in Nat \ {0}

VARIABLES
  ethPhase,     (* which call comes next: init, start, stop, deinit, or none *)
                (* once the heap has aborted                                 *)
  phy,          (* init() has found the driver of the PHY                    *)
  drivers,      (* drivers installed; eth_handle is the last one             *)
  glue_handle,  (* unset (no initialiser), NULL, deleted, or valid: it       *)
                (* refers to that driver                                     *)
  ethStarted,
  glueless,     (* there was no memory for a glue once                       *)
  dhcp,         (* the DHCP client runs                                      *)
  address,      (* none, or fixed                                            *)
  configured    (* the last setConfig returned true                          *)

ethDriver == <<ethPhase, phy, drivers, glue_handle, ethStarted, glueless>>
ethIp     == <<dhcp, address, configured>>
ethVars   == <<ethDriver, ethIp>>

EthInit ==
  /\ ethPhase = "init" /\ phy = FALSE /\ drivers = 0 /\ glue_handle = "unset"
  /\ ethStarted = FALSE /\ glueless = FALSE
  /\ dhcp = TRUE /\ address = "none" /\ configured = TRUE

InitEth(known) ==
  /\ ethPhase = "init" /\ ethPhase' = "start"
  /\ phy' = known
  /\ UNCHANGED <<drivers, glue_handle, ethStarted, glueless, ethIp>>

\* `fails` is install, glue, attach, start or none
StartEth(fails) ==
  /\ ethPhase = "start" /\ ethPhase' = "stop"
  /\ ~phy => fails = "install"
  /\ drivers < MaxDrivers
  /\ IF fails = "install"
       THEN UNCHANGED <<drivers, glue_handle, ethStarted, glueless>>
       ELSE /\ drivers' = drivers + 1
            /\ glue_handle' = IF fails = "glue" THEN "NULL" ELSE "valid"
            /\ glueless' = (glueless \/ fails = "glue")
            /\ ethStarted' = (fails = "none")
  /\ UNCHANGED <<phy, ethIp>>

StopEth ==
  /\ ethPhase = "stop" /\ ethPhase' = "deinit"
  /\ ethStarted' = FALSE
  /\ UNCHANGED <<phy, drivers, glue_handle, glueless, ethIp>>

\* refused while the glue refers to the driver, and then the glue stays too
DeinitEth_driverFirst ==
  /\ ethPhase = "deinit" /\ ethPhase' = "start"
  /\ drivers' = IF glue_handle = "valid" \/ drivers = 0 THEN drivers ELSE drivers - 1
  /\ UNCHANGED <<phy, glue_handle, ethStarted, glueless, ethIp>>

\* no glue is an error, and deinit() returns
DeinitEth ==
  /\ ethPhase = "deinit"
  /\ \/ /\ glue_handle = "valid" /\ ethPhase' = "start"
        /\ glue_handle' = "deleted" /\ drivers' = drivers - 1
     \/ /\ glue_handle \in {"NULL", "unset"} /\ ethPhase' = "start"
        /\ UNCHANGED <<glue_handle, drivers>>
     \/ /\ glue_handle \in {"deleted", "unset"} /\ ethPhase' = "none"
        /\ UNCHANGED <<glue_handle, drivers>>
  /\ UNCHANGED <<phy, ethStarted, glueless, ethIp>>

\* Any step may fail, before it does anything: stop, address, dhcp or none.
\* That the client is stopped or started already is no failure.
SetConfig(fixed, fails) ==
  /\ ethPhase \notin {"init", "none"}
  /\ fails = "dhcp" => ~fixed
  /\ dhcp' = IF fails = "stop" THEN dhcp ELSE ~fixed /\ fails = "none"
  /\ address' = IF fails \in {"stop", "address"} THEN address
                ELSE IF fixed THEN "fixed" ELSE "none"
  /\ configured' = (fails = "none")
  /\ UNCHANGED ethDriver

EthNext ==
  \/ \E known \in BOOLEAN : InitEth(known)
  \/ \E fails \in {"install", "glue", "attach", "start", "none"} : StartEth(fails)
  \/ StopEth \/ DeinitEth
  \/ \E fixed \in BOOLEAN, fails \in {"stop", "address", "dhcp", "none"} :
       SetConfig(fixed, fails)

(* After each round of start, stop and deinit no driver is left, whichever *)
(* step of start failed, unless there was no memory for a glue, which      *)
(* makes deinit() give up; and the interface has an address of its own or  *)
(* asks for one whenever the last setConfig said so, whatever failed       *)
(* before it (ETH::start, ETH::deinit, ETH::setConfig).                    *)
EthReleased ==
  /\ ethPhase = "start" /\ ~glueless => drivers = 0 /\ glue_handle # "valid"
  /\ configured => (dhcp <=> address = "none")
=============================================================================
