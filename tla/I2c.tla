-------------------------------- MODULE I2c --------------------------------
(***************************************************************************)
(* i2c as a master: every write() and read(), and scan() for each address, *)
(* creates a command link, builds and runs it and deletes it, except on    *)
(* the way out of a step that failed.  Several tasks call at a time and    *)
(* share the memory the links come from.  What goes over the bus is left   *)
(* out, but for scan() taking an address nobody answers for no failure.    *)
(*                                                                         *)
(* A definition whose name ends in _<lowercase words> is a faulty variant  *)
(* of the one after it, kept to show that the properties notice.           *)
(***************************************************************************)
EXTENDS Naturals

CONSTANTS
  I2cCallers,   (* tasks that use the bus                                    *)
  Room,         (* links there is memory for: their handles are 1 .. Room    *)
  LastAddress   (* the last address of a scan, scaled                        *)

ASSUME I2cAssumption == Room \in Nat /\ LastAddress \in Nat \ {0}

VARIABLES
  links,        (* links that exist                                          *)
  cmd,          (* of each caller: the link its call has created, or NULL: 0 *)
  i2cPc,        (* idle, create, build or delete: where its call is          *)
  i2cOp,        (* transfer (write, read) or scan                            *)
  dev_address,  (* of a scan                                                 *)
  givenUp       (* links of calls that returned early                        *)

i2cVars == <<links, cmd, i2cPc, i2cOp, dev_address, givenUp>>

I2cInit ==
  /\ links = {} /\ givenUp = {}
  /\ cmd = [t \in I2cCallers |-> 0]
  /\ i2cPc = [t \in I2cCallers |-> "idle"]
  /\ i2cOp = [t \in I2cCallers |-> "transfer"]
  /\ dev_address = [t \in I2cCallers |-> 1]

CallI2c(t) ==
  /\ i2cPc[t] = "idle"
  /\ i2cPc' = [i2cPc EXCEPT ![t] = "create"]
  /\ \E op \in {"transfer", "scan"} : i2cOp' = [i2cOp EXCEPT ![t] = op]
  /\ dev_address' = [dev_address EXCEPT ![t] = 1]
  /\ UNCHANGED <<links, cmd, givenUp>>

CreateLink(t) ==
  /\ i2cPc[t] = "create"
  /\ \E link \in (1 .. Room) \ links :
       links' = links \cup {link} /\ cmd' = [cmd EXCEPT ![t] = link]
  /\ i2cPc' = [i2cPc EXCEPT ![t] = "build"]
  /\ UNCHANGED <<i2cOp, dev_address, givenUp>>

\* a link of NULL: the call returns and there is nothing to delete
CreateFails(t) ==
  /\ i2cPc[t] = "create"
  /\ i2cPc' = [i2cPc EXCEPT ![t] = "idle"]
  /\ UNCHANGED <<links, cmd, i2cOp, dev_address, givenUp>>

\* a command does not fit into the link or, in a transfer, the bus fails
ReturnEarly(t) ==
  /\ i2cPc[t] = "build"
  /\ givenUp' = givenUp \cup {cmd[t]}
  /\ cmd' = [cmd EXCEPT ![t] = 0]
  /\ i2cPc' = [i2cPc EXCEPT ![t] = "idle"]
  /\ UNCHANGED <<links, i2cOp, dev_address>>

\* i2c_master_cmd_begin, which for a scan may find nobody
RunLink(t) ==
  /\ i2cPc[t] = "build"
  /\ i2cPc' = [i2cPc EXCEPT ![t] = "delete"]
  /\ UNCHANGED <<links, cmd, i2cOp, dev_address, givenUp>>

\* a scan goes on with the next address
GoOn(t) ==
  IF i2cOp[t] = "scan" /\ dev_address[t] < LastAddress
    THEN /\ dev_address' = [dev_address EXCEPT ![t] = @ + 1]
         /\ i2cPc' = [i2cPc EXCEPT ![t] = "create"]
    ELSE /\ i2cPc' = [i2cPc EXCEPT ![t] = "idle"]
         /\ UNCHANGED dev_address

DeleteLink_afterScan(t) ==
  /\ i2cPc[t] = "delete"
  /\ cmd' = [cmd EXCEPT ![t] = 0]
  /\ GoOn(t)
  /\ links' = IF i2cPc'[t] = "create" THEN links ELSE links \ {cmd[t]}
  /\ UNCHANGED <<i2cOp, givenUp>>

DeleteLink(t) ==
  /\ i2cPc[t] = "delete"
  /\ cmd' = [cmd EXCEPT ![t] = 0]
  /\ GoOn(t)
  /\ links' = links \ {cmd[t]}
  /\ UNCHANGED <<i2cOp, givenUp>>

I2cNext ==
  \E t \in I2cCallers :
    \/ CallI2c(t) \/ CreateLink(t) \/ CreateFails(t) \/ ReturnEarly(t)
    \/ RunLink(t) \/ DeleteLink(t)

(* However the calls of several tasks interleave and whichever of them     *)
(* fail, a call builds and deletes a link that exists and that no other    *)
(* call has, and the links that no call has are those of calls that        *)
(* returned early: one that succeeds, a scan of all addresses too, costs   *)
(* no memory (i2c::write, i2c::read, i2c::scan).                           *)
LinksAccounted ==
  /\ \A t \in I2cCallers : i2cPc[t] \in {"build", "delete"} => cmd[t] \in links
  /\ \A t, u \in I2cCallers : t # u /\ cmd[t] # 0 => cmd[t] # cmd[u]
  /\ links \ { cmd[t] : t \in I2cCallers } = givenUp
=============================================================================
