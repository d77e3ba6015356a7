------------------------------- MODULE UsbMsc -------------------------------
(***************************************************************************)
(* The mass-storage host driver USBmscDevice (usb-host-comp/msc): the      *)
(* bulk-only exchanges it runs with one USB disk, the enumeration of the   *)
(* disk's logical units and the _read10/_write10 calls FatFS makes.        *)
(*                                                                         *)
(* Three kinds of actors interleave:                                       *)
(*   - the application tasks, inside _read10 and _write10, one step per    *)
(*     place where another actor can be seen or can see them;              *)
(*   - the USB host client task, which runs usb_transfer_cb for every      *)
(*     completed transfer, one callback at a time;                         *)
(*   - the disk behind the OUT and IN bulk pipes (external).               *)
(*                                                                         *)
(* What a transfer holds is reduced to what the properties compare: a CBW  *)
(* to the command it carries, a data block to one value.                   *)
(*                                                                         *)
(* A definition whose name ends in _<lowercase words> is a faulty variant  *)
(* of the one after it, kept to show that the properties notice.           *)
(***************************************************************************)
EXTENDS Naturals, Sequences, FiniteSets

CONSTANTS
  Tasks,        (* application tasks that call FatFS                         *)
  LunOf,        (* the logical unit whose volume each task uses              *)
  MaxLun,       (* what the disk answers to GET MAX LUN                      *)
  Blocks,       (* blocks on each logical unit                               *)
  Contents,     (* what a block can hold                                     *)
  Capacity,     (* what each logical unit answers to READ CAPACITY           *)
  InquiryData,  (* what the disk answers to INQUIRY                          *)
  Junk,         (* contents of a buffer nobody filled                        *)
  NoTask,       (* xTaskToNotify == NULL                                     *)
  MaxRead,      (* most sectors FatFS asks one _read10 for                   *)
  MaxWrite,     (* most sectors FatFS asks one _write10 for                  *)
  MaxSlow,      (* bound: waits that expire while their exchange still runs  *)
  MaxNoMem,     (* bound: usb_host_transfer_alloc calls that fail            *)
  MaxBacklog,   (* bound: unfinished transfers when a new call may begin     *)
  Unpluggable,  (* whether the disk may be pulled out                        *)
  Rejects       (* whether the disk may refuse a write with a failed CSW     *)

Luns == 0 .. MaxLun
Lbas == 0 .. Blocks - 1

\* what the data buffer of an IN transfer can hold
Payloads == Contents \cup {Capacity[l] : l \in Luns} \cup {InquiryData, Junk}

\* block_count and block_size have four entries and are indexed by the unit
ASSUME DiskAssumption ==
  /\ MaxLun \in 0 .. 3
  /\ Blocks \in Nat \ {0}
  /\ Capacity \in [Luns -> Payloads]

ASSUME HostAssumption ==
  /\ NoTask \notin Tasks
  /\ LunOf \in [Tasks -> Luns]
  /\ MaxRead \in Nat \ {0}
  /\ MaxWrite \in Nat \ {0}
  /\ MaxSlow \in Nat
  /\ MaxNoMem \in Nat
  /\ MaxBacklog \in Nat
  /\ Unpluggable \in BOOLEAN
  /\ Rejects \in BOOLEAN

VARIABLES
  \* members of USBmscDevice
  event,          (* the command whose answers are awaited                   *)
  luns,           (* _luns, the highest logical unit                         *)
  lun,            (* _lun, the unit being enumerated                         *)
  capacity,       (* block_count and block_size of each unit                 *)
  temp_buffer,    (* whose buffer onData copies into                         *)
  xTaskToNotify,  (* whom a command status wakes up                          *)
  \* the USB host library
  outPipe,        (* OUT transfers submitted and not yet taken by the disk   *)
  inPipe,         (* how many IN transfers wait for the disk to fill them    *)
  completed,      (* completed transfers whose callback has not run          *)
  noMem,          (* allocations that have failed                            *)
  \* the application tasks
  pc,             (* where each task is in _read10 or _write10               *)
  cmd,            (* its current or last command                             *)
  buf,            (* its data buffer, for reads                              *)
  reply,          (* what its last call returned                             *)
  notified,       (* its FreeRTOS notification is pending                    *)
  slow,           (* waits that expired too early                            *)
  ready,          (* inquiry_cb has run: the application may mount           *)
  \* the disk
  phase,          (* where it is in the bulk-only protocol                   *)
  current,        (* the command it is executing                             *)
  left,           (* transfers left in its data phase                        *)
  disk,           (* what is stored on it                                    *)
  asked           (* GET MAX LUN has not been answered yet                   *)

driverVars == <<event, luns, lun, capacity, temp_buffer, xTaskToNotify>>
pipeVars   == <<outPipe, inPipe, completed, noMem>>
taskVars   == <<pc, cmd, buf, reply, notified, slow, ready>>
diskVars   == <<phase, current, left, disk, asked>>
vars == <<driverVars, pipeVars, taskVars, diskVars>>

-----------------------------------------------------------------------------
(* Commands and transfers.                                                 *)

ScsiOps == {"READ_CAPACITY_10", "INQUIRY", "READ_10", "WRITE_10"}
Command ==
  { c \in [op : ScsiOps, lun : Luns, lba : Nat, n : Nat \ {0}, data : Seq(Contents)] :
    c.op \in {"READ_10", "WRITE_10"} => c.lba + c.n <= Blocks }

CapacityCommand(l) ==
  [op |-> "READ_CAPACITY_10", lun |-> l, lba |-> 0, n |-> 1, data |-> <<>>]
InquiryCommand ==
  [op |-> "INQUIRY", lun |-> 0, lba |-> 0, n |-> 1, data |-> <<>>]

ReadCommands(t) ==
  { c \in [op : {"READ_10"}, lun : {LunOf[t]}, lba : Lbas, n : 1 .. MaxRead,
           data : {<<>>}] : c.lba + c.n <= Blocks }
WriteCommands(t) ==
  UNION { { c \in [op : {"WRITE_10"}, lun : {LunOf[t]}, lba : Lbas, n : {k},
                   data : [1 .. k -> Contents]] :
            c.lba + c.n <= Blocks } : k \in 1 .. MaxWrite }

OutTransfer == [kind : {"cbw", "data"}, cmd : Command]
Cbw(c)      == [kind |-> "cbw", cmd |-> c]
DataOut(c)  == [kind |-> "data", cmd |-> c]
IsWriteCbw(x) == x.kind = "cbw" /\ x.cmd.op = "WRITE_10"

Completion ==
  [kind : {"max_lun", "cbw", "csw", "data_in", "data_out", "cancelled"},
   payload : Payloads]
Completed(k, v) == [kind |-> k, payload |-> v]

Plugged == phase # "gone"

-----------------------------------------------------------------------------
(* Submitting transfers.  A submission succeeds while the pipe is active,  *)
(* that is, while the disk is plugged in.                                  *)

SubmitOut(x) ==
  outPipe' = IF Plugged THEN Append(outPipe, x) ELSE outPipe

\* usb_host_transfer_alloc: `ok` says whether the heap had room.
Allocate(ok) ==
  /\ ok \/ noMem < MaxNoMem
  /\ noMem' = IF ok THEN noMem ELSE noMem + 1

Csw_notSubmitted == \E ok \in BOOLEAN : Allocate(ok) /\ inPipe' = inPipe

\* _csw: post one IN transfer, for the status or for the data before it.
Csw ==
  \E ok \in BOOLEAN :
    /\ Allocate(ok)
    /\ inPipe' = IF ok /\ Plugged THEN inPipe + 1 ELSE inPipe

GetCapacity(l) ==
  /\ lun' = l
  /\ event' = "READ_CAPACITY_10"
  /\ SubmitOut(Cbw(CapacityCommand(l)))
  /\ Csw

Inquiry ==
  /\ event' = "INQUIRY"
  /\ SubmitOut(Cbw(InquiryCommand))
  /\ Csw
  /\ UNCHANGED lun

-----------------------------------------------------------------------------
(* The client task: usb_transfer_cb on the oldest completed transfer.  It  *)
(* tells the transfers apart by their length and signature, so everything  *)
(* that is not a CBW, a CSW or the answer to GET MAX LUN is data.          *)

Callback(kinds) ==
  /\ completed # <<>>
  /\ Head(completed).kind \in kinds
  /\ completed' = Tail(completed)

OnCBW ==
  /\ Callback({"cbw"})
  /\ UNCHANGED <<driverVars, outPipe, inPipe, noMem, taskVars, diskVars>>

CSW == {"csw", "max_lun"}

\* _emitEvent, SCSI_CMD_MAX_LUN
OnMaxLun ==
  /\ Callback(CSW)
  /\ event = "MAX_LUN"
  /\ luns' = MaxLun
  /\ GetCapacity(0)
  /\ UNCHANGED <<capacity, temp_buffer, xTaskToNotify, taskVars, diskVars>>

MoreUnits_skipsLast == lun + 1 < luns
MoreUnits_offByOne  == lun <= luns
MoreUnits           == lun < luns

\* _emitEvent, SCSI_CMD_READ_CAPACITY_10: every unit first, then INQUIRY
OnCapacityStatus ==
  /\ Callback(CSW)
  /\ event = "READ_CAPACITY_10"
  /\ IF MoreUnits THEN GetCapacity(lun + 1) ELSE Inquiry
  /\ UNCHANGED <<luns, capacity, temp_buffer, xTaskToNotify, taskVars, diskVars>>

\* _emitEvent, SCSI_CMD_INQUIRY: the user's inquiry_cb
OnInquiryStatus ==
  /\ Callback(CSW)
  /\ event = "INQUIRY"
  /\ ready' = TRUE
  /\ UNCHANGED <<driverVars, outPipe, inPipe, noMem, pc, cmd, buf, reply,
                 notified, slow, diskVars>>

Woken_onlyReaders ==
  IF event = "READ_10" /\ xTaskToNotify # NoTask THEN {xTaskToNotify} ELSE {}
Woken == IF xTaskToNotify # NoTask THEN {xTaskToNotify} ELSE {}

\* _emitEvent, SCSI_CMD_READ_10 and SCSI_CMD_WRITE_10.  The status and the
\* tag inside the CSW are never looked at.
OnTransferStatus ==
  /\ Callback(CSW)
  /\ event \in {"READ_10", "WRITE_10"}
  /\ notified' = [t \in Tasks |-> notified[t] \/ t \in Woken]
  /\ UNCHANGED <<driverVars, outPipe, inPipe, noMem, pc, cmd, buf, reply, slow,
                 ready, diskVars>>

Data == {"data_in", "data_out", "cancelled"}

OnInquiryData ==
  /\ Callback(Data)
  /\ event = "INQUIRY"
  /\ Csw
  /\ UNCHANGED <<driverVars, outPipe, taskVars, diskVars>>

\* onData and _setCapacity
OnCapacityData ==
  /\ Callback(Data)
  /\ event = "READ_CAPACITY_10"
  /\ capacity' = [capacity EXCEPT ![lun] = Head(completed).payload]
  /\ Csw
  /\ UNCHANGED <<event, luns, lun, temp_buffer, xTaskToNotify, outPipe, taskVars,
                 diskVars>>

Copied_nothing(v) == buf
Copied(v) == [buf EXCEPT ![temp_buffer][1] = v]

\* The copy always goes to the start of temp_buffer, which never advances.
OnReadData ==
  /\ Callback(Data)
  /\ event = "READ_10"
  /\ buf' = Copied(Head(completed).payload)
  /\ Csw
  /\ UNCHANGED <<driverVars, outPipe, pc, cmd, reply, notified, slow, ready,
                 diskVars>>

\* onData: nothing for SCSI_CMD_WRITE_10, a log line for any other event
OnOtherData ==
  /\ Callback(Data)
  /\ event \notin {"INQUIRY", "READ_CAPACITY_10", "READ_10"}
  /\ UNCHANGED <<driverVars, outPipe, inPipe, noMem, taskVars, diskVars>>

ClientTask ==
  \/ OnCBW
  \/ OnMaxLun \/ OnCapacityStatus \/ OnInquiryStatus \/ OnTransferStatus
  \/ OnInquiryData \/ OnCapacityData \/ OnReadData \/ OnOtherData

-----------------------------------------------------------------------------
(* The application tasks.  FatFS holds the volume's lock around a call, so *)
(* the tasks of one volume take turns.                                     *)

MayCall(t) ==
  /\ ready
  /\ pc[t] = "idle"
  /\ \A u \in Tasks : LunOf[u] = LunOf[t] => pc[u] = "idle"
  /\ Len(outPipe) + inPipe + Len(completed) <= MaxBacklog

Return(t, result) ==
  /\ pc' = [pc EXCEPT ![t] = "idle"]
  /\ reply' = [reply EXCEPT ![t] = result]

Proceed(t, label) ==
  /\ pc' = [pc EXCEPT ![t] = label]
  /\ UNCHANGED reply

\* _read10 up to the submission of the CBW
SubmitRead(t, c) ==
  /\ temp_buffer' = t
  /\ event' = "READ_10"
  /\ \E ok \in BOOLEAN :
       /\ Allocate(ok)
       /\ IF ~ok THEN Return(t, "ESP_ERR_NO_MEM") /\ UNCHANGED outPipe
          ELSE /\ Proceed(t, IF Plugged THEN "read_csw" ELSE "read_retry")
               /\ SubmitOut(Cbw(c))
  /\ UNCHANGED <<luns, lun, capacity, xTaskToNotify, inPipe, completed, buf,
                 notified, slow, ready, diskVars>>

Read10(t) ==
  /\ MayCall(t)
  /\ \E c \in ReadCommands(t) : cmd' = [cmd EXCEPT ![t] = c] /\ SubmitRead(t, c)

\* The workaround for a CBW the pipe did not take: wait a tick, call _read10
\* again.  (The _csw before it fails too: the disk is gone.)
Read10Retry(t) ==
  /\ pc[t] = "read_retry"
  /\ SubmitRead(t, cmd[t])
  /\ UNCHANGED cmd

Read10Csw(t) ==
  /\ pc[t] = "read_csw"
  /\ Csw
  /\ Proceed(t, "read_notify")
  /\ UNCHANGED <<driverVars, outPipe, completed, cmd, buf, notified, slow, ready,
                 diskVars>>

\* only now does the status know whom to wake up
Read10Notify(t) ==
  /\ pc[t] = "read_notify"
  /\ xTaskToNotify' = t
  /\ Proceed(t, "wait")
  /\ UNCHANGED <<event, luns, lun, capacity, temp_buffer, pipeVars, cmd, buf,
                 notified, slow, ready, diskVars>>

WriteCbw_sentTwice(c) == <<Cbw(c), Cbw(c)>>
WriteCbw_oneSector(c) == <<Cbw([c EXCEPT !.n = 1])>>
WriteCbw(c)           == <<Cbw(c)>>

\* _write10 up to the submission of the CBW
Write10(t) ==
  /\ MayCall(t)
  /\ event' = "WRITE_10"
  /\ \E c \in WriteCommands(t), ok \in BOOLEAN :
       /\ cmd' = [cmd EXCEPT ![t] = c]
       /\ Allocate(ok)
       /\ IF ~ok \/ ~Plugged
          THEN /\ Return(t, IF ok THEN "ESP_FAIL" ELSE "ESP_ERR_NO_MEM")
               /\ UNCHANGED outPipe
          ELSE /\ Proceed(t, "write_data")
               /\ outPipe' = outPipe \o WriteCbw(c)
  /\ UNCHANGED <<luns, lun, capacity, temp_buffer, xTaskToNotify, inPipe,
                 completed, buf, notified, slow, ready, diskVars>>

\* A data transfer the pipe refuses is freed and the status is asked for all
\* the same; that request fails with the pipe.
Write10Data(t) ==
  /\ pc[t] = "write_data"
  /\ \E ok \in BOOLEAN :
       /\ Allocate(ok)
       /\ IF ~ok \/ ~Plugged
          THEN /\ Return(t, IF ok THEN "ESP_FAIL" ELSE "ESP_ERR_NO_MEM")
               /\ UNCHANGED outPipe
          ELSE /\ Proceed(t, "write_csw")
               /\ SubmitOut(DataOut(cmd[t]))
  /\ UNCHANGED <<driverVars, inPipe, completed, cmd, buf, notified, slow, ready,
                 diskVars>>

Write10Csw(t) ==
  /\ pc[t] = "write_csw"
  /\ xTaskToNotify' = t
  /\ Csw
  /\ Proceed(t, "wait")
  /\ UNCHANGED <<event, luns, lun, capacity, temp_buffer, outPipe, completed, cmd,
                 buf, notified, slow, ready, diskVars>>

Taken_notCleared(t) == notified
Taken(t) == [notified EXCEPT ![t] = FALSE]

\* xTaskNotifyWait finds a notification, this command's or an older one's
NotifyWaitTaken(t) ==
  /\ pc[t] = "wait"
  /\ notified[t]
  /\ notified' = Taken(t)
  /\ Return(t, "ESP_OK")
  /\ UNCHANGED <<driverVars, pipeVars, cmd, buf, slow, ready, diskVars>>

\* Nothing is left to happen in the exchange: no callback to run, and the
\* disk, if it is still there, waits for the host.
Quiet ==
  /\ completed = <<>>
  /\ Plugged => /\ ~asked
                /\ phase \in {"command", "data_out"} => outPipe = <<>>
                /\ phase \in {"data_in", "status"} => inPipe = 0

Expires_never(t) == FALSE
Expires(t) == ~notified[t] /\ (Quiet \/ slow < MaxSlow)

\* xTaskNotifyWait expires: the exchange is stuck, or slower than the wait
NotifyWaitExpired(t) ==
  /\ pc[t] = "wait"
  /\ Expires(t)
  /\ slow' = IF Quiet THEN slow ELSE slow + 1
  /\ Return(t, "ESP_ERR_TIMEOUT")
  /\ UNCHANGED <<driverVars, pipeVars, cmd, buf, notified, ready, diskVars>>

AppTask(t) ==
  \/ Read10Retry(t) \/ Read10Csw(t) \/ Read10Notify(t)
  \/ Write10Data(t) \/ Write10Csw(t)
  \/ NotifyWaitTaken(t) \/ NotifyWaitExpired(t)

-----------------------------------------------------------------------------
(* The disk: a bulk-only device that serves one command at a time.         *)

Complete(k, v) == completed' = Append(completed, Completed(k, v))

DiskMaxLun ==
  /\ Plugged /\ asked
  /\ asked' = FALSE
  /\ Complete("max_lun", Junk)
  /\ UNCHANGED <<driverVars, outPipe, inPipe, noMem, taskVars, phase, current, left,
                 disk>>

DiskCommand ==
  /\ phase = "command"
  /\ outPipe # <<>>
  /\ Head(outPipe).kind = "cbw"
  /\ LET c == Head(outPipe).cmd
     IN /\ current' = c
        /\ phase' = IF c.op = "WRITE_10" THEN "data_out" ELSE "data_in"
        /\ left' = c.n
  /\ outPipe' = Tail(outPipe)
  /\ Complete("cbw", Junk)
  /\ UNCHANGED <<driverVars, inPipe, noMem, taskVars, disk, asked>>

Answer ==
  CASE current.op = "READ_10" -> disk[current.lun][current.lba + current.n - left]
    [] current.op = "READ_CAPACITY_10" -> Capacity[current.lun]
    [] OTHER -> InquiryData

DiskDataIn ==
  /\ phase = "data_in"
  /\ inPipe > 0
  /\ inPipe' = inPipe - 1
  /\ Complete("data_in", Answer)
  /\ left' = left - 1
  /\ phase' = IF left = 1 THEN "status" ELSE "data_in"
  /\ UNCHANGED <<driverVars, outPipe, noMem, taskVars, current, disk, asked>>

\* the blocks of command c, as many of them as the data d holds
Stored(c, d) ==
  [disk EXCEPT ![c.lun] =
     [b \in Lbas |-> IF b \in c.lba .. c.lba + c.n - 1 /\ b - c.lba + 1 \in DOMAIN d
                     THEN d[b - c.lba + 1] ELSE @[b]]]

\* A CBW that arrives here is a short packet: it ends the data phase and the
\* disk stores nothing.  It may refuse good data too (write-protected).
DiskDataOut ==
  /\ phase = "data_out"
  /\ outPipe # <<>>
  /\ outPipe' = Tail(outPipe)
  /\ Complete(IF Head(outPipe).kind = "cbw" THEN "cbw" ELSE "data_out", Junk)
  /\ phase' = "status"
  /\ \E accepted \in BOOLEAN :
       /\ accepted \/ Rejects \/ Head(outPipe).kind = "cbw"
       /\ accepted => Head(outPipe).kind = "data"
       /\ disk' = IF accepted THEN Stored(current, Head(outPipe).cmd.data) ELSE disk
  /\ UNCHANGED <<driverVars, inPipe, noMem, taskVars, current, left, asked>>

DiskStatus ==
  /\ phase = "status"
  /\ inPipe > 0
  /\ inPipe' = inPipe - 1
  /\ Complete("csw", Junk)
  /\ phase' = "command"
  /\ UNCHANGED <<driverVars, outPipe, noMem, taskVars, current, left, disk, asked>>

Disk == DiskMaxLun \/ DiskCommand \/ DiskDataIn \/ DiskDataOut \/ DiskStatus

\* The disk is pulled out: every submitted transfer completes empty.
Unplug ==
  /\ Unpluggable
  /\ Plugged
  /\ phase' = "gone"
  /\ LET n == Len(outPipe) + inPipe + (IF asked THEN 1 ELSE 0)
     IN completed' = completed \o [i \in 1 .. n |-> Completed("cancelled", Junk)]
  /\ outPipe' = <<>>
  /\ inPipe' = 0
  /\ UNCHANGED <<driverVars, noMem, taskVars, current, left, disk, asked>>

-----------------------------------------------------------------------------
\* Where USBmscDevice::init leaves the driver: GET MAX LUN is submitted.
Init ==
  /\ event = "MAX_LUN"
  /\ luns = 0 /\ lun = 0
  /\ capacity = [l \in Luns |-> Junk]
  /\ temp_buffer = NoTask
  /\ xTaskToNotify = NoTask
  /\ outPipe = <<>> /\ inPipe = 0 /\ completed = <<>> /\ noMem = 0
  /\ pc = [t \in Tasks |-> "idle"]
  /\ cmd = [t \in Tasks |-> InquiryCommand]
  /\ buf = [t \in Tasks |-> [i \in 1 .. MaxRead |-> Junk]]
  /\ reply = [t \in Tasks |-> "none"]
  /\ notified = [t \in Tasks |-> FALSE]
  /\ slow = 0
  /\ ready = FALSE
  /\ phase = "command" /\ current = InquiryCommand /\ left = 0 /\ asked = TRUE
  /\ disk \in [Luns -> [Lbas -> Contents]]

Next ==
  \/ ClientTask
  \/ Disk
  \/ Unplug
  \/ \E t \in Tasks : Read10(t) \/ Write10(t) \/ AppTask(t)

\* The disk answers, the client task runs (it polls with a timeout of one
\* tick, for ever), and a task inside a call is scheduled.  Nobody has to call
\* _read10 or _write10, or to pull the disk out.
Fairness ==
  /\ WF_vars(ClientTask)
  /\ WF_vars(Disk)
  /\ \A t \in Tasks : WF_vars(AppTask(t))

Spec == Init /\ [][Next]_vars
FairSpec == Spec /\ Fairness

-----------------------------------------------------------------------------
(* Properties.                                                             *)

TypeOK ==
  /\ event \in {"MAX_LUN"} \cup ScsiOps
  /\ luns \in Luns /\ lun \in Luns
  /\ capacity \in [Luns -> Payloads]
  /\ temp_buffer \in Tasks \cup {NoTask}
  /\ xTaskToNotify \in Tasks \cup {NoTask}
  /\ outPipe \in Seq(OutTransfer) /\ inPipe \in Nat
  /\ completed \in Seq(Completion) /\ noMem \in 0 .. MaxNoMem
  /\ pc \in [Tasks -> {"idle", "read_retry", "read_csw", "read_notify",
                       "write_data", "write_csw", "wait"}]
  /\ cmd \in [Tasks -> Command]
  /\ buf \in [Tasks -> [1 .. MaxRead -> Payloads]]
  /\ reply \in [Tasks -> {"none", "ESP_OK", "ESP_FAIL", "ESP_ERR_NO_MEM",
                          "ESP_ERR_TIMEOUT"}]
  /\ notified \in [Tasks -> BOOLEAN]
  /\ slow \in 0 .. MaxSlow /\ ready \in BOOLEAN
  /\ phase \in {"command", "data_in", "data_out", "status", "gone"}
  /\ current \in Command /\ left \in 0 .. current.n /\ asked \in BOOLEAN
  /\ disk \in [Luns -> [Lbas -> Contents]]

\* The OUT pipe and the disk stay in step, whatever times out: the disk meets
\* a CBW when it waits for a command, and in the data phase of a write the
\* data submitted behind that very CBW.
PipeInSync ==
  outPipe # <<>> =>
    /\ phase = "command" => Head(outPipe).kind = "cbw"
    /\ phase = "data_out" => Head(outPipe) = DataOut(current)

\* Every exchange the disk has not finished has exactly one IN transfer to its
\* name, posted, about to be posted by its task, or held by a callback that
\* will post the next: the disk is never left waiting and no transfer piles up.
ExchangeConservation ==
  LET Commands == Cardinality({i \in DOMAIN outPipe : outPipe[i].kind = "cbw"})
                  + (IF phase = "command" THEN 0 ELSE 1)
      Posted   == inPipe
                  + Cardinality({i \in DOMAIN completed : completed[i].kind = "data_in"})
                  + Cardinality({t \in Tasks : pc[t] \in {"read_csw", "write_data",
                                                          "write_csw"}})
  IN Plugged => Commands = Posted

\* When inquiry_cb tells the application that it may mount, every logical unit
\* has its own capacity on record.
ReadyMeansEnumerated ==
  ready => luns = MaxLun /\ capacity = Capacity

\* A _read10 that returned ESP_OK left the blocks it was asked for in the
\* caller's buffer, and nothing overwrites them afterwards.
ReadTruthful ==
  \A t \in Tasks :
    pc[t] = "idle" /\ reply[t] = "ESP_OK" /\ cmd[t].op = "READ_10" =>
      \A i \in 1 .. cmd[t].n : buf[t][i] = disk[cmd[t].lun][cmd[t].lba + i - 1]

\* A _write10 that returned ESP_OK left its data on the disk.
WriteTruthful ==
  \A t \in Tasks :
    pc[t] = "idle" /\ reply[t] = "ESP_OK" /\ cmd[t].op = "WRITE_10" =>
      \A i \in 1 .. cmd[t].n : cmd[t].data[i] = disk[cmd[t].lun][cmd[t].lba + i - 1]

\* What diskio promises FatFS: see BlockDevice.  A task that is inside a call
\* has a request pending; its buffer is anybody's until the call returns.
Contract == INSTANCE BlockDevice WITH
  Requests <- [t \in Tasks |-> ReadCommands(t) \cup WriteCommands(t)],
  request  <- [t \in Tasks |-> IF pc[t] = "idle" THEN [op |-> "none"] ELSE cmd[t]],
  answer   <- [t \in Tasks |->
                IF pc[t] # "idle" THEN [status |-> "pending", data |-> <<>>]
                ELSE [status |-> reply[t],
                      data |-> IF reply[t] = "ESP_OK" /\ cmd[t].op = "READ_10"
                               THEN SubSeq(buf[t], 1, cmd[t].n) ELSE <<>>]]

\* The driver implements that contract.
ImplementsBlockDevice == Contract!Spec

\* A disk that stays plugged in gets through its enumeration.
EnumerationCompletes == [](Plugged) => <>ready

\* While the disk stays, a write, or a read by the task the driver already has
\* on record, ends and ends well.
RequestsSucceed ==
  \A t \in Tasks :
    [](Plugged) =>
      ( (pc[t] = "write_data" \/ (pc[t] = "read_csw" /\ xTaskToNotify = t))
        ~> (pc[t] = "idle" /\ reply[t] = "ESP_OK") )

\* Every call returns while the disk stays, however slow it is.
RequestsReturn ==
  \A t \in Tasks : [](Plugged) => (pc[t] # "idle" ~> pc[t] = "idle")

=============================================================================
