--------------------------- MODULE UsbMsc_proofs ---------------------------
(***************************************************************************)
(* What holds of UsbMsc for every number of tasks, units, blocks and       *)
(* contents, and for every number of exchanges slower than their wait.     *)
(***************************************************************************)
EXTENDS UsbMsc, SequenceTheorems, TLAPS

-----------------------------------------------------------------------------
(* Type correctness.                                                       *)

\* The invariant that TypeOK needs: the disk counts the transfers of a data
\* phase down from the command's length, so it never reads past its blocks.
LeftOK == phase = "data_in" => left # 0

TypeInv == TypeOK /\ LeftOK

USE DEF ScsiOps

LEMMA Constants ==
  /\ MaxLun \in Nat /\ Luns \subseteq Nat /\ 0 \in Luns /\ MaxLun \in Luns
  /\ InquiryCommand \in Command
  /\ \A l \in Luns : CapacityCommand(l) \in Command /\ Capacity[l] \in Payloads
  /\ Junk \in Payloads /\ InquiryData \in Payloads /\ Contents \subseteq Payloads
  <1>1. MaxLun \in Nat /\ Luns \subseteq Nat /\ 0 \in Luns /\ MaxLun \in Luns
    BY DiskAssumption DEF Luns
  <1>2. <<>> \in Seq(Contents) /\ 0 \in Nat /\ 1 \in Nat \ {0}
    OBVIOUS
  <1>3. InquiryCommand \in Command
    BY <1>1, <1>2 DEF InquiryCommand, Command
  <1>4. ASSUME NEW l \in Luns
        PROVE  CapacityCommand(l) \in Command /\ Capacity[l] \in Payloads
    BY <1>2 DEF CapacityCommand, Command, Payloads
  <1>5. Junk \in Payloads /\ InquiryData \in Payloads /\ Contents \subseteq Payloads
    BY DEF Payloads
  <1>6. QED
    BY <1>1, <1>3, <1>4, <1>5

LEMMA CommandFields ==
  ASSUME NEW c \in Command
  PROVE  /\ c.op \in ScsiOps /\ c.lun \in Luns /\ c.lba \in Nat
         /\ c.n \in Nat /\ c.n # 0 /\ c.data \in Seq(Contents)
         /\ c.op = "READ_10" => c.lba + c.n <= Blocks
  BY DEF Command

\* Where the disk reads: l of the n transfers of the data phase are left.
LEMMA BlockRead ==
  ASSUME NEW first \in Nat, NEW n \in Nat, NEW l \in 1 .. n, Blocks \in Nat,
         first + n <= Blocks
  PROVE  first + n - l \in Lbas
  BY DEF Lbas

LEMMA Requests ==
  ASSUME NEW t \in Tasks
  PROVE  ReadCommands(t) \subseteq Command /\ WriteCommands(t) \subseteq Command
  <1> USE DiskAssumption, HostAssumption DEF Lbas, Command
  <1>1. ReadCommands(t) \subseteq Command
    <2> SUFFICES ASSUME NEW c \in ReadCommands(t) PROVE c \in Command
      OBVIOUS
    <2>1. <<>> \in Seq(Contents) /\ 1 .. MaxRead \subseteq Nat \ {0}
      OBVIOUS
    <2>2. /\ c \in [op : {"READ_10"}, lun : {LunOf[t]}, lba : Lbas,
                   n : 1 .. MaxRead, data : {<<>>}]
          /\ c.lba + c.n <= Blocks
      BY DEF ReadCommands
    <2>3. LunOf[t] \in Luns /\ Lbas \subseteq Nat
      OBVIOUS
    <2>4. QED
      BY <2>1, <2>2, <2>3
  <1>2. WriteCommands(t) \subseteq Command
    <2> SUFFICES ASSUME NEW c \in WriteCommands(t) PROVE c \in Command
      OBVIOUS
    <2>1. PICK k \in 1 .. MaxWrite :
            /\ c \in [op : {"WRITE_10"}, lun : {LunOf[t]}, lba : Lbas, n : {k},
                      data : [1 .. k -> Contents]]
            /\ c.lba + c.n <= Blocks
      BY DEF WriteCommands
    <2>2. [1 .. k -> Contents] \subseteq Seq(Contents)
      OBVIOUS
    <2>3. QED
      BY <2>1, <2>2
  <1>3. QED
    BY <1>1, <1>2

\* A callback takes one completion off the queue and leaves a queue.
LEMMA CallbackType ==
  ASSUME NEW kinds, TypeInv, Callback(kinds)
  PROVE  completed' \in Seq(Completion) /\ Head(completed).payload \in Payloads
  <1>1. completed \in Seq(Completion) /\ completed # <<>> /\ completed' = Tail(completed)
    BY DEF Callback, TypeInv, TypeOK
  <1>2. Head(completed) \in Completion /\ Tail(completed) \in Seq(Completion)
    BY <1>1, HeadTailProperties
  <1>3. QED
    BY <1>1, <1>2 DEF Completion

\* Submitting keeps the OUT pipe a sequence of transfers.
LEMMA SubmitType ==
  ASSUME TypeInv, NEW c \in Command
  PROVE  /\ Append(outPipe, Cbw(c)) \in Seq(OutTransfer)
         /\ Append(outPipe, DataOut(c)) \in Seq(OutTransfer)
         /\ outPipe \o WriteCbw(c) \in Seq(OutTransfer)
         /\ SubmitOut(Cbw(c)) => outPipe' \in Seq(OutTransfer)
         /\ SubmitOut(DataOut(c)) => outPipe' \in Seq(OutTransfer)
  <1>1. outPipe \in Seq(OutTransfer)
    BY DEF TypeInv, TypeOK
  <1>2. Cbw(c) \in OutTransfer /\ DataOut(c) \in OutTransfer
    BY DEF OutTransfer, Cbw, DataOut
  <1>3. /\ Append(outPipe, Cbw(c)) \in Seq(OutTransfer)
        /\ Append(outPipe, DataOut(c)) \in Seq(OutTransfer)
        /\ outPipe \o <<Cbw(c)>> \in Seq(OutTransfer)
    BY <1>1, <1>2
  <1>4. QED
    BY <1>1, <1>3 DEF WriteCbw, SubmitOut

LEMMA CompleteType ==
  ASSUME TypeInv, NEW k \in {"max_lun", "cbw", "csw", "data_in", "data_out"},
         NEW v \in Payloads, Complete(k, v)
  PROVE  completed' \in Seq(Completion)
  BY DEF TypeInv, TypeOK, Completion, Complete, Completed

LEMMA CswType ==
  ASSUME TypeInv, Csw
  PROVE  inPipe' \in Nat /\ noMem' \in 0 .. MaxNoMem
  BY HostAssumption DEF TypeInv, TypeOK, Csw, Allocate

LEMMA TypeInit == Init => TypeInv
  <1> SUFFICES ASSUME Init PROVE TypeInv
    OBVIOUS
  <1>1. outPipe \in Seq(OutTransfer) /\ completed \in Seq(Completion)
    BY DEF Init
  <1>2. left \in 0 .. current.n /\ LeftOK
    BY DEF Init, LeftOK, InquiryCommand
  <1>3. /\ event \in {"MAX_LUN"} \cup ScsiOps
        /\ luns \in Luns /\ lun \in Luns
        /\ temp_buffer \in Tasks \cup {NoTask} /\ xTaskToNotify \in Tasks \cup {NoTask}
        /\ inPipe \in Nat /\ noMem \in 0 .. MaxNoMem /\ slow \in 0 .. MaxSlow
        /\ ready \in BOOLEAN /\ asked \in BOOLEAN
        /\ phase \in {"command", "data_in", "data_out", "status", "gone"}
    BY Constants, HostAssumption, SMTT(30) DEF Init
  <1>4. /\ capacity \in [Luns -> Payloads]
        /\ buf \in [Tasks -> [1 .. MaxRead -> Payloads]]
        /\ disk \in [Luns -> [Lbas -> Contents]]
    BY Constants DEF Init
  <1>5. /\ cmd \in [Tasks -> Command] /\ current \in Command
        /\ notified \in [Tasks -> BOOLEAN]
    BY Constants DEF Init
  <1>6. /\ pc \in [Tasks -> {"idle", "read_retry", "read_csw", "read_notify",
                            "write_data", "write_csw", "wait"}]
        /\ reply \in [Tasks -> {"none", "ESP_OK", "ESP_FAIL", "ESP_ERR_NO_MEM",
                               "ESP_ERR_TIMEOUT"}]
    BY DEF Init
  <1>7. QED
    BY <1>1, <1>2, <1>3, <1>4, <1>5, <1>6 DEF TypeInv, TypeOK

LEMMA TypeClient == TypeInv /\ ClientTask => TypeInv'
  <1> SUFFICES ASSUME TypeInv, ClientTask PROVE TypeInv'
    OBVIOUS
  <1> USE Constants, CswType
      DEF TypeInv, TypeOK, LeftOK, driverVars, pipeVars, taskVars, diskVars
  <1>1. CASE OnCBW
    BY <1>1, CallbackType, ZenonT(60) DEF OnCBW
  <1>2. CASE OnMaxLun
    BY <1>2, CallbackType, SubmitType DEF OnMaxLun, GetCapacity
  <1>3. CASE OnCapacityStatus
    <2>1. MoreUnits => lun + 1 \in Luns
      BY DEF MoreUnits, Luns
    <2>2. QED
      BY <1>3, <2>1, CallbackType, SubmitType
      DEF OnCapacityStatus, GetCapacity, Inquiry
  <1>4. CASE OnInquiryStatus
    BY <1>4, CallbackType DEF OnInquiryStatus
  <1>5. CASE OnTransferStatus
    BY <1>5, CallbackType DEF OnTransferStatus
  <1>6. CASE OnInquiryData
    BY <1>6, CallbackType DEF OnInquiryData
  <1>7. CASE OnCapacityData
    BY <1>7, CallbackType DEF OnCapacityData
  <1>8. CASE OnReadData
    BY <1>8, CallbackType, HostAssumption DEF OnReadData, Copied
  <1>9. CASE OnOtherData
    BY <1>9, CallbackType DEF OnOtherData
  <1>10. QED
    BY <1>1, <1>2, <1>3, <1>4, <1>5, <1>6, <1>7, <1>8, <1>9 DEF ClientTask

LEMMA TypeTask ==
  ASSUME NEW t \in Tasks
  PROVE  TypeInv /\ (Read10(t) \/ Write10(t) \/ AppTask(t)) => TypeInv'
  <1> SUFFICES ASSUME TypeInv, Read10(t) \/ Write10(t) \/ AppTask(t) PROVE TypeInv'
    OBVIOUS
  <1> USE DEF TypeInv, TypeOK, LeftOK, driverVars, pipeVars, taskVars, diskVars,
              Return, Proceed
  <1>1. ASSUME NEW c \in Command, SubmitRead(t, c),
               cmd' = [cmd EXCEPT ![t] = c] \/ cmd' = cmd
        PROVE  TypeInv'
    <2>1. noMem' \in 0 .. MaxNoMem
      BY <1>1, HostAssumption DEF SubmitRead, Allocate
    <2>2. outPipe' \in Seq(OutTransfer)
      BY <1>1, SubmitType DEF SubmitRead
    <2>3. QED
      BY <1>1, <2>1, <2>2 DEF SubmitRead
  <1>2. CASE Read10(t)
    BY <1>1, <1>2, Requests DEF Read10
  <1>3. CASE Read10Retry(t)
    BY <1>1, <1>3 DEF Read10Retry
  <1>4. CASE Read10Csw(t)
    BY <1>4, CswType DEF Read10Csw
  <1>5. CASE Read10Notify(t)
    BY <1>5 DEF Read10Notify
  <1>6. CASE Write10(t)
    <2>1. PICK c \in Command, ok \in BOOLEAN :
            /\ cmd' = [cmd EXCEPT ![t] = c]
            /\ Allocate(ok)
            /\ IF ~ok \/ ~Plugged
               THEN /\ Return(t, IF ok THEN "ESP_FAIL" ELSE "ESP_ERR_NO_MEM")
                    /\ UNCHANGED outPipe
               ELSE Proceed(t, "write_data") /\ outPipe' = outPipe \o WriteCbw(c)
      BY <1>6, Requests DEF Write10
    <2>2. noMem' \in 0 .. MaxNoMem
      BY <2>1, HostAssumption DEF Allocate
    <2>3. outPipe' \in Seq(OutTransfer)
      BY <2>1, SubmitType
    <2>4. /\ pc' \in [Tasks -> {"idle", "read_retry", "read_csw", "read_notify",
                               "write_data", "write_csw", "wait"}]
          /\ reply' \in [Tasks -> {"none", "ESP_OK", "ESP_FAIL", "ESP_ERR_NO_MEM",
                                  "ESP_ERR_TIMEOUT"}]
          /\ cmd' \in [Tasks -> Command]
      BY <2>1
    <2>5. /\ event' = "WRITE_10"
          /\ UNCHANGED <<luns, lun, capacity, temp_buffer, xTaskToNotify, inPipe,
                         completed, buf, notified, slow, ready, diskVars>>
      BY <1>6 DEF Write10
    <2>6. QED
      BY <2>2, <2>3, <2>4, <2>5
  <1>7. CASE Write10Data(t)
    <2>1. noMem' \in 0 .. MaxNoMem
      BY <1>7, HostAssumption DEF Write10Data, Allocate
    <2>2. outPipe' \in Seq(OutTransfer)
      BY <1>7, SubmitType DEF Write10Data
    <2>3. pc' \in [Tasks -> {"idle", "read_retry", "read_csw", "read_notify",
                           "write_data", "write_csw", "wait"}]
      BY <1>7 DEF Write10Data
    <2>4. reply' \in [Tasks -> {"none", "ESP_OK", "ESP_FAIL", "ESP_ERR_NO_MEM",
                              "ESP_ERR_TIMEOUT"}]
      BY <1>7 DEF Write10Data
    <2>5. UNCHANGED <<driverVars, inPipe, completed, cmd, buf, notified, slow, ready,
                      diskVars>>
      BY <1>7 DEF Write10Data
    <2>6. QED
      BY <2>1, <2>2, <2>3, <2>4, <2>5
  <1>8. CASE Write10Csw(t)
    BY <1>8, CswType DEF Write10Csw
  <1>9. CASE NotifyWaitTaken(t)
    BY <1>9 DEF NotifyWaitTaken, Taken
  <1>10. CASE NotifyWaitExpired(t)
    BY <1>10, HostAssumption DEF NotifyWaitExpired, Expires
  <1>11. QED
    BY <1>2, <1>3, <1>4, <1>5, <1>6, <1>7, <1>8, <1>9, <1>10 DEF AppTask

LEMMA TypeDisk == TypeInv /\ (Disk \/ Unplug) => TypeInv'
  <1> SUFFICES ASSUME TypeInv, Disk \/ Unplug PROVE TypeInv'
    OBVIOUS
  <1> USE Constants
      DEF TypeInv, TypeOK, LeftOK, driverVars, pipeVars, taskVars, diskVars
  <1>1. CASE DiskMaxLun
    BY <1>1, CompleteType DEF DiskMaxLun
  <1>2. CASE DiskCommand
    <2>1. Head(outPipe).cmd \in Command /\ Tail(outPipe) \in Seq(OutTransfer)
      <3>1. Head(outPipe) \in OutTransfer /\ Tail(outPipe) \in Seq(OutTransfer)
        BY <1>2, HeadTailProperties DEF DiskCommand
      <3>2. QED
        BY <3>1 DEF OutTransfer
    <2>2. current' \in Command /\ left' = current'.n
      BY <1>2, <2>1 DEF DiskCommand
    <2>3. left' \in 0 .. current'.n /\ left' # 0
      BY <2>2, CommandFields
    <2>4. completed' \in Seq(Completion)
      BY <1>2, CompleteType DEF DiskCommand
    <2>5. QED
      BY <1>2, <2>1, <2>2, <2>3, <2>4 DEF DiskCommand
  <1>3. CASE DiskDataIn
    <2>1. Answer \in Payloads
      <3>1. CASE current.op = "READ_10"
        <4>1. current.lba + current.n - left \in Lbas
          <5>1. left \in 1 .. current.n /\ current.n \in Nat /\ current.lba \in Nat
            BY <1>3, CommandFields DEF DiskDataIn
          <5>2. current.lba + current.n <= Blocks
            BY <3>1, CommandFields
          <5>3. QED
            BY <5>1, <5>2, BlockRead, DiskAssumption
        <4>2. QED
          BY <3>1, <4>1, CommandFields DEF Answer
      <3>2. CASE current.op # "READ_10"
        BY <3>2, CommandFields DEF Answer
      <3>3. QED
        BY <3>1, <3>2
    <2>2. left' \in 0 .. current.n /\ (left # 1 => left' # 0)
      BY <1>3, CommandFields DEF DiskDataIn
    <2>3. QED
      BY <1>3, <2>1, <2>2, CompleteType DEF DiskDataIn
  <1>4. CASE DiskDataOut
    <2>1. /\ Head(outPipe).cmd.data \in Seq(Contents)
          /\ Tail(outPipe) \in Seq(OutTransfer)
      <3>1. Head(outPipe) \in OutTransfer /\ Tail(outPipe) \in Seq(OutTransfer)
        BY <1>4, HeadTailProperties DEF DiskDataOut
      <3>2. QED
        BY <3>1, CommandFields DEF OutTransfer
    <2>2. ASSUME NEW d \in Seq(Contents)
          PROVE  Stored(current, d) \in [Luns -> [Lbas -> Contents]]
      <3>1. \A i \in DOMAIN d : d[i] \in Contents
        OBVIOUS
      <3>2. QED
        BY <3>1, CommandFields DEF Stored
    <2>3. disk' \in [Luns -> [Lbas -> Contents]]
      BY <1>4, <2>1, <2>2 DEF DiskDataOut
    <2>4. completed' \in Seq(Completion)
      BY <1>4, CompleteType DEF DiskDataOut
    <2>5. QED
      BY <1>4, <2>1, <2>3, <2>4 DEF DiskDataOut
  <1>5. CASE DiskStatus
    BY <1>5, CompleteType DEF DiskStatus
  <1>6. CASE Unplug
    <2> DEFINE n == Len(outPipe) + inPipe + (IF asked THEN 1 ELSE 0)
               cancelled == [i \in 1 .. n |-> Completed("cancelled", Junk)]
    <2>1. n \in Nat
      OBVIOUS
    <2>2. cancelled \in Seq(Completion)
      BY <2>1 DEF Completed, Completion
    <2>3. completed' \in Seq(Completion)
      BY <1>6, <2>2 DEF Unplug
    <2>4. QED
      BY <1>6, <2>3 DEF Unplug
  <1>7. QED
    BY <1>1, <1>2, <1>3, <1>4, <1>5, <1>6 DEF Disk

LEMMA TypeStep == TypeInv /\ [Next]_vars => TypeInv'
  <1> SUFFICES ASSUME TypeInv, [Next]_vars PROVE TypeInv'
    OBVIOUS
  <1>1. CASE UNCHANGED vars
    BY <1>1 DEF TypeInv, TypeOK, LeftOK, vars, driverVars, pipeVars, taskVars, diskVars
  <1>2. CASE Next
    BY <1>2, TypeClient, TypeTask, TypeDisk DEF Next
  <1>3. QED
    BY <1>1, <1>2

\* Whatever the constants, every variable keeps its type; in particular _lun
\* stays within the four entries of block_count and block_size, and the disk
\* is never asked for a block it does not have.
THEOREM TypeCorrect == Spec => []TypeOK
  <1>1. TypeInv => TypeOK
    BY DEF TypeInv
  <1>2. QED
    BY <1>1, TypeInit, TypeStep, PTL DEF Spec

-----------------------------------------------------------------------------
(* The OUT pipe and the disk stay in step.                                 *)

\* One task at a time is inside a call, and only after the enumeration: the
\* commands of the enumeration and those of the tasks never interleave.
OneCaller ==
  /\ \A t \in Tasks : pc[t] # "idle" => ready
  /\ event \in {"MAX_LUN", "READ_CAPACITY_10"} => ~ready
  /\ \A t, u \in Tasks : pc[t] # "idle" /\ pc[u] # "idle" => t = u

\* the transfer y may be submitted right behind x
Follows(x, y) == IF IsWriteCbw(x) THEN y = DataOut(x.cmd) ELSE y.kind = "cbw"
InOrder(p)    == \A i \in 1 .. Len(p) - 1 : Follows(p[i], p[i + 1])

\* what the disk meets first
FirstFits ==
  outPipe # <<>> =>
    IF phase = "data_out" THEN outPipe[1] = DataOut(current)
    ELSE outPipe[1].kind = "cbw"

\* A task that still owes data has its CBW last in the pipe, or the disk has it
\* already; when nobody owes data there is no such CBW.
DataOwed(c) ==
  /\ c.op = "WRITE_10"
  /\ IF outPipe = <<>> THEN phase = "data_out" /\ current = c
     ELSE outPipe[Len(outPipe)] = Cbw(c)
NoDataOwed ==
  IF outPipe = <<>> THEN phase # "data_out" ELSE ~IsWriteCbw(outPipe[Len(outPipe)])
LastFits ==
  /\ \A t \in Tasks : pc[t] = "write_data" => DataOwed(cmd[t])
  /\ (\A t \in Tasks : pc[t] # "write_data") => NoDataOwed

PipeFits ==
  IF Plugged THEN InOrder(outPipe) /\ FirstFits /\ LastFits
  ELSE outPipe = <<>>

\* A CBW is only retried when the disk is gone.
RetryGone == \A t \in Tasks : pc[t] = "read_retry" => ~Plugged

SyncInv == OneCaller /\ RetryGone /\ PipeFits

\* What Append, Tail and Head do to a pipe in order.
LEMMA AppendInOrder ==
  ASSUME NEW S, NEW p \in Seq(S), NEW x \in S, InOrder(p),
         p # <<>> => Follows(p[Len(p)], x)
  PROVE  /\ InOrder(Append(p, x))
         /\ Append(p, x) # <<>>
         /\ Append(p, x)[Len(Append(p, x))] = x
         /\ p # <<>> => Append(p, x)[1] = p[1]
         /\ p = <<>> => Append(p, x)[1] = x
  <1>1. Append(p, x) \in Seq(S) /\ Len(Append(p, x)) = Len(p) + 1 /\ Len(p) \in Nat
    OBVIOUS
  <1>2. \A i \in 1 .. Len(p) : Append(p, x)[i] = p[i]
    OBVIOUS
  <1>3. Append(p, x)[Len(p) + 1] = x
    OBVIOUS
  <1>4. p # <<>> <=> Len(p) > 0
    OBVIOUS
  <1>5. ASSUME NEW i \in 1 .. Len(p)
        PROVE  Follows(Append(p, x)[i], Append(p, x)[i + 1])
    <2>1. CASE i = Len(p)
      BY <1>2, <1>3, <1>4, <2>1
    <2>2. CASE i # Len(p)
      <3>1. i \in 1 .. Len(p) - 1 /\ i + 1 \in 1 .. Len(p)
        BY <1>1, <2>2
      <3>2. Follows(p[i], p[i + 1])
        BY <3>1 DEF InOrder
      <3>3. QED
        BY <1>2, <3>1, <3>2
    <2>3. QED
      BY <2>1, <2>2
  <1>6. InOrder(Append(p, x))
    BY <1>1, <1>5 DEF InOrder
  <1>7. Append(p, x) # <<>> /\ Append(p, x)[Len(Append(p, x))] = x
    BY <1>1, <1>3
  <1>8. p # <<>> => Append(p, x)[1] = p[1]
    BY <1>1, <1>2, <1>4
  <1>9. p = <<>> => Append(p, x)[1] = x
    BY <1>1, <1>3
  <1>10. QED
    BY <1>6, <1>7, <1>8, <1>9

LEMMA TailInOrder ==
  ASSUME NEW S, NEW p \in Seq(S), p # <<>>, InOrder(p)
  PROVE  /\ Tail(p) \in Seq(S) /\ Head(p) \in S /\ Head(p) = p[1]
         /\ InOrder(Tail(p))
         /\ Tail(p) # <<>> => /\ Follows(p[1], Tail(p)[1])
                              /\ Tail(p)[Len(Tail(p))] = p[Len(p)]
         /\ Tail(p) = <<>> => p[Len(p)] = p[1]
  <1>1. Tail(p) \in Seq(S) /\ Head(p) \in S /\ Head(p) = p[1]
    BY HeadTailProperties
  <1>2. Len(p) \in Nat \ {0} /\ Len(Tail(p)) = Len(p) - 1
    BY HeadTailProperties
  <1>3. \A i \in 1 .. Len(p) - 1 : Tail(p)[i] = p[i + 1]
    BY <1>2
  <1>4. InOrder(Tail(p))
    <2>1. ASSUME NEW i \in 1 .. Len(Tail(p)) - 1
          PROVE  Follows(Tail(p)[i], Tail(p)[i + 1])
      <3>1. i \in 1 .. Len(p) - 1 /\ i + 1 \in 1 .. Len(p) - 1
        BY <1>2
      <3>2. Follows(p[i + 1], p[(i + 1) + 1])
        BY <3>1 DEF InOrder
      <3>3. QED
        BY <1>3, <3>1, <3>2
    <2>2. QED
      BY <2>1 DEF InOrder
  <1>5. ASSUME Tail(p) # <<>>
        PROVE  Follows(p[1], Tail(p)[1]) /\ Tail(p)[Len(Tail(p))] = p[Len(p)]
    <2>1. Len(p) \in Nat /\ Len(p) - 1 >= 1
      BY <1>1, <1>2, <1>5
    <2>2. 1 \in 1 .. Len(p) - 1 /\ Len(p) - 1 \in 1 .. Len(p) - 1
      BY <2>1
    <2>3. Follows(p[1], p[2])
      BY <2>2 DEF InOrder
    <2>4. Tail(p)[1] = p[2]
      BY <1>3, <2>2
    <2>5. Tail(p)[Len(p) - 1] = p[Len(p)]
      BY <1>3, <2>1, <2>2
    <2>6. QED
      BY <1>2, <2>3, <2>4, <2>5
  <1>6. Tail(p) = <<>> => p[Len(p)] = p[1]
    BY <1>1, <1>2
  <1>7. QED
    BY <1>1, <1>4, <1>5, <1>6

\* The theorem's assumptions: one volume in use, and a heap with room.
OneVolume == \A t, u \in Tasks : LunOf[t] = LunOf[u]

LEMMA SyncInit == Init => SyncInv
  <1> SUFFICES ASSUME Init PROVE SyncInv
    OBVIOUS
  <1> USE DEF Init
  <1>1. OneCaller /\ RetryGone
    BY DEF OneCaller, RetryGone
  <1>2. PipeFits
    BY DEF PipeFits, InOrder, FirstFits, LastFits, NoDataOwed
  <1>3. QED
    BY <1>1, <1>2 DEF SyncInv

\* Nothing PipeFits talks about changes but the tasks that owe no data.
LEMMA PipeUntouched ==
  ASSUME SyncInv, UNCHANGED <<outPipe, phase, current, cmd>>,
         \A t \in Tasks : pc'[t] = "write_data" <=> pc[t] = "write_data"
  PROVE  PipeFits'
  BY DEF SyncInv, PipeFits, InOrder, FirstFits, LastFits, DataOwed, NoDataOwed,
         Plugged, Follows

\* A CBW goes behind a complete exchange.
LEMMA CbwSubmitted ==
  ASSUME TypeInv, SyncInv, NEW c \in Command, Plugged,
         \A t \in Tasks : pc[t] # "write_data",
         outPipe' = Append(outPipe, Cbw(c)), UNCHANGED <<phase, current>>,
         \/ c.op # "WRITE_10" /\ \A t \in Tasks : pc'[t] # "write_data"
         \/ /\ c.op = "WRITE_10"
            /\ \E t \in Tasks : pc'[t] = "write_data"
            /\ \A t \in Tasks : pc'[t] = "write_data" => cmd'[t] = c
  PROVE  PipeFits'
  <1>1. InOrder(outPipe) /\ FirstFits /\ NoDataOwed
    BY DEF SyncInv, PipeFits, LastFits
  <1>2. outPipe \in Seq(OutTransfer) /\ Cbw(c) \in OutTransfer
    BY DEF TypeInv, TypeOK, Cbw, OutTransfer
  <1>3. outPipe # <<>> => Follows(outPipe[Len(outPipe)], Cbw(c))
    BY <1>1 DEF NoDataOwed, Follows, Cbw
  <1>4. /\ InOrder(outPipe') /\ outPipe' # <<>> /\ outPipe'[Len(outPipe')] = Cbw(c)
        /\ outPipe # <<>> => outPipe'[1] = outPipe[1]
        /\ outPipe = <<>> => outPipe'[1] = Cbw(c)
    BY <1>1, <1>2, <1>3, AppendInOrder
  <1>5. FirstFits'
    BY <1>1, <1>4 DEF FirstFits, NoDataOwed, Cbw
  <1>6. LastFits'
    BY <1>4 DEF LastFits, DataOwed, NoDataOwed, IsWriteCbw, Cbw
  <1>7. QED
    BY <1>4, <1>5, <1>6 DEF PipeFits, Plugged, InOrder

LEMMA SyncClient ==
  ASSUME TypeInv, SyncInv, ClientTask
  PROVE  SyncInv'
  <1> USE DEF driverVars, pipeVars, taskVars, diskVars
  <1>1. CASE OnCBW \/ OnInquiryStatus \/ OnTransferStatus \/ OnInquiryData
             \/ OnCapacityData \/ OnReadData \/ OnOtherData
    <2> USE DEF OnCBW, OnInquiryStatus, OnTransferStatus, OnInquiryData,
                OnCapacityData, OnReadData, OnOtherData
    <2>1. UNCHANGED <<outPipe, phase, current, pc, cmd>>
      BY <1>1
    <2>2. PipeFits'
      BY <2>1, PipeUntouched
    <2>3. OneCaller' /\ RetryGone'
      BY <1>1, <2>1 DEF SyncInv, OneCaller, RetryGone, Plugged
    <2>4. QED
      BY <2>2, <2>3 DEF SyncInv
  <1>2. CASE OnMaxLun \/ OnCapacityStatus
    <2>1. PICK c \in Command :
            /\ c.op # "WRITE_10" /\ SubmitOut(Cbw(c))
            /\ event' \in {"READ_CAPACITY_10", "INQUIRY"}
      <3>1. \A l \in Nat : CapacityCommand(l).op # "WRITE_10"
        BY DEF CapacityCommand
      <3>2. InquiryCommand.op # "WRITE_10"
        BY DEF InquiryCommand
      <3>3. MoreUnits => lun + 1 \in Luns
        BY Constants DEF MoreUnits, Luns, TypeInv, TypeOK
      <3>4. QED
        BY <1>2, <3>1, <3>2, <3>3, Constants
        DEF OnMaxLun, OnCapacityStatus, GetCapacity, Inquiry
    <2>2. UNCHANGED <<phase, current, pc, cmd, ready>>
      BY <1>2 DEF OnMaxLun, OnCapacityStatus
    <2>3. ~ready /\ \A t \in Tasks : pc[t] = "idle"
      BY <1>2 DEF OnMaxLun, OnCapacityStatus, SyncInv, OneCaller
    <2>4. PipeFits'
      <3>1. CASE Plugged
        BY <2>1, <2>2, <2>3, <3>1, CbwSubmitted DEF SubmitOut
      <3>2. CASE ~Plugged
        BY <2>1, <2>2, <3>2 DEF SubmitOut, SyncInv, PipeFits, Plugged
      <3>3. QED
        BY <3>1, <3>2
    <2>5. OneCaller' /\ RetryGone'
      BY <2>2, <2>3 DEF SyncInv, OneCaller, RetryGone, Plugged
    <2>6. QED
      BY <2>4, <2>5 DEF SyncInv
  <1>3. QED
    BY <1>1, <1>2 DEF ClientTask

LEMMA SyncDisk ==
  ASSUME TypeInv, SyncInv, Disk \/ Unplug
  PROVE  SyncInv'
  <1> USE DEF driverVars, pipeVars, taskVars, diskVars
  <1>1. UNCHANGED <<pc, cmd, ready, event>> /\ (phase = "gone" => phase' = "gone")
    BY DEF Disk, DiskMaxLun, DiskCommand, DiskDataIn, DiskDataOut, DiskStatus,
           Unplug, Plugged
  <1>2. OneCaller' /\ RetryGone'
    BY <1>1 DEF SyncInv, OneCaller, RetryGone, Plugged
  <1>3. outPipe \in Seq(OutTransfer)
    BY DEF TypeInv, TypeOK
  <1>4. Plugged /\ ~Unplug =>
          InOrder(outPipe) /\ FirstFits /\ LastFits /\ phase' # "gone"
    BY DEF SyncInv, PipeFits, Plugged, Disk, DiskMaxLun, DiskCommand,
           DiskDataIn, DiskDataOut, DiskStatus
  <1>5. PipeFits'
    <2>1. CASE DiskMaxLun
      BY <1>1, <2>1, PipeUntouched DEF DiskMaxLun
    <2>2. CASE DiskCommand
      <3> DEFINE c == outPipe[1].cmd
      <3>1. /\ Plugged /\ outPipe # <<>> /\ outPipe[1].kind = "cbw"
            /\ outPipe' = Tail(outPipe) /\ current' = c
            /\ phase' = IF c.op = "WRITE_10" THEN "data_out" ELSE "data_in"
        BY <1>3, <2>2, HeadTailProperties DEF DiskCommand, Plugged
      <3>2. InOrder(outPipe) /\ LastFits
        BY <1>4, <2>2, <3>1 DEF SyncInv, PipeFits
      <3>3. /\ InOrder(outPipe')
            /\ outPipe' # <<>> => /\ Follows(outPipe[1], outPipe'[1])
                                  /\ outPipe'[Len(outPipe')] = outPipe[Len(outPipe)]
            /\ outPipe' = <<>> => outPipe[Len(outPipe)] = outPipe[1]
        BY <1>3, <3>1, <3>2, TailInOrder
      <3>4. FirstFits'
        BY <3>1, <3>3 DEF FirstFits, Follows, IsWriteCbw
      <3>5. ASSUME NEW t \in Tasks, pc'[t] = "write_data"
            PROVE  DataOwed(cmd[t])'
        <4>1. DataOwed(cmd[t])
          BY <1>1, <3>2, <3>5 DEF LastFits
        <4>2. QED
          BY <1>1, <3>1, <3>3, <4>1 DEF DataOwed, Cbw
      <3>6. ASSUME \A t \in Tasks : pc'[t] # "write_data"
            PROVE  NoDataOwed'
        <4>1. NoDataOwed
          BY <1>1, <3>2, <3>6 DEF LastFits
        <4>2. QED
          BY <3>1, <3>3, <4>1 DEF NoDataOwed, IsWriteCbw
      <3>7. LastFits'
        BY <3>5, <3>6 DEF LastFits
      <3>8. QED
        BY <3>1, <3>3, <3>4, <3>7 DEF PipeFits, Plugged, InOrder
    <2>3. CASE DiskDataIn \/ DiskStatus
      <3>1. /\ Plugged /\ phase # "data_out" /\ phase' \notin {"data_out", "gone"}
            /\ UNCHANGED <<outPipe, current>>
        BY <2>3 DEF DiskDataIn, DiskStatus, Plugged
      <3>2. QED
        BY <1>1, <3>1
        DEF SyncInv, PipeFits, InOrder, FirstFits, LastFits, DataOwed, NoDataOwed,
            Plugged, Follows
    <2>4. CASE DiskDataOut
      <3>1. /\ Plugged /\ phase = "data_out" /\ outPipe # <<>>
            /\ outPipe' = Tail(outPipe) /\ phase' = "status"
        BY <2>4 DEF DiskDataOut, Plugged
      <3>2. InOrder(outPipe) /\ FirstFits /\ LastFits
        BY <3>1 DEF SyncInv, PipeFits
      <3>3. outPipe[1] = DataOut(current)
        BY <3>1, <3>2 DEF FirstFits
      <3>4. /\ InOrder(outPipe')
            /\ outPipe' # <<>> => /\ Follows(outPipe[1], outPipe'[1])
                                  /\ outPipe'[Len(outPipe')] = outPipe[Len(outPipe)]
            /\ outPipe' = <<>> => outPipe[Len(outPipe)] = outPipe[1]
        BY <1>3, <3>1, <3>2, TailInOrder
      <3>5. FirstFits'
        BY <3>1, <3>3, <3>4 DEF FirstFits, Follows, IsWriteCbw, DataOut
      <3>6. ASSUME NEW t \in Tasks, pc'[t] = "write_data"
            PROVE  DataOwed(cmd[t])'
        <4>1. DataOwed(cmd[t])
          BY <1>1, <3>2, <3>6 DEF LastFits
        <4>2. QED
          BY <1>1, <3>1, <3>3, <3>4, <4>1 DEF DataOwed, Cbw, DataOut
      <3>7. ASSUME \A t \in Tasks : pc'[t] # "write_data"
            PROVE  NoDataOwed'
        <4>1. NoDataOwed
          BY <1>1, <3>2, <3>7 DEF LastFits
        <4>2. QED
          BY <3>1, <3>4, <4>1 DEF NoDataOwed
      <3>8. LastFits'
        BY <3>6, <3>7 DEF LastFits
      <3>9. QED
        BY <3>1, <3>4, <3>5, <3>8 DEF PipeFits, Plugged, InOrder
    <2>5. CASE Unplug
      BY <2>5 DEF Unplug, PipeFits, Plugged
    <2>6. QED
      BY <2>1, <2>2, <2>3, <2>4, <2>5 DEF Disk
  <1>6. QED
    BY <1>2, <1>5 DEF SyncInv

LEMMA SyncTask ==
  ASSUME OneVolume, MaxNoMem = 0, TypeInv, SyncInv,
         NEW t \in Tasks, Read10(t) \/ Write10(t) \/ AppTask(t)
  PROVE  SyncInv'
  <1> USE DEF driverVars, pipeVars, taskVars, diskVars, Return, Proceed
  <1>1. /\ pc \in [Tasks -> {"idle", "read_retry", "read_csw", "read_notify",
                            "write_data", "write_csw", "wait"}]
        /\ cmd \in [Tasks -> Command] /\ outPipe \in Seq(OutTransfer)
    BY DEF TypeInv, TypeOK
  <1>2. \A ok \in BOOLEAN : Allocate(ok) => ok
    BY HostAssumption DEF TypeInv, TypeOK, Allocate
  \* the others are idle, before and after
  <1>3. ready /\ \A u \in Tasks : u # t => pc[u] = "idle"
    BY DEF SyncInv, OneCaller, OneVolume, MayCall, Read10, Write10, AppTask,
           Read10Retry, Read10Csw, Read10Notify, Write10Data, Write10Csw,
           NotifyWaitTaken, NotifyWaitExpired
  <1>4. /\ UNCHANGED <<ready, phase, current>>
        /\ \A u \in Tasks : u # t => pc'[u] = pc[u]
        /\ event' \in {event, "READ_10", "WRITE_10"}
    BY <1>1
    DEF Read10, Write10, AppTask, SubmitRead, Read10Retry, Read10Csw, Read10Notify,
        Write10Data, Write10Csw, NotifyWaitTaken, NotifyWaitExpired
  <1>5. OneCaller'
    BY <1>3, <1>4 DEF SyncInv, OneCaller
  <1>6. ASSUME NEW c \in Command, c.op = "READ_10", SubmitRead(t, c),
               pc[t] # "write_data"
        PROVE  PipeFits' /\ (pc'[t] = "read_retry" => ~Plugged)
    <2>1. /\ pc'[t] = IF Plugged THEN "read_csw" ELSE "read_retry"
          /\ SubmitOut(Cbw(c))
      BY <1>1, <1>2, <1>6 DEF SubmitRead
    <2>2. /\ \A u \in Tasks : pc[u] # "write_data"
          /\ \A u \in Tasks : pc'[u] # "write_data"
      BY <1>3, <1>4, <1>6, <2>1
    <2>3. CASE Plugged
      BY <1>4, <1>6, <2>1, <2>2, <2>3, CbwSubmitted DEF SubmitOut
    <2>4. CASE ~Plugged
      BY <1>4, <2>1, <2>4 DEF SubmitOut, SyncInv, PipeFits, Plugged
    <2>5. QED
      BY <2>1, <2>3, <2>4
  <1>7. PipeFits' /\ (pc'[t] = "read_retry" => ~Plugged)
    <2>1. CASE Read10(t)
      <3>1. PICK c \in ReadCommands(t) : SubmitRead(t, c)
        BY <2>1 DEF Read10
      <3>2. c \in Command /\ c.op = "READ_10" /\ pc[t] # "write_data"
        BY <2>1, Requests DEF ReadCommands, Read10, MayCall
      <3>3. QED
        BY <1>6, <3>1, <3>2
    <2>2. CASE Read10Retry(t)
      <3>1. ~Plugged /\ outPipe = <<>>
        BY <2>2 DEF Read10Retry, SyncInv, RetryGone, PipeFits
      <3>2. outPipe' = <<>>
        BY <1>2, <2>2, <3>1 DEF Read10Retry, SubmitRead, SubmitOut
      <3>3. QED
        BY <1>4, <3>1, <3>2 DEF PipeFits, Plugged
    <2>3. CASE Read10Csw(t) \/ Read10Notify(t) \/ Write10Csw(t)
               \/ NotifyWaitTaken(t) \/ NotifyWaitExpired(t)
      <3> USE DEF Read10Csw, Read10Notify, Write10Csw, NotifyWaitTaken,
                  NotifyWaitExpired
      <3>1. pc[t] # "write_data" /\ pc'[t] \notin {"write_data", "read_retry"}
        BY <1>1, <2>3
      <3>2. UNCHANGED <<outPipe, cmd>>
        BY <2>3
      <3>3. QED
        BY <1>4, <3>1, <3>2, PipeUntouched
    <2>4. CASE Write10(t)
      <3>1. PICK c \in WriteCommands(t) :
              /\ cmd' = [cmd EXCEPT ![t] = c]
              /\ IF ~Plugged THEN Return(t, "ESP_FAIL") /\ UNCHANGED outPipe
                 ELSE Proceed(t, "write_data") /\ outPipe' = outPipe \o WriteCbw(c)
        BY <1>2, <2>4 DEF Write10
      <3>2. c \in Command /\ c.op = "WRITE_10" /\ pc[t] = "idle"
        BY <2>4, Requests DEF WriteCommands, Write10, MayCall
      <3>3. CASE Plugged
        <4>1. outPipe' = Append(outPipe, Cbw(c))
          BY <1>1, <3>1, <3>3 DEF WriteCbw
        <4>2. pc'[t] = "write_data" /\ cmd'[t] = c
          BY <1>1, <3>1, <3>3
        <4>3. /\ \A u \in Tasks : pc[u] # "write_data"
              /\ \A u \in Tasks : pc'[u] = "write_data" => u = t
          BY <1>3, <1>4, <3>2
        <4>4. QED
          BY <1>4, <3>2, <3>3, <4>1, <4>2, <4>3, CbwSubmitted
      <3>4. CASE ~Plugged
        BY <1>1, <1>4, <3>1, <3>4 DEF SyncInv, PipeFits, Plugged
      <3>5. QED
        BY <3>3, <3>4
    <2>5. CASE Write10Data(t)
      <3>1. /\ pc[t] = "write_data" /\ UNCHANGED cmd
            /\ IF ~Plugged THEN Return(t, "ESP_FAIL") /\ UNCHANGED outPipe
               ELSE Proceed(t, "write_csw") /\ SubmitOut(DataOut(cmd[t]))
        BY <1>2, <2>5 DEF Write10Data
      <3>2. \A u \in Tasks : pc'[u] # "write_data"
        BY <1>1, <1>3, <1>4, <3>1
      <3>3. CASE Plugged
        <4> DEFINE x == DataOut(cmd[t])
        <4>1. outPipe' = Append(outPipe, x) /\ x \in OutTransfer
          BY <1>1, <3>1, <3>3 DEF SubmitOut, DataOut, OutTransfer
        <4>2. InOrder(outPipe) /\ FirstFits /\ DataOwed(cmd[t])
          BY <3>1, <3>3 DEF SyncInv, PipeFits, LastFits
        <4>3. outPipe # <<>> => Follows(outPipe[Len(outPipe)], x)
          BY <4>2 DEF DataOwed, Follows, IsWriteCbw, Cbw
        <4>4. /\ InOrder(outPipe') /\ outPipe' # <<>> /\ outPipe'[Len(outPipe')] = x
              /\ outPipe # <<>> => outPipe'[1] = outPipe[1]
              /\ outPipe = <<>> => outPipe'[1] = x
          BY <1>1, <4>1, <4>2, <4>3, AppendInOrder
        <4>5. FirstFits'
          BY <1>4, <4>2, <4>4 DEF FirstFits, DataOwed
        <4>6. LastFits'
          BY <3>2, <4>4 DEF LastFits, NoDataOwed, IsWriteCbw, DataOut
        <4>7. QED
          BY <1>1, <1>4, <3>1, <3>3, <4>4, <4>5, <4>6 DEF PipeFits, Plugged, InOrder
      <3>4. CASE ~Plugged
        BY <1>1, <1>4, <3>1, <3>4 DEF SyncInv, PipeFits, Plugged
      <3>5. QED
        BY <3>3, <3>4
    <2>6. QED
      BY <2>1, <2>2, <2>3, <2>4, <2>5 DEF AppTask
  <1>8. RetryGone'
    BY <1>3, <1>4, <1>7 DEF RetryGone, Plugged
  <1>9. QED
    BY <1>5, <1>7, <1>8 DEF SyncInv

LEMMA SyncStep ==
  ASSUME OneVolume, MaxNoMem = 0
  PROVE  TypeInv /\ SyncInv /\ [Next]_vars => SyncInv'
  <1> SUFFICES ASSUME TypeInv, SyncInv, [Next]_vars PROVE SyncInv'
    OBVIOUS
  <1>1. CASE UNCHANGED vars
    BY <1>1
    DEF SyncInv, OneCaller, RetryGone, PipeFits, InOrder, FirstFits, LastFits,
        DataOwed, NoDataOwed, Plugged, Follows, vars, driverVars, pipeVars,
        taskVars, diskVars
  <1>2. CASE Next
    BY <1>2, SyncClient, SyncDisk, SyncTask DEF Next
  <1>3. QED
    BY <1>1, <1>2

LEMMA SyncImplies == TypeInv /\ SyncInv => PipeInSync
  <1> SUFFICES ASSUME TypeInv, SyncInv, outPipe # <<>>
               PROVE  /\ phase = "command" => Head(outPipe).kind = "cbw"
                      /\ phase = "data_out" => Head(outPipe) = DataOut(current)
    BY DEF PipeInSync
  <1>1. outPipe \in Seq(OutTransfer)
    BY DEF TypeInv, TypeOK
  <1>2. Head(outPipe) = outPipe[1]
    BY <1>1
  <1>3. FirstFits
    BY DEF SyncInv, PipeFits
  <1>4. QED
    BY <1>2, <1>3 DEF FirstFits

\* As long as one volume is in use and the heap has room, the OUT pipe and the
\* disk stay in step: however many calls time out, however late the callbacks
\* of _read10 and _write10 come, and whatever the disk refuses, no data block is
\* ever taken for a command or stored by another command than its own.
THEOREM OutPipeInSync ==
  ASSUME OneVolume, MaxNoMem = 0
  PROVE  Spec => []PipeInSync
  <1>1. Init => TypeInv /\ SyncInv
    BY TypeInit, SyncInit
  <1>2. TypeInv /\ SyncInv /\ [Next]_vars => (TypeInv /\ SyncInv)'
    BY TypeStep, SyncStep
  <1>3. TypeInv /\ SyncInv => PipeInSync
    BY SyncImplies
  <1>4. QED
    BY <1>1, <1>2, <1>3, PTL DEF Spec

=============================================================================
