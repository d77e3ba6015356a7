------------------------ MODULE UsbMscSerial_proofs ------------------------
(***************************************************************************)
(* The exchanges UsbMsc runs one after the other: what the enumeration of  *)
(* the disk achieves whatever fails meanwhile, and what one application    *)
(* task may rely on as long as no wait ends early.                         *)
(***************************************************************************)
EXTENDS UsbMsc_proofs, FiniteSetTheorems

USE DEF ScsiOps

-----------------------------------------------------------------------------
(* The stages of one exchange.                                             *)

Finished(k) == Completed(k, Junk)
DataIn(v)   == Completed("data_in", v)

\* what the disk answers to a command for one block
AnswerTo(c) ==
  CASE c.op = "READ_10" -> disk[c.lun][c.lba]
    [] c.op = "READ_CAPACITY_10" -> Capacity[c.lun]
    [] OTHER -> InquiryData

\* Before the next answer: n IN transfers are posted.
Asking(c, n) ==
  /\ inPipe = n
  /\ \/ /\ phase = "command" /\ outPipe = <<Cbw(c)>>
        /\ completed = <<>>
     \/ /\ phase = "data_in" /\ current = c /\ outPipe = <<>>
        /\ completed \in {<<>>, <<Finished("cbw")>>}

\* An answer is on its way to onData.
Answered(c) ==
  /\ phase \in {"data_in", "status"} /\ current = c
  /\ phase = "data_in" => c.n # 1
  /\ outPipe = <<>> /\ inPipe = 0
  /\ completed # <<>>
  /\ LET v == completed[Len(completed)].payload
     IN /\ c.n = 1 => v = AnswerTo(c)
        /\ completed \in {<<Finished("cbw"), DataIn(v)>>, <<DataIn(v)>>}

\* onData has had the last of them, and n transfers wait for the status.
Ending(c, n) ==
  /\ phase = "status" /\ current = c
  /\ outPipe = <<>> /\ inPipe = n /\ completed = <<>>

\* The status is on its way to _emitEvent.
Ended ==
  /\ phase = "command" /\ outPipe = <<>> /\ inPipe = 0
  /\ completed = <<Finished("csw")>>

Reading(c, n) == Asking(c, n) \/ Answered(c) \/ Ending(c, n) \/ Ended

\* Nothing is under way.
Nothing ==
  /\ phase = "command" /\ outPipe = <<>> /\ inPipe = 0 /\ completed = <<>>

\* no callback to come will be taken for a status
NoStatus == \A i \in 1 .. Len(completed) : completed[i].kind \notin CSW
-----------------------------------------------------------------------------
(* The pipes are so short that they are compared entry by entry.           *)

LEMMA ShortSequences ==
  ASSUME NEW a, NEW b, NEW c
  PROVE  /\ Append(<<a>>, b) = <<a, b>>
         /\ Tail(<<a, b, c>>) = <<b, c>>
         /\ <<a>> \o <<b>> = <<a, b>>
         /\ <<a, b>> # <<c>> /\ <<a, b>> # <<>> /\ <<a>> # <<>>
  <1> DEFINE S == {a, b, c}
  <1>1. /\ <<a>> \in Seq(S) /\ <<b>> \in Seq(S)
        /\ <<a, b>> \in Seq(S) /\ <<b, c>> \in Seq(S)
    OBVIOUS
  <1>2. /\ Append(<<a>>, b) \in Seq(S)
        /\ <<a>> \o <<b>> \in Seq(S) /\ Tail(<<a, b, c>>) \in Seq(S)
    OBVIOUS
  <1> HIDE DEF S
  <1>3. Append(<<a>>, b) = <<a, b>>
    <2>1. Len(Append(<<a>>, b)) = 2 /\ Len(<<a, b>>) = 2
      OBVIOUS
    <2>2. \A i \in 1 .. 2 : Append(<<a>>, b)[i] = <<a, b>>[i]
      OBVIOUS
    <2>3. QED
      BY <1>1, <1>2, <2>1, <2>2, SeqEqual
  <1>5. Tail(<<a, b, c>>) = <<b, c>>
    OBVIOUS
  <1>6. <<a>> \o <<b>> = <<a, b>>
    <2>1. Len(<<a>> \o <<b>>) = 2 /\ Len(<<a, b>>) = 2
      OBVIOUS
    <2>2. \A i \in 1 .. 2 : (<<a>> \o <<b>>)[i] = <<a, b>>[i]
      OBVIOUS
    <2>3. QED
      BY <1>1, <1>2, <2>1, <2>2, SeqEqual
  <1>7. <<a, b>> # <<c>> /\ <<a, b>> # <<>> /\ <<a>> # <<>>
    OBVIOUS
  <1>8. QED
    BY <1>3, <1>5, <1>6, <1>7

LEMMA AppendToTwo ==
  ASSUME NEW a, NEW b, NEW c
  PROVE  Append(<<a, b>>, c) = <<a, b, c>>
  <1> DEFINE S == {a, b, c}
  <1>1. <<a, b>> \in Seq(S) /\ <<a, b, c>> \in Seq(S) /\ Append(<<a, b>>, c) \in Seq(S)
    OBVIOUS
  <1> HIDE DEF S
  <1>2. Len(Append(<<a, b>>, c)) = 3 /\ Len(<<a, b, c>>) = 3
    OBVIOUS
  <1>3. \A i \in 1 .. 3 : Append(<<a, b>>, c)[i] = <<a, b, c>>[i]
    OBVIOUS
  <1>4. QED
    BY <1>1, <1>2, <1>3, SeqEqual

\* Without a status among them, the completions stay so as callbacks run.
LEMMA NoStatusTail ==
  ASSUME TypeInv, NEW kinds, Callback(kinds)
  PROVE  /\ NoStatus => Head(completed).kind \notin CSW /\ NoStatus'
         /\ \A k : completed = <<k>> => Head(completed) = k /\ completed' = <<>>
  <1>1. /\ completed \in Seq(Completion) /\ completed # <<>>
        /\ completed' = Tail(completed)
    BY DEF Callback, TypeInv, TypeOK
  <1>2. Head(completed) = completed[1] /\ Len(completed) \in Nat \ {0}
    BY <1>1
  <1>3. /\ Len(Tail(completed)) = Len(completed) - 1
        /\ \A i \in 1 .. Len(completed) - 1 : Tail(completed)[i] = completed[i + 1]
    BY <1>1, <1>2
  <1>4. ASSUME NoStatus, NEW i \in 1 .. Len(Tail(completed))
        PROVE  Tail(completed)[i].kind \notin CSW
    <2>1. i + 1 \in 1 .. Len(completed) /\ i \in 1 .. Len(completed) - 1
      BY <1>2, <1>3
    <2>2. QED
      BY <1>3, <1>4, <2>1 DEF NoStatus
  <1>5. NoStatus => Head(completed).kind \notin CSW
    BY <1>2 DEF NoStatus
  <1>6. NoStatus => NoStatus'
    BY <1>1, <1>4 DEF NoStatus
  <1>7. ASSUME NEW k, completed = <<k>>
        PROVE  Head(completed) = k /\ completed' = <<>>
    BY <1>1, <1>7
  <1>8. QED
    BY <1>5, <1>6, <1>7

\* The disk is pulled out: what was submitted is cancelled.
LEMMA Cancelled ==
  ASSUME TypeInv, Unplug
  PROVE  /\ Plugged /\ ~Plugged' /\ phase' = "gone" /\ outPipe' = <<>> /\ inPipe' = 0
         /\ NoStatus => NoStatus'
         /\ outPipe = <<>> /\ inPipe = 0 /\ ~asked => completed' = completed
         /\ UNCHANGED <<driverVars, noMem, taskVars, current, left, disk, asked>>
  <1> DEFINE n == Len(outPipe) + inPipe + (IF asked THEN 1 ELSE 0)
             s == [i \in 1 .. n |-> Completed("cancelled", Junk)]
  <1>1. /\ completed \in Seq(Completion) /\ n \in Nat
        /\ completed' = completed \o s
    BY DEF TypeInv, TypeOK, Unplug
  <1>2. s \in Seq(Completion) /\ Len(s) = n /\ \A i \in 1 .. n : s[i].kind = "cancelled"
    <2>1. PICK k : k = Completed("cancelled", Junk)
      OBVIOUS
    <2>2. k \in Completion /\ k.kind = "cancelled"
      BY <2>1, Constants DEF Completed, Completion
    <2>3. s = [i \in 1 .. n |-> k]
      BY <2>1
    <2> HIDE DEF n, s
    <2>4. QED
      BY <1>1, <2>2, <2>3
  <1>3. outPipe = <<>> /\ inPipe = 0 /\ ~asked => s = <<>>
    <2>1. outPipe = <<>> /\ inPipe = 0 /\ ~asked => n = 0
      OBVIOUS
    <2>2. QED
      BY <1>2, <2>1
  <1> HIDE DEF n, s
  <1>4. /\ Len(completed \o s) = Len(completed) + n /\ Len(completed) \in Nat
        /\ \A i \in 1 .. Len(completed) + n :
             (completed \o s)[i] = IF i <= Len(completed) THEN completed[i]
                                   ELSE s[i - Len(completed)]
    <2>1. /\ Len(completed \o s) = Len(completed) + Len(s)
          /\ \A i \in 1 .. Len(completed) + Len(s) :
               (completed \o s)[i] = IF i <= Len(completed) THEN completed[i]
                                     ELSE s[i - Len(completed)]
      BY <1>1, <1>2, ConcatProperties
    <2>2. QED
      BY <1>1, <1>2, <2>1
  <1>5. ASSUME NoStatus, NEW i \in 1 .. Len(completed) + n
        PROVE  (completed \o s)[i].kind \notin CSW
    <2>1. CASE i <= Len(completed)
      BY <1>1, <1>4, <1>5, <2>1 DEF NoStatus
    <2>2. CASE ~(i <= Len(completed))
      <3>1. i - Len(completed) \in 1 .. n
        BY <1>1, <1>4, <2>2
      <3>2. QED
        BY <1>2, <1>4, <2>2, <3>1 DEF CSW
    <2>3. QED
      BY <2>1, <2>2
  <1>6. NoStatus => NoStatus'
    BY <1>1, <1>4, <1>5 DEF NoStatus
  <1>7. outPipe = <<>> /\ inPipe = 0 /\ ~asked => completed' = completed
    BY <1>1, <1>3, ConcatEmptySeq
  <1>8. QED
    BY <1>6, <1>7 DEF Unplug, Plugged

-----------------------------------------------------------------------------
(* One step of an exchange that asks the disk for data.                    *)

\* The disk takes the command, answers or gives the status.
LEMMA ReadingDisk ==
  ASSUME TypeInv, NEW c \in Command, c.op # "WRITE_10", NEW n \in {0, 1},
         Reading(c, n), ~asked, Disk
  PROVE  /\ Reading(c, n)' /\ disk' = disk
         /\ Asking(c, 0) => Asking(c, 0)'
         /\ \/ Asking(c, n) /\ (Asking(c, n)' \/ Answered(c)')
            \/ Ending(c, n) /\ Ended'
  <1>1. ~DiskMaxLun /\ ~DiskDataOut
    BY DEF DiskMaxLun, DiskDataOut, Reading, Asking, Answered, Ending, Ended
  <1>2. CASE DiskCommand
    <2>1. phase = "command" /\ outPipe = <<Cbw(c)>> /\ completed = <<>> /\ inPipe = n
      BY <1>2 DEF DiskCommand, Reading, Asking, Answered, Ending, Ended
    <2>2. /\ current' = c /\ phase' = "data_in" /\ outPipe' = <<>>
          /\ completed' = <<Finished("cbw")>> /\ inPipe' = n
      BY <1>2, <2>1 DEF DiskCommand, Cbw, Complete, Finished
    <2>3. Asking(c, n)
      BY <1>2, <2>1 DEF Asking
    <2>4. disk' = disk
      BY <1>2 DEF DiskCommand
    <2>5. QED
      BY <2>1, <2>2, <2>3, <2>4 DEF Reading, Asking
  <1>3. CASE DiskDataIn
    <2>1. /\ phase = "data_in" /\ current = c /\ outPipe = <<>> /\ inPipe = n /\ n = 1
          /\ completed \in {<<>>, <<Finished("cbw")>>}
      BY <1>3 DEF DiskDataIn, Reading, Asking, Answered, Ending, Ended
    <2>2. /\ left \in 0 .. c.n /\ left # 0 /\ c.n \in Nat /\ c.lba \in Nat
      BY <2>1, CommandFields DEF TypeInv, TypeOK, LeftOK
    <2>3. c.n = 1 => Answer = AnswerTo(c)
      <3>1. c.n = 1 => c.lba + c.n - left = c.lba
        BY <2>2
      <3>2. QED
        BY <2>1, <3>1 DEF Answer, AnswerTo
    <2>4. /\ phase' \in {"data_in", "status"} /\ (phase' = "data_in" => c.n # 1)
          /\ current' = c /\ outPipe' = <<>> /\ inPipe' = 0 /\ disk' = disk
      BY <1>3, <2>1, <2>2 DEF DiskDataIn
    <2>5. PICK v : v = Answer
      OBVIOUS
    <2>6. completed' = Append(completed, DataIn(v))
      BY <1>3, <2>5 DEF DiskDataIn, Complete, DataIn
    <2>7. completed' \in {<<Finished("cbw"), DataIn(v)>>, <<DataIn(v)>>}
      <3>1. CASE completed = <<>>
        BY <2>6, <3>1
      <3>2. CASE completed = <<Finished("cbw")>>
        BY <2>6, <3>2, ShortSequences
      <3>3. QED
        BY <2>1, <3>1, <3>2
    <2>8. completed' # <<>> /\ completed'[Len(completed')].payload = v
      BY <2>7 DEF DataIn, Completed
    <2>9. Answered(c)'
      BY <2>3, <2>4, <2>5, <2>7, <2>8 DEF Answered, AnswerTo
    <2>10. Asking(c, n) /\ ~Asking(c, 0)
      BY <2>1 DEF Asking
    <2>11. QED
      BY <2>4, <2>9, <2>10 DEF Reading
  <1>4. CASE DiskStatus
    <2>1. /\ phase = "status" /\ outPipe = <<>> /\ inPipe = n /\ n = 1
          /\ completed = <<>>
      BY <1>4 DEF DiskStatus, Reading, Asking, Answered, Ending, Ended
    <2>2. Ended'
      BY <1>4, <2>1 DEF DiskStatus, Ended, Complete, Finished
    <2>3. Ending(c, n) /\ ~Asking(c, 0) /\ disk' = disk
      BY <1>4, <2>1 DEF DiskStatus, Reading, Asking, Answered, Ending, Ended
    <2>4. QED
      BY <2>2, <2>3 DEF Reading
  <1>5. QED
    BY <1>1, <1>2, <1>3, <1>4 DEF Disk

\* The callback of the CBW changes nothing in the exchange.
LEMMA ReadingCbw ==
  ASSUME TypeInv, NEW c \in Command, NEW n \in {0, 1}, Reading(c, n), Callback({"cbw"}),
         UNCHANGED <<phase, current, outPipe, inPipe, disk>>
  PROVE  /\ Reading(c, n)'
         /\ \/ Asking(c, n) /\ Asking(c, n)'
            \/ Answered(c) /\ Answered(c)'
  <1>1. CASE Asking(c, n)
    <2>1. Asking(c, n)'
      BY <1>1 DEF Asking, Callback
    <2>2. QED
      BY <1>1, <2>1 DEF Reading
  <1>2. CASE Answered(c)
    <2>1. PICK v : /\ v = completed[Len(completed)].payload
                   /\ completed \in {<<Finished("cbw"), DataIn(v)>>, <<DataIn(v)>>}
      BY <1>2 DEF Answered
    <2>2. completed # <<DataIn(v)>>
      BY DEF DataIn, Completed, Callback
    <2>3. completed = <<Finished("cbw"), DataIn(v)>>
      BY <2>1, <2>2
    <2>4. completed' = <<DataIn(v)>> /\ completed' # <<>>
      BY <2>3 DEF Callback
    <2>5. completed'[Len(completed')].payload = v
      BY <2>4 DEF DataIn, Completed
    <2>6. Answered(c)'
      BY <1>2, <2>1, <2>4, <2>5 DEF Answered, AnswerTo
    <2>7. QED
      BY <1>2, <2>6 DEF Reading
  <1>3. CASE Ending(c, n) \/ Ended
    BY <1>3 DEF Ending, Ended, Callback, Finished, Completed
  <1>4. QED
    BY <1>1, <1>2, <1>3 DEF Reading

\* onData takes the answer and posts the next transfer, if the heap has room.
LEMMA ReadingData ==
  ASSUME TypeInv, NEW c \in Command, NEW n \in {0, 1}, Reading(c, n), Callback(Data), Csw,
         UNCHANGED <<phase, current, outPipe>>
  PROVE  /\ Answered(c)
         /\ c.n = 1 => Head(completed).payload = AnswerTo(c)
         /\ c.n = 1 => phase = "status"
         /\ completed' = <<>> /\ inPipe' \in {0, 1} /\ (noMem' = noMem => inPipe' = 1)
         /\ \A m \in {0, 1} : inPipe' = m => Asking(c, m)' \/ Ending(c, m)'
  <1> USE DEF Finished, DataIn, Completed, Callback, Data
  <1>1. Answered(c)
    BY DEF Reading, Asking, Ending, Ended
  <1>2. PICK v : /\ v = completed[Len(completed)].payload
                 /\ completed \in {<<Finished("cbw"), DataIn(v)>>, <<DataIn(v)>>}
    BY <1>1 DEF Answered
  <1>3. completed = <<DataIn(v)>>
    BY <1>2
  <1>4. completed' = <<>> /\ Head(completed).payload = v
    BY <1>3
  <1>5. inPipe' \in {0, 1} /\ (noMem' = noMem => inPipe' = 1)
    BY <1>1 DEF Csw, Allocate, Answered, Plugged, TypeInv, TypeOK
  <1>6. QED
    BY <1>1, <1>2, <1>4, <1>5 DEF Answered, Asking, Ending

\* Only the end of the exchange is taken for a status.
LEMMA ReadingStatus ==
  ASSUME NEW c \in Command, NEW n \in {0, 1}, Reading(c, n), Callback(CSW)
  PROVE  Ended /\ completed' = <<>>
  <1> USE DEF Finished, DataIn, Completed, Callback, CSW
  <1>1. ~Asking(c, n) /\ ~Ending(c, n)
    BY DEF Asking, Ending
  <1>2. ~Answered(c)
    BY DEF Answered
  <1>3. Ended => completed' = <<>>
    BY DEF Ended
  <1>4. QED
    BY <1>1, <1>2, <1>3 DEF Reading

\* A command goes out when nothing is under way.
LEMMA ReadingStarts ==
  ASSUME TypeInv, NEW c \in Command, phase = "command", outPipe = <<>>, inPipe = 0,
         completed' = <<>>, SubmitOut(Cbw(c)), UNCHANGED phase
  PROVE  /\ inPipe' = 0 => Asking(c, 0)'
         /\ Csw => \E n \in {0, 1} : Asking(c, n)' /\ (noMem' = noMem => n = 1)
  <1>1. outPipe' = <<Cbw(c)>>
    BY DEF SubmitOut, Plugged
  <1>2. Csw => inPipe' \in {0, 1} /\ (noMem' = noMem => inPipe' = 1)
    BY DEF Csw, Allocate, Plugged, TypeInv, TypeOK
  <1>3. QED
    BY <1>1, <1>2 DEF Asking

\* Until the status is on its way, the completions of an exchange hold none.
LEMMA ReadingNoStatus ==
  ASSUME NEW c, NEW n, Reading(c, n)
  PROVE  Plugged /\ (Ended \/ NoStatus)
  BY DEF Reading, Asking, Answered, Ending, Ended, NoStatus, Plugged, Finished, DataIn,
         Completed, CSW

-----------------------------------------------------------------------------
(* The enumeration.                                                        *)

Known(l) == capacity[l] = Capacity[l]

\* the unit being asked for its capacity has told it to onData
AfterData == (phase = "status" /\ completed = <<>>) \/ completed = <<Finished("csw")>>

MaxLunAsked ==
  /\ outPipe = <<>> /\ inPipe = 0 /\ phase \in {"command", "gone"}
  /\ NoStatus \/ (completed = <<Finished("max_lun")>> /\ ~asked)
  /\ Plugged /\ NoStatus => completed = <<>>

CapacityAsked ==
  /\ \A l \in Luns : l < lun => Known(l)
  /\ AfterData => Known(lun)
  /\ IF Plugged THEN \E n \in {0, 1} : Reading(CapacityCommand(lun), n)
     ELSE NoStatus \/ completed = <<Finished("csw")>>

\* The exchanges of the enumeration run one after the other, and nothing else
\* runs before it has ended.
EnumInv ==
  /\ ready => event \notin {"MAX_LUN", "READ_CAPACITY_10"}
  /\ ~ready => \A t \in Tasks : pc[t] = "idle"
  /\ event = "MAX_LUN" => MaxLunAsked
  /\ event # "MAX_LUN" => luns = MaxLun /\ ~asked
  /\ event = "READ_CAPACITY_10" => CapacityAsked
  /\ event \notin {"MAX_LUN", "READ_CAPACITY_10"} => capacity = Capacity

LEMMA CapacityCommandFields ==
  ASSUME NEW l \in Luns
  PROVE  /\ CapacityCommand(l) \in Command /\ CapacityCommand(l).op # "WRITE_10"
         /\ CapacityCommand(l).n = 1
         /\ CapacityCommand(l).op = "READ_CAPACITY_10" /\ CapacityCommand(l).lun = l
  BY Constants DEF CapacityCommand

LEMMA EnumInit == Init => EnumInv
  BY DEF Init, EnumInv, MaxLunAsked, NoStatus, Plugged

\* The enumeration goes on to unit l with the pipes empty, or with the disk gone.
LEMMA CapacityStarts ==
  ASSUME TypeInv, NEW l \in Luns, GetCapacity(l), UNCHANGED <<phase, capacity>>,
         \A m \in Luns : m < l => Known(m),
         Plugged => /\ phase = "command" /\ outPipe = <<>> /\ inPipe = 0
                    /\ completed' = <<>>,
         ~Plugged => NoStatus'
  PROVE  CapacityAsked'
  <1>1. lun' = l /\ SubmitOut(Cbw(CapacityCommand(l))) /\ Csw
    BY DEF GetCapacity
  <1>2. \A m \in Luns : m < lun' => capacity'[m] = Capacity[m]
    BY <1>1 DEF Known
  <1>3. Plugged' <=> Plugged
    BY DEF Plugged
  <1>4. CASE Plugged
    <2>1. PICK n \in {0, 1} : Asking(CapacityCommand(l), n)'
      BY <1>1, <1>4, ReadingStarts, CapacityCommandFields
    <2>2. ~AfterData'
      BY <2>1, <1>4 DEF AfterData, Finished
    <2>3. Reading(CapacityCommand(lun), n)'
      BY <1>1, <2>1 DEF Reading, Asking
    <2>4. QED
      BY <1>2, <1>3, <1>4, <2>2, <2>3 DEF CapacityAsked, Known
  <1>5. CASE ~Plugged
    <2>1. ~AfterData'
      BY <1>5 DEF AfterData, NoStatus, Plugged, Finished, Completed, CSW
    <2>2. QED
      BY <1>2, <1>3, <1>5, <2>1 DEF CapacityAsked, Known
  <1>6. QED
    BY <1>4, <1>5

\* GET MAX LUN has been answered.
LEMMA EnumMaxLun ==
  ASSUME TypeInv, EnumInv, OnMaxLun
  PROVE  EnumInv'
  <1>1. MaxLunAsked /\ ~ready /\ \A t \in Tasks : pc[t] = "idle"
    BY DEF OnMaxLun, EnumInv
  <1>2. completed = <<Finished("max_lun")>> /\ ~asked /\ completed' = <<>>
    <2>1. Callback(CSW)
      BY DEF OnMaxLun
    <2>2. ~NoStatus
      BY <2>1, NoStatusTail DEF Callback
    <2>3. QED
      BY <1>1, <2>1, <2>2, NoStatusTail DEF MaxLunAsked
  <1>3. NoStatus'
    BY <1>2 DEF NoStatus
  <1>4. /\ luns' = MaxLun /\ GetCapacity(0) /\ event' = "READ_CAPACITY_10"
        /\ UNCHANGED <<phase, capacity, ready, pc, asked>>
    BY DEF OnMaxLun, GetCapacity, taskVars, diskVars
  <1>5. \A m \in Luns : ~(m < 0)
    BY DEF Luns
  <1>6. Plugged => phase = "command" /\ outPipe = <<>> /\ inPipe = 0
    BY <1>1 DEF MaxLunAsked, Plugged
  <1>7. CapacityAsked'
    BY <1>2, <1>3, <1>4, <1>5, <1>6, CapacityStarts, Constants
  <1>8. QED
    BY <1>1, <1>2, <1>4, <1>7 DEF EnumInv

\* A unit's capacity has been read: the next unit, or the end.
LEMMA EnumStatus ==
  ASSUME TypeInv, EnumInv, OnCapacityStatus
  PROVE  EnumInv'
  <1>1. CapacityAsked /\ ~ready /\ (\A t \in Tasks : pc[t] = "idle") /\ Callback(CSW)
        /\ luns = MaxLun /\ ~asked
    BY DEF OnCapacityStatus, EnumInv
  <1>2. lun \in Luns
    BY DEF TypeInv, TypeOK
  <1>3. /\ completed = <<Finished("csw")>> /\ completed' = <<>>
        /\ Plugged => phase = "command" /\ outPipe = <<>> /\ inPipe = 0
    <2>1. CASE Plugged
      <3>1. PICK n \in {0, 1} : Reading(CapacityCommand(lun), n)
        BY <1>1, <2>1 DEF CapacityAsked
      <3>2. Ended /\ completed' = <<>>
        BY <1>1, <1>2, <3>1, ReadingStatus, CapacityCommandFields
      <3>3. QED
        BY <3>2 DEF Ended
    <2>2. CASE ~Plugged
      BY <1>1, <2>2, NoStatusTail DEF CapacityAsked, Callback
    <2>3. QED
      BY <2>1, <2>2
  <1>4. \A l \in Luns : l <= lun => Known(l)
    <2>1. AfterData
      BY <1>3 DEF AfterData
    <2>2. \A l \in Luns : l <= lun => l < lun \/ l = lun
      BY <1>2 DEF Luns
    <2>3. QED
      BY <1>1, <2>1, <2>2 DEF CapacityAsked
  <1>5. UNCHANGED <<luns, capacity, phase, ready, pc, asked>>
    BY DEF OnCapacityStatus, taskVars, diskVars
  <1>6. CASE MoreUnits
    <2>1. lun + 1 \in Luns /\ \A l \in Luns : l < lun + 1 => l <= lun
      BY <1>1, <1>2, <1>6, DiskAssumption DEF MoreUnits, Luns
    <2>2. GetCapacity(lun + 1) /\ event' = "READ_CAPACITY_10"
      BY <1>6 DEF OnCapacityStatus, GetCapacity
    <2>3. NoStatus'
      BY <1>3 DEF NoStatus
    <2>4. CapacityAsked'
      BY <1>3, <1>4, <1>5, <2>1, <2>2, <2>3, CapacityStarts
    <2>5. QED
      BY <1>1, <1>5, <2>2, <2>4 DEF EnumInv
  <1>7. CASE ~MoreUnits
    <2>1. \A l \in Luns : l <= lun
      BY <1>1, <1>2, <1>7, DiskAssumption DEF MoreUnits, Luns
    <2>2. capacity = Capacity
      BY <1>4, <2>1, DiskAssumption DEF Known, TypeInv, TypeOK
    <2>3. event' = "INQUIRY"
      BY <1>7 DEF OnCapacityStatus, Inquiry
    <2>4. QED
      BY <1>1, <1>5, <2>2, <2>3 DEF EnumInv
  <1>8. QED
    BY <1>6, <1>7

\* onData during the enumeration of a unit.
LEMMA EnumData ==
  ASSUME TypeInv, EnumInv, OnCapacityData
  PROVE  EnumInv'
  <1>1. CapacityAsked /\ Callback(Data) /\ Csw /\ lun \in Luns
    BY DEF OnCapacityData, EnumInv, TypeInv, TypeOK
  <1>2. /\ capacity' = [capacity EXCEPT ![lun] = Head(completed).payload]
        /\ UNCHANGED <<event, luns, lun, phase, current, outPipe, ready, pc, asked>>
    BY DEF OnCapacityData, taskVars, diskVars
  <1>3. \A l \in Luns : l < lun => capacity'[l] = Capacity[l]
    BY <1>1, <1>2 DEF CapacityAsked, Known, TypeInv, TypeOK, Luns
  <1>4. CapacityAsked'
    <2>1. CASE Plugged
      <3>1. PICK c : c = CapacityCommand(lun)
        OBVIOUS
      <3>2. PICK n \in {0, 1} : Reading(c, n)
        BY <1>1, <2>1, <3>1 DEF CapacityAsked
      <3>3. /\ c \in Command /\ c.n = 1 /\ AnswerTo(c) = Capacity[lun]
        BY <1>1, <3>1, CapacityCommandFields DEF AnswerTo
      <3>4. Head(completed).payload = Capacity[lun] /\ inPipe' \in {0, 1}
        BY <1>1, <1>2, <3>2, <3>3, ReadingData
      <3>5. \A m \in {0, 1} : inPipe' = m => Asking(c, m)' \/ Ending(c, m)'
        BY <1>1, <1>2, <3>2, <3>3, ReadingData
      <3>6. \E m \in {0, 1} : Reading(c, m)'
        BY <3>4, <3>5 DEF Reading
      <3>7. capacity'[lun] = Capacity[lun]
        BY <1>1, <1>2, <3>4 DEF TypeInv, TypeOK
      <3>8. c = CapacityCommand(lun')
        BY <1>2, <3>1
      <3>9. QED
        BY <1>2, <1>3, <2>1, <3>6, <3>7, <3>8
        DEF CapacityAsked, Known, Plugged, AfterData
    <2>2. CASE ~Plugged
      <3>1. NoStatus
        BY <1>1, <2>2
        DEF CapacityAsked, Callback, Data, Finished, Completed
      <3>2. NoStatus'
        BY <1>1, <3>1, NoStatusTail
      <3>3. ~AfterData'
        BY <1>2, <2>2, <3>2 DEF AfterData, NoStatus, Plugged, Finished, Completed, CSW
      <3>4. QED
        BY <1>2, <1>3, <2>2, <3>2, <3>3 DEF CapacityAsked, Known, Plugged
    <2>3. QED
      BY <2>1, <2>2
  <1>5. QED
    BY <1>2, <1>4 DEF EnumInv, OnCapacityData

LEMMA EnumClient ==
  ASSUME TypeInv, EnumInv, ClientTask
  PROVE  EnumInv'
  <1> USE DEF driverVars, taskVars, diskVars
  <1>1. CASE OnMaxLun \/ OnCapacityStatus \/ OnCapacityData
    BY <1>1, EnumMaxLun, EnumStatus, EnumData
  <1>2. CASE OnCBW \/ OnOtherData
    <2>1. UNCHANGED <<event, luns, lun, capacity, outPipe, inPipe, ready, pc, phase,
                      current, disk, asked>>
      BY <1>2 DEF OnCBW, OnOtherData
    <2>2. /\ Callback({"cbw"}) \/ Callback(Data)
          /\ event = "READ_CAPACITY_10" => Callback({"cbw"})
      BY <1>2 DEF OnCBW, OnOtherData
    <2>3. NoStatus => NoStatus'
      BY <2>2, NoStatusTail
    <2>4. ASSUME event = "MAX_LUN"
          PROVE  MaxLunAsked'
      <3>1. MaxLunAsked /\ completed # <<Finished("max_lun")>> /\ completed # <<>>
        BY <2>2, <2>4 DEF EnumInv, Callback, Data, Finished, Completed
      <3>2. QED
        BY <2>1, <2>3, <3>1 DEF MaxLunAsked, Plugged
    <2>5. ASSUME event = "READ_CAPACITY_10"
          PROVE  CapacityAsked'
      <3>1. CapacityAsked /\ Callback({"cbw"}) /\ lun \in Luns
        BY <2>2, <2>5 DEF EnumInv, TypeInv, TypeOK
      <3>2. CASE Plugged
        <4>1. PICK c : c = CapacityCommand(lun)
          OBVIOUS
        <4>2. PICK n \in {0, 1} : Reading(c, n)
          BY <3>1, <3>2, <4>1 DEF CapacityAsked
        <4>3. Reading(c, n)'
          BY <2>1, <3>1, <4>1, <4>2, ReadingCbw, CapacityCommandFields
        <4>4. ~AfterData'
          <5>1. phase # "status" \/ completed' # <<>>
            <6>1. phase = "status" => Ending(c, n) \/ Answered(c)
              BY <4>2 DEF Reading, Asking, Ended
            <6>2. ~Ending(c, n)
              BY <3>1 DEF Ending, Callback
            <6>3. ASSUME Answered(c)
                  PROVE  completed' # <<>>
              <7>1. PICK v : completed \in {<<Finished("cbw"), DataIn(v)>>, <<DataIn(v)>>}
                BY <6>3 DEF Answered
              <7>2. completed # <<DataIn(v)>>
                <8>1. DataIn(v).kind = "data_in"
                  BY DEF DataIn, Completed
                <8>2. QED
                  BY <3>1, <8>1 DEF Callback
              <7>3. QED
                BY <3>1, <7>1, <7>2 DEF Callback
            <6>4. QED
              BY <6>1, <6>2, <6>3
          <5>2. completed' # <<Finished("csw")>>
            <6>1. completed' = <<Finished("csw")>> => Ended'
              BY <4>3
              DEF Reading, Asking, Answered, Ending, Ended, Finished, DataIn, Completed
            <6>2. Ended' => phase = "command"
              BY <2>1 DEF Ended
            <6>3. phase = "command" => completed = <<>> \/ Ended
              BY <4>2 DEF Reading, Asking, Answered, Ending, Ended
            <6>4. completed # <<>> /\ ~Ended
              BY <3>1 DEF Callback, Ended, Finished, Completed
            <6>5. QED
              BY <6>1, <6>2, <6>3, <6>4
          <5>3. QED
            BY <2>1, <5>1, <5>2 DEF AfterData
        <4>5. CapacityCommand(lun') = c
          BY <2>1, <4>1
        <4>6. QED
          BY <2>1, <3>1, <3>2, <4>3, <4>4, <4>5 DEF CapacityAsked, Known, Plugged
      <3>3. CASE ~Plugged
        <4>1. NoStatus'
          BY <2>3, <3>1, <3>3 DEF CapacityAsked, Callback, Finished, Completed
        <4>2. ~AfterData'
          BY <2>1, <3>3, <4>1
          DEF AfterData, NoStatus, Plugged, Finished, Completed, CSW
        <4>3. QED
          BY <2>1, <3>1, <3>3, <4>1, <4>2 DEF CapacityAsked, Known, Plugged
      <3>4. QED
        BY <3>2, <3>3
    <2>6. QED
      BY <2>1, <2>4, <2>5 DEF EnumInv
  <1>3. CASE OnInquiryStatus \/ OnTransferStatus \/ OnInquiryData \/ OnReadData
    <2>1. event \notin {"MAX_LUN", "READ_CAPACITY_10"}
      BY <1>3 DEF OnInquiryStatus, OnTransferStatus, OnInquiryData, OnReadData
    <2>2. UNCHANGED <<event, luns, capacity, pc, asked>> /\ ready' \in {ready, TRUE}
      BY <1>3 DEF OnInquiryStatus, OnTransferStatus, OnInquiryData, OnReadData
    <2>3. QED
      BY <2>1, <2>2 DEF EnumInv
  <1>4. QED
    BY <1>1, <1>2, <1>3 DEF ClientTask

LEMMA EnumDisk ==
  ASSUME TypeInv, EnumInv, Disk
  PROVE  EnumInv'
  <1>1. UNCHANGED <<event, luns, lun, capacity, ready, pc>>
    BY DEF Disk, DiskMaxLun, DiskCommand, DiskDataIn, DiskDataOut, DiskStatus,
           driverVars, taskVars
  <1>2. asked' => asked
    BY DEF Disk, DiskMaxLun, DiskCommand, DiskDataIn, DiskDataOut, DiskStatus
  <1>3. ASSUME event = "MAX_LUN"
        PROVE  MaxLunAsked'
    <2>1. MaxLunAsked
      BY <1>3 DEF EnumInv
    <2>2. DiskMaxLun
      BY <2>1 DEF MaxLunAsked, Disk, DiskCommand, DiskDataIn, DiskDataOut, DiskStatus
    <2>3. NoStatus
      BY <2>1, <2>2 DEF MaxLunAsked, DiskMaxLun
    <2>4. completed' = <<Finished("max_lun")>> /\ ~asked'
      BY <2>1, <2>2, <2>3 DEF MaxLunAsked, DiskMaxLun, Complete, Finished
    <2>5. ~NoStatus'
      <3>1. Len(completed') = 1 /\ completed'[1] = Finished("max_lun")
        BY <2>4
      <3>2. Finished("max_lun").kind \in CSW
        BY DEF Finished, Completed, CSW
      <3>3. QED
        BY <3>1, <3>2 DEF NoStatus
    <2>6. QED
      BY <2>1, <2>2, <2>4, <2>5 DEF MaxLunAsked, DiskMaxLun
  <1>4. ASSUME event = "READ_CAPACITY_10"
        PROVE  CapacityAsked'
    <2>1. CapacityAsked /\ ~asked /\ lun \in Luns
      BY <1>4 DEF EnumInv, TypeInv, TypeOK
    <2>2. Plugged /\ Plugged'
      BY <2>1 DEF Plugged, Disk, DiskMaxLun, DiskCommand, DiskDataIn, DiskDataOut,
                  DiskStatus
    <2>3. PICK c : c = CapacityCommand(lun)
      OBVIOUS
    <2>4. PICK n \in {0, 1} : Reading(c, n)
      BY <2>1, <2>2, <2>3 DEF CapacityAsked
    <2>5. Reading(c, n)'
      BY <2>1, <2>3, <2>4, ReadingDisk, CapacityCommandFields
    <2>6. AfterData' => AfterData
      <3>1. completed # <<>> => completed' # <<Finished("csw")>>
        <4>1. completed' \in Seq(Completion)
          BY TypeStep DEF TypeInv, TypeOK, Next
        <4>2. PICK x : completed' = Append(completed, x)
          BY DEF Disk, DiskMaxLun, DiskCommand, DiskDataIn, DiskDataOut, DiskStatus,
                 Complete
        <4>3. Len(completed') = Len(completed) + 1 /\ Len(completed) \in Nat
          BY <4>2 DEF TypeInv, TypeOK
        <4>4. completed # <<>> => Len(completed) # 0
          BY DEF TypeInv, TypeOK
        <4>5. QED
          BY <4>3, <4>4
      <3>2. completed' # <<>>
        BY DEF Disk, DiskMaxLun, DiskCommand, DiskDataIn, DiskDataOut, DiskStatus,
               Complete, TypeInv, TypeOK
      <3>3. completed = <<>> /\ completed' = <<Finished("csw")>> => phase = "status"
        BY <2>4, <2>5 DEF Disk, DiskMaxLun, DiskCommand, DiskDataIn, DiskDataOut,
                          DiskStatus, Complete, Finished, Completed
      <3>4. QED
        BY <3>1, <3>2, <3>3 DEF AfterData
    <2>7. c = CapacityCommand(lun')
      BY <1>1, <2>3
    <2>8. QED
      BY <1>1, <2>1, <2>2, <2>5, <2>6, <2>7 DEF CapacityAsked, Known
  <1>5. QED
    BY <1>1, <1>2, <1>3, <1>4, Constants DEF EnumInv, TypeInv, TypeOK

LEMMA EnumUnplug ==
  ASSUME TypeInv, EnumInv, Unplug
  PROVE  EnumInv'
  <1>1. /\ UNCHANGED <<event, luns, lun, capacity, ready, pc, asked>>
        /\ Plugged /\ ~Plugged' /\ phase' = "gone" /\ outPipe' = <<>> /\ inPipe' = 0
        /\ NoStatus => NoStatus'
        /\ outPipe = <<>> /\ inPipe = 0 /\ ~asked => completed' = completed
    BY Cancelled DEF driverVars, taskVars
  <1>2. ASSUME event = "MAX_LUN"
        PROVE  MaxLunAsked'
    <2>1. MaxLunAsked
      BY <1>2 DEF EnumInv
    <2>2. QED
      BY <1>1, <2>1 DEF MaxLunAsked
  <1>3. ASSUME event = "READ_CAPACITY_10"
        PROVE  CapacityAsked'
    <2>1. CapacityAsked /\ ~asked
      BY <1>3 DEF EnumInv
    <2>2. PICK n \in {0, 1} : Reading(CapacityCommand(lun), n)
      BY <1>1, <2>1 DEF CapacityAsked
    <2>3. Ended \/ NoStatus
      BY <2>2, ReadingNoStatus
    <2>4. CASE Ended
      <3>1. completed' = completed
        BY <1>1, <2>1, <2>4 DEF Ended
      <3>2. QED
        BY <1>1, <2>1, <2>4, <3>1 DEF CapacityAsked, Known, AfterData, Ended
    <2>5. CASE NoStatus
      <3>1. NoStatus' /\ ~AfterData'
        <4>1. Finished("csw").kind \in CSW
          BY DEF Finished, Completed, CSW
        <4>2. NoStatus'
          BY <1>1, <2>5
        <4>3. ASSUME completed' = <<Finished("csw")>>
              PROVE  FALSE
          <5>1. 1 \in 1 .. Len(completed') /\ completed'[1] = Finished("csw")
            BY <4>3
          <5>2. QED
            BY <4>1, <4>2, <5>1 DEF NoStatus, CSW
        <4>4. QED
          BY <1>1, <4>1, <4>2, <4>3 DEF AfterData
      <3>2. QED
        BY <1>1, <2>1, <3>1 DEF CapacityAsked, Known
    <2>6. QED
      BY <2>3, <2>4, <2>5
  <1>4. QED
    BY <1>1, <1>2, <1>3 DEF EnumInv

\* No task is inside a call before the enumeration has ended.
LEMMA EnumTask ==
  ASSUME TypeInv, EnumInv, NEW t \in Tasks, Read10(t) \/ Write10(t) \/ AppTask(t)
  PROVE  EnumInv'
  <1>1. ready
    BY DEF EnumInv, MayCall, Read10, Write10, AppTask, Read10Retry, Read10Csw,
           Read10Notify, Write10Data, Write10Csw, NotifyWaitTaken, NotifyWaitExpired
  <1>2. /\ UNCHANGED <<luns, capacity, ready, asked>>
        /\ event' \in {event, "READ_10", "WRITE_10"}
    BY DEF Read10, Write10, AppTask, SubmitRead, Read10Retry, Read10Csw, Read10Notify,
           Write10Data, Write10Csw, NotifyWaitTaken, NotifyWaitExpired, driverVars,
           diskVars
  <1>3. QED
    BY <1>1, <1>2 DEF EnumInv

LEMMA EnumStep == TypeInv /\ EnumInv /\ [Next]_vars => EnumInv'
  <1> SUFFICES ASSUME TypeInv, EnumInv, [Next]_vars PROVE EnumInv'
    OBVIOUS
  <1>1. CASE UNCHANGED vars
    BY <1>1
    DEF EnumInv, MaxLunAsked, CapacityAsked, Known, AfterData, NoStatus, Reading, Asking,
        Answered, Ending, Ended, AnswerTo, Plugged, vars, driverVars, pipeVars, taskVars,
        diskVars
  <1>2. CASE Next
    BY <1>2, EnumClient, EnumDisk, EnumUnplug, EnumTask DEF Next
  <1>3. QED
    BY <1>1, <1>2

\* When inquiry_cb tells the application that it may mount, every logical unit
\* has its own capacity on record, whatever the number of tasks and units, the
\* allocations that fail, the waits that end early and the moment at which the
\* disk is pulled out.
THEOREM EnumerationRecorded == Spec => []ReadyMeansEnumerated
  <1>1. EnumInv => ReadyMeansEnumerated
    BY DEF EnumInv, ReadyMeansEnumerated
  <1>2. QED
    BY <1>1, TypeInit, TypeStep, EnumInit, EnumStep, PTL DEF Spec

-----------------------------------------------------------------------------
(* One task, while no wait ends early and no allocation fails.             *)

Calm == slow = 0 /\ noMem = 0

\* the blocks of a write are on the disk
OnDisk(c) == \A i \in 1 .. c.n : c.data[i] = disk[c.lun][c.lba + i - 1]

\* what a command that has ended has achieved
Done(t) ==
  /\ cmd[t].op = "READ_10" /\ cmd[t].n = 1 => buf[t][1] = AnswerTo(cmd[t])
  /\ cmd[t].op = "WRITE_10" /\ ~Rejects => OnDisk(cmd[t])

\* the callbacks a write has left when the disk has taken its data
Sent == {<<>>, <<Finished("data_out")>>, <<Finished("cbw"), Finished("data_out")>>}
\* and when the disk has given its status
Closing == {<<Finished("csw")>>, <<Finished("data_out"), Finished("csw")>>,
            <<Finished("cbw"), Finished("data_out"), Finished("csw")>>}

\* _write10 has submitted the CBW and not the data.
Owing(c) ==
  /\ inPipe = 0
  /\ \/ /\ phase = "command" /\ outPipe = <<Cbw(c)>>
        /\ completed = <<>>
     \/ /\ phase = "data_out" /\ current = c /\ outPipe = <<>>
        /\ completed \in {<<>>, <<Finished("cbw")>>}

\* It has submitted both, and n transfers wait for the status.
Writing(c, n) ==
  /\ inPipe = n
  /\ \/ /\ phase = "command" /\ outPipe = <<Cbw(c), DataOut(c)>>
        /\ completed = <<>>
     \/ /\ phase = "data_out" /\ current = c /\ outPipe = <<DataOut(c)>>
        /\ completed \in {<<>>, <<Finished("cbw")>>}
     \/ /\ phase = "status" /\ current = c /\ outPipe = <<>>
        /\ completed \in Sent
        /\ ~Rejects => OnDisk(c)

WriteEnded ==
  /\ phase = "command" /\ outPipe = <<>> /\ inPipe = 0
  /\ completed \in Closing

InRead(t) ==
  /\ pc[t] \in {"idle", "read_csw", "read_notify", "wait"}
  /\ temp_buffer = t
  /\ cmd[t].op = "READ_10"
  /\ pc[t] = "idle" => Nothing
  /\ pc[t] = "read_csw" => Asking(cmd[t], 0)
  /\ pc[t] \in {"read_notify", "wait"} =>
       \/ Asking(cmd[t], 1) \/ Answered(cmd[t])
       \/ (Ending(cmd[t], 1) \/ Ended \/ Nothing) /\ Done(t)

InWrite(t) ==
  /\ pc[t] \in {"idle", "write_data", "write_csw", "wait"}
  /\ cmd[t].op = "WRITE_10"
  /\ pc[t] = "idle" => Nothing
  /\ pc[t] = "write_data" => Owing(cmd[t])
  /\ pc[t] = "write_csw" => Writing(cmd[t], 0)
  /\ pc[t] = "wait" =>
       \/ Writing(cmd[t], 1)
       \/ (WriteEnded \/ Nothing) /\ Done(t)

\* With the disk there, one exchange is under way at a time, and a task is
\* notified of its own when it has ended.
PluggedInv(t) ==
  /\ event = "READ_CAPACITY_10" => Reading(CapacityCommand(lun), 1)
  /\ event = "INQUIRY" /\ ~ready => Reading(InquiryCommand, 1)
  /\ event = "INQUIRY" /\ ready => Nothing /\ pc[t] = "idle"
  /\ event = "READ_10" => InRead(t)
  /\ event = "WRITE_10" => InWrite(t)
  /\ notified[t] => Nothing /\ pc[t] \in {"read_notify", "wait"}

\* The exchange was over but for its last callbacks when the disk went.
StatusLeft(t) ==
  /\ event \in {"READ_CAPACITY_10", "INQUIRY"} =>
       completed = <<Finished("csw")>> /\ ~ready
  /\ event = "READ_10" => completed = <<Finished("csw")>>
  /\ event = "WRITE_10" => completed \in Closing
  /\ event \in {"READ_10", "WRITE_10"} => pc[t] \in {"read_notify", "wait"} /\ Done(t)

GoneInv(t) ==
  /\ outPipe = <<>> /\ inPipe = 0
  /\ pc[t] # "idle" => event \in {"READ_10", "WRITE_10"}
  /\ pc[t] = "idle" /\ reply[t] = "ESP_OK" => completed = <<>>
  /\ notified[t] => completed = <<>> /\ pc[t] \in {"read_notify", "wait"} /\ Done(t)
  /\ NoStatus \/ StatusLeft(t)

SerialInv(t) ==
  /\ cmd[t] \in {InquiryCommand} \cup ReadCommands(t) \cup WriteCommands(t)
  /\ ~ready => reply[t] = "none"
  /\ pc[t] = "idle" => ~notified[t]
  /\ pc[t] = "idle" /\ reply[t] = "ESP_OK" => Done(t)
  /\ IF Plugged THEN PluggedInv(t) ELSE GoneInv(t)

-----------------------------------------------------------------------------
(* One step of a write.                                                    *)

LEMMA CalmBefore == TypeInv /\ [Next]_vars /\ Calm' => Calm
  <1> SUFFICES ASSUME TypeInv, [Next]_vars, Calm' PROVE Calm
    OBVIOUS
  <1>1. noMem \in Nat /\ slow \in Nat
    BY HostAssumption DEF TypeInv, TypeOK
  <1>2. Csw => noMem' \in {noMem, noMem + 1}
    BY DEF Csw, Allocate
  <1>3. noMem' \in {noMem, noMem + 1} /\ slow' \in {slow, slow + 1}
    <2>1. CASE UNCHANGED vars
      BY <2>1 DEF vars, pipeVars, taskVars
    <2>2. CASE ClientTask
      BY <1>2, <2>2
      DEF ClientTask, OnCBW, OnMaxLun, OnCapacityStatus, OnInquiryStatus,
          OnTransferStatus, OnInquiryData, OnCapacityData, OnReadData, OnOtherData,
          GetCapacity, Inquiry, taskVars
    <2>3. CASE Disk \/ Unplug
      BY <2>3 DEF Disk, DiskMaxLun, DiskCommand, DiskDataIn, DiskDataOut, DiskStatus,
                  Unplug, taskVars
    <2>4. ASSUME NEW t \in Tasks, Read10(t) \/ Write10(t) \/ AppTask(t)
          PROVE  noMem' \in {noMem, noMem + 1} /\ slow' \in {slow, slow + 1}
      BY <1>2, <2>4
      DEF Read10, Write10, AppTask, SubmitRead, Read10Retry, Read10Csw, Read10Notify,
          Write10Data, Write10Csw, NotifyWaitTaken, NotifyWaitExpired, Allocate,
          pipeVars
    <2>5. QED
      BY <2>1, <2>2, <2>3, <2>4 DEF Next
  <1>4. QED
    BY <1>1, <1>3 DEF Calm

LEMMA WriteCommandFields ==
  ASSUME NEW t \in Tasks, NEW c \in WriteCommands(t)
  PROVE  /\ c \in Command /\ c.op = "WRITE_10" /\ Len(c.data) = c.n
         /\ c.n \in Nat /\ c.lba \in Nat /\ c.lba + c.n <= Blocks /\ c.lun \in Luns
         /\ c.data \in Seq(Contents)
  <1>1. c \in Command
    BY Requests
  <1>2. PICK k \in 1 .. MaxWrite :
          /\ c \in [op : {"WRITE_10"}, lun : {LunOf[t]}, lba : Lbas, n : {k},
                    data : [1 .. k -> Contents]]
          /\ c.lba + c.n <= Blocks
    BY DEF WriteCommands
  <1>3. Len(c.data) = k
    BY <1>2, HostAssumption
  <1>4. QED
    BY <1>1, <1>2, <1>3, CommandFields

LEMMA ReadCommandFields ==
  ASSUME NEW t \in Tasks, NEW c \in ReadCommands(t)
  PROVE  /\ c \in Command /\ c.op = "READ_10" /\ c.n \in 1 .. MaxRead
         /\ c.n \in Nat /\ c.lba \in Nat /\ c.lba + c.n <= Blocks /\ c.lun \in Luns
  BY Requests, CommandFields DEF ReadCommands

\* A write accepted by the disk is on it.
LEMMA StoredOnDisk ==
  ASSUME TypeInv, NEW t \in Tasks, NEW c \in WriteCommands(t), current = c,
         disk' = Stored(current, c.data)
  PROVE  OnDisk(c)'
  <1>1. ASSUME NEW i \in 1 .. c.n
        PROVE  c.data[i] = disk'[c.lun][c.lba + i - 1]
    <2>1. PICK b : b = c.lba + i - 1
      OBVIOUS
    <2>2. /\ b \in Lbas /\ b \in c.lba .. c.lba + c.n - 1
          /\ b - c.lba + 1 = i /\ i \in DOMAIN c.data
      <3>1. /\ c.n \in Nat /\ c.lba \in Nat /\ c.lba + c.n <= Blocks
            /\ c.data \in Seq(Contents) /\ Len(c.data) = c.n
        BY WriteCommandFields
      <3>2. b \in Nat /\ b <= Blocks - 1 /\ b \in c.lba .. c.lba + c.n - 1
            /\ b - c.lba + 1 = i
        <4>1. Blocks \in Nat /\ i \in Nat /\ 1 <= i /\ i <= c.n
          BY <1>1, <3>1, DiskAssumption
        <4>2. PICK n, lba : n = c.n /\ lba = c.lba
          OBVIOUS
        <4>3. QED
          BY <2>1, <3>1, <4>1, <4>2
      <3>3. QED
        BY <1>1, <3>1, <3>2, DiskAssumption DEF Lbas
    <2>3. c.lun \in Luns /\ disk \in [Luns -> [Lbas -> Contents]]
      BY WriteCommandFields DEF TypeInv, TypeOK
    <2>4. disk'[c.lun] =
            [x \in Lbas |-> IF x \in c.lba .. c.lba + c.n - 1
                               /\ x - c.lba + 1 \in DOMAIN c.data
                            THEN c.data[x - c.lba + 1] ELSE disk[c.lun][x]]
      BY <2>3 DEF Stored
    <2>5. disk'[c.lun][b] = c.data[i]
      BY <2>2, <2>4
    <2>6. QED
      BY <2>1, <2>5
  <1>2. QED
    BY <1>1 DEF OnDisk

LEMMA OwingDisk ==
  ASSUME TypeInv, NEW c \in Command, c.op = "WRITE_10", Owing(c), ~asked, Disk
  PROVE  Owing(c)' /\ disk' = disk
  <1>1. DiskCommand /\ phase = "command" /\ outPipe = <<Cbw(c)>> /\ completed = <<>>
        /\ inPipe = 0
    BY DEF Disk, DiskMaxLun, DiskCommand, DiskDataIn, DiskDataOut, DiskStatus, Owing
  <1>2. /\ current' = c /\ phase' = "data_out" /\ outPipe' = <<>>
        /\ completed' = <<Finished("cbw")>> /\ inPipe' = 0 /\ disk' = disk
    BY <1>1 DEF DiskCommand, Cbw, Complete, Finished
  <1>3. QED
    BY <1>2 DEF Owing

LEMMA WritingDisk ==
  ASSUME TypeInv, NEW t \in Tasks, NEW c \in WriteCommands(t), NEW n \in {0, 1},
         Writing(c, n), ~asked, Disk
  PROVE  \/ Writing(c, n)'
         \/ WriteEnded' /\ (~Rejects => OnDisk(c)') /\ disk' = disk
  <1>1. CASE DiskCommand
    <2>1. /\ phase = "command" /\ outPipe = <<Cbw(c), DataOut(c)>> /\ completed = <<>>
          /\ inPipe = n
      BY <1>1 DEF DiskCommand, Writing
    <2>2. PICK x, y : x = Cbw(c) /\ y = DataOut(c) /\ outPipe = <<x, y>>
      BY <2>1
    <2>3. Head(outPipe) = x /\ outPipe' = <<y>>
      BY <1>1, <2>2 DEF DiskCommand
    <2>4. /\ current' = c /\ phase' = "data_out"
          /\ completed' = <<Finished("cbw")>> /\ inPipe' = n
      BY <1>1, <2>1, <2>2, <2>3, WriteCommandFields DEF DiskCommand, Cbw, Complete, Finished
    <2>5. QED
      BY <2>2, <2>3, <2>4 DEF Writing
  <1>2. CASE DiskDataOut
    <2>1. /\ phase = "data_out" /\ current = c /\ outPipe = <<DataOut(c)>>
          /\ completed \in {<<>>, <<Finished("cbw")>>} /\ inPipe = n
      BY <1>2 DEF DiskDataOut, Writing
    <2>2. Head(outPipe) = DataOut(c) /\ outPipe' = <<>>
      BY <1>2, <2>1 DEF DiskDataOut
    <2>3. completed' = Append(completed, Finished("data_out"))
      BY <1>2, <2>2 DEF DiskDataOut, DataOut, Complete, Finished
    <2>4. completed' \in Sent
      <3>1. CASE completed = <<>>
        BY <2>3, <3>1 DEF Sent
      <3>2. CASE completed = <<Finished("cbw")>>
        BY <2>3, <3>2, ShortSequences DEF Sent
      <3>3. QED
        BY <2>1, <3>1, <3>2
    <2>5. ~Rejects => disk' = Stored(current, c.data)
      BY <1>2, <2>2 DEF DiskDataOut, DataOut
    <2>6. ~Rejects => OnDisk(c)'
      BY <2>1, <2>5, StoredOnDisk
    <2>7. phase' = "status" /\ current' = c /\ inPipe' = n
      BY <1>2, <2>1 DEF DiskDataOut
    <2>8. QED
      BY <2>2, <2>4, <2>6, <2>7 DEF Writing
  <1>3. CASE DiskStatus
    <2>1. /\ phase = "status" /\ outPipe = <<>> /\ completed \in Sent /\ inPipe = 1
          /\ ~Rejects => OnDisk(c)
      BY <1>3 DEF DiskStatus, Writing
    <2>2. completed' = Append(completed, Finished("csw"))
      BY <1>3 DEF DiskStatus, Complete, Finished
    <2>3. completed' \in Closing
      <3>1. CASE completed = <<>>
        BY <2>2, <3>1 DEF Closing
      <3>2. CASE completed = <<Finished("data_out")>>
        BY <2>2, <3>2, ShortSequences DEF Closing
      <3>3. CASE completed = <<Finished("cbw"), Finished("data_out")>>
        <4>1. completed' = <<Finished("cbw"), Finished("data_out"), Finished("csw")>>
          <5>1. Append(<<Finished("cbw"), Finished("data_out")>>, Finished("csw"))
                  = <<Finished("cbw"), Finished("data_out"), Finished("csw")>>
            BY AppendToTwo
          <5>2. QED
            BY <2>2, <3>3, <5>1, Zenon
        <4>2. QED
          BY <4>1 DEF Closing
      <3>4. QED
        BY <2>1, <3>1, <3>2, <3>3 DEF Sent
    <2>4. phase' = "command" /\ inPipe' = 0 /\ outPipe' = <<>> /\ disk' = disk
      BY <1>3, <2>1 DEF DiskStatus
    <2>5. ~Rejects => OnDisk(c)'
      BY <2>1, <2>4 DEF OnDisk
    <2>6. QED
      BY <2>3, <2>4, <2>5 DEF WriteEnded
  <1>4. CASE DiskMaxLun \/ DiskDataIn
    BY <1>4 DEF DiskMaxLun, DiskDataIn, Writing
  <1>5. QED
    BY <1>1, <1>2, <1>3, <1>4 DEF Disk

\* The callbacks of a write, and the status behind the last of them.
LEMMA ClosingTail ==
  ASSUME NEW kinds, Callback(kinds), completed \in Closing
  PROVE  \/ completed = <<Finished("csw")>> /\ completed' = <<>>
         \/ kinds # CSW /\ completed' \in Closing
  <1>1. CASE completed = <<Finished("csw")>>
    BY <1>1 DEF Callback
  <1>2. CASE completed = <<Finished("data_out"), Finished("csw")>>
    <2>1. Head(completed) = Finished("data_out") /\ completed' = <<Finished("csw")>>
      BY <1>2 DEF Callback
    <2>2. kinds # CSW
      BY <2>1 DEF Callback, Finished, Completed, CSW
    <2>3. QED
      BY <2>1, <2>2 DEF Closing
  <1>3. CASE completed = <<Finished("cbw"), Finished("data_out"), Finished("csw")>>
    <2>1. /\ Head(completed) = Finished("cbw")
          /\ completed' = <<Finished("data_out"), Finished("csw")>>
      BY <1>3, ShortSequences DEF Callback
    <2>2. kinds # CSW
      BY <2>1 DEF Callback, Finished, Completed, CSW
    <2>3. QED
      BY <2>1, <2>2 DEF Closing
  <1>4. QED
    BY <1>1, <1>2, <1>3 DEF Closing

\* Before the status is on its way the callbacks of a write change nothing.
LEMMA WritingClient ==
  ASSUME NEW c, NEW n, NEW kinds, Callback(kinds),
         UNCHANGED <<phase, current, outPipe, inPipe, disk>>
  PROVE  /\ Owing(c) => kinds # CSW /\ Owing(c)'
         /\ Writing(c, n) => kinds # CSW /\ Writing(c, n)'
  <1>1. completed # <<>> /\ completed' = Tail(completed) /\ Head(completed).kind \in kinds
    BY DEF Callback
  <1>2. /\ Finished("cbw").kind \notin CSW /\ Finished("data_out").kind \notin CSW
    BY DEF Finished, Completed, CSW
  <1>3. ASSUME completed \in {<<>>, <<Finished("cbw")>>}
        PROVE  completed' = <<>> /\ kinds # CSW
    <2>1. completed = <<Finished("cbw")>>
      BY <1>1, <1>3
    <2>2. Head(completed) = Finished("cbw") /\ completed' = <<>>
      BY <1>1, <2>1
    <2>3. QED
      BY <1>1, <1>2, <2>2
  <1>4. ASSUME completed \in Sent
        PROVE  completed' \in Sent /\ kinds # CSW
    <2>1. CASE completed = <<Finished("data_out")>>
      <3>1. Head(completed) = Finished("data_out") /\ completed' = <<>>
        BY <1>1, <2>1
      <3>2. QED
        BY <1>1, <1>2, <3>1 DEF Sent
    <2>2. CASE completed = <<Finished("cbw"), Finished("data_out")>>
      <3>1. /\ Head(completed) = Finished("cbw")
            /\ completed' = <<Finished("data_out")>>
        BY <1>1, <2>2
      <3>2. QED
        <4>1. completed' \in Sent
          BY <3>1 DEF Sent
        <4>2. QED
          BY <1>1, <1>2, <3>1, <4>1
    <2>3. QED
      BY <1>1, <1>4, <2>1, <2>2 DEF Sent
  <1>5. Owing(c) => kinds # CSW /\ Owing(c)'
    BY <1>1, <1>3 DEF Owing
  <1>6. Writing(c, n) => kinds # CSW /\ Writing(c, n)'
    BY <1>1, <1>3, <1>4 DEF Writing, OnDisk
  <1>7. QED
    BY <1>5, <1>6

-----------------------------------------------------------------------------
(* The exchanges of one task.                                              *)

LEMMA SerialInit ==
  ASSUME NEW t \in Tasks
  PROVE  Init => SerialInv(t)
  BY DEF Init, SerialInv, PluggedInv, Plugged

\* Under way or not: what makes a callback, a status or a free pipe possible.
LEMMA NothingComes ==
  ASSUME Nothing
  PROVE  /\ NoStatus /\ Plugged /\ (\A kinds : ~Callback(kinds)) /\ (~asked => ~Disk)
         /\ \A c, n : ~Asking(c, n) /\ ~Answered(c) /\ ~Ending(c, n) /\ ~Ended
                      /\ ~Owing(c) /\ ~Writing(c, n) /\ ~WriteEnded
  <1>1. NoStatus /\ Plugged /\ (\A kinds : ~Callback(kinds))
    BY DEF Nothing, NoStatus, Callback, Plugged
  <1>2. ~asked => ~Disk
    BY DEF Nothing, Disk, DiskMaxLun, DiskCommand, DiskDataIn, DiskDataOut, DiskStatus
  <1>3. ASSUME NEW c, NEW n
        PROVE  ~Asking(c, n) /\ ~Answered(c) /\ ~Ending(c, n) /\ ~Ended /\ ~Owing(c)
               /\ ~Writing(c, n)
    BY DEF Nothing, Asking, Answered, Ending, Ended, Owing, Writing
  <1>4. ~WriteEnded
    BY DEF Nothing, WriteEnded, Closing
  <1>5. QED
    BY <1>1, <1>2, <1>3, <1>4

LEMMA WritingNoStatus ==
  ASSUME NEW c, NEW n, Owing(c) \/ Writing(c, n)
  PROVE  NoStatus /\ Plugged
  <1>1. completed \in {<<>>, <<Finished("cbw")>>} \cup Sent
    BY DEF Owing, Writing
  <1>2. Finished("cbw").kind \notin CSW /\ Finished("data_out").kind \notin CSW
    BY DEF Finished, Completed, CSW
  <1>3. NoStatus
    <2>1. CASE completed = <<>>
      BY <2>1 DEF NoStatus
    <2>2. CASE completed = <<Finished("cbw")>>
      BY <1>2, <2>2 DEF NoStatus
    <2>3. CASE completed = <<Finished("data_out")>>
      BY <1>2, <2>3 DEF NoStatus
    <2>4. CASE completed = <<Finished("cbw"), Finished("data_out")>>
      BY <1>2, <2>4 DEF NoStatus
    <2>5. QED
      BY <1>1, <2>1, <2>2, <2>3, <2>4 DEF Sent
  <1>4. QED
    BY <1>3 DEF Owing, Writing, Plugged

\* When a task may call, or is told of its command, nothing is under way.
LEMMA IdleNothing ==
  ASSUME EnumInv, NEW t \in Tasks, SerialInv(t), Plugged, ready, pc[t] = "idle",
         event \in {"MAX_LUN"} \cup ScsiOps
  PROVE  Nothing
  <1>1. event \notin {"MAX_LUN", "READ_CAPACITY_10"} /\ PluggedInv(t)
    BY DEF EnumInv, SerialInv
  <1>2. CASE event = "INQUIRY"
    BY <1>1, <1>2 DEF PluggedInv
  <1>3. CASE event = "READ_10"
    BY <1>1, <1>3 DEF PluggedInv, InRead
  <1>4. CASE event = "WRITE_10"
    BY <1>1, <1>4 DEF PluggedInv, InWrite
  <1>5. QED
    BY <1>1, <1>2, <1>3, <1>4

\* A task inside a call has its own exchange under way, or none.
LEMMA CallEvent ==
  ASSUME TypeInv, EnumInv, NEW t \in Tasks, SerialInv(t), pc[t] # "idle"
  PROVE  ready /\ event \in {"READ_10", "WRITE_10"}
  <1>1. ready
    BY DEF EnumInv
  <1>2. event \notin {"MAX_LUN", "READ_CAPACITY_10"} /\ event \in {"MAX_LUN"} \cup ScsiOps
    BY <1>1 DEF EnumInv, TypeInv, TypeOK
  <1>3. event # "INQUIRY"
    BY <1>1 DEF SerialInv, PluggedInv, GoneInv
  <1>4. QED
    BY <1>1, <1>2, <1>3

\* What a task has been notified of has been done.
LEMMA NotifiedDone ==
  ASSUME TypeInv, EnumInv, NEW t \in Tasks, SerialInv(t), notified[t]
  PROVE  /\ Done(t) /\ completed = <<>> /\ pc[t] \in {"read_notify", "wait"}
         /\ Plugged => Nothing
  <1>1. CASE Plugged
    <2>1. Nothing /\ pc[t] \in {"read_notify", "wait"}
      BY <1>1 DEF SerialInv, PluggedInv
    <2>2. event \in {"READ_10", "WRITE_10"}
      BY <2>1, CallEvent
    <2>3. CASE event = "READ_10"
      BY <1>1, <2>1, <2>3, NothingComes DEF SerialInv, PluggedInv, InRead, Nothing
    <2>4. CASE event = "WRITE_10"
      BY <1>1, <2>1, <2>4, NothingComes DEF SerialInv, PluggedInv, InWrite, Nothing
    <2>5. QED
      BY <1>1, <2>1, <2>2, <2>3, <2>4
  <1>2. CASE ~Plugged
    BY <1>2 DEF SerialInv, GoneInv
  <1>3. QED
    BY <1>1, <1>2

\* The client task runs a callback while the disk enumerates its units.
LEMMA SerialEnumClient ==
  ASSUME NEW t \in Tasks, Tasks = {t}, TypeInv, EnumInv, SerialInv(t), Plugged,
         noMem' = noMem, ~ready, ClientTask
  PROVE  SerialInv(t)'
  <1> USE DEF driverVars, taskVars, diskVars
  <1>1. /\ pc[t] = "idle" /\ ~notified[t] /\ reply[t] = "none" /\ PluggedInv(t)
        /\ cmd[t] \in {InquiryCommand} \cup ReadCommands(t) \cup WriteCommands(t)
    BY DEF EnumInv, SerialInv
  <1>2. lun \in Luns /\ event \in {"MAX_LUN"} \cup ScsiOps
    BY DEF TypeInv, TypeOK
  \* between two commands of the enumeration
  <1>3. ASSUME NEW c \in Command, SubmitOut(Cbw(c)), Csw, completed' = <<>>,
               phase = "command", outPipe = <<>>, inPipe = 0, UNCHANGED phase
        PROVE  Reading(c, 1)'
    <2>1. PICK n \in {0, 1} : Asking(c, n)' /\ n = 1
      BY <1>3, ReadingStarts
    <2>2. QED
      BY <2>1 DEF Reading
  \* what is left to show: the command under way after the callback
  <1>4. ASSUME UNCHANGED <<pc, cmd, reply, notified, phase>>,
               \/ /\ event' = "READ_CAPACITY_10"
                  /\ \E c : c = CapacityCommand(lun') /\ Reading(c, 1)'
               \/ /\ event' = "INQUIRY" /\ ~ready'
                  /\ Reading(InquiryCommand, 1)'
               \/ event' = "INQUIRY" /\ ready' /\ Nothing'
        PROVE  SerialInv(t)'
    <2>1. Plugged'
      BY <1>4 DEF Plugged
    <2>2. /\ ~notified'[t] /\ pc'[t] = "idle" /\ reply'[t] = "none" /\ reply'[t] # "ESP_OK"
          /\ cmd'[t] \in {InquiryCommand} \cup ReadCommands(t) \cup WriteCommands(t)
      BY <1>1, <1>4
    <2>3. PluggedInv(t)'
      <3>1. event' = "READ_CAPACITY_10" => Reading(CapacityCommand(lun), 1)'
        BY <1>4
      <3>2. QED
        BY <1>4, <2>2, <3>1 DEF PluggedInv
    <2>4. QED
      BY <2>1, <2>2, <2>3 DEF SerialInv
  <1>5. CASE event = "MAX_LUN"
    <2>1. MaxLunAsked
      BY <1>5 DEF EnumInv
    <2>2. completed # <<>> /\ ~NoStatus
      BY <2>1
      DEF MaxLunAsked, ClientTask, OnCBW, OnMaxLun, OnCapacityStatus, OnInquiryStatus,
          OnTransferStatus, OnInquiryData, OnCapacityData, OnReadData, OnOtherData,
          Callback
    <2>3. completed = <<Finished("max_lun")>>
      BY <2>1, <2>2 DEF MaxLunAsked
    <2>4. OnMaxLun
      BY <1>5, <2>3
      DEF ClientTask, OnCBW, OnCapacityStatus, OnInquiryStatus, OnTransferStatus,
          OnInquiryData, OnCapacityData, OnReadData, OnOtherData, Callback, Finished,
          Completed, Data
    <2>5. /\ SubmitOut(Cbw(CapacityCommand(0))) /\ Csw /\ completed' = <<>> /\ lun' = 0
          /\ event' = "READ_CAPACITY_10"
      BY <2>3, <2>4 DEF OnMaxLun, GetCapacity, Callback
    <2>6. phase = "command" /\ outPipe = <<>> /\ inPipe = 0
      BY <2>1 DEF MaxLunAsked, Plugged
    <2>7. UNCHANGED <<pc, cmd, reply, phase, notified>>
      BY <2>4 DEF OnMaxLun
    <2>8. Reading(CapacityCommand(0), 1)'
      BY <1>3, <2>5, <2>6, <2>7, Constants
    <2>9. QED
      BY <1>4, <2>5, <2>7, <2>8
  <1>6. ASSUME NEW c \in Command, Reading(c, 1), c.n = 1,
               \/ event = "READ_CAPACITY_10" /\ c = CapacityCommand(lun)
               \/ event = "INQUIRY" /\ c = InquiryCommand
        PROVE  SerialInv(t)'
    <2>1. CASE OnCBW
      <3>1. Reading(c, 1)' /\ UNCHANGED <<event, lun, ready, pc, cmd, reply, notified, phase>>
        BY <1>6, <2>1, ReadingCbw DEF OnCBW
      <3>2. QED
        BY <1>4, <1>6, <3>1
    <2>2. CASE OnInquiryData \/ OnCapacityData
      <3>1. /\ Callback(Data) /\ Csw
            /\ UNCHANGED <<event, lun, ready, pc, cmd, reply, notified, phase, current,
                           outPipe>>
        BY <2>2 DEF OnInquiryData, OnCapacityData
      <3>2. inPipe' = 1 /\ (Asking(c, 1)' \/ Ending(c, 1)')
        BY <1>6, <3>1, ReadingData
      <3>3. Reading(c, 1)'
        BY <3>2 DEF Reading
      <3>4. QED
        BY <1>4, <1>6, <3>1, <3>3
    <2>3. CASE OnCapacityStatus
      <3>1. Ended /\ completed' = <<>>
        BY <1>6, <2>3, ReadingStatus DEF OnCapacityStatus
      <3>2. UNCHANGED <<pc, cmd, reply, notified, phase, ready>>
        BY <2>3 DEF OnCapacityStatus
      <3>3. CASE MoreUnits
        <4>1. /\ SubmitOut(Cbw(CapacityCommand(lun + 1))) /\ Csw /\ lun' = lun + 1
              /\ event' = "READ_CAPACITY_10"
          BY <2>3, <3>3 DEF OnCapacityStatus, GetCapacity
        <4>2. PICK l \in Luns : l = lun + 1
          <5>1. lun \in Luns /\ luns \in Luns
            BY DEF TypeInv, TypeOK
          <5>2. QED
            BY <3>3, <5>1, DiskAssumption DEF MoreUnits, Luns
        <4>3. Reading(CapacityCommand(l), 1)'
          BY <1>3, <3>1, <3>2, <4>1, <4>2, Constants DEF Ended
        <4>4. QED
          BY <1>4, <3>2, <4>1, <4>2, <4>3
      <3>4. CASE ~MoreUnits
        <4>1. SubmitOut(Cbw(InquiryCommand)) /\ Csw /\ event' = "INQUIRY"
          BY <2>3, <3>4 DEF OnCapacityStatus, Inquiry
        <4>2. Reading(InquiryCommand, 1)'
          BY <1>3, <3>1, <3>2, <4>1, Constants DEF Ended
        <4>3. QED
          BY <1>4, <3>2, <4>1, <4>2
      <3>5. QED
        BY <3>3, <3>4
    <2>4. CASE OnInquiryStatus
      <3>1. Ended /\ completed' = <<>>
        BY <1>6, <2>4, ReadingStatus DEF OnInquiryStatus
      <3>2. Nothing' /\ ready' /\ event' = "INQUIRY"
        BY <2>4, <3>1 DEF OnInquiryStatus, Ended, Nothing
      <3>3. QED
        BY <1>4, <2>4, <3>2 DEF OnInquiryStatus
    <2>5. QED
      BY <1>6, <2>1, <2>2, <2>3, <2>4
      DEF ClientTask, OnMaxLun, OnTransferStatus, OnReadData, OnOtherData
  <1>7. CASE event = "READ_CAPACITY_10"
    <2>1. CapacityCommand(lun) \in Command /\ CapacityCommand(lun).n = 1
      BY <1>2, CapacityCommandFields
    <2>2. QED
      BY <1>1, <1>6, <1>7, <2>1 DEF PluggedInv
  <1>8. CASE event = "INQUIRY"
    <2>1. InquiryCommand \in Command /\ InquiryCommand.n = 1
      BY Constants DEF InquiryCommand
    <2>2. QED
      BY <1>1, <1>6, <1>8, <2>1 DEF PluggedInv
  <1>9. CASE event \in {"READ_10", "WRITE_10"}
    <2>1. Nothing
      BY <1>1, <1>9 DEF PluggedInv, InRead, InWrite
    <2>2. QED
      BY <2>1, NothingComes
      DEF ClientTask, OnCBW, OnMaxLun, OnCapacityStatus, OnInquiryStatus,
          OnTransferStatus, OnInquiryData, OnCapacityData, OnReadData, OnOtherData
  <1>10. QED
    BY <1>2, <1>5, <1>7, <1>8, <1>9

\* The callbacks of a read.
LEMMA SerialReadClient ==
  ASSUME NEW t \in Tasks, Tasks = {t}, TypeInv, EnumInv, SerialInv(t), Plugged,
         noMem' = noMem, event = "READ_10", ClientTask
  PROVE  SerialInv(t)'
  <1> USE DEF driverVars, taskVars, diskVars
  <1>1. OnCBW \/ OnTransferStatus \/ OnReadData
    BY DEF ClientTask, OnMaxLun, OnCapacityStatus, OnInquiryStatus, OnInquiryData,
           OnCapacityData, OnOtherData
  <1>2. ~Nothing
    BY <1>1, NothingComes DEF OnCBW, OnTransferStatus, OnReadData
  <1>3. PICK c : c = cmd[t]
    OBVIOUS
  <1>4. c \in Command /\ c.op = "READ_10" /\ InRead(t) /\ ~notified[t] /\ pc[t] # "idle"
        /\ temp_buffer = t
    BY <1>2, <1>3 DEF TypeInv, TypeOK, SerialInv, PluggedInv, InRead
  <1>5. /\ UNCHANGED <<event, temp_buffer, pc, cmd, reply, phase, disk, ready, outPipe,
                       current>>
        /\ Plugged'
    BY <1>1 DEF OnCBW, OnTransferStatus, OnReadData, Plugged
  \* what is left to show: the stage of the exchange after the callback
  <1>6. ASSUME \/ pc[t] = "read_csw" /\ Asking(c, 0)'
               \/ /\ pc[t] \in {"read_notify", "wait"}
                  /\ \/ Asking(c, 1)' \/ Answered(c)'
                     \/ (Ending(c, 1)' \/ Ended' \/ Nothing') /\ Done(t)',
               notified'[t] => Nothing' /\ pc[t] \in {"read_notify", "wait"}
        PROVE  SerialInv(t)'
    <2>1. InRead(t)'
      BY <1>3, <1>4, <1>5, <1>6 DEF InRead
    <2>2. PluggedInv(t)'
      BY <1>5, <1>6, <2>1 DEF PluggedInv
    <2>3. QED
      BY <1>4, <1>5, <2>2 DEF SerialInv
  <1>7. CASE OnCBW
    <2>1. Callback({"cbw"}) /\ UNCHANGED <<inPipe, buf, notified>>
      BY <1>7 DEF OnCBW
    <2>2. CASE pc[t] = "read_csw"
      <3>1. Asking(c, 0)
        BY <1>3, <1>4, <2>2 DEF InRead
      <3>2. ~Answered(c) /\ Reading(c, 0)
        BY <3>1 DEF Answered, Asking, Reading, Finished, DataIn, Completed
      <3>3. Asking(c, 0)'
        BY <1>4, <1>5, <2>1, <3>1, <3>2, ReadingCbw
      <3>4. QED
        BY <1>4, <1>6, <2>1, <2>2, <3>3
    <2>3. CASE pc[t] \in {"read_notify", "wait"}
      <3>1. Reading(c, 1)
        BY <1>2, <1>3, <1>4, <2>3 DEF InRead, Reading
      <3>2. Asking(c, 1)' \/ Answered(c)'
        BY <1>4, <1>5, <2>1, <3>1, ReadingCbw
      <3>3. QED
        BY <1>4, <1>6, <2>1, <2>3, <3>2
    <2>4. QED
      BY <1>4, <2>2, <2>3 DEF InRead
  <1>8. CASE OnTransferStatus
    <2>1. Callback(CSW) /\ UNCHANGED <<inPipe, buf>>
      BY <1>8 DEF OnTransferStatus
    <2>2. PICK n \in {0, 1} : Reading(c, n) /\ (n = 1 <=> pc[t] # "read_csw")
      <3>1. pc[t] = "read_csw" => Reading(c, 0)
        BY <1>3, <1>4 DEF InRead, Reading
      <3>2. pc[t] # "read_csw" => Reading(c, 1)
        BY <1>2, <1>3, <1>4 DEF InRead, Reading
      <3>3. QED
        BY <3>1, <3>2
    <2>3. Ended /\ completed' = <<>>
      BY <1>4, <2>1, <2>2, ReadingStatus
    <2>4. Nothing'
      BY <1>5, <2>1, <2>3 DEF Ended, Nothing
    <2>5. ~Asking(c, 0) /\ ~Asking(c, 1) /\ ~Answered(c)
      BY <2>3 DEF Ended, Asking, Answered
    <2>6. pc[t] \in {"read_notify", "wait"} /\ Done(t)
      BY <1>2, <1>3, <1>4, <2>5 DEF InRead
    <2>7. Done(t)'
      BY <1>5, <2>1, <2>6 DEF Done, AnswerTo, OnDisk
    <2>8. QED
      BY <1>6, <2>4, <2>6, <2>7
  <1>9. CASE OnReadData
    <2>1. /\ Callback(Data) /\ Csw /\ UNCHANGED notified
          /\ buf' = [buf EXCEPT ![t][1] = Head(completed).payload]
      BY <1>4, <1>9 DEF OnReadData, Copied
    <2>2. PICK n \in {0, 1} : /\ Reading(c, n)
                              /\ pc[t] = "read_csw" => Asking(c, 0)
      <3>1. pc[t] = "read_csw" => Reading(c, 0) /\ Asking(c, 0)
        BY <1>3, <1>4 DEF InRead, Reading
      <3>2. pc[t] # "read_csw" => Reading(c, 1)
        BY <1>2, <1>3, <1>4 DEF InRead, Reading
      <3>3. QED
        BY <3>1, <3>2
    <2>3. /\ Answered(c)
          /\ c.n = 1 => Head(completed).payload = AnswerTo(c)
          /\ inPipe' = 1 /\ (Asking(c, 1)' \/ Ending(c, 1)')
      BY <1>4, <1>5, <2>1, <2>2, ReadingData
    <2>4. pc[t] \in {"read_notify", "wait"}
      <3>1. ~Asking(c, 0)
        BY <2>3 DEF Answered, Asking, Finished, DataIn, Completed
      <3>2. QED
        BY <1>4, <2>2, <3>1 DEF InRead
    <2>5. Done(t)'
      <3>1. buf'[t][1] = Head(completed).payload
        BY <2>1, HostAssumption DEF TypeInv, TypeOK
      <3>2. AnswerTo(c)' = AnswerTo(c)
        BY <1>5 DEF AnswerTo
      <3>3. cmd'[t] = c
        BY <1>3, <1>5
      <3>4. c.n = 1 => buf'[t][1] = AnswerTo(cmd[t])'
        BY <2>3, <3>1, <3>2, <3>3
      <3>5. QED
        BY <1>4, <3>3, <3>4 DEF Done
    <2>6. QED
      BY <1>4, <1>6, <2>1, <2>3, <2>4, <2>5
  <1>10. QED
    BY <1>1, <1>7, <1>8, <1>9

\* The callbacks of a write.
LEMMA SerialWriteClient ==
  ASSUME NEW t \in Tasks, Tasks = {t}, TypeInv, EnumInv, SerialInv(t), Plugged,
         event = "WRITE_10", ClientTask
  PROVE  SerialInv(t)'
  <1> USE DEF driverVars, taskVars, diskVars
  <1>1. OnCBW \/ OnTransferStatus \/ OnOtherData
    BY DEF ClientTask, OnMaxLun, OnCapacityStatus, OnInquiryStatus, OnInquiryData,
           OnCapacityData, OnReadData
  <1>2. PICK kinds : Callback(kinds) /\ (OnTransferStatus => kinds = CSW)
    BY <1>1 DEF OnCBW, OnTransferStatus, OnOtherData, Callback, CSW, Data
  <1>3. ~Nothing
    BY <1>2, NothingComes
  <1>4. PICK c : c = cmd[t]
    OBVIOUS
  <1>5. InWrite(t) /\ ~notified[t] /\ pc[t] # "idle"
    BY <1>3 DEF SerialInv, PluggedInv, InWrite
  <1>6. /\ UNCHANGED <<event, pc, cmd, reply, buf, phase, disk, ready, outPipe, inPipe,
                       current>>
        /\ Plugged'
    BY <1>1 DEF OnCBW, OnTransferStatus, OnOtherData, Plugged
  <1>7. Done(t) => Done(t)'
    BY <1>6 DEF Done, AnswerTo, OnDisk
  <1>8. ~OnTransferStatus => ~notified'[t]
    BY <1>1, <1>5 DEF OnCBW, OnOtherData
  <1>9. ASSUME \/ pc[t] = "write_data" /\ Owing(c)'
               \/ pc[t] = "write_csw" /\ Writing(c, 0)'
               \/ pc[t] = "wait" /\ Writing(c, 1)'
               \/ pc[t] = "wait" /\ (WriteEnded' \/ Nothing') /\ Done(t)',
               notified'[t] => Nothing' /\ pc[t] = "wait"
        PROVE  SerialInv(t)'
    <2>1. InWrite(t)'
      BY <1>4, <1>5, <1>6, <1>9 DEF InWrite
    <2>2. PluggedInv(t)'
      BY <1>6, <1>9, <2>1 DEF PluggedInv
    <2>3. QED
      BY <1>5, <1>6, <2>2 DEF SerialInv
  <1>10. CASE pc[t] = "write_data"
    BY <1>2, <1>4, <1>5, <1>6, <1>8, <1>9, <1>10, WritingClient DEF InWrite
  <1>11. CASE pc[t] = "write_csw"
    BY <1>2, <1>4, <1>5, <1>6, <1>8, <1>9, <1>11, WritingClient DEF InWrite
  <1>12. CASE pc[t] = "wait" /\ Writing(c, 1)
    BY <1>2, <1>6, <1>8, <1>9, <1>12, WritingClient
  <1>13. CASE pc[t] = "wait" /\ WriteEnded /\ Done(t)
    <2>1. \/ completed' = <<>>
          \/ ~OnTransferStatus /\ completed' \in Closing
      BY <1>2, <1>13, ClosingTail DEF WriteEnded
    <2>2. Nothing' \/ (~OnTransferStatus /\ WriteEnded')
      BY <1>6, <1>13, <2>1 DEF WriteEnded, Nothing
    <2>3. QED
      BY <1>7, <1>8, <1>9, <1>13, <2>2
  <1>14. QED
    BY <1>3, <1>4, <1>5, <1>10, <1>11, <1>12, <1>13 DEF InWrite

LEMMA SerialClient ==
  ASSUME NEW t \in Tasks, Tasks = {t}, TypeInv, EnumInv, SerialInv(t), Plugged,
         noMem' = noMem, ClientTask
  PROVE  SerialInv(t)'
  <1>1. \E kinds : Callback(kinds)
    BY DEF ClientTask, OnCBW, OnMaxLun, OnCapacityStatus, OnInquiryStatus,
           OnTransferStatus, OnInquiryData, OnCapacityData, OnReadData, OnOtherData
  <1>2. event \in {"MAX_LUN"} \cup ScsiOps
    BY DEF TypeInv, TypeOK
  <1>3. CASE ready /\ event \notin {"READ_10", "WRITE_10"}
    <2>1. Nothing
      BY <1>2, <1>3 DEF EnumInv, SerialInv, PluggedInv
    <2>2. QED
      BY <1>1, <2>1, NothingComes
  <1>4. QED
    BY <1>2, <1>3, SerialEnumClient, SerialReadClient, SerialWriteClient

\* The disk answers while it is there.
LEMMA SerialDisk ==
  ASSUME NEW t \in Tasks, Tasks = {t}, TypeInv, EnumInv, SerialInv(t), Plugged, Disk
  PROVE  SerialInv(t)'
  <1>1. /\ UNCHANGED <<event, lun, temp_buffer, pc, cmd, reply, buf, notified, ready>>
        /\ Plugged'
    BY DEF Disk, DiskMaxLun, DiskCommand, DiskDataIn, DiskDataOut, DiskStatus,
           driverVars, taskVars, Plugged
  <1>2. event \in {"MAX_LUN"} \cup ScsiOps /\ lun \in Luns /\ cmd[t] \in Command
        /\ (event # "MAX_LUN" => ~asked)
    BY DEF TypeInv, TypeOK, EnumInv
  <1>3. CASE event = "MAX_LUN"
    <2>1. pc[t] = "idle" /\ ~notified[t] /\ reply[t] = "none"
      BY <1>3 DEF EnumInv, SerialInv
    <2>2. PluggedInv(t)'
      BY <1>1, <1>3, <2>1 DEF PluggedInv
    <2>3. QED
      BY <1>1, <2>1, <2>2 DEF SerialInv
  <1>4. event \in {"READ_CAPACITY_10", "INQUIRY"} => ~ready
    <2>1. CASE Nothing
      BY <1>2, <2>1, NothingComes
    <2>2. CASE ~Nothing
      BY <2>2 DEF SerialInv, PluggedInv, EnumInv
    <2>3. QED
      BY <2>1, <2>2
  <1>5. CASE event \in {"READ_CAPACITY_10", "INQUIRY"}
    <2>1. ~ready /\ pc[t] = "idle" /\ ~notified[t] /\ reply[t] = "none"
      BY <1>4, <1>5 DEF EnumInv, SerialInv
    <2>2. PICK c : c = IF event = "INQUIRY" THEN InquiryCommand ELSE CapacityCommand(lun)
      OBVIOUS
    <2>3. c \in Command /\ c.op # "WRITE_10" /\ Reading(c, 1)
      BY <1>2, <1>5, <2>1, <2>2, CapacityCommandFields, Constants
      DEF SerialInv, PluggedInv, InquiryCommand
    <2>4. Reading(c, 1)'
      BY <1>2, <1>5, <2>3, ReadingDisk
    <2>5. c = IF event' = "INQUIRY" THEN InquiryCommand ELSE CapacityCommand(lun')
      BY <1>1, <2>2
    <2>6. PluggedInv(t)'
      BY <1>1, <1>5, <2>1, <2>4, <2>5 DEF PluggedInv
    <2>7. QED
      BY <1>1, <2>1, <2>6 DEF SerialInv
  <1>6. ASSUME event \in {"READ_10", "WRITE_10"}
        PROVE  ~Nothing /\ ~notified[t] /\ pc[t] # "idle" /\ ~asked /\ ready
    <2>1. ~asked
      BY <1>2, <1>6
    <2>2. ~Nothing
      BY <2>1, NothingComes
    <2>3. pc[t] # "idle" /\ ~notified[t]
      BY <1>6, <2>2 DEF SerialInv, PluggedInv, InRead, InWrite
    <2>4. QED
      BY <2>1, <2>2, <2>3 DEF EnumInv
  <1>7. PICK c : c = cmd[t]
    OBVIOUS
  <1>8. CASE event = "READ_10"
    <2>1. InRead(t) /\ c.op = "READ_10" /\ c \in Command
      BY <1>2, <1>7, <1>8 DEF SerialInv, PluggedInv, InRead
    <2>2. /\ pc[t] = "read_csw" => Reading(c, 0) /\ Asking(c, 0)
          /\ pc[t] # "read_csw" => Reading(c, 1) /\ (Ending(c, 1) \/ Ended => Done(t))
      <3>1. Ending(c, 1) \/ Ended => ~Asking(c, 1) /\ ~Answered(c)
        BY DEF Ending, Ended, Asking, Answered
      <3>2. QED
        BY <1>6, <1>7, <1>8, <2>1, <3>1 DEF InRead, Reading
    <2>3. /\ pc[t] = "read_csw" => Asking(c, 0)'
          /\ pc[t] # "read_csw" => \/ Asking(c, 1)' \/ Answered(c)'
                                   \/ Done(t) /\ Ended'
          /\ disk' = disk
      BY <1>6, <1>8, <2>1, <2>2, ReadingDisk
    <2>4. Done(t) => Done(t)'
      BY <1>1, <2>3 DEF Done, AnswerTo, OnDisk
    <2>5. InRead(t)'
      BY <1>1, <1>6, <1>7, <1>8, <2>1, <2>3, <2>4 DEF InRead
    <2>6. PluggedInv(t)'
      BY <1>1, <1>6, <1>8, <2>5 DEF PluggedInv
    <2>7. QED
      BY <1>1, <1>6, <1>8, <2>6 DEF SerialInv
  <1>9. CASE event = "WRITE_10"
    <2>1. InWrite(t) /\ c.op = "WRITE_10" /\ c \in Command /\ c \in WriteCommands(t)
      BY <1>2, <1>7, <1>9
      DEF SerialInv, PluggedInv, InWrite, InquiryCommand, ReadCommands
    <2>2. pc[t] \in {"write_data", "write_csw", "wait"}
      BY <1>6, <1>9, <2>1 DEF InWrite
    <2>3. ASSUME InWrite(t)'
          PROVE  SerialInv(t)'
      <3>1. PluggedInv(t)'
        BY <1>1, <1>6, <1>9, <2>3 DEF PluggedInv
      <3>2. QED
        BY <1>1, <1>6, <1>9, <3>1 DEF SerialInv
    <2>4. CASE pc[t] = "write_data"
      <3>1. Owing(c)'
        BY <1>6, <1>7, <1>9, <2>1, <2>4, OwingDisk DEF InWrite
      <3>2. QED
        BY <1>1, <1>7, <2>1, <2>3, <2>4, <3>1 DEF InWrite
    <2>5. ~WriteEnded
      BY <1>6, <1>9 DEF WriteEnded, Disk, DiskMaxLun, DiskCommand, DiskDataIn,
                        DiskDataOut, DiskStatus
    <2>6. ASSUME NEW n \in {0, 1}, Writing(c, n)
          PROVE  /\ Writing(c, n)' \/ (WriteEnded' /\ Done(t)')
                 /\ n = 0 => Writing(c, 0)'
      <3>1. Writing(c, n)' \/ (WriteEnded' /\ (~Rejects => OnDisk(c)'))
        BY <1>6, <1>9, <2>1, <2>6, WritingDisk
      <3>2. (~Rejects => OnDisk(c)') => Done(t)'
        <4>1. cmd'[t] = c
          BY <1>1, <1>7
        <4>2. OnDisk(c)' <=> OnDisk(cmd[t])'
          BY <4>1 DEF OnDisk
        <4>3. QED
          BY <2>1, <4>1, <4>2 DEF Done
      <3>3. n = 0 => Writing(c, 0)'
        <4>1. n = 0 => ~DiskStatus
          BY <2>6 DEF DiskStatus, Writing
        <4>2. WriteEnded' => DiskStatus
          BY <1>6, <1>9 DEF WriteEnded, Disk, DiskMaxLun, DiskCommand, DiskDataIn,
                            DiskDataOut
        <4>3. QED
          BY <3>1, <4>1, <4>2
      <3>4. QED
        BY <3>1, <3>2, <3>3
    <2>7. CASE pc[t] = "write_csw"
      BY <1>1, <1>7, <2>1, <2>3, <2>6, <2>7 DEF InWrite
    <2>8. CASE pc[t] = "wait"
      <3>1. Writing(c, 1)
        BY <1>6, <1>7, <1>9, <2>1, <2>5, <2>8 DEF InWrite
      <3>2. QED
        BY <1>1, <1>7, <2>1, <2>3, <2>6, <2>8, <3>1 DEF InWrite
    <2>9. QED
      BY <2>2, <2>4, <2>7, <2>8
  <1>10. QED
    BY <1>2, <1>3, <1>5, <1>8, <1>9

\* The disk is pulled out while an exchange is under way, or none is.
LEMMA SerialUnplug ==
  ASSUME NEW t \in Tasks, Tasks = {t}, TypeInv, EnumInv, SerialInv(t), Unplug
  PROVE  SerialInv(t)'
  <1>1. /\ UNCHANGED <<event, lun, pc, cmd, reply, buf, notified, ready, disk>>
        /\ Plugged /\ ~Plugged' /\ outPipe' = <<>> /\ inPipe' = 0
        /\ NoStatus => NoStatus'
        /\ outPipe = <<>> /\ inPipe = 0 /\ ~asked => completed' = completed
    BY Cancelled DEF driverVars, taskVars
  <1>2. Done(t) => Done(t)'
    BY <1>1 DEF Done, AnswerTo, OnDisk
  <1>3. event \in {"MAX_LUN"} \cup ScsiOps /\ (event # "MAX_LUN" => ~asked)
    BY DEF TypeInv, TypeOK, EnumInv
  <1>4. Nothing /\ event # "MAX_LUN" => completed' = <<>>
    BY <1>1, <1>3 DEF Nothing
  <1>5. pc[t] # "idle" => event \in {"READ_10", "WRITE_10"}
    BY CallEvent
  <1>6. pc[t] = "idle" /\ reply[t] = "ESP_OK" => completed' = <<>>
    <2>1. pc[t] = "idle" /\ reply[t] = "ESP_OK" => ready
      BY DEF SerialInv
    <2>2. QED
      BY <1>1, <1>3, <1>4, <2>1, IdleNothing DEF EnumInv
  <1>7. notified[t] => completed' = <<>> /\ pc[t] \in {"read_notify", "wait"} /\ Done(t)
    BY <1>1, <1>4, <1>5, NotifiedDone
  <1>8. NoStatus' \/ StatusLeft(t)'
    <2>1. CASE event = "MAX_LUN"
      BY <1>1, <2>1 DEF StatusLeft
    <2>2. CASE event \in {"READ_CAPACITY_10", "INQUIRY"}
      <3>1. Nothing \/ (~ready /\ \E c : Reading(c, 1))
        BY <1>1, <2>2 DEF SerialInv, PluggedInv, EnumInv
      <3>2. NoStatus \/ (~ready /\ Ended)
        BY <3>1, NothingComes, ReadingNoStatus
      <3>3. Ended => completed' = <<Finished("csw")>>
        BY <1>1, <1>3, <2>2 DEF Ended
      <3>4. QED
        BY <1>1, <2>2, <3>2, <3>3 DEF StatusLeft
    <2>3. CASE event = "READ_10"
      <3>1. InRead(t)
        BY <1>1, <2>3 DEF SerialInv, PluggedInv
      <3>2. CASE Ended
        <4>1. ~Nothing /\ ~Asking(cmd[t], 0) /\ ~Asking(cmd[t], 1) /\ ~Answered(cmd[t])
          BY <3>2 DEF Ended, Nothing, Asking, Answered
        <4>2. pc[t] \in {"read_notify", "wait"} /\ Done(t)
          BY <3>1, <4>1 DEF InRead
        <4>3. completed' = <<Finished("csw")>>
          BY <1>1, <1>3, <2>3, <3>2 DEF Ended
        <4>4. QED
          BY <1>1, <1>2, <2>3, <4>2, <4>3 DEF StatusLeft
      <3>3. CASE ~Ended
        <4>1. Nothing \/ \E n : Reading(cmd[t], n)
          BY <3>1 DEF InRead, Reading
        <4>2. NoStatus
          BY <3>3, <4>1, NothingComes, ReadingNoStatus
        <4>3. QED
          BY <1>1, <4>2
      <3>4. QED
        BY <3>2, <3>3
    <2>4. CASE event = "WRITE_10"
      <3>1. InWrite(t)
        BY <1>1, <2>4 DEF SerialInv, PluggedInv
      <3>2. CASE WriteEnded
        <4>1. completed' \in Closing
          BY <1>1, <1>3, <2>4, <3>2 DEF WriteEnded
        <4>2. ~Nothing /\ ~Owing(cmd[t]) /\ ~Writing(cmd[t], 0) /\ ~Writing(cmd[t], 1)
          BY <3>2 DEF WriteEnded, Closing, Nothing, Owing, Writing
        <4>3. pc[t] = "wait" /\ Done(t)
          BY <3>1, <4>2 DEF InWrite
        <4>4. QED
          BY <1>1, <1>2, <2>4, <4>1, <4>3 DEF StatusLeft
      <3>3. CASE ~WriteEnded
        <4>1. Nothing \/ Owing(cmd[t]) \/ \E n : Writing(cmd[t], n)
          BY <3>1, <3>3 DEF InWrite
        <4>2. NoStatus
          BY <4>1, NothingComes, WritingNoStatus
        <4>3. QED
          BY <1>1, <4>2
      <3>4. QED
        BY <3>2, <3>3
    <2>5. QED
      BY <1>3, <2>1, <2>2, <2>3, <2>4
  <1>9. GoneInv(t)'
    BY <1>1, <1>2, <1>5, <1>6, <1>7, <1>8 DEF GoneInv
  <1>10. QED
    BY <1>1, <1>2, <1>9 DEF SerialInv

\* The task calls and waits while the disk is there.
LEMMA SerialTask ==
  ASSUME NEW t \in Tasks, Tasks = {t}, TypeInv, EnumInv, SerialInv(t), Plugged,
         Calm, Calm', Read10(t) \/ Write10(t) \/ AppTask(t)
  PROVE  SerialInv(t)'
  <1> USE DEF driverVars, pipeVars, taskVars, diskVars
  <1>1. /\ UNCHANGED <<phase, current, disk, ready, lun, completed, buf>> /\ Plugged'
        /\ noMem' = noMem /\ slow' = slow
    BY DEF Read10, Write10, AppTask, SubmitRead, Read10Retry, Read10Csw, Read10Notify,
           Write10Data, Write10Csw, NotifyWaitTaken, NotifyWaitExpired, Plugged, Calm
  <1>2. \A ok \in BOOLEAN : Allocate(ok) => ok
    BY <1>1 DEF Allocate, TypeInv, TypeOK
  <1>3. Csw => inPipe' = inPipe + 1
    BY <1>1, <1>2 DEF Csw
  <1>4. /\ pc \in [Tasks -> {"idle", "read_retry", "read_csw", "read_notify",
                            "write_data", "write_csw", "wait"}]
        /\ cmd \in [Tasks -> Command]
        /\ reply \in [Tasks -> {"none", "ESP_OK", "ESP_FAIL", "ESP_ERR_NO_MEM",
                                "ESP_ERR_TIMEOUT"}]
        /\ notified \in [Tasks -> BOOLEAN] /\ event \in {"MAX_LUN"} \cup ScsiOps
    BY DEF TypeInv, TypeOK
  <1>5. ready
    BY CallEvent DEF Read10, Write10, MayCall, AppTask, Read10Retry, Read10Csw,
                     Read10Notify, Write10Data, Write10Csw, NotifyWaitTaken,
                     NotifyWaitExpired
  <1>6. /\ cmd[t] \in {InquiryCommand} \cup ReadCommands(t) \cup WriteCommands(t)
        /\ pc[t] = "idle" => ~notified[t] /\ Nothing
        /\ pc[t] # "idle" => event \in {"READ_10", "WRITE_10"}
        /\ event = "READ_10" => InRead(t)
        /\ event = "WRITE_10" => InWrite(t)
        /\ notified[t] => Nothing /\ pc[t] \in {"read_notify", "wait"}
    BY <1>4, <1>5, IdleNothing, CallEvent DEF SerialInv, PluggedInv
  \* the start of a call
  <1>7. CASE Read10(t)
    <2>1. PICK c \in ReadCommands(t) : cmd' = [cmd EXCEPT ![t] = c] /\ SubmitRead(t, c)
      BY <1>7 DEF Read10
    <2>2. /\ pc' = [pc EXCEPT ![t] = "read_csw"] /\ SubmitOut(Cbw(c))
          /\ UNCHANGED <<inPipe, notified, reply>>
          /\ temp_buffer' = t /\ event' = "READ_10"
      BY <1>2, <2>1 DEF SubmitRead, Proceed
    <2>3. Nothing /\ ~notified[t]
      BY <1>6, <1>7 DEF Read10, MayCall
    <2>4. Asking(c, 0)'
      BY <1>1, <2>2, <2>3, ReadingStarts, ReadCommandFields DEF Nothing
    <2>5. pc'[t] = "read_csw" /\ cmd'[t] = c /\ c.op = "READ_10" /\ ~notified'[t]
      BY <1>4, <2>1, <2>2, <2>3, ReadCommandFields
    <2>6. InRead(t)'
      BY <2>2, <2>4, <2>5 DEF InRead
    <2>7. PluggedInv(t)'
      BY <2>2, <2>5, <2>6 DEF PluggedInv
    <2>8. QED
      BY <1>1, <1>5, <2>5, <2>7 DEF SerialInv
  <1>8. CASE Write10(t)
    <2>1. PICK c \in WriteCommands(t) :
            /\ cmd' = [cmd EXCEPT ![t] = c]
            /\ pc' = [pc EXCEPT ![t] = "write_data"]
            /\ outPipe' = outPipe \o WriteCbw(c)
      BY <1>2, <1>8 DEF Write10, Proceed
    <2>2. Nothing /\ ~notified[t] /\ UNCHANGED <<inPipe, notified>> /\ event' = "WRITE_10"
      BY <1>6, <1>8 DEF Write10, MayCall
    <2>3. outPipe' = <<Cbw(c)>>
      BY <2>1, <2>2 DEF Nothing, WriteCbw
    <2>4. Owing(c)'
      BY <1>1, <2>2, <2>3 DEF Owing, Nothing
    <2>5. pc'[t] = "write_data" /\ cmd'[t] = c /\ c.op = "WRITE_10" /\ ~notified'[t]
      BY <1>4, <2>1, <2>2, WriteCommandFields
    <2>6. InWrite(t)'
      BY <2>2, <2>4, <2>5 DEF InWrite
    <2>7. PluggedInv(t)'
      BY <2>2, <2>5, <2>6 DEF PluggedInv
    <2>8. QED
      BY <1>1, <1>5, <2>5, <2>7 DEF SerialInv
  \* inside a call
  <1>9. PICK c : c = cmd[t]
    OBVIOUS
  <1>10. Done(t) /\ cmd'[t] = cmd[t] => Done(t)'
    BY <1>1 DEF Done, AnswerTo, OnDisk
  <1>11. ASSUME UNCHANGED <<event, temp_buffer, cmd>>, pc'[t] # "idle",
                event \in {"READ_10", "WRITE_10"},
                event = "READ_10" => InRead(t)', event = "WRITE_10" => InWrite(t)',
                notified'[t] => Nothing' /\ pc'[t] \in {"read_notify", "wait"}
         PROVE  SerialInv(t)'
    <2>1. PluggedInv(t)'
      BY <1>11 DEF PluggedInv
    <2>2. QED
      BY <1>1, <1>5, <1>6, <1>11, <2>1 DEF SerialInv
  <1>12. CASE Read10Retry(t)
    BY <1>6, <1>12 DEF Read10Retry, InRead, InWrite
  <1>13. CASE Read10Csw(t)
    <2>1. /\ pc[t] = "read_csw" /\ pc' = [pc EXCEPT ![t] = "read_notify"] /\ Csw
          /\ UNCHANGED <<event, temp_buffer, cmd, outPipe, notified>>
      BY <1>13 DEF Read10Csw, Proceed
    <2>2. event = "READ_10" /\ InRead(t)
      BY <1>6, <2>1 DEF InWrite
    <2>3. Asking(c, 1)'
      BY <1>1, <1>3, <1>9, <2>1, <2>2 DEF InRead, Asking
    <2>4. pc'[t] = "read_notify" /\ cmd'[t] = c
      BY <1>4, <1>9, <2>1
    <2>5. InRead(t)'
      BY <1>9, <2>1, <2>2, <2>3, <2>4 DEF InRead
    <2>6. ~notified'[t]
      BY <1>6, <2>1
    <2>7. QED
      BY <1>11, <2>1, <2>2, <2>4, <2>5, <2>6
  <1>14. CASE Read10Notify(t)
    <2>1. /\ pc[t] = "read_notify" /\ pc' = [pc EXCEPT ![t] = "wait"]
          /\ UNCHANGED <<event, temp_buffer, cmd, outPipe, inPipe, notified>>
      BY <1>14 DEF Read10Notify, Proceed
    <2>2. event = "READ_10" /\ InRead(t) /\ pc'[t] = "wait" /\ cmd'[t] = c
      BY <1>4, <1>6, <1>9, <2>1 DEF InWrite
    <2>3. /\ Asking(c, 1) <=> Asking(c, 1)'
          /\ Answered(c) <=> Answered(c)'
          /\ Ending(c, 1) <=> Ending(c, 1)'
          /\ Ended <=> Ended'
          /\ Nothing <=> Nothing'
      BY <1>1, <2>1 DEF Asking, Answered, Ending, Ended, Nothing, AnswerTo
    <2>4. InRead(t)'
      BY <1>9, <1>10, <2>1, <2>2, <2>3 DEF InRead
    <2>5. notified'[t] => Nothing'
      BY <1>6, <2>1, <2>3
    <2>6. QED
      BY <1>11, <2>1, <2>2, <2>4, <2>5
  <1>15. CASE Write10Data(t)
    <2>1. /\ pc[t] = "write_data" /\ pc' = [pc EXCEPT ![t] = "write_csw"]
          /\ outPipe' = Append(outPipe, DataOut(cmd[t]))
          /\ UNCHANGED <<event, temp_buffer, cmd, inPipe, notified>>
      BY <1>2, <1>15 DEF Write10Data, Proceed, SubmitOut
    <2>2. event = "WRITE_10" /\ InWrite(t) /\ pc'[t] = "write_csw" /\ cmd'[t] = c
      BY <1>4, <1>6, <1>9, <2>1 DEF InRead
    <2>3. Owing(c)
      BY <1>9, <2>1, <2>2 DEF InWrite
    <2>4. outPipe = <<>> => outPipe' = <<DataOut(c)>>
      BY <1>9, <2>1
    <2>5. outPipe = <<Cbw(c)>> => outPipe' = <<Cbw(c), DataOut(c)>>
      BY <1>9, <2>1, ShortSequences
    <2>6. Writing(c, 0)'
      BY <1>1, <2>1, <2>3, <2>4, <2>5 DEF Owing, Writing
    <2>7. InWrite(t)' /\ ~notified'[t]
      BY <1>6, <1>9, <2>1, <2>2, <2>6 DEF InWrite
    <2>8. QED
      BY <1>11, <2>1, <2>2, <2>7
  <1>16. CASE Write10Csw(t)
    <2>1. /\ pc[t] = "write_csw" /\ pc' = [pc EXCEPT ![t] = "wait"] /\ Csw
          /\ UNCHANGED <<event, temp_buffer, cmd, outPipe, notified>>
      BY <1>16 DEF Write10Csw, Proceed
    <2>2. event = "WRITE_10" /\ InWrite(t) /\ pc'[t] = "wait" /\ cmd'[t] = c
      BY <1>4, <1>6, <1>9, <2>1 DEF InRead
    <2>3. Writing(c, 0)
      BY <1>9, <2>1, <2>2 DEF InWrite
    <2>4. Writing(c, 1)'
      BY <1>1, <1>3, <2>1, <2>3 DEF Writing, OnDisk
    <2>5. InWrite(t)' /\ ~notified'[t]
      BY <1>6, <1>9, <2>1, <2>2, <2>4 DEF InWrite
    <2>6. QED
      BY <1>11, <2>1, <2>2, <2>5
  \* the end of a call
  <1>17. ASSUME NEW r, reply' = [reply EXCEPT ![t] = r], pc' = [pc EXCEPT ![t] = "idle"],
                UNCHANGED <<event, temp_buffer, cmd, outPipe, inPipe>>,
                Nothing, pc[t] # "idle", ~notified'[t], r = "ESP_OK" => Done(t)
         PROVE  SerialInv(t)'
    <2>1. pc'[t] = "idle" /\ reply'[t] = r
      BY <1>4, <1>17
    <2>2. Nothing' /\ event \in {"READ_10", "WRITE_10"}
      BY <1>1, <1>6, <1>17 DEF Nothing
    <2>3. (event = "READ_10" => InRead(t)') /\ (event = "WRITE_10" => InWrite(t)')
      BY <1>6, <1>17, <2>1, <2>2 DEF InRead, InWrite
    <2>4. PluggedInv(t)'
      BY <1>17, <2>2, <2>3 DEF PluggedInv
    <2>5. QED
      BY <1>1, <1>5, <1>6, <1>10, <1>17, <2>1, <2>4 DEF SerialInv
  <1>18. CASE NotifyWaitTaken(t)
    <2>1. /\ pc[t] = "wait" /\ notified[t] /\ notified' = [notified EXCEPT ![t] = FALSE]
          /\ UNCHANGED <<event, temp_buffer, cmd, outPipe, inPipe>>
          /\ pc' = [pc EXCEPT ![t] = "idle"] /\ reply' = [reply EXCEPT ![t] = "ESP_OK"]
      BY <1>18 DEF NotifyWaitTaken, Taken, Return
    <2>2. Nothing /\ Done(t)
      BY <2>1, NotifiedDone
    <2>3. ~notified'[t]
      BY <1>4, <2>1
    <2>4. QED
      BY <1>17, <2>1, <2>2, <2>3
  <1>19. CASE NotifyWaitExpired(t)
    <2>1. /\ pc[t] = "wait" /\ ~notified[t] /\ UNCHANGED notified
          /\ UNCHANGED <<event, temp_buffer, cmd, outPipe, inPipe>>
          /\ pc' = [pc EXCEPT ![t] = "idle"]
          /\ reply' = [reply EXCEPT ![t] = "ESP_ERR_TIMEOUT"]
      BY <1>19 DEF NotifyWaitExpired, Expires, Return
    <2>2. Quiet
      BY <1>1, <1>19 DEF NotifyWaitExpired, Calm
    <2>3. Nothing
      <3>1. CASE event = "READ_10"
        <4>1. ~Asking(c, 1) /\ ~Answered(c) /\ ~Ending(c, 1) /\ ~Ended
          BY <2>2 DEF Quiet, Asking, Answered, Ending, Ended
        <4>2. QED
          BY <1>6, <1>9, <2>1, <3>1, <4>1 DEF InRead
      <3>2. CASE event = "WRITE_10"
        <4>1. ~Writing(c, 1) /\ ~WriteEnded
          BY <2>2 DEF Quiet, Writing, WriteEnded, Closing
        <4>2. QED
          BY <1>6, <1>9, <2>1, <3>2, <4>1 DEF InWrite
      <3>3. QED
        BY <1>6, <2>1, <3>1, <3>2
    <2>4. QED
      BY <1>17, <2>1, <2>3
  <1>20. QED
    BY <1>7, <1>8, <1>12, <1>13, <1>14, <1>15, <1>16, <1>18, <1>19 DEF AppTask

\* The disk is gone: the callbacks that are left.
LEMMA GoneClient ==
  ASSUME NEW t \in Tasks, Tasks = {t}, TypeInv, EnumInv, SerialInv(t), ~Plugged,
         ClientTask
  PROVE  SerialInv(t)'
  <1> USE DEF driverVars, taskVars, diskVars
  <1>1. PICK kinds : /\ Callback(kinds)
                     /\ OnMaxLun \/ OnCapacityStatus \/ OnInquiryStatus
                          \/ OnTransferStatus => kinds = CSW
                     /\ OnCBW \/ OnInquiryData \/ OnCapacityData \/ OnReadData
                          \/ OnOtherData => kinds \in {{"cbw"}, Data}
    BY DEF ClientTask, OnCBW, OnMaxLun, OnCapacityStatus, OnInquiryStatus,
           OnTransferStatus, OnInquiryData, OnCapacityData, OnReadData, OnOtherData,
           Callback, CSW, Data
  <1>2. /\ GoneInv(t) /\ completed # <<>> /\ ~notified[t]
        /\ ~(pc[t] = "idle" /\ reply[t] = "ESP_OK")
    BY <1>1 DEF SerialInv, GoneInv, Callback
  <1>3. /\ UNCHANGED <<pc, cmd, reply, disk, phase>> /\ ~Plugged'
        /\ outPipe' = <<>> /\ inPipe' = 0
        /\ ready' # ready => OnInquiryStatus
    BY <1>2
    DEF ClientTask, OnCBW, OnMaxLun, OnCapacityStatus, OnInquiryStatus,
        OnTransferStatus, OnInquiryData, OnCapacityData, OnReadData, OnOtherData,
        GetCapacity, Inquiry, Csw, SubmitOut, Plugged, GoneInv
  <1>4. /\ event' = event \/ (NoStatus' /\ pc[t] = "idle")
        /\ NoStatus' \/ StatusLeft(t)'
        /\ notified'[t] =>
             /\ completed' = <<>> /\ pc[t] \in {"read_notify", "wait"}
             /\ Done(t) /\ buf' = buf
    <2>1. CASE NoStatus
      <3>1. NoStatus' /\ Head(completed).kind \notin CSW
        BY <1>1, <2>1, NoStatusTail
      <3>2. kinds # CSW
        BY <1>1, <3>1 DEF Callback
      <3>3. UNCHANGED <<event, notified>>
        BY <1>1, <3>2 DEF ClientTask, OnCBW, OnInquiryData, OnCapacityData, OnReadData,
                          OnOtherData
      <3>4. QED
        BY <1>2, <3>1, <3>3
    <2>2. CASE ~NoStatus /\ event = "MAX_LUN"
      <3>1. completed = <<Finished("max_lun")>> /\ pc[t] = "idle" /\ ~ready
        BY <2>2 DEF EnumInv, MaxLunAsked
      <3>2. completed' = <<>>
        BY <1>1, <3>1 DEF Callback
      <3>3. OnMaxLun \/ OnOtherData \/ OnCBW
        BY <2>2 DEF ClientTask, OnCapacityStatus, OnInquiryStatus, OnTransferStatus,
                    OnInquiryData, OnCapacityData, OnReadData
      <3>4. UNCHANGED notified
        BY <3>3 DEF OnMaxLun, OnOtherData, OnCBW
      <3>5. NoStatus'
        BY <3>2 DEF NoStatus
      <3>6. QED
        BY <1>2, <3>1, <3>4, <3>5
    <2>3. CASE ~NoStatus /\ event # "MAX_LUN" /\ completed = <<Finished("csw")>>
      <3>1. completed' = <<>> /\ Head(completed) = Finished("csw")
        BY <1>1, <2>3 DEF Callback
      <3>2. NoStatus'
        BY <3>1 DEF NoStatus
      <3>3. OnCapacityStatus \/ OnInquiryStatus \/ OnTransferStatus
        BY <2>3, <3>1
        DEF ClientTask, OnCBW, OnMaxLun, OnInquiryData, OnCapacityData, OnReadData,
            OnOtherData, Callback, Finished, Completed, Data
      <3>4. CASE OnCapacityStatus
        <4>1. pc[t] = "idle"
          BY <3>4, <1>2 DEF GoneInv, OnCapacityStatus
        <4>2. UNCHANGED notified
          BY <3>4 DEF OnCapacityStatus
        <4>3. QED
          BY <1>2, <3>2, <4>1, <4>2
      <3>5. CASE OnInquiryStatus
        <4>1. UNCHANGED <<event, notified>>
          BY <3>5 DEF OnInquiryStatus
        <4>2. QED
          BY <1>2, <3>2, <4>1
      <3>6. CASE OnTransferStatus
        <4>1. event' = event /\ buf' = buf
          BY <3>6 DEF OnTransferStatus
        <4>2. Done(t) /\ pc[t] \in {"read_notify", "wait"}
          BY <1>2, <2>3, <3>6 DEF GoneInv, StatusLeft, OnTransferStatus
        <4>3. QED
          BY <3>1, <3>2, <4>1, <4>2
      <3>7. QED
        BY <3>3, <3>4, <3>5, <3>6
    <2>4. CASE ~NoStatus /\ event # "MAX_LUN" /\ completed # <<Finished("csw")>>
      <3>1. event = "WRITE_10" /\ completed \in Closing
            /\ pc[t] \in {"read_notify", "wait"} /\ Done(t)
        <4>1. StatusLeft(t) /\ event \in {"MAX_LUN"} \cup ScsiOps
          BY <1>2, <2>4 DEF GoneInv, TypeInv, TypeOK
        <4>2. QED
          BY <2>4, <4>1 DEF StatusLeft
      <3>2. kinds # CSW /\ completed' \in Closing
        BY <1>1, <2>4, <3>1, ClosingTail
      <3>3. OnCBW \/ OnOtherData
        BY <1>1, <3>1, <3>2
        DEF ClientTask, OnMaxLun, OnCapacityStatus, OnInquiryStatus, OnTransferStatus,
            OnInquiryData, OnCapacityData, OnReadData
      <3>4. UNCHANGED <<event, notified, buf>>
        BY <3>3 DEF OnCBW, OnOtherData
      <3>5. Done(t)'
        BY <1>3, <3>1, <3>4 DEF Done, AnswerTo, OnDisk
      <3>6. StatusLeft(t)'
        BY <1>3, <3>1, <3>2, <3>4, <3>5 DEF StatusLeft
      <3>7. QED
        BY <1>2, <3>4, <3>6
    <2>5. QED
      BY <2>1, <2>2, <2>3, <2>4
  <1>5. notified'[t] => Done(t)'
    BY <1>3, <1>4 DEF Done, AnswerTo, OnDisk
  <1>6. pc'[t] # "idle" => event' \in {"READ_10", "WRITE_10"}
    BY <1>2, <1>3, <1>4 DEF GoneInv
  <1>7. GoneInv(t)'
    BY <1>2, <1>3, <1>4, <1>5, <1>6 DEF GoneInv
  <1>8. pc[t] = "idle" => ~notified'[t]
    BY <1>4
  <1>9. ~ready' => ~ready
    BY <1>3 DEF OnInquiryStatus
  <1>10. QED
    BY <1>2, <1>3, <1>7, <1>8, <1>9 DEF SerialInv

\* The disk is gone: calls fail, and the one that was over returns its result.
LEMMA GoneTask ==
  ASSUME NEW t \in Tasks, Tasks = {t}, TypeInv, EnumInv, SerialInv(t), ~Plugged,
         Calm, Calm', Read10(t) \/ Write10(t) \/ AppTask(t)
  PROVE  SerialInv(t)'
  <1> USE DEF driverVars, pipeVars, taskVars, diskVars, Return, Proceed
  <1>1. /\ UNCHANGED <<phase, disk, ready, completed, buf>> /\ ~Plugged'
        /\ noMem' = noMem /\ slow' = slow
    BY DEF Read10, Write10, AppTask, SubmitRead, Read10Retry, Read10Csw, Read10Notify,
           Write10Data, Write10Csw, NotifyWaitTaken, NotifyWaitExpired, Plugged, Calm
  <1>2. \A ok \in BOOLEAN : Allocate(ok) => ok
    BY <1>1 DEF Allocate, TypeInv, TypeOK
  <1>3. Csw => inPipe' = inPipe
    BY DEF Csw
  <1>4. /\ pc \in [Tasks -> {"idle", "read_retry", "read_csw", "read_notify",
                            "write_data", "write_csw", "wait"}]
        /\ cmd \in [Tasks -> Command]
        /\ reply \in [Tasks -> {"none", "ESP_OK", "ESP_FAIL", "ESP_ERR_NO_MEM",
                                "ESP_ERR_TIMEOUT"}]
        /\ notified \in [Tasks -> BOOLEAN] /\ event \in {"MAX_LUN"} \cup ScsiOps
    BY DEF TypeInv, TypeOK
  <1>5. /\ ready /\ event # "MAX_LUN" /\ GoneInv(t)
        /\ cmd[t] \in {InquiryCommand} \cup ReadCommands(t) \cup WriteCommands(t)
        /\ pc[t] = "idle" => ~notified[t]
        /\ pc[t] = "idle" /\ reply[t] = "ESP_OK" => Done(t)
    BY CallEvent DEF SerialInv, Read10, Write10, MayCall, AppTask, Read10Retry, Read10Csw,
                     Read10Notify, Write10Data, Write10Csw, NotifyWaitTaken,
                     NotifyWaitExpired, EnumInv
  <1>6. NoStatus => NoStatus'
    BY <1>1 DEF NoStatus
  <1>7. pc[t] \notin {"read_notify", "wait"} => NoStatus /\ ~notified[t]
    BY <1>4, <1>5 DEF GoneInv, StatusLeft
  <1>8. outPipe' = <<>> /\ inPipe' = 0
    BY <1>2, <1>3, <1>5
    DEF GoneInv, Read10, Write10, AppTask, SubmitRead, Read10Retry, Read10Csw,
        Read10Notify, Write10Data, Write10Csw, NotifyWaitTaken, NotifyWaitExpired,
        SubmitOut
  \* a call that cannot end well any more
  <1>9. ASSUME NoStatus, ~notified[t], UNCHANGED notified,
               event' \in {"READ_10", "WRITE_10"},
               pc'[t] = "idle" => reply'[t] # "ESP_OK",
               cmd'[t] \in {InquiryCommand} \cup ReadCommands(t) \cup WriteCommands(t)
        PROVE  SerialInv(t)'
    <2>1. GoneInv(t)'
      BY <1>6, <1>8, <1>9 DEF GoneInv
    <2>2. QED
      BY <1>1, <1>5, <1>9, <2>1 DEF SerialInv
  <1>10. ASSUME NEW c \in ReadCommands(t) \cup {cmd[t]}, SubmitRead(t, c),
                pc[t] \in {"idle", "read_retry"},
                cmd' = [cmd EXCEPT ![t] = c] \/ cmd' = cmd
         PROVE  SerialInv(t)'
    <2>1. /\ pc' = [pc EXCEPT ![t] = "read_retry"] /\ event' = "READ_10"
          /\ UNCHANGED notified
      BY <1>2, <1>10 DEF SubmitRead
    <2>2. pc'[t] # "idle"
      BY <1>4, <2>1
    <2>3. cmd'[t] \in {InquiryCommand} \cup ReadCommands(t) \cup WriteCommands(t)
      BY <1>4, <1>5, <1>10
    <2>4. QED
      BY <1>7, <1>9, <1>10, <2>1, <2>2, <2>3
  <1>11. CASE Read10(t)
    BY <1>10, <1>11 DEF Read10, MayCall
  <1>12. CASE Read10Retry(t)
    BY <1>10, <1>12 DEF Read10Retry
  <1>13. CASE Write10(t)
    <2>1. PICK c \in WriteCommands(t) :
            /\ cmd' = [cmd EXCEPT ![t] = c] /\ reply' = [reply EXCEPT ![t] = "ESP_FAIL"]
            /\ event' = "WRITE_10" /\ UNCHANGED notified /\ pc[t] = "idle"
      BY <1>2, <1>13 DEF Write10, MayCall
    <2>2. cmd'[t] = c /\ reply'[t] = "ESP_FAIL"
      BY <1>4, <2>1
    <2>3. QED
      BY <1>7, <1>9, <2>1, <2>2
  <1>14. CASE Read10Csw(t) \/ Write10Data(t) \/ Write10Csw(t)
    <2>1. /\ pc[t] \in {"read_csw", "write_data", "write_csw"}
          /\ UNCHANGED <<event, cmd, notified>>
          /\ \/ \E l \in {"read_notify", "wait"} : pc' = [pc EXCEPT ![t] = l]
             \/ \E r \in {"ESP_FAIL", "ESP_ERR_NO_MEM"} : reply' = [reply EXCEPT ![t] = r]
      BY <1>2, <1>14 DEF Read10Csw, Write10Data, Write10Csw
    <2>2. pc'[t] = "idle" => reply'[t] # "ESP_OK"
      BY <1>4, <2>1
    <2>3. event \in {"READ_10", "WRITE_10"}
      BY <1>5, <2>1 DEF GoneInv
    <2>4. QED
      BY <1>5, <1>7, <1>9, <2>1, <2>2, <2>3
  <1>15. CASE Read10Notify(t)
    <2>1. /\ pc[t] = "read_notify" /\ pc' = [pc EXCEPT ![t] = "wait"]
          /\ UNCHANGED <<event, cmd, notified, reply>>
      BY <1>15 DEF Read10Notify
    <2>2. pc'[t] = "wait"
      BY <1>4, <2>1
    <2>3. Done(t) => Done(t)'
      BY <1>1, <2>1 DEF Done, AnswerTo, OnDisk
    <2>4. StatusLeft(t) => StatusLeft(t)'
      BY <1>1, <2>1, <2>2, <2>3 DEF StatusLeft
    <2>5. GoneInv(t)'
      BY <1>1, <1>5, <1>6, <1>8, <2>1, <2>2, <2>3, <2>4 DEF GoneInv
    <2>6. QED
      BY <1>1, <1>5, <2>1, <2>2, <2>5 DEF SerialInv
  <1>16. ASSUME NEW r, reply' = [reply EXCEPT ![t] = r], pc' = [pc EXCEPT ![t] = "idle"],
                UNCHANGED <<event, cmd>>, completed = <<>>, pc[t] # "idle",
                ~notified'[t], r = "ESP_OK" => Done(t)
         PROVE  SerialInv(t)'
    <2>1. pc'[t] = "idle" /\ reply'[t] = r
      BY <1>4, <1>16
    <2>2. NoStatus' /\ completed' = <<>>
      BY <1>1, <1>16 DEF NoStatus
    <2>3. Done(t) => Done(t)'
      BY <1>1, <1>16 DEF Done, AnswerTo, OnDisk
    <2>4. GoneInv(t)'
      BY <1>8, <1>16, <2>1, <2>2 DEF GoneInv
    <2>5. QED
      BY <1>1, <1>5, <1>16, <2>1, <2>3, <2>4 DEF SerialInv
  <1>17. CASE NotifyWaitTaken(t)
    <2>1. /\ pc[t] = "wait" /\ notified[t] /\ notified' = [notified EXCEPT ![t] = FALSE]
          /\ UNCHANGED <<event, cmd>>
          /\ pc' = [pc EXCEPT ![t] = "idle"] /\ reply' = [reply EXCEPT ![t] = "ESP_OK"]
      BY <1>17 DEF NotifyWaitTaken, Taken
    <2>2. Done(t) /\ completed = <<>>
      BY <2>1, NotifiedDone
    <2>3. ~notified'[t]
      BY <1>4, <2>1
    <2>4. QED
      BY <1>16, <2>1, <2>2, <2>3
  <1>18. CASE NotifyWaitExpired(t)
    <2>1. /\ pc[t] = "wait" /\ ~notified[t] /\ UNCHANGED <<notified, event, cmd>>
          /\ pc' = [pc EXCEPT ![t] = "idle"]
          /\ reply' = [reply EXCEPT ![t] = "ESP_ERR_TIMEOUT"]
      BY <1>18 DEF NotifyWaitExpired, Expires
    <2>2. completed = <<>>
      BY <1>1, <1>18 DEF NotifyWaitExpired, Calm, Quiet
    <2>3. QED
      BY <1>16, <2>1, <2>2
  <1>19. QED
    BY <1>11, <1>12, <1>13, <1>14, <1>15, <1>17, <1>18 DEF AppTask

LEMMA SerialStep ==
  ASSUME NEW t \in Tasks, Tasks = {t}
  PROVE  /\ TypeInv /\ EnumInv /\ (Calm => SerialInv(t)) /\ [Next]_vars
         => (Calm => SerialInv(t))'
  <1> SUFFICES ASSUME TypeInv, EnumInv, Calm => SerialInv(t), [Next]_vars, Calm'
               PROVE  SerialInv(t)'
    OBVIOUS
  <1>1. Calm /\ SerialInv(t) /\ noMem' = noMem
    <2>1. Calm
      BY CalmBefore
    <2>2. QED
      BY <2>1 DEF Calm
  <1>2. CASE UNCHANGED vars
    <2>1. SerialInv(t)
      BY <1>1
    <2>2. UNCHANGED <<driverVars, pipeVars, taskVars, diskVars>>
      BY <1>2 DEF vars
    <2>3. /\ \A c, n : (Asking(c, n)' <=> Asking(c, n)) /\ (Ending(c, n)' <=> Ending(c, n))
                       /\ (Answered(c)' <=> Answered(c)) /\ (Ended' <=> Ended)
          /\ Nothing' <=> Nothing
          /\ Done(t)' <=> Done(t)
          /\ \A c, n : (Owing(c)' <=> Owing(c)) /\ (Writing(c, n)' <=> Writing(c, n))
          /\ WriteEnded' <=> WriteEnded
      BY <2>2 DEF Asking, Ending, Answered, Ended, Nothing, Done, Owing, Writing,
                  WriteEnded, AnswerTo, OnDisk, pipeVars, taskVars, diskVars
    <2>4. QED
      BY <2>1, <2>2, <2>3
      DEF SerialInv, PluggedInv, GoneInv, StatusLeft, InRead, InWrite, Reading,
          NoStatus, Plugged, driverVars, pipeVars, taskVars, diskVars
  <1>3. CASE ClientTask
    BY <1>1, <1>3, SerialClient, GoneClient
  <1>4. CASE Disk
    <2>1. Plugged
      BY <1>4 DEF Plugged, Disk, DiskMaxLun, DiskCommand, DiskDataIn, DiskDataOut,
                  DiskStatus
    <2>2. QED
      BY <1>1, <1>4, <2>1, SerialDisk
  <1>5. CASE Unplug
    BY <1>1, <1>5, SerialUnplug
  <1>6. CASE \E u \in Tasks : Read10(u) \/ Write10(u) \/ AppTask(u)
    BY <1>1, <1>6, SerialTask, GoneTask
  <1>7. QED
    BY <1>2, <1>3, <1>4, <1>5, <1>6 DEF Next

\* The invariant holds from the start and is kept by every step.
SerialAll(t) == TypeInv /\ EnumInv /\ (Calm => SerialInv(t))

LEMMA SerialAlways ==
  ASSUME NEW t \in Tasks, Tasks = {t}
  PROVE  Spec => []SerialAll(t)
  <1>1. Init => SerialAll(t)
    BY TypeInit, EnumInit, SerialInit DEF SerialAll
  <1>2. SerialAll(t) /\ [Next]_vars => SerialAll(t)'
    BY TypeStep, EnumStep, SerialStep DEF SerialAll
  <1>3. QED
    BY <1>1, <1>2, PTL DEF Spec

-----------------------------------------------------------------------------
(* What one task may rely on.                                              *)

\* As long as no wait ends early and no allocation fails, a _read10 for one
\* block that returned ESP_OK left that block in the caller's buffer, whatever
\* was enumerated, written, timed out or pulled out before, and no late
\* callback overwrites it.
THEOREM ReadsReturnTheDisk ==
  ASSUME NEW t \in Tasks, Tasks = {t}, MaxRead = 1
  PROVE  Spec => [](Calm => ReadTruthful)
  <1>1. SerialAll(t) => (Calm => ReadTruthful)
    <2> SUFFICES ASSUME SerialAll(t), Calm, pc[t] = "idle", reply[t] = "ESP_OK",
                        cmd[t].op = "READ_10", NEW i \in 1 .. cmd[t].n
                 PROVE  buf[t][i] = disk[cmd[t].lun][cmd[t].lba + i - 1]
      BY DEF ReadTruthful
    <2>1. Done(t) /\ cmd[t] \in {InquiryCommand} \cup ReadCommands(t) \cup WriteCommands(t)
      BY DEF SerialAll, SerialInv
    <2>2. cmd[t] \in ReadCommands(t)
      BY <2>1, WriteCommandFields DEF InquiryCommand
    <2>3. cmd[t].n = 1 /\ cmd[t].lba \in Nat
      BY <2>2, ReadCommandFields
    <2>4. i = 1 /\ cmd[t].lba + i - 1 = cmd[t].lba
      BY <2>3
    <2>5. buf[t][1] = AnswerTo(cmd[t])
      BY <2>1, <2>3 DEF Done
    <2>6. QED
      BY <2>4, <2>5 DEF AnswerTo
  <1>2. QED
    BY <1>1, SerialAlways, PTL

\* As long as no wait ends early and no allocation fails, a _write10 that
\* returned ESP_OK left all its blocks on a disk that accepts them, however
\* many they are.
THEOREM WritesReachTheDisk ==
  ASSUME NEW t \in Tasks, Tasks = {t}, ~Rejects
  PROVE  Spec => [](Calm => WriteTruthful)
  <1>1. SerialAll(t) => (Calm => WriteTruthful)
    BY DEF SerialAll, SerialInv, Done, OnDisk, WriteTruthful
  <1>2. QED
    BY <1>1, SerialAlways, PTL

-----------------------------------------------------------------------------
(* The transfers of one exchange.                                          *)

CbwsOut == {i \in DOMAIN outPipe : outPipe[i].kind = "cbw"}
DataDone == {i \in DOMAIN completed : completed[i].kind = "data_in"}

\* exchanges the disk has not finished, and IN transfers posted or in the
\* hands of a callback that posts the next
Unfinished == Cardinality(CbwsOut) + (IF phase = "command" THEN 0 ELSE 1)
Posted == inPipe + Cardinality(DataDone)

LEMMA CountOut ==
  ASSUME NEW c
  PROVE  /\ outPipe = <<>> => Cardinality(CbwsOut) = 0
         /\ outPipe = <<DataOut(c)>> => Cardinality(CbwsOut) = 0
         /\ outPipe = <<Cbw(c)>> => Cardinality(CbwsOut) = 1
         /\ outPipe = <<Cbw(c), DataOut(c)>> => Cardinality(CbwsOut) = 1
  <1>1. Cardinality({}) = 0 /\ Cardinality({1}) = 1
    BY FS_EmptySet, FS_Singleton
  <1>2. outPipe = <<>> => CbwsOut = {}
    BY DEF CbwsOut
  <1>3. outPipe = <<DataOut(c)>> => CbwsOut = {}
    BY DEF CbwsOut, DataOut
  <1>4. outPipe = <<Cbw(c)>> => CbwsOut = {1}
    BY DEF CbwsOut, Cbw
  <1>5. outPipe = <<Cbw(c), DataOut(c)>> => CbwsOut = {1}
    BY DEF CbwsOut, Cbw, DataOut
  <1>6. QED
    BY <1>1, <1>2, <1>3, <1>4, <1>5

LEMMA CountIn ==
  /\ (\A i \in DOMAIN completed : completed[i].kind # "data_in") => Cardinality(DataDone) = 0
  /\ \A c : Answered(c) => Cardinality(DataDone) = 1
  <1>1. Cardinality({}) = 0 /\ Cardinality({1}) = 1 /\ Cardinality({2}) = 1
    BY FS_EmptySet, FS_Singleton
  <1>2. (\A i \in DOMAIN completed : completed[i].kind # "data_in") => DataDone = {}
    BY DEF DataDone
  <1>3. ASSUME NEW c, Answered(c)
        PROVE  DataDone = {1} \/ DataDone = {2}
    <2>1. PICK v : completed \in {<<Finished("cbw"), DataIn(v)>>, <<DataIn(v)>>}
      BY <1>3 DEF Answered
    <2>2. completed = <<DataIn(v)>> => DataDone = {1}
      BY DEF DataDone, DataIn, Completed
    <2>3. completed = <<Finished("cbw"), DataIn(v)>> => DataDone = {2}
      BY DEF DataDone, DataIn, Finished, Completed
    <2>4. QED
      BY <2>1, <2>2, <2>3
  <1>4. QED
    BY <1>1, <1>2, <1>3

\* Each stage has as many transfers posted as it was given.
LEMMA StageBalance ==
  ASSUME NEW c, NEW n \in {0, 1}
  PROVE  /\ Asking(c, n) \/ Ending(c, n) \/ Writing(c, n) => Unfinished = 1 /\ Posted = n
         /\ Answered(c) => Unfinished = 1 /\ Posted = 1
         /\ Owing(c) => Unfinished = 1 /\ Posted = 0
         /\ Ended \/ Nothing \/ WriteEnded => Unfinished = 0 /\ Posted = 0
  <1>1. /\ Finished("cbw").kind # "data_in" /\ Finished("csw").kind # "data_in"
        /\ Finished("data_out").kind # "data_in"
    BY DEF Finished, Completed
  <1>2. ASSUME completed \in {<<>>, <<Finished("cbw")>>, <<Finished("csw")>>} \cup Sent
                              \cup Closing
        PROVE  Cardinality(DataDone) = 0
    <2>1. \A i \in DOMAIN completed : completed[i].kind # "data_in"
      <3>1. CASE completed = <<>>
        BY <3>1
      <3>2. ASSUME NEW k \in {"cbw", "csw", "data_out"}, completed = <<Finished(k)>>
            PROVE  \A i \in DOMAIN completed : completed[i].kind # "data_in"
        BY <1>1, <3>2
      <3>3. ASSUME NEW k \in {"cbw", "data_out"}, NEW l \in {"csw", "data_out"},
                   completed = <<Finished(k), Finished(l)>>
            PROVE  \A i \in DOMAIN completed : completed[i].kind # "data_in"
        BY <1>1, <3>3
      <3>4. CASE completed = <<Finished("cbw"), Finished("data_out"), Finished("csw")>>
        BY <1>1, <3>4
      <3>5. QED
        BY <1>2, <3>1, <3>2, <3>3, <3>4 DEF Sent, Closing
    <2>2. QED
      BY <2>1, CountIn
  <1>3. ASSUME Asking(c, n) \/ Ending(c, n) \/ Writing(c, n)
        PROVE  Unfinished = 1 /\ Posted = n
    <2>1. Cardinality(DataDone) = 0 /\ inPipe = n
      BY <1>2, <1>3 DEF Asking, Ending, Writing, Sent
    <2>2. Unfinished = 1
      BY <1>3, CountOut DEF Asking, Ending, Writing, Unfinished
    <2>3. QED
      BY <2>1, <2>2 DEF Posted
  <1>4. ASSUME Answered(c)
        PROVE  Unfinished = 1 /\ Posted = 1
    <2>1. Cardinality(DataDone) = 1 /\ Cardinality(CbwsOut) = 0
      BY <1>4, CountIn, CountOut DEF Answered
    <2>2. QED
      BY <1>4, <2>1 DEF Answered, Unfinished, Posted
  <1>5. ASSUME Owing(c)
        PROVE  Unfinished = 1 /\ Posted = 0
    <2>1. Cardinality(DataDone) = 0 /\ inPipe = 0
      BY <1>2, <1>5 DEF Owing
    <2>2. Unfinished = 1
      BY <1>5, CountOut DEF Owing, Unfinished
    <2>3. QED
      BY <2>1, <2>2 DEF Posted
  <1>6. ASSUME Ended \/ Nothing \/ WriteEnded
        PROVE  Unfinished = 0 /\ Posted = 0
    <2>1. Cardinality(DataDone) = 0 /\ inPipe = 0
      BY <1>2, <1>6 DEF Ended, Nothing, WriteEnded
    <2>2. Unfinished = 0
      BY <1>6, CountOut DEF Ended, Nothing, WriteEnded, Unfinished
    <2>3. QED
      BY <2>1, <2>2 DEF Posted
  <1>7. QED
    BY <1>3, <1>4, <1>5, <1>6

\* As long as no wait ends early and no allocation fails, every exchange the
\* disk has not finished has exactly one IN transfer to its name, whether the
\* enumeration, _read10, _write10 or a callback of onData has to post it.
THEOREM ExchangesConserved ==
  ASSUME NEW t \in Tasks, Tasks = {t}
  PROVE  Spec => [](Calm => ExchangeConservation)
  <1> DEFINE Between == {u \in Tasks : pc[u] \in {"read_csw", "write_data", "write_csw"}}
  <1>1. SerialAll(t) => (Calm => ExchangeConservation)
    <2> SUFFICES ASSUME SerialAll(t), Calm, Plugged
                 PROVE  Unfinished = Posted + Cardinality(Between)
      BY DEF ExchangeConservation, Unfinished, Posted, CbwsOut, DataDone
    <2>1. TypeInv /\ EnumInv /\ SerialInv(t) /\ PluggedInv(t)
          /\ event \in {"MAX_LUN"} \cup ScsiOps
      BY DEF SerialAll, SerialInv, TypeInv, TypeOK
    <2>2. /\ pc[t] \in {"read_csw", "write_data", "write_csw"} =>
               Between = {t} /\ Cardinality(Between) = 1
          /\ pc[t] \notin {"read_csw", "write_data", "write_csw"} =>
               Between = {} /\ Cardinality(Between) = 0
      <3>1. Cardinality({t}) = 1 /\ Cardinality({}) = 0
        BY FS_EmptySet, FS_Singleton
      <3>2. pc[t] \in {"read_csw", "write_data", "write_csw"} => Between = {t}
        BY Tasks = {t}
      <3>3. pc[t] \notin {"read_csw", "write_data", "write_csw"} => Between = {}
        BY Tasks = {t}
      <3> HIDE DEF Between
      <3>4. QED
        BY <3>1, <3>2, <3>3
    <2> HIDE DEF Between
    <2>3. ASSUME event \notin {"READ_10", "WRITE_10"}
          PROVE  pc[t] = "idle"
      BY <2>1, <2>3, CallEvent
    <2>4. ASSUME NEW c, Reading(c, 1) \/ Nothing
          PROVE  Unfinished = Posted
      BY <2>4, StageBalance DEF Reading
    <2>5. CASE event = "MAX_LUN"
      <3>1. /\ outPipe = <<>> /\ inPipe = 0 /\ phase = "command"
            /\ completed \in {<<>>, <<Finished("max_lun")>>}
        BY <2>1, <2>5 DEF EnumInv, MaxLunAsked, Plugged
      <3>2. \A i \in DOMAIN completed : completed[i].kind # "data_in"
        BY <3>1 DEF Finished, Completed
      <3>3. Unfinished = 0 /\ Posted = 0
        BY <3>1, <3>2, CountOut, CountIn DEF Unfinished, Posted
      <3>4. QED
        BY <2>2, <2>3, <2>5, <3>3
    <2>6. CASE event \in {"READ_CAPACITY_10", "INQUIRY"}
      <3>1. Nothing \/ \E c : Reading(c, 1)
        BY <2>1, <2>6 DEF PluggedInv
      <3>2. Unfinished = Posted /\ Posted \in {0, 1}
        BY <2>4, <3>1, StageBalance DEF Reading
      <3>3. QED
        BY <2>2, <2>3, <2>6, <3>2
    <2>7. CASE event = "READ_10"
      <3>1. InRead(t)
        BY <2>1, <2>7 DEF PluggedInv
      <3>2. CASE pc[t] = "read_csw"
        BY <2>2, <3>1, <3>2, StageBalance DEF InRead
      <3>3. CASE pc[t] # "read_csw"
        <4>1. Unfinished = Posted /\ Posted \in {0, 1}
          BY <3>1, <3>3, StageBalance DEF InRead
        <4>2. QED
          BY <2>2, <3>1, <3>3, <4>1 DEF InRead
      <3>4. QED
        BY <3>2, <3>3
    <2>8. CASE event = "WRITE_10"
      <3>1. InWrite(t)
        BY <2>1, <2>8 DEF PluggedInv
      <3>2. CASE pc[t] \in {"write_data", "write_csw"}
        BY <2>2, <3>1, <3>2, StageBalance DEF InWrite
      <3>3. CASE pc[t] \notin {"write_data", "write_csw"}
        <4>1. Unfinished = Posted /\ Posted \in {0, 1}
          BY <3>1, <3>3, StageBalance DEF InWrite
        <4>2. QED
          BY <2>2, <3>1, <3>3, <4>1 DEF InWrite
      <3>4. QED
        BY <3>2, <3>3
    <2>9. QED
      BY <2>1, <2>5, <2>6, <2>7, <2>8
  <1>2. QED
    BY <1>1, SerialAlways, PTL

-----------------------------------------------------------------------------
(* The calls FatFS makes, as BlockDevice describes them.                   *)

\* What each action of BlockDevice asks of a step of the driver.
LEMMA CallMaps ==
  ASSUME NEW t \in Tasks, Tasks = {t}, pc[t] = "idle", pc'[t] # "idle",
         cmd'[t] \in ReadCommands(t) \cup WriteCommands(t), disk' = disk
  PROVE  Contract!Call(t)
  BY DEF Contract!Call, Contract!NoRequest, Contract!Pending

LEMMA FailMaps ==
  ASSUME NEW t \in Tasks, Tasks = {t}, pc'[t] = "idle", disk' = disk,
         reply'[t] \in {"ESP_FAIL", "ESP_ERR_NO_MEM", "ESP_ERR_TIMEOUT"}
  PROVE  Contract!Fail(t)
  BY DEF Contract!Fail, Contract!NoRequest, Contract!Failures

LEMMA StoreMaps ==
  ASSUME NEW t \in Tasks, Tasks = {t}, pc[t] # "idle", cmd[t] \in WriteCommands(t),
         UNCHANGED <<pc, cmd, reply, buf>>, disk' = Stored(cmd[t], cmd[t].data)
  PROVE  Contract!Store(t)
  <1>1. PICK c : c = cmd[t]
    OBVIOUS
  <1>2. /\ c.op = "WRITE_10" /\ c.n \in Nat /\ c.lba \in Nat
        /\ c.data \in Seq(Contents) /\ Len(c.data) = c.n
    BY <1>1, WriteCommandFields
  <1>3. \A b \in Lbas : b \in c.lba .. c.lba + c.n - 1 => b - c.lba + 1 \in DOMAIN c.data
    BY <1>2, DiskAssumption DEF Lbas
  <1>4. disk' = [disk EXCEPT ![c.lun] =
                   [b \in Lbas |-> IF b \in c.lba .. c.lba + c.n - 1
                                   THEN c.data[b - c.lba + 1] ELSE @[b]]]
    BY <1>1, <1>3 DEF Stored
  <1>5. QED
    BY <1>1, <1>2, <1>4 DEF Contract!Store, Contract!Covers

\* A command that has ended has the blocks it was for.
LEMMA DoneBlocks ==
  ASSUME TypeInv, NEW t \in Tasks, MaxRead = 1, ~Rejects, Done(t),
         cmd[t] \in ReadCommands(t) \cup WriteCommands(t)
  PROVE  /\ cmd[t].op = "WRITE_10" => Contract!BlocksOf(cmd[t]) = cmd[t].data
         /\ cmd[t].op = "READ_10" =>
              SubSeq(buf[t], 1, cmd[t].n) = Contract!BlocksOf(cmd[t])
  <1>1. PICK c : c = cmd[t]
    OBVIOUS
  <1>2. CASE c \in WriteCommands(t)
    <2>1. /\ c.op = "WRITE_10" /\ c.n \in Nat /\ c.data \in Seq(Contents)
          /\ Len(c.data) = c.n
      BY <1>2, WriteCommandFields
    <2>2. c.data = [i \in 1 .. c.n |-> c.data[i]]
      BY <2>1
    <2>3. \A i \in 1 .. c.n : c.data[i] = disk[c.lun][c.lba + i - 1]
      BY <1>1, <2>1 DEF Done, OnDisk
    <2>4. QED
      BY <1>1, <2>1, <2>2, <2>3 DEF Contract!BlocksOf
  <1>3. CASE c \in ReadCommands(t)
    <2>1. c.op = "READ_10" /\ c.n = 1 /\ c.lba \in Nat
      BY <1>3, ReadCommandFields
    <2>2. PICK v : v = disk[c.lun][c.lba]
      OBVIOUS
    <2>3. buf[t] \in [1 .. 1 -> Payloads] /\ buf[t][1] = v
      BY <1>1, <2>1, <2>2 DEF Done, AnswerTo, TypeInv, TypeOK
    <2>4. SubSeq(buf[t], 1, 1) = [i \in 1 .. 1 |-> v]
      <3>1. SubSeq(buf[t], 1, 1) = [i \in 1 .. 1 |-> buf[t][i]]
        BY <2>3
      <3>2. QED
        BY <2>3, <3>1
    <2>5. Contract!BlocksOf(c) = [i \in 1 .. 1 |-> v]
      BY <2>1, <2>2 DEF Contract!BlocksOf
    <2>6. QED
      BY <1>1, <2>1, <2>4, <2>5
  <1>4. QED
    BY <1>1, <1>2, <1>3

LEMMA SucceedMaps ==
  ASSUME TypeInv, NEW t \in Tasks, Tasks = {t}, MaxRead = 1, ~Rejects, Done(t),
         cmd[t] \in ReadCommands(t) \cup WriteCommands(t), pc[t] # "idle",
         pc'[t] = "idle", reply'[t] = "ESP_OK", UNCHANGED <<cmd, buf, disk>>
  PROVE  Contract!Succeed(t)
  <1>1. PICK c, blocks : c = cmd[t] /\ blocks = Contract!BlocksOf(c)
    OBVIOUS
  <1>2. c.op \in {"READ_10", "WRITE_10"}
    BY <1>1, ReadCommandFields, WriteCommandFields
  <1>3. c # [op |-> "none"]
    BY <1>2
  <1>4. /\ c.op = "WRITE_10" => blocks = c.data
        /\ c.op = "READ_10" => SubSeq(buf[t], 1, c.n) = blocks
    BY <1>1, DoneBlocks
  <1>5. CASE c.op = "WRITE_10"
    BY <1>1, <1>3, <1>4, <1>5 DEF Contract!Succeed, Contract!NoRequest
  <1>6. CASE c.op = "READ_10"
    <2>1. SubSeq(buf'[t], 1, cmd'[t].n) = blocks
      BY <1>1, <1>4, <1>6
    <2>2. QED
      BY <1>1, <1>3, <1>6, <2>1 DEF Contract!Succeed, Contract!NoRequest
  <1>7. QED
    BY <1>2, <1>5, <1>6

\* A task inside a call has a request of FatFS.
Called(t) == pc[t] # "idle" => cmd[t] \in ReadCommands(t) \cup WriteCommands(t)

LEMMA CalledStep ==
  ASSUME NEW t \in Tasks
  PROVE  TypeInv /\ Called(t) /\ [Next]_vars => Called(t)'
  <1> SUFFICES ASSUME TypeInv, Called(t), [Next]_vars PROVE Called(t)'
    OBVIOUS
  <1>1. pc \in [Tasks -> {"idle", "read_retry", "read_csw", "read_notify",
                          "write_data", "write_csw", "wait"}]
        /\ cmd \in [Tasks -> Command]
    BY DEF TypeInv, TypeOK
  <1>2. CASE UNCHANGED <<pc, cmd>>
    BY <1>2 DEF Called
  <1>3. ASSUME ClientTask \/ Disk \/ Unplug \/ UNCHANGED vars
        PROVE  UNCHANGED <<pc, cmd>>
    BY <1>3
    DEF ClientTask, OnCBW, OnMaxLun, OnCapacityStatus, OnInquiryStatus,
        OnTransferStatus, OnInquiryData, OnCapacityData, OnReadData, OnOtherData, Disk,
        DiskMaxLun, DiskCommand, DiskDataIn, DiskDataOut, DiskStatus, Unplug, vars,
        taskVars
  <1>4. ASSUME NEW u \in Tasks, Read10(u)
        PROVE  Called(t)'
    <2>1. PICK c \in ReadCommands(u) : cmd' = [cmd EXCEPT ![u] = c] /\ SubmitRead(u, c)
      BY <1>4 DEF Read10
    <2>2. \A v \in Tasks \ {u} : pc'[v] = pc[v] /\ cmd'[v] = cmd[v]
      BY <1>1, <2>1 DEF SubmitRead, Return, Proceed
    <2>3. QED
      BY <1>1, <2>1, <2>2 DEF Called
  <1>5. ASSUME NEW u \in Tasks, Write10(u)
        PROVE  Called(t)'
    <2>1. PICK c \in WriteCommands(u) : cmd' = [cmd EXCEPT ![u] = c]
      BY <1>5 DEF Write10
    <2>2. \A v \in Tasks \ {u} : pc'[v] = pc[v] /\ cmd'[v] = cmd[v]
      BY <1>1, <1>5, <2>1 DEF Write10, Return, Proceed
    <2>3. QED
      BY <1>1, <2>1, <2>2 DEF Called
  <1>6. ASSUME NEW u \in Tasks, AppTask(u)
        PROVE  Called(t)'
    <2>1. cmd' = cmd /\ pc[u] # "idle" /\ \A v \in Tasks \ {u} : pc'[v] = pc[v]
      BY <1>1, <1>6
      DEF AppTask, Read10Retry, SubmitRead, Read10Csw, Read10Notify, Write10Data,
          Write10Csw, NotifyWaitTaken, NotifyWaitExpired, Return, Proceed
    <2>2. QED
      BY <2>1 DEF Called
  <1>7. QED
    BY <1>2, <1>3, <1>4, <1>5, <1>6 DEF Next

\* A step a caller cannot see.
LEMMA StutterMaps ==
  ASSUME NEW t \in Tasks, Tasks = {t}, UNCHANGED <<cmd, reply, disk>>,
         pc'[t] = "idle" <=> pc[t] = "idle",
         pc[t] = "idle" /\ reply[t] = "ESP_OK" => buf' = buf
  PROVE  UNCHANGED Contract!vars
  BY DEF Contract!vars

LEMMA ClientMaps ==
  ASSUME NEW t \in Tasks, Tasks = {t}, TypeInv, EnumInv, SerialInv(t), ClientTask
  PROVE  UNCHANGED Contract!vars
  <1>1. \E kinds : Callback(kinds)
    BY DEF ClientTask, OnCBW, OnMaxLun, OnCapacityStatus, OnInquiryStatus,
           OnTransferStatus, OnInquiryData, OnCapacityData, OnReadData, OnOtherData
  <1>2. ~(pc[t] = "idle" /\ reply[t] = "ESP_OK")
    <2>1. CASE Plugged
      <3>1. reply[t] = "ESP_OK" => ready
        BY DEF SerialInv
      <3>2. event \in {"MAX_LUN"} \cup ScsiOps
        BY DEF TypeInv, TypeOK
      <3>3. ~Nothing
        BY <1>1, NothingComes
      <3>4. QED
        BY <2>1, <3>1, <3>2, <3>3, IdleNothing
    <2>2. CASE ~Plugged
      BY <1>1, <2>2 DEF SerialInv, GoneInv, Callback
    <2>3. QED
      BY <2>1, <2>2
  <1>3. UNCHANGED <<pc, cmd, reply, disk>>
    BY DEF ClientTask, OnCBW, OnMaxLun, OnCapacityStatus, OnInquiryStatus,
           OnTransferStatus, OnInquiryData, OnCapacityData, OnReadData, OnOtherData,
           taskVars, diskVars
  <1>4. QED
    BY <1>2, <1>3, StutterMaps

LEMMA DiskMaps ==
  ASSUME NEW t \in Tasks, Tasks = {t}, TypeInv, EnumInv, SerialInv(t), ~Rejects,
         Disk \/ Unplug
  PROVE  Contract!Store(t) \/ UNCHANGED Contract!vars
  <1>1. UNCHANGED <<pc, cmd, reply, buf>>
    BY DEF Disk, DiskMaxLun, DiskCommand, DiskDataIn, DiskDataOut, DiskStatus, Unplug,
           taskVars
  <1>2. CASE ~DiskDataOut
    <2>1. disk' = disk
      BY <1>2 DEF Disk, DiskMaxLun, DiskCommand, DiskDataIn, DiskStatus, Unplug
    <2>2. QED
      BY <1>1, <2>1, StutterMaps
  <1>3. CASE DiskDataOut
    <2>1. phase = "data_out" /\ outPipe # <<>> /\ Plugged
      BY <1>3 DEF DiskDataOut, Plugged
    <2>2. PluggedInv(t) /\ event \in {"MAX_LUN"} \cup ScsiOps
      BY <2>1 DEF SerialInv, TypeInv, TypeOK
    <2>3. \A c : ~Asking(c, 1) /\ ~Asking(c, 0) /\ ~Answered(c) /\ ~Ending(c, 1)
      BY <2>1 DEF Asking, Answered, Ending
    <2>4. ~Ended /\ ~Nothing /\ ~WriteEnded
      BY <2>1 DEF Ended, Nothing, WriteEnded
    <2>5. event = "WRITE_10"
      <3>1. event # "MAX_LUN"
        BY <2>1 DEF EnumInv, MaxLunAsked
      <3>2. event \notin {"READ_CAPACITY_10", "INQUIRY"}
        BY <2>2, <2>3, <2>4 DEF PluggedInv, Reading
      <3>3. event # "READ_10"
        BY <2>2, <2>3, <2>4 DEF PluggedInv, InRead
      <3>4. QED
        BY <2>2, <3>1, <3>2, <3>3
    <2>6. PICK c : c = cmd[t]
      OBVIOUS
    <2>7. InWrite(t) /\ c \in WriteCommands(t)
      BY <2>2, <2>5, <2>6, ReadCommandFields DEF PluggedInv, InWrite, SerialInv, InquiryCommand
    <2>8. ~Owing(c)
      BY <2>1 DEF Owing
    <2>9. pc[t] # "idle" /\ (Writing(c, 0) \/ Writing(c, 1))
      BY <2>4, <2>6, <2>7, <2>8 DEF InWrite
    <2>10. current = c /\ outPipe = <<DataOut(c)>>
      BY <2>1, <2>9 DEF Writing
    <2>11. disk' = Stored(c, c.data)
      BY <1>3, <2>10 DEF DiskDataOut, DataOut
    <2>12. QED
      BY <1>1, <2>6, <2>7, <2>9, <2>11, StoreMaps
  <1>4. QED
    BY <1>2, <1>3

LEMMA TaskMaps ==
  ASSUME NEW t \in Tasks, Tasks = {t}, TypeInv, EnumInv, SerialInv(t), Called(t),
         ~Rejects, MaxRead = 1, Read10(t) \/ Write10(t) \/ AppTask(t)
  PROVE  Contract!Next \/ UNCHANGED Contract!vars
  <1> USE DEF taskVars, diskVars, Return, Proceed
  <1>1. /\ pc \in [Tasks -> {"idle", "read_retry", "read_csw", "read_notify",
                            "write_data", "write_csw", "wait"}]
        /\ cmd \in [Tasks -> Command]
        /\ reply \in [Tasks -> {"none", "ESP_OK", "ESP_FAIL", "ESP_ERR_NO_MEM",
                                "ESP_ERR_TIMEOUT"}]
    BY DEF TypeInv, TypeOK
  <1>2. disk' = disk /\ buf' = buf
    BY DEF Read10, Write10, AppTask, SubmitRead, Read10Retry, Read10Csw, Read10Notify,
           Write10Data, Write10Csw, NotifyWaitTaken, NotifyWaitExpired
  <1>3. ASSUME Contract!Call(t) \/ Contract!Succeed(t) \/ Contract!Fail(t)
        PROVE  Contract!Next
    BY <1>3 DEF Contract!Next
  <1>4. CASE Read10(t)
    <2>1. pc[t] = "idle" /\ cmd'[t] \in ReadCommands(t)
      BY <1>1, <1>4 DEF Read10, MayCall
    <2>2. pc'[t] # "idle" \/ (pc'[t] = "idle" /\ reply'[t] = "ESP_ERR_NO_MEM")
      BY <1>1, <1>4 DEF Read10, SubmitRead
    <2>3. QED
      BY <1>2, <1>3, <2>1, <2>2, CallMaps, FailMaps
  <1>5. CASE Write10(t)
    <2>1. pc[t] = "idle" /\ cmd'[t] \in WriteCommands(t)
      BY <1>1, <1>5 DEF Write10, MayCall
    <2>2. \/ pc'[t] # "idle"
          \/ pc'[t] = "idle" /\ reply'[t] \in {"ESP_FAIL", "ESP_ERR_NO_MEM"}
      BY <1>1, <1>5 DEF Write10
    <2>3. QED
      BY <1>2, <1>3, <2>1, <2>2, CallMaps, FailMaps
  <1>6. CASE Read10Retry(t) \/ Write10Data(t)
    <2>1. pc[t] # "idle" /\ cmd' = cmd
      BY <1>6 DEF Read10Retry, Write10Data
    <2>2. \/ pc'[t] # "idle" /\ reply' = reply
          \/ pc'[t] = "idle" /\ reply'[t] \in {"ESP_FAIL", "ESP_ERR_NO_MEM"}
      BY <1>1, <1>6 DEF Read10Retry, SubmitRead, Write10Data
    <2>3. QED
      BY <1>2, <1>3, <2>1, <2>2, StutterMaps, FailMaps
  <1>7. CASE Read10Csw(t) \/ Read10Notify(t) \/ Write10Csw(t)
    <2>1. pc[t] # "idle" /\ pc'[t] # "idle" /\ UNCHANGED <<cmd, reply>>
      BY <1>1, <1>7 DEF Read10Csw, Read10Notify, Write10Csw
    <2>2. QED
      BY <1>2, <2>1, StutterMaps
  <1>8. CASE NotifyWaitTaken(t)
    <2>1. /\ pc[t] # "idle" /\ notified[t] /\ pc'[t] = "idle" /\ reply'[t] = "ESP_OK"
          /\ cmd' = cmd
      BY <1>1, <1>8 DEF NotifyWaitTaken
    <2>2. Done(t)
      BY <2>1, NotifiedDone
    <2>3. cmd[t] \in ReadCommands(t) \cup WriteCommands(t)
      BY <2>1 DEF Called
    <2>4. QED
      BY <1>2, <1>3, <2>1, <2>2, <2>3, SucceedMaps
  <1>9. CASE NotifyWaitExpired(t)
    <2>1. pc'[t] = "idle" /\ reply'[t] = "ESP_ERR_TIMEOUT"
      BY <1>1, <1>9 DEF NotifyWaitExpired
    <2>2. QED
      BY <1>2, <1>3, <2>1, FailMaps
  <1>10. QED
    BY <1>4, <1>5, <1>6, <1>7, <1>8, <1>9 DEF AppTask

LEMMA StepMaps ==
  ASSUME NEW t \in Tasks, Tasks = {t}, MaxRead = 1, ~Rejects
  PROVE  SerialAll(t) /\ Called(t) /\ Calm /\ [Next]_vars
         => [Contract!Next]_(Contract!vars)
  <1> SUFFICES ASSUME TypeInv, EnumInv, SerialInv(t), Called(t), [Next]_vars
               PROVE  Contract!Next \/ UNCHANGED Contract!vars
    BY DEF SerialAll
  <1>1. CASE UNCHANGED vars
    <2>1. UNCHANGED <<pc, cmd, reply, buf, disk>>
      BY <1>1 DEF vars, taskVars, diskVars
    <2>2. QED
      BY <2>1, StutterMaps
  <1>2. CASE ClientTask
    BY <1>2, ClientMaps
  <1>3. CASE Disk \/ Unplug
    BY <1>3, DiskMaps DEF Contract!Next
  <1>4. CASE Read10(t) \/ Write10(t) \/ AppTask(t)
    BY <1>4, TaskMaps
  <1>5. QED
    BY <1>1, <1>2, <1>3, <1>4 DEF Next

\* As long as no wait ends early and no allocation fails, the driver keeps what
\* diskio promises FatFS: a call that returns ESP_OK has read or stored exactly
\* the blocks it was asked for, one that fails has stored all its blocks or none,
\* and between calls neither the disk nor a caller's buffer changes.
THEOREM BlockDeviceImplemented ==
  ASSUME NEW t \in Tasks, Tasks = {t}, MaxRead = 1, ~Rejects
  PROVE  Spec /\ []Calm => ImplementsBlockDevice
  <1>1. Init => Contract!Init /\ Called(t)
    BY DEF Init, Called, Contract!Init, Contract!NoRequest
  <1>2. TypeInv /\ Called(t) /\ [Next]_vars => Called(t)'
    BY CalledStep
  <1>3. SerialAll(t) /\ Called(t) /\ Calm /\ [Next]_vars
        => [Contract!Next]_(Contract!vars)
    BY StepMaps
  <1>4. SerialAll(t) => TypeInv
    BY DEF SerialAll
  <1>5. QED
    BY <1>1, <1>2, <1>3, <1>4, SerialAlways, PTL
       DEF Spec, ImplementsBlockDevice, Contract!Spec
=============================================================================
