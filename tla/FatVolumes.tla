----------------------------- MODULE FatVolumes -----------------------------
(***************************************************************************)
(* The mount table ff_raw_handles of usb-host-comp/msc/vfs/diskio_rawmsc   *)
(* against FatFS's drives, the VFS paths, and another driver that takes    *)
(* drives from the same FatFS (an SD card).  USBmscDevice::mount and       *)
(* unmount are the only callers.  The application mounts a unit once at a  *)
(* time, on a path not in use, and unmounts what it has mounted.           *)
(*                                                                         *)
(* A definition whose name ends in _<lowercase words> is a faulty variant  *)
(* of the one after it, kept to show that the properties notice.           *)
(***************************************************************************)
EXTENDS Naturals, FiniteSets

CONSTANTS
  FF_VOLUMES,  (* how many drives FatFS has                                  *)
  MaxLUN,      (* getMaxLUN() of the disk                                    *)
  Units,       (* units the application may name                             *)
  Paths,       (* base paths                                                 *)
  NoPath

ASSUME VolumesAssumption ==
  /\ FF_VOLUMES \in 1 .. 10 /\ MaxLUN \in 0 .. 3
  /\ Units \subseteq 0 .. 254 /\ NoPath \notin Paths

Drives  == 0 .. FF_VOLUMES - 1
NoUnit  == 255   \* 0xff

VARIABLES
  ff_raw_handles,  (* the unit of each drive                                 *)
  driver,          (* whose drive it is: free, msc or other                  *)
  unitOf,          (* the unit an msc drive was registered for               *)
  pathOf           (* the path under which each drive's volume is mounted    *)

volumeVars == <<ff_raw_handles, driver, unitOf, pathOf>>

\* { 0xff } initialises the first entry only
VolumesInit ==
  /\ ff_raw_handles = [d \in Drives |-> IF d = 0 THEN NoUnit ELSE 0]
  /\ driver = [d \in Drives |-> "free"]
  /\ unitOf = [d \in Drives |-> NoUnit]
  /\ pathOf = [d \in Drives |-> NoPath]

MountedUnits == { unitOf[d] : d \in { e \in Drives : pathOf[e] # NoPath } }
UsedPaths    == { pathOf[d] : d \in Drives } \ {NoPath}

LeastOf(S) == CHOOSE d \in S : \A e \in S : d <= e

\* ff_diskio_get_drive
FreeDrives == { d \in Drives : driver[d] = "free" }

ff_msc_register_raw_partition_noTable(d, lun) ==
  /\ driver' = [driver EXCEPT ![d] = "msc"]
  /\ unitOf' = [unitOf EXCEPT ![d] = lun]
  /\ UNCHANGED ff_raw_handles

ff_msc_register_raw_partition(d, lun) ==
  /\ driver' = [driver EXCEPT ![d] = "msc"]
  /\ unitOf' = [unitOf EXCEPT ![d] = lun]
  /\ ff_raw_handles' = [ff_raw_handles EXCEPT ![d] = lun]

\* a failure gives the drive back and leaves the table entry
MountRawMsc(path, lun, ok) ==
  /\ lun <= MaxLUN /\ lun \notin MountedUnits /\ path \notin UsedPaths
  /\ FreeDrives # {}
  /\ LET d == LeastOf(FreeDrives) IN
       IF ok
         THEN /\ ff_msc_register_raw_partition(d, lun)
              /\ pathOf' = [pathOf EXCEPT ![d] = path]
         ELSE /\ ff_raw_handles' = [ff_raw_handles EXCEPT ![d] = lun]
              /\ UNCHANGED <<driver, unitOf, pathOf>>

\* the first drive with this unit
ff_msc_get_pdrv_raw(lun) == { d \in Drives : ff_raw_handles[d] = lun }

UnmountRawMsc_lastMatch(path, lun) ==
  /\ \E d \in Drives : unitOf[d] = lun /\ pathOf[d] = path
  /\ ff_msc_get_pdrv_raw(lun) # {}
  /\ LET d == CHOOSE e \in ff_msc_get_pdrv_raw(lun) : \A f \in ff_msc_get_pdrv_raw(lun) : f <= e IN
       /\ ff_raw_handles' = [ff_raw_handles EXCEPT ![d] = NoUnit]
       /\ driver' = [driver EXCEPT ![d] = "free"]
       /\ unitOf' = [unitOf EXCEPT ![d] = NoUnit]
       /\ pathOf' = [e \in Drives |-> IF e = d \/ pathOf[e] = path THEN NoPath ELSE pathOf[e]]

\* clears the entry, forgets the path, gives the drive back, whoever has it
UnmountRawMsc(path, lun) ==
  /\ \E d \in Drives : unitOf[d] = lun /\ pathOf[d] = path
  /\ ff_msc_get_pdrv_raw(lun) # {}
  /\ LET d == LeastOf(ff_msc_get_pdrv_raw(lun)) IN
       /\ ff_raw_handles' = [ff_raw_handles EXCEPT ![d] = NoUnit]
       /\ driver' = [driver EXCEPT ![d] = "free"]
       /\ unitOf' = [unitOf EXCEPT ![d] = NoUnit]
       /\ pathOf' = [e \in Drives |-> IF e = d \/ pathOf[e] = path THEN NoPath ELSE pathOf[e]]

\* the other driver takes the first free drive and gives it back
OtherMounts ==
  /\ FreeDrives # {}
  /\ driver' = [driver EXCEPT ![LeastOf(FreeDrives)] = "other"]
  /\ UNCHANGED <<ff_raw_handles, unitOf, pathOf>>

OtherUnmounts(d) ==
  /\ driver[d] = "other"
  /\ driver' = [driver EXCEPT ![d] = "free"]
  /\ UNCHANGED <<ff_raw_handles, unitOf, pathOf>>

VolumesNext ==
  \/ \E p \in Paths, u \in Units :
       \/ \E ok \in BOOLEAN : MountRawMsc(p, u, ok)
       \/ UnmountRawMsc(p, u)
  \/ OtherMounts
  \/ \E d \in Drives : OtherUnmounts(d)

VolumesSpec == VolumesInit /\ [][VolumesNext]_volumeVars

-----------------------------------------------------------------------------
(* Properties.                                                             *)

(* What FatFS reads through a mounted drive comes from the unit it was     *)
(* mounted for, whatever failed mounts, misled unmounts and the other      *)
(* driver did in between (ff_raw_read looks the unit up on every call).    *)
MountedReachesUnit ==
  \A d \in Drives : driver[d] = "msc" => ff_raw_handles[d] = unitOf[d]

\* an entry left over, or never set, hides the drive a unit is mounted on
Misled ==
  \E d, e \in Drives : /\ d < e /\ driver[d] # "msc"
                       /\ pathOf[e] # NoPath /\ ff_raw_handles[d] = unitOf[e]

Abstract == INSTANCE Volumes WITH
  volume <- [p \in UsedPaths |-> ff_raw_handles[CHOOSE d \in Drives : pathOf[d] = p]],
  others <- { d \in Drives : driver[d] = "other" }

(* Mounting and unmounting do what Volumes promises, and touch nobody      *)
(* else's drive or path, unless an entry that names no mounted drive comes *)
(* first in the table (vfs_fat_rawmsc_mount, vfs_fat_rawmsc_unmount).      *)
VolumesUnlessMisled ==
  Abstract!Init /\ [][Abstract!Next \/ Misled]_volumeVars
=============================================================================
