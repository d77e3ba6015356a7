-------------------------- MODULE Wrappers_proofs --------------------------
(***************************************************************************)
(* Proofs about the wrappers, each an invariant of one of them, for every  *)
(* value of its constants.  A step of Wrappers is a step of that wrapper   *)
(* or leaves its variables alone, so each is proved about its own Next and *)
(* then carried over.                                                      *)
(***************************************************************************)
EXTENDS Wrappers, WellFoundedInduction, TLAPS

LEMMA WrapperSteps ==
  ASSUME [WrappersNext]_wrapperVars
  PROVE  /\ [VolumesNext]_volumeVars
         /\ [TasksNext]_taskVars
         /\ [AwsNext]_awsVars
         /\ [OtaNext]_otaVars
         /\ [SensorsNext]_sensorVars
         /\ [EthNext]_ethVars
         /\ [SntpNext]_sntpVars
         /\ [I2cNext]_i2cVars
         /\ [TimersNext]_timerVars
         /\ [NvsNext]_nvsVars
         /\ [UartNext]_uartVars
BY DEF WrappersNext, wrapperVars

-----------------------------------------------------------------------------
(* The volume table.                                                       *)

LEMMA LeastOfIsIn ==
  ASSUME NEW S \in SUBSET Nat, S # {}
  PROVE  LeastOf(S) \in S /\ \A e \in S : LeastOf(S) <= e
<1> DEFINE Before == { p \in Nat \X Nat : p[1] < p[2] }
<1>1. IsWellFoundedOn(Before, Nat)
  BY NatLessThanWellFounded DEF OpToRel
<1>2. PICK d \in S : \A e \in S : <<e, d>> \notin Before
  <2> HIDE DEF Before
  <2> QED
    BY <1>1, WFMin
<1>3. ASSUME NEW e \in S PROVE d <= e
  <2>1. e \in Nat /\ d \in Nat /\ <<e, d>> \in Nat \X Nat
    OBVIOUS
  <2>2. ~(<<e, d>>[1] < <<e, d>>[2])
    BY <1>2, <2>1
  <2> QED
    BY <2>1, <2>2
<1> QED
  BY <1>3 DEF LeastOf

TableInv ==
  /\ ff_raw_handles \in [Drives -> 0 .. NoUnit]
  /\ driver \in [Drives -> {"free", "msc", "other"}]
  /\ DOMAIN unitOf = Drives
  /\ MountedReachesUnit

LEMMA VolumesKeepTable == TableInv /\ [VolumesNext]_volumeVars => TableInv'
<1> SUFFICES ASSUME TableInv, [VolumesNext]_volumeVars PROVE TableInv'
  OBVIOUS
<1> USE VolumesAssumption DEF TableInv, MountedReachesUnit
<1>0. FreeDrives # {} => LeastOf(FreeDrives) \in FreeDrives
  <2>1. FreeDrives \in SUBSET Nat
    BY DEF FreeDrives, Drives
  <2> QED
    BY <2>1, LeastOfIsIn
<1>1. ASSUME NEW p \in Paths, NEW u \in Units, NEW ok \in BOOLEAN, MountRawMsc(p, u, ok)
      PROVE  TableInv'
  <2> DEFINE d == LeastOf(FreeDrives)
  <2>1. d \in Drives /\ driver[d] = "free"
    BY <1>0, <1>1 DEF MountRawMsc, FreeDrives
  <2>2. u \in 0 .. NoUnit
    BY DEF NoUnit
  <2>3. CASE ok
    <3>1. ff_msc_register_raw_partition(d, u)
      BY <1>1, <2>3 DEF MountRawMsc
    <3> QED
      BY <2>1, <2>2, <3>1 DEF ff_msc_register_raw_partition
  <2>4. CASE ~ok
    BY <1>1, <2>1, <2>2, <2>4 DEF MountRawMsc
  <2> QED
    BY <2>3, <2>4
<1>2. ASSUME NEW p \in Paths, NEW u \in Units, UnmountRawMsc(p, u) PROVE TableInv'
  <2> DEFINE d == LeastOf(ff_msc_get_pdrv_raw(u))
  <2>1. /\ ff_raw_handles' = [ff_raw_handles EXCEPT ![d] = NoUnit]
        /\ driver' = [driver EXCEPT ![d] = "free"]
        /\ unitOf' = [unitOf EXCEPT ![d] = NoUnit]
    BY <1>2 DEF UnmountRawMsc
  <2> HIDE DEF d
  <2>2. NoUnit \in 0 .. NoUnit
    BY DEF NoUnit
  <2>3. /\ ff_raw_handles' \in [Drives -> 0 .. NoUnit]
        /\ driver' \in [Drives -> {"free", "msc", "other"}]
        /\ DOMAIN unitOf' = Drives
    BY <2>1, <2>2
  <2>4. ASSUME NEW e \in Drives, driver'[e] = "msc" PROVE ff_raw_handles'[e] = unitOf'[e]
    BY <2>1, <2>4
  <2> QED
    BY <2>3, <2>4
<1>3. CASE OtherMounts
  BY <1>0, <1>3 DEF OtherMounts
<1>4. ASSUME NEW d \in Drives, OtherUnmounts(d) PROVE TableInv'
  BY <1>4 DEF OtherUnmounts
<1>5. CASE UNCHANGED volumeVars
  BY <1>5 DEF volumeVars
<1> QED
  BY <1>1, <1>2, <1>3, <1>4, <1>5 DEF VolumesNext

(* For any number of drives and units, each drive FatFS reads through is   *)
(* served by the unit it was registered for, also after mounts that failed *)
(* and unmounts that hit another entry (diskio_rawmsc.cpp).                *)
THEOREM TableReachesUnit == WrappersSpec => []MountedReachesUnit
<1>1. WrappersInit => TableInv
  BY VolumesAssumption
     DEF WrappersInit, VolumesInit, TableInv, MountedReachesUnit, Drives, NoUnit
<1>2. TableInv /\ [WrappersNext]_wrapperVars => TableInv'
  BY WrapperSteps, VolumesKeepTable
<1>3. TableInv => MountedReachesUnit
  BY DEF TableInv
<1> QED
  BY <1>1, <1>2, <1>3, PTL DEF WrappersSpec

-----------------------------------------------------------------------------
(* Mounting implements its contract.  No two mounted drives share a path   *)
(* or a unit, so a path determines its drive, and, unless it is misled,    *)
(* unmount frees the drive of its path or one that has none.               *)

PathsApart ==
  /\ pathOf \in [Drives -> Paths \cup {NoPath}]
  /\ \A d \in Drives : pathOf[d] # NoPath => driver[d] = "msc"
  /\ \A d, e \in Drives :
       (d # e /\ pathOf[d] # NoPath /\ pathOf[e] # NoPath) =>
         pathOf[d] # pathOf[e] /\ unitOf[d] # unitOf[e]

MountInv == TableInv /\ PathsApart

DriveOf(paths, p) == CHOOSE d \in Drives : paths[d] = p

Used(paths) == { paths[d] : d \in Drives } \ {NoPath}

\* what Volumes is told: the unit behind each path
Shown(table, paths) == [p \in Used(paths) |-> table[DriveOf(paths, p)]]

Others(drv) == { d \in Drives : drv[d] = "other" }

\* a path names one drive: that is all a volume table depends on
LEMMA PathNamesDrive ==
  ASSUME NEW paths \in [Drives -> Paths \cup {NoPath}], NEW e \in Drives,
         \A d \in Drives : paths[d] = paths[e] => d = e
  PROVE  DriveOf(paths, paths[e]) = e
BY DEF DriveOf

LEMMA UnitUsed ==
  ASSUME NEW d \in Drives, pathOf[d] # NoPath
  PROVE  unitOf[d] \in MountedUnits /\ pathOf[d] \in UsedPaths
BY DEF MountedUnits, UsedPaths

LEMMA MountKeepsPaths ==
  ASSUME MountInv, NEW p \in Paths, NEW u \in Units, MountRawMsc(p, u, TRUE)
  PROVE  /\ LeastOf(FreeDrives) \in Drives /\ pathOf[LeastOf(FreeDrives)] = NoPath
         /\ driver[LeastOf(FreeDrives)] = "free"
         /\ PathsApart'
<1> DEFINE d == LeastOf(FreeDrives)
<1> USE DEF MountInv, TableInv
<1>1. d \in Drives /\ driver[d] = "free"
  <2>1. FreeDrives \in SUBSET Nat /\ FreeDrives # {}
    BY DEF FreeDrives, Drives, MountRawMsc
  <2> QED
    BY <2>1, LeastOfIsIn DEF FreeDrives
<1>2. pathOf[d] = NoPath
  BY <1>1 DEF PathsApart
<1>3. /\ driver' = [driver EXCEPT ![d] = "msc"]
      /\ unitOf' = [unitOf EXCEPT ![d] = u]
      /\ pathOf' = [pathOf EXCEPT ![d] = p]
  BY DEF MountRawMsc, ff_msc_register_raw_partition
<1>4. u \notin MountedUnits /\ p \notin UsedPaths
  BY DEF MountRawMsc
<1> HIDE DEF d
<1>5. pathOf' \in [Drives -> Paths \cup {NoPath}]
  BY <1>1, <1>3 DEF PathsApart
<1>6. ASSUME NEW e \in Drives, pathOf'[e] # NoPath PROVE driver'[e] = "msc"
  BY <1>1, <1>3, <1>6 DEF PathsApart
<1>7. ASSUME NEW e \in Drives, e # d, pathOf'[e] # NoPath
      PROVE  /\ pathOf'[e] = pathOf[e] /\ unitOf'[e] = unitOf[e]
             /\ pathOf[e] # p /\ unitOf[e] # u
  BY <1>3, <1>4, <1>7, UnitUsed DEF PathsApart
<1>8. pathOf'[d] = p /\ unitOf'[d] = u
  BY <1>1, <1>3 DEF PathsApart
<1>9. ASSUME NEW e \in Drives, NEW f \in Drives,
             e # f, pathOf'[e] # NoPath, pathOf'[f] # NoPath
      PROVE  pathOf'[e] # pathOf'[f] /\ unitOf'[e] # unitOf'[f]
  <2>1. CASE e = d
    BY <1>7, <1>8, <1>9, <2>1
  <2>2. CASE f = d
    BY <1>7, <1>8, <1>9, <2>2
  <2>3. CASE e # d /\ f # d
    BY <1>7, <1>9, <2>3 DEF PathsApart
  <2> QED
    BY <2>1, <2>2, <2>3
<1>10. PathsApart'
  BY <1>5, <1>6, <1>9 DEF PathsApart
<1> QED
  BY <1>1, <1>2, <1>10 DEF d

LEMMA VolumesKeepPaths == MountInv /\ [VolumesNext]_volumeVars => PathsApart'
<1> SUFFICES ASSUME MountInv, [VolumesNext]_volumeVars PROVE PathsApart'
  OBVIOUS
<1> USE DEF MountInv, TableInv
<1>1. ASSUME NEW p \in Paths, NEW u \in Units, NEW ok \in BOOLEAN, MountRawMsc(p, u, ok)
      PROVE  PathsApart'
  <2>1. CASE ok = TRUE
    BY <1>1, <2>1, MountKeepsPaths
  <2>2. CASE ok = FALSE
    BY <1>1, <2>2 DEF MountRawMsc, PathsApart
  <2> QED
    BY <2>1, <2>2
<1>2. ASSUME NEW p \in Paths, NEW u \in Units, UnmountRawMsc(p, u) PROVE PathsApart'
  <2> DEFINE d == LeastOf(ff_msc_get_pdrv_raw(u))
  <2>1. /\ driver' = [driver EXCEPT ![d] = "free"]
        /\ unitOf' = [unitOf EXCEPT ![d] = NoUnit]
        /\ pathOf' = [e \in Drives |-> IF e = d \/ pathOf[e] = p THEN NoPath ELSE pathOf[e]]
    BY <1>2 DEF UnmountRawMsc
  <2> HIDE DEF d
  <2>2. ASSUME NEW e \in Drives, pathOf'[e] # NoPath
        PROVE  /\ pathOf'[e] = pathOf[e] /\ driver'[e] = driver[e] /\ unitOf'[e] = unitOf[e]
    BY <2>1, <2>2
  <2>3. pathOf' \in [Drives -> Paths \cup {NoPath}]
    BY <2>1 DEF PathsApart
  <2> QED
    BY <2>2, <2>3 DEF PathsApart
<1>3. CASE OtherMounts
  <2>1. FreeDrives \in SUBSET Nat /\ FreeDrives # {}
    BY <1>3 DEF FreeDrives, Drives, OtherMounts
  <2>2. LeastOf(FreeDrives) \in FreeDrives
    BY <2>1, LeastOfIsIn
  <2> QED
    BY <1>3, <2>2 DEF OtherMounts, FreeDrives, PathsApart
<1>4. ASSUME NEW d \in Drives, OtherUnmounts(d) PROVE PathsApart'
  BY <1>4 DEF OtherUnmounts, PathsApart
<1>5. CASE UNCHANGED volumeVars
  BY <1>5 DEF volumeVars, PathsApart
<1> QED
  BY <1>1, <1>2, <1>3, <1>4, <1>5 DEF VolumesNext

LEMMA ShownAt ==
  ASSUME NEW table, NEW paths \in [Drives -> Paths \cup {NoPath}],
         \A d, e \in Drives : (d # e /\ paths[d] # NoPath /\ paths[e] # NoPath) =>
                              paths[d] # paths[e],
         NEW q \in Used(paths)
  PROVE  \E e \in Drives : q = paths[e] /\ Shown(table, paths)[q] = table[e]
<1>1. PICK e \in Drives : q = paths[e] /\ q # NoPath
  BY DEF Used
<1>2. DriveOf(paths, q) = e
  BY <1>1, PathNamesDrive
<1> QED
  BY <1>1, <1>2 DEF Shown

\* the path of one drive decides what is shown at it
LEMMA ShownHere ==
  ASSUME NEW table, NEW paths \in [Drives -> Paths \cup {NoPath}],
         \A d, e \in Drives : (d # e /\ paths[d] # NoPath /\ paths[e] # NoPath) =>
                              paths[d] # paths[e],
         NEW e \in Drives, paths[e] # NoPath
  PROVE  paths[e] \in Used(paths) /\ Shown(table, paths)[paths[e]] = table[e]
<1>1. paths[e] \in Used(paths)
  BY DEF Used
<1>2. DriveOf(paths, paths[e]) = e
  BY PathNamesDrive
<1> QED
  BY <1>1, <1>2 DEF Shown

LEMMA MountShows ==
  ASSUME MountInv, NEW p \in Paths, NEW u \in Units, MountRawMsc(p, u, TRUE)
  PROVE  /\ p \notin Used(pathOf)
         /\ Shown(ff_raw_handles, pathOf)' =
              [q \in Used(pathOf) \cup {p} |-> IF q = p THEN u
                                               ELSE Shown(ff_raw_handles, pathOf)[q]]
         /\ Others(driver)' = Others(driver)
<1> DEFINE d == LeastOf(FreeDrives)
<1>1. /\ d \in Drives /\ pathOf[d] = NoPath /\ driver[d] = "free"
      /\ PathsApart'
  BY MountKeepsPaths
<1>2. /\ ff_raw_handles' = [ff_raw_handles EXCEPT ![d] = u]
      /\ driver' = [driver EXCEPT ![d] = "msc"]
      /\ pathOf' = [pathOf EXCEPT ![d] = p]
      /\ p \notin Used(pathOf) /\ p # NoPath
  BY VolumesAssumption DEF MountRawMsc, ff_msc_register_raw_partition, UsedPaths, Used
<1> HIDE DEF d
<1> USE DEF MountInv, TableInv
<1>3. Used(pathOf)' = Used(pathOf) \cup {p}
  BY <1>1, <1>2 DEF PathsApart, Used
<1>4. ASSUME NEW q \in Used(pathOf), q # p
      PROVE  Shown(ff_raw_handles, pathOf)'[q] = Shown(ff_raw_handles, pathOf)[q]
  <2>1. PICK e \in Drives : /\ q = pathOf[e]
                            /\ Shown(ff_raw_handles, pathOf)[q] = ff_raw_handles[e]
    BY ShownAt DEF PathsApart
  <2>2. q # NoPath
    BY DEF Used
  <2>3. e # d
    BY <1>1, <2>1, <2>2
  <2>4. pathOf'[e] = q /\ ff_raw_handles'[e] = ff_raw_handles[e]
    BY <1>2, <2>1, <2>3 DEF PathsApart
  <2>5. Shown(ff_raw_handles', pathOf')[pathOf'[e]] = ff_raw_handles'[e]
    BY <1>1, <2>2, <2>4, ShownHere DEF PathsApart
  <2> QED
    BY <2>1, <2>4, <2>5 DEF Shown, DriveOf, Used
<1>5. Shown(ff_raw_handles, pathOf)'[p] = u
  <2>1. pathOf'[d] = p /\ ff_raw_handles'[d] = u
    BY <1>1, <1>2 DEF PathsApart
  <2>2. pathOf' \in [Drives -> Paths \cup {NoPath}] /\ pathOf'[d] # NoPath
    BY <1>1, <1>2, <2>1 DEF PathsApart
  <2>3. Shown(ff_raw_handles', pathOf')[pathOf'[d]] = ff_raw_handles'[d]
    BY <1>1, <2>2, ShownHere DEF PathsApart
  <2> QED
    BY <2>1, <2>3 DEF Shown, DriveOf, Used
<1>6. Others(driver)' = Others(driver)
  BY <1>1, <1>2 DEF Others
<1>7. Shown(ff_raw_handles, pathOf)' =
        [q \in Used(pathOf) \cup {p} |-> Shown(ff_raw_handles, pathOf)'[q]]
  BY <1>3 DEF Shown
<1> QED
  BY <1>2, <1>4, <1>5, <1>6, <1>7

LEMMA UnmountShows ==
  ASSUME MountInv, NEW p \in Paths, NEW u \in Units, UnmountRawMsc(p, u), ~Misled
  PROVE  /\ p \in Used(pathOf)
         /\ Shown(ff_raw_handles, pathOf)' =
              [q \in Used(pathOf) \ {p} |-> Shown(ff_raw_handles, pathOf)[q]]
         /\ Others(driver)' = Others(driver)
<1> DEFINE d == LeastOf(ff_msc_get_pdrv_raw(u))
<1> USE DEF MountInv, TableInv
<1>1. PICK m \in Drives : unitOf[m] = u /\ pathOf[m] = p
  BY DEF UnmountRawMsc
<1>2. p # NoPath
  BY VolumesAssumption
<1>3. driver[m] = "msc" /\ ff_raw_handles[m] = u
  BY <1>1, <1>2 DEF PathsApart, MountedReachesUnit
<1>4. d \in Drives /\ ff_raw_handles[d] = u /\ d <= m
  <2>1. m \in ff_msc_get_pdrv_raw(u) /\ ff_msc_get_pdrv_raw(u) \in SUBSET Nat
    BY <1>3 DEF ff_msc_get_pdrv_raw, Drives
  <2>2. d \in ff_msc_get_pdrv_raw(u)
    BY <2>1, LeastOfIsIn
  <2>3. d <= m
    BY <2>1, LeastOfIsIn
  <2> QED
    BY <2>2, <2>3 DEF ff_msc_get_pdrv_raw
<1>5. /\ ff_raw_handles' = [ff_raw_handles EXCEPT ![d] = NoUnit]
      /\ driver' = [driver EXCEPT ![d] = "free"]
      /\ pathOf' = [e \in Drives |-> IF e = d \/ pathOf[e] = p THEN NoPath ELSE pathOf[e]]
  BY DEF UnmountRawMsc
<1> HIDE DEF d
<1>6. driver[d] = "msc"
  <2>1. CASE d = m
    BY <1>3, <2>1
  <2>2. CASE d < m
    BY <1>1, <1>2, <1>4, <2>2 DEF Misled
  <2> QED
    BY <1>4, <2>1, <2>2 DEF Drives
<1>7. pathOf[d] = NoPath \/ pathOf[d] = p
  BY <1>1, <1>2, <1>4, <1>6 DEF PathsApart, MountedReachesUnit
<1>8. PathsApart'
  BY VolumesKeepPaths DEF VolumesNext
<1>9. Used(pathOf)' = Used(pathOf) \ {p}
  <2>1. \A e \in Drives : pathOf'[e] = IF pathOf[e] = p THEN NoPath ELSE pathOf[e]
    BY <1>5, <1>7
  <2> QED
    BY <1>1, <2>1 DEF Used
<1>10. ASSUME NEW q \in Used(pathOf) \ {p}
       PROVE  Shown(ff_raw_handles, pathOf)'[q] = Shown(ff_raw_handles, pathOf)[q]
  <2>1. PICK e \in Drives : /\ q = pathOf[e]
                            /\ Shown(ff_raw_handles, pathOf)[q] = ff_raw_handles[e]
    BY ShownAt DEF PathsApart
  <2>2. q # NoPath
    BY DEF Used
  <2>3. e # d
    BY <1>7, <2>1, <2>2
  <2>4. pathOf'[e] = q /\ ff_raw_handles'[e] = ff_raw_handles[e]
    BY <1>5, <2>1, <2>3
  <2>5. Shown(ff_raw_handles', pathOf')[pathOf'[e]] = ff_raw_handles'[e]
    BY <1>8, <2>2, <2>4, ShownHere DEF PathsApart
  <2> QED
    BY <2>1, <2>4, <2>5 DEF Shown, DriveOf, Used
<1>11. Others(driver)' = Others(driver)
  BY <1>4, <1>5, <1>6 DEF Others
<1>12. Shown(ff_raw_handles, pathOf)' =
         [q \in Used(pathOf) \ {p} |-> Shown(ff_raw_handles, pathOf)'[q]]
  BY <1>9 DEF Shown
<1>13. p \in Used(pathOf)
  BY <1>1, <1>2 DEF Used
<1> QED
  BY <1>10, <1>11, <1>12, <1>13

LEMMA FailedMountShows ==
  ASSUME MountInv, NEW p \in Paths, NEW u \in Units, MountRawMsc(p, u, FALSE)
  PROVE  /\ Shown(ff_raw_handles', pathOf') = Shown(ff_raw_handles, pathOf)
         /\ driver' = driver
<1> DEFINE d == LeastOf(FreeDrives)
<1> USE DEF MountInv, TableInv
<1>1. d \in Drives /\ driver[d] = "free"
  <2>1. FreeDrives \in SUBSET Nat /\ FreeDrives # {}
    BY DEF FreeDrives, Drives, MountRawMsc
  <2> QED
    BY <2>1, LeastOfIsIn DEF FreeDrives
<1>2. ff_raw_handles' = [ff_raw_handles EXCEPT ![d] = u] /\ UNCHANGED <<driver, pathOf>>
  BY DEF MountRawMsc
<1> HIDE DEF d
<1>3. pathOf[d] = NoPath
  BY <1>1 DEF PathsApart
<1>4. ASSUME NEW q \in Used(pathOf)
      PROVE  ff_raw_handles'[DriveOf(pathOf, q)] = ff_raw_handles[DriveOf(pathOf, q)]
  <2>1. PICK e \in Drives : q = pathOf[e] /\ q # NoPath
    BY DEF Used
  <2>2. DriveOf(pathOf, q) = e
    BY <2>1, PathNamesDrive DEF PathsApart
  <2> QED
    BY <1>2, <1>3, <2>1, <2>2
<1>5. Shown(ff_raw_handles', pathOf) = Shown(ff_raw_handles, pathOf)
  BY <1>4 DEF Shown
<1> QED
  BY <1>2, <1>5

LEMMA VolumesImplement ==
  ASSUME MountInv, [VolumesNext]_volumeVars
  PROVE  Abstract!Next \/ Misled \/ UNCHANGED volumeVars
<1> USE DEF Shown, Used, DriveOf, UsedPaths, Others
<1>0. ASSUME Shown(ff_raw_handles', pathOf') = Shown(ff_raw_handles, pathOf)
      PROVE  Abstract!Elsewhere
  BY <1>0 DEF Abstract!Elsewhere
<1>1. ASSUME NEW p \in Paths, NEW u \in Units, MountRawMsc(p, u, TRUE)
      PROVE  Abstract!Mount(p, u)
  BY <1>1, MountShows DEF Abstract!Mount
<1>2. ASSUME NEW p \in Paths, NEW u \in Units, MountRawMsc(p, u, FALSE)
      PROVE  Abstract!Elsewhere
  BY <1>0, <1>2, FailedMountShows
<1>3. ASSUME NEW p \in Paths, NEW u \in Units, UnmountRawMsc(p, u), ~Misled
      PROVE  Abstract!Unmount(p)
  BY <1>3, UnmountShows DEF Abstract!Unmount
<1>4. ASSUME OtherMounts \/ \E d \in Drives : OtherUnmounts(d)
      PROVE  Abstract!Elsewhere
  <2>1. ff_raw_handles' = ff_raw_handles /\ pathOf' = pathOf
    BY <1>4 DEF OtherMounts, OtherUnmounts
  <2> HIDE DEF Shown
  <2>2. Shown(ff_raw_handles', pathOf') = Shown(ff_raw_handles, pathOf)
    BY <2>1
  <2> QED
    BY <1>0, <2>2
<1> QED
  <2>1. CASE OtherMounts \/ \E d \in Drives : OtherUnmounts(d)
    BY <1>4, <2>1 DEF Abstract!Next
  <2>2. ASSUME NEW p \in Paths, NEW u \in Units, UnmountRawMsc(p, u)
        PROVE  Abstract!Next \/ Misled
    BY <1>3, <2>2 DEF Abstract!Next
  <2>3. ASSUME NEW p \in Paths, NEW u \in Units, NEW ok \in BOOLEAN, MountRawMsc(p, u, ok)
        PROVE  Abstract!Next
    <3>1. CASE ok = TRUE
      BY <1>1, <2>3, <3>1 DEF Abstract!Next
    <3>2. CASE ok = FALSE
      BY <1>2, <2>3, <3>2 DEF Abstract!Next
    <3> QED
      BY <3>1, <3>2
  <2> QED
    BY <2>1, <2>2, <2>3 DEF VolumesNext

(* For any number of drives, units and paths, mounting and unmounting      *)
(* implement Volumes, step by step, except where an entry that names no    *)
(* mounted drive comes first (vfs_fat_rawmsc_mount, unmount).              *)
THEOREM MountingImplementsVolumes == WrappersSpec => VolumesUnlessMisled
<1>1. WrappersInit => MountInv /\ Abstract!Init
  <2> SUFFICES ASSUME WrappersInit PROVE MountInv /\ Abstract!Init
    OBVIOUS
  <2>1. VolumesInit
    BY DEF WrappersInit
  <2>2. MountInv
    BY <2>1, VolumesAssumption
       DEF VolumesInit, MountInv, TableInv, PathsApart, MountedReachesUnit, Drives, NoUnit
  <2>3. UsedPaths = {} /\ { d \in Drives : driver[d] = "other" } = {}
    BY <2>1 DEF VolumesInit, UsedPaths
  <2>4. Abstract!Init
    BY <2>3 DEF Abstract!Init
  <2> QED
    BY <2>2, <2>4
<1>2. MountInv /\ [WrappersNext]_wrapperVars => MountInv'
  BY WrapperSteps, VolumesKeepTable, VolumesKeepPaths DEF MountInv
<1>3. MountInv /\ [WrappersNext]_wrapperVars => [Abstract!Next \/ Misled]_volumeVars
  BY WrapperSteps, VolumesImplement
<1> QED
  BY <1>1, <1>2, <1>3, PTL DEF WrappersSpec, VolumesUnlessMisled

-----------------------------------------------------------------------------
(* The tasks.                                                              *)

(* A handle that a remove() is about to clear names a running task only if *)
(* the two raced, and so does one still to be stored.                      *)
TaskInv ==
  /\ TasksAccounted
  /\ removal \in [TaskCallers -> {"out", "delete", "clear", "ended"}]
  /\ Clearing => task_handle \notin running \ raced
  /\ (Deleting \/ Clearing) => storing \subseteq raced
  /\ storing \subseteq running \cup gone
  /\ created \in Nat /\ task_handle \in 0 .. created
  /\ storing \subseteq 1 .. created /\ task_handle \notin storing
  /\ running \subseteq 1 .. created
  /\ \A s, t \in storing : s = t

LEMMA CreatesOneAtATime ==
  ASSUME TaskInv, Idling(AppTask)
  PROVE  storing = {}
BY DEF TaskInv, Idling, Going, AppTask

LEMMA DeleteKeepsTasks ==
  ASSUME TaskInv, NEW c \in TaskCallers, DeleteTask(c)
  PROVE  TaskInv'
<1> DEFINE victim == IF task_handle = 0 THEN c ELSE task_handle
<1>1. /\ running' = running \ {victim}
      /\ UNCHANGED <<task_handle, storing, created, overwritten, raced>>
  BY DEF DeleteTask
<1>2. Deleting
  BY DEF DeleteTask, Deleting
<1>3. storing \subseteq raced
  BY <1>2 DEF TaskInv
<1>4. CASE victim = c
  <2>1. removal' = [removal EXCEPT ![c] = "ended"] /\ gone' = gone \cup {c}
    BY <1>4 DEF DeleteTask
  <2>2. Clearing' => Clearing
    BY <2>1 DEF TaskInv, Clearing
  <2>3. Clearing => Clearing'
    BY <2>1 DEF TaskInv, Clearing, DeleteTask
  <2> QED
    BY <1>1, <1>3, <1>4, <2>1, <2>2, <2>3 DEF TaskInv, TasksAccounted
<1>5. CASE victim # c
  <2>1. /\ removal' = [removal EXCEPT ![c] = "clear", ![victim] = "ended"]
        /\ gone' = gone /\ victim = task_handle
    BY <1>5 DEF DeleteTask
  <2>2. Clearing'
    BY <1>5, <2>1 DEF TaskInv, Clearing
  <2>3. storing' \subseteq running' \cup gone'
    BY <1>1, <2>1 DEF TaskInv
  <2> QED
    BY <1>1, <1>3, <2>1, <2>2, <2>3 DEF TaskInv, TasksAccounted
<1> QED
  BY <1>4, <1>5

LEMMA TasksStayAccounted == TaskInv /\ [TasksNext]_taskVars => TaskInv'
<1> SUFFICES ASSUME TaskInv, [TasksNext]_taskVars PROVE TaskInv'
  OBVIOUS
<1>1. CASE create
  <2>1. storing = {} /\ storing' = {}
    BY <1>1, CreatesOneAtATime DEF create, NewTask
  <2>2. removal' = removal
    BY <1>1 DEF create, NewTask
  <2>3. Deleting' = Deleting /\ Clearing' = Clearing
    BY <2>2 DEF Deleting, Clearing
  <2> QED
    BY <1>1, <2>1, <2>2, <2>3 DEF create, NewTask, SetHandle, TaskInv, TasksAccounted
<1>2. CASE createStatic
  <2>1. storing = {}
    BY <1>2, CreatesOneAtATime DEF createStatic, NewTask
  <2>2. removal' = removal
    BY <1>2 DEF createStatic, NewTask
  <2>3. Deleting' = Deleting /\ Clearing' = Clearing
    BY <2>2 DEF Deleting, Clearing
  <2> QED
    BY <1>2, <2>1, <2>2, <2>3 DEF createStatic, NewTask, TaskInv, TasksAccounted
<1>3. CASE StoreHandle
  <2>1. Deleting' = Deleting /\ Clearing' = Clearing
    BY <1>3 DEF StoreHandle, Deleting, Clearing
  <2>2. PICK t \in storing : SetHandle(t)
    BY <1>3 DEF StoreHandle
  <2>3. storing = {t}
    BY <2>2 DEF TaskInv
  <2> QED
    BY <1>3, <2>1, <2>2, <2>3
       DEF StoreHandle, SetHandle, TaskInv, TasksAccounted, kernelVars
<1>4. CASE createStaticFails
  <2>1. storing = {} /\ storing' = {}
    BY <1>4, CreatesOneAtATime DEF createStaticFails
  <2>2. Deleting' = Deleting /\ Clearing' = Clearing
    BY <1>4 DEF createStaticFails, Deleting, Clearing
  <2> QED
    BY <1>4, <2>1, <2>2
       DEF createStaticFails, SetHandle, TaskInv, TasksAccounted, kernelVars
<1>5. ASSUME NEW c \in TaskCallers, remove(c) PROVE TaskInv'
  <2>1. /\ UNCHANGED <<task_handle, storing, running, created, overwritten, gone>>
        /\ raced' = raced \cup storing
    BY <1>5 DEF remove, kernelVars
  <2>2. removal' \in [TaskCallers -> {"out", "delete", "clear", "ended"}]
    BY <1>5 DEF remove, TaskInv
  <2>3. Clearing' => Clearing \/ task_handle = 0
    BY <1>5 DEF remove, TaskInv, Clearing
  <2>4. Clearing => Clearing'
    BY <1>5 DEF remove, TaskInv, Clearing, Idling
  <2>5. (Deleting' \/ Clearing') => storing' \subseteq raced'
    BY <2>1
  <2>6. Clearing' => task_handle' \notin running' \ raced'
    BY <2>1, <2>3 DEF TaskInv
  <2> QED
    BY <2>1, <2>2, <2>4, <2>5, <2>6 DEF TaskInv, TasksAccounted
<1>6. ASSUME NEW c \in TaskCallers, DeleteTask(c) PROVE TaskInv'
  BY <1>6, DeleteKeepsTasks
<1>7. ASSUME NEW c \in TaskCallers, ClearHandle(c) PROVE TaskInv'
  <2>1. /\ task_handle' = 0 /\ removal' = [removal EXCEPT ![c] = "out"]
        /\ UNCHANGED <<storing, running, created, overwritten, raced, gone>>
    BY <1>7 DEF ClearHandle, kernelVars, lostVars
  <2>2. Clearing
    BY <1>7 DEF ClearHandle, Clearing
  <2>3. removal' \in [TaskCallers -> {"out", "delete", "clear", "ended"}]
    BY <2>1 DEF TaskInv
  <2>4. storing \subseteq raced /\ task_handle \notin running \ raced
    BY <2>2 DEF TaskInv
  <2>5. TasksAccounted'
    BY <2>1, <2>4 DEF TaskInv, TasksAccounted
  <2> QED
    BY <2>1, <2>3, <2>4, <2>5 DEF TaskInv
<1>8. CASE UNCHANGED <<handleVars, running, created, lostVars>>
  BY <1>8 DEF handleVars, lostVars, TaskInv, TasksAccounted, Deleting, Clearing
<1> QED
  BY <1>1, <1>2, <1>3, <1>4, <1>5, <1>6, <1>7, <1>8
     DEF TasksNext, suspend, resume, notify, Wait, Wake, taskVars, kernelVars

(* However many tasks are created, with their own or an external stack,    *)
(* and from whichever task remove() is called, line by line: a task that   *)
(* cannot be removed is one create() was called over or one whose creation *)
(* raced with a remove(), and a handle of no task is that of one that      *)
(* deleted itself or is about to be cleared (Task::create, Task::remove).  *)
THEOREM TasksKnown == WrappersSpec => []TasksAccounted
<1>1. WrappersInit => TaskInv
  BY DEF WrappersInit, TasksInit, TaskInv, TasksAccounted, Deleting, Clearing
<1>2. TaskInv /\ [WrappersNext]_wrapperVars => TaskInv'
  BY WrapperSteps, TasksStayAccounted
<1>3. TaskInv => TasksAccounted
  BY DEF TaskInv
<1> QED
  BY <1>1, <1>2, <1>3, PTL DEF WrappersSpec

-----------------------------------------------------------------------------
(* The AWS client's mutex.                                                 *)

\* t went in by the mutex
ByMutex(t) == t \in Callers => Locked(awsCall[t]) /\ inTime[t]

HolderInv ==
  /\ awsPc \in [AwsUsers -> {"idle", "take", "use", "give"}]
  /\ awsCall \in [Callers -> AwsCalls] /\ inTime \in [Callers -> BOOLEAN]
  /\ \A t \in AwsUsers : awsPc[t] \in {"use", "give"} /\ ByMutex(t) => yieldSemaphore = t

LEMMA AwsKeepsHolder == HolderInv /\ [AwsNext]_awsVars => HolderInv'
<1> SUFFICES ASSUME HolderInv, [AwsNext]_awsVars PROVE HolderInv'
  OBVIOUS
<1> USE AwsAssumption DEF HolderInv, ByMutex, AwsUsers
<1>1. ASSUME NEW ok \in BOOLEAN, InitClient(ok) PROVE HolderInv'
  BY <1>1 DEF InitClient
<1>2. ASSUME NEW t \in Callers, NEW op \in AwsCalls, Call(t, op) PROVE HolderInv'
  BY <1>2 DEF Call
<1>3. ASSUME NEW t \in Callers, TakeTimesOut(t) PROVE HolderInv'
  BY <1>3 DEF TakeTimesOut
<1>4. ASSUME NEW t \in Callers, SdkReturns(t) PROVE HolderInv'
  BY <1>4 DEF SdkReturns
<1>5. ASSUME NEW rc, aws_iot_task(rc) PROVE HolderInv'
  BY <1>5 DEF aws_iot_task
<1>6. ASSUME NEW t \in AwsUsers, Take(t) PROVE HolderInv'
  BY <1>6 DEF Take
<1>7. ASSUME NEW t \in AwsUsers, Give(t) PROVE HolderInv'
  BY <1>7 DEF Give
<1>8. CASE UNCHANGED awsVars
  BY <1>8 DEF awsVars
<1> QED
  BY <1>1, <1>2, <1>3, <1>4, <1>5, <1>6, <1>7, <1>8 DEF AwsNext

(* For any number of tasks that call the client, two are inside the SDK    *)
(* at once only if one of them never took the mutex or timed out taking it *)
(* (aws_iot_task, AwsIoT::connect, publish, subscribe).                    *)
THEOREM OneUserUnlessUnlocked == WrappersSpec => []OneUser
<1>1. WrappersInit => HolderInv
  BY DEF WrappersInit, AwsInit, HolderInv, AwsCalls
<1>2. HolderInv /\ [WrappersNext]_wrapperVars => HolderInv'
  BY WrapperSteps, AwsKeepsHolder
<1>3. HolderInv => OneUser
  <2> SUFFICES ASSUME HolderInv, NEW s \in AwsUsers, NEW t \in AwsUsers,
                      s # t, awsPc[s] = "use", awsPc[t] = "use"
               PROVE  \E u \in {s, t} \cap Callers :
                        awsCall[u] \in {"connect", "autoReconnect"} \/ ~inTime[u]
    BY DEF OneUser
  <2>1. ~ByMutex(s) \/ ~ByMutex(t)
    BY DEF HolderInv
  <2>2. PICK u \in {s, t} : ~ByMutex(u)
    BY <2>1
  <2>3. u \in Callers /\ awsCall[u] \in AwsCalls /\ (~Locked(awsCall[u]) \/ ~inTime[u])
    BY <2>2 DEF ByMutex, HolderInv
  <2> QED
    BY <2>3 DEF Locked, AwsCalls
<1> QED
  BY <1>1, <1>2, <1>3, PTL DEF WrappersSpec

-----------------------------------------------------------------------------
(* Ethernet: what each phase of the round owns.                            *)

EthInv ==
  /\ ethPhase \in {"init", "start", "stop", "deinit", "none"}
  /\ ethPhase \in {"init", "start"} /\ ~glueless => drivers = 0 /\ glue_handle # "valid"
  /\ ethPhase \in {"stop", "deinit"} /\ ~glueless =>
       drivers = IF glue_handle = "valid" THEN 1 ELSE 0
  /\ glueless \in BOOLEAN /\ dhcp \in BOOLEAN /\ configured \in BOOLEAN
  /\ configured => (dhcp <=> address = "none")

LEMMA EthKeepsInv == EthInv /\ [EthNext]_ethVars => EthInv'
<1> SUFFICES ASSUME EthInv, [EthNext]_ethVars PROVE EthInv'
  OBVIOUS
<1> USE DEF EthInv, ethDriver, ethIp
<1>1. CASE \E known \in BOOLEAN : InitEth(known)
  BY <1>1 DEF InitEth
<1>2. ASSUME NEW fails \in {"install", "glue", "attach", "start", "none"}, StartEth(fails)
      PROVE  EthInv'
  <2>1. CASE fails = "install"
    BY <1>2, <2>1 DEF StartEth
  <2>2. CASE fails # "install"
    <3>1. /\ ethPhase = "start" /\ ethPhase' = "stop" /\ drivers' = drivers + 1
          /\ glue_handle' = IF fails = "glue" THEN "NULL" ELSE "valid"
          /\ UNCHANGED <<dhcp, address, configured>>
      BY <1>2, <2>2 DEF StartEth
    <3>2. glueless' = (glueless \/ fails = "glue")
      BY <1>2, <2>2 DEF StartEth
    <3>3. /\ glueless' \in BOOLEAN
          /\ ~glueless' => ~glueless /\ fails # "glue"
      BY <3>2, Zenon
    <3> QED
      BY <3>1, <3>3
  <2> QED
    BY <2>1, <2>2
<1>3. CASE StopEth
  BY <1>3 DEF StopEth
<1>4. CASE DeinitEth
  BY <1>4 DEF DeinitEth
<1>5. ASSUME NEW fixed \in BOOLEAN, NEW fails \in {"stop", "address", "dhcp", "none"},
             SetConfig(fixed, fails)
      PROVE  EthInv'
  <2>1. CASE fails = "none"
    <3>1. configured' = TRUE /\ (dhcp' <=> ~fixed)
      BY <1>5, <2>1 DEF SetConfig
    <3>2. address' = IF fixed THEN "fixed" ELSE "none"
      BY <1>5, <2>1 DEF SetConfig
    <3>3. dhcp' \in BOOLEAN
      BY <1>5, <2>1 DEF SetConfig
    <3> QED
      BY <1>5, <3>1, <3>2, <3>3 DEF SetConfig
  <2>2. CASE fails # "none"
    <3>1. configured' = FALSE /\ dhcp' \in BOOLEAN
      BY <1>5, <2>2 DEF SetConfig
    <3> QED
      BY <1>5, <3>1 DEF SetConfig
  <2> QED
    BY <2>1, <2>2
<1>6. CASE UNCHANGED ethVars
  BY <1>6 DEF ethVars
<1> QED
  BY <1>1, <1>2, <1>3, <1>4, <1>5, <1>6 DEF EthNext

(* For any number of rounds, whichever step of start() and setConfig()     *)
(* fails: no driver outlives its round and DHCP is off only with a fixed   *)
(* address, outside the exceptions the property names (ETH::deinit).       *)
THEOREM EthRoundsRelease == WrappersSpec => []EthReleased
<1>1. WrappersInit => EthInv
  BY DEF WrappersInit, EthInit, EthInv
<1>2. EthInv /\ [WrappersNext]_wrapperVars => EthInv'
  BY WrapperSteps, EthKeepsInv
<1>3. EthInv => EthReleased
  BY DEF EthInv, EthReleased
<1> QED
  BY <1>1, <1>2, <1>3, PTL DEF WrappersSpec

-----------------------------------------------------------------------------
(* SNTP: a synchronisation is reported, or still marked as completed.      *)

SyncInv ==
  /\ syncs \in Nat /\ trues \in Nat /\ completed \in BOOLEAN
  /\ trues <= syncs /\ (completed => trues < syncs)

LEMMA SntpKeepsInv == SyncInv /\ [SntpNext]_sntpVars => SyncInv'
<1> SUFFICES ASSUME SyncInv, [SntpNext]_sntpVars PROVE SyncInv'
  OBVIOUS
<1> USE DEF SyncInv
<1>1. CASE Synchronise
  BY <1>1 DEF Synchronise
<1>2. ASSUME NEW t \in Waiters, WaitReturns(t) PROVE SyncInv'
  <2>1. completed' \in BOOLEAN /\ ~completed' /\ syncs' = syncs
    BY <1>2 DEF WaitReturns
  <2>2. CASE Succeeds(t)
    <3>1. completed /\ trues' = trues + 1
      BY <1>2, <2>2 DEF WaitReturns, Succeeds
    <3> QED
      BY <2>1, <3>1
  <2>3. CASE ~Succeeds(t)
    <3>1. trues' = trues
      BY <1>2, <2>3 DEF WaitReturns
    <3> QED
      BY <2>1, <3>1
  <2> QED
    BY <2>2, <2>3
<1>3. CASE UNCHANGED <<syncs, trues, completed>>
  BY <1>3
<1> QED
  BY <1>1, <1>2, <1>3
     DEF SntpNext, InitSntp, InitTakes, DestroySntp, time_sync_notification_cb, WaitForSync,
         TakesSemaphore, WaitTimesOut, sntpVars

(* For any number of waiting tasks and synchronisations, none is reported  *)
(* twice: reading the status is what forgets it (SNTP::syncWait).          *)
THEOREM SyncsReportedOnce == WrappersSpec => []ReportedOnce
<1>1. WrappersInit => SyncInv
  <2>1. WrappersInit => syncs = 0 /\ trues = 0 /\ completed \in BOOLEAN /\ ~completed
    BY DEF WrappersInit, SntpInit
  <2> QED
    BY <2>1 DEF SyncInv
<1>2. SyncInv /\ [WrappersNext]_wrapperVars => SyncInv'
  BY WrapperSteps, SntpKeepsInv
<1>3. SyncInv => ReportedOnce
  BY DEF SyncInv, ReportedOnce
<1> QED
  BY <1>1, <1>2, <1>3, PTL DEF WrappersSpec

-----------------------------------------------------------------------------
(* The sensors.                                                            *)

SensorInv ==
  /\ max_num_devices \in 0 .. Width - 1 /\ num_devices \in 0 .. Width - 1
  /\ onBus \in Nat
  /\ owb = "none" => infos = {}
  /\ SensorsHaveRoom

LEMMA ElementInRoom ==
  ASSUME NEW w \in Nat, NEW m \in 0 .. w - 1, NEW n \in 0 .. w - 1, n <= m,
         NEW i \in 0 .. n - 1
  PROVE  m \in i + 1 .. w - 1
OBVIOUS

LEMMA SearchKeepsRoom ==
  ASSUME SensorInv, SearchIt, onBus' = onBus, max_num_devices' \in 0 .. Width - 1,
         owb \in {"none", "up"}, owb = "up" => ~freedTwice, owb' = "up"
  PROVE  SensorInv'
<1> USE SensorsAssumption DEF SensorInv
<1>1. PICK f \in Arrays \cup {5} : search(f)
  BY DEF SearchIt, Failures, Arrays
<1>2. infos \subseteq Visited
  BY DEF SensorsHaveRoom
<1>3. infos' \subseteq 0 .. num_devices' - 1
  BY <1>1, <1>2 DEF search, FreeAndMake
<1>4. infos' \subseteq Visited'
  BY <1>3 DEF Visited
<1>5. CASE f \in Arrays
  <2>1. failed' = TRUE /\ num_devices' = 0
    BY <1>1, <1>5 DEF search
  <2>2. Visited' = {}
    BY <2>1 DEF Visited
  <2> QED
    BY <1>4, <2>1, <2>2 DEF SensorsHaveRoom
<1>6. CASE f = 5
  <2>1. f \notin Arrays
    BY <1>6 DEF Arrays
  <2>2. ~failed'
    BY <1>1, <2>1 DEF search
  <2>3. num_devices' = IF onBus < max_num_devices' THEN onBus ELSE max_num_devices'
    BY <1>1, <2>2 DEF search
  <2>4. num_devices' \in 0 .. Width - 1 /\ num_devices' <= max_num_devices'
    BY <2>3
  <2>5. \A a \in Arrays : room'[a] = max_num_devices'
    BY <1>1, <1>6 DEF search, Allocated, Arrays
  <2>6. max_num_devices' \in 0 .. Width - 1 /\ Width \in Nat
    OBVIOUS
  <2>7. \A i \in Visited', a \in Arrays : room'[a] \in i + 1 .. Width - 1
    <3>1. Visited' = 0 .. num_devices' - 1
      BY DEF Visited
    <3>2. ASSUME NEW i \in 0 .. num_devices' - 1 PROVE max_num_devices' \in i + 1 .. Width - 1
      BY <2>4, <2>6, ElementInRoom
    <3> QED
      BY <2>5, <3>1, <3>2
  <2> QED
    BY <1>4, <2>2, <2>4, <2>5, <2>7 DEF SensorsHaveRoom
<1> QED
  BY <1>1, <1>5, <1>6

LEMMA SensorsKeepInv == SensorInv /\ [SensorsNext]_sensorVars => SensorInv'
<1> SUFFICES ASSUME SensorInv, [SensorsNext]_sensorVars PROVE SensorInv'
  OBVIOUS
<1> USE SensorsAssumption
<1>1. CASE InitBus
  BY <1>1, SearchKeepsRoom DEF InitBus, SensorInv
<1>2. CASE Search
  BY <1>2, SearchKeepsRoom DEF Search, Searches, SensorInv
<1>3. ASSUME NEW num \in Counts, addSensors(num) PROVE SensorInv'
  <2>1. max_num_devices' \in 0 .. Width - 1
    BY <1>3 DEF addSensors, SensorInv
  <2> QED
    BY <1>3, <2>1, SearchKeepsRoom DEF addSensors, Searches
<1>4. ASSUME NEW num \in Counts, removeSensors(num) PROVE SensorInv'
  <2>1. max_num_devices' \in 0 .. Width - 1
    BY <1>4 DEF removeSensors, SensorInv
  <2> QED
    BY <1>4, <2>1, SearchKeepsRoom DEF removeSensors, Searches
<1>5. CASE Destroy
  BY <1>5 DEF Destroy, SensorInv, SensorsHaveRoom, Visited
<1>6. CASE BusChanges
  BY <1>6 DEF BusChanges, SensorInv, SensorsHaveRoom, Visited
<1>7. CASE UNCHANGED sensorVars
  BY <1>7 DEF sensorVars, SensorInv, SensorsHaveRoom, Visited
<1> QED
  BY <1>1, <1>2, <1>3, <1>4, <1>5, <1>6, <1>7 DEF SensorsNext

(* For any width of the count, any number of sensors and whichever of the  *)
(* arrays and DS18B20_Info cannot be allocated, read() and getTemp() stay  *)
(* inside the arrays and no DS18B20_Info is lost (DS18B20::search,         *)
(* allocate).                                                              *)
THEOREM ArraysHoldSensors == WrappersSpec => []SensorsHaveRoom
<1>1. WrappersInit => SensorInv
  BY SensorsAssumption DEF WrappersInit, SensorsInit, SensorInv, SensorsHaveRoom, Visited
<1>2. SensorInv /\ [WrappersNext]_wrapperVars => SensorInv'
  BY WrapperSteps, SensorsKeepInv
<1>3. SensorInv => SensorsHaveRoom
  BY DEF SensorInv
<1> QED
  BY <1>1, <1>2, <1>3, PTL DEF WrappersSpec

-----------------------------------------------------------------------------
(* OTA.  Until the first update after a rollback has written, the slot     *)
(* that was rolled back still holds that version and is the invalid one;   *)
(* what gets past compare() is then another version.                       *)

OtaType ==
  /\ attempts \in Nat /\ sent \in 0 .. 2 /\ progress \in Nat /\ handle \in Nat
  /\ begun \in Nat /\ image \in Versions
  /\ ran \in Slots /\ boot \in Slots /\ update_partition \in {NULL, 1 - ran}
  /\ handle # 0 => update_partition = 1 - ran
  /\ sent = 0 => progress = 0
  /\ slots \in [Slots -> [version : Versions \cup {Erased}, whole : BOOLEAN]]

Untouched ==
  /\ ~image_header_was_checked
  /\ boot = ran /\ 1 - ran \in invalid
  /\ slots[1 - ran].version = rolledBack

FirstAttempt ==
  /\ attempts = 0 => sent = 2 /\ handle = 0
  /\ attempts = 0 \/ sent = 0 => Untouched
  /\ handle # 0 /\ progress > 0 => /\ image # rolledBack
                                  /\ slots[1 - ran].version # rolledBack
  /\ boot # ran => handle = 0 /\ slots[boot].version # rolledBack

OtaInv == OtaType /\ (attempts <= 1 /\ rolledBack # Erased => FirstAttempt)

LEMMA WriteKeepsOta ==
  ASSUME OtaInv, NEW same \in BOOLEAN, NEW ok \in BOOLEAN, WritePiece(same, ok)
  PROVE  OtaInv'
<1> USE DEF OtaInv, OtaType, Slots, NULL, otaHandle
<1>1. /\ sent < 2 /\ sent' = sent + 1
      /\ UNCHANGED <<update_partition, boot, ran, invalid, begun, image, rolledBack, attempts>>
  BY DEF WritePiece
<1>2. CASE UNCHANGED <<slots, handle, progress>>
  BY <1>1, <1>2 DEF FirstAttempt
<1>3. CASE /\ compare(same) /\ handle # 0 /\ progress = sent
           /\ slots' = [slots EXCEPT ![update_partition] =
                           [version |-> image, whole |-> sent = 1]]
           /\ progress' = progress + 1 /\ handle' = handle
  <2>1. update_partition = 1 - ran /\ 1 - ran \in Slots /\ ran # 1 - ran
    BY <1>3
  <2>2. slots' \in [Slots -> [version : Versions \cup {Erased}, whole : BOOLEAN]]
    BY <1>3, <2>1
  <2>3. slots'[1 - ran].version = image
    BY <1>3, <2>1
  <2>4. ASSUME attempts <= 1, rolledBack # Erased PROVE FirstAttempt'
    <3>1. FirstAttempt /\ attempts = 1
      BY <1>1, <2>4 DEF FirstAttempt
    <3>2. image # rolledBack
      <4>1. CASE sent = 0
        <5>1. Untouched
          BY <3>1, <4>1 DEF FirstAttempt
        <5> QED
          BY <1>3, <4>1, <5>1 DEF compare, Untouched
      <4>2. CASE sent # 0
        BY <1>1, <1>3, <3>1, <4>2 DEF FirstAttempt
      <4> QED
        BY <4>1, <4>2
    <3>3. boot = ran
      BY <1>3, <3>1 DEF FirstAttempt
    <3> QED
      BY <1>1, <2>3, <3>1, <3>2, <3>3 DEF FirstAttempt
  <2> QED
    BY <1>1, <1>3, <2>1, <2>2, <2>4
<1>4. CASE /\ handle # 0 /\ handle' = 0 /\ progress' = progress
           /\ slots' = [slots EXCEPT ![update_partition] =
                           [version |-> IF progress = 0 THEN Erased ELSE @.version,
                            whole |-> FALSE]]
  <2>1. update_partition = 1 - ran /\ 1 - ran \in Slots /\ ran # 1 - ran
    BY <1>4
  <2>2. slots' \in [Slots -> [version : Versions \cup {Erased}, whole : BOOLEAN]]
    BY <1>4, <2>1
  <2>3. ASSUME attempts <= 1, rolledBack # Erased PROVE FirstAttempt'
    <3>1. FirstAttempt /\ attempts = 1 /\ boot = ran
      BY <1>1, <1>4, <2>3 DEF FirstAttempt
    <3> QED
      BY <1>1, <1>4, <3>1 DEF FirstAttempt
  <2> QED
    BY <1>1, <1>4, <2>2, <2>3
<1> QED
  BY <1>2, <1>3, <1>4 DEF WritePiece

LEMMA RestartKeepsOta ==
  ASSUME OtaInv, NEW works \in BOOLEAN, Restart(works)
  PROVE  OtaInv'
<1> USE DEF OtaInv, OtaType, Slots, NULL, FreshObject
<1>1. /\ update_partition' = NULL /\ ~image_header_was_checked'
      /\ handle' = 0 /\ sent' = 2 /\ progress' = 0
      /\ UNCHANGED <<slots, begun, image>>
  BY DEF Restart
<1>2. CASE boot = ran
  <2>1. UNCHANGED <<boot, ran, invalid, rolledBack, attempts>>
    BY <1>2 DEF Restart
  <2> QED
    BY <1>1, <1>2, <2>1 DEF FirstAttempt, Untouched
<1>3. CASE boot # ran /\ works /\ slots[boot].whole
  <2>1. ran' = boot /\ UNCHANGED <<boot, invalid, rolledBack, attempts>>
    BY <1>3 DEF Restart
  <2> QED
    BY <1>1, <1>3, <2>1 DEF FirstAttempt, Untouched
<1>4. CASE boot # ran /\ ~(works /\ slots[boot].whole)
  <2>1. /\ boot' = ran /\ invalid' = {boot} /\ rolledBack' = slots[boot].version
        /\ attempts' = 0 /\ ran' = ran
    BY <1>4 DEF Restart
  <2>2. boot = 1 - ran
    BY <1>4
  <2> QED
    BY <1>1, <2>1, <2>2 DEF FirstAttempt, Untouched
<1> QED
  BY <1>2, <1>3, <1>4

LEMMA OtaKeepsInv == OtaInv /\ [OtaNext]_otaVars => OtaInv'
<1> SUFFICES ASSUME OtaInv, [OtaNext]_otaVars PROVE OtaInv'
  OBVIOUS
<1> USE DEF OtaInv, OtaType, Slots, NULL
<1>1. CASE InitOta
  BY <1>1 DEF InitOta, otaFlash, otaHandle, FirstAttempt, Untouched
<1>2. ASSUME NEW v \in Versions, NEW ok \in BOOLEAN, BeginUpdate(v, ok) PROVE OtaInv'
  BY <1>2 DEF BeginUpdate, otaFlash, FirstAttempt, Untouched
<1>3. ASSUME NEW same \in BOOLEAN, NEW ok \in BOOLEAN, WritePiece(same, ok) PROVE OtaInv'
  BY <1>3, WriteKeepsOta
<1>4. CASE FinishUpdate
  <2>1. /\ handle' = 0 \/ handle' = handle
        /\ UNCHANGED <<otaObject, slots, ran, begun, progress, image, sent, rolledBack, attempts>>
    BY <1>4 DEF FinishUpdate
  <2>2. CASE handle # 0 /\ handle' = 0 /\ progress = 2 /\ boot' = update_partition
    BY <2>1, <2>2 DEF otaObject, FirstAttempt, Untouched
  <2>3. CASE UNCHANGED <<boot, invalid>>
    BY <2>1, <2>3 DEF otaObject, FirstAttempt, Untouched
  <2> QED
    BY <1>4, <2>2, <2>3 DEF FinishUpdate
<1>5. ASSUME NEW works \in BOOLEAN, Restart(works) PROVE OtaInv'
  BY <1>5, RestartKeepsOta
<1>6. CASE UNCHANGED otaVars
  BY <1>6 DEF otaVars, otaObject, otaFlash, otaHandle, FirstAttempt, Untouched
<1> QED
  BY <1>1, <1>2, <1>3, <1>4, <1>5, <1>6 DEF OtaNext

(* For any set of versions and any number of updates and restarts: the     *)
(* update of the first begin() after a rollback does not make the version  *)
(* that was rolled back bootable, whichever writes fail; of later updates  *)
(* it says nothing (OTA::compare, write, finish).                          *)
THEOREM FirstUpdateRefused == WrappersSpec => []RolledBackRefused
<1>1. WrappersInit => OtaInv
  <2> SUFFICES ASSUME WrappersInit PROVE OtaInv
    OBVIOUS
  <2>1. OtaInit
    BY DEF WrappersInit
  <2>2. slots \in [Slots -> [version : Versions \cup {Erased}, whole : BOOLEAN]]
    BY <2>1 DEF OtaInit
  <2>3. image \in Versions
    BY <2>1, <2>2 DEF OtaInit, Slots
  <2> QED
    BY <2>1, <2>2, <2>3 DEF OtaInit, OtaInv, OtaType, Slots, NULL
<1>2. OtaInv /\ [WrappersNext]_wrapperVars => OtaInv'
  BY WrapperSteps, OtaKeepsInv
<1>3. OtaInv => RolledBackRefused
  BY DEF OtaInv, OtaType, FirstAttempt, RolledBackRefused, Boots
<1> QED
  BY <1>1, <1>2, <1>3, PTL DEF WrappersSpec

-----------------------------------------------------------------------------
(* Removing a timer.                                                       *)

TimerInv ==
  /\ removing => soft_handle = "valid" /\ (armed = "no" \/ rearmed)
  /\ soft_handle = "deleted" => armed = "no"

LEMMA TimersKeepInv == TimerInv /\ [TimersNext]_timerVars => TimerInv'
<1> SUFFICES ASSUME TimerInv, [TimersNext]_timerVars PROVE TimerInv'
  OBVIOUS
<1> USE DEF TimerInv
<1>1. CASE CreateTimer
  BY <1>1 DEF CreateTimer
<1>2. CASE StopSoft
  BY <1>2 DEF StopSoft
<1>3. CASE \E periodic \in BOOLEAN : StartSoft(periodic)
  BY <1>3 DEF StartSoft, Arm
<1>4. CASE Fire
  BY <1>4 DEF Fire
<1>5. CASE CallbackStarts
  BY <1>5 DEF CallbackStarts, Arm
<1>6. CASE CallbackReturns
  BY <1>6 DEF CallbackReturns
<1>7. CASE RemoveStops
  BY <1>7 DEF RemoveStops
<1>8. CASE RemoveDeletes
  BY <1>8 DEF RemoveDeletes
<1>9. CASE UNCHANGED timerVars
  BY <1>9 DEF timerVars
<1> QED
  BY <1>1, <1>2, <1>3, <1>4, <1>5, <1>6, <1>7, <1>8, <1>9 DEF TimersNext

(* However often its callback fires and starts it, a timer that remove()   *)
(* leaves undeleted was started by the callback between the two steps, and *)
(* a deleted one never fires again (Timer::remove).                        *)
THEOREM TimerRemoved == WrappersSpec => RemoveRemoves
<1>1. WrappersInit => TimerInv
  BY DEF WrappersInit, TimersInit, TimerInv
<1>2. TimerInv /\ [WrappersNext]_wrapperVars => TimerInv'
  BY WrapperSteps, TimersKeepInv
<1>3. TimerInv => (soft_handle = "deleted" => armed = "no")
  BY DEF TimerInv
<1>4. TimerInv /\ [WrappersNext]_wrapperVars
        => [removing /\ ~removing' => soft_handle' = "deleted" \/ rearmed]_timerVars
  <2> SUFFICES ASSUME TimerInv, [WrappersNext]_wrapperVars, removing, ~removing'
               PROVE  soft_handle' = "deleted" \/ rearmed
    OBVIOUS
  <2>1. CASE RemoveDeletes
    BY <2>1 DEF RemoveDeletes, TimerInv
  <2>2. CASE CreateTimer
    BY <2>2 DEF CreateTimer, TimerInv
  <2> QED
    BY <2>1, <2>2, WrapperSteps
       DEF TimersNext, StopSoft, StartSoft, Fire, CallbackStarts, CallbackReturns,
           RemoveStops, timerVars
<1> QED
  BY <1>1, <1>2, <1>3, <1>4, PTL DEF WrappersSpec, RemoveRemoves

-----------------------------------------------------------------------------
(* Dumping a namespace: a line for what has been there all along is        *)
(* printed, about to be, or its entry lies after the iterator; and the     *)
(* getter finds that very entry, as no key has two.                        *)

Ahead(e) == \E i \in Entries(nvsLog) : nvsLog[i] = e /\ i > itr

OnePerKey ==
  \A i, j \in Entries(nvsLog) : nvsLog[i].key = nvsLog[j].key => i = j

DumpInv ==
  /\ nvsLog \in Seq(NvsEntries \cup {Nothing}) /\ itr \in Nat
  /\ info \in Keys \cup {Nothing}
  /\ ~dumping => info = Nothing
  /\ kept \subseteq NvsEntries
  /\ OnePerKey
  /\ dumping => kept \subseteq Stored(nvsLog)
  /\ dumping /\ entered = 0 =>
       \A e \in kept : Line(e) \in printed \/ info = e.key \/ Ahead(e)

LEMMA EntryAfterIsNext ==
  ASSUME NEW place \in Nat
  PROVE  \/ /\ EntryAfter(place) = 0
            /\ \A i \in Entries(nvsLog) : ~(i > place)
         \/ /\ EntryAfter(place) \in Entries(nvsLog) /\ EntryAfter(place) > place
            /\ \A i \in Entries(nvsLog) : i > place => EntryAfter(place) <= i
<1> DEFINE after == { i \in Entries(nvsLog) : i > place }
<1>1. CASE after = {}
  BY <1>1 DEF EntryAfter
<1>2. CASE after # {}
  <2>1. after \in SUBSET Nat
    BY DEF Entries
  <2>2. EntryAfter(place) = LeastOf(after)
    BY <1>2 DEF EntryAfter, LeastOf
  <2>3. LeastOf(after) \in after /\ \A i \in after : LeastOf(after) <= i
    BY <1>2, <2>1, LeastOfIsIn
  <2> QED
    BY <2>2, <2>3
<1> QED
  BY <1>1, <1>2

LEMMA WithoutKeeps ==
  ASSUME DumpInv, NEW ks \in SUBSET Keys
  PROVE  /\ Without(ks) \in Seq(NvsEntries \cup {Nothing})
         /\ Len(Without(ks)) = Len(nvsLog)
         /\ \A i \in 1 .. Len(nvsLog) :
              Without(ks)[i] = IF i \in Entries(nvsLog) /\ nvsLog[i].key \in ks
                               THEN Nothing ELSE nvsLog[i]
BY DEF DumpInv, Without

LEMMA EntryIsPair ==
  ASSUME DumpInv, NEW i \in Entries(nvsLog)
  PROVE  /\ i \in 1 .. Len(nvsLog) /\ nvsLog[i] \in NvsEntries /\ nvsLog[i] # Nothing
         /\ nvsLog[i].key \in Keys
<1>1. i \in 1 .. Len(nvsLog) /\ nvsLog[i] # Nothing
  BY DEF Entries
<1>2. nvsLog[i] \in NvsEntries
  BY <1>1 DEF DumpInv
<1> QED
  BY <1>1, <1>2 DEF NvsEntries

\* a log that keeps the entries that count as untouched where they are
LEMMA LogChanges ==
  ASSUME DumpInv, nvsLog' \in Seq(NvsEntries \cup {Nothing}), kept' \subseteq kept,
         UNCHANGED <<opened, itr, dumping, info, printed, entered>>,
         OnePerKey',
         \A i \in Entries(nvsLog) : nvsLog[i] \in kept'
            => i \in Entries(nvsLog') /\ nvsLog'[i] = nvsLog[i]
  PROVE  DumpInv'
<1>1. ASSUME NEW e \in kept', Ahead(e) PROVE Ahead(e)'
  BY <1>1 DEF Ahead
<1>2. dumping => kept' \subseteq Stored(nvsLog')
  <2> SUFFICES ASSUME dumping, NEW e \in kept' PROVE e \in Stored(nvsLog')
    OBVIOUS
  <2>1. PICK i \in Entries(nvsLog) : nvsLog[i] = e
    BY DEF DumpInv, Stored
  <2> QED
    BY <2>1 DEF Stored
<1>3. \A e \in kept' : Line(e)' = Line(e)
  BY DEF Line
<1> QED
  BY <1>1, <1>2, <1>3 DEF DumpInv

LEMMA EraseKeepsDump ==
  ASSUME DumpInv, NEW ks \in SUBSET Keys,
         nvsLog' = Without(ks), kept' \subseteq KeptWithout(ks),
         UNCHANGED <<opened, itr, dumping, info, printed, entered>>
  PROVE  DumpInv'
<1>1. ASSUME NEW i \in Entries(nvsLog')
      PROVE  i \in Entries(nvsLog) /\ nvsLog'[i] = nvsLog[i]
  BY WithoutKeeps DEF Entries
<1>2. OnePerKey'
  BY <1>1 DEF OnePerKey, DumpInv
<1>3. ASSUME NEW i \in Entries(nvsLog), nvsLog[i] \in kept'
      PROVE  i \in Entries(nvsLog') /\ nvsLog'[i] = nvsLog[i]
  BY <1>3, WithoutKeeps DEF KeptWithout, Entries
<1> QED
  BY <1>2, <1>3, WithoutKeeps, LogChanges DEF KeptWithout

LEMMA SetKeepsDump ==
  ASSUME DumpInv, NEW k \in Keys, NEW fits \in BOOLEAN, setValue(k, fits)
  PROVE  DumpInv'
<1> DEFINE e == [key |-> k, fits |-> fits]
           without == Without({k})
<1>1. /\ nvsLog' = Append(without, e) /\ kept' = KeptWithout({k})
      /\ UNCHANGED <<opened, itr, dumping, info, printed, entered>>
  BY DEF setValue
<1>2. /\ without \in Seq(NvsEntries \cup {Nothing}) /\ Len(without) = Len(nvsLog)
      /\ \A i \in 1 .. Len(nvsLog) :
           without[i] = IF i \in Entries(nvsLog) /\ nvsLog[i].key \in {k}
                        THEN Nothing ELSE nvsLog[i]
  BY WithoutKeeps
<1>3. e \in NvsEntries /\ e.key = k
  BY DEF NvsEntries
<1> HIDE DEF e, without
<1>4. /\ nvsLog' \in Seq(NvsEntries \cup {Nothing})
      /\ Len(nvsLog') = Len(nvsLog) + 1 /\ nvsLog'[Len(nvsLog) + 1] = e
      /\ \A i \in 1 .. Len(nvsLog) : nvsLog'[i] = without[i]
  BY <1>1, <1>2, <1>3
<1>5. Len(nvsLog) \in Nat
  BY DEF DumpInv
<1>6. ASSUME NEW i \in Entries(nvsLog'), i # Len(nvsLog) + 1
      PROVE  i \in Entries(nvsLog) /\ nvsLog'[i] = nvsLog[i] /\ nvsLog'[i].key # k
  <2>1. i \in 1 .. Len(nvsLog) /\ nvsLog'[i] # Nothing
    BY <1>4, <1>5, <1>6 DEF Entries
  <2>2. nvsLog'[i] = without[i]
    BY <1>4, <2>1
  <2> QED
    BY <1>2, <2>1, <2>2 DEF Entries
<1>7. OnePerKey'
  <2> SUFFICES ASSUME NEW i \in Entries(nvsLog'), NEW j \in Entries(nvsLog'),
                      nvsLog'[i].key = nvsLog'[j].key
               PROVE  i = j
    BY DEF OnePerKey
  <2>1. CASE i # Len(nvsLog) + 1 /\ j # Len(nvsLog) + 1
    BY <1>6, <2>1 DEF DumpInv, OnePerKey
  <2>2. CASE i = Len(nvsLog) + 1 \/ j = Len(nvsLog) + 1
    BY <1>3, <1>4, <1>6, <2>2
  <2> QED
    BY <2>1, <2>2
<1>8. ASSUME NEW i \in Entries(nvsLog), nvsLog[i] \in kept'
      PROVE  i \in Entries(nvsLog') /\ nvsLog'[i] = nvsLog[i]
  <2>1. i \in 1 .. Len(nvsLog) /\ nvsLog[i] # Nothing /\ nvsLog[i].key # k
    BY <1>1, <1>8 DEF KeptWithout, Entries
  <2>2. nvsLog'[i] = nvsLog[i]
    BY <1>2, <1>4, <2>1
  <2>3. i \in 1 .. Len(nvsLog')
    BY <1>4, <1>5, <2>1
  <2> QED
    BY <2>1, <2>2, <2>3 DEF Entries
<1> QED
  BY <1>1, <1>4, <1>7, <1>8, LogChanges DEF KeptWithout

LEMMA NextKeepsDump == DumpInv /\ NextEntry => DumpInv'
<1> SUFFICES ASSUME DumpInv, NextEntry PROVE DumpInv'
  OBVIOUS
<1>1. /\ itr' = EntryAfter(itr) /\ dumping /\ info = Nothing
      /\ info' = IF itr' = 0 THEN Nothing ELSE nvsLog[itr'].key
      /\ dumping' = (itr' # 0)
      /\ UNCHANGED <<nvsLog, opened, printed, kept, entered>>
  BY DEF NextEntry, valueInfo
<1>2. itr \in Nat /\ kept \subseteq Stored(nvsLog) /\ Nothing \notin Keys
  BY <1>1, NvsAssumption DEF DumpInv
<1>3. itr' = 0 \/ itr' \in Entries(nvsLog)
  BY <1>1, <1>2, EntryAfterIsNext
<1>4. itr' \in Nat
  BY <1>3 DEF Entries
<1>5. info' \in Keys \cup {Nothing} /\ (~dumping' => info' = Nothing)
  BY <1>1, <1>3, EntryIsPair
<1>6. ASSUME itr' # 0, NEW e \in kept, Ahead(e) PROVE info' = e.key \/ Ahead(e)'
  <2>1. PICK i \in Entries(nvsLog) : nvsLog[i] = e /\ i > itr
    BY <1>6 DEF Ahead
  <2>2. itr' <= i /\ i \in Nat
    BY <1>1, <1>2, <1>6, <2>1, EntryAfterIsNext DEF Entries
  <2>3. CASE itr' = i
    BY <1>1, <1>6, <2>1, <2>3
  <2>4. CASE itr' # i
    BY <1>1, <1>4, <2>1, <2>2, <2>4 DEF Ahead
  <2> QED
    BY <2>3, <2>4
<1>7. ASSUME dumping', entered = 0, NEW e \in kept
      PROVE  Line(e) \in printed \/ info' = e.key \/ Ahead(e)'
  <2>1. info # e.key
    BY <1>1, <1>2 DEF DumpInv, NvsEntries
  <2>2. Line(e) \in printed \/ Ahead(e)
    BY <1>1, <1>7, <2>1 DEF DumpInv
  <2> QED
    BY <1>1, <1>6, <1>7, <2>2
<1>8. \A e : Line(e)' = Line(e)
  BY <1>1 DEF Line
<1>9. OnePerKey'
  BY <1>1 DEF OnePerKey, DumpInv
<1> QED
  BY <1>1, <1>2, <1>4, <1>5, <1>7, <1>8, <1>9 DEF DumpInv

LEMMA PrintKeepsDump == DumpInv /\ PrintEntry => DumpInv'
<1> SUFFICES ASSUME DumpInv, PrintEntry PROVE DumpInv'
  OBVIOUS
<1>1. /\ info # Nothing /\ info' = Nothing
      /\ printed' = printed \cup {<<info, PrintedAs(info)>>}
      /\ UNCHANGED <<nvsLog, opened, itr, dumping, kept, entered>>
  BY DEF PrintEntry
<1>2. dumping
  BY <1>1 DEF DumpInv
<1>3. ASSUME NEW e \in kept, info = e.key PROVE Line(e) = <<info, PrintedAs(info)>>
  <2>1. PICK i \in Entries(nvsLog) : nvsLog[i] = e
    BY <1>2 DEF DumpInv, Stored
  <2>2. e \in NvsEntries /\ e = [key |-> e.key, fits |-> e.fits]
    BY DEF DumpInv, NvsEntries
  <2>3. CASE e.fits
    <3>1. [key |-> info, fits |-> TRUE] \in Stored(nvsLog)
      BY <1>3, <2>1, <2>2, <2>3 DEF Stored, NvsEntries
    <3> QED
      BY <1>3, <2>3, <3>1 DEF Line, PrintedAs
  <2>4. CASE ~e.fits
    <3>1. [key |-> info, fits |-> TRUE] \notin Stored(nvsLog)
      <4> SUFFICES ASSUME NEW j \in Entries(nvsLog), nvsLog[j] = [key |-> info, fits |-> TRUE]
                   PROVE  FALSE
        BY DEF Stored
      <4>1. i = j
        BY <1>3, <2>1 DEF DumpInv, OnePerKey
      <4> QED
        BY <2>1, <2>4, <4>1
    <3> QED
      BY <1>3, <2>4, <3>1 DEF Line, PrintedAs
  <2> QED
    BY <2>3, <2>4
<1>4. \A e : Line(e)' = Line(e) /\ Ahead(e)' = Ahead(e)
  BY <1>1 DEF Line, Ahead
<1>5. OnePerKey'
  BY <1>1 DEF OnePerKey, DumpInv
<1> QED
  BY <1>1, <1>3, <1>4, <1>5 DEF DumpInv

LEMMA NvsKeepsDump == DumpInv /\ [NvsNext]_nvsVars => DumpInv'
<1> SUFFICES ASSUME DumpInv, [NvsNext]_nvsVars PROVE DumpInv'
  OBVIOUS
<1>0. itr \in Nat /\ MaxLog \in Nat
  BY NvsAssumption DEF DumpInv
<1>1. CASE \E noFreePages \in BOOLEAN : InitPartition(noFreePages)
  BY <1>1 DEF InitPartition, DumpInv, OnePerKey, Entries
<1>2. CASE OpenNamespace \/ CloseNamespace
  BY <1>2 DEF OpenNamespace, CloseNamespace, DumpInv, OnePerKey
<1>3. CASE eraseAll
  BY <1>3, EraseKeepsDump DEF eraseAll
<1>4. ASSUME NEW k \in Keys, NEW fits \in BOOLEAN, setValue(k, fits) PROVE DumpInv'
  BY <1>4, SetKeepsDump
<1>5. ASSUME NEW k \in Keys, eraseValue(k) PROVE DumpInv'
  BY <1>5, EraseKeepsDump DEF eraseValue
<1>6. CASE find \/ next \/ release
  <2>1. itr' \in Nat
    BY <1>0, <1>6, EntryAfterIsNext DEF find, next, release, Released, Entries
  <2> QED
    BY <1>6, <2>1 DEF find, next, release, DumpInv, OnePerKey
<1>7. CASE Dump
  <2>1. /\ kept' = Stored(nvsLog) /\ entered' = itr
        /\ UNCHANGED <<nvsLog, opened, itr, info>>
    BY <1>7 DEF Dump
  <2>2. Stored(nvsLog) \subseteq NvsEntries
    BY EntryIsPair DEF Stored
  <2>3. ASSUME itr = 0, NEW e \in Stored(nvsLog) PROVE Ahead(e)'
    BY <2>1, <2>3 DEF Stored, Ahead, Entries
  <2>4. OnePerKey'
    BY <2>1 DEF OnePerKey, DumpInv
  <2> QED
    BY <1>7, <2>1, <2>2, <2>3, <2>4 DEF Dump, DumpInv
<1>8. CASE NextEntry \/ PrintEntry
  BY <1>8, NextKeepsDump, PrintKeepsDump
<1>9. CASE UNCHANGED nvsVars
  BY <1>9 DEF nvsVars, DumpInv, Ahead, Line, OnePerKey
<1> QED
  BY <1>1, <1>2, <1>3, <1>4, <1>5, <1>6, <1>7, <1>8, <1>9 DEF NvsNext

(* For any set of keys, any log and any writes meanwhile: a dump that      *)
(* began with no iterator under way prints a line for every entry that was *)
(* there all along, with its value if the handle is open and the value     *)
(* fits into the buffer, and empty otherwise (NVS::dump, the getters).     *)
THEOREM DumpPrintsAll == WrappersSpec => DumpComplete
<1>1. WrappersInit => DumpInv
  BY DEF WrappersInit, NvsInit, DumpInv, OnePerKey, Entries
<1>2. DumpInv /\ [WrappersNext]_wrapperVars => DumpInv'
  BY WrapperSteps, NvsKeepsDump
<1>3. DumpInv /\ [WrappersNext]_wrapperVars
        => [dumping /\ ~dumping' /\ entered = 0
              => \A e \in kept' : Line(e) \in printed']_nvsVars
  <2> SUFFICES ASSUME DumpInv, [WrappersNext]_wrapperVars,
                      dumping, ~dumping', entered = 0, NEW e \in kept'
               PROVE  Line(e) \in printed'
    OBVIOUS
  <2>1. NextEntry
    BY WrapperSteps
       DEF NvsNext, InitPartition, OpenNamespace, CloseNamespace, eraseAll, setValue,
           eraseValue, find, next, release, Dump, PrintEntry, nvsVars
  <2>2. itr' = EntryAfter(itr) /\ itr' = 0 /\ info = Nothing /\ UNCHANGED <<printed, kept>>
    BY <2>1 DEF NextEntry, valueInfo
  <2>3. \A i \in Entries(nvsLog) : ~(i > itr)
    <3>1. itr \in Nat
      BY DEF DumpInv
    <3>2. 0 \notin Entries(nvsLog)
      BY DEF Entries
    <3> QED
      BY <2>2, <3>1, <3>2, EntryAfterIsNext
  <2>4. info # e.key
    BY <2>2, NvsAssumption DEF DumpInv, NvsEntries
  <2> QED
    BY <2>2, <2>3, <2>4 DEF DumpInv, Ahead
<1> QED
  BY <1>1, <1>2, <1>3, PTL DEF WrappersSpec, DumpComplete

-----------------------------------------------------------------------------
(* Command links.                                                          *)

I2cInv ==
  /\ links \subseteq 1 .. Room
  /\ cmd \in [I2cCallers -> 0 .. Room]
  /\ i2cPc \in [I2cCallers -> {"idle", "create", "build", "delete"}]
  /\ \A t \in I2cCallers : cmd[t] # 0 => i2cPc[t] \in {"build", "delete"} /\ cmd[t] \in links
  /\ LinksAccounted

Held == { cmd[t] : t \in I2cCallers }

\* a call that has no link any more
LEMMA LinkLetGo ==
  ASSUME I2cInv, NEW t \in I2cCallers, cmd[t] # 0, cmd' = [cmd EXCEPT ![t] = 0]
  PROVE  \A l \in links : l \in Held' <=> l \in Held /\ l # cmd[t]
<1> USE DEF I2cInv, LinksAccounted
<1> TAKE l \in links
<1>0. l # 0
  OBVIOUS
<1>1. ASSUME l \in Held' PROVE l \in Held /\ l # cmd[t]
  <2>1. PICK u \in I2cCallers : cmd'[u] = l
    BY <1>1 DEF Held
  <2>2. u # t /\ cmd[u] = l
    BY <1>0, <2>1
  <2> QED
    BY <1>0, <2>2 DEF Held
<1>2. ASSUME l \in Held, l # cmd[t] PROVE l \in Held'
  <2>1. PICK u \in I2cCallers : cmd[u] = l
    BY <1>2 DEF Held
  <2>2. cmd'[u] = l
    BY <1>2, <2>1
  <2> QED
    BY <2>2 DEF Held
<1> QED
  BY <1>1, <1>2

LEMMA I2cKeepsInv == I2cInv /\ [I2cNext]_i2cVars => I2cInv'
<1> SUFFICES ASSUME I2cInv, [I2cNext]_i2cVars PROVE I2cInv'
  OBVIOUS
<1> USE DEF I2cInv, LinksAccounted
<1>0. links \ Held = givenUp
  BY DEF Held
<1>1. ASSUME NEW t \in I2cCallers, CallI2c(t) \/ CreateFails(t) \/ RunLink(t) PROVE I2cInv'
  <2>1. /\ UNCHANGED <<links, cmd, givenUp>>
        /\ \/ i2cPc[t] = "build" /\ i2cPc' = [i2cPc EXCEPT ![t] = "delete"]
           \/ /\ i2cPc[t] \in {"idle", "create"}
              /\ \E at \in {"idle", "create"} : i2cPc' = [i2cPc EXCEPT ![t] = at]
    BY <1>1 DEF CallI2c, CreateFails, RunLink
  <2>2. i2cPc' \in [I2cCallers -> {"idle", "create", "build", "delete"}]
    BY <2>1
  <2>3. /\ \A u \in I2cCallers : cmd'[u] # 0 => i2cPc'[u] \in {"build", "delete"}
        /\ \A u \in I2cCallers : i2cPc'[u] \in {"build", "delete"} => cmd'[u] \in links'
    BY <2>1
  <2>4. links' \ Held' = givenUp'
    BY <1>0, <2>1 DEF Held
  <2> QED
    BY <2>1, <2>2, <2>3, <2>4 DEF Held
<1>2. ASSUME NEW t \in I2cCallers, CreateLink(t) PROVE I2cInv'
  <2>1. PICK link \in (1 .. Room) \ links :
           links' = links \cup {link} /\ cmd' = [cmd EXCEPT ![t] = link]
    BY <1>2 DEF CreateLink
  <2>2. cmd[t] = 0 /\ i2cPc' = [i2cPc EXCEPT ![t] = "build"] /\ givenUp' = givenUp
    BY <1>2 DEF CreateLink
  <2>3. Held' \ {0} = (Held \ {0}) \cup {link}
    BY <2>1, <2>2 DEF Held
  <2>4. links' \ Held' = givenUp'
    BY <1>0, <2>1, <2>2, <2>3
  <2>5. \A u, v \in I2cCallers : u # v /\ cmd'[u] # 0 => cmd'[u] # cmd'[v]
    BY <2>1, <2>2
  <2> QED
    BY <2>1, <2>2, <2>4, <2>5 DEF Held
<1>3. ASSUME NEW t \in I2cCallers, ReturnEarly(t) PROVE I2cInv'
  <2>1. /\ i2cPc[t] = "build" /\ cmd[t] \in links
        /\ givenUp' = givenUp \cup {cmd[t]} /\ links' = links
        /\ cmd' = [cmd EXCEPT ![t] = 0] /\ i2cPc' = [i2cPc EXCEPT ![t] = "idle"]
    BY <1>3 DEF ReturnEarly
  <2>2. cmd[t] # 0
    BY <2>1
  <2>3. \A l \in links : l \in Held' <=> l \in Held /\ l # cmd[t]
    BY <2>1, <2>2, LinkLetGo
  <2>4. links' \ Held' = givenUp'
    BY <1>0, <2>1, <2>3
  <2>5. \A u \in I2cCallers : cmd'[u] = IF u = t THEN 0 ELSE cmd[u]
    BY <2>1
  <2>6. /\ \A u \in I2cCallers : cmd'[u] # 0 => i2cPc'[u] \in {"build", "delete"}
        /\ \A u \in I2cCallers : i2cPc'[u] \in {"build", "delete"} => cmd'[u] \in links'
    BY <2>1
  <2>7. /\ links' \subseteq 1 .. Room /\ cmd' \in [I2cCallers -> 0 .. Room]
        /\ i2cPc' \in [I2cCallers -> {"idle", "create", "build", "delete"}]
    BY <2>1, I2cAssumption
  <2>8. \A u, v \in I2cCallers : u # v /\ cmd'[u] # 0 => cmd'[u] # cmd'[v]
    BY <2>5
  <2>9. \A u \in I2cCallers : cmd'[u] # 0 => cmd'[u] \in links'
    BY <2>1, <2>5
  <2> QED
    BY <2>4, <2>6, <2>7, <2>8, <2>9 DEF Held
<1>4. ASSUME NEW t \in I2cCallers, DeleteLink(t) PROVE I2cInv'
  <2>1. /\ i2cPc[t] = "delete" /\ cmd[t] \in links
        /\ givenUp' = givenUp /\ links' = links \ {cmd[t]}
        /\ cmd' = [cmd EXCEPT ![t] = 0]
        /\ \E at \in {"idle", "create"} : i2cPc' = [i2cPc EXCEPT ![t] = at]
    BY <1>4 DEF DeleteLink, GoOn
  <2>2. cmd[t] \notin givenUp
    BY <1>0 DEF Held
  <2>3. cmd[t] # 0
    BY <2>1
  <2>4. \A l \in links : l \in Held' <=> l \in Held /\ l # cmd[t]
    BY <2>1, <2>3, LinkLetGo
  <2>5. links' \ Held' = givenUp'
    BY <1>0, <2>1, <2>2, <2>4
  <2>6. \A u \in I2cCallers : cmd'[u] = IF u = t THEN 0 ELSE cmd[u]
    BY <2>1
  <2>7. \A u \in I2cCallers : cmd'[u] # 0 => cmd'[u] \in links'
    BY <2>1, <2>6
  <2>8. /\ \A u \in I2cCallers : cmd'[u] # 0 => i2cPc'[u] \in {"build", "delete"}
        /\ \A u \in I2cCallers : i2cPc'[u] \in {"build", "delete"} => cmd'[u] \in links'
    BY <2>1, <2>6, <2>7
  <2>9. /\ links' \subseteq 1 .. Room /\ cmd' \in [I2cCallers -> 0 .. Room]
        /\ i2cPc' \in [I2cCallers -> {"idle", "create", "build", "delete"}]
    <3>1. /\ links' \subseteq 1 .. Room
          /\ cmd' \in [I2cCallers -> 0 .. Room]
      <4>1. links' \subseteq 1 .. Room
        BY <2>1
      <4>2. cmd' \in [I2cCallers -> 0 .. Room]
        BY <2>1, I2cAssumption
      <4> QED
        BY <4>1, <4>2
    <3>2. PICK at \in {"idle", "create"} : i2cPc' = [i2cPc EXCEPT ![t] = at]
      BY <2>1
    <3>3. i2cPc' \in [I2cCallers -> {"idle", "create", "build", "delete"}]
      BY <3>2
    <3> QED
      BY <3>1, <3>3
  <2>10. \A u, v \in I2cCallers : u # v /\ cmd'[u] # 0 => cmd'[u] # cmd'[v]
    BY <2>6
  <2> QED
    BY <2>5, <2>7, <2>8, <2>9, <2>10 DEF Held
<1>5. CASE UNCHANGED i2cVars
  BY <1>5 DEF i2cVars
<1> QED
  BY <1>1, <1>2, <1>3, <1>4, <1>5 DEF I2cNext

(* For any number of tasks and of links: no call builds or deletes a link  *)
(* of another or one already deleted, and only a call that returned early  *)
(* leaves one behind (i2c::write, i2c::read, i2c::scan).                   *)
THEOREM LinksConserved == WrappersSpec => []LinksAccounted
<1>1. WrappersInit => I2cInv
  BY I2cAssumption DEF WrappersInit, I2cInit, I2cInv, LinksAccounted
<1>2. I2cInv /\ [WrappersNext]_wrapperVars => I2cInv'
  BY WrapperSteps, I2cKeepsInv
<1>3. I2cInv => LinksAccounted
  BY DEF I2cInv
<1> QED
  BY <1>1, <1>2, <1>3, PTL DEF WrappersSpec

-----------------------------------------------------------------------------
(* The UART's queue of announced bytes.  The sum AnnouncedIsThere takes is *)
(* carried along by the steps as one of its running sums, and a sequence   *)
(* has no two of those.                                                    *)

\* h is what the read under way and the first events of q ask for together.
RunningSums(h, first, q) ==
  /\ h \in [0 .. Len(q) -> Int]
  /\ h[0] = first
  /\ \A i \in 1 .. Len(q) : h[i] = h[i - 1] + q[i]

UartInv ==
  /\ ring \in Nat /\ stash \in Nat /\ wants \in Nat /\ uart_queue \in Seq(Nat)
  /\ uartPc \in {"wait", "read", "flush"}
  /\ uartPc # "read" => wants = 0
  /\ \E h \in [0 .. Len(uart_queue) -> Int] :
       /\ RunningSums(h, wants, uart_queue)
       /\ uartPc # "flush" => h[Len(uart_queue)] <= ring

\* Two functions that differ differ at a first place, and there is none.
LEMMA SumsAgree ==
  ASSUME NEW q \in Seq(Nat), NEW first \in Nat, NEW g, NEW h,
         g[0] = first, \A i \in 1 .. Len(q) : g[i] = g[i - 1] + q[i],
         RunningSums(h, first, q)
  PROVE  g[Len(q)] = h[Len(q)]
<1> DEFINE Apart == { i \in 0 .. Len(q) : g[i] # h[i] }
<1>1. SUFFICES ASSUME Apart # {} PROVE FALSE
  BY Len(q) \in 0 .. Len(q)
<1>2. PICK d \in Apart : \A e \in Apart : d <= e
  <2>1. Apart \in SUBSET Nat
    OBVIOUS
  <2> HIDE DEF Apart
  <2> QED
    BY <1>1, <2>1, LeastOfIsIn
<1>3. d \in 1 .. Len(q)
  BY DEF RunningSums
<1>4. d - 1 \in 0 .. Len(q) /\ ~(d <= d - 1)
  BY <1>3
<1>5. g[d - 1] = h[d - 1]
  BY <1>2, <1>4
<1> QED
  BY <1>2, <1>3, <1>5 DEF RunningSums

\* An event posted adds what it announces to the last sum.
LEMMA PostAddsToSum ==
  ASSUME NEW q \in Seq(Nat), NEW e \in Nat, NEW first \in Nat, NEW h,
         RunningSums(h, first, q)
  PROVE  \E k \in [0 .. Len(q) + 1 -> Int] :
           RunningSums(k, first, Append(q, e)) /\ k[Len(q) + 1] = h[Len(q)] + e
<1>1. PICK n \in Nat : n = Len(q)
  OBVIOUS
<1>2. PICK k : k = [i \in 0 .. n + 1 |-> IF i <= n THEN h[i] ELSE h[n] + e]
  OBVIOUS
<1>3. h \in [0 .. n -> Int] /\ h[0] = first /\ \A i \in 1 .. n : h[i] = h[i - 1] + q[i]
  BY <1>1 DEF RunningSums
<1>4. k \in [0 .. n + 1 -> Int] /\ k[0] = first /\ k[n + 1] = h[n] + e
  BY <1>2, <1>3
<1>5. /\ Len(Append(q, e)) = n + 1 /\ Append(q, e)[n + 1] = e
      /\ \A i \in 1 .. n : Append(q, e)[i] = q[i]
  BY <1>1
<1>6. \A i \in 1 .. n + 1 : k[i] = k[i - 1] + Append(q, e)[i]
  <2>1. ASSUME NEW i \in 1 .. n PROVE k[i] = k[i - 1] + Append(q, e)[i]
    BY <1>2, <1>3, <1>5
  <2>2. ASSUME NEW i \in 1 .. n + 1, i = n + 1
        PROVE  k[i] = k[i - 1] + Append(q, e)[i]
    BY <1>2, <1>3, <1>5, <2>2
  <2>3. \A i \in 1 .. n + 1 : i \in 1 .. n \/ i = n + 1
    OBVIOUS
  <2> QED
    BY <2>1, <2>2, <2>3
<1> QED
  BY <1>1, <1>4, <1>5, <1>6 DEF RunningSums

\* Taking the first event makes it the read under way.
LEMMA TakeKeepsSum ==
  ASSUME NEW q \in Seq(Nat), q # <<>>, NEW h, RunningSums(h, 0, q)
  PROVE  \E k \in [0 .. Len(Tail(q)) -> Int] :
           RunningSums(k, Head(q), Tail(q)) /\ k[Len(Tail(q))] = h[Len(q)]
<1>1. PICK n \in Nat : n + 1 = Len(q)
  BY Len(q) # 0, Len(q) - 1 \in Nat
<1>2. PICK k : k = [i \in 0 .. n |-> h[i + 1]]
  OBVIOUS
<1>3. h \in [0 .. n + 1 -> Int] /\ h[0] = 0 /\ \A i \in 1 .. n + 1 : h[i] = h[i - 1] + q[i]
  BY <1>1 DEF RunningSums
<1>4. Len(Tail(q)) = n /\ Head(q) = q[1] /\ q[1] \in Nat
      /\ \A i \in 1 .. n : Tail(q)[i] = q[i + 1]
  BY <1>1
<1>5. k \in [0 .. n -> Int] /\ k[0] = Head(q) /\ k[n] = h[n + 1]
  BY <1>2, <1>3, <1>4
<1>6. ASSUME NEW i \in 1 .. n PROVE k[i] = k[i - 1] + Tail(q)[i]
  <2>1. i + 1 \in 1 .. n + 1 /\ i \in 0 .. n /\ i - 1 \in 0 .. n /\ (i + 1) - 1 = i
        /\ (i - 1) + 1 = i
    OBVIOUS
  <2>2. h[i + 1] = h[i] + q[i + 1]
    BY <1>3, <2>1
  <2> QED
    BY <1>2, <1>4, <2>1, <2>2
<1> QED
  BY <1>1, <1>4, <1>5, <1>6 DEF RunningSums

\* Reading what was wanted lowers every sum by it.
LEMMA ReadLowersSum ==
  ASSUME NEW q \in Seq(Nat), NEW first \in Nat, NEW h, RunningSums(h, first, q)
  PROVE  \E k \in [0 .. Len(q) -> Int] :
           RunningSums(k, 0, q) /\ k[Len(q)] = h[Len(q)] - first
<1>1. PICK k : k = [i \in 0 .. Len(q) |-> h[i] - first]
  OBVIOUS
<1>2. k \in [0 .. Len(q) -> Int] /\ k[0] = 0 /\ k[Len(q)] = h[Len(q)] - first
  BY <1>1 DEF RunningSums
<1>3. ASSUME NEW i \in 1 .. Len(q) PROVE k[i] = k[i - 1] + q[i]
  <2>1. i \in 0 .. Len(q) /\ i - 1 \in 0 .. Len(q) /\ q[i] \in Nat
    OBVIOUS
  <2>2. h[i] \in Int /\ h[i - 1] \in Int /\ h[i] = h[i - 1] + q[i]
    BY <2>1 DEF RunningSums
  <2>3. k[i] = h[i] - first /\ k[i - 1] = h[i - 1] - first
    BY <1>1, <2>1
  <2> QED
    BY <2>1, <2>2, <2>3
<1> QED
  BY <1>2, <1>3 DEF RunningSums

LEMMA UartKeepsInv == UartInv /\ [UartNext]_uartVars => UartInv'
<1> SUFFICES ASSUME UartInv, [UartNext]_uartVars PROVE UartInv'
  OBVIOUS
<1>1. /\ ring \in Nat /\ stash \in Nat /\ wants \in Nat /\ uart_queue \in Seq(Nat)
      /\ uartPc \in {"wait", "read", "flush"} /\ (uartPc # "read" => wants = 0)
  BY DEF UartInv
<1>2. PICK h : /\ RunningSums(h, wants, uart_queue)
               /\ uartPc # "flush" => h[Len(uart_queue)] <= ring
  BY DEF UartInv
<1>3. h[Len(uart_queue)] \in Int
  BY <1>1, <1>2 DEF RunningSums
<1>4. ASSUME NEW ok \in BOOLEAN, InitUart(ok) PROVE UartInv'
  BY <1>4 DEF InitUart, UartInv
<1>5. ASSUME NEW n \in 1 .. MaxChunk, Receive(n) PROVE UartInv'
  <2>1. PICK e \in {0, n} :
          /\ Post(e)
          /\ ring' \in Nat /\ stash' \in Nat /\ ring' >= ring + e
          /\ UNCHANGED <<uartPc, wants>>
    BY <1>1, <1>5, UartAssumption DEF Receive
  <2>2. CASE uart_queue' = uart_queue
    <3>1. RunningSums(h, wants', uart_queue')
      BY <1>2, <2>1, <2>2 DEF RunningSums
    <3>2. e >= 0 /\ e \in Int
      BY <2>1, UartAssumption
    <3>3. uartPc' # "flush" => h[Len(uart_queue')] <= ring'
      BY <1>1, <1>2, <1>3, <2>1, <2>2, <3>2
    <3> QED
      BY <1>1, <2>1, <2>2, <3>1, <3>3 DEF UartInv, RunningSums
  <2>3. CASE uart_queue' = Append(uart_queue, e)
    <3>1. e \in Nat
      BY <2>1, UartAssumption
    <3>2. PICK k \in [0 .. Len(uart_queue) + 1 -> Int] :
            /\ RunningSums(k, wants, Append(uart_queue, e))
            /\ k[Len(uart_queue) + 1] = h[Len(uart_queue)] + e
      BY <1>1, <1>2, <3>1, PostAddsToSum
    <3>3. Len(uart_queue') = Len(uart_queue) + 1 /\ uart_queue' \in Seq(Nat)
      BY <1>1, <2>3, <3>1
    <3>4. uartPc' # "flush" => k[Len(uart_queue')] <= ring'
      BY <1>1, <1>2, <1>3, <2>1, <3>1, <3>2, <3>3
    <3> QED
      BY <1>1, <2>1, <2>3, <3>2, <3>3, <3>4 DEF UartInv
  <2> QED
    BY <2>1, <2>2, <2>3 DEF Post
<1>6. CASE waitRX
  <2>1. /\ uart_queue # <<>> /\ uart_queue' = Tail(uart_queue) /\ wants' = Head(uart_queue)
        /\ uartPc = "wait" /\ uartPc' = "read" /\ UNCHANGED <<ring, stash>>
    BY <1>6 DEF waitRX
  <2>2. PICK k \in [0 .. Len(uart_queue') -> Int] :
          /\ RunningSums(k, wants', uart_queue')
          /\ k[Len(uart_queue')] = h[Len(uart_queue)]
    BY <1>1, <1>2, <2>1, TakeKeepsSum
  <2>3. wants' \in Nat /\ uart_queue' \in Seq(Nat)
    BY <1>1, <2>1
  <2> QED
    BY <1>1, <1>2, <2>1, <2>2, <2>3 DEF UartInv
<1>7. CASE ReadBytes
  <2>1. /\ wants <= ring /\ ring' \in Nat /\ stash' \in Nat /\ ring' >= ring - wants
        /\ wants' = 0 /\ uart_queue' = uart_queue
        /\ uartPc = "read" /\ uartPc' \in {"wait", "read"}
    BY <1>1, <1>7 DEF ReadBytes
  <2>2. PICK k \in [0 .. Len(uart_queue) -> Int] :
          /\ RunningSums(k, 0, uart_queue)
          /\ k[Len(uart_queue)] = h[Len(uart_queue)] - wants
    BY <1>1, <1>2, ReadLowersSum
  <2>3. k[Len(uart_queue)] <= ring'
    BY <1>1, <1>2, <1>3, <2>1, <2>2
  <2> QED
    BY <1>1, <2>1, <2>2, <2>3 DEF UartInv
<1>8. CASE flush /\ uartPc = "read"
  <2>1. /\ ring' = 0 /\ stash' = 0 /\ uartPc' = "flush" /\ wants = 0
        /\ UNCHANGED <<uart_queue, wants>>
    BY <1>8 DEF flush
  <2> QED
    BY <1>1, <1>2, <2>1 DEF UartInv, RunningSums
<1>9. CASE flush /\ uartPc = "flush"
  <2>1. /\ uart_queue' = <<>> /\ uartPc' = "wait" /\ wants = 0
        /\ UNCHANGED <<ring, stash, wants>>
    BY <1>1, <1>9 DEF flush
  <2>2. PICK k : k = [i \in 0 .. 0 |-> 0]
    OBVIOUS
  <2>3. k \in [0 .. Len(uart_queue') -> Int] /\ RunningSums(k, wants', uart_queue')
        /\ k[Len(uart_queue')] = 0
    BY <2>1, <2>2 DEF RunningSums
  <2> QED
    BY <1>1, <2>1, <2>3 DEF UartInv
<1>10. CASE UNCHANGED uartVars
  BY <1>1, <1>2, <1>10 DEF UartInv, uartVars, RunningSums
<1> QED
  BY <1>4, <1>5, <1>6, <1>7, <1>8, <1>9, <1>10 DEF UartNext, flush

(* For any ring, queue and chunk: outside flush() the buffer holds what    *)
(* the queued events and the read under way announce, whatever events were *)
(* dropped and however often the buffer was full (UART::flush, UART::read).*)
THEOREM AnnouncedBytesStay == WrappersSpec => []AnnouncedIsThere
<1>1. WrappersInit => UartInv
  <2> SUFFICES ASSUME WrappersInit PROVE UartInv
    OBVIOUS
  <2>1. uart_queue = <<>> /\ wants = 0 /\ ring = 0 /\ stash = 0 /\ uartPc = "wait"
    BY DEF WrappersInit, UartInit
  <2>2. PICK k : k = [i \in 0 .. 0 |-> 0]
    OBVIOUS
  <2>3. k \in [0 .. Len(uart_queue) -> Int] /\ RunningSums(k, wants, uart_queue)
        /\ k[Len(uart_queue)] = 0
    BY <2>1, <2>2 DEF RunningSums
  <2> QED
    BY <2>1, <2>3 DEF UartInv
<1>2. UartInv /\ [WrappersNext]_wrapperVars => UartInv'
  BY WrapperSteps, UartKeepsInv
<1>3. UartInv => AnnouncedIsThere
  <2> SUFFICES ASSUME UartInv, uartPc # "flush" PROVE AnnouncedIsThere
    BY DEF AnnouncedIsThere
  <2> DEFINE announced[i \in 0 .. Len(uart_queue)] ==
               IF i = 0 THEN wants ELSE announced[i - 1] + uart_queue[i]
  <2>1. wants \in Nat /\ uart_queue \in Seq(Nat) /\ Len(uart_queue) \in Nat
    BY DEF UartInv
  <2>2. PICK h : RunningSums(h, wants, uart_queue) /\ h[Len(uart_queue)] <= ring
    BY DEF UartInv
  <2>3. h = [i \in 0 .. Len(uart_queue) |->
               IF i = 0 THEN wants ELSE h[i - 1] + uart_queue[i]]
    BY <2>1, <2>2 DEF RunningSums
  <2>4. announced = [i \in 0 .. Len(uart_queue) |->
                       IF i = 0 THEN wants ELSE announced[i - 1] + uart_queue[i]]
    BY <2>3
  <2>5. /\ announced[0] = wants
        /\ \A i \in 1 .. Len(uart_queue) :
             announced[i] = announced[i - 1] + uart_queue[i]
    <3> HIDE DEF announced
    <3>1. ASSUME NEW i \in 1 .. Len(uart_queue)
          PROVE  announced[i] = announced[i - 1] + uart_queue[i]
      <4>1. i \in 0 .. Len(uart_queue) /\ i # 0
        BY <2>1
      <4> QED
        BY <2>4, <4>1
    <3>2. announced[0] = wants
      <4>1. 0 \in 0 .. Len(uart_queue)
        BY <2>1
      <4> QED
        BY <2>4, <4>1
    <3> QED
      BY <3>1, <3>2
  <2>6. announced[Len(uart_queue)] = h[Len(uart_queue)]
    <3> HIDE DEF announced
    <3> QED
      BY <2>1, <2>2, <2>5, SumsAgree
  <2> QED
    BY <2>2, <2>6 DEF AnnouncedIsThere
<1> QED
  BY <1>1, <1>2, <1>3, PTL DEF WrappersSpec
=============================================================================
