------------------------------ MODULE Ds18b20 ------------------------------
(***************************************************************************)
(* A DS18B20 object: four arrays with room for max_num_devices sensors, of *)
(* which search() fills num_devices.  calloc may fail, and does for no     *)
(* elements; the arrays it does not reach keep their old address.  A       *)
(* DS18B20_Info may fail too: its element is NULL then, which the calls of *)
(* the DS18B20 library refuse.  The object is static, as in the test, so   *)
(* its members start as zero, and sensors come and go on the bus.          *)
(*                                                                         *)
(* A definition whose name ends in _<lowercase words> is a faulty variant  *)
(* of the one after it, kept to show that the properties notice.           *)
(***************************************************************************)
EXTENDS Naturals

CONSTANTS
  Width,     (* values of a uint8_t                                          *)
  Counts,    (* what addSensors and removeSensors are called with            *)
  MaxBus     (* bound: sensors on the bus                                    *)

ASSUME SensorsAssumption == Width \in Nat \ {0} /\ Counts \subseteq 0 .. Width - 1 /\ MaxBus \in Nat

VARIABLES
  num_devices, max_num_devices,
  room,      (* the elements of each array, or Null or Dangling              *)
  infos,     (* the elements of devices[] whose DS18B20_Info exists          *)
  onBus,
  owb,       (* none, up or gone                                             *)
  failed,    (* an allocation has failed since the last one that succeeded   *)
  freedTwice (* the heap is corrupt: nothing is promised any more            *)

sensorVars == <<num_devices, max_num_devices, room, infos, onBus, owb, failed,
                freedTwice>>

\* device_rom_codes, devices, readings, errors
Arrays   == 1 .. 4
Null     == Width
Dangling == Width + 1

\* allocate(), of which the f-th calloc fails: the arrays after it keep what
\* they had
Allocated(from, n, f) ==
  [a \in Arrays |-> IF a < f THEN n ELSE IF a = f THEN Null ELSE from[a]]

Failures(n) == IF n = 0 THEN {1} ELSE Arrays \cup {5}  \* 5: none fails

SensorsInit ==
  /\ num_devices = 0 /\ max_num_devices \in Counts
  /\ \E f \in Failures(max_num_devices) :
       /\ room = Allocated([a \in Arrays |-> Null], max_num_devices, f)
       /\ failed = (f \in Arrays)
  /\ infos = {} /\ onBus = 0
  /\ owb = "none" /\ freedTwice = FALSE

\* the elements that read(), getTemp() and the loops that free go through
Visited == IF owb = "up" THEN 0 .. num_devices - 1 ELSE {}

\* frees the sensors it goes through; the new ones are made while they last
FreeAndMake ==
  \E made \in SUBSET (0 .. num_devices' - 1) : infos' = (infos \ Visited) \cup made

Deallocated == [a \in Arrays |-> IF room[a] = Null THEN Null ELSE Dangling]

search_countKept(f) ==
  /\ freedTwice' = (\E a \in Arrays : room[a] = Dangling)
  /\ room' = Allocated(Deallocated, max_num_devices', f)
  /\ failed' = (f \in Arrays)
  /\ num_devices' = IF failed' THEN num_devices
                    ELSE IF onBus < max_num_devices' THEN onBus ELSE max_num_devices'
  /\ IF failed' THEN infos' = infos \ Visited ELSE FreeAndMake

\* frees the sensors and the arrays, allocates, and finds what fits
search(f) ==
  /\ freedTwice' = (\E a \in Arrays : room[a] = Dangling)
  /\ room' = Allocated(Deallocated, max_num_devices', f)
  /\ failed' = (f \in Arrays)
  /\ num_devices' = IF failed' THEN 0
                    ELSE IF onBus < max_num_devices' THEN onBus ELSE max_num_devices'
  /\ FreeAndMake

SearchIt == \E f \in Failures(max_num_devices') : search(f)

InitBus ==
  /\ owb = "none" /\ owb' = "up"
  /\ max_num_devices' = max_num_devices
  /\ SearchIt
  /\ UNCHANGED onBus

Searches == /\ owb = "up" /\ ~freedTwice
            /\ UNCHANGED <<onBus, owb>>

Search == Searches /\ max_num_devices' = max_num_devices /\ SearchIt

addSensors(num) ==
  /\ Searches
  /\ max_num_devices' = (max_num_devices + num) % Width
  /\ SearchIt

removeSensors(num) ==
  /\ Searches
  /\ max_num_devices' = (max_num_devices + Width - num) % Width
  /\ SearchIt

Destroy ==
  /\ owb = "up" /\ ~freedTwice
  /\ owb' = "gone" /\ infos' = infos \ Visited
  /\ freedTwice' = (\E a \in Arrays : room[a] = Dangling)
  /\ room' = Deallocated
  /\ UNCHANGED <<num_devices, max_num_devices, onBus, failed>>

BusChanges ==
  /\ onBus' \in (0 .. MaxBus) \ {onBus}
  /\ UNCHANGED <<num_devices, max_num_devices, room, infos, owb, failed, freedTwice>>

SensorsNext ==
  \/ InitBus \/ Search \/ Destroy \/ BusChanges
  \/ \E num \in Counts : addSensors(num) \/ removeSensors(num)

-----------------------------------------------------------------------------
(* Properties.                                                             *)

(* Whatever is added, removed or unplugged and whichever allocation fails, *)
(* each element that read() and getTemp() go through lies inside all four  *)
(* arrays, and every DS18B20_Info that exists lies where the next search() *)
(* or the destructor goes through to free it; only after an allocation     *)
(* that failed is an array not the one last asked for (DS18B20::search,    *)
(* allocate).                                                              *)
SensorsHaveRoom ==
  /\ ~freedTwice =>
       /\ \A i \in Visited, a \in Arrays : room[a] \in i + 1 .. Width - 1
       /\ infos \subseteq Visited
  /\ ~failed /\ owb = "up" => \A a \in Arrays : room[a] = max_num_devices
=============================================================================
