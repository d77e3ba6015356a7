------------------------------ MODULE MCUsbMsc -----------------------------
(* Small instances of UsbMsc.                                              *)
EXTENDS UsbMsc, TLC

CONSTANTS t1, t2, c0, c1

OneTask      == [t \in Tasks |-> MaxLun]
SameVolume   == [t \in Tasks |-> 0]
TwoVolumes   == (t1 :> 0) @@ (t2 :> 1)
TwoCapacities == [l \in Luns |-> IF l = 0 THEN c0 ELSE c1]
============================================================================
