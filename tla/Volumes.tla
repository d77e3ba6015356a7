------------------------------ MODULE Volumes ------------------------------
(***************************************************************************)
(* What mounting promises the application: each mounted path shows one     *)
(* logical unit, and the drives of other drivers are none of its business. *)
(***************************************************************************)
CONSTANTS Paths, Units, Drives

VARIABLES volume,   (* the unit behind each mounted path                     *)
          others    (* drives that other drivers have registered             *)

Init == volume = <<>> /\ others = {}

Mount(p, u) ==
  /\ p \notin DOMAIN volume
  /\ volume' = [q \in DOMAIN volume \cup {p} |-> IF q = p THEN u ELSE volume[q]]
  /\ UNCHANGED others

Unmount(p) ==
  /\ p \in DOMAIN volume
  /\ volume' = [q \in DOMAIN volume \ {p} |-> volume[q]]
  /\ UNCHANGED others

Elsewhere ==
  /\ others' \in SUBSET Drives
  /\ UNCHANGED volume

Next == Elsewhere \/ \E p \in Paths : Unmount(p) \/ \E u \in Units : Mount(p, u)

Spec == Init /\ [][Next]_<<volume, others>>
=============================================================================
