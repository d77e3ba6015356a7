-------------------------------- MODULE Nvs --------------------------------
(***************************************************************************)
(* An NVS object: a namespace opened through my_handle, and the iterator   *)
(* itr with which dump() and the application walk its entries.  The flash  *)
(* is the log NVS keeps: setting a value erases its entry and writes a new *)
(* one at the end.  Other handles set and erase values at any time, also   *)
(* between two entries of a dump and between the iterator's answer and the *)
(* getter.  The getters of dump() fail on a closed handle, for a key that  *)
(* is gone and for a string or blob longer than its 128 bytes; the error   *)
(* is logged, and the empty buffer or a 0 printed.                         *)
(*                                                                         *)
(* A definition whose name ends in _<lowercase words> is a faulty variant  *)
(* of the one after it, kept to show that the properties notice.           *)
(***************************************************************************)
EXTENDS Naturals, Sequences

CONSTANTS
  Keys,      (* a key and its type                                           *)
  Texts,     (* those of strings and blobs                                   *)
  Nothing,   (* an erased place in the log                                   *)
  MaxLog     (* bound: entries written                                       *)

\* an entry, and whether its value fits into the buffer of dump()
NvsEntries == [key : Keys, fits : BOOLEAN]

ASSUME NvsAssumption ==
  Texts \subseteq Keys /\ Nothing \notin Keys \cup NvsEntries /\ MaxLog \in Nat

VARIABLES
  nvsLog,
  opened,    (* my_handle is open                                            *)
  itr,       (* NULL (0), the place of an entry, or Released                 *)
  dumping,
  info,      (* the key whose getter dump() is about to call, or Nothing     *)
  printed,   (* keys this dump has printed, each with its value or empty     *)
  kept,      (* entries there when it began that have not been touched since *)
  entered    (* the iterator at that moment                                  *)

nvsVars == <<nvsLog, opened, itr, dumping, info, printed, kept, entered>>

Released == MaxLog + 1

Entries(log) == { i \in 1 .. Len(log) : log[i] # Nothing }
Stored(log)  == { log[i] : i \in Entries(log) }

\* nvs_entry_find and nvs_entry_next: the first entry after a place, or NULL
EntryAfter(place) ==
  LET after == { i \in Entries(nvsLog) : i > place } IN
    IF after = {} THEN 0 ELSE CHOOSE i \in after : \A j \in after : i <= j

NvsInit ==
  /\ nvsLog = <<>> /\ opened = FALSE /\ itr = 0
  /\ dumping = FALSE /\ info = Nothing /\ printed = {} /\ kept = {} /\ entered = 0

\* nvs_flash_init_partition erases everything when it finds no free page
InitPartition(noFreePages) ==
  /\ ~dumping
  /\ nvsLog' = IF noFreePages THEN <<>> ELSE nvsLog
  /\ itr' = 0
  /\ opened' = (opened /\ ~noFreePages)
  /\ UNCHANGED <<dumping, info, printed, kept, entered>>

OpenNamespace ==
  /\ ~dumping /\ opened' = TRUE
  /\ UNCHANGED <<nvsLog, itr, dumping, info, printed, kept, entered>>

CloseNamespace ==
  /\ ~dumping /\ opened' = FALSE
  /\ UNCHANGED <<nvsLog, itr, dumping, info, printed, kept, entered>>

Without(ks) ==
  [i \in 1 .. Len(nvsLog) |->
     IF i \in Entries(nvsLog) /\ nvsLog[i].key \in ks THEN Nothing ELSE nvsLog[i]]

KeptWithout(ks) == { e \in kept : e.key \notin ks }

\* by this object between dumps, by another handle at any time
setValue(k, fits) ==
  /\ Len(nvsLog) < MaxLog
  /\ fits \/ k \in Texts
  /\ nvsLog' = Append(Without({k}), [key |-> k, fits |-> fits])
  /\ kept' = KeptWithout({k})
  /\ UNCHANGED <<opened, itr, dumping, info, printed, entered>>

eraseValue(k) ==
  /\ nvsLog' = Without({k}) /\ kept' = KeptWithout({k})
  /\ UNCHANGED <<opened, itr, dumping, info, printed, entered>>

eraseAll ==
  /\ nvsLog' = Without(Keys) /\ kept' = {}
  /\ UNCHANGED <<opened, itr, dumping, info, printed, entered>>

\* a new iterator each time, also over one that is not at its end; with no
\* iterator next() does the same
find ==
  /\ ~dumping
  /\ itr' = EntryAfter(0)
  /\ UNCHANGED <<nvsLog, opened, dumping, info, printed, kept, entered>>

\* advances the iterator itr points to without storing the result: at the
\* end the iterator has been released
next ==
  /\ ~dumping /\ itr \notin {0, Released}
  /\ itr' = IF EntryAfter(itr) = 0 THEN Released ELSE EntryAfter(itr)
  /\ UNCHANGED <<nvsLog, opened, dumping, info, printed, kept, entered>>

release ==
  /\ ~dumping /\ itr # Released
  /\ itr' = IF itr = 0 THEN 0 ELSE Released
  /\ UNCHANGED <<nvsLog, opened, dumping, info, printed, kept, entered>>

Dump ==
  /\ ~dumping /\ itr # Released
  /\ dumping' = TRUE
  /\ printed' = {} /\ kept' = Stored(nvsLog) /\ entered' = itr
  /\ UNCHANGED <<nvsLog, opened, itr, info>>

valueInfo_skipsFirst ==
  itr' = IF itr = 0 THEN EntryAfter(EntryAfter(0)) ELSE EntryAfter(itr)

valueInfo == itr' = EntryAfter(itr)

NextEntry ==
  /\ dumping /\ info = Nothing
  /\ valueInfo
  /\ info' = IF itr' = 0 THEN Nothing ELSE nvsLog[itr'].key
  /\ dumping' = (itr' # 0)
  /\ UNCHANGED <<nvsLog, opened, printed, kept, entered>>

\* what the getter for the type of the entry leaves in the buffer
PrintedAs(k) ==
  IF opened /\ [key |-> k, fits |-> TRUE] \in Stored(nvsLog) THEN "value" ELSE "empty"

PrintEntry ==
  /\ info # Nothing
  /\ printed' = printed \cup {<<info, PrintedAs(info)>>}
  /\ info' = Nothing
  /\ UNCHANGED <<nvsLog, opened, itr, dumping, kept, entered>>

NvsNext ==
  \/ \E noFreePages \in BOOLEAN : InitPartition(noFreePages)
  \/ OpenNamespace \/ CloseNamespace \/ eraseAll
  \/ \E k \in Keys : eraseValue(k) \/ \E fits \in BOOLEAN : setValue(k, fits)
  \/ find \/ next \/ release \/ Dump \/ NextEntry \/ PrintEntry

Line(e) == <<e.key, IF opened /\ e.fits THEN "value" ELSE "empty">>

(* A dump that began with no iterator under way prints a line for every    *)
(* entry that is there all along, whatever is set and erased meanwhile: its *)
(* value if the handle is open and the value fits into the buffer, and     *)
(* empty otherwise (NVS::dump, valueInfo, next, the getters).              *)
DumpComplete ==
  [][dumping /\ ~dumping' /\ entered = 0 => \A e \in kept' : Line(e) \in printed']_nvsVars
=============================================================================
