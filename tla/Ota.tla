-------------------------------- MODULE Ota --------------------------------
(***************************************************************************)
(* The OTA object of ota-comp on a chip with two OTA slots and rollback,   *)
(* driven as in tests/ota: init, begin, then write for every piece of the  *)
(* image, whatever the writes before it returned, then finish.  An image   *)
(* is its version and comes in two pieces, of which only the head carries  *)
(* the version and only the head may come first.  A restart makes a new    *)
(* object; the boot loader rolls a new image back that does not work.      *)
(*                                                                         *)
(* A definition whose name ends in _<lowercase words> is a faulty variant  *)
(* of the one after it, kept to show that the properties notice.           *)
(***************************************************************************)
EXTENDS Naturals

CONSTANTS Versions, Erased, MaxUpdates  (* bound: calls of begin() *)

ASSUME OtaAssumption == Erased \notin Versions /\ MaxUpdates \in Nat

VARIABLES
  \* the object
  update_partition, (* a slot, or NULL                                       *)
  update_handle,    (* 0 at first                                            *)
  image_header_was_checked,
  \* the flash and otadata
  slots,            (* the version whose head each slot holds, and whether   *)
                    (* the rest is there                                     *)
  boot, ran,        (* the slot to boot and the slot that runs               *)
  invalid,          (* slots marked invalid                                  *)
  \* esp_ota
  handle,           (* the open handle, or 0; the handles begun so far       *)
  begun,
  progress,         (* pieces written through the open handle                *)
  \* the application and history
  image,            (* the version being downloaded                          *)
  sent,             (* pieces passed to write()                              *)
  rolledBack,       (* the version rolled back last, or Erased               *)
  attempts          (* calls of begin() since then                           *)

otaObject == <<update_partition, update_handle, image_header_was_checked>>
otaFlash  == <<slots, boot, ran, invalid>>
otaHandle == <<handle, progress>>
otaVars   == <<otaObject, otaFlash, otaHandle, begun, image, sent, rolledBack, attempts>>

Slots == {0, 1}
NULL  == 2

FreshObject ==
  /\ update_partition' = NULL /\ update_handle' = 0
  /\ image_header_was_checked' = FALSE

OtaInit ==
  /\ update_partition = NULL /\ update_handle = 0 /\ image_header_was_checked = FALSE
  /\ slots \in { s \in [Slots -> [version : Versions \cup {Erased}, whole : BOOLEAN]] :
                   /\ s[0].version # Erased /\ s[0].whole
                   /\ s[1] = [version |-> Erased, whole |-> FALSE] }
  /\ boot = 0 /\ ran = 0 /\ invalid = {}
  /\ handle = 0 /\ begun = 0 /\ progress = 0
  /\ image = slots[0].version /\ sent = 2 /\ rolledBack = Erased /\ attempts = 0

InitOta ==
  /\ update_partition' = 1 - ran
  /\ UNCHANGED <<update_handle, image_header_was_checked, otaFlash, otaHandle, begun,
                 image, sent, rolledBack, attempts>>

\* a failure aborts the handle of the update before; a success loses it
BeginUpdate(v, ok) ==
  /\ update_partition # NULL /\ begun < MaxUpdates
  /\ begun' = begun + 1 /\ attempts' = attempts + 1
  /\ image' = v /\ sent' = 0 /\ progress' = 0
  /\ IF ok
       THEN update_handle' = begun' /\ handle' = begun'
       ELSE /\ handle' = IF handle = update_handle THEN 0 ELSE handle
            /\ UNCHANGED update_handle
  /\ UNCHANGED <<update_partition, image_header_was_checked, otaFlash, rolledBack>>

\* The version of the last invalid partition against that in the piece; a
\* partition without a head leaves it uninitialised.
compare_neverRefuses(same) == same \in BOOLEAN

compare(same) ==
  \/ image_header_was_checked
  \/ sent # 0
  \/ \A s \in invalid : slots[s].version # image /\ (slots[s].version = Erased => ~same)

\* esp_ota_write: refuses a closed handle and, once the first sector is
\* erased, an image that does not begin with a head
WritePiece(same, ok) ==
  /\ begun > 0 /\ sent < 2
  /\ sent' = sent + 1
  /\ IF ~compare(same) THEN UNCHANGED <<image_header_was_checked, slots, otaHandle>>
     ELSE /\ image_header_was_checked' = TRUE
          /\ IF handle = 0 \/ handle # update_handle
               THEN UNCHANGED <<slots, otaHandle>>
             ELSE IF ok /\ progress = sent
               THEN /\ slots' = [slots EXCEPT ![update_partition] =
                                   [version |-> image, whole |-> sent = 1]]
                    /\ progress' = progress + 1
                    /\ UNCHANGED handle
             ELSE /\ slots' = [slots EXCEPT ![update_partition] =
                                 [version |-> IF progress = 0 THEN Erased ELSE @.version,
                                  whole |-> FALSE]]
                  /\ handle' = 0  \* esp_ota_abort
                  /\ UNCHANGED progress
  /\ UNCHANGED <<update_partition, update_handle, boot, ran, invalid, begun, image,
                 rolledBack, attempts>>

\* esp_ota_end frees the handle and accepts a whole image only
FinishUpdate ==
  /\ begun > 0
  /\ handle' = IF handle = update_handle THEN 0 ELSE handle
  /\ IF handle # 0 /\ handle = update_handle /\ progress = 2
       THEN boot' = update_partition /\ invalid' = invalid \ {update_partition}
       ELSE UNCHANGED <<boot, invalid>>
  /\ UNCHANGED <<otaObject, slots, ran, begun, progress, image, sent, rolledBack, attempts>>

\* esp_restart, or a reset; a new image that does not work is marked
Restart(works) ==
  /\ FreshObject
  /\ handle' = 0 /\ sent' = 2 /\ progress' = 0
  /\ IF boot = ran THEN UNCHANGED <<boot, ran, invalid, rolledBack, attempts>>
     ELSE IF works /\ slots[boot].whole
       THEN ran' = boot /\ UNCHANGED <<boot, invalid, rolledBack, attempts>>
     ELSE /\ boot' = ran /\ invalid' = {boot}
          /\ rolledBack' = slots[boot].version
          /\ attempts' = 0
          /\ UNCHANGED ran
  /\ UNCHANGED <<slots, begun, image>>

OtaNext ==
  \/ InitOta
  \/ \E v \in Versions, ok \in BOOLEAN : BeginUpdate(v, ok)
  \/ \E same, ok \in BOOLEAN : WritePiece(same, ok)
  \/ FinishUpdate
  \/ \E works \in BOOLEAN : Restart(works)

-----------------------------------------------------------------------------
(* Properties.                                                             *)

Boots(v) == boot # ran /\ slots[boot] = [version |-> v, whole |-> TRUE]

(* The update that the first begin() after a rollback starts, on whatever  *)
(* object, never boots the version that was rolled back, whichever writes  *)
(* fail and whether or not the application looks at their results.  Later  *)
(* ones may: one on the same object is not compared, and one on a fresh    *)
(* object finds nothing to compare with once an aborted update has erased  *)
(* the slot (OTA::compare, OTA::write, OTA::finish).                       *)
RolledBackRefused == attempts <= 1 /\ rolledBack # Erased => ~Boots(rolledBack)

(* No update does: what the messages of OTA::compare say ("New version is  *)
(* the same as invalid version").                                          *)
RolledBackNeverBoots == rolledBack # Erased => ~Boots(rolledBack)
=============================================================================
