-------------------------------- MODULE Backup --------------------------------
(***************************************************************************)
(* Export and import of a device's records (store.rs), running beside the   *)
(* offline queue of Delivery.                                               *)
(*                                                                          *)
(* A backup holds the message rows and the thread rows, tombstones          *)
(* included; it holds neither delivery marks nor receipts.                  *)
(***************************************************************************)
EXTENDS Delivery

CONSTANTS
    Exporting   \* bound: the devices that take a backup, once each

ASSUME ExportingAssumption == Exporting \subseteq Device

VARIABLE backup   \* the export of each device

bvars == <<vars, backup>>

NoBackup == [messages |-> {}, known |-> {}, deleted |-> {}, hidden |-> {}]

BackupInit == Init /\ backup = [d \in Device |-> NoBackup]

Export(d) ==
    /\ d \in Exporting
    /\ Unblocked(d)
    /\ backup[d] = NoBackup
    /\ known[d] # {}
    /\ backup' = [backup EXCEPT ![d] =
           [messages |-> messages[d], known |-> known[d],
            deleted |-> deleted[d], hidden |-> hidden[d]]]
    /\ UNCHANGED vars

(* The tombstones once every thread of the backup has been applied, and the *)
(* rows of the threads that this deletes or hides.                          *)
RestoredTombstones(d) == deleted[d] \cup backup[d].deleted

RowsLost(d) == {m \in Msg : Conv[m] \in backup[d].deleted \cup backup[d].hidden}

(* Mutant: the messages are restored whatever became of their thread.       *)
RestorableAll(d) == backup[d].messages

(* The rows of a conversation are restored unless its thread is deleted.    *)
Restorable(d) == {m \in backup[d].messages : Conv[m] \notin RestoredTombstones(d)}

(* Mutant: a restored message of this device counts as delivered.           *)
MarksOfBackup(d) == (acked[d] \ RowsLost(d)) \cup {m \in Restorable(d) : Sender[m] = d}

(* The delivery marks that outlive the import; a restored row gets none.    *)
MarksKept(d) == acked[d] \ RowsLost(d)

(* Each thread of the backup is applied as a local change, which announces  *)
(* it to the peer again; a hidden one is hidden.  Then the messages that    *)
(* are not there yet are inserted, without delivery marks.                  *)
Import(d) ==
    /\ Unblocked(d)
    /\ backup[d] # NoBackup
    /\ known' = [known EXCEPT ![d] = @ \cup backup[d].known]
    /\ deleted' = [deleted EXCEPT ![d] = RestoredTombstones(d)]
    /\ hidden' = [hidden EXCEPT ![d] = @ \cup backup[d].hidden]
    /\ syncPending' = [syncPending EXCEPT ![d] = @ \cup backup[d].known]
    /\ messages' = [messages EXCEPT ![d] = (@ \ RowsLost(d)) \cup Restorable(d)]
    /\ unacked' = [unacked EXCEPT ![d] = @ \ RowsLost(d)]
    /\ acked' = [acked EXCEPT ![d] = MarksKept(d)]
    /\ UNCHANGED <<receipts, trusted, session, wire, tasks, issued, faults, backup>>

QueueStep == Next /\ UNCHANGED backup

BackupNext == QueueStep \/ \E d \in Device : Export(d) \/ Import(d)

BackupSpec == BackupInit /\ [][BackupNext]_bvars

-----------------------------------------------------------------------------
(* A backup taken before a deletion does not undo it: importing it lifts no *)
(* tombstone and inserts no message into a thread that is deleted, whether  *)
(* the deletion was made here, came from the peer or is in the backup       *)
(* itself (store.rs import).                                                *)
RestoreKeepsDeletions ==
    [][\A d \in Device : Import(d) =>
          /\ deleted[d] \subseteq deleted'[d]
          /\ \A m \in messages'[d] \ messages[d] : Conv[m] \notin deleted'[d]]_bvars

(* The contract of Messaging survives exports and imports: what was saved   *)
(* or closed stays so, and a restored message is neither sent again nor     *)
(* shown as delivered (store.rs import inserts no delivery rows).           *)
BackupKeepsContract == KeepsContract

=============================================================================
