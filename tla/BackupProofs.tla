----------------------------- MODULE BackupProofs -----------------------------
(***************************************************************************)
(* What Backup keeps, for any messages, threads, bounds and any set of      *)
(* devices that take a backup: the inductive invariant of the queue, the    *)
(* tombstones, and the contract of Messaging.                               *)
(***************************************************************************)
EXTENDS Backup, DeliveryProofs

USE DeviceAssumption, MsgAssumption, ConvAssumption, OriginAssumption, ExportingAssumption

(* An export holds rows of the tables, and a thread that it has as deleted  *)
(* or hidden is one of its threads.                                         *)
BackupsMakeSense ==
    /\ backup \in [Device -> [messages : SUBSET Msg, known : SUBSET Thread,
                              deleted : SUBSET Thread, hidden : SUBSET Thread]]
    /\ \A d \in Device : backup[d].deleted \cup backup[d].hidden \subseteq backup[d].known

BackupInv == IndInv /\ BackupsMakeSense

-----------------------------------------------------------------------------
(* An import changes the rows of one device, and no channel or task.        *)
LEMMA ImportTypes ==
    ASSUME TypeOK, BackupsMakeSense, NEW d \in Device, Import(d)
    PROVE  TypeOK'
<1> DEFINE b == backup[d]
<1>1. /\ b.messages \subseteq Msg /\ b.known \subseteq Thread
      /\ b.deleted \subseteq Thread /\ b.hidden \subseteq Thread
  BY DEF BackupsMakeSense
<1>2. Restorable(d) \subseteq Msg /\ RestoredTombstones(d) \subseteq Thread
  BY <1>1 DEF Restorable, RestoredTombstones, TypeOK
<1>3. /\ messages' \in [Device -> SUBSET Msg] /\ unacked' \in [Device -> SUBSET Msg]
      /\ acked' \in [Device -> SUBSET Msg] /\ known' \in [Device -> SUBSET Thread]
      /\ deleted' \in [Device -> SUBSET Thread] /\ hidden' \in [Device -> SUBSET Thread]
      /\ syncPending' \in [Device -> SUBSET Thread]
  BY <1>1, <1>2 DEF Import, MarksKept, TypeOK
<1>4. \A e \in Device : unacked'[e] \cup acked'[e] \subseteq messages'[e]
  BY DEF Import, MarksKept, TypeOK
<1>5. QED
  BY <1>3, <1>4 DEF Import, TypeOK, tasks

(* It removes no row of threads and no tombstone, and adds no delivery mark. *)
LEMMA ImportGrows ==
    ASSUME TypeOK, BackupsMakeSense, NEW d \in Device, Import(d)
    PROVE  /\ \A e \in Device : /\ known[e] \subseteq known'[e]
                                /\ deleted[e] \subseteq deleted'[e]
                                /\ unacked'[e] \subseteq unacked[e]
                                /\ acked'[e] \subseteq acked[e]
           /\ \A e \in Device \ {d} : UNCHANGED <<known[e], deleted[e], syncPending[e]>>
           /\ UNCHANGED <<receipts, issued, wire, flush, composing, handling>>
  BY DEF Import, RestoredTombstones, MarksKept, TypeOK, tasks

LEMMA ImportStep ==
    ASSUME BackupInv, NEW d \in Device, Import(d)
    PROVE  BackupInv'
<1> USE DEF BackupInv, IndInv
<1>1. TypeOK' /\ BackupsMakeSense'
  BY ImportTypes DEF Import, BackupsMakeSense
<1>2. /\ \A e \in Device : /\ known[e] \subseteq known'[e]
                           /\ deleted[e] \subseteq deleted'[e]
                           /\ unacked'[e] \subseteq unacked[e]
                           /\ acked'[e] \subseteq acked[e]
      /\ \A e \in Device \ {d} : UNCHANGED <<known[e], deleted[e], syncPending[e]>>
      /\ UNCHANGED <<receipts, issued, wire, flush, composing, handling>>
  BY ImportGrows
<1>3. RowsMakeSense'
  <2>1. \A e \in Device : deleted'[e] \cup hidden'[e] \cup syncPending'[e] \subseteq known'[e]
    BY DEF Import, RestoredTombstones, BackupsMakeSense, RowsMakeSense, TypeOK
  <2>2. QED
    BY <1>2, <2>1 DEF RowsMakeSense
<1>4. FramesTrue'
  BY <1>2, PeerFacts DEF FramesTrue, FrameTrue, UnderWay
<1>5. FlushTrue'
  BY <1>2 DEF FlushTrue
<1>6. DeliveredMeansSaved'
  <2>1. \A m \in Msg : Sender[m] \in Device /\ Receiver(m) \in Device
    BY PeerFacts DEF Receiver
  <2>2. QED
    BY <1>2, <2>1 DEF DeliveredMeansSaved
<1>7. SettledThreadsAgree'
  <2>1. ASSUME NEW e \in Device, NEW t \in known'[e] \ syncPending'[e]
        PROVE  /\ t \in known[e] \ syncPending[e]
               /\ t \in deleted'[e] => t \in deleted[e]
    BY <1>2, <2>1 DEF Import, RestoredTombstones, BackupsMakeSense, TypeOK
  <2>2. QED
    BY <1>2, <2>1, PeerFacts DEF SettledThreadsAgree
<1>8. QED
  BY <1>1, <1>3, <1>4, <1>5, <1>6, <1>7

(* The invariant of the queue survives exports and imports.                 *)
LEMMA BackupInvariant == BackupSpec => []BackupInv
<1>1. BackupInit => BackupInv
  <2>1. Init => IndInv
    BY InvariantInit
  <2>2. BackupInit => BackupsMakeSense
    BY DEF BackupInit, BackupsMakeSense, NoBackup
  <2>3. QED
    BY <2>1, <2>2 DEF BackupInit, BackupInv
<1>2. BackupInv /\ [BackupNext]_bvars => BackupInv'
  <2> SUFFICES ASSUME BackupInv, [BackupNext]_bvars PROVE BackupInv'
    OBVIOUS
  <2>1. ASSUME [Next]_vars, UNCHANGED backup PROVE BackupInv'
    BY <2>1, InvariantStep DEF BackupInv, BackupsMakeSense
  <2>2. ASSUME NEW d \in Device, Export(d) PROVE BackupInv'
    <3>1. IndInv'
      BY <2>2, InvariantStep DEF Export, BackupInv
    <3>2. BackupsMakeSense'
      BY <2>2 DEF Export, BackupInv, BackupsMakeSense, IndInv, TypeOK, RowsMakeSense
    <3>3. QED
      BY <3>1, <3>2 DEF BackupInv
  <2>3. QED
    BY <2>1, <2>2, ImportStep DEF BackupNext, QueueStep, bvars
<1>3. QED
  BY <1>1, <1>2, PTL DEF BackupSpec

(* What the queue shows as delivered is true on a device that imports, too. *)
THEOREM RestoreKeepsDelivered == BackupSpec => []DeliveredMeansSaved
  BY BackupInvariant, PTL DEF BackupInv, IndInv

(* The devices agree on the threads that neither announces, imports or not. *)
THEOREM RestoreKeepsThreads == BackupSpec => []SettledThreadsAgree
  BY BackupInvariant, PTL DEF BackupInv, IndInv

-----------------------------------------------------------------------------
(* Importing lifts no tombstone and restores nothing into a deleted thread. *)
THEOREM RestoreIsSafe == BackupSpec => RestoreKeepsDeletions
<1> DEFINE Step == \A d \in Device : Import(d) =>
              /\ deleted[d] \subseteq deleted'[d]
              /\ \A m \in messages'[d] \ messages[d] : Conv[m] \notin deleted'[d]
<1>1. ASSUME BackupInv PROVE Step
  <2> SUFFICES ASSUME NEW d \in Device, Import(d)
               PROVE  /\ deleted[d] \subseteq deleted'[d]
                      /\ \A m \in messages'[d] \ messages[d] : Conv[m] \notin deleted'[d]
    OBVIOUS
  <2>1. /\ deleted'[d] = RestoredTombstones(d)
        /\ messages'[d] = (messages[d] \ RowsLost(d)) \cup Restorable(d)
    BY <1>1 DEF Import, BackupInv, IndInv, TypeOK
  <2>2. QED
    BY <2>1 DEF RestoredTombstones, Restorable
<1>2. QED
  BY <1>1, BackupInvariant, PTL DEF RestoreKeepsDeletions

(* The contract of Messaging survives exports and imports: an import only   *)
(* closes conversations and takes delivery marks away.                      *)
THEOREM BackupRefinement == BackupSpec => BackupKeepsContract
<1>1. BackupInit => Contract!Init
  BY ContractInit DEF BackupInit
<1>2. ASSUME BackupInv, NEW d \in Device, Import(d) PROVE Contract!Next
  <2>1. \A m \in Msg : Sender[m] \in Device /\ Receiver(m) \in Device
    BY PeerFacts DEF Receiver
  <2>2. /\ \A e \in Device : deleted[e] \subseteq deleted'[e] /\ acked'[e] \subseteq acked[e]
        /\ UNCHANGED <<receipts, issued>>
    BY <1>2, ImportGrows DEF BackupInv, IndInv
  <2>3. Closed \subseteq Closed' /\ Closed' \in SUBSET Msg /\ Delivered' \subseteq Delivered
    BY <2>1, <2>2 DEF Closed, Delivered
  <2>4. PICK S \in SUBSET Msg : S = Closed'
    BY <2>3
  <2>5. PICK F \in SUBSET Msg : F = Delivered \ Delivered'
    BY DEF Delivered
  <2>6. Contract!Delete(S, F)
    BY <2>2, <2>3, <2>4, <2>5 DEF Contract!Delete, Closed, Delivered
  <2>7. QED
    BY <2>6 DEF Contract!Next
<1>3. BackupInv /\ [BackupNext]_bvars => [Contract!Next]_(Contract!vars)
  <2> SUFFICES ASSUME BackupInv, [BackupNext]_bvars PROVE [Contract!Next]_(Contract!vars)
    OBVIOUS
  <2>1. ASSUME [Next]_vars PROVE [Contract!Next]_(Contract!vars)
    BY <2>1, ContractStep DEF BackupInv
  <2>2. QED
    BY <1>2, <2>1 DEF BackupNext, QueueStep, Export, bvars
<1>4. QED
  BY <1>1, <1>3, BackupInvariant, PTL DEF BackupSpec, BackupKeepsContract, KeepsContract,
     Contract!Spec

=============================================================================
