------------------------------ MODULE MCBackup ------------------------------
(* The instance of MCDelivery with a thread, and backups.                   *)
EXTENDS Backup

CONSTANTS a, b, t

MCDevice == {a, b}
MCThread == {t}
MCOwner  == [x \in MCThread |-> a]

ReplyMsg    == {1}
ReplySender == [m \in ReplyMsg |-> b]
ReplyConv   == [m \in ReplyMsg |-> t]

=============================================================================
