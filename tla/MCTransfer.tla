------------------------------ MODULE MCTransfer ------------------------------
(* A file of a few blocks, offered once or twice; who may cancel which      *)
(* attempt.                                                                 *)
EXTENDS Transfer

NoCancel       == [e \in {"sender", "receiver"} |-> {}]
ReceiverCancel == [NoCancel EXCEPT !["receiver"] = TransferId]
SenderCancel   == [NoCancel EXCEPT !["sender"] = {1}]
=============================================================================
