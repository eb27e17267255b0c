----------------------------- MODULE MCDelivery -----------------------------
(* Two small instances: the main conversation alone, with a message each   *)
(* way; and one temporary thread that a creates and b writes in.           *)
EXTENDS Delivery

CONSTANTS a, b, t

MCDevice == {a, b}

MainMsg    == {1, 2}
MainSender == [m \in MainMsg |-> IF m = 1 THEN a ELSE b]
MainConv   == [m \in MainMsg |-> Main]
MainThread == {}
MainOwner  == [x \in MainThread |-> a]

ReplyMsg    == {1}
ReplySender == [m \in ReplyMsg |-> b]
ReplyConv   == [m \in ReplyMsg |-> t]
ReplyThread == {t}
ReplyOwner  == [x \in ReplyThread |-> a]

=============================================================================
