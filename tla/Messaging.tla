------------------------------ MODULE Messaging ------------------------------
(***************************************************************************)
(* What the offline queue promises, without stores, sessions or frames.    *)
(* Each message is saved at its receiver at most once and stays counted as *)
(* saved whatever is deleted later; the sender sees "delivered" only for a *)
(* message that is saved, or whose conversation the receiver has deleted   *)
(* for both sides.                                                         *)
(***************************************************************************)
CONSTANT Msg

VARIABLES
    submitted,  \* messages given to the sender's queue
    saved,      \* messages that have reached the receiver's disk
    delivered,  \* messages shown as delivered in the sender's history
    closed      \* messages of conversations the receiver has deleted

vars == <<submitted, saved, delivered, closed>>

Init ==
    /\ submitted = {}
    /\ saved = {}
    /\ delivered = {}
    /\ closed = {}

Submit(m) ==
    /\ m \notin submitted
    /\ submitted' = submitted \cup {m}
    /\ UNCHANGED <<saved, delivered, closed>>

Save(m) ==
    /\ m \in submitted \ saved
    /\ saved' = saved \cup {m}
    /\ UNCHANGED <<submitted, delivered, closed>>

Confirm(m) ==
    /\ m \in submitted \cap (saved \cup closed)
    /\ delivered' = delivered \cup {m}
    /\ UNCHANGED <<submitted, saved, closed>>

(* A deletion: the conversation of some messages is closed at their         *)
(* receiver, and the history of some others disappears at their sender.     *)
Delete(S, F) ==
    /\ closed' = closed \cup S
    /\ delivered' = delivered \ F
    /\ UNCHANGED <<submitted, saved>>

Next ==
    \/ \E m \in Msg : Submit(m) \/ Save(m) \/ Confirm(m)
    \/ \E S, F \in SUBSET Msg : Delete(S, F)

Spec == Init /\ [][Next]_vars

=============================================================================
