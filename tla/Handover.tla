------------------------------- MODULE Handover -------------------------------
(***************************************************************************)
(* What a file transfer promises, without blocks, sessions or retries.  A  *)
(* transfer is read by its sender, kept by its receiver exactly as it was  *)
(* read, and only then confirmed to the sender.  A file once kept is not   *)
(* touched by any other transfer.                                          *)
(***************************************************************************)
CONSTANTS TransferId, Content, Nothing

VARIABLES
    read,       \* the content the sender has read to the end, or Nothing
    kept,       \* the content of the file the receiver has saved, or Nothing
    confirmed   \* the transfers the sender shows as done

vars == <<read, kept, confirmed>>

Init ==
    /\ read = [i \in TransferId |-> Nothing]
    /\ kept = [i \in TransferId |-> Nothing]
    /\ confirmed = {}

Finish(i) ==
    /\ read[i] = Nothing
    /\ \E c \in Content : read' = [read EXCEPT ![i] = c]
    /\ UNCHANGED <<kept, confirmed>>

Keep(i) ==
    /\ kept[i] = Nothing
    /\ read[i] # Nothing
    /\ kept' = [kept EXCEPT ![i] = read[i]]
    /\ UNCHANGED <<read, confirmed>>

Confirm(i) ==
    /\ kept[i] # Nothing
    /\ confirmed' = confirmed \cup {i}
    /\ UNCHANGED <<read, kept>>

Next == \E i \in TransferId : Finish(i) \/ Keep(i) \/ Confirm(i)

Spec == Init /\ [][Next]_vars

=============================================================================
