------------------------------- MODULE Delivery -------------------------------
(***************************************************************************)
(* The offline queue of Lunote: reliable messages and temporary threads    *)
(* between two devices, each with its own encrypted record store, over a   *)
(* session that may break at any time.                                     *)
(*                                                                         *)
(* The durable state is the SQLite store of each device (store.rs): the    *)
(* tables messages, message_delivery, message_receipts and threads.  The   *)
(* volatile state is the session (session.rs): the entry of the sessions   *)
(* map, the frames under way, the progress of the outbox task, and the one *)
(* command and the one frame a device is in the middle of.                 *)
(*                                                                         *)
(* A message body, a title and a timestamp play no part in what is checked *)
(* here: a message is its id, and the ids are numbered in the order of     *)
(* created_at, which is the order in which the outbox sends them.          *)
(***************************************************************************)
EXTENDS Naturals, FiniteSets, Sequences

CONSTANTS
    Device,     \* the two devices
    Thread,     \* ids of temporary threads
    Msg,        \* ids of messages, numbered by created_at
    Main,       \* the main conversation of a device with its peer
    Sender,     \* the device that composes a message
    Conv,       \* the conversation a message belongs to
    Owner,      \* the device that creates a thread
    None,       \* no message in hand
    MaxWire,    \* bound: frames an outbox has under way before it waits
    MaxFaults   \* bound: crashes, disconnections, time-outs, trust changes,
                \* connections made for another reason than the queue

ASSUME DeviceAssumption == \E a, b \in Device : a # b /\ Device = {a, b}
ASSUME MsgAssumption == Msg \subseteq Nat /\ None \notin Msg
ASSUME ConvAssumption == Main \notin Thread /\ Conv \in [Msg -> Thread \cup {Main}]
ASSUME OriginAssumption == Sender \in [Msg -> Device] /\ Owner \in [Thread -> Device]
ASSUME BoundAssumption == MaxWire \in Nat \ {0} /\ MaxFaults \in Nat

Peer(d) == CHOOSE p \in Device : p # d
Receiver(m) == Peer(Sender[m])

VARIABLES
    messages,    \* rows of messages, by device
    unacked,     \* rows of message_delivery with acknowledged = 0
    acked,       \* rows of message_delivery with acknowledged = 1
    receipts,    \* rows of message_receipts
    known,       \* rows of threads
    deleted,     \* ... of these, the tombstones (deleted = 1)
    hidden,      \* ... those removed on this device only (hidden = 1)
    syncPending, \* ... those the peer has not confirmed (sync_pending = 1)
    trusted,     \* is the peer trusted by this device?
    session,     \* does the sessions map hold a connection to the peer?
    wire,        \* frames under way TO a device, oldest first
    flush,       \* progress of flush_outbox: phase and what is left to send
    composing,   \* thread message that passed its check, not yet enqueued
    handling,    \* reliable message that passed its check, not yet stored
    issued,      \* message ids generated so far (a UUID is never reused)
    faults       \* faults so far

store == <<messages, unacked, acked, receipts>>
threads == <<known, deleted, hidden, syncPending>>
tasks == <<flush, composing, handling>>
vars == <<store, threads, trusted, session, wire, tasks, issued, faults>>

-----------------------------------------------------------------------------
(* Frames.                                                                 *)

ThreadState(t, del) == [kind |-> "thread_state", thread |-> t, deleted |-> del]
ThreadAck(t, del)   == [kind |-> "thread_ack", thread |-> t, deleted |-> del]
ReliableMessage(m)  == [kind |-> "reliable_message", id |-> m]
MessageAck(m)       == [kind |-> "message_ack", id |-> m]

Frame == [kind : {"thread_state", "thread_ack"}, thread : Thread, deleted : BOOLEAN]
    \cup [kind : {"reliable_message", "message_ack"}, id : Msg]

(* A frame pushed on a session whose other end is closed is lost.          *)
Push(w, d, f) == IF session[Peer(d)] THEN [w EXCEPT ![Peer(d)] = Append(@, f)] ELSE w

(* What is left of a round of the outbox.                                  *)
FlushProgress ==
    [phase : {"idle", "threads", "messages"}, states : SUBSET (Thread \X BOOLEAN),
     ids : SUBSET Msg]

Idle == [phase |-> "idle", states |-> {}, ids |-> {}]

Init ==
    /\ messages = [d \in Device |-> {}]
    /\ unacked = [d \in Device |-> {}]
    /\ acked = [d \in Device |-> {}]
    /\ receipts = [d \in Device |-> {}]
    /\ known = [d \in Device |-> {}]
    /\ deleted = [d \in Device |-> {}]
    /\ hidden = [d \in Device |-> {}]
    /\ syncPending = [d \in Device |-> {}]
    /\ trusted = [d \in Device |-> TRUE]
    /\ session = [d \in Device |-> FALSE]
    /\ wire = [d \in Device |-> <<>>]
    /\ flush = [d \in Device |-> Idle]
    /\ composing = [d \in Device |-> None]
    /\ handling = [d \in Device |-> None]
    /\ issued = {}
    /\ faults = 0

-----------------------------------------------------------------------------
(* Store operations.  Each is one SQLite transaction.                      *)

InConv(c) == {m \in Msg : Conv[m] = c}

enqueue_message(d, m) ==
    /\ messages' = [messages EXCEPT ![d] = @ \cup {m}]
    /\ unacked' = [unacked EXCEPT ![d] = @ \cup {m}]
    /\ UNCHANGED <<acked, receipts>>

(* Mutant: the delivery rows do not cascade.                               *)
RemoveRowsNoCascade(d, ms) ==
    /\ messages' = [messages EXCEPT ![d] = @ \ ms]
    /\ UNCHANGED <<unacked, acked, receipts>>

(* Message rows go; their delivery rows go with them (ON DELETE CASCADE);  *)
(* receipts stay.                                                          *)
RemoveRows(d, ms) ==
    /\ messages' = [messages EXCEPT ![d] = @ \ ms]
    /\ unacked' = [unacked EXCEPT ![d] = @ \ ms]
    /\ acked' = [acked EXCEPT ![d] = @ \ ms]
    /\ UNCHANGED receipts

acknowledge_message(d, m) ==
    /\ IF Sender[m] = d /\ m \in unacked[d]
       THEN /\ unacked' = [unacked EXCEPT ![d] = @ \ {m}]
            /\ acked' = [acked EXCEPT ![d] = @ \cup {m}]
       ELSE UNCHANGED <<unacked, acked>>
    /\ UNCHANGED <<messages, receipts>>

(* Mutant: the duplicate check looks at the history, not at the receipts.   *)
FreshByHistory(d, m) == m \notin messages[d]

Fresh(d, m) == m \notin receipts[d]

(* The first copy leaves a receipt, is inserted, and brings a thread that  *)
(* was removed on this device only back into view; later copies do nothing.*)
receive_queued_message(d, m) ==
    IF Fresh(d, m)
    THEN /\ receipts' = [receipts EXCEPT ![d] = @ \cup {m}]
         /\ messages' = [messages EXCEPT ![d] = @ \cup {m}]
         /\ hidden' = [hidden EXCEPT ![d] = @ \ ({Conv[m]} \ deleted[d])]
         /\ UNCHANGED <<unacked, acked, known, deleted, syncPending>>
    ELSE UNCHANGED <<store, threads>>

(* Mutant: the state of the latest frame wins.                              *)
TombstonesLastWins(d, t, del) == IF del THEN deleted[d] \cup {t} ELSE deleted[d] \ {t}

(* What a thread's tombstone becomes: deleted = MAX(deleted, excluded).    *)
Tombstones(d, t, del) == IF del THEN deleted[d] \cup {t} ELSE deleted[d]

(* Mutant: a thread learnt from the peer is announced back to it.           *)
ApplyThreadEchoes(d, t, del, local) ==
    /\ known' = [known EXCEPT ![d] = @ \cup {t}]
    /\ deleted' = [deleted EXCEPT ![d] = Tombstones(d, t, del)]
    /\ syncPending' = [syncPending EXCEPT ![d] = @ \cup {t}]
    /\ UNCHANGED hidden
    /\ IF del THEN RemoveRows(d, InConv(t)) ELSE UNCHANGED store

apply_thread(d, t, del, local) ==
    /\ known' = [known EXCEPT ![d] = @ \cup {t}]
    /\ deleted' = [deleted EXCEPT ![d] = Tombstones(d, t, del)]
    /\ syncPending' = [syncPending EXCEPT ![d] = IF local THEN @ \cup {t} ELSE @]
    /\ UNCHANGED hidden
    /\ IF del THEN RemoveRows(d, InConv(t)) ELSE UNCHANGED store

(* Mutant: any acknowledgement settles the thread, also an older one.       *)
AcknowledgeAnyState(d, t, del) ==
    /\ syncPending' = [syncPending EXCEPT ![d] = @ \ {t}]
    /\ UNCHANGED <<known, deleted, hidden>>

acknowledge_thread(d, t, del) ==
    /\ syncPending' = [syncPending EXCEPT ![d] =
                          IF (t \in deleted[d]) = del THEN @ \ {t} ELSE @]
    /\ UNCHANGED <<known, deleted, hidden>>

(* The unacknowledged messages that are not in a tombstoned thread.        *)
pending_messages(d) == {m \in unacked[d] : Conv[m] \notin deleted[d]}

(* Mutants: one half of the query that finds the peers to dial is missing.  *)
HasThreadWork(d) == syncPending[d] # {}
HasMessageWork(d) == pending_messages(d) # {}

HasWork(d) == pending_messages(d) # {} \/ syncPending[d] # {}

-----------------------------------------------------------------------------
(* Commands of the user.  The bridge runs one command of a device at a     *)
(* time, so a command waits for a thread message that is being composed.   *)

Unblocked(d) == composing[d] = None

(* Ids are handed out in the order of created_at.                          *)
NextId(d, m) ==
    /\ Sender[m] = d
    /\ m \notin issued
    /\ \A n \in Msg : Sender[n] = d /\ n < m => n \in issued

SendText(d, m) ==
    /\ Unblocked(d)
    /\ trusted[d]
    /\ NextId(d, m)
    /\ Conv[m] = Main
    /\ enqueue_message(d, m)
    /\ issued' = issued \cup {m}
    /\ UNCHANGED <<threads, trusted, session, wire, tasks, faults>>

(* send_thread_text looks the thread up and enqueues under separate locks: *)
(* a deletion that arrives from the peer may fall in between.              *)
SendThreadText(d, m) ==
    /\ Unblocked(d)
    /\ trusted[d]
    /\ NextId(d, m)
    /\ Conv[m] \in known[d] \ (deleted[d] \cup hidden[d])
    /\ composing' = [composing EXCEPT ![d] = m]
    /\ issued' = issued \cup {m}
    /\ UNCHANGED <<store, threads, trusted, session, wire, flush, handling, faults>>

EnqueueComposed(d) ==
    /\ composing[d] # None
    /\ enqueue_message(d, composing[d])
    /\ composing' = [composing EXCEPT ![d] = None]
    /\ UNCHANGED <<threads, trusted, session, wire, flush, handling, issued, faults>>

CreateThread(d, t) ==
    /\ Unblocked(d)
    /\ trusted[d]
    /\ Owner[t] = d
    /\ t \notin known[d]
    /\ apply_thread(d, t, FALSE, TRUE)
    /\ UNCHANGED <<trusted, session, wire, tasks, issued, faults>>

(* "Delete on both sides".                                                 *)
DeleteThread(d, t) ==
    /\ Unblocked(d)
    /\ t \in known[d]
    /\ apply_thread(d, t, TRUE, TRUE)
    /\ UNCHANGED <<trusted, session, wire, tasks, issued, faults>>

(* "Delete on this device only".                                           *)
HideThread(d, t) ==
    /\ Unblocked(d)
    /\ t \in known[d]
    /\ hidden' = [hidden EXCEPT ![d] = @ \cup {t}]
    /\ RemoveRows(d, InConv(t))
    /\ UNCHANGED <<known, deleted, syncPending, trusted, session, wire, tasks,
                   issued, faults>>

DeleteMessage(d, m) ==
    /\ Unblocked(d)
    /\ m \in messages[d]
    /\ RemoveRows(d, {m})
    /\ UNCHANGED <<threads, trusted, session, wire, tasks, issued, faults>>

DeleteConversation(d, c) ==
    /\ Unblocked(d)
    /\ messages[d] \cap InConv(c) # {}
    /\ RemoveRows(d, InConv(c))
    /\ UNCHANGED <<threads, trusted, session, wire, tasks, issued, faults>>

SetTrusted(d, b) ==
    /\ Unblocked(d)
    /\ trusted[d] # b
    /\ faults < MaxFaults
    /\ faults' = faults + 1
    /\ trusted' = [trusted EXCEPT ![d] = b]
    /\ UNCHANGED <<store, threads, session, wire, tasks, issued>>

-----------------------------------------------------------------------------
(* Sessions.                                                               *)

(* A new connection is registered at both ends.  It replaces what the far  *)
(* end may still hold, and what was under way on the old one is dropped.   *)
(* The outbox dials for its queue; any other reason counts as a fault.     *)
Connect(d) ==
    /\ ~session[d]
    /\ \/ trusted[d] /\ HasWork(d) /\ UNCHANGED faults
       \/ faults < MaxFaults /\ faults' = faults + 1
    /\ session' = [p \in Device |-> TRUE]
    /\ wire' = [p \in Device |-> <<>>]
    /\ UNCHANGED <<store, threads, trusted, tasks, issued>>

(* The connection loop of d ends; frames d already wrote may still arrive. *)
Drop(d) ==
    /\ session' = [session EXCEPT ![d] = FALSE]
    /\ wire' = [wire EXCEPT ![d] = <<>>]

Disconnect(d) ==
    /\ session[d]
    /\ handling[d] = None
    /\ faults < MaxFaults
    /\ faults' = faults + 1
    /\ Drop(d)
    /\ UNCHANGED <<store, threads, trusted, tasks, issued>>

(* End of stream, or the idle time-out, once the far end is closed.        *)
NoticeClosed(d) ==
    /\ session[d]
    /\ ~session[Peer(d)]
    /\ wire[d] = <<>>
    /\ handling[d] = None
    /\ Drop(d)
    /\ UNCHANGED <<store, threads, trusted, tasks, issued, faults>>

(* The process dies and starts again: only the store is left.              *)
Crash(d) ==
    /\ faults < MaxFaults
    /\ faults' = faults + 1
    /\ Drop(d)
    /\ flush' = [flush EXCEPT ![d] = Idle]
    /\ composing' = [composing EXCEPT ![d] = None]
    /\ handling' = [handling EXCEPT ![d] = None]
    /\ UNCHANGED <<store, threads, trusted, issued>>

-----------------------------------------------------------------------------
(* The outbox task: thread states first, then messages.  The two lists are *)
(* read one after the other, and each frame is pushed on whatever session  *)
(* is current by then.                                                     *)

FlushThreads(d) ==
    /\ flush[d].phase = "idle"
    /\ session[d]
    /\ trusted[d]
    /\ HasWork(d)
    /\ flush' = [flush EXCEPT ![d] =
           [phase |-> "threads",
            states |-> {<<t, t \in deleted[d]>> : t \in syncPending[d]},
            ids |-> {}]]
    /\ UNCHANGED <<store, threads, trusted, session, wire, composing, handling,
                   issued, faults>>

(* The outbox waits for room: a bound on its frames that are under way or   *)
(* being answered, in place of the 128 slots of a channel.                  *)
IsRequest(f) == f.kind \in {"thread_state", "reliable_message"}
IsReply(f) == f.kind \in {"thread_ack", "message_ack"}

Room(d) ==
    Len(SelectSeq(wire[Peer(d)], IsRequest)) + Len(SelectSeq(wire[d], IsReply)) < MaxWire

SendThreadState(d) ==
    /\ flush[d].phase = "threads"
    /\ session[d]
    /\ Room(d)
    /\ \E s \in flush[d].states :
          /\ wire' = Push(wire, d, ThreadState(s[1], s[2]))
          /\ flush' = [flush EXCEPT ![d].states = @ \ {s}]
    /\ UNCHANGED <<store, threads, trusted, session, composing, handling, issued, faults>>

Sending(ids) ==
    IF ids = {} THEN Idle ELSE [phase |-> "messages", states |-> {}, ids |-> ids]

FlushMessages(d) ==
    /\ flush[d].phase = "threads"
    /\ flush[d].states = {}
    /\ flush' = [flush EXCEPT ![d] = Sending(pending_messages(d))]
    /\ UNCHANGED <<store, threads, trusted, session, wire, composing, handling,
                   issued, faults>>

SendPending(d) ==
    /\ flush[d].phase = "messages"
    /\ session[d]
    /\ trusted[d]
    /\ Room(d)
    /\ \E m \in flush[d].ids :
          /\ \A n \in flush[d].ids : m <= n
          /\ wire' = Push(wire, d, ReliableMessage(m))
          /\ flush' = [flush EXCEPT ![d] = Sending(flush[d].ids \ {m})]
    /\ UNCHANGED <<store, threads, trusted, session, composing, handling, issued, faults>>

(* No session to push on, or the peer is no longer trusted.                *)
FlushStops(d) ==
    /\ \/ flush[d].phase # "idle" /\ ~session[d]
       \/ flush[d].phase = "messages" /\ ~trusted[d]
    /\ flush' = [flush EXCEPT ![d] = Idle]
    /\ UNCHANGED <<store, threads, trusted, session, wire, composing, handling,
                   issued, faults>>

(* The 12-second limit on one flush.                                       *)
FlushTimeout(d) ==
    /\ flush[d].phase # "idle"
    /\ faults < MaxFaults
    /\ faults' = faults + 1
    /\ flush' = [flush EXCEPT ![d] = Idle]
    /\ UNCHANGED <<store, threads, trusted, session, wire, composing, handling, issued>>

-----------------------------------------------------------------------------
(* Frame handlers.  One frame of a connection is handled at a time; a      *)
(* handler that fails closes the connection.                               *)

Incoming(d, kind) ==
    /\ session[d]
    /\ handling[d] = None
    /\ wire[d] # <<>>
    /\ Head(wire[d]).kind = kind

Consumed(d) == [wire EXCEPT ![d] = Tail(@)]

HandleThreadState(d) ==
    /\ Incoming(d, "thread_state")
    /\ trusted[d]
    /\ LET f == Head(wire[d])
           del == f.thread \in Tombstones(d, f.thread, f.deleted)
       IN  /\ apply_thread(d, f.thread, f.deleted, FALSE)
           /\ wire' = Push(Consumed(d), d, ThreadAck(f.thread, del))
    /\ UNCHANGED <<trusted, session, tasks, issued, faults>>

HandleThreadAck(d) ==
    /\ Incoming(d, "thread_ack")
    /\ IF trusted[d]
       THEN acknowledge_thread(d, Head(wire[d]).thread, Head(wire[d]).deleted)
       ELSE UNCHANGED threads
    /\ wire' = Consumed(d)
    /\ UNCHANGED <<store, trusted, session, tasks, issued, faults>>

(* A message for a thread deleted here is acknowledged and discarded.      *)
HandleMessageForDeletedThread(d) ==
    /\ Incoming(d, "reliable_message")
    /\ trusted[d]
    /\ LET m == Head(wire[d]).id
       IN  /\ Conv[m] \in deleted[d]
           /\ wire' = Push(Consumed(d), d, MessageAck(m))
    /\ UNCHANGED <<store, threads, trusted, session, tasks, issued, faults>>

(* Mutant: the acknowledgement goes out before the message is stored.       *)
AcknowledgeFirst(d) ==
    /\ Incoming(d, "reliable_message")
    /\ trusted[d]
    /\ LET m == Head(wire[d]).id
       IN  /\ Conv[m] \in (known[d] \ deleted[d]) \cup {Main}
           /\ handling' = [handling EXCEPT ![d] = m]
           /\ wire' = Push(Consumed(d), d, MessageAck(m))
    /\ UNCHANGED <<store, threads, trusted, session, flush, composing, issued, faults>>

CheckReliableMessage(d) ==
    /\ Incoming(d, "reliable_message")
    /\ trusted[d]
    /\ LET m == Head(wire[d]).id
       IN  /\ Conv[m] \in (known[d] \ deleted[d]) \cup {Main}
           /\ handling' = [handling EXCEPT ![d] = m]
    /\ wire' = Consumed(d)
    /\ UNCHANGED <<store, threads, trusted, session, flush, composing, issued, faults>>

(* The store is a second transaction after the thread's check, and the     *)
(* acknowledgement follows it on the session that is current by then.      *)
StoreReliableMessage(d) ==
    /\ handling[d] # None
    /\ receive_queued_message(d, handling[d])
    /\ wire' = Push(wire, d, MessageAck(handling[d]))
    /\ handling' = [handling EXCEPT ![d] = None]
    /\ UNCHANGED <<trusted, session, flush, composing, issued, faults>>

HandleMessageAck(d) ==
    /\ Incoming(d, "message_ack")
    /\ IF trusted[d]
       THEN acknowledge_message(d, Head(wire[d]).id)
       ELSE UNCHANGED store
    /\ wire' = Consumed(d)
    /\ UNCHANGED <<threads, trusted, session, tasks, issued, faults>>

(* The receiver does not trust the sender, or does not know the thread.    *)
RefuseFrame(d) ==
    /\ \/ Incoming(d, "thread_state") /\ ~trusted[d]
       \/ Incoming(d, "reliable_message") /\ ~trusted[d]
       \/ Incoming(d, "reliable_message")
          /\ Conv[Head(wire[d]).id] \notin known[d] \cup {Main}
    /\ Drop(d)
    /\ UNCHANGED <<store, threads, trusted, tasks, issued, faults>>

-----------------------------------------------------------------------------
UserCommand(d) ==
    \/ \E m \in Msg : SendText(d, m) \/ SendThreadText(d, m) \/ DeleteMessage(d, m)
    \/ \E t \in Thread : CreateThread(d, t) \/ DeleteThread(d, t) \/ HideThread(d, t)
    \/ \E c \in Thread \cup {Main} : DeleteConversation(d, c)
    \/ \E b \in BOOLEAN : SetTrusted(d, b)

Outbox(d) ==
    \/ FlushThreads(d) \/ SendThreadState(d) \/ FlushMessages(d)
    \/ SendPending(d) \/ FlushStops(d)

Dispatch(d) ==
    \/ HandleThreadState(d) \/ HandleThreadAck(d) \/ HandleMessageForDeletedThread(d)
    \/ CheckReliableMessage(d) \/ StoreReliableMessage(d) \/ HandleMessageAck(d)
    \/ RefuseFrame(d)

Fault(d) == Disconnect(d) \/ Crash(d) \/ FlushTimeout(d)

Next ==
    \E d \in Device :
        \/ UserCommand(d) \/ EnqueueComposed(d)
        \/ Connect(d) \/ NoticeClosed(d)
        \/ Outbox(d) \/ Dispatch(d) \/ Fault(d)

Spec == Init /\ [][Next]_vars

(* What the runtime keeps doing: the outbox task runs every three seconds  *)
(* and dials a trusted peer it has something for, the connection loop      *)
(* handles what it has read, a closed connection is noticed, and a command *)
(* that has begun ends.                                                    *)
Fairness ==
    \A d \in Device :
        /\ WF_vars(Connect(d) /\ UNCHANGED faults)
        /\ WF_vars(NoticeClosed(d))
        /\ WF_vars(Outbox(d))
        /\ WF_vars(Dispatch(d))
        /\ WF_vars(EnqueueComposed(d))

FairSpec == Spec /\ Fairness

-----------------------------------------------------------------------------
(* Properties.                                                             *)

(* Every row belongs to its table, every frame to the protocol, and no      *)
(* delivery mark outlives its message (the foreign key of message_delivery).*)
TypeOK ==
    /\ messages \in [Device -> SUBSET Msg]
    /\ unacked \in [Device -> SUBSET Msg]
    /\ acked \in [Device -> SUBSET Msg]
    /\ receipts \in [Device -> SUBSET Msg]
    /\ known \in [Device -> SUBSET Thread]
    /\ deleted \in [Device -> SUBSET Thread]
    /\ hidden \in [Device -> SUBSET Thread]
    /\ syncPending \in [Device -> SUBSET Thread]
    /\ trusted \in [Device -> BOOLEAN]
    /\ session \in [Device -> BOOLEAN]
    /\ wire \in [Device -> Seq(Frame)]
    /\ flush \in [Device -> FlushProgress]
    /\ composing \in [Device -> Msg \cup {None}]
    /\ handling \in [Device -> Msg \cup {None}]
    /\ issued \in SUBSET Msg
    /\ faults \in 0 .. MaxFaults
    /\ \A d \in Device : unacked[d] \cup acked[d] \subseteq messages[d]

(* "Delivered" on the sender's screen is true: a message is marked         *)
(* acknowledged only once the peer has it on disk, or has deleted the      *)
(* thread it was for on both sides (store.rs acknowledge_message, and the  *)
(* order of store and acknowledgement in dispatch_frame).                  *)
DeliveredMeansSaved ==
    \A m \in Msg : m \in acked[Sender[m]] =>
        m \in receipts[Receiver(m)] \/ Conv[m] \in deleted[Receiver(m)]

(* A device stops announcing a thread (sync_pending = 0) only when the peer *)
(* holds that thread too, and when the device holds its tombstone only when *)
(* the peer holds the tombstone: an acknowledgement of an older state does  *)
(* not pass for one of the deletion (store.rs acknowledge_thread).          *)
SettledThreadsAgree ==
    \A d \in Device : \A t \in known[d] \ syncPending[d] :
        /\ t \in known[Peer(d)]
        /\ t \in deleted[d] => t \in deleted[Peer(d)]

(* A message already received is never stored a second time: neither a     *)
(* retry after a lost acknowledgement nor a restart brings back history    *)
(* the user has deleted (store.rs receive_queued_message).                 *)
NoResurrection ==
    [][\A d \in Device : \A m \in messages'[d] \ messages[d] :
          Sender[m] # d => m \notin receipts[d]]_vars

(* A tombstone is never lifted: an announcement sent before the deletion   *)
(* and handled after it leaves the thread deleted (store.rs apply_thread). *)
TombstonesStay ==
    [][\A d \in Device : deleted[d] \subseteq deleted'[d]]_vars

(* A deleted thread holds no message: nothing that was on its way when the *)
(* deletion came leaves a row in its conversation.  The code does not keep *)
(* this: the gaps of send_thread_text and dispatch_frame between the check *)
(* and the insertion let a row in (see the README).                        *)
DeletedThreadsStayEmpty ==
    \A d \in Device : \A t \in deleted[d] : messages[d] \cap InConv(t) = {}

(* What a frame on its way to d says of the device that sent it stays true  *)
(* until d handles it.                                                      *)
FrameTrue(d, f) ==
    LET p == Peer(d)
    IN  /\ f.kind \in {"thread_state", "thread_ack"} =>
              /\ f.thread \in known[p]
              /\ f.deleted => f.thread \in deleted[p]
        /\ f.kind = "reliable_message" => Sender[f.id] = p /\ f.id \in issued
        /\ f.kind = "message_ack" =>
              /\ Sender[f.id] = d /\ f.id \in issued
              /\ f.id \in receipts[p] \/ Conv[f.id] \in deleted[p]

UnderWay(w, d) == {w[d][i] : i \in 1 .. Len(w[d])}

FramesTrue == \A d \in Device : \A f \in UnderWay(wire, d) : FrameTrue(d, f)

FlushTrue ==
    \A d \in Device :
        /\ \A s \in flush[d].states : s[1] \in known[d] /\ (s[2] => s[1] \in deleted[d])
        /\ \A m \in flush[d].ids : Sender[m] = d /\ m \in issued

(* Where a message may be, by who composed it; and what the columns of a    *)
(* thread row presuppose.                                                   *)
RowsMakeSense ==
    \A d \in Device :
        /\ \A m \in unacked[d] \cup acked[d] : Sender[m] = d /\ m \in issued
        /\ composing[d] # None => Sender[composing[d]] = d /\ composing[d] \in issued
        /\ \A m \in receipts[d] : Sender[m] = Peer(d) /\ m \in issued
        /\ handling[d] # None =>
               Sender[handling[d]] = Peer(d) /\ handling[d] \in issued
        /\ deleted[d] \cup hidden[d] \cup syncPending[d] \subseteq known[d]

(* The inductive invariant of the module.                                   *)
IndInv ==
    /\ TypeOK
    /\ RowsMakeSense
    /\ FramesTrue
    /\ FlushTrue
    /\ DeliveredMeansSaved
    /\ SettledThreadsAgree

(* From some point on the devices trust each other, and a round of the      *)
(* outbox begins after the frames of earlier rounds have been handled and a *)
(* session closed at the far end has been noticed (rounds are three seconds *)
(* apart, and an end of stream is noticed at once).                         *)
Settled ==
    /\ <>[](\A d \in Device : trusted[d])
    /\ <>[][\A d \in Device :
                FlushThreads(d) => session[Peer(d)] /\ wire[Peer(d)] = <<>>]_vars

(* Between such devices a queued message does not stay pending for ever: it *)
(* is acknowledged, deleted by its sender, or its thread is deleted.        *)
QueueDrains ==
    Settled =>
        \A m \in Msg : m \in unacked[Sender[m]] ~>
            m \notin unacked[Sender[m]] \/ Conv[m] \in deleted[Sender[m]]

(* A deletion on both sides reaches the other side, also when it is made    *)
(* without a session, and also when both sides made it.                     *)
DeletionPropagates ==
    Settled =>
        \A d \in Device, t \in Thread : t \in deleted[d] ~> t \in deleted[Peer(d)]

(* Once the users stop deleting threads, the announcements end: from some   *)
(* point on no thread is waiting for the peer.                              *)
AnnouncementsEnd ==
    Settled /\ <>[][\A d \in Device, t \in Thread : ~DeleteThread(d, t)]_vars
        => <>[](\A d \in Device : syncPending[d] = {})

(* The queue implements the contract of Messaging: no message is saved      *)
(* twice or without having been sent, nothing saved is ever forgotten by    *)
(* the duplicate check, and "delivered" never precedes the save.            *)
Contract == INSTANCE Messaging WITH
    submitted <- issued,
    saved     <- {m \in Msg : m \in receipts[Receiver(m)]},
    delivered <- {m \in Msg : m \in acked[Sender[m]]},
    closed    <- {m \in Msg : Conv[m] \in deleted[Receiver(m)]}

KeepsContract == Contract!Spec

=============================================================================
