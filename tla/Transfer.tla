------------------------------- MODULE Transfer -------------------------------
(***************************************************************************)
(* The file transfer of Lunote (transfer.rs): one file, offered by its     *)
(* sender in one or more transfers, over a session that may break.         *)
(*                                                                         *)
(* The sender runs one task per transfer, which reads a queue of replies;  *)
(* the receiver keeps one entry per transfer and handles one frame at a    *)
(* time.  What is on the receiver's disk survives: the .part files, the    *)
(* note of which .part belongs to which resume token, the saved files.     *)
(*                                                                         *)
(* A block of the file is the version of the source it was read from, and  *)
(* a hash is the sequence of blocks it covers.  Offsets count blocks.      *)
(***************************************************************************)
EXTENDS Naturals, Sequences, FiniteSets

CONSTANTS
    TransferId, \* the transfers, numbered in the order they are offered
    Version,    \* the contents the source file has in turn
    Size,       \* its number of blocks
    Window,     \* blocks that may be unacknowledged
    AckEvery,   \* the receiver acknowledges every so many blocks
    NoHash,     \* no hash has been started
    Overlap,    \* is the file offered again while an earlier task runs?
    Pausable,   \* bound: the transfers that are paused
    Canceling,  \* bound: the transfers each user may cancel
    DiskFails,  \* may a write or a rename fail at the receiver?
    MaxFaults   \* bound: disconnections, connections, crashes, time-outs,
                \* disk errors

ASSUME TransferAssumption == TransferId \subseteq Nat \ {0}
ASSUME VersionAssumption == Version \subseteq Nat \ {0} /\ Version # {}
ASSUME SizeAssumption == Size \in Nat
ASSUME WindowAssumption ==
    Window \in Nat \ {0} /\ AckEvery \in Nat \ {0} /\ AckEvery <= Window
ASSUME HashAssumption == NoHash \notin Seq(Version \cup {0})
ASSUME PauseAssumption == Pausable \subseteq TransferId
ASSUME CancelAssumption == Canceling \in [{"sender", "receiver"} -> SUBSET TransferId]
ASSUME FlagAssumption == Overlap \in BOOLEAN /\ DiskFails \in BOOLEAN
ASSUME FaultAssumption == MaxFaults \in Nat

End == {"sender", "receiver"}
Peer(e) == IF e = "sender" THEN "receiver" ELSE "sender"

VARIABLES
    src,      \* the present version of the source file
    job,      \* the sender's task and its state, by transfer
    mail,     \* replies queued for the task
    inc,      \* the receiver's entry, by transfer
    link,     \* the file each .part path names, 0 if there is none
    data,     \* the files of the receiver: sequences of blocks
    meta,     \* resume token -> whose .part path it names, 0 if none
    saved,    \* the file a transfer was completed to, 0 if none
    session,  \* does an end hold a connection?
    ending,   \* has an end a closed connection it has not cleaned up after?
    wire,     \* frames under way to an end, oldest first
    faults

disk == <<link, data, meta, saved>>
net == <<session, ending, wire>>
vars == <<src, job, mail, inc, disk, net, faults>>

-----------------------------------------------------------------------------
(* Frames.                                                                 *)

FileOffer(i, v)     == [kind |-> "file_offer", id |-> i, token |-> v]
FileAccept(i, o, h) == [kind |-> "file_accept", id |-> i, offset |-> o, hash |-> h]
FileReject(i)       == [kind |-> "file_reject", id |-> i]
FileRestart(i)      == [kind |-> "file_restart", id |-> i]
Chunk(i, o, s, v)   == [kind |-> "chunk", id |-> i, offset |-> o, seq |-> s, block |-> v]
ChunkAck(i, s)      == [kind |-> "chunk_ack", id |-> i, seq |-> s]
FileDone(i, h)      == [kind |-> "file_done", id |-> i, hash |-> h]
FileCancel(i)       == [kind |-> "file_cancel", id |-> i]

(* What on_peer_disconnected queues for a task.                            *)
Disconnected(i)     == [kind |-> "disconnected", id |-> i]

(* A frame pushed on a session whose other end is closed is lost.          *)
Push(w, e, f) == IF session[Peer(e)] THEN [w EXCEPT ![Peer(e)] = Append(@, f)] ELSE w

(* The same for a frame whose failure the code ignores.                    *)
TryPush(w, e, f) == IF session[e] THEN Push(w, e, f) ELSE w

-----------------------------------------------------------------------------
NoJob == [pc |-> "none", state |-> "none", token |-> 0, read |-> <<>>, sent |-> 0,
          seq |-> 0, acked |-> 0, inFlight |-> 0, paused |-> FALSE]

NoEntry == [state |-> "none", token |-> 0, received |-> 0, prefix |-> <<>>,
            hash |-> NoHash, temp |-> 0, handle |-> 0]

Init ==
    /\ src \in Version /\ \A v \in Version : src <= v
    /\ job = [i \in TransferId |-> NoJob]
    /\ mail = [i \in TransferId |-> <<>>]
    /\ inc = [i \in TransferId |-> NoEntry]
    /\ link = [i \in TransferId |-> 0]
    /\ data = <<>>
    /\ meta = [v \in Version |-> 0]
    /\ saved = [i \in TransferId |-> 0]
    /\ session = [e \in End |-> TRUE]
    /\ ending = [e \in End |-> FALSE]
    /\ wire = [e \in End |-> <<>>]
    /\ faults = 0

Running(i) == job[i].pc \notin {"none", "over"}

Fault ==
    /\ faults < MaxFaults
    /\ faults' = faults + 1

-----------------------------------------------------------------------------
(* Sender: commands of the user.                                           *)

(* The resume token covers the size and the modification time of the file. *)
SendFile(i) ==
    /\ job[i].pc = "none"
    /\ \A k \in TransferId : k < i => job[k].pc # "none" /\ (Overlap \/ ~Running(k))
    /\ session["sender"]
    /\ job' = [job EXCEPT ![i] =
                  [NoJob EXCEPT !.pc = "offer", !.state = "open", !.token = src]]
    /\ UNCHANGED <<src, mail, inc, disk, net, faults>>

CancelOutgoing(i) ==
    /\ i \in Canceling["sender"]
    /\ Running(i)
    /\ FileCancel(i) \notin {mail[i][k] : k \in 1 .. Len(mail[i])}
    /\ mail' = [mail EXCEPT ![i] = Append(@, FileCancel(i))]
    /\ UNCHANGED <<src, job, inc, disk, net, faults>>

SetPaused(i, p) ==
    /\ i \in Pausable
    /\ Running(i)
    /\ job[i].paused # p
    /\ job' = [job EXCEPT ![i].paused = p]
    /\ UNCHANGED <<src, mail, inc, disk, net, faults>>

(* The user edits the source file and leaves its size as it is.            *)
EditSource ==
    /\ \E v \in Version : v > src /\ src' = v
    /\ UNCHANGED <<job, mail, inc, disk, net, faults>>

-----------------------------------------------------------------------------
(* Sender: the task of one transfer.                                       *)

finish_outgoing(i, state) ==
    /\ job' = [job EXCEPT ![i].pc = "over", ![i].state = state, ![i].paused = FALSE]
    /\ mail' = [mail EXCEPT ![i] = <<>>]

(* A step that sends f on the way to pc; without a session the task fails. *)
SendOrFail(i, f, next) ==
    IF session["sender"]
    THEN /\ job' = [job EXCEPT ![i] = next]
         /\ wire' = Push(wire, "sender", f)
         /\ UNCHANGED mail
    ELSE /\ finish_outgoing(i, "failed")
         /\ UNCHANGED wire

Offer(i) ==
    /\ job[i].pc = "offer"
    /\ SendOrFail(i, FileOffer(i, job[i].token), [job[i] EXCEPT !.pc = "wait"])
    /\ UNCHANGED <<src, inc, disk, session, ending, faults>>

Reply(i) == Head(mail[i])
Answered(i) == mail[i] # <<>>
TakeReply(i) == mail' = [mail EXCEPT ![i] = Tail(@)]

(* The first n blocks of the source as it is now.                          *)
Blocks(n) == [k \in 1 .. n |-> src]

(* The blocks the receiver already has are compared with the source.       *)
partial_matches(r) == r.hash = Blocks(r.offset)

Accepted(i) ==
    /\ job[i].pc = "wait"
    /\ Answered(i)
    /\ LET r == Reply(i)
           resumes == r.offset = 0 \/ partial_matches(r)
       IN  /\ r.kind = "file_accept"
           /\ job' = [job EXCEPT ![i].pc = "open",
                                 ![i].sent = IF resumes THEN r.offset ELSE 0]
           /\ wire' = IF resumes THEN wire ELSE TryPush(wire, "sender", FileRestart(i))
    /\ TakeReply(i)
    /\ UNCHANGED <<src, inc, disk, session, ending, faults>>

(* Anything but an acceptance ends the task; the peer is told nothing.     *)
NotAccepted(i) ==
    /\ job[i].pc = "wait"
    /\ Answered(i)
    /\ Reply(i).kind # "file_accept"
    /\ finish_outgoing(i, CASE Reply(i).kind = "file_reject" -> "rejected"
                            [] Reply(i).kind = "file_cancel" -> "canceled"
                            [] OTHER -> "failed")
    /\ UNCHANGED <<src, inc, disk, net, faults>>

(* The source is opened and the blocks before the offset are read again.   *)
OpenSource(i) ==
    /\ job[i].pc = "open"
    /\ job' = [job EXCEPT ![i].pc = "turn", ![i].read = Blocks(job[i].sent)]
    /\ UNCHANGED <<src, mail, inc, disk, net, faults>>

(* The pause flag is looked at once per round of the loop.                 *)
StartRound(i) ==
    /\ job[i].pc = "turn"
    /\ ~job[i].paused
    /\ job' = [job EXCEPT ![i].pc = "fill"]
    /\ UNCHANGED <<src, mail, inc, disk, net, faults>>

(* Mutant: one block too many is let through.                               *)
RoomInclusive(j) == j.inFlight <= Window

Room(j) == j.inFlight < Window

SendChunk(i) ==
    /\ job[i].pc = "fill"
    /\ Room(job[i])
    /\ job[i].sent < Size
    /\ SendOrFail(i, Chunk(i, job[i].sent, job[i].seq + 1, src),
           [job[i] EXCEPT !.read = Append(@, src), !.sent = @ + 1, !.seq = @ + 1,
                          !.inFlight = @ + 1])
    /\ UNCHANGED <<src, inc, disk, session, ending, faults>>

WindowFull(i) ==
    /\ job[i].pc = "fill"
    /\ ~Room(job[i])
    /\ job' = [job EXCEPT ![i].pc = "ack"]
    /\ UNCHANGED <<src, mail, inc, disk, net, faults>>

(* Mutant: the transfer is done once file_done is sent.                     *)
SendDoneAndFinish(i) ==
    /\ job[i].pc = "fill"
    /\ Room(job[i])
    /\ job[i].sent = Size
    /\ SendOrFail(i, FileDone(i, job[i].read),
           [job[i] EXCEPT !.pc = "over", !.state = "done"])
    /\ UNCHANGED <<src, inc, disk, session, ending, faults>>

(* The end of the file is noticed when there is room for another block.    *)
SendDone(i) ==
    /\ job[i].pc = "fill"
    /\ Room(job[i])
    /\ job[i].sent = Size
    /\ SendOrFail(i, FileDone(i, job[i].read), [job[i] EXCEPT !.pc = "confirm"])
    /\ UNCHANGED <<src, inc, disk, session, ending, faults>>

Minus(m, n) == IF m > n THEN m - n ELSE 0   \* saturating_sub

(* Mutant: the acknowledged number is taken off, not the number of blocks   *)
(* acknowledged since the last one.                                         *)
OutstandingAll(j, s) == Minus(j.inFlight, s)

Outstanding(j, s) == Minus(j.inFlight, Minus(s, j.acked))

(* The task reads its replies while the window is full, and while paused.  *)
Reading(i) == job[i].pc = "ack" \/ (job[i].pc = "turn" /\ job[i].paused)

Acknowledged(i) ==
    /\ Reading(i)
    /\ Answered(i)
    /\ Reply(i).kind = "chunk_ack"
    /\ job' = [job EXCEPT ![i].pc = "turn", ![i].acked = Reply(i).seq,
                          ![i].inFlight = Outstanding(job[i], Reply(i).seq)]
    /\ TakeReply(i)
    /\ UNCHANGED <<src, inc, disk, net, faults>>

(* A cancellation, by the user here or by the peer, is sent to the peer.   *)
Interrupted(i) ==
    /\ Reading(i)
    /\ Answered(i)
    /\ IF Reply(i).kind = "file_cancel"
       THEN /\ wire' = TryPush(wire, "sender", FileCancel(i))
            /\ finish_outgoing(i, "canceled")
       ELSE /\ Reply(i).kind # "chunk_ack"
            /\ UNCHANGED wire
            /\ finish_outgoing(i, "failed")
    /\ UNCHANGED <<src, inc, disk, session, ending, faults>>

(* Mutant: the last acknowledgement completes the transfer.                 *)
ConfirmedByAck(i) ==
    /\ job[i].pc = "confirm"
    /\ Answered(i)
    /\ IF \/ Reply(i).kind = "file_done"
          \/ Reply(i).kind = "chunk_ack" /\ Reply(i).seq = job[i].seq
       THEN finish_outgoing(i, "done") /\ UNCHANGED wire
       ELSE IF Reply(i).kind \in {"file_cancel", "disconnected"}
       THEN finish_outgoing(i, "failed") /\ UNCHANGED wire
       ELSE TakeReply(i) /\ UNCHANGED <<job, wire>>
    /\ UNCHANGED <<src, inc, disk, session, ending, faults>>

(* Mutant: a cancellation is passed on to the peer here, too.               *)
ConfirmedOrPassedOn(i) ==
    /\ job[i].pc = "confirm"
    /\ Answered(i)
    /\ IF Reply(i).kind = "file_done"
       THEN finish_outgoing(i, "done") /\ UNCHANGED wire
       ELSE IF Reply(i).kind \in {"file_cancel", "disconnected"}
       THEN finish_outgoing(i, "failed") /\ wire' = TryPush(wire, "sender", FileCancel(i))
       ELSE TakeReply(i) /\ UNCHANGED <<job, wire>>
    /\ UNCHANGED <<src, inc, disk, session, ending, faults>>

Confirmed(i) ==
    /\ job[i].pc = "confirm"
    /\ Answered(i)
    /\ IF Reply(i).kind = "file_done"
       THEN finish_outgoing(i, "done") /\ UNCHANGED wire
       ELSE IF Reply(i).kind \in {"file_cancel", "disconnected"}
       THEN finish_outgoing(i, "failed") /\ UNCHANGED wire
       ELSE TakeReply(i) /\ UNCHANGED <<job, wire>>
    /\ UNCHANGED <<src, inc, disk, session, ending, faults>>

(* The time limits on an answer, an acknowledgement and the confirmation.  *)
TimeOut(i) ==
    /\ job[i].pc \in {"wait", "ack", "confirm"}
    /\ Fault
    /\ finish_outgoing(i, "failed")
    /\ UNCHANGED <<src, inc, disk, net>>

-----------------------------------------------------------------------------
(* Receiver.                                                               *)

Listed(i) == inc[i].state # "none"

(* Mutant: only the resume note goes.                                       *)
DiscardNote(e) ==
    /\ meta' = [meta EXCEPT ![e.token] = 0]
    /\ UNCHANGED <<link, data, saved>>

(* The path and the resume note go; the file goes unless it is still open. *)
Discard(e) ==
    /\ link' = IF e.temp = 0 THEN link ELSE [link EXCEPT ![e.temp] = 0]
    /\ meta' = [meta EXCEPT ![e.token] = 0]
    /\ UNCHANGED <<data, saved>>

(* Failing keeps the .part, unless nothing has been received.              *)
FailedEntry(e) ==
    [e EXCEPT !.state = "failed", !.handle = 0,
              !.temp = IF e.received = 0 THEN 0 ELSE e.temp]

Unlink(l, e) ==
    IF e.received = 0 /\ e.temp # 0 THEN [l EXCEPT ![e.temp] = 0] ELSE l

(* Commands of the user.                                                   *)

AcceptTransfer(i) ==
    /\ inc[i].state = "offered"
    /\ inc' = [inc EXCEPT ![i].state = "accepted"]
    /\ wire' = TryPush(wire, "receiver",
                   FileAccept(i, inc[i].received, inc[i].prefix))
    /\ UNCHANGED <<src, job, mail, disk, session, ending, faults>>

RejectTransfer(i) ==
    /\ inc[i].state = "offered"
    /\ inc' = [inc EXCEPT ![i].state = "rejected"]
    /\ wire' = TryPush(wire, "receiver", FileReject(i))
    /\ UNCHANGED <<src, job, mail, disk, session, ending, faults>>

CancelIncoming(i) ==
    /\ i \in Canceling["receiver"]
    /\ Listed(i)
    /\ inc[i].state \notin {"done", "canceled", "rejected"}
    /\ inc' = [inc EXCEPT ![i].state = "canceled", ![i].handle = 0]
    /\ Discard(inc[i])
    /\ wire' = TryPush(wire, "receiver", FileCancel(i))
    /\ UNCHANGED <<src, job, mail, session, ending, faults>>

(* Frame handlers.                                                         *)

Incoming(e, kind) ==
    /\ session[e]
    /\ wire[e] # <<>>
    /\ Head(wire[e]).kind = kind

Frame(e) == Head(wire[e])
Consumed(e) == [wire EXCEPT ![e] = Tail(@)]
Answer(f) == Push(Consumed("receiver"), "receiver", f)

(* The .part a resume token leads to, 0 if there is none.                  *)
find_partial(v) == IF meta[v] = 0 \/ link[meta[v]] = 0 THEN 0 ELSE meta[v]

HandleOffer ==
    /\ Incoming("receiver", "file_offer")
    /\ LET f == Frame("receiver")
           p == find_partial(f.token)
           prefix == IF p = 0 THEN <<>> ELSE data[link[p]]
       IN  inc' = [inc EXCEPT ![f.id] =
               [NoEntry EXCEPT !.state = "offered", !.token = f.token, !.temp = p,
                               !.prefix = prefix, !.received = Len(prefix)]]
    /\ wire' = Consumed("receiver")
    /\ UNCHANGED <<src, job, mail, disk, session, ending, faults>>

HandleRestart ==
    /\ Incoming("receiver", "file_restart")
    /\ LET i == Frame("receiver").id
       IN  IF Listed(i)
           THEN /\ inc' = [inc EXCEPT ![i] =
                       [@ EXCEPT !.state = "in_progress", !.received = 0, !.prefix = <<>>,
                                 !.hash = <<>>, !.temp = 0, !.handle = 0]]
                /\ Discard(inc[i])
           ELSE UNCHANGED <<inc, disk>>
    /\ wire' = Consumed("receiver")
    /\ UNCHANGED <<src, job, mail, session, ending, faults>>

HandlePeerCancel ==
    /\ Incoming("receiver", "file_cancel")
    /\ LET i == Frame("receiver").id
       IN  IF Listed(i)
           THEN /\ inc' = [inc EXCEPT ![i].state = "canceled", ![i].handle = 0]
                /\ Discard(inc[i])
           ELSE UNCHANGED <<inc, disk>>
    /\ wire' = Consumed("receiver")
    /\ UNCHANGED <<src, job, mail, session, ending, faults>>

(* The entry and the disk when a block is about to be written.  The first   *)
(* block opens the .part, made empty unless the transfer resumes, and has   *)
(* the hash start with what is already there.                               *)
Opened(i) ==
    LET e == inc[i]
        p == IF e.temp = 0 THEN i ELSE e.temp
        n == IF link[p] = 0 THEN Len(data) + 1 ELSE link[p]
        found == IF link[p] = 0 THEN Append(data, <<>>) ELSE data
        files == IF e.received = 0 THEN [found EXCEPT ![n] = <<>>] ELSE found
        short == Len(files[n]) < e.received
    IN  IF e.handle = 0 /\ e.state \in {"accepted", "in_progress"}
        THEN [entry |-> [e EXCEPT !.temp = p,
                   !.handle = IF short THEN 0 ELSE n,
                   !.hash = IF short THEN @ ELSE SubSeq(files[n], 1, e.received),
                   !.state = "in_progress"],
              link |-> [link EXCEPT ![p] = n],
              data |-> files,
              meta |-> [meta EXCEPT ![e.token] = p]]
        ELSE [entry |-> e, link |-> link, data |-> data, meta |-> meta]

(* Writing a block at an offset; a gap reads as zeros.                     *)
Written(d, o, v) ==
    [k \in 1 .. (IF o + 1 > Len(d) THEN o + 1 ELSE Len(d)) |->
        IF k = o + 1 THEN v ELSE IF k <= Len(d) THEN d[k] ELSE 0]

(* Mutant: only the last block is acknowledged.                             *)
AckLast(s, received) == received = Size

NeedAck(s, received) == s % AckEvery = 0 \/ received = Size

(* A block for a transfer that is not listed, or not accepted yet.         *)
HandleStrayChunk ==
    /\ Incoming("receiver", "chunk")
    /\ inc[Frame("receiver").id].state \in {"none", "offered"}
    /\ wire' = Consumed("receiver")
    /\ UNCHANGED <<src, job, mail, inc, disk, session, ending, faults>>

ChunkFor(i) ==
    /\ Incoming("receiver", "chunk")
    /\ Frame("receiver").id = i
    /\ inc[i].state \notin {"none", "offered"}

InOrder(e, f) == f.offset = e.received /\ e.received < Size

HandleChunk(i) ==
    /\ ChunkFor(i)
    /\ LET f == Frame("receiver")
           o == Opened(i)
           e == o.entry
           got == [e EXCEPT !.received = @ + 1, !.hash = Append(@, f.block)]
       IN  /\ e.handle # 0
           /\ InOrder(e, f)
           /\ inc' = [inc EXCEPT ![i] = got]
           /\ data' = [o.data EXCEPT ![e.handle] = Written(@, e.received, f.block)]
           /\ link' = o.link
           /\ meta' = o.meta
           /\ wire' = IF NeedAck(f.seq, got.received)
                      THEN Answer(ChunkAck(i, f.seq)) ELSE Consumed("receiver")
    /\ UNCHANGED <<src, job, mail, saved, session, ending, faults>>

(* fail_incoming: the block is out of order, the .part is shorter than the *)
(* entry believes, or the disk refuses the write.                          *)
HandleBadChunk(i) ==
    /\ ChunkFor(i)
    /\ LET f == Frame("receiver")
           o == Opened(i)
           e == o.entry
           unreadable == e.handle = 0 /\ e.state = "in_progress"
       IN  /\ IF unreadable \/ ~InOrder(e, f)
              THEN UNCHANGED faults
              ELSE DiskFails /\ e.handle # 0 /\ Fault
           /\ inc' = [inc EXCEPT ![i] = FailedEntry(e)]
           /\ data' = o.data
           /\ link' = Unlink(o.link, e)
           /\ meta' = o.meta
    /\ wire' = Answer(FileCancel(Frame("receiver").id))
    /\ UNCHANGED <<src, job, mail, saved, session, ending>>

(* The next block of a transfer that is over here: the entry was taken out *)
(* of the table and, with no file open, the handler returns without it.    *)
HandleLateChunk(i) ==
    /\ ChunkFor(i)
    /\ LET e == Opened(i).entry
       IN  /\ e.handle = 0
           /\ e.state # "in_progress"
           /\ InOrder(e, Frame("receiver"))
    /\ inc' = [inc EXCEPT ![i] = NoEntry]
    /\ wire' = Consumed("receiver")
    /\ UNCHANGED <<src, job, mail, disk, session, ending, faults>>

(* Mutant: the hash of the received blocks is not compared.                 *)
CompleteBySize(e, f) == e.received = Size

Complete(e, f) == e.received = Size /\ e.hash = f.hash

DoneFor(i) ==
    /\ Incoming("receiver", "file_done")
    /\ Frame("receiver").id = i
    /\ Listed(i)

(* The .part becomes the file; for an empty source an empty file is made.  *)
CanFinalize(e) == IF e.temp = 0 THEN Size = 0 ELSE link[e.temp] # 0

HandleDone(i) ==
    /\ DoneFor(i)
    /\ LET e == inc[i]
       IN  /\ Complete(e, Frame("receiver"))
           /\ CanFinalize(e)
           /\ saved' = [saved EXCEPT ![i] = IF e.temp = 0 THEN Len(data) + 1 ELSE link[e.temp]]
           /\ data' = IF e.temp = 0 THEN Append(data, <<>>) ELSE data
           /\ link' = IF e.temp = 0 THEN link ELSE [link EXCEPT ![e.temp] = 0]
           /\ meta' = [meta EXCEPT ![e.token] = 0]
           /\ inc' = [inc EXCEPT ![i].state = "done", ![i].temp = 0, ![i].handle = 0,
                                 ![i].hash = NoHash]
    /\ wire' = Answer(FileDone(i, Frame("receiver").hash))
    /\ UNCHANGED <<src, job, mail, session, ending, faults>>

(* The .part cannot be renamed: the sender is told nothing.                *)
HandleDoneUnsaved(i) ==
    /\ DoneFor(i)
    /\ LET e == inc[i]
       IN  /\ Complete(e, Frame("receiver"))
           /\ IF CanFinalize(e) THEN DiskFails /\ Fault ELSE UNCHANGED faults
           /\ inc' = [inc EXCEPT ![i].state = "failed", ![i].handle = 0, ![i].hash = NoHash]
    /\ wire' = Consumed("receiver")
    /\ UNCHANGED <<src, job, mail, disk, session, ending>>

HandleDoneMismatch(i) ==
    /\ DoneFor(i)
    /\ ~Complete(inc[i], Frame("receiver"))
    /\ inc' = [inc EXCEPT ![i] = [FailedEntry(inc[i]) EXCEPT !.hash = NoHash]]
    /\ link' = Unlink(link, inc[i])
    /\ wire' = Answer(FileCancel(i))
    /\ UNCHANGED <<src, job, mail, data, meta, saved, session, ending, faults>>

HandleStrayDone ==
    /\ Incoming("receiver", "file_done")
    /\ ~Listed(Frame("receiver").id)
    /\ wire' = Consumed("receiver")
    /\ UNCHANGED <<src, job, mail, inc, disk, session, ending, faults>>

(* A reply goes to the task it is for, if that still runs.                 *)
forward_outgoing ==
    /\ session["sender"]
    /\ wire["sender"] # <<>>
    /\ LET f == Frame("sender")
       IN  mail' = IF Running(f.id) THEN [mail EXCEPT ![f.id] = Append(@, f)] ELSE mail
    /\ wire' = Consumed("sender")
    /\ UNCHANGED <<src, job, inc, disk, session, ending, faults>>

-----------------------------------------------------------------------------
(* Sessions.                                                               *)

(* A connection is registered at both ends; it replaces the one the far    *)
(* end may still hold, whose clean-up is then still to come.               *)
Connect(e) ==
    /\ ~session[e]
    /\ session' = [x \in End |-> TRUE]
    /\ ending' = [ending EXCEPT ![Peer(e)] = @ \/ session[Peer(e)]]
    /\ wire' = [x \in End |-> <<>>]
    /\ UNCHANGED <<src, job, mail, inc, disk, faults>>

Close(e) ==
    /\ session' = [session EXCEPT ![e] = FALSE]
    /\ wire' = [wire EXCEPT ![e] = <<>>]

Disconnect(e) ==
    /\ session[e]
    /\ Fault
    /\ Close(e)
    /\ ending' = [ending EXCEPT ![e] = TRUE]
    /\ UNCHANGED <<src, job, mail, inc, disk>>

NoticeClosed(e) ==
    /\ session[e]
    /\ ~session[Peer(e)]
    /\ wire[e] = <<>>
    /\ Close(e)
    /\ ending' = [ending EXCEPT ![e] = TRUE]
    /\ UNCHANGED <<src, job, mail, inc, disk, faults>>

(* on_peer_disconnected, at the end of a connection.                       *)
CleanUpIncoming ==
    /\ ending["receiver"]
    /\ ending' = [ending EXCEPT !["receiver"] = FALSE]
    /\ inc' = [i \in TransferId |->
                  IF inc[i].state \in {"offered", "accepted", "in_progress"}
                  THEN [inc[i] EXCEPT !.state = "failed", !.handle = 0] ELSE inc[i]]
    /\ UNCHANGED <<src, job, mail, disk, session, wire, faults>>

CleanUpOutgoing ==
    /\ ending["sender"]
    /\ ending' = [ending EXCEPT !["sender"] = FALSE]
    /\ mail' = [i \in TransferId |->
                  IF Running(i) THEN Append(mail[i], Disconnected(i)) ELSE mail[i]]
    /\ UNCHANGED <<src, job, inc, disk, session, wire, faults>>

(* A device stops and starts again; the disk is all that is left.          *)
CrashSender ==
    /\ Fault
    /\ job' = [i \in TransferId |->
                  IF Running(i) THEN [job[i] EXCEPT !.pc = "over", !.state = "lost",
                                                    !.paused = FALSE] ELSE job[i]]
    /\ mail' = [i \in TransferId |-> <<>>]
    /\ Close("sender")
    /\ ending' = [ending EXCEPT !["sender"] = FALSE]
    /\ UNCHANGED <<src, inc, disk>>

CrashReceiver ==
    /\ Fault
    /\ inc' = [i \in TransferId |-> NoEntry]
    /\ Close("receiver")
    /\ ending' = [ending EXCEPT !["receiver"] = FALSE]
    /\ UNCHANGED <<src, job, mail, disk>>

-----------------------------------------------------------------------------
UserCommand ==
    \/ EditSource
    \/ \E i \in TransferId :
        \/ SendFile(i) \/ CancelOutgoing(i) \/ \E p \in BOOLEAN : SetPaused(i, p)
        \/ AcceptTransfer(i) \/ RejectTransfer(i) \/ CancelIncoming(i)

Task(i) ==
    \/ Offer(i) \/ Accepted(i) \/ NotAccepted(i) \/ OpenSource(i) \/ StartRound(i)
    \/ SendChunk(i) \/ WindowFull(i) \/ SendDone(i)
    \/ Acknowledged(i) \/ Interrupted(i) \/ Confirmed(i)

Dispatch(i) ==
    \/ HandleChunk(i) \/ HandleBadChunk(i) \/ HandleLateChunk(i)
    \/ HandleDone(i) \/ HandleDoneUnsaved(i) \/ HandleDoneMismatch(i)

Receive ==
    \/ HandleOffer \/ HandleRestart \/ HandlePeerCancel \/ HandleStrayChunk
    \/ HandleStrayDone \/ \E i \in TransferId : Dispatch(i)

Dial(e) == Connect(e) \/ NoticeClosed(e)

Failure ==
    \/ \E e \in End : Disconnect(e)
    \/ CrashSender \/ CrashReceiver
    \/ \E i \in TransferId : TimeOut(i)

Next ==
    \/ UserCommand
    \/ \E i \in TransferId : Task(i)
    \/ Receive \/ forward_outgoing
    \/ \E e \in End : Dial(e)
    \/ CleanUpIncoming \/ CleanUpOutgoing
    \/ Failure

Spec == Init /\ [][Next]_vars

(* Each task runs, each end handles the frames it is sent, dials again and  *)
(* cleans up after a closed connection.  Users owe nobody an answer.        *)
Fairness ==
    /\ \A i \in TransferId : WF_vars(Task(i))
    /\ WF_vars(Receive) /\ WF_vars(forward_outgoing)
    /\ \A e \in End : WF_vars(Dial(e))
    /\ WF_vars(CleanUpIncoming) /\ WF_vars(CleanUpOutgoing)

FairSpec == Spec /\ Fairness

-----------------------------------------------------------------------------
(* Properties.                                                             *)

Known(f) == f.id \in TransferId

(* The task and the entry of each transfer, the paths, the notes and the    *)
(* frames hold what their types allow, and a path names a file that exists. *)
TypeOK ==
    /\ src \in Version
    /\ \A i \in TransferId :
          /\ job[i].pc \in {"none", "offer", "wait", "open", "turn", "fill", "ack",
                            "confirm", "over"}
          /\ job[i].state \in {"none", "open", "done", "failed", "canceled", "rejected",
                               "lost"}
          /\ job[i].sent \in 0 .. Size /\ job[i].inFlight \in 0 .. Window
          /\ job[i].read \in Seq(Version) /\ Len(job[i].read) <= Size
          /\ inc[i].state \in {"none", "offered", "accepted", "in_progress", "done",
                               "failed", "canceled", "rejected"}
          /\ inc[i].received \in 0 .. Size
          /\ inc[i].temp \in TransferId \cup {0}
          /\ inc[i].handle \in 0 .. Len(data) /\ saved[i] \in 0 .. Len(data)
          /\ link[i] \in 0 .. Len(data)
    /\ data \in Seq(Seq(Version \cup {0}))
    /\ meta \in [Version -> TransferId \cup {0}]
    /\ session \in [End -> BOOLEAN] /\ ending \in [End -> BOOLEAN]
    /\ \A e \in End : \A k \in 1 .. Len(wire[e]) : Known(wire[e][k])
    /\ faults \in 0 .. MaxFaults

(* A file shown as received is, block for block, what the sender read,      *)
(* also when the transfer resumed an earlier one (transfer.rs on_done).     *)
SavedIsRead ==
    \A i \in TransferId : saved[i] # 0 => data[saved[i]] = job[i].read

(* The sender shows a transfer as done only when the receiver has saved the *)
(* file (transfer.rs outgoing_task, completion).                            *)
DoneMeansSaved ==
    \A i \in TransferId : job[i].state = "done" => saved[i] # 0

(* The blocks of one transfer that are under way are all among the Window   *)
(* blocks sent last, however acknowledgements, pauses and connections fall: *)
(* neither side has to buffer more (transfer.rs outgoing_task, in_flight).  *)
ChunkOf(i, k) == wire["receiver"][k].kind = "chunk" /\ wire["receiver"][k].id = i

WindowKept ==
    \A i \in TransferId : \A k, l \in 1 .. Len(wire["receiver"]) :
        ChunkOf(i, k) /\ ChunkOf(i, l) =>
            wire["receiver"][l].seq < wire["receiver"][k].seq + Window

(* A transfer the receiver shows as done stays done: no late cancellation,  *)
(* disconnection or frame changes it (only a restart forgets it).           *)
DoneIsFinal ==
    [][\A i \in TransferId :
          inc[i].state = "done" => inc'[i].state \in {"done", "none"}]_vars

(* A transfer that is cancelled at the receiver is not received after all.  *)
(* One thing takes it up again, a file_restart that was under way: it does  *)
(* not look at the state of the transfer (transfer.rs on_restart).          *)
CancelIsFinal ==
    [][\A i \in TransferId : inc[i].state = "canceled" =>
          /\ saved'[i] = saved[i]
          /\ \/ inc'[i].state \in {"canceled", "failed", "none"}
             \/ wire["receiver"] # <<>> /\ Frame("receiver") = FileRestart(i)]_vars

(* An acceptance is on its way, by an entry that still lacks some blocks.   *)
(* A file of which all are on disk, or an empty one, does not arrive:       *)
(* on_done then has no hash to compare.                                     *)
Underway(i) ==
    /\ faults = MaxFaults
    /\ \A e \in End : session[e] /\ ~ending[e]
    /\ \A k \in TransferId \ {i} : ~Running(k)
    /\ job[i].pc = "wait" /\ mail[i] = <<>>
    /\ inc[i].state = "accepted" /\ inc[i].received < Size
    /\ FileAccept(i, inc[i].received, inc[i].prefix)
           \in {wire["sender"][k] : k \in 1 .. Len(wire["sender"])}

(* Such a transfer arrives when nothing else runs, no fault is left to      *)
(* happen, nobody cancels it or an earlier one at the receiver, and the     *)
(* source is not edited: whatever pauses there are and whatever frames are  *)
(* left of an earlier attempt, the two sides never wait for each other, and *)
(* a .part that it left short is resumed to the end (receive_chunk,         *)
(* outgoing_task, find_partial).                                            *)
AcceptedArrives ==
    (\A i \in TransferId : <>[](~job[i].paused)) =>
        \A i \in TransferId \ (Canceling["sender"] \cup Canceling["receiver"]) :
            Underway(i) ~> job[i].state = "done" \/ src # job[i].token

(* A transfer implements the contract Handover: kept exactly as read, left  *)
(* alone from then on, confirmed only after that.                           *)
Contract == INSTANCE Handover WITH
    Nothing   <- NoHash,
    Content   <- [1 .. Size -> Version],
    read      <- [i \in TransferId |->
                     IF Len(job[i].read) = Size THEN job[i].read ELSE NoHash],
    kept      <- [i \in TransferId |->
                     IF saved[i] = 0 THEN NoHash ELSE data[saved[i]]],
    confirmed <- {i \in TransferId : job[i].state = "done"}

KeepsContract == Contract!Spec

=============================================================================
