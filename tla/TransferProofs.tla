---------------------------- MODULE TransferProofs ----------------------------
(***************************************************************************)
(* Safety of Transfer for any number of transfers, blocks and faults, any  *)
(* window and any interval between acknowledgements.                       *)
(*                                                                         *)
(* Typed, Files and Reads give the types.  Trail (Counted, NumbersWithin,  *)
(* NumbersRise) says what the numbers of the blocks and acknowledgements   *)
(* under way have to do with the window.  Completion (LastFrame,           *)
(* DoneIsLast, Confirming) says that nothing of a transfer follows its     *)
(* file_done and that a confirmation under way is true.                    *)
(***************************************************************************)
EXTENDS Transfer, TLAPS, SequenceTheorems

-----------------------------------------------------------------------------
(* The types.                                                              *)

Block == Version \cup {0}

Pc == {"none", "offer", "wait", "open", "turn", "fill", "ack", "confirm", "over"}

JobState == {"none", "open", "done", "failed", "canceled", "rejected", "lost"}

EntryState ==
    {"none", "offered", "accepted", "in_progress", "done", "failed", "canceled", "rejected"}

Job ==
    [pc : Pc, state : JobState, token : Block, read : Seq(Version), sent : 0 .. Size,
     seq : Nat, acked : Nat, inFlight : 0 .. Window, paused : BOOLEAN]

Entry ==
    [state : EntryState, token : Block, received : 0 .. Size, prefix : Seq(Block),
     hash : Seq(Block) \cup {NoHash}, temp : TransferId \cup {0}, handle : Nat]

AnyFrame ==
    [kind : {"file_offer"}, id : TransferId, token : Version]
    \cup [kind : {"file_accept"}, id : TransferId, offset : 0 .. Size, hash : Seq(Block)]
    \cup [kind : {"chunk"}, id : TransferId, offset : 0 .. Size, seq : Nat, block : Version]
    \cup [kind : {"chunk_ack"}, id : TransferId, seq : Nat]
    \cup [kind : {"file_done"}, id : TransferId, hash : Seq(Block)]
    \cup [kind : {"file_reject", "file_restart", "file_cancel", "disconnected"}, id : TransferId]

Typed ==
    /\ src \in Version
    /\ job \in [TransferId -> Job]
    /\ mail \in [TransferId -> Seq(AnyFrame)]
    /\ inc \in [TransferId -> Entry]
    /\ link \in [TransferId -> Nat]
    /\ data \in Seq(Seq(Block))
    /\ meta \in [Version -> TransferId \cup {0}]
    /\ saved \in [TransferId -> Nat]
    /\ session \in [End -> BOOLEAN]
    /\ ending \in [End -> BOOLEAN]
    /\ wire \in [End -> Seq(AnyFrame)]
    /\ faults \in 0 .. MaxFaults

(* Paths, open files and saved files are files there are, none of them is   *)
(* longer than the source, and the hash of an open file has been started.   *)
Files ==
    /\ \A i \in TransferId :
          /\ link[i] <= Len(data) /\ saved[i] <= Len(data) /\ inc[i].handle <= Len(data)
          /\ inc[i].handle # 0 => inc[i].hash # NoHash
    /\ \A n \in 1 .. Len(data) : Len(data[n]) <= Size

(* A task has a token, and from the first block on it has read what it has  *)
(* sent.                                                                    *)
ReadsOf(j) ==
    /\ j.pc # "none" => j.token \in Version
    /\ Len(j.read) <= Size
    /\ j.pc \in {"turn", "fill", "ack", "confirm"} => Len(j.read) = j.sent

Reads == \A i \in TransferId : ReadsOf(job[i])

Typing == Typed /\ Files /\ Reads

(* The numbers are numbers.                                                 *)
LEMMA Numbers ==
    /\ Size \in Nat /\ Window \in Nat \ {0} /\ AckEvery \in Nat \ {0} /\ MaxFaults \in Nat
    /\ TransferId \subseteq Nat \ {0} /\ 0 \notin TransferId
    /\ Version \subseteq Nat \ {0} /\ 0 \notin Version
    /\ Version \subseteq Block /\ 0 \in Block
    /\ NoHash \notin Seq(Block)
  BY SizeAssumption, WindowAssumption, FaultAssumption, TransferAssumption, VersionAssumption,
     HashAssumption DEF Block

(* The two ends differ, and each is the peer of the other.                  *)
LEMMA EndFacts ==
    /\ "sender" \in End /\ "receiver" \in End
    /\ Peer("sender") = "receiver" /\ Peer("receiver") = "sender"
    /\ \A e \in End : Peer(e) \in End
  BY DEF End, Peer

(* What a version is read from is also what a receiver can have.            *)
LEMMA ReadIsBlocks == \A q \in Seq(Version) : q \in Seq(Block)
<1> SUFFICES ASSUME NEW q \in Seq(Version) PROVE q \in Seq(Block)
  OBVIOUS
<1>1. q \in [1 .. Len(q) -> Version] /\ Len(q) \in Nat
  BY LenProperties
<1>2. q \in [1 .. Len(q) -> Block]
  BY <1>1, Numbers
<1> QED
  BY <1>1, <1>2

(* What the two sides put on the wire are frames.                           *)
LEMMA FrameTypes ==
    \A i \in TransferId :
        /\ \A v \in Version : FileOffer(i, v) \in AnyFrame
        /\ \A o \in 0 .. Size, h \in Seq(Block) : FileAccept(i, o, h) \in AnyFrame
        /\ FileReject(i) \in AnyFrame /\ FileRestart(i) \in AnyFrame
        /\ FileCancel(i) \in AnyFrame /\ Disconnected(i) \in AnyFrame
        /\ \A o \in 0 .. Size, s \in Nat, v \in Version : Chunk(i, o, s, v) \in AnyFrame
        /\ \A s \in Nat : ChunkAck(i, s) \in AnyFrame
        /\ \A h \in Seq(Block) : FileDone(i, h) \in AnyFrame
  BY DEF AnyFrame, FileOffer, FileAccept, FileReject, FileRestart, FileCancel, Disconnected, Chunk,
         ChunkAck, FileDone

(* The fields of a frame, by its kind.                                      *)
LEMMA FrameFields ==
    \A f \in AnyFrame :
        /\ f.id \in TransferId
        /\ f.kind = "file_offer" => f.token \in Version
        /\ f.kind = "file_accept" => f.offset \in 0 .. Size /\ f.hash \in Seq(Block)
        /\ f.kind = "chunk" => f.offset \in 0 .. Size /\ f.seq \in Nat /\ f.block \in Version
        /\ f.kind = "chunk_ack" => f.seq \in Nat
        /\ f.kind = "file_done" => f.hash \in Seq(Block)
  BY DEF AnyFrame

(* A push, and a push whose failure is ignored, keep the types.             *)
LEMMA PushTypes ==
    ASSUME NEW w \in [End -> Seq(AnyFrame)], NEW e \in End, NEW f \in AnyFrame
    PROVE  Push(w, e, f) \in [End -> Seq(AnyFrame)] /\ TryPush(w, e, f) \in [End -> Seq(AnyFrame)]
<1>1. Peer(e) \in End
  BY EndFacts
<1>2. Append(w[Peer(e)], f) \in Seq(AnyFrame)
  BY <1>1
<1> QED
  BY <1>1, <1>2 DEF Push, TryPush

(* The frame at the head of a channel, and the channels without it.         *)
LEMMA HeadTypes ==
    ASSUME Typed, NEW e \in End, wire[e] # <<>>
    PROVE  Frame(e) \in AnyFrame /\ Consumed(e) \in [End -> Seq(AnyFrame)]
<1>1. wire[e] \in Seq(AnyFrame)
  BY DEF Typed
<1>2. Head(wire[e]) \in AnyFrame /\ Tail(wire[e]) \in Seq(AnyFrame)
  BY <1>1, HeadTailProperties
<1> QED
  BY <1>2 DEF Typed, Frame, Consumed

(* The reply a task reads is a frame, and the rest of its queue too.        *)
LEMMA ReplyTypes ==
    ASSUME Typed, NEW i \in TransferId, mail[i] # <<>>
    PROVE  Reply(i) \in AnyFrame /\ Tail(mail[i]) \in Seq(AnyFrame)
<1>1. mail[i] \in Seq(AnyFrame)
  BY DEF Typed
<1> QED
  BY <1>1, HeadTailProperties DEF Reply

(* A task that goes on as j.                                                *)
Becomes(i, j) == job' = [job EXCEPT ![i] = j]

(* A task that becomes another job keeps the types of the jobs.             *)
LEMMA BecomesTypes ==
    ASSUME Typed, Reads, NEW i \in TransferId, NEW j \in Job, ReadsOf(j), Becomes(i, j)
    PROVE  job' \in [TransferId -> Job] /\ Reads'
<1>1. job' \in [TransferId -> Job]
  BY DEF Typed, Becomes
<1>2. \A k \in TransferId : job'[k] = IF k = i THEN j ELSE job[k]
  BY DEF Typed, Becomes
<1> QED
  BY <1>1, <1>2 DEF Reads

(* The end of a task.                                                       *)
Ended(j, s) == [j EXCEPT !.pc = "over", !.state = s, !.paused = FALSE]

(* The end of a task keeps the types.                                       *)
LEMMA FinishTypes ==
    ASSUME Typed, Reads, NEW i \in TransferId, NEW s \in JobState, finish_outgoing(i, s),
           job[i].pc # "none"
    PROVE  /\ job' \in [TransferId -> Job] /\ Reads'
           /\ mail' \in [TransferId -> Seq(AnyFrame)]
           /\ Becomes(i, Ended(job[i], s))
<1>1. job[i] \in Job /\ ReadsOf(job[i])
  BY DEF Typed, Reads
<1>2. Ended(job[i], s) \in Job
  BY <1>1 DEF Ended, Job, Pc
<1>3. ReadsOf(Ended(job[i], s))
  BY <1>1 DEF Ended, ReadsOf, Job
<1>4. Becomes(i, Ended(job[i], s))
  BY DEF finish_outgoing, Becomes, Ended
<1>5. mail' \in [TransferId -> Seq(AnyFrame)]
  <2>1. <<>> \in Seq(AnyFrame)
    OBVIOUS
  <2> QED
    BY <2>1 DEF finish_outgoing, Typed
<1> QED
  BY <1>1, <1>2, <1>3, <1>4, <1>5, BecomesTypes

(* A step that sends a frame.                                               *)
LEMMA SendTypes ==
    ASSUME Typed, Reads, NEW i \in TransferId, NEW f \in AnyFrame, NEW j \in Job, ReadsOf(j),
           SendOrFail(i, f, j), job[i].pc # "none"
    PROVE  /\ job' \in [TransferId -> Job] /\ Reads'
           /\ mail' \in [TransferId -> Seq(AnyFrame)]
           /\ wire' \in [End -> Seq(AnyFrame)]
<1>1. wire \in [End -> Seq(AnyFrame)] /\ mail \in [TransferId -> Seq(AnyFrame)]
  BY DEF Typed
<1>2. CASE session["sender"]
  <2>1. Becomes(i, j) /\ wire' = Push(wire, "sender", f) /\ mail' = mail
    BY <1>2 DEF SendOrFail, Becomes
  <2> QED
    BY <1>1, <2>1, BecomesTypes, PushTypes, EndFacts
<1>3. CASE ~session["sender"]
  <2>1. finish_outgoing(i, "failed") /\ wire' = wire
    BY <1>3 DEF SendOrFail
  <2>2. "failed" \in JobState
    BY DEF JobState
  <2> QED
    BY <1>1, <2>1, <2>2, FinishTypes
<1> QED
  BY <1>2, <1>3

(* A frame the sender may push beside a step.                               *)
LEMMA MayPushTypes ==
    ASSUME Typed, NEW e \in End, NEW f \in AnyFrame, wire' = wire \/ wire' = TryPush(wire, e, f)
    PROVE  wire' \in [End -> Seq(AnyFrame)]
<1>1. wire \in [End -> Seq(AnyFrame)]
  BY DEF Typed
<1> QED
  BY <1>1, PushTypes

-----------------------------------------------------------------------------
(* The steps of the sender keep the types.                                 *)

(* Every step of the sender keeps the types.                                *)
LEMMA SenderTypes ==
    ASSUME Typing, NEW i \in TransferId,
           \/ SendFile(i) \/ CancelOutgoing(i) \/ \E p \in BOOLEAN : SetPaused(i, p)
           \/ Task(i) \/ TimeOut(i)
    PROVE  Typing'
<1> USE DEF Typing
<1>0. job[i] \in Job /\ ReadsOf(job[i])
  BY DEF Typed, Reads
<1> DEFINE Jobs == job' \in [TransferId -> Job] /\ Reads'
           Mails == mail' \in [TransferId -> Seq(AnyFrame)]
           Wires == wire' \in [End -> Seq(AnyFrame)]
<1>a. ASSUME Jobs, Mails, Wires, UNCHANGED <<inc, disk, session, ending>>, src' = src,
             faults' \in 0 .. MaxFaults
      PROVE  Typing'
  BY <1>a DEF Typed, Files, disk
<1>b. ASSUME UNCHANGED wire PROVE Wires
  BY <1>b DEF Typed
<1>c. ASSUME UNCHANGED faults PROVE faults' \in 0 .. MaxFaults
  BY <1>c DEF Typed
<1>d. ASSUME UNCHANGED mail PROVE Mails
  BY <1>d DEF Typed
<1>e. ASSUME UNCHANGED job PROVE Jobs
  BY <1>e DEF Typed, Reads
<1> HIDE DEF Jobs, Mails, Wires
<1>1. CASE SendFile(i)
  <2> DEFINE j == [NoJob EXCEPT !.pc = "offer", !.state = "open", !.token = src]
  <2>1. NoJob \in Job /\ NoJob.read = <<>>
    <3>1. <<>> \in Seq(Version) /\ 0 \in 0 .. Size /\ 0 \in 0 .. Window /\ 0 \in Block
      BY Numbers
    <3> QED
      BY <3>1 DEF NoJob, Job, Pc, JobState
  <2>2. j \in Job /\ j.read = <<>> /\ j.pc = "offer" /\ j.token \in Version
    <3>1. src \in Version /\ src \in Block
      BY Numbers DEF Typed
    <3> QED
      BY <2>1, <3>1 DEF Job, Pc, JobState
  <2>3. ReadsOf(j)
    <3> HIDE DEF j
    <3>1. Len(j.read) = 0
      BY <2>2
    <3> QED
      BY <2>2, <3>1, Numbers DEF ReadsOf
  <2>4. Becomes(i, j)
    BY <1>1 DEF SendFile, Becomes
  <2>5. Jobs
    BY <2>2, <2>3, <2>4, BecomesTypes DEF Jobs
  <2> QED
    BY <1>1, <1>a, <1>b, <1>c, <1>d, <2>5 DEF SendFile, disk, net
<1>2. CASE CancelOutgoing(i)
  <2>1. FileCancel(i) \in AnyFrame /\ mail[i] \in Seq(AnyFrame)
    BY FrameTypes DEF Typed
  <2>2. Append(mail[i], FileCancel(i)) \in Seq(AnyFrame)
    BY <2>1
  <2>3. Mails
    BY <1>2, <2>2 DEF CancelOutgoing, Typed, Mails
  <2> QED
    BY <1>2, <1>a, <1>b, <1>c, <1>e, <2>3 DEF CancelOutgoing, disk, net
<1>3. CASE \E p \in BOOLEAN : SetPaused(i, p)
  <2>1. PICK p \in BOOLEAN : SetPaused(i, p)
    BY <1>3
  <2>2. [job[i] EXCEPT !.paused = p] \in Job /\ ReadsOf([job[i] EXCEPT !.paused = p])
    BY <1>0 DEF Job, ReadsOf
  <2>3. Becomes(i, [job[i] EXCEPT !.paused = p])
    BY <2>1 DEF SetPaused, Becomes
  <2>4. Jobs
    BY <2>2, <2>3, BecomesTypes DEF Jobs
  <2> QED
    BY <2>1, <1>a, <1>b, <1>c, <1>d, <2>4 DEF SetPaused, disk, net
<1>4. CASE Offer(i)
  <2>0. job[i].pc = "offer"
    BY <1>4 DEF Offer
  <2>1. FileOffer(i, job[i].token) \in AnyFrame
    BY <1>0, <2>0, FrameTypes DEF ReadsOf
  <2>2. [job[i] EXCEPT !.pc = "wait"] \in Job /\ ReadsOf([job[i] EXCEPT !.pc = "wait"])
    BY <1>0, <2>0 DEF Job, ReadsOf, Pc
  <2>3. SendOrFail(i, FileOffer(i, job[i].token), [job[i] EXCEPT !.pc = "wait"])
    BY <1>4 DEF Offer
  <2>4. Jobs /\ Mails /\ Wires
    BY <2>0, <2>1, <2>2, <2>3, SendTypes DEF Jobs, Mails, Wires
  <2> QED
    BY <1>4, <1>a, <1>c, <2>4 DEF Offer, disk
<1>5. CASE Accepted(i)
  <2> DEFINE r == Reply(i)
             o == IF r.offset = 0 \/ partial_matches(r) THEN r.offset ELSE 0
             j == [job[i] EXCEPT !.pc = "open", !.sent = o]
  <2>1. r \in AnyFrame /\ Tail(mail[i]) \in Seq(AnyFrame) /\ r.kind = "file_accept"
    BY <1>5, ReplyTypes DEF Accepted, Answered
  <2>2. o \in 0 .. Size
    BY <2>1, FrameFields, Numbers
  <2>3. j \in Job /\ ReadsOf(j)
    <3> HIDE DEF o
    <3> QED
      BY <1>0, <1>5, <2>2 DEF Job, ReadsOf, Pc, Accepted
  <2>4. Becomes(i, j)
    BY <1>5 DEF Accepted, Becomes
  <2>5. Jobs
    BY <2>3, <2>4, BecomesTypes DEF Jobs
  <2>6. Wires
    <3>1. wire' = wire \/ wire' = TryPush(wire, "sender", FileRestart(i))
      BY <1>5 DEF Accepted
    <3>2. FileRestart(i) \in AnyFrame
      BY FrameTypes
    <3> QED
      BY <3>1, <3>2, MayPushTypes, EndFacts DEF Wires
  <2>7. Mails
    BY <1>5, <2>1 DEF Accepted, TakeReply, Typed, Mails
  <2> QED
    BY <1>5, <1>a, <1>c, <2>5, <2>6, <2>7 DEF Accepted, disk
<1>6. CASE NotAccepted(i)
  <2>1. PICK s \in JobState : finish_outgoing(i, s)
    BY <1>6 DEF NotAccepted, JobState
  <2>2. Jobs /\ Mails
    BY <1>6, <2>1, FinishTypes DEF Jobs, Mails, NotAccepted
  <2> QED
    BY <1>6, <1>a, <1>b, <1>c, <2>2 DEF NotAccepted, disk, net
<1>7. CASE OpenSource(i)
  <2> DEFINE n == job[i].sent
             j == [job[i] EXCEPT !.pc = "turn", !.read = Blocks(n)]
  <2>1. n \in 0 .. Size /\ n \in Nat
    BY <1>0, Numbers DEF Job
  <2>2. Blocks(n) \in [1 .. n -> Version]
    BY DEF Blocks, Typed
  <2>3. Blocks(n) \in Seq(Version) /\ Len(Blocks(n)) = n
    BY <2>1, <2>2
  <2>4. j \in Job
    BY <1>0, <2>3 DEF Job, Pc
  <2>5. ReadsOf(j)
    BY <1>0, <1>7, <2>1, <2>3, Numbers DEF ReadsOf, Job, OpenSource
  <2>6. Becomes(i, j)
    BY <1>7 DEF OpenSource, Becomes
  <2>7. Jobs
    BY <2>4, <2>5, <2>6, BecomesTypes DEF Jobs
  <2> QED
    BY <1>7, <1>a, <1>b, <1>c, <1>d, <2>7 DEF OpenSource, disk, net
<1>8. CASE StartRound(i) \/ WindowFull(i)
  <2>1. PICK p \in {"fill", "ack"} : job' = [job EXCEPT ![i].pc = p]
    BY <1>8 DEF StartRound, WindowFull
  <2>2. job[i].pc \in {"turn", "fill"}
    BY <1>8 DEF StartRound, WindowFull
  <2>3. [job[i] EXCEPT !.pc = p] \in Job /\ ReadsOf([job[i] EXCEPT !.pc = p])
    BY <1>0, <2>2 DEF Job, ReadsOf, Pc
  <2>4. Becomes(i, [job[i] EXCEPT !.pc = p])
    BY <2>1 DEF Becomes
  <2>5. Jobs
    BY <2>3, <2>4, BecomesTypes DEF Jobs
  <2> QED
    BY <1>8, <1>a, <1>b, <1>c, <1>d, <2>5 DEF StartRound, WindowFull, disk, net
<1>9. CASE SendChunk(i)
  <2> DEFINE j == job[i]
             next == [j EXCEPT !.read = Append(@, src), !.sent = @ + 1, !.seq = @ + 1, !.inFlight = @ + 1]
  <2>1. /\ j.sent \in 0 .. Size /\ j.sent < Size /\ j.seq \in Nat /\ j.inFlight \in 0 .. Window
        /\ j.inFlight < Window /\ j.read \in Seq(Version) /\ Len(j.read) = j.sent
    BY <1>0, <1>9 DEF SendChunk, Room, Job, ReadsOf
  <2>2. /\ j.sent + 1 \in 0 .. Size /\ j.seq + 1 \in Nat /\ j.inFlight + 1 \in 0 .. Window
    <3>1. ASSUME NEW m \in Nat, NEW k \in 0 .. m, k < m PROVE k + 1 \in 0 .. m
      BY <3>1
    <3> HIDE DEF j
    <3> QED
      BY <2>1, <3>1, Numbers
  <2>3. Append(j.read, src) \in Seq(Version) /\ Len(Append(j.read, src)) = Len(j.read) + 1
    BY <2>1, AppendProperties DEF Typed
  <2>4. next \in Job
    BY <1>0, <2>2, <2>3 DEF Job
  <2>5. ReadsOf(next)
    BY <1>0, <1>9, <2>1, <2>2, <2>3, Numbers DEF ReadsOf, Job, SendChunk
  <2>6. Chunk(i, j.sent, j.seq + 1, src) \in AnyFrame
    BY <2>1, <2>2, FrameTypes DEF Typed
  <2>7. SendOrFail(i, Chunk(i, j.sent, j.seq + 1, src), next)
    BY <1>9 DEF SendChunk
  <2>8. Jobs /\ Mails /\ Wires
    <3> HIDE DEF next
    <3> QED
      BY <1>9, <2>4, <2>5, <2>6, <2>7, SendTypes DEF Jobs, Mails, Wires, SendChunk
  <2> QED
    BY <1>9, <1>a, <1>c, <2>8 DEF SendChunk, disk
<1>10. CASE SendDone(i)
  <2> DEFINE j == [job[i] EXCEPT !.pc = "confirm"]
  <2>1. FileDone(i, job[i].read) \in AnyFrame
    BY <1>0, FrameTypes, ReadIsBlocks DEF Job
  <2>2. j \in Job /\ ReadsOf(j)
    BY <1>0, <1>10 DEF Job, ReadsOf, Pc, SendDone
  <2>3. SendOrFail(i, FileDone(i, job[i].read), j)
    BY <1>10 DEF SendDone
  <2>4. Jobs /\ Mails /\ Wires
    BY <1>10, <2>1, <2>2, <2>3, SendTypes DEF Jobs, Mails, Wires, SendDone
  <2> QED
    BY <1>10, <1>a, <1>c, <2>4 DEF SendDone, disk
<1>11. CASE Acknowledged(i)
  <2> DEFINE s == Reply(i).seq
             n == Outstanding(job[i], s)
             j == [job[i] EXCEPT !.pc = "turn", !.acked = s, !.inFlight = n]
  <2>1. s \in Nat /\ Tail(mail[i]) \in Seq(AnyFrame)
    BY <1>11, ReplyTypes, FrameFields DEF Acknowledged, Answered
  <2>2. n \in 0 .. Window
    <3>1. job[i].inFlight \in 0 .. Window /\ job[i].acked \in Nat
      BY <1>0 DEF Job
    <3> DEFINE w == job[i].inFlight
               d == Minus(s, job[i].acked)
    <3>2. n = Minus(w, d)
      BY DEF Outstanding
    <3>3. d \in Nat
      BY <2>1, <3>1 DEF Minus
    <3> HIDE DEF w, d, n
    <3>4. w \in 0 .. Window /\ Window \in Nat
      BY <3>1, Numbers DEF w
    <3> QED
      BY ONLY <3>2, <3>3, <3>4 DEF Minus
  <2>3. j \in Job
    <3> HIDE DEF n
    <3> QED
      BY <1>0, <2>1, <2>2 DEF Job, Pc
  <2>4. ReadsOf(j)
    BY <1>0, <1>11 DEF ReadsOf, Job, Acknowledged, Reading
  <2>5. Becomes(i, j)
    BY <1>11 DEF Acknowledged, Becomes
  <2>6. Jobs
    BY <2>3, <2>4, <2>5, BecomesTypes DEF Jobs
  <2>7. Mails
    BY <1>11, <2>1 DEF Acknowledged, TakeReply, Typed, Mails
  <2> QED
    BY <1>11, <1>a, <1>b, <1>c, <2>6, <2>7 DEF Acknowledged, disk, net
<1>12. CASE Interrupted(i)
  <2>1. PICK s \in JobState : finish_outgoing(i, s)
    BY <1>12 DEF Interrupted, JobState
  <2>2. Wires
    <3>1. wire' = wire \/ wire' = TryPush(wire, "sender", FileCancel(i))
      BY <1>12 DEF Interrupted
    <3>2. FileCancel(i) \in AnyFrame
      BY FrameTypes
    <3> QED
      BY <3>1, <3>2, MayPushTypes, EndFacts DEF Wires
  <2>3. Jobs /\ Mails
    BY <1>12, <2>1, FinishTypes DEF Jobs, Mails, Interrupted, Reading
  <2> QED
    BY <1>12, <1>a, <1>c, <2>2, <2>3 DEF Interrupted, disk
<1>13. CASE Confirmed(i)
  <2>1. wire' = wire
    BY <1>13 DEF Confirmed
  <2>2. CASE \E s \in JobState : finish_outgoing(i, s)
    <3>1. Jobs /\ Mails
      BY <1>13, <2>2, FinishTypes DEF Jobs, Mails, Confirmed
    <3> QED
      BY <1>13, <1>a, <1>b, <1>c, <2>1, <3>1 DEF Confirmed, disk
  <2>3. CASE TakeReply(i) /\ job' = job
    <3>1. Tail(mail[i]) \in Seq(AnyFrame)
      BY <1>13, ReplyTypes DEF Confirmed, Answered
    <3>2. Mails
      BY <2>3, <3>1 DEF TakeReply, Typed, Mails
    <3> QED
      BY <1>13, <1>a, <1>b, <1>c, <1>e, <2>1, <2>3, <3>2 DEF Confirmed, disk
  <2> QED
    BY <1>13, <2>2, <2>3 DEF Confirmed, JobState
<1>14. CASE TimeOut(i)
  <2>1. finish_outgoing(i, "failed") /\ faults' \in 0 .. MaxFaults
    BY <1>14, Numbers DEF TimeOut, Fault, Typed
  <2>2. "failed" \in JobState
    BY DEF JobState
  <2>3. Jobs /\ Mails
    BY <1>14, <2>1, <2>2, FinishTypes DEF Jobs, Mails, TimeOut
  <2> QED
    BY <1>14, <1>a, <1>b, <2>1, <2>3 DEF TimeOut, disk, net
<1> QED
  BY <1>1, <1>2, <1>3, <1>4, <1>5, <1>6, <1>7, <1>8, <1>9, <1>10, <1>11, <1>12, <1>13, <1>14
  DEF Task

-----------------------------------------------------------------------------
(* The steps of the receiver and of the sessions keep the types.           *)

EntryFits(e, n) == e.handle <= n /\ (e.handle # 0 => e.hash # NoHash)

Entries ==
    /\ inc \in [TransferId -> Entry]
    /\ \A i \in TransferId : EntryFits(inc[i], Len(data))

Paths == link \in [TransferId -> Nat] /\ \A i \in TransferId : link[i] <= Len(data)

Contents == data \in Seq(Seq(Block)) /\ \A n \in 1 .. Len(data) : Len(data[n]) <= Size

Kept == saved \in [TransferId -> Nat] /\ \A i \in TransferId : saved[i] <= Len(data)

(* What the typing says of the receiver, taken apart.                       *)
LEMMA DiskTypes == Typing => Entries /\ Paths /\ Contents /\ Kept
  BY DEF Typing, Typed, Files, Entries, Paths, Contents, Kept, EntryFits

(* What a step of the receiver has to keep.                                 *)
LEMMA ReceiverStep ==
    ASSUME Typing, UNCHANGED <<src, job>>, mail' \in [TransferId -> Seq(AnyFrame)],
           Entries', Paths', Contents', Kept',
           meta' \in [Version -> TransferId \cup {0}],
           session' \in [End -> BOOLEAN], ending' \in [End -> BOOLEAN],
           wire' \in [End -> Seq(AnyFrame)], faults' \in 0 .. MaxFaults
    PROVE  Typing'
  BY DEF Typing, Typed, Files, Reads, Entries, Paths, Contents, Kept, EntryFits

(* What a step leaves alone keeps its types.                                *)
LEMMA UnchangedTypes ==
    ASSUME Typing
    PROVE  /\ UNCHANGED mail => mail' \in [TransferId -> Seq(AnyFrame)]
           /\ UNCHANGED <<inc, data>> => Entries'
           /\ UNCHANGED <<link, data>> => Paths'
           /\ UNCHANGED data => Contents'
           /\ UNCHANGED <<saved, data>> => Kept'
           /\ UNCHANGED meta => meta' \in [Version -> TransferId \cup {0}]
           /\ UNCHANGED session => session' \in [End -> BOOLEAN]
           /\ UNCHANGED ending => ending' \in [End -> BOOLEAN]
           /\ UNCHANGED wire => wire' \in [End -> Seq(AnyFrame)]
           /\ UNCHANGED faults => faults' \in 0 .. MaxFaults
  BY DEF Typing, Typed, Files, Entries, Paths, Contents, Kept, EntryFits

(* An entry that becomes e while the files stay, or one is added.           *)
LEMMA EntryTypes ==
    ASSUME Typing, NEW i \in TransferId, NEW e \in Entry, EntryFits(e, Len(data')),
           data' \in Seq(Seq(Block)), Len(data) <= Len(data'), inc' = [inc EXCEPT ![i] = e]
    PROVE  Entries'
<1>1. Len(data) \in Nat /\ Len(data') \in Nat
  BY DiskTypes, LenProperties DEF Contents
<1>2. inc \in [TransferId -> Entry] /\ \A k \in TransferId : EntryFits(inc[k], Len(data))
  BY DiskTypes DEF Entries
<1>3. inc' \in [TransferId -> Entry]
  BY <1>2
<1>4. \A k \in TransferId : EntryFits(inc'[k], Len(data'))
  <2> SUFFICES ASSUME NEW k \in TransferId PROVE EntryFits(inc'[k], Len(data'))
    OBVIOUS
  <2>1. CASE k = i
    BY <1>2, <2>1
  <2>2. CASE k # i
    <3>1. inc'[k] = inc[k] /\ inc[k].handle \in Nat
      BY <1>2, <2>2 DEF Entry
    <3> QED
      BY <1>1, <1>2, <3>1 DEF EntryFits
  <2> QED
    BY <2>1, <2>2
<1> QED
  BY <1>3, <1>4 DEF Entries

(* The entry of a transfer, and the entry closed.                           *)
LEMMA ClosedTypes ==
    ASSUME Typing, NEW i \in TransferId, NEW s \in EntryState, NEW n \in Nat
    PROVE  /\ inc[i] \in Entry /\ EntryFits(inc[i], Len(data))
           /\ [inc[i] EXCEPT !.state = s, !.handle = 0] \in Entry
           /\ EntryFits([inc[i] EXCEPT !.state = s, !.handle = 0], n)
<1>1. inc[i] \in Entry /\ EntryFits(inc[i], Len(data))
  BY DiskTypes DEF Entries
<1> DEFINE e == [inc[i] EXCEPT !.state = s, !.handle = 0]
<1>2. e \in Entry /\ e.handle = 0
  BY <1>1 DEF Entry
<1> HIDE DEF e
<1>3. EntryFits(e, n)
  BY <1>2 DEF EntryFits
<1> QED
  BY <1>1, <1>2, <1>3 DEF e

(* A discarded entry keeps the types of entries and paths.                  *)
LEMMA DiscardTypes ==
    ASSUME Typing, NEW e \in Entry, Discard(e)
    PROVE  Paths' /\ Contents' /\ Kept' /\ meta' \in [Version -> TransferId \cup {0}]
           /\ data' = data
<1>1. Paths /\ Contents /\ Kept /\ meta \in [Version -> TransferId \cup {0}]
  BY DiskTypes DEF Typing, Typed
<1>2. data' = data /\ saved' = saved
  BY DEF Discard
<1>3. Len(data) \in Nat
  BY <1>1 DEF Contents
<1>4. link' \in [TransferId -> Nat] /\ \A i \in TransferId : link'[i] = link[i] \/ link'[i] = 0
  BY <1>1 DEF Discard, Paths
<1>5. Paths'
  BY <1>1, <1>2, <1>3, <1>4 DEF Paths
<1>6. meta' \in [Version -> TransferId \cup {0}]
  BY <1>1 DEF Discard
<1> QED
  BY <1>1, <1>2, <1>5, <1>6 DEF Contents, Kept

(* The entry that fails, and its path.                                      *)
LEMMA FailedTypes ==
    ASSUME NEW e \in Entry, NEW n \in Nat, NEW l \in [TransferId -> Nat],
           \A i \in TransferId : l[i] <= n
    PROVE  /\ FailedEntry(e) \in Entry /\ FailedEntry(e).handle = 0
           /\ Unlink(l, e) \in [TransferId -> Nat]
           /\ \A i \in TransferId : Unlink(l, e)[i] <= n
<1>1. FailedEntry(e) \in Entry /\ FailedEntry(e).handle = 0
  BY DEF FailedEntry, Entry, EntryState
<1>2. CASE e.received = 0 /\ e.temp # 0
  <2>1. e.temp \in TransferId /\ Unlink(l, e) = [l EXCEPT ![e.temp] = 0]
    BY <1>2 DEF Unlink, Entry
  <2> DEFINE t == e.temp
  <2>2. t \in TransferId /\ Unlink(l, e) = [l EXCEPT ![t] = 0]
    BY <2>1
  <2> HIDE DEF t
  <2>3. \A i \in TransferId : Unlink(l, e)[i] = l[i] \/ Unlink(l, e)[i] = 0
    BY <2>2
  <2>4. Unlink(l, e) \in [TransferId -> Nat]
    BY <2>2
  <2> QED
    BY <1>1, <2>3, <2>4
<1>3. CASE ~(e.received = 0 /\ e.temp # 0)
  BY <1>1, <1>3 DEF Unlink
<1> QED
  BY <1>2, <1>3

-----------------------------------------------------------------------------
(* What Opened computes.                                                   *)

(* Opening a .part keeps the types of the receiver.                         *)
LEMMA OpenedTypes ==
    ASSUME Typing, NEW i \in TransferId
    PROVE  LET o == Opened(i)
           IN  /\ o.entry \in Entry /\ o.entry.received = inc[i].received
               /\ o.data \in Seq(Seq(Block)) /\ Len(data) <= Len(o.data)
               /\ \A n \in 1 .. Len(o.data) : Len(o.data[n]) <= Size
               /\ EntryFits(o.entry, Len(o.data))
               /\ o.link \in [TransferId -> Nat]
               /\ \A k \in TransferId : o.link[k] <= Len(o.data)
               /\ o.meta \in [Version -> TransferId \cup {0}]
<1> DEFINE e == inc[i]
           p == IF e.temp = 0 THEN i ELSE e.temp
           n == IF link[p] = 0 THEN Len(data) + 1 ELSE link[p]
           found == IF link[p] = 0 THEN Append(data, <<>>) ELSE data
           files == IF e.received = 0 THEN [found EXCEPT ![n] = <<>>] ELSE found
           short == Len(files[n]) < e.received
           h == IF short THEN e.hash ELSE SubSeq(files[n], 1, e.received)
           next == [e EXCEPT !.temp = p, !.handle = IF short THEN 0 ELSE n,
                             !.hash = h, !.state = "in_progress"]
<1>1. /\ e \in Entry /\ EntryFits(e, Len(data))
      /\ Paths /\ Contents /\ meta \in [Version -> TransferId \cup {0}]
  BY DiskTypes DEF Typing, Typed, Entries
<1>2. data \in Seq(Seq(Block)) /\ Len(data) \in Nat /\ <<>> \in Seq(Block)
  BY <1>1 DEF Contents
<1>3. p \in TransferId
  BY <1>1 DEF Entry
<1>4. /\ found \in Seq(Seq(Block)) /\ Len(data) <= Len(found) /\ n \in 1 .. Len(found)
      /\ \A k \in 1 .. Len(found) : Len(found[k]) <= Size
  <2>1. CASE link[p] = 0
    <3>1. /\ found \in Seq(Seq(Block)) /\ Len(found) = Len(data) + 1
          /\ \A k \in 1 .. Len(data) : found[k] = data[k]
          /\ found[Len(data) + 1] = <<>>
      BY <1>2, <2>1, AppendProperties
    <3>2. Len(<<>>) = 0
      OBVIOUS
    <3>3. \A k \in 1 .. Len(found) : k \in 1 .. Len(data) \/ k = Len(data) + 1
      BY <1>2, <3>1
    <3>4. n \in 1 .. Len(found) /\ Len(data) <= Len(found)
      BY <1>2, <2>1, <3>1
    <3> HIDE DEF found
    <3>5. \A k \in 1 .. Len(found) : Len(found[k]) <= Size
      <4> SUFFICES ASSUME NEW k \in 1 .. Len(found) PROVE Len(found[k]) <= Size
        OBVIOUS
      <4>1. CASE k \in 1 .. Len(data)
        BY <1>1, <3>1, <4>1 DEF Contents
      <4>2. CASE k = Len(data) + 1
        BY <3>1, <3>2, <4>2, Numbers
      <4> QED
        BY <3>3, <4>1, <4>2
    <3> QED
      BY <3>1, <3>4, <3>5
  <2>2. CASE link[p] # 0
    <3>1. link[p] \in Nat /\ link[p] <= Len(data)
      BY <1>1, <1>3 DEF Paths
    <3> QED
      BY <1>1, <1>2, <2>2, <3>1 DEF Contents
  <2> QED
    BY <2>1, <2>2
<1>5. /\ files \in Seq(Seq(Block)) /\ Len(files) = Len(found)
      /\ \A k \in 1 .. Len(files) : Len(files[k]) <= Size
  <2> HIDE DEF found, n
  <2>1. CASE e.received = 0
    <3>1. files = [found EXCEPT ![n] = <<>>]
      BY <2>1
    <3>2. files \in Seq(Seq(Block)) /\ Len(files) = Len(found)
      BY <1>2, <1>4, <3>1, ExceptSeq
    <3>3. \A k \in 1 .. Len(files) : files[k] = <<>> \/ files[k] = found[k]
      BY <1>4, <3>1, <3>2
    <3>4. Len(<<>>) <= Size
      BY Numbers
    <3> HIDE DEF files
    <3> QED
      BY <1>4, <3>2, <3>3, <3>4
  <2>2. CASE e.received # 0
    BY <1>4, <2>2
  <2> QED
    BY <2>1, <2>2
<1>6. /\ next \in Entry /\ next.received = e.received
      /\ EntryFits(next, Len(files))
  <2> HIDE DEF files
  <2>1. files[n] \in Seq(Block) /\ Len(files[n]) \in Nat /\ n \in Nat /\ n <= Len(files)
    BY <1>4, <1>5
  <2>2. e.received \in Nat
    BY <1>1, Numbers DEF Entry
  <2>3. h \in Seq(Block) \cup {NoHash} /\ (~short => h \in Seq(Block))
    <3>1. CASE short
      BY <1>1, <3>1 DEF Entry
    <3>2. CASE ~short
      <4> DEFINE q == files[n]
                 r == e.received
      <4>1. q \in Seq(Block) /\ r \in Nat /\ r <= Len(q)
        BY <2>1, <2>2, <3>2
      <4>2. h = SubSeq(q, 1, r)
        BY <3>2
      <4> HIDE DEF q, r
      <4>3. \A k \in 1 .. r : q[k] \in Block
        BY <4>1
      <4>4. SubSeq(q, 1, r) \in Seq(Block)
        BY ONLY <4>1, <4>3, SubSeqProperties
      <4> HIDE DEF h
      <4> QED
        BY <4>2, <4>4
    <3> QED
      BY <3>1, <3>2
  <2>4. IF short THEN TRUE ELSE h # NoHash
    BY <2>3, Numbers
  <2> HIDE DEF h, n, short, p
  <2>5. (IF short THEN 0 ELSE n) \in Nat
    BY <2>1
  <2>6. Len(files) \in Nat
    BY <1>5
  <2>7. next \in Entry /\ next.received = e.received /\ next.hash = h
        /\ next.handle = IF short THEN 0 ELSE n
    BY <1>1, <1>3, <2>3, <2>5 DEF Entry, EntryState
  <2> HIDE DEF next
  <2> QED
    BY <2>1, <2>4, <2>6, <2>7 DEF EntryFits
<1>7. /\ [link EXCEPT ![p] = n] \in [TransferId -> Nat]
      /\ \A k \in TransferId : [link EXCEPT ![p] = n][k] <= Len(files)
  <2> HIDE DEF n, p, files, found
  <2>1. n \in Nat /\ n <= Len(files) /\ Len(data) <= Len(files) /\ Len(files) \in Nat
    BY <1>4, <1>5
  <2> QED
    BY <1>1, <1>2, <1>3, <2>1 DEF Paths
<1>8. [meta EXCEPT ![e.token] = p] \in [Version -> TransferId \cup {0}]
  <2> HIDE DEF p
  <2> QED
    BY <1>1, <1>3
<1>9. CASE e.handle = 0 /\ e.state \in {"accepted", "in_progress"}
  <2>1. Opened(i) = [entry |-> next, link |-> [link EXCEPT ![p] = n], data |-> files,
                     meta |-> [meta EXCEPT ![e.token] = p]]
    BY <1>9 DEF Opened
  <2> HIDE DEF next, p, n, files, found
  <2> QED
    BY <1>4, <1>5, <1>6, <1>7, <1>8, <2>1
<1>10. CASE ~(e.handle = 0 /\ e.state \in {"accepted", "in_progress"})
  <2>1. Opened(i) = [entry |-> e, link |-> link, data |-> data, meta |-> meta]
    BY <1>10 DEF Opened
  <2> QED
    BY <1>1, <1>2, <2>1 DEF Paths, Contents
<1> QED
  BY <1>9, <1>10

(* A block written at the end of what is received, or before it.            *)
LEMMA WrittenTypes ==
    ASSUME NEW d \in Seq(Block), NEW o \in Nat, NEW v \in Block, Len(d) <= Size, o < Size
    PROVE  Written(d, o, v) \in Seq(Block) /\ Len(Written(d, o, v)) <= Size
<1> DEFINE m == IF o + 1 > Len(d) THEN o + 1 ELSE Len(d)
<1>1. m \in Nat /\ m <= Size
  BY Numbers
<1>2. Written(d, o, v) \in [1 .. m -> Block]
  <2>1. \A k \in 1 .. m : k <= Len(d) => d[k] \in Block
    BY <1>1
  <2> QED
    BY <2>1, Numbers DEF Written
<1> HIDE DEF m
<1>3. Written(d, o, v) \in Seq(Block) /\ Len(Written(d, o, v)) = m
  BY <1>1, <1>2
<1> QED
  BY <1>1, <1>3

(* What an entry becomes when its transfer ends here or a frame answers it. *)
LEMMA CommandTypes ==
    ASSUME Typing, NEW i \in TransferId,
           AcceptTransfer(i) \/ RejectTransfer(i) \/ CancelIncoming(i)
    PROVE  Typing'
<1>0. /\ Typed /\ "receiver" \in End /\ Len(data) \in Nat /\ data \in Seq(Seq(Block))
      /\ Len(data) <= Len(data)
  BY EndFacts, DiskTypes DEF Typing, Contents
<1>1. CASE AcceptTransfer(i) \/ RejectTransfer(i)
  <2>1. PICK s \in EntryState : inc' = [inc EXCEPT ![i].state = s]
    BY <1>1 DEF AcceptTransfer, RejectTransfer, EntryState
  <2> DEFINE e == [inc[i] EXCEPT !.state = s]
  <2>2. inc[i] \in Entry /\ EntryFits(inc[i], Len(data))
    BY ClosedTypes, <1>0
  <2>3. e \in Entry /\ EntryFits(e, Len(data)) /\ inc' = [inc EXCEPT ![i] = e]
    BY <2>1, <2>2 DEF Entry, EntryFits
  <2>4. UNCHANGED <<src, job, mail, link, data, meta, saved, session, ending, faults>>
    BY <1>1 DEF AcceptTransfer, RejectTransfer, disk
  <2>5. Entries'
    <3> HIDE DEF e
    <3> QED
      BY <1>0, <2>3, <2>4, EntryTypes
  <2>6. wire' \in [End -> Seq(AnyFrame)]
    <3>1. FileAccept(i, inc[i].received, inc[i].prefix) \in AnyFrame /\ FileReject(i) \in AnyFrame
      BY <2>2, FrameTypes DEF Entry
    <3> QED
      BY <1>0, <1>1, <3>1, MayPushTypes DEF AcceptTransfer, RejectTransfer
  <2> QED
    BY <2>4, <2>5, <2>6, ReceiverStep, UnchangedTypes
<1>2. CASE CancelIncoming(i)
  <2> DEFINE e == [inc[i] EXCEPT !.state = "canceled", !.handle = 0]
  <2>1. "canceled" \in EntryState
    BY DEF EntryState
  <2>2. inc[i] \in Entry /\ e \in Entry /\ EntryFits(e, Len(data))
    BY <1>0, <2>1, ClosedTypes
  <2>3. inc' = [inc EXCEPT ![i] = e]
    BY <1>2 DEF CancelIncoming
  <2>4. Discard(inc[i]) /\ UNCHANGED <<src, job, mail, session, ending, faults>>
    BY <1>2 DEF CancelIncoming
  <2>5. /\ Paths' /\ Contents' /\ Kept' /\ meta' \in [Version -> TransferId \cup {0}]
        /\ data' = data
    BY <2>2, <2>4, DiscardTypes
  <2>6. Entries'
    <3> HIDE DEF e
    <3> QED
      BY <1>0, <2>2, <2>3, <2>5, EntryTypes
  <2>7. wire' \in [End -> Seq(AnyFrame)]
    BY <1>0, <1>2, FrameTypes, MayPushTypes DEF CancelIncoming
  <2> QED
    BY <2>4, <2>5, <2>6, <2>7, ReceiverStep, UnchangedTypes
<1> QED
  BY <1>1, <1>2

(* The frames the receiver takes off and answers.                           *)
LEMMA AnswerTypes ==
    ASSUME Typing, NEW k, Incoming("receiver", k)
    PROVE  /\ Frame("receiver") \in AnyFrame /\ Frame("receiver").kind = k
           /\ Consumed("receiver") \in [End -> Seq(AnyFrame)]
           /\ \A f \in AnyFrame : Answer(f) \in [End -> Seq(AnyFrame)]
<1>1. "receiver" \in End /\ wire["receiver"] # <<>> /\ Typed
  BY EndFacts DEF Incoming, Typing
<1>2. Frame("receiver") \in AnyFrame /\ Consumed("receiver") \in [End -> Seq(AnyFrame)]
  BY <1>1, HeadTypes
<1> QED
  BY <1>1, <1>2, PushTypes DEF Answer, Incoming, Frame

(* An entry that is not there.                                              *)
LEMMA EmptyEntry == NoEntry \in Entry /\ NoEntry.handle = 0
<1>1. <<>> \in Seq(Block) /\ 0 \in 0 .. Size /\ 0 \in Block
  BY Numbers
<1> QED
  BY <1>1 DEF NoEntry, Entry, EntryState

(* The saved files stay files when a file is added.                         *)
LEMMA GrowTypes ==
    ASSUME Typing, data' \in Seq(Seq(Block)), Len(data) <= Len(data'), UNCHANGED saved
    PROVE  Kept'
<1>1. Kept /\ Len(data) \in Nat /\ Len(data') \in Nat
  BY DiskTypes, LenProperties DEF Contents
<1> QED
  BY <1>1 DEF Kept

(* Every frame the receiver handles keeps the types.                        *)
LEMMA DispatchTypes ==
    ASSUME Typing, NEW i \in TransferId, Dispatch(i)
    PROVE  Typing'
<1> DEFINE f == Frame("receiver")
           o == Opened(i)
           e == o.entry
<1>0. /\ Typed /\ "receiver" \in End /\ Len(data) \in Nat /\ data \in Seq(Seq(Block))
      /\ Len(data) <= Len(data)
  BY EndFacts, DiskTypes DEF Typing, Contents
<1>1. /\ e \in Entry /\ e.received = inc[i].received
      /\ o.data \in Seq(Seq(Block)) /\ Len(data) <= Len(o.data)
      /\ \A n \in 1 .. Len(o.data) : Len(o.data[n]) <= Size
      /\ EntryFits(e, Len(o.data))
      /\ o.link \in [TransferId -> Nat]
      /\ \A k \in TransferId : o.link[k] <= Len(o.data)
      /\ o.meta \in [Version -> TransferId \cup {0}]
  BY OpenedTypes
<1>2. inc[i] \in Entry /\ EntryFits(inc[i], Len(data))
  BY DiskTypes DEF Entries
<1>3. CASE HandleChunk(i)
  <2>1. /\ f \in AnyFrame /\ f.kind = "chunk" /\ f.id = i
        /\ Consumed("receiver") \in [End -> Seq(AnyFrame)]
        /\ \A g \in AnyFrame : Answer(g) \in [End -> Seq(AnyFrame)]
    BY <1>3, AnswerTypes DEF HandleChunk, ChunkFor
  <2>2. f.seq \in Nat /\ f.block \in Version
    BY <2>1, FrameFields
  <2> HIDE DEF o, f
  <2> DEFINE got == [e EXCEPT !.received = @ + 1, !.hash = Append(@, f.block)]
  <2>3. /\ e.handle # 0 /\ e.received < Size
        /\ inc' = [inc EXCEPT ![i] = got]
        /\ data' = [o.data EXCEPT ![e.handle] = Written(@, e.received, f.block)]
        /\ link' = o.link /\ meta' = o.meta
        /\ wire' = Answer(ChunkAck(i, f.seq)) \/ wire' = Consumed("receiver")
        /\ UNCHANGED <<src, job, mail, saved, session, ending, faults>>
    BY <1>3 DEF HandleChunk, InOrder, o, f
  <2>4. e.handle \in 1 .. Len(o.data) /\ e.hash \in Seq(Block) /\ e.received \in Nat
    <3>1. e.handle \in Nat /\ e.received \in 0 .. Size /\ e.hash \in Seq(Block) \cup {NoHash}
      BY <1>1 DEF Entry
    <3>2. e.handle # 0 /\ e.handle <= Len(o.data) /\ e.hash # NoHash
      BY <1>1, <2>3 DEF EntryFits
    <3>3. Len(o.data) \in Nat
      BY <1>1
    <3> HIDE DEF e
    <3> QED
      BY <3>1, <3>2, <3>3, Numbers
  <2> DEFINE w == Written(o.data[e.handle], e.received, f.block)
  <2>5. w \in Seq(Block) /\ Len(w) <= Size
    <3>1. o.data[e.handle] \in Seq(Block) /\ Len(o.data[e.handle]) <= Size
      BY <1>1, <2>4
    <3>2. f.block \in Block
      BY <2>2, Numbers
    <3> QED
      BY <2>3, <2>4, <3>1, <3>2, WrittenTypes
  <2>6. data' = [o.data EXCEPT ![e.handle] = w]
    BY <2>3
  <2> HIDE DEF w
  <2>7. /\ data' \in Seq(Seq(Block)) /\ Len(data') = Len(o.data)
        /\ \A n \in 1 .. Len(o.data) : data'[n] = IF n = e.handle THEN w ELSE o.data[n]
    BY <1>1, <2>4, <2>5, <2>6, ExceptSeq
  <2>8. Contents'
    BY <1>1, <2>5, <2>7 DEF Contents
  <2>9. Paths'
    BY <1>1, <2>3, <2>7 DEF Paths
  <2>10. Kept'
    BY <1>1, <2>3, <2>7, GrowTypes
  <2>11. got \in Entry /\ EntryFits(got, Len(data'))
    <3>1. e.received + 1 \in 0 .. Size
      BY <2>3, <2>4, Numbers
    <3>2. Append(e.hash, f.block) \in Seq(Block)
      <4>1. f.block \in Block
        BY <2>2, Numbers
      <4> QED
        BY <2>4, <4>1, AppendProperties
    <3> DEFINE h == Append(e.hash, f.block)
    <3> HIDE DEF h
    <3>3. [e EXCEPT !.received = @ + 1, !.hash = h] \in Entry
      BY <1>1, <3>1, <3>2 DEF Entry, h
    <3>4. /\ [e EXCEPT !.received = @ + 1, !.hash = h].handle = e.handle
          /\ [e EXCEPT !.received = @ + 1, !.hash = h].hash = h
      BY <1>1 DEF Entry
    <3>5. h # NoHash
      BY <3>2, Numbers DEF h
    <3>6. EntryFits([e EXCEPT !.received = @ + 1, !.hash = h], Len(data'))
      BY <1>1, <2>4, <2>7, <3>4, <3>5 DEF EntryFits
    <3> QED
      BY <3>3, <3>6 DEF h
  <2>12. Entries'
    <3> HIDE DEF got
    <3> QED
      BY <1>1, <2>3, <2>7, <2>11, EntryTypes
  <2>13. wire' \in [End -> Seq(AnyFrame)]
    BY <2>1, <2>2, <2>3, FrameTypes
  <2> QED
    BY <1>1, <2>3, <2>8, <2>9, <2>10, <2>12, <2>13, ReceiverStep, UnchangedTypes
<1>4. CASE HandleBadChunk(i)
  <2>1. /\ Frame("receiver").id = i
        /\ \A g \in AnyFrame : Answer(g) \in [End -> Seq(AnyFrame)]
    BY <1>4, AnswerTypes DEF HandleBadChunk, ChunkFor
  <2> HIDE DEF o
  <2>2. /\ inc' = [inc EXCEPT ![i] = FailedEntry(e)] /\ data' = o.data
        /\ link' = Unlink(o.link, e) /\ meta' = o.meta
        /\ wire' = Answer(FileCancel(i)) /\ faults' \in {faults, faults + 1}
        /\ faults' = faults \/ faults < MaxFaults
        /\ UNCHANGED <<src, job, mail, saved, session, ending>>
    BY <1>4, <2>1 DEF HandleBadChunk, Fault, o
  <2>3. faults' \in 0 .. MaxFaults
    BY <1>0, <2>2, Numbers DEF Typed
  <2>4. Len(o.data) \in Nat
    BY <1>1
  <2>5. /\ FailedEntry(e) \in Entry /\ EntryFits(FailedEntry(e), Len(o.data))
        /\ link' \in [TransferId -> Nat] /\ \A k \in TransferId : link'[k] <= Len(o.data)
    <3>1. e \in Entry /\ o.link \in [TransferId -> Nat]
          /\ \A k \in TransferId : o.link[k] <= Len(o.data)
      BY <1>1
    <3>2. /\ FailedEntry(e) \in Entry /\ FailedEntry(e).handle = 0
          /\ Unlink(o.link, e) \in [TransferId -> Nat]
          /\ \A k \in TransferId : Unlink(o.link, e)[k] <= Len(o.data)
      <4> DEFINE n == Len(o.data)
                 l == o.link
      <4>1. n \in Nat /\ l \in [TransferId -> Nat] /\ \A k \in TransferId : l[k] <= n
        BY <2>4, <3>1
      <4> HIDE DEF n, l
      <4>2. /\ FailedEntry(e) \in Entry /\ FailedEntry(e).handle = 0
            /\ Unlink(l, e) \in [TransferId -> Nat]
            /\ \A k \in TransferId : Unlink(l, e)[k] <= n
        BY <3>1, <4>1, FailedTypes
      <4> QED
        BY <4>2 DEF n, l
    <3> QED
      BY <2>2, <2>4, <3>2 DEF EntryFits
  <2>6. Paths' /\ Contents' /\ Kept'
    BY <1>1, <2>2, <2>5, GrowTypes DEF Paths, Contents
  <2>7. Entries'
    BY <1>1, <2>2, <2>5, EntryTypes
  <2>8. wire' \in [End -> Seq(AnyFrame)]
    BY <2>1, <2>2, FrameTypes
  <2> QED
    BY <1>1, <2>2, <2>3, <2>6, <2>7, <2>8, ReceiverStep, UnchangedTypes
<1>5. CASE HandleLateChunk(i)
  <2>1. Consumed("receiver") \in [End -> Seq(AnyFrame)]
    BY <1>5, AnswerTypes DEF HandleLateChunk, ChunkFor
  <2>2. /\ inc' = [inc EXCEPT ![i] = NoEntry] /\ wire' = Consumed("receiver")
        /\ UNCHANGED <<src, job, mail, link, data, meta, saved, session, ending, faults>>
    BY <1>5 DEF HandleLateChunk, disk
  <2>3. NoEntry \in Entry /\ EntryFits(NoEntry, Len(data))
    BY <1>0, EmptyEntry DEF EntryFits
  <2>4. Entries'
    BY <1>0, <2>2, <2>3, EntryTypes
  <2> QED
    BY <2>1, <2>2, <2>4, ReceiverStep, UnchangedTypes
<1>6. CASE HandleDone(i)
  <2> DEFINE d == inc[i]
             s == IF d.temp = 0 THEN Len(data) + 1 ELSE link[d.temp]
             next == [d EXCEPT !.state = "done", !.temp = 0, !.handle = 0, !.hash = NoHash]
  <2>1. /\ f \in AnyFrame /\ f.kind = "file_done"
        /\ \A g \in AnyFrame : Answer(g) \in [End -> Seq(AnyFrame)]
    BY <1>6, AnswerTypes DEF HandleDone, DoneFor
  <2>2. f.hash \in Seq(Block)
    BY <2>1, FrameFields
  <2>3. /\ saved' = [saved EXCEPT ![i] = s]
        /\ data' = IF d.temp = 0 THEN Append(data, <<>>) ELSE data
        /\ link' = IF d.temp = 0 THEN link ELSE [link EXCEPT ![d.temp] = 0]
        /\ meta' = [meta EXCEPT ![d.token] = 0]
        /\ inc' = [inc EXCEPT ![i] = next]
        /\ wire' = Answer(FileDone(i, f.hash))
        /\ UNCHANGED <<src, job, mail, session, ending, faults>>
    BY <1>6 DEF HandleDone
  <2> HIDE DEF f
  <2>4. /\ data' \in Seq(Seq(Block)) /\ Len(data) <= Len(data')
        /\ \A n \in 1 .. Len(data') : Len(data'[n]) <= Size
        /\ d.temp = 0 => Len(data') = Len(data) + 1
    <3>1. CASE d.temp = 0
      <4>1. <<>> \in Seq(Block) /\ Len(<<>>) = 0
        OBVIOUS
      <4>2. /\ data' \in Seq(Seq(Block)) /\ Len(data') = Len(data) + 1
            /\ \A n \in 1 .. Len(data) : data'[n] = data[n]
            /\ data'[Len(data) + 1] = <<>>
        BY <1>0, <2>3, <3>1, <4>1, AppendProperties
      <4>3. \A n \in 1 .. Len(data') : n \in 1 .. Len(data) \/ n = Len(data) + 1
        BY <1>0, <4>2
      <4>4. ASSUME NEW n \in 1 .. Len(data') PROVE Len(data'[n]) <= Size
        <5>1. CASE n \in 1 .. Len(data)
          BY <4>2, <5>1, DiskTypes DEF Contents
        <5>2. CASE n = Len(data) + 1
          BY <4>1, <4>2, <5>2, Numbers
        <5> QED
          BY <4>3, <5>1, <5>2
      <4> QED
        BY <1>0, <4>2, <4>4
    <3>2. CASE d.temp # 0
      BY <1>0, <2>3, <3>2, DiskTypes DEF Contents
    <3> QED
      BY <3>1, <3>2
  <2>5. Contents'
    BY <2>4 DEF Contents
  <2>6. Len(data') \in Nat
    BY <2>4
  <2>7. s \in Nat /\ s <= Len(data')
    <3>1. CASE d.temp = 0
      BY <1>0, <2>4, <2>6, <3>1
    <3>2. CASE d.temp # 0
      <4>1. d.temp \in TransferId
        BY <1>2, <3>2 DEF Entry
      <4>2. link[d.temp] \in Nat /\ link[d.temp] <= Len(data)
        BY <4>1, DiskTypes DEF Paths
      <4> QED
        BY <1>0, <2>4, <2>6, <3>2, <4>2
    <3> QED
      BY <3>1, <3>2
  <2>8. Kept'
    <3> HIDE DEF s
    <3>1. saved \in [TransferId -> Nat] /\ \A k \in TransferId : saved[k] <= Len(data)
      BY DiskTypes DEF Kept
    <3>2. saved' \in [TransferId -> Nat]
          /\ \A k \in TransferId : saved'[k] = IF k = i THEN s ELSE saved[k]
      BY <2>3, <2>7, <3>1
    <3>3. \A k \in TransferId : saved[k] <= Len(data')
      BY <1>0, <2>4, <2>6, <3>1
    <3> QED
      BY <1>0, <2>4, <2>6, <2>7, <3>2, <3>3 DEF Kept
  <2>9. Paths'
    <3>1. link \in [TransferId -> Nat] /\ \A k \in TransferId : link[k] <= Len(data)
      BY DiskTypes DEF Paths
    <3>2. link' \in [TransferId -> Nat]
          /\ \A k \in TransferId : link'[k] = link[k] \/ link'[k] = 0
      BY <2>3, <3>1
    <3>3. \A k \in TransferId : link[k] <= Len(data')
      BY <1>0, <2>4, <2>6, <3>1
    <3> QED
      BY <2>6, <3>2, <3>3 DEF Paths
  <2>10. meta' \in [Version -> TransferId \cup {0}]
    BY <1>0, <2>3 DEF Typed
  <2>11. next \in Entry /\ next.handle = 0
    BY <1>2, Numbers DEF Entry, EntryState
  <2>12. Entries'
    <3> HIDE DEF next
    <3>1. EntryFits(next, Len(data'))
      BY <2>6, <2>11 DEF EntryFits
    <3> QED
      BY <2>3, <2>4, <2>11, <3>1, EntryTypes
  <2>13. wire' \in [End -> Seq(AnyFrame)]
    BY <2>1, <2>2, <2>3, FrameTypes
  <2> QED
    BY <2>3, <2>5, <2>8, <2>9, <2>10, <2>12, <2>13, ReceiverStep, UnchangedTypes
<1>7. CASE HandleDoneUnsaved(i)
  <2> DEFINE next == [inc[i] EXCEPT !.state = "failed", !.handle = 0, !.hash = NoHash]
  <2>1. Consumed("receiver") \in [End -> Seq(AnyFrame)]
    BY <1>7, AnswerTypes DEF HandleDoneUnsaved, DoneFor
  <2>2. /\ inc' = [inc EXCEPT ![i] = next] /\ wire' = Consumed("receiver")
        /\ faults' \in {faults, faults + 1} /\ (faults' = faults \/ faults < MaxFaults)
        /\ UNCHANGED <<src, job, mail, link, data, meta, saved, session, ending>>
    BY <1>7 DEF HandleDoneUnsaved, Fault, disk
  <2>3. faults' \in 0 .. MaxFaults
    BY <1>0, <2>2, Numbers DEF Typed
  <2>4. next \in Entry /\ next.handle = 0
    BY <1>2 DEF Entry, EntryState
  <2>5. Entries'
    <3> HIDE DEF next
    <3>1. EntryFits(next, Len(data))
      BY <1>0, <2>4 DEF EntryFits
    <3> QED
      BY <1>0, <2>2, <2>4, <3>1, EntryTypes
  <2> QED
    BY <2>1, <2>2, <2>3, <2>5, ReceiverStep, UnchangedTypes
<1>8. CASE HandleDoneMismatch(i)
  <2> DEFINE next == [FailedEntry(inc[i]) EXCEPT !.hash = NoHash]
  <2>1. \A g \in AnyFrame : Answer(g) \in [End -> Seq(AnyFrame)]
    BY <1>8, AnswerTypes DEF HandleDoneMismatch, DoneFor
  <2>2. /\ inc' = [inc EXCEPT ![i] = next] /\ link' = Unlink(link, inc[i])
        /\ wire' = Answer(FileCancel(i))
        /\ UNCHANGED <<src, job, mail, data, meta, saved, session, ending, faults>>
    BY <1>8 DEF HandleDoneMismatch
  <2>3. /\ FailedEntry(inc[i]) \in Entry /\ FailedEntry(inc[i]).handle = 0
        /\ link' \in [TransferId -> Nat] /\ \A k \in TransferId : link'[k] <= Len(data)
    BY <1>0, <1>2, <2>2, FailedTypes, DiskTypes DEF Paths
  <2>4. next \in Entry /\ next.handle = 0
    BY <2>3 DEF Entry
  <2>5. Entries'
    <3> HIDE DEF next
    <3>1. EntryFits(next, Len(data))
      BY <1>0, <2>4 DEF EntryFits
    <3> QED
      BY <1>0, <2>2, <2>4, <3>1, EntryTypes
  <2>6. Paths'
    BY <2>2, <2>3 DEF Paths
  <2> QED
    BY <2>1, <2>2, <2>5, <2>6, FrameTypes, ReceiverStep, UnchangedTypes
<1> QED
  BY <1>3, <1>4, <1>5, <1>6, <1>7, <1>8 DEF Dispatch

(* Every step of the receiver keeps the types.                              *)
LEMMA ReceiveTypes ==
    ASSUME Typing, Receive
    PROVE  Typing'
<1>0. /\ Typed /\ "receiver" \in End /\ Len(data) \in Nat /\ data \in Seq(Seq(Block))
      /\ Len(data) <= Len(data)
  BY EndFacts, DiskTypes DEF Typing, Contents
<1>1. CASE HandleOffer
  <2> DEFINE f == Frame("receiver")
             p == find_partial(f.token)
             prefix == IF p = 0 THEN <<>> ELSE data[link[p]]
             e == [NoEntry EXCEPT !.state = "offered", !.token = f.token, !.temp = p,
                                  !.prefix = prefix, !.received = Len(prefix)]
  <2>1. /\ f \in AnyFrame /\ f.kind = "file_offer"
        /\ Consumed("receiver") \in [End -> Seq(AnyFrame)]
    BY <1>1, AnswerTypes DEF HandleOffer
  <2>2. f.id \in TransferId /\ f.token \in Version
    BY <2>1, FrameFields
  <2>3. p \in TransferId \cup {0} /\ (p # 0 => link[p] \in 1 .. Len(data))
    <3> DEFINE m == meta[f.token]
    <3>1. m \in TransferId \cup {0}
      BY <1>0, <2>2 DEF Typed
    <3>2. m # 0 => link[m] \in Nat /\ link[m] <= Len(data)
      BY <3>1, DiskTypes DEF Paths
    <3>3. p = IF m = 0 \/ link[m] = 0 THEN 0 ELSE m
      BY DEF find_partial
    <3> HIDE DEF m, p
    <3> QED
      BY <1>0, <3>1, <3>2, <3>3
  <2>4. prefix \in Seq(Block) /\ Len(prefix) \in 0 .. Size
    <3> HIDE DEF p
    <3>1. CASE p = 0
      BY <3>1, Numbers
    <3>2. CASE p # 0
      <4>1. prefix = data[link[p]] /\ link[p] \in 1 .. Len(data)
        BY <2>3, <3>2
      <4>2. prefix \in Seq(Block) /\ Len(prefix) <= Size
        BY <1>0, <4>1, DiskTypes DEF Contents
      <4> HIDE DEF prefix
      <4> QED
        BY <4>2, Numbers
    <3> QED
      BY <3>1, <3>2
  <2>5. e \in Entry /\ EntryFits(e, Len(data))
    <3> HIDE DEF p, prefix
    <3>1. NoEntry \in Entry /\ NoEntry.handle = 0
      BY EmptyEntry
    <3>2. e \in Entry /\ e.handle = 0
      BY <2>2, <2>3, <2>4, <3>1, Numbers DEF Entry, EntryState
    <3> HIDE DEF e
    <3> QED
      BY <1>0, <3>2 DEF EntryFits
  <2>6. /\ inc' = [inc EXCEPT ![f.id] = e] /\ wire' = Consumed("receiver")
        /\ UNCHANGED <<src, job, mail, link, data, meta, saved, session, ending, faults>>
    BY <1>1 DEF HandleOffer, disk
  <2>7. Entries'
    <3> HIDE DEF e
    <3> QED
      BY <1>0, <2>2, <2>5, <2>6, EntryTypes
  <2> HIDE DEF e, prefix, p, f
  <2> QED
    BY <2>1, <2>6, <2>7, ReceiverStep, UnchangedTypes
<1>2. CASE HandleRestart \/ HandlePeerCancel
  <2> DEFINE i == Frame("receiver").id
             restarted == [inc[i] EXCEPT !.state = "in_progress", !.received = 0, !.prefix = <<>>,
                                         !.hash = <<>>, !.temp = 0, !.handle = 0]
             canceled == [inc[i] EXCEPT !.state = "canceled", !.handle = 0]
  <2>1. Frame("receiver") \in AnyFrame /\ Consumed("receiver") \in [End -> Seq(AnyFrame)]
    BY <1>2, AnswerTypes DEF HandleRestart, HandlePeerCancel
  <2>2. i \in TransferId
    BY <2>1, FrameFields
  <2>3. /\ wire' = Consumed("receiver")
        /\ UNCHANGED <<src, job, mail, session, ending, faults>>
    BY <1>2 DEF HandleRestart, HandlePeerCancel
  <2> HIDE DEF i
  <2>4. CASE UNCHANGED <<inc, link, data, meta, saved>>
    BY <2>1, <2>3, <2>4, ReceiverStep, UnchangedTypes
  <2>5. CASE \E e \in {restarted, canceled} : inc' = [inc EXCEPT ![i] = e] /\ Discard(inc[i])
    <3>1. PICK e \in {restarted, canceled} : inc' = [inc EXCEPT ![i] = e] /\ Discard(inc[i])
      BY <2>5
    <3>2. inc[i] \in Entry
      BY <2>2, DiskTypes DEF Entries
    <3>3. restarted \in Entry /\ restarted.handle = 0
      <4>1. <<>> \in Seq(Block) /\ 0 \in 0 .. Size
        BY Numbers
      <4> QED
        BY <3>2, <4>1 DEF Entry, EntryState
    <3>4. canceled \in Entry /\ canceled.handle = 0
      BY <3>2 DEF Entry, EntryState
    <3> HIDE DEF restarted, canceled
    <3>5. e \in Entry /\ EntryFits(e, Len(data))
      BY <1>0, <3>3, <3>4 DEF EntryFits
    <3>6. /\ Paths' /\ Contents' /\ Kept' /\ meta' \in [Version -> TransferId \cup {0}]
          /\ data' = data
      BY <3>1, <3>2, DiscardTypes
    <3>7. Entries'
      BY <1>0, <2>2, <3>1, <3>5, <3>6, EntryTypes
    <3> QED
      BY <2>1, <2>3, <3>6, <3>7, ReceiverStep, UnchangedTypes
  <2> QED
    BY <1>2, <2>4, <2>5 DEF HandleRestart, HandlePeerCancel, disk, i
<1>3. CASE HandleStrayChunk \/ HandleStrayDone
  <2>1. Consumed("receiver") \in [End -> Seq(AnyFrame)]
    BY <1>3, AnswerTypes DEF HandleStrayChunk, HandleStrayDone
  <2>2. /\ wire' = Consumed("receiver")
        /\ UNCHANGED <<src, job, mail, inc, link, data, meta, saved, session, ending, faults>>
    BY <1>3 DEF HandleStrayChunk, HandleStrayDone, disk
  <2> QED
    BY <2>1, <2>2, ReceiverStep, UnchangedTypes
<1>4. ASSUME NEW i \in TransferId, Dispatch(i) PROVE Typing'
  BY <1>4, DispatchTypes
<1> QED
  BY <1>1, <1>2, <1>3, <1>4 DEF Receive

(* The wire, when one end closes or both are connected anew.                *)
LEMMA WireTypes ==
    ASSUME Typing
    PROVE  /\ \A e \in End : [wire EXCEPT ![e] = <<>>] \in [End -> Seq(AnyFrame)]
           /\ [x \in End |-> <<>>] \in [End -> Seq(AnyFrame)]
           /\ \A e \in End, b \in BOOLEAN :
                 /\ [session EXCEPT ![e] = b] \in [End -> BOOLEAN]
                 /\ [ending EXCEPT ![e] = b] \in [End -> BOOLEAN]
<1>1. <<>> \in Seq(AnyFrame)
  OBVIOUS
<1> QED
  BY <1>1 DEF Typing, Typed

(* Disconnections, crashes and clean-ups keep the types.                    *)
LEMMA SessionTypes ==
    ASSUME Typing,
           \/ EditSource \/ forward_outgoing \/ CleanUpIncoming \/ CleanUpOutgoing
           \/ CrashSender \/ CrashReceiver \/ \E e \in End : Dial(e) \/ Disconnect(e)
    PROVE  Typing'
<1>0. /\ Typed /\ "sender" \in End /\ "receiver" \in End
      /\ Len(data) \in Nat /\ data \in Seq(Seq(Block))
  BY EndFacts, DiskTypes DEF Typing, Contents
<1>f. ASSUME Fault PROVE faults' \in 0 .. MaxFaults
  BY <1>0, <1>f, Numbers DEF Fault, Typed
<1>1. CASE EditSource
  BY <1>1 DEF EditSource, disk, net, Typing, Typed, Files, Reads
<1>2. CASE forward_outgoing
  <2> DEFINE f == Frame("sender")
  <2>1. f \in AnyFrame /\ Consumed("sender") \in [End -> Seq(AnyFrame)]
    BY <1>0, <1>2, HeadTypes DEF forward_outgoing
  <2>2. f.id \in TransferId
    BY <2>1, FrameFields
  <2>3. /\ mail' = IF Running(f.id) THEN [mail EXCEPT ![f.id] = Append(@, f)] ELSE mail
        /\ wire' = Consumed("sender")
        /\ UNCHANGED <<src, job, inc, link, data, meta, saved, session, ending, faults>>
    BY <1>2 DEF forward_outgoing, disk
  <2> HIDE DEF f
  <2>4. Append(mail[f.id], f) \in Seq(AnyFrame)
    <3>1. mail[f.id] \in Seq(AnyFrame)
      BY <1>0, <2>2 DEF Typed
    <3> QED
      BY <2>1, <3>1, AppendProperties
  <2>5. mail' \in [TransferId -> Seq(AnyFrame)]
    BY <1>0, <2>3, <2>4 DEF Typed
  <2> QED
    BY <2>1, <2>3, <2>5, ReceiverStep, UnchangedTypes
<1>3. ASSUME NEW e \in End, Connect(e) PROVE Typing'
  <2>1. /\ session' = [x \in End |-> TRUE] /\ wire' = [x \in End |-> <<>>]
        /\ ending' \in [End -> BOOLEAN]
        /\ UNCHANGED <<src, job, mail, inc, link, data, meta, saved, faults>>
    BY <1>0, <1>3, EndFacts DEF Connect, Typed, disk
  <2> QED
    BY <2>1, WireTypes, ReceiverStep, UnchangedTypes
<1>4. ASSUME NEW e \in End, NoticeClosed(e) \/ Disconnect(e) PROVE Typing'
  <2>1. /\ session' = [session EXCEPT ![e] = FALSE] /\ wire' = [wire EXCEPT ![e] = <<>>]
        /\ ending' = [ending EXCEPT ![e] = TRUE]
        /\ faults' \in 0 .. MaxFaults
        /\ UNCHANGED <<src, job, mail, inc, link, data, meta, saved>>
    BY <1>0, <1>4, <1>f DEF NoticeClosed, Disconnect, Close, Typed, disk
  <2> QED
    BY <2>1, WireTypes, ReceiverStep, UnchangedTypes
<1>5. CASE CleanUpIncoming
  <2>1. /\ ending' = [ending EXCEPT !["receiver"] = FALSE]
        /\ UNCHANGED <<src, job, mail, link, data, meta, saved, session, wire, faults>>
    BY <1>5 DEF CleanUpIncoming, disk
  <2>2. ASSUME NEW i \in TransferId
        PROVE  inc'[i] \in Entry /\ EntryFits(inc'[i], Len(data))
    <3>1. "failed" \in EntryState
      BY DEF EntryState
    <3>2. inc'[i] = [inc[i] EXCEPT !.state = "failed", !.handle = 0] \/ inc'[i] = inc[i]
      BY <1>5 DEF CleanUpIncoming
    <3> QED
      BY <1>0, <3>1, <3>2, ClosedTypes
  <2>3. Entries'
    BY <1>5, <2>1, <2>2 DEF Entries, CleanUpIncoming
  <2> QED
    BY <1>0, <2>1, <2>3, WireTypes, ReceiverStep, UnchangedTypes
<1>6. CASE CleanUpOutgoing
  <2>1. /\ ending' = [ending EXCEPT !["sender"] = FALSE]
        /\ UNCHANGED <<src, job, inc, link, data, meta, saved, session, wire, faults>>
    BY <1>6 DEF CleanUpOutgoing, disk
  <2>2. \A i \in TransferId : Append(mail[i], Disconnected(i)) \in Seq(AnyFrame)
    BY <1>0, FrameTypes, AppendProperties DEF Typed
  <2>3. mail' \in [TransferId -> Seq(AnyFrame)]
    BY <1>0, <1>6, <2>2 DEF CleanUpOutgoing, Typed
  <2> QED
    BY <1>0, <2>1, <2>3, WireTypes, ReceiverStep, UnchangedTypes
<1>7. CASE CrashSender
  <2>1. /\ session' = [session EXCEPT !["sender"] = FALSE]
        /\ wire' = [wire EXCEPT !["sender"] = <<>>]
        /\ ending' = [ending EXCEPT !["sender"] = FALSE]
        /\ faults' \in 0 .. MaxFaults
        /\ UNCHANGED <<src, inc, link, data, meta, saved>>
    BY <1>7, <1>f DEF CrashSender, Close, disk
  <2>2. mail' \in [TransferId -> Seq(AnyFrame)]
    <3>1. <<>> \in Seq(AnyFrame)
      OBVIOUS
    <3> QED
      BY <1>7, <3>1 DEF CrashSender
  <2>3. ASSUME NEW i \in TransferId PROVE job'[i] \in Job /\ ReadsOf(job'[i])
    <3>1. job[i] \in Job /\ ReadsOf(job[i])
      BY DEF Typing, Typed, Reads
    <3> DEFINE j == [job[i] EXCEPT !.pc = "over", !.state = "lost", !.paused = FALSE]
    <3>2. job'[i] = IF Running(i) THEN j ELSE job[i]
      BY <1>7 DEF CrashSender
    <3>3. j \in Job /\ (Running(i) => ReadsOf(j))
      BY <3>1 DEF Job, Pc, JobState, ReadsOf, Running
    <3> HIDE DEF j
    <3> QED
      BY <3>1, <3>2, <3>3
  <2>4. job' \in [TransferId -> Job] /\ Reads'
    BY <1>7, <2>3 DEF CrashSender, Reads
  <2> QED
    BY <1>0, <2>1, <2>2, <2>4, WireTypes DEF Typing, Typed, Files
<1>8. CASE CrashReceiver
  <2>1. /\ session' = [session EXCEPT !["receiver"] = FALSE]
        /\ wire' = [wire EXCEPT !["receiver"] = <<>>]
        /\ ending' = [ending EXCEPT !["receiver"] = FALSE]
        /\ inc' = [i \in TransferId |-> NoEntry]
        /\ faults' \in 0 .. MaxFaults
        /\ UNCHANGED <<src, job, mail, link, data, meta, saved>>
    BY <1>8, <1>f DEF CrashReceiver, Close, disk
  <2>2. Entries'
    BY <1>0, <2>1, EmptyEntry DEF Entries, EntryFits
  <2> QED
    BY <1>0, <2>1, <2>2, WireTypes, ReceiverStep, UnchangedTypes
<1> QED
  BY <1>1, <1>2, <1>3, <1>4, <1>5, <1>6, <1>7, <1>8 DEF Dial

(* The types hold at the start.                                             *)
LEMMA TypingInit == Init => Typing
<1> SUFFICES ASSUME Init PROVE Typing
  OBVIOUS
<1>1. NoJob \in Job /\ NoJob.pc = "none" /\ Len(NoJob.read) = 0
  <2>1. <<>> \in Seq(Version) /\ 0 \in 0 .. Size /\ 0 \in 0 .. Window /\ 0 \in Block
    BY Numbers
  <2>2. NoJob \in Job /\ NoJob.pc = "none" /\ NoJob.read = <<>>
    BY <2>1 DEF NoJob, Job, Pc, JobState
  <2>3. Len(<<>>) = 0
    OBVIOUS
  <2> QED
    BY <2>2, <2>3
<1>2. <<>> \in Seq(AnyFrame) /\ <<>> \in Seq(Seq(Block)) /\ Len(<<>>) = 0
  OBVIOUS
<1>3. Typed
  BY <1>1, <1>2, EmptyEntry, Numbers DEF Init, Typed
<1>4. Files
  BY <1>2, EmptyEntry, Numbers DEF Init, Files
<1>5. Reads
  BY <1>1, Numbers DEF Init, Reads, ReadsOf
<1> QED
  BY <1>3, <1>4, <1>5 DEF Typing

(* The types are inductive.                                                 *)
LEMMA TypingStep == Typing /\ [Next]_vars => Typing'
<1> SUFFICES ASSUME Typing, [Next]_vars PROVE Typing'
  OBVIOUS
<1>1. CASE UNCHANGED vars
  BY <1>1 DEF vars, disk, net, Typing, Typed, Files, Reads
<1>2. CASE UserCommand
  BY <1>2, SenderTypes, CommandTypes, SessionTypes DEF UserCommand
<1>3. CASE \E i \in TransferId : Task(i)
  BY <1>3, SenderTypes
<1>4. CASE Receive
  BY <1>4, ReceiveTypes
<1>5. CASE Failure
  BY <1>5, SenderTypes, SessionTypes DEF Failure
<1>6. CASE forward_outgoing \/ CleanUpIncoming \/ CleanUpOutgoing \/ \E e \in End : Dial(e)
  BY <1>6, SessionTypes
<1> QED
  BY <1>1, <1>2, <1>3, <1>4, <1>5, <1>6 DEF Next

(* The types imply the type invariant of the runs.                          *)
LEMMA TypingOK == Typing => TypeOK
<1> SUFFICES ASSUME Typing PROVE TypeOK
  OBVIOUS
<1>1. Typed /\ Files /\ Reads /\ Contents
  BY DiskTypes DEF Typing
<1>2. Len(data) \in Nat
  BY <1>1 DEF Contents
<1>3. ASSUME NEW i \in TransferId
      PROVE  /\ job[i].pc \in Pc /\ job[i].state \in JobState
             /\ job[i].sent \in 0 .. Size /\ job[i].inFlight \in 0 .. Window
             /\ job[i].read \in Seq(Version) /\ Len(job[i].read) <= Size
  BY <1>1 DEF Typed, Job, Reads, ReadsOf
<1>4. ASSUME NEW i \in TransferId
      PROVE  /\ inc[i].state \in EntryState /\ inc[i].received \in 0 .. Size
             /\ inc[i].temp \in TransferId \cup {0} /\ inc[i].handle \in Nat
  BY <1>1 DEF Typed, Entry
<1>5. ASSUME NEW i \in TransferId
      PROVE  inc[i].handle \in 0 .. Len(data) /\ saved[i] \in 0 .. Len(data)
             /\ link[i] \in 0 .. Len(data)
  BY <1>1, <1>2, <1>4 DEF Typed, Files
<1>6. \A e \in End : \A k \in 1 .. Len(wire[e]) : Known(wire[e][k])
  <2>1. \A e \in End : wire[e] \in Seq(AnyFrame)
    BY <1>1 DEF Typed
  <2>2. \A e \in End : \A k \in 1 .. Len(wire[e]) : wire[e][k] \in AnyFrame
    BY <2>1
  <2> QED
    BY <2>2, FrameFields DEF Known
<1> QED
  BY <1>1, <1>3, <1>4, <1>5, <1>6 DEF TypeOK, Typed, Pc, JobState, EntryState, Block

(* The tasks, the entries, the paths, the notes and the frames always have  *)
(* their types, and a path always names a file that exists.                 *)
THEOREM TypeCorrect == Spec => []TypeOK
<1>1. Spec => []Typing
  BY TypingInit, TypingStep, PTL DEF Spec
<1> QED
  BY <1>1, TypingOK, PTL

-----------------------------------------------------------------------------
(* Channels.                                                               *)

(* p comes of the channel q: frames were taken off its front, and at most   *)
(* one frame, a member of F, was put at its end.                            *)
Moved(p, q, F) ==
    \E n \in Nat : \A k \in 1 .. Len(p) :
        \/ k + n \in 1 .. Len(q) /\ p[k] = q[k + n]
        \/ k + n = Len(q) + 1 /\ p[k] \in F

(* An unchanged, emptied, shortened or extended channel has moved.          *)
LEMMA MovedCases ==
    ASSUME NEW q \in Seq(AnyFrame), NEW F
    PROVE  /\ Moved(q, q, F) /\ Moved(<<>>, q, F)
           /\ q # <<>> => Moved(Tail(q), q, F)
           /\ \A f \in F \cap AnyFrame : Moved(Append(q, f), q, F)
<1>0. Len(q) \in Nat
  OBVIOUS
<1>1. Moved(q, q, F)
  <2>1. 0 \in Nat /\ \A k \in 1 .. Len(q) : k + 0 \in 1 .. Len(q) /\ q[k] = q[k + 0]
    BY <1>0
  <2> QED
    BY <2>1 DEF Moved
<1>2. Moved(<<>>, q, F)
  <2>1. 0 \in Nat /\ \A k \in 1 .. Len(<<>>) : FALSE
    OBVIOUS
  <2> QED
    BY <2>1 DEF Moved
<1>3. ASSUME q # <<>> PROVE Moved(Tail(q), q, F)
  <2>1. /\ Tail(q) \in Seq(AnyFrame) /\ Len(Tail(q)) = Len(q) - 1
        /\ \A k \in 1 .. Len(Tail(q)) : Tail(q)[k] = q[k + 1]
    BY <1>3, HeadTailProperties
  <2>2. 1 \in Nat /\ \A k \in 1 .. Len(Tail(q)) : k + 1 \in 1 .. Len(q) /\ Tail(q)[k] = q[k + 1]
    BY <1>0, <2>1
  <2> QED
    BY <2>2 DEF Moved
<1>4. ASSUME NEW f \in F \cap AnyFrame PROVE Moved(Append(q, f), q, F)
  <2> DEFINE p == Append(q, f)
  <2>1. /\ Len(p) = Len(q) + 1 /\ p[Len(q) + 1] = f
        /\ \A k \in 1 .. Len(q) : p[k] = q[k]
    BY AppendProperties
  <2> HIDE DEF p
  <2>2. \A k \in 1 .. Len(p) :
            \/ k + 0 \in 1 .. Len(q) /\ p[k] = q[k + 0]
            \/ k + 0 = Len(q) + 1 /\ p[k] \in F
    BY <1>0, <2>1
  <2> QED
    BY <2>2 DEF Moved, p
<1> QED
  BY <1>1, <1>2, <1>3, <1>4

(* A channel that moved with the frames F moved with more.                  *)
LEMMA MovedMore ==
    ASSUME NEW p, NEW q, NEW F, NEW G, F \subseteq G, Moved(p, q, F)
    PROVE  Moved(p, q, G)
  BY DEF Moved

(* The numbers of the frames of q that are in F lie between a and b, rise   *)
(* by d at least, and are d at least below those of the frames of p in G.   *)
Within(q, F, a, b) ==
    \A k \in 1 .. Len(q) : q[k] \in F => a <= q[k].seq /\ q[k].seq <= b

Rising(q, F, d) ==
    \A k, l \in 1 .. Len(q) : q[k] \in F /\ q[l] \in F /\ k < l => q[k].seq + d <= q[l].seq

Below(q, F, p, G, d) ==
    \A k \in 1 .. Len(q), l \in 1 .. Len(p) :
        q[k] \in F /\ p[l] \in G => q[k].seq + d <= p[l].seq

(* A channel and what comes of it.                                          *)
LEMMA MovedWithin ==
    ASSUME NEW p \in Seq(AnyFrame), NEW q \in Seq(AnyFrame), NEW M, NEW F, NEW a, NEW b,
           Moved(p, q, M), Within(q, F, a, b),
           \A f \in M : f \in F => a <= f.seq /\ f.seq <= b
    PROVE  Within(p, F, a, b)
  BY DEF Moved, Within

(* A rising channel stays so if what is added is above it.                  *)
LEMMA MovedRising ==
    ASSUME NEW p \in Seq(AnyFrame), NEW q \in Seq(AnyFrame), NEW M, NEW F, NEW d \in Nat,
           Moved(p, q, M), Rising(q, F, d),
           \A f \in M : f \in F =>
               \A k \in 1 .. Len(q) : q[k] \in F => q[k].seq + d <= f.seq
    PROVE  Rising(p, F, d)
<1>0. Len(p) \in Nat /\ Len(q) \in Nat
  OBVIOUS
<1>1. PICK n \in Nat : \A k \in 1 .. Len(p) :
          \/ k + n \in 1 .. Len(q) /\ p[k] = q[k + n]
          \/ k + n = Len(q) + 1 /\ p[k] \in M
  BY DEF Moved
<1> SUFFICES ASSUME NEW k \in 1 .. Len(p), NEW l \in 1 .. Len(p), p[k] \in F, p[l] \in F, k < l
             PROVE  p[k].seq + d <= p[l].seq
  BY DEF Rising
<1>2. k + n \in 1 .. Len(q) /\ p[k] = q[k + n]
  <2>1. k + n # Len(q) + 1
    <3>1. l + n \in 1 .. Len(q) \/ l + n = Len(q) + 1
      BY <1>1
    <3>2. k \in Nat /\ l \in Nat /\ k + n < l + n
      BY <1>0
    <3> QED
      BY ONLY <1>0, <3>1, <3>2, n \in Nat
  <2> QED
    BY <1>1, <2>1
<1>3. CASE l + n \in 1 .. Len(q) /\ p[l] = q[l + n]
  <2>1. k + n < l + n
    BY <1>0
  <2> QED
    BY <1>2, <1>3, <2>1 DEF Rising
<1>4. CASE p[l] \in M
  BY <1>2, <1>4
<1> QED
  BY <1>1, <1>3, <1>4

(* One channel stays below another if what is added fits.                   *)
LEMMA MovedBelow ==
    ASSUME NEW q2 \in Seq(AnyFrame), NEW q \in Seq(AnyFrame), NEW M, NEW F,
           NEW p2 \in Seq(AnyFrame), NEW p \in Seq(AnyFrame), NEW N, NEW G, NEW d,
           Moved(q2, q, M), Moved(p2, p, N), Below(q, F, p, G, d),
           \A f \in M : f \in F => \A l \in 1 .. Len(p2) : p2[l] \in G => f.seq + d <= p2[l].seq,
           \A g \in N : g \in G => \A k \in 1 .. Len(q) : q[k] \in F => q[k].seq + d <= g.seq
    PROVE  Below(q2, F, p2, G, d)
<1>1. PICK n \in Nat : \A k \in 1 .. Len(q2) :
          \/ k + n \in 1 .. Len(q) /\ q2[k] = q[k + n]
          \/ k + n = Len(q) + 1 /\ q2[k] \in M
  BY DEF Moved
<1>2. PICK m \in Nat : \A l \in 1 .. Len(p2) :
          \/ l + m \in 1 .. Len(p) /\ p2[l] = p[l + m]
          \/ l + m = Len(p) + 1 /\ p2[l] \in N
  BY DEF Moved
<1> SUFFICES ASSUME NEW k \in 1 .. Len(q2), NEW l \in 1 .. Len(p2), q2[k] \in F, p2[l] \in G
             PROVE  q2[k].seq + d <= p2[l].seq
  BY DEF Below
<1>3. CASE q2[k] \in M
  BY <1>3
<1>4. CASE k + n \in 1 .. Len(q) /\ q2[k] = q[k + n]
  <2>1. CASE l + m \in 1 .. Len(p) /\ p2[l] = p[l + m]
    BY <1>4, <2>1 DEF Below
  <2>2. CASE p2[l] \in N
    BY <1>4, <2>2
  <2> QED
    BY <1>2, <2>1, <2>2
<1> QED
  BY <1>1, <1>3, <1>4

(* The same when frames are only taken off.                                 *)
LEMMA Dropped ==
    ASSUME NEW p \in Seq(AnyFrame), NEW q \in Seq(AnyFrame), Moved(p, q, {})
    PROVE  /\ \A F, a, b : Within(q, F, a, b) => Within(p, F, a, b)
           /\ \A F, d : Rising(q, F, d) => Rising(p, F, d)
           /\ \A r, F, G, d : Below(q, F, r, G, d) => Below(p, F, r, G, d)
           /\ \A r, F, G, d : Below(r, G, q, F, d) => Below(r, G, p, F, d)
<1>0. Len(p) \in Nat /\ Len(q) \in Nat
  OBVIOUS
<1>1. PICK n \in Nat : \A k \in 1 .. Len(p) : k + n \in 1 .. Len(q) /\ p[k] = q[k + n]
  BY DEF Moved
<1>2. \A F, a, b : Within(q, F, a, b) => Within(p, F, a, b)
  BY <1>1 DEF Within
<1>3. ASSUME NEW F, NEW d, Rising(q, F, d) PROVE Rising(p, F, d)
  <2>1. \A k, l \in 1 .. Len(p) : k < l => k + n < l + n
    BY <1>0
  <2> QED
    BY <1>1, <1>3, <2>1 DEF Rising
<1>4. \A r, F, G, d : Below(q, F, r, G, d) => Below(p, F, r, G, d)
  BY <1>1 DEF Below
<1>5. \A r, F, G, d : Below(r, G, q, F, d) => Below(r, G, p, F, d)
  BY <1>1 DEF Below
<1> QED
  BY <1>2, <1>3, <1>4, <1>5

(* The head of a rising channel is below the rest.                          *)
LEMMA TailAbove ==
    ASSUME NEW q \in Seq(AnyFrame), q # <<>>, NEW F, NEW d, Rising(q, F, d), Head(q) \in F
    PROVE  \A k \in 1 .. Len(Tail(q)) : Tail(q)[k] \in F => Head(q).seq + d <= Tail(q)[k].seq
<1>1. /\ Tail(q) \in Seq(AnyFrame) /\ Len(Tail(q)) = Len(q) - 1 /\ Len(q) \in Nat
      /\ \A k \in 1 .. Len(Tail(q)) : Tail(q)[k] = q[k + 1]
  BY HeadTailProperties
<1>2. Head(q) = q[1]
  OBVIOUS
<1> SUFFICES ASSUME NEW k \in 1 .. Len(Tail(q)), Tail(q)[k] \in F
             PROVE  Head(q).seq + d <= Tail(q)[k].seq
  OBVIOUS
<1>3. 1 \in 1 .. Len(q) /\ k + 1 \in 1 .. Len(q) /\ 1 < k + 1
  BY <1>1
<1> QED
  BY <1>1, <1>2, <1>3 DEF Rising

-----------------------------------------------------------------------------
(* What the steps of the sender do to the channels.                        *)

Past == {"confirm", "over"}

(* What is put into the queue of a task, besides its replies.               *)
Cancels == {f \in AnyFrame : f.kind \in {"file_cancel", "disconnected"}}

(* A step of the task i which sends a member of F at most.                  *)
SenderMoves(i, F) ==
    /\ Moved(wire'["receiver"], wire["receiver"], F)
    /\ Moved(wire'["sender"], wire["sender"], {})
    /\ \A k \in TransferId : Moved(mail'[k], mail[k], Cancels)
    /\ \A k \in TransferId \ {i} : job'[k] = job[k]
    /\ UNCHANGED <<inc, saved>>
    /\ \A f \in F : f \in AnyFrame /\ f.id = i
    /\ job[i].pc \in Past => F = {} /\ job'[i].pc \in Past
    /\ (\E f \in F : f.kind = "file_done") => job'[i].pc \in Past
    /\ job'[i].pc = "none" => job[i].pc = "none"
    /\ job'[i].state = "done" =>
          job[i].state = "done" \/ (mail[i] # <<>> /\ Reply(i).kind = "file_done")

(* The numbers of the task stay, or it begins.                              *)
SameCounts(j, k) == j.seq = k.seq /\ j.acked = k.acked /\ j.inFlight = k.inFlight

Counts(i) ==
    \/ SameCounts(job'[i], job[i])
    \/ job[i].pc = "none" /\ SameCounts(job'[i], NoJob)

(* A push of the sender adds its frame to the receiver's channel at most.   *)
LEMMA PushMoves ==
    ASSUME Typed, NEW f \in AnyFrame,
           wire' = wire \/ wire' = Push(wire, "sender", f) \/ wire' = TryPush(wire, "sender", f)
    PROVE  /\ Moved(wire'["receiver"], wire["receiver"], {f})
           /\ Moved(wire'["sender"], wire["sender"], {})
<1>1. wire \in [End -> Seq(AnyFrame)] /\ "sender" \in End /\ "receiver" \in End
  BY EndFacts DEF Typed
<1>2. wire["receiver"] \in Seq(AnyFrame) /\ wire["sender"] \in Seq(AnyFrame)
  BY <1>1
<1>3. wire' = wire \/ wire' = [wire EXCEPT !["receiver"] = Append(wire["receiver"], f)]
  BY EndFacts DEF Push, TryPush
<1>4. /\ wire'["sender"] = wire["sender"]
      /\ wire'["receiver"] = wire["receiver"] \/ wire'["receiver"] = Append(wire["receiver"], f)
  BY <1>1, <1>3
<1>5. f \in {f} \cap AnyFrame
  OBVIOUS
<1> QED
  BY <1>2, <1>4, <1>5, MovedCases

(* Taking a reply, clearing or cancelling moves the queues of the tasks.    *)
LEMMA MailMoves ==
    ASSUME Typed
    PROVE  /\ UNCHANGED mail => \A k \in TransferId : Moved(mail'[k], mail[k], Cancels)
           /\ UNCHANGED wire => /\ Moved(wire'["receiver"], wire["receiver"], {})
                               /\ Moved(wire'["sender"], wire["sender"], {})
           /\ \A i \in TransferId :
                 /\ mail' = [mail EXCEPT ![i] = <<>>] =>
                       \A k \in TransferId : Moved(mail'[k], mail[k], Cancels)
                 /\ mail[i] # <<>> /\ mail' = [mail EXCEPT ![i] = Tail(@)] =>
                       \A k \in TransferId : Moved(mail'[k], mail[k], Cancels)
                 /\ mail' = [mail EXCEPT ![i] = Append(@, FileCancel(i))] =>
                       \A k \in TransferId : Moved(mail'[k], mail[k], Cancels)
<1>1. mail \in [TransferId -> Seq(AnyFrame)] /\ wire \in [End -> Seq(AnyFrame)]
      /\ "sender" \in End /\ "receiver" \in End
  BY EndFacts DEF Typed
<1>2. wire["receiver"] \in Seq(AnyFrame) /\ wire["sender"] \in Seq(AnyFrame)
      /\ \A k \in TransferId : mail[k] \in Seq(AnyFrame)
  BY <1>1
<1>3. \A k \in TransferId : Moved(mail[k], mail[k], Cancels) /\ Moved(<<>>, mail[k], Cancels)
  BY <1>2, MovedCases
<1>4. ASSUME NEW i \in TransferId
      PROVE  /\ mail[i] # <<>> => Moved(Tail(mail[i]), mail[i], Cancels)
             /\ Moved(Append(mail[i], FileCancel(i)), mail[i], Cancels)
  <2>1. FileCancel(i) \in Cancels \cap AnyFrame
    BY FrameTypes DEF Cancels, FileCancel
  <2> QED
    BY <1>2, <2>1, MovedCases
<1>5. ASSUME NEW i \in TransferId, NEW q, mail' = [mail EXCEPT ![i] = q], Moved(q, mail[i], Cancels)
      PROVE  \A k \in TransferId : Moved(mail'[k], mail[k], Cancels)
  BY <1>1, <1>3, <1>5
<1> QED
  BY <1>2, <1>3, <1>4, <1>5, MovedCases

(* The end of a task leaves the counts and the other tasks alone.           *)
LEMMA FinishMoves ==
    ASSUME Typed, NEW i \in TransferId, NEW s \in JobState, finish_outgoing(i, s)
    PROVE  /\ \A k \in TransferId : Moved(mail'[k], mail[k], Cancels)
           /\ \A k \in TransferId \ {i} : job'[k] = job[k]
           /\ job'[i].pc = "over" /\ job'[i].state = s /\ SameCounts(job'[i], job[i])
<1>1. job \in [TransferId -> Job] /\ job[i] \in Job
  BY DEF Typed
<1>2. mail' = [mail EXCEPT ![i] = <<>>] /\ job' = [job EXCEPT ![i] = Ended(job[i], s)]
  BY DEF finish_outgoing, Ended
<1>3. job'[i] = Ended(job[i], s) /\ \A k \in TransferId \ {i} : job'[k] = job[k]
  BY <1>1, <1>2
<1>4. /\ Ended(job[i], s).pc = "over" /\ Ended(job[i], s).state = s
      /\ SameCounts(Ended(job[i], s), job[i])
  BY <1>1 DEF Ended, Job, SameCounts
<1> QED
  BY <1>2, <1>3, <1>4, MailMoves

(* A step of the task i that goes on as j.                                  *)
LEMMA GoesOn ==
    ASSUME Typed, NEW i \in TransferId, NEW j, job' = [job EXCEPT ![i] = j]
    PROVE  job'[i] = j /\ \A k \in TransferId \ {i} : job'[k] = job[k]
  BY DEF Typed

(* A task sends its frame and goes on, or fails with its counts kept.       *)
LEMMA SendMoves ==
    ASSUME Typed, NEW i \in TransferId, NEW f \in AnyFrame, NEW j \in Job, f.id = i,
           job[i].pc \notin Past \cup {"none"}, j.pc # "none", j.state = job[i].state,
           f.kind = "file_done" => j.pc \in Past,
           SendOrFail(i, f, j), UNCHANGED <<inc, saved>>
    PROVE  \/ SenderMoves(i, {f}) /\ job'[i] = j
           \/ SenderMoves(i, {}) /\ SameCounts(job'[i], job[i])
<1>1. CASE session["sender"]
  <2>1. job' = [job EXCEPT ![i] = j] /\ wire' = Push(wire, "sender", f) /\ UNCHANGED mail
    BY <1>1 DEF SendOrFail
  <2>2. job'[i] = j /\ \A k \in TransferId \ {i} : job'[k] = job[k]
    BY <2>1, GoesOn
  <2> QED
    BY <2>1, <2>2, PushMoves, MailMoves DEF SenderMoves
<1>2. CASE ~session["sender"]
  <2>1. finish_outgoing(i, "failed") /\ wire' = wire /\ "failed" \in JobState
    BY <1>2 DEF SendOrFail, JobState
  <2>2. /\ \A k \in TransferId : Moved(mail'[k], mail[k], Cancels)
        /\ \A k \in TransferId \ {i} : job'[k] = job[k]
        /\ job'[i].pc = "over" /\ job'[i].state = "failed" /\ SameCounts(job'[i], job[i])
    BY <2>1, FinishMoves
  <2>3. SenderMoves(i, {})
    BY <2>1, <2>2, MailMoves DEF SenderMoves, Past
  <2> QED
    BY <2>2, <2>3
<1> QED
  BY <1>1, <1>2

(* Every step of the sender but the two that change the numbers.            *)
LEMMA SenderQuiet ==
    ASSUME Typing, NEW i \in TransferId,
           \/ SendFile(i) \/ CancelOutgoing(i) \/ \E p \in BOOLEAN : SetPaused(i, p)
           \/ Offer(i) \/ Accepted(i) \/ NotAccepted(i) \/ OpenSource(i) \/ StartRound(i)
           \/ WindowFull(i) \/ SendDone(i) \/ Interrupted(i) \/ Confirmed(i) \/ TimeOut(i)
    PROVE  \E F : SenderMoves(i, F) /\ Counts(i) /\ \A f \in F : f.kind # "chunk"
<1>0. Typed /\ job[i] \in Job /\ ReadsOf(job[i])
  BY DEF Typing, Typed, Reads
<1> DEFINE Quiet(F) == SenderMoves(i, F) /\ Counts(i) /\ \A f \in F : f.kind # "chunk"
<1> SUFFICES \E F : Quiet(F)
  OBVIOUS
<1>1. CASE SendFile(i)
  <2> DEFINE j == [NoJob EXCEPT !.pc = "offer", !.state = "open", !.token = src]
  <2>1. /\ j.pc = "offer" /\ j.state = "open" /\ SameCounts(j, NoJob)
    BY DEF NoJob, SameCounts
  <2>2. job'[i] = j /\ \A k \in TransferId \ {i} : job'[k] = job[k]
    BY <1>0, <1>1, GoesOn DEF SendFile
  <2>3. job[i].pc = "none" /\ UNCHANGED <<mail, inc, saved, wire>>
    BY <1>1 DEF SendFile, disk, net
  <2> HIDE DEF j
  <2>4. Quiet({})
    BY <1>0, <2>1, <2>2, <2>3, MailMoves DEF SenderMoves, Past, Counts
  <2> QED
    BY <2>4
<1>2. CASE CancelOutgoing(i)
  <2>1. /\ mail' = [mail EXCEPT ![i] = Append(@, FileCancel(i))]
        /\ UNCHANGED <<job, inc, saved, wire>>
    BY <1>2 DEF CancelOutgoing, disk, net
  <2>2. Quiet({})
    BY <1>0, <2>1, MailMoves DEF SenderMoves, Past, Counts, SameCounts
  <2> QED
    BY <2>2
<1>3. CASE (\E p \in BOOLEAN : SetPaused(i, p)) \/ OpenSource(i) \/ StartRound(i) \/ WindowFull(i)
  <2>1. PICK j \in Job : job' = [job EXCEPT ![i] = j] /\ SameCounts(j, job[i])
                        /\ j.state = job[i].state /\ j.pc # "none"
                        /\ (job[i].pc \in Past => j.pc \in Past)
    <3>1. CASE \E p \in BOOLEAN : SetPaused(i, p)
      <4>1. PICK p \in BOOLEAN : SetPaused(i, p)
        BY <3>1
      <4> DEFINE j == [job[i] EXCEPT !.paused = p]
      <4>2. job' = [job EXCEPT ![i] = j]
        BY <4>1 DEF SetPaused
      <4>3. j \in Job /\ j.pc = job[i].pc /\ j.state = job[i].state /\ SameCounts(j, job[i])
        BY <1>0 DEF Job, SameCounts
      <4>4. job[i].pc # "none"
        BY <4>1 DEF SetPaused, Running
      <4> QED
        BY <4>2, <4>3, <4>4
    <3>2. CASE StartRound(i) \/ WindowFull(i)
      <4>1. PICK p \in {"fill", "ack"} : job' = [job EXCEPT ![i].pc = p]
        BY <3>2 DEF StartRound, WindowFull
      <4> DEFINE j == [job[i] EXCEPT !.pc = p]
      <4>2. job' = [job EXCEPT ![i] = j]
        BY <4>1
      <4>3. /\ j \in Job /\ j.pc \in {"fill", "ack"} /\ j.state = job[i].state
            /\ SameCounts(j, job[i])
        BY <1>0 DEF Job, SameCounts, Pc
      <4>4. job[i].pc \notin Past
        BY <3>2 DEF StartRound, WindowFull, Past
      <4> QED
        BY <4>2, <4>3, <4>4
    <3>3. CASE OpenSource(i)
      <4> DEFINE b == Blocks(job[i].sent)
                 j == [job[i] EXCEPT !.pc = "turn", !.read = b]
      <4>1. job' = [job EXCEPT ![i] = j] /\ job[i].pc = "open"
        BY <3>3 DEF OpenSource
      <4>2. b \in Seq(Version)
        <5>1. job[i].sent \in Nat
          BY <1>0, Numbers DEF Job
        <5>2. b \in [1 .. job[i].sent -> Version]
          BY <1>0 DEF Blocks, Typed
        <5> QED
          BY <5>1, <5>2
      <4> HIDE DEF b
      <4>3. j \in Job /\ j.pc = "turn" /\ j.state = job[i].state /\ SameCounts(j, job[i])
        BY <1>0, <4>2 DEF Job, SameCounts, Pc
      <4> QED
        BY <4>1, <4>3 DEF Past
    <3> QED
      BY <1>3, <3>1, <3>2, <3>3
  <2>2. UNCHANGED <<mail, inc, saved, wire>>
    BY <1>3 DEF SetPaused, OpenSource, StartRound, WindowFull, disk, net
  <2>3. job'[i] = j /\ \A k \in TransferId \ {i} : job'[k] = job[k]
    BY <1>0, <2>1, GoesOn
  <2>4. Quiet({})
    BY <1>0, <2>1, <2>2, <2>3, MailMoves DEF SenderMoves, Past, Counts
  <2> QED
    BY <2>4
<1>4. CASE Offer(i) \/ SendDone(i)
  <2> DEFINE f == IF job[i].pc = "offer" THEN FileOffer(i, job[i].token)
                  ELSE FileDone(i, job[i].read)
             j == [job[i] EXCEPT !.pc = IF job[i].pc = "offer" THEN "wait" ELSE "confirm"]
  <2>1. job[i].pc \in {"offer", "fill"}
    BY <1>4 DEF Offer, SendDone
  <2>2. f \in AnyFrame
    BY <1>0, <2>1, FrameTypes, ReadIsBlocks DEF Job, ReadsOf
  <2>3. /\ f.id = i /\ f.kind \in {"file_offer", "file_done"}
        /\ f.kind = "file_done" => job[i].pc = "fill"
    BY <2>1 DEF FileOffer, FileDone
  <2>4. /\ j \in Job /\ j.state = job[i].state /\ SameCounts(j, job[i])
        /\ j.pc = IF job[i].pc = "offer" THEN "wait" ELSE "confirm"
    BY <1>0 DEF Job, SameCounts, Pc
  <2>5. SendOrFail(i, f, j) /\ UNCHANGED <<inc, saved>>
    BY <1>4 DEF Offer, SendDone, disk
  <2> HIDE DEF f, j
  <2>6. \/ SenderMoves(i, {f}) /\ job'[i] = j
        \/ SenderMoves(i, {}) /\ SameCounts(job'[i], job[i])
    <3>1. /\ job[i].pc \notin Past \cup {"none"} /\ j.pc # "none"
          /\ f.kind = "file_done" => j.pc \in Past
      BY <2>1, <2>3, <2>4 DEF Past
    <3> QED
      BY <1>0, <2>2, <2>3, <2>4, <2>5, <3>1, SendMoves
  <2>7. Quiet({f}) \/ Quiet({})
    BY <2>3, <2>4, <2>6 DEF Counts
  <2> QED
    BY <2>7
<1>5. CASE Accepted(i)
  <2> DEFINE o == IF Reply(i).offset = 0 \/ partial_matches(Reply(i)) THEN Reply(i).offset ELSE 0
             j == [job[i] EXCEPT !.pc = "open", !.sent = o]
  <2>1. /\ job' = [job EXCEPT ![i] = j] /\ job[i].pc = "wait" /\ UNCHANGED <<inc, saved>>
        /\ mail[i] # <<>> /\ mail' = [mail EXCEPT ![i] = Tail(@)]
        /\ wire' = wire \/ wire' = TryPush(wire, "sender", FileRestart(i))
    BY <1>5 DEF Accepted, Answered, TakeReply, disk
  <2> HIDE DEF o
  <2>2. j.pc = "open" /\ j.state = job[i].state /\ SameCounts(j, job[i])
    BY <1>0 DEF Job, SameCounts
  <2>3. job'[i] = j /\ \A k \in TransferId \ {i} : job'[k] = job[k]
    BY <1>0, <2>1, GoesOn
  <2>4. FileRestart(i) \in AnyFrame /\ FileRestart(i).id = i /\ FileRestart(i).kind = "file_restart"
    BY FrameTypes DEF FileRestart
  <2> HIDE DEF j
  <2>5. Quiet({FileRestart(i)})
    BY <1>0, <2>1, <2>2, <2>3, <2>4, PushMoves, MailMoves DEF SenderMoves, Past, Counts
  <2> QED
    BY <2>5
<1>6. CASE NotAccepted(i) \/ TimeOut(i)
  <2>1. PICK s \in JobState : finish_outgoing(i, s) /\ s # "done"
    BY <1>6 DEF NotAccepted, TimeOut, JobState
  <2>2. UNCHANGED <<inc, saved, wire>>
    BY <1>6 DEF NotAccepted, TimeOut, disk, net
  <2>3. Quiet({})
    BY <1>0, <2>1, <2>2, FinishMoves, MailMoves DEF SenderMoves, Past, Counts
  <2> QED
    BY <2>3
<1>7. CASE Interrupted(i)
  <2>1. /\ \E s \in JobState : finish_outgoing(i, s) /\ s # "done"
        /\ UNCHANGED <<inc, saved>> /\ job[i].pc \in {"ack", "turn"}
        /\ wire' = wire \/ wire' = TryPush(wire, "sender", FileCancel(i))
    BY <1>7 DEF Interrupted, Reading, JobState, disk
  <2>2. FileCancel(i) \in AnyFrame /\ FileCancel(i).id = i /\ FileCancel(i).kind = "file_cancel"
    BY FrameTypes DEF FileCancel
  <2>3. Quiet({FileCancel(i)})
    BY <1>0, <2>1, <2>2, FinishMoves, PushMoves DEF SenderMoves, Past, Counts
  <2> QED
    BY <2>3
<1>8. CASE Confirmed(i)
  <2>1. /\ UNCHANGED <<inc, saved, wire>> /\ mail[i] # <<>> /\ job[i].pc = "confirm"
    BY <1>8 DEF Confirmed, Answered, disk
  <2>2. CASE \E s \in JobState : finish_outgoing(i, s) /\ (s = "done" => Reply(i).kind = "file_done")
    <3>1. Quiet({})
      BY <1>0, <2>1, <2>2, FinishMoves, MailMoves DEF SenderMoves, Past, Counts
    <3> QED
      BY <3>1
  <2>3. CASE TakeReply(i) /\ job' = job
    <3>1. Quiet({})
      BY <1>0, <2>1, <2>3, MailMoves DEF SenderMoves, Past, Counts, SameCounts, TakeReply
    <3> QED
      BY <3>1
  <2> QED
    BY <1>8, <2>2, <2>3 DEF Confirmed, JobState
<1> QED
  BY <1>1, <1>2, <1>3, <1>4, <1>5, <1>6, <1>7, <1>8

(* A block is sent, or the task fails.                                      *)
LEMMA ChunkMoves ==
    ASSUME Typing, NEW i \in TransferId, SendChunk(i)
    PROVE  \/ SenderMoves(i, {}) /\ SameCounts(job'[i], job[i])
           \/ \E c \in AnyFrame :
                 /\ SenderMoves(i, {c}) /\ c.kind = "chunk" /\ c.seq = job[i].seq + 1
                 /\ job'[i].seq = job[i].seq + 1 /\ job'[i].acked = job[i].acked
                 /\ job'[i].inFlight = job[i].inFlight + 1 /\ job[i].pc # "none"
<1>0. Typed /\ job[i] \in Job /\ ReadsOf(job[i])
  BY DEF Typing, Typed, Reads
<1> DEFINE j == job[i]
           c == Chunk(i, j.sent, j.seq + 1, src)
           next == [j EXCEPT !.read = Append(@, src), !.sent = @ + 1, !.seq = @ + 1,
                             !.inFlight = @ + 1]
<1>1. SendOrFail(i, c, next) /\ UNCHANGED <<inc, saved>> /\ j.pc = "fill"
  BY DEF SendChunk, disk
<1>2. /\ j.sent \in 0 .. Size /\ j.sent < Size /\ j.seq \in Nat /\ j.inFlight \in 0 .. Window
      /\ j.inFlight < Window /\ j.read \in Seq(Version)
  BY <1>0 DEF SendChunk, Room, Job
<1>3. /\ j.sent + 1 \in 0 .. Size /\ j.seq + 1 \in Nat /\ j.inFlight + 1 \in 0 .. Window
  <2>1. ASSUME NEW m \in Nat, NEW k \in 0 .. m, k < m PROVE k + 1 \in 0 .. m
    BY <2>1
  <2> HIDE DEF j
  <2> QED
    BY <1>2, <2>1, Numbers
<1>4. Append(j.read, src) \in Seq(Version)
  BY <1>0, <1>2, AppendProperties DEF Typed
<1>5. /\ next \in Job /\ next.state = j.state /\ next.pc = j.pc
      /\ next.seq = j.seq + 1 /\ next.acked = j.acked /\ next.inFlight = j.inFlight + 1
  BY <1>0, <1>3, <1>4 DEF Job
<1>6. c \in AnyFrame /\ c.id = i /\ c.kind = "chunk" /\ c.seq = j.seq + 1
  <2>1. c \in AnyFrame
    BY <1>0, <1>2, <1>3, FrameTypes DEF Typed
  <2> QED
    BY <2>1 DEF Chunk
<1> HIDE DEF c, next
<1>7. \/ SenderMoves(i, {c}) /\ job'[i] = next
      \/ SenderMoves(i, {}) /\ SameCounts(job'[i], job[i])
  <2>1. job[i].pc \notin Past \cup {"none"} /\ next.pc # "none"
    BY <1>1, <1>5 DEF Past
  <2> QED
    BY <1>0, <1>1, <1>5, <1>6, <2>1, SendMoves
<1> QED
  BY <1>1, <1>5, <1>6, <1>7

(* An acknowledgement is read.                                              *)
LEMMA AckMoves ==
    ASSUME Typing, NEW i \in TransferId, Acknowledged(i)
    PROVE  /\ SenderMoves(i, {}) /\ UNCHANGED wire
           /\ mail[i] # <<>> /\ mail' = [mail EXCEPT ![i] = Tail(@)]
           /\ Head(mail[i]) \in AnyFrame /\ Head(mail[i]).kind = "chunk_ack"
           /\ job'[i].seq = job[i].seq /\ job'[i].acked = Head(mail[i]).seq
           /\ job'[i].inFlight = Outstanding(job[i], Head(mail[i]).seq)
           /\ job[i].pc # "none"
<1>0. Typed /\ job[i] \in Job
  BY DEF Typing, Typed
<1> DEFINE s == Head(mail[i]).seq
           n == Outstanding(job[i], s)
           j == [job[i] EXCEPT !.pc = "turn", !.acked = s, !.inFlight = n]
<1>1. /\ job' = [job EXCEPT ![i] = j] /\ UNCHANGED <<inc, saved, wire>>
      /\ mail[i] # <<>> /\ mail' = [mail EXCEPT ![i] = Tail(@)]
      /\ Head(mail[i]).kind = "chunk_ack" /\ job[i].pc \in {"ack", "turn"}
  BY DEF Acknowledged, Answered, TakeReply, Reply, Reading, disk, net
<1>2. Head(mail[i]) \in AnyFrame
  BY <1>0, <1>1, ReplyTypes DEF Reply
<1> HIDE DEF n, s
<1>3. /\ j.pc = "turn" /\ j.state = job[i].state /\ j.seq = job[i].seq
      /\ j.acked = s /\ j.inFlight = n
  BY <1>0 DEF Job
<1>4. job'[i] = j /\ \A k \in TransferId \ {i} : job'[k] = job[k]
  BY <1>0, <1>1, GoesOn
<1> HIDE DEF j
<1>5. SenderMoves(i, {})
  BY <1>0, <1>1, <1>3, <1>4, MailMoves DEF SenderMoves, Past
<1> QED
  BY <1>1, <1>2, <1>3, <1>4, <1>5 DEF n, s

-----------------------------------------------------------------------------
(* What the steps of the receiver and of the sessions do to the channels.  *)

HeadFor(k) == wire["receiver"] # <<>> /\ Head(wire["receiver"]).id = k

DoneAt(k) ==
    /\ HeadFor(k) /\ Head(wire["receiver"]).kind = "file_done"
    /\ wire'["receiver"] = Tail(wire["receiver"])

(* The entry of k is done only after its file_done, stays done or goes      *)
(* unless a frame of k arrives, and what is saved stays saved.              *)
EntryMoves(k) ==
    /\ inc'[k].state = "done" => inc[k].state = "done" \/ DoneAt(k)
    /\ inc[k].state = "done" => inc'[k].state \in {"done", "none"} \/ HeadFor(k)
    /\ saved[k] # 0 => saved'[k] # 0

JobMoves(k) ==
    /\ SameCounts(job'[k], job[k])
    /\ job[k].pc \in Past => job'[k].pc \in Past
    /\ job'[k].pc = "none" => job[k].pc = "none"
    /\ job'[k].state = "done" => job[k].state = "done"

(* A step which answers a member of F at most.                              *)
ReceiverMoves(F) ==
    /\ Moved(wire'["receiver"], wire["receiver"], {})
    /\ Moved(wire'["sender"], wire["sender"], F)
    /\ \A k \in TransferId : Moved(mail'[k], mail[k], Cancels)
    /\ \A k \in TransferId : EntryMoves(k) /\ JobMoves(k)
    /\ \A f \in F : f \in AnyFrame /\ (f.kind = "file_done" => saved'[f.id] # 0)

(* Handling a frame takes it off, and an answer adds one at most.           *)
LEMMA AnswerMoves ==
    ASSUME Typed, wire["receiver"] # <<>>, NEW f \in AnyFrame
    PROVE  /\ wire' = Consumed("receiver") =>
                 /\ wire'["receiver"] = Tail(wire["receiver"])
                 /\ Moved(wire'["receiver"], wire["receiver"], {})
                 /\ Moved(wire'["sender"], wire["sender"], {})
           /\ wire' = Answer(f) =>
                 /\ wire'["receiver"] = Tail(wire["receiver"])
                 /\ Moved(wire'["receiver"], wire["receiver"], {})
                 /\ Moved(wire'["sender"], wire["sender"], {f})
<1>1. /\ wire \in [End -> Seq(AnyFrame)] /\ "sender" \in End /\ "receiver" \in End
      /\ Peer("receiver") = "sender"
  BY EndFacts DEF Typed
<1>2. wire["receiver"] \in Seq(AnyFrame) /\ wire["sender"] \in Seq(AnyFrame)
  BY <1>1
<1>3. /\ Consumed("receiver")["receiver"] = Tail(wire["receiver"])
      /\ Consumed("receiver")["sender"] = wire["sender"]
      /\ Consumed("receiver") \in [End -> Seq(AnyFrame)]
  BY <1>1, HeadTypes DEF Consumed
<1>4. /\ Answer(f)["receiver"] = Tail(wire["receiver"])
      /\ Answer(f)["sender"] = wire["sender"] \/ Answer(f)["sender"] = Append(wire["sender"], f)
  BY <1>1, <1>3 DEF Answer, Push
<1>5. f \in {f} \cap AnyFrame
  OBVIOUS
<1> QED
  BY <1>2, <1>3, <1>4, <1>5, MovedCases

(* A push of the receiver adds its frame to the sender's channel at most.   *)
LEMMA TellMoves ==
    ASSUME Typed, NEW f \in AnyFrame, wire' = TryPush(wire, "receiver", f)
    PROVE  /\ Moved(wire'["receiver"], wire["receiver"], {})
           /\ Moved(wire'["sender"], wire["sender"], {f})
<1>1. /\ wire \in [End -> Seq(AnyFrame)] /\ "sender" \in End /\ "receiver" \in End
      /\ Peer("receiver") = "sender"
  BY EndFacts DEF Typed
<1>2. wire["receiver"] \in Seq(AnyFrame) /\ wire["sender"] \in Seq(AnyFrame)
  BY <1>1
<1>3. /\ wire'["receiver"] = wire["receiver"]
      /\ wire'["sender"] = wire["sender"] \/ wire'["sender"] = Append(wire["sender"], f)
  BY <1>1 DEF TryPush, Push
<1>4. f \in {f} \cap AnyFrame
  OBVIOUS
<1> QED
  BY <1>2, <1>3, <1>4, MovedCases

(* The state of one entry changes.                                          *)
LEMMA EntryGoesOn ==
    ASSUME Typed, NEW i \in TransferId, NEW e, inc' = [inc EXCEPT ![i] = e]
    PROVE  inc'[i] = e /\ \A k \in TransferId \ {i} : inc'[k] = inc[k]
  BY DEF Typed

(* Opening a .part changes the state to in_progress at most.                *)
LEMMA OpenedState ==
    ASSUME Typing, NEW i \in TransferId
    PROVE  Opened(i).entry.state \in {inc[i].state, "in_progress"}
<1>1. inc[i] \in Entry
  BY DEF Typing, Typed
<1>2. ASSUME NEW p, NEW h, NEW n
      PROVE  [inc[i] EXCEPT !.temp = p, !.handle = n, !.hash = h, !.state = "in_progress"].state
                 = "in_progress"
  BY <1>1 DEF Entry
<1> QED
  BY <1>2 DEF Opened

(* A command of the receiver's user sends no acknowledgement.               *)
LEMMA CommandMoves ==
    ASSUME Typing, NEW i \in TransferId,
           AcceptTransfer(i) \/ RejectTransfer(i) \/ CancelIncoming(i)
    PROVE  \E F : ReceiverMoves(F) /\ \A f \in F : f.kind # "chunk_ack"
<1>0. Typed /\ inc[i] \in Entry
  BY DEF Typing, Typed
<1>1. PICK f \in AnyFrame : /\ wire' = TryPush(wire, "receiver", f)
                            /\ f.kind \in {"file_accept", "file_reject", "file_cancel"}
  <2>1. FileAccept(i, inc[i].received, inc[i].prefix) \in AnyFrame
    BY <1>0, FrameTypes DEF Entry
  <2>2. FileReject(i) \in AnyFrame /\ FileCancel(i) \in AnyFrame
    BY FrameTypes
  <2>3. /\ FileAccept(i, inc[i].received, inc[i].prefix).kind = "file_accept"
        /\ FileReject(i).kind = "file_reject" /\ FileCancel(i).kind = "file_cancel"
    BY DEF FileAccept, FileReject, FileCancel
  <2> QED
    BY <2>1, <2>2, <2>3 DEF AcceptTransfer, RejectTransfer, CancelIncoming
<1>2. PICK e : /\ inc' = [inc EXCEPT ![i] = e]
               /\ e.state \in {"accepted", "rejected", "canceled"}
  <2>1. \A s \in EntryState : [inc[i] EXCEPT !.state = s].state = s
    BY <1>0 DEF Entry
  <2>2. [inc[i] EXCEPT !.state = "canceled", !.handle = 0].state = "canceled"
    BY <1>0 DEF Entry
  <2>3. PICK e \in {[inc[i] EXCEPT !.state = "accepted"], [inc[i] EXCEPT !.state = "rejected"],
                    [inc[i] EXCEPT !.state = "canceled", !.handle = 0]} :
             inc' = [inc EXCEPT ![i] = e]
    BY DEF AcceptTransfer, RejectTransfer, CancelIncoming
  <2>4. e.state \in {"accepted", "rejected", "canceled"}
    BY <2>1, <2>2, <2>3 DEF EntryState
  <2> QED
    BY <2>3, <2>4
<1>3. inc[i].state # "done" /\ UNCHANGED <<job, mail, saved>>
  BY DEF AcceptTransfer, RejectTransfer, CancelIncoming, Discard, disk
<1>4. \A k \in TransferId : EntryMoves(k) /\ JobMoves(k)
  BY <1>0, <1>2, <1>3, EntryGoesOn DEF EntryMoves, JobMoves, SameCounts
<1>5. ReceiverMoves({f})
  BY <1>0, <1>1, <1>3, <1>4, TellMoves, MailMoves DEF ReceiverMoves
<1> QED
  BY <1>1, <1>5

(* A frame handler that changes only the entry the frame is for, and        *)
(* answers f at most.                                                       *)
LEMMA HandlerMoves ==
    ASSUME Typing, NEW i, NEW f \in AnyFrame, HeadFor(i), f.kind # "file_done",
           wire' = Consumed("receiver") \/ wire' = Answer(f),
           \A k \in TransferId \ {i} : inc'[k] = inc[k],
           inc'[i].state = "done" => inc[i].state = "done",
           UNCHANGED <<job, mail, saved>>
    PROVE  ReceiverMoves({f}) /\ (wire' = Consumed("receiver") => ReceiverMoves({}))
<1>0. Typed /\ wire["receiver"] # <<>>
  BY DEF Typing, HeadFor
<1>1. /\ Moved(wire'["receiver"], wire["receiver"], {})
      /\ Moved(wire'["sender"], wire["sender"], {f})
      /\ wire' = Consumed("receiver") => Moved(wire'["sender"], wire["sender"], {})
  <2>1. wire' = Consumed("receiver") => Moved(wire'["sender"], wire["sender"], {f})
    <3> SUFFICES ASSUME wire' = Consumed("receiver")
                 PROVE  Moved(wire'["sender"], wire["sender"], {f})
      OBVIOUS
    <3>1. Moved(wire'["sender"], wire["sender"], {})
      BY <1>0, AnswerMoves
    <3> QED
      BY <3>1 DEF Moved
  <2> QED
    BY <1>0, <2>1, AnswerMoves
<1>2. \A k \in TransferId : EntryMoves(k) /\ JobMoves(k)
  BY DEF EntryMoves, JobMoves, SameCounts
<1>3. \A k \in TransferId : Moved(mail'[k], mail[k], Cancels)
  BY <1>0, MailMoves
<1> QED
  BY <1>1, <1>2, <1>3 DEF ReceiverMoves

(* Every frame of the receiver but a block that is received.                *)
LEMMA ReceiveMoves ==
    ASSUME Typing, Receive, ~\E i \in TransferId : HandleChunk(i)
    PROVE  \E F : ReceiverMoves(F) /\ \A f \in F : f.kind # "chunk_ack"
<1>0. Typed /\ \A i \in TransferId : inc[i] \in Entry
  BY DEF Typing, Typed
<1> DEFINE Quiet(F) == ReceiverMoves(F) /\ \A f \in F : f.kind # "chunk_ack"
<1> SUFFICES \E F : Quiet(F)
  OBVIOUS
<1>c. ASSUME NEW i \in TransferId
      PROVE  FileCancel(i) \in AnyFrame /\ FileCancel(i).kind = "file_cancel"
  BY FrameTypes DEF FileCancel
<1>1. CASE HandleOffer
  <2> DEFINE i == Frame("receiver").id
  <2>1. Frame("receiver") \in AnyFrame /\ wire["receiver"] # <<>> /\ HeadFor(i)
    BY <1>1, AnswerTypes DEF HandleOffer, Incoming, HeadFor, Frame
  <2>2. i \in TransferId
    BY <2>1, FrameFields
  <2>3. PICK e : inc' = [inc EXCEPT ![i] = e] /\ e.state = "offered"
    <3> DEFINE e(t, p, x, n) == [NoEntry EXCEPT !.state = "offered", !.token = t, !.temp = p,
                                               !.prefix = x, !.received = n]
    <3>1. PICK t, p, x, n : inc' = [inc EXCEPT ![i] = e(t, p, x, n)]
      BY <1>1 DEF HandleOffer
    <3>2. e(t, p, x, n).state = "offered"
      BY DEF NoEntry
    <3> QED
      BY <3>1, <3>2
  <2>4. wire' = Consumed("receiver") /\ UNCHANGED <<job, mail, saved>>
    BY <1>1 DEF HandleOffer, disk
  <2> HIDE DEF i
  <2>5. inc'[i] = e /\ \A k \in TransferId \ {i} : inc'[k] = inc[k]
    BY <1>0, <2>2, <2>3, EntryGoesOn
  <2>6. Quiet({})
    BY <1>c, <2>1, <2>2, <2>3, <2>4, <2>5, HandlerMoves
  <2> QED
    BY <2>6
<1>2. CASE HandleRestart \/ HandlePeerCancel
  <2> DEFINE i == Frame("receiver").id
  <2>1. Frame("receiver") \in AnyFrame /\ wire["receiver"] # <<>> /\ HeadFor(i)
    BY <1>2, AnswerTypes DEF HandleRestart, HandlePeerCancel, Incoming, HeadFor, Frame
  <2>2. i \in TransferId
    BY <2>1, FrameFields
  <2>3. wire' = Consumed("receiver") /\ UNCHANGED <<job, mail, saved>>
    BY <1>2 DEF HandleRestart, HandlePeerCancel, Discard, disk
  <2>4. /\ \A k \in TransferId \ {i} : inc'[k] = inc[k]
        /\ inc'[i].state = "done" => inc[i].state = "done"
    <3>1. [inc[i] EXCEPT !.state = "in_progress", !.received = 0, !.prefix = <<>>,
                         !.hash = <<>>, !.temp = 0, !.handle = 0].state = "in_progress"
      BY <1>0, <2>2 DEF Entry
    <3>2. [inc[i] EXCEPT !.state = "canceled", !.handle = 0].state = "canceled"
      BY <1>0, <2>2 DEF Entry
    <3>3. \/ inc' = inc
          \/ inc' = [inc EXCEPT ![i] =
                [inc[i] EXCEPT !.state = "in_progress", !.received = 0, !.prefix = <<>>,
                               !.hash = <<>>, !.temp = 0, !.handle = 0]]
          \/ inc' = [inc EXCEPT ![i] = [inc[i] EXCEPT !.state = "canceled", !.handle = 0]]
      BY <1>2 DEF HandleRestart, HandlePeerCancel
    <3> HIDE DEF i
    <3> QED
      BY <1>0, <2>2, <3>1, <3>2, <3>3, EntryGoesOn
  <2> HIDE DEF i
  <2>5. Quiet({})
    BY <1>c, <2>1, <2>2, <2>3, <2>4, HandlerMoves
  <2> QED
    BY <2>5
<1>3. CASE HandleStrayChunk \/ HandleStrayDone
  <2> DEFINE i == Frame("receiver").id
  <2>1. Frame("receiver") \in AnyFrame /\ HeadFor(i)
    BY <1>3, AnswerTypes DEF HandleStrayChunk, HandleStrayDone, Incoming, HeadFor, Frame
  <2>2. i \in TransferId
    BY <2>1, FrameFields
  <2>3. wire' = Consumed("receiver") /\ UNCHANGED <<job, mail, saved, inc>>
    BY <1>3 DEF HandleStrayChunk, HandleStrayDone, disk
  <2> HIDE DEF i
  <2>4. Quiet({})
    BY <1>c, <2>1, <2>2, <2>3, HandlerMoves
  <2> QED
    BY <2>4
<1>4. ASSUME NEW i \in TransferId, HandleBadChunk(i) PROVE \E F : Quiet(F)
  <2>1. HeadFor(i) /\ Frame("receiver").id = i
    BY <1>4 DEF HandleBadChunk, ChunkFor, Incoming, HeadFor, Frame
  <2> DEFINE e == FailedEntry(Opened(i).entry)
  <2>2. inc' = [inc EXCEPT ![i] = e] /\ wire' = Answer(FileCancel(i))
        /\ UNCHANGED <<job, mail, saved>>
    BY <1>4, <2>1 DEF HandleBadChunk
  <2>3. e.state = "failed"
    <3>1. Opened(i).entry \in Entry
      BY OpenedTypes
    <3> QED
      BY <3>1 DEF FailedEntry, Entry
  <2> HIDE DEF e
  <2>4. inc'[i] = e /\ \A k \in TransferId \ {i} : inc'[k] = inc[k]
    BY <1>0, <2>2, EntryGoesOn
  <2>5. Quiet({FileCancel(i)})
    BY <1>c, <2>1, <2>2, <2>3, <2>4, HandlerMoves
  <2> QED
    BY <2>5
<1>5. ASSUME NEW i \in TransferId, HandleLateChunk(i) \/ HandleDoneUnsaved(i) \/ HandleDoneMismatch(i)
      PROVE  \E F : Quiet(F)
  <2>1. HeadFor(i)
    BY <1>5 DEF HandleLateChunk, HandleDoneUnsaved, HandleDoneMismatch, ChunkFor, DoneFor,
               Incoming, HeadFor, Frame
  <2>2. wire' = Consumed("receiver") \/ wire' = Answer(FileCancel(i))
    BY <1>5 DEF HandleLateChunk, HandleDoneUnsaved, HandleDoneMismatch
  <2>3. UNCHANGED <<job, mail, saved>>
    BY <1>5 DEF HandleLateChunk, HandleDoneUnsaved, HandleDoneMismatch, disk
  <2>4. PICK e : inc' = [inc EXCEPT ![i] = e] /\ e.state \in {"none", "failed"}
    <3>1. NoEntry.state = "none"
      BY DEF NoEntry
    <3>2. [inc[i] EXCEPT !.state = "failed", !.handle = 0, !.hash = NoHash].state = "failed"
      BY <1>0 DEF Entry
    <3>3. [FailedEntry(inc[i]) EXCEPT !.hash = NoHash].state = "failed"
      <4>1. FailedEntry(inc[i]) \in Entry /\ FailedEntry(inc[i]).state = "failed"
        BY <1>0 DEF FailedEntry, Entry, EntryState
      <4> QED
        BY <4>1 DEF Entry
    <3> QED
      <4>1. CASE HandleLateChunk(i)
        BY <4>1, <3>1 DEF HandleLateChunk
      <4>2. CASE HandleDoneUnsaved(i)
        BY <4>2, <3>2 DEF HandleDoneUnsaved
      <4>3. CASE HandleDoneMismatch(i)
        BY <4>3, <3>3 DEF HandleDoneMismatch
      <4> QED
        BY <1>5, <4>1, <4>2, <4>3
  <2>5. inc'[i] = e /\ \A k \in TransferId \ {i} : inc'[k] = inc[k]
    BY <1>0, <2>4, EntryGoesOn
  <2>6. Quiet({FileCancel(i)})
    BY <1>c, <2>1, <2>2, <2>3, <2>4, <2>5, HandlerMoves
  <2> QED
    BY <2>6
<1>6. ASSUME NEW i \in TransferId, HandleDone(i) PROVE \E F : Quiet(F)
  <2> DEFINE f == FileDone(i, Frame("receiver").hash)
             n == IF inc[i].temp = 0 THEN Len(data) + 1 ELSE link[inc[i].temp]
  <2>1. /\ Frame("receiver") \in AnyFrame /\ Frame("receiver").kind = "file_done"
        /\ wire["receiver"] # <<>> /\ HeadFor(i) /\ Head(wire["receiver"]).kind = "file_done"
    BY <1>6, AnswerTypes DEF HandleDone, DoneFor, Incoming, HeadFor, Frame
  <2>2. f \in AnyFrame /\ f.id = i /\ f.kind = "file_done"
    <3>1. Frame("receiver").hash \in Seq(Block)
      BY <2>1, FrameFields
    <3> QED
      BY <3>1, FrameTypes DEF FileDone
  <2>3. n # 0
    <3>1. Len(data) \in Nat
      BY DiskTypes DEF Contents
    <3> QED
      BY <1>6, <3>1 DEF HandleDone, CanFinalize
  <2>4. /\ wire' = Answer(f) /\ UNCHANGED <<job, mail>>
        /\ saved' = [saved EXCEPT ![i] = n]
        /\ \A k \in TransferId \ {i} : inc'[k] = inc[k]
    BY <1>0, <1>6 DEF HandleDone, Typed
  <2> HIDE DEF f, n
  <2>5. \A k \in TransferId : saved'[k] = IF k = i THEN n ELSE saved[k]
    BY <1>0, <2>4 DEF Typed
  <2>6. /\ wire'["receiver"] = Tail(wire["receiver"])
        /\ Moved(wire'["receiver"], wire["receiver"], {})
        /\ Moved(wire'["sender"], wire["sender"], {f})
    BY <1>0, <2>1, <2>2, <2>4, AnswerMoves
  <2>7. DoneAt(i)
    BY <2>1, <2>6 DEF DoneAt
  <2>8. \A k \in TransferId : EntryMoves(k) /\ JobMoves(k)
    BY <2>1, <2>3, <2>4, <2>5, <2>7 DEF EntryMoves, JobMoves, SameCounts
  <2>9. Quiet({f})
    BY <1>0, <2>2, <2>3, <2>4, <2>5, <2>6, <2>8, MailMoves DEF ReceiverMoves
  <2> QED
    BY <2>9
<1> QED
  BY <1>1, <1>2, <1>3, <1>4, <1>5, <1>6 DEF Receive, Dispatch

(* A block that is received, and acknowledged at times.                     *)
LEMMA BlockMoves ==
    ASSUME Typing, NEW i \in TransferId, HandleChunk(i)
    PROVE  \/ ReceiverMoves({})
           \/ \E a \in AnyFrame :
                 /\ ReceiverMoves({a}) /\ a.kind = "chunk_ack" /\ a.id = i
                 /\ wire["receiver"] # <<>> /\ wire'["receiver"] = Tail(wire["receiver"])
                 /\ Head(wire["receiver"]).kind = "chunk" /\ Head(wire["receiver"]).id = i
                 /\ Head(wire["receiver"]) \in AnyFrame
                 /\ a.seq = Head(wire["receiver"]).seq
<1>0. Typed /\ \A k \in TransferId : inc[k] \in Entry
  BY DEF Typing, Typed
<1> DEFINE f == Frame("receiver")
           a == ChunkAck(i, f.seq)
           o == Opened(i).entry
           got == [o EXCEPT !.received = @ + 1, !.hash = Append(@, f.block)]
<1>1. /\ f \in AnyFrame /\ f.kind = "chunk" /\ f.id = i
      /\ wire["receiver"] # <<>> /\ HeadFor(i) /\ f = Head(wire["receiver"])
  BY AnswerTypes DEF HandleChunk, ChunkFor, Incoming, HeadFor, Frame
<1>2. a \in AnyFrame /\ a.id = i /\ a.kind = "chunk_ack" /\ a.seq = f.seq
  <2>1. f.seq \in Nat
    BY <1>1, FrameFields
  <2> QED
    BY <2>1, FrameTypes DEF ChunkAck
<1>3. /\ inc' = [inc EXCEPT ![i] = got] /\ UNCHANGED <<job, mail, saved>>
      /\ wire' = Consumed("receiver") \/ wire' = Answer(a)
  BY DEF HandleChunk
<1>4. got.state \in {inc[i].state, "in_progress"}
  <2>1. o \in Entry /\ o.state \in {inc[i].state, "in_progress"}
    BY OpenedTypes, OpenedState
  <2> HIDE DEF o
  <2>2. got.state = o.state
    BY <2>1 DEF Entry
  <2> QED
    BY <2>1, <2>2
<1> HIDE DEF got, a
<1>5. inc'[i] = got /\ \A k \in TransferId \ {i} : inc'[k] = inc[k]
  BY <1>0, <1>3, EntryGoesOn
<1>6. ReceiverMoves({a}) /\ (wire' = Consumed("receiver") => ReceiverMoves({}))
  BY <1>1, <1>2, <1>3, <1>4, <1>5, HandlerMoves
<1>7. wire' = Answer(a) => wire'["receiver"] = Tail(wire["receiver"])
  BY <1>0, <1>1, <1>2, AnswerMoves
<1> QED
  BY <1>1, <1>2, <1>3, <1>6, <1>7

(* Edits, disconnections, crashes and clean-ups add no frame.               *)
LEMMA SessionMoves ==
    ASSUME Typing,
           \/ EditSource \/ CleanUpIncoming \/ CleanUpOutgoing
           \/ CrashSender \/ CrashReceiver \/ \E e \in End : Dial(e) \/ Disconnect(e)
    PROVE  ReceiverMoves({})
<1>0. /\ Typed /\ wire \in [End -> Seq(AnyFrame)] /\ mail \in [TransferId -> Seq(AnyFrame)]
      /\ "sender" \in End /\ "receiver" \in End
      /\ \A i \in TransferId : inc[i] \in Entry /\ job[i] \in Job
  BY EndFacts DEF Typing, Typed
<1>1. /\ wire["receiver"] \in Seq(AnyFrame) /\ wire["sender"] \in Seq(AnyFrame)
      /\ \A k \in TransferId : mail[k] \in Seq(AnyFrame)
  BY <1>0
<1>2. \A e \in End : wire'[e] = wire[e] \/ wire'[e] = <<>>
  BY <1>0 DEF EditSource, CleanUpIncoming, CleanUpOutgoing, CrashSender, CrashReceiver, Dial,
              Connect, NoticeClosed, Disconnect, Close, net
<1>3. /\ Moved(wire'["receiver"], wire["receiver"], {})
      /\ Moved(wire'["sender"], wire["sender"], {})
  BY <1>0, <1>1, <1>2, MovedCases
<1>4. \A k \in TransferId : Moved(mail'[k], mail[k], Cancels)
  <2> SUFFICES ASSUME NEW k \in TransferId PROVE Moved(mail'[k], mail[k], Cancels)
    OBVIOUS
  <2>1. mail'[k] = mail[k] \/ mail'[k] = <<>> \/ mail'[k] = Append(mail[k], Disconnected(k))
    BY <1>0 DEF EditSource, CleanUpIncoming, CleanUpOutgoing, CrashSender, CrashReceiver, Dial,
                Connect, NoticeClosed, Disconnect
  <2>2. Disconnected(k) \in Cancels \cap AnyFrame
    BY FrameTypes DEF Cancels, Disconnected
  <2> QED
    BY <1>1, <2>1, <2>2, MovedCases
<1>5. \A k \in TransferId : JobMoves(k)
  <2> SUFFICES ASSUME NEW k \in TransferId PROVE JobMoves(k)
    OBVIOUS
  <2> DEFINE j == [job[k] EXCEPT !.pc = "over", !.state = "lost", !.paused = FALSE]
  <2>1. job'[k] = job[k] \/ job'[k] = j
    BY <1>0 DEF EditSource, CleanUpIncoming, CleanUpOutgoing, CrashSender, CrashReceiver, Dial,
                Connect, NoticeClosed, Disconnect, net
  <2>2. j.pc = "over" /\ j.state = "lost" /\ SameCounts(j, job[k])
    BY <1>0 DEF Job, SameCounts
  <2> HIDE DEF j
  <2> QED
    BY <2>1, <2>2 DEF JobMoves, SameCounts, Past
<1>6. \A k \in TransferId : EntryMoves(k)
  <2> SUFFICES ASSUME NEW k \in TransferId PROVE EntryMoves(k)
    OBVIOUS
  <2> DEFINE e == [inc[k] EXCEPT !.state = "failed", !.handle = 0]
  <2>1. UNCHANGED saved
    BY DEF EditSource, CleanUpIncoming, CleanUpOutgoing, CrashSender, CrashReceiver, Dial,
           Connect, NoticeClosed, Disconnect, disk
  <2>2. inc'[k] = inc[k] \/ inc'[k] = NoEntry \/ (inc[k].state # "done" /\ inc'[k] = e)
    BY <1>0 DEF EditSource, CleanUpIncoming, CleanUpOutgoing, CrashSender, CrashReceiver, Dial,
                Connect, NoticeClosed, Disconnect
  <2>3. e.state = "failed" /\ NoEntry.state = "none"
    BY <1>0 DEF Entry, EntryState, NoEntry
  <2> HIDE DEF e
  <2> QED
    BY <2>1, <2>2, <2>3 DEF EntryMoves
<1> QED
  BY <1>3, <1>4, <1>5, <1>6 DEF ReceiverMoves

(* A reply goes from the wire to the task.                                  *)
LEMMA ForwardMoves ==
    ASSUME Typing, forward_outgoing
    PROVE  /\ wire["sender"] # <<>> /\ Frame("sender") \in AnyFrame
           /\ Frame("sender") = Head(wire["sender"])
           /\ wire'["receiver"] = wire["receiver"] /\ wire'["sender"] = Tail(wire["sender"])
           /\ \A k \in TransferId :
                 \/ mail'[k] = mail[k]
                 \/ k = Frame("sender").id /\ mail'[k] = Append(mail[k], Frame("sender"))
           /\ UNCHANGED <<job, inc, saved>>
<1>0. Typed /\ "sender" \in End /\ "receiver" \in End /\ wire["sender"] # <<>>
  BY EndFacts DEF Typing, forward_outgoing
<1>1. Frame("sender") \in AnyFrame /\ Frame("sender") = Head(wire["sender"])
  BY <1>0, HeadTypes DEF Frame
<1>2. wire'["receiver"] = wire["receiver"] /\ wire'["sender"] = Tail(wire["sender"])
  BY <1>0 DEF forward_outgoing, Consumed, Typed
<1>3. UNCHANGED <<job, inc, saved>>
  BY DEF forward_outgoing, disk
<1>4. \A k \in TransferId :
          \/ mail'[k] = mail[k]
          \/ k = Frame("sender").id /\ mail'[k] = Append(mail[k], Frame("sender"))
  <2> DEFINE f == Frame("sender")
  <2>1. mail' = mail \/ mail' = [mail EXCEPT ![f.id] = Append(mail[f.id], f)]
    BY DEF forward_outgoing
  <2> HIDE DEF f
  <2>2. \A k \in TransferId :
            \/ mail'[k] = mail[k]
            \/ k = f.id /\ mail'[k] = Append(mail[k], f)
    BY <1>0, <2>1 DEF Typed
  <2> QED
    BY <2>2 DEF f
<1> QED
  BY <1>0, <1>1, <1>2, <1>3, <1>4

-----------------------------------------------------------------------------
(* The numbers under way.                                                  *)

Chunks(i) == {f \in AnyFrame : f.kind = "chunk" /\ f.id = i}

Acks(i) == {f \in AnyFrame : f.kind = "chunk_ack" /\ f.id = i}

AnyAck == {f \in AnyFrame : f.kind = "chunk_ack"}

(* What is not acknowledged is in flight, and a task begins with nothing.   *)
Counted(i) ==
    /\ job[i].inFlight + job[i].acked = job[i].seq
    /\ job[i].pc = "none" => SameCounts(job[i], NoJob)

(* The numbers of the blocks and of the acknowledgements under way lie      *)
(* within those of the task.                                                *)
NumbersWithin(i) ==
    /\ Within(wire["receiver"], Chunks(i), job[i].acked + 1, job[i].seq)
    /\ Within(wire["sender"], Acks(i), job[i].acked, job[i].seq)
    /\ Within(mail[i], AnyAck, job[i].acked, job[i].seq)

(* Blocks and acknowledgements rise, and follow each other: first what the  *)
(* task has in its queue, then what is on its way back, then what is not    *)
(* received.                                                                *)
NumbersRise(i) ==
    /\ Rising(mail[i], AnyAck, 0)
    /\ Rising(wire["sender"], Acks(i), 0)
    /\ Rising(wire["receiver"], Chunks(i), 1)
    /\ Below(mail[i], AnyAck, wire["sender"], Acks(i), 0)
    /\ Below(mail[i], AnyAck, wire["receiver"], Chunks(i), 1)
    /\ Below(wire["sender"], Acks(i), wire["receiver"], Chunks(i), 1)

Trail == \A i \in TransferId : Counted(i) /\ NumbersWithin(i) /\ NumbersRise(i)

(* The types of the channels and of what the tasks count.                   *)
LEMMA Channels ==
    ASSUME Typing
    PROVE  /\ wire["receiver"] \in Seq(AnyFrame) /\ wire["sender"] \in Seq(AnyFrame)
           /\ \A k \in TransferId : mail[k] \in Seq(AnyFrame) /\ job[k] \in Job
                                   /\ job[k].seq \in Nat /\ job[k].acked \in Nat
                                   /\ job[k].inFlight \in 0 .. Window
  BY EndFacts DEF Typing, Typed, Job

(* A step that moves no block and no acknowledgement but takes some off.    *)
LEMMA TrailQuiet ==
    ASSUME Typing, Typing', NEW i \in TransferId, NEW F, NEW G, NEW M,
           Counted(i), NumbersWithin(i), NumbersRise(i),
           Moved(wire'["receiver"], wire["receiver"], F), \A f \in F : f \notin Chunks(i),
           Moved(wire'["sender"], wire["sender"], G), \A f \in G : f \notin Acks(i),
           Moved(mail'[i], mail[i], M), \A f \in M : f \notin AnyAck,
           SameCounts(job'[i], job[i]), job'[i].pc = "none" => job[i].pc = "none"
    PROVE  Counted(i)' /\ NumbersWithin(i)' /\ NumbersRise(i)'
<1>1. /\ wire["receiver"] \in Seq(AnyFrame) /\ wire["sender"] \in Seq(AnyFrame)
      /\ mail[i] \in Seq(AnyFrame)
  BY Channels
<1>2. /\ wire'["receiver"] \in Seq(AnyFrame) /\ wire'["sender"] \in Seq(AnyFrame)
      /\ mail'[i] \in Seq(AnyFrame)
  BY EndFacts DEF Typing, Typed
<1> DEFINE r == wire["receiver"]
           s == wire["sender"]
           m == mail[i]
           r2 == wire'["receiver"]
           s2 == wire'["sender"]
           m2 == mail'[i]
           a == job[i].acked
           b == job[i].seq
<1>3. /\ Within(r, Chunks(i), a + 1, b) /\ Within(s, Acks(i), a, b) /\ Within(m, AnyAck, a, b)
      /\ Rising(m, AnyAck, 0) /\ Rising(s, Acks(i), 0) /\ Rising(r, Chunks(i), 1)
      /\ Below(m, AnyAck, s, Acks(i), 0) /\ Below(m, AnyAck, r, Chunks(i), 1)
      /\ Below(s, Acks(i), r, Chunks(i), 1)
  BY DEF NumbersWithin, NumbersRise
<1>4. job'[i].acked = a /\ job'[i].seq = b /\ Counted(i)'
  BY DEF SameCounts, Counted
<1>5. Moved(r2, r, F) /\ Moved(s2, s, G) /\ Moved(m2, m, M)
  OBVIOUS
<1>6. /\ r \in Seq(AnyFrame) /\ s \in Seq(AnyFrame) /\ m \in Seq(AnyFrame)
      /\ r2 \in Seq(AnyFrame) /\ s2 \in Seq(AnyFrame) /\ m2 \in Seq(AnyFrame)
  BY <1>1, <1>2
<1> HIDE DEF r, s, m, r2, s2, m2, a, b
<1>7. /\ Within(r2, Chunks(i), a + 1, b) /\ Within(s2, Acks(i), a, b) /\ Within(m2, AnyAck, a, b)
  BY <1>3, <1>5, <1>6, MovedWithin
<1>8. Rising(m2, AnyAck, 0) /\ Rising(s2, Acks(i), 0) /\ Rising(r2, Chunks(i), 1)
  BY <1>3, <1>5, <1>6, MovedRising
<1>9. Below(m2, AnyAck, s2, Acks(i), 0)
  BY <1>3, <1>5, <1>6, MovedBelow
<1>10. Below(m2, AnyAck, r2, Chunks(i), 1)
  BY <1>3, <1>5, <1>6, MovedBelow
<1>11. Below(s2, Acks(i), r2, Chunks(i), 1)
  BY <1>3, <1>5, <1>6, MovedBelow
<1> QED
  BY <1>4, <1>7, <1>8, <1>9, <1>10, <1>11 DEF NumbersWithin, NumbersRise, r, s, m, r2, s2, m2, a, b

OnTrail(i) == Counted(i) /\ NumbersWithin(i) /\ NumbersRise(i)

(* The numbers of the frames are numbers, and a frame sent by one task is   *)
(* none of another.                                                         *)
LEMMA Sorts ==
    /\ \A i \in TransferId : \A f \in Chunks(i) \cup Acks(i) : f.seq \in Nat
    /\ \A f \in AnyAck : f.seq \in Nat
    /\ \A i \in TransferId : Acks(i) \subseteq AnyAck
    /\ \A f \in Cancels : f \notin AnyAck
  BY FrameFields DEF Chunks, Acks, AnyAck, Cancels

(* A transfer keeps Trail while its counts stay and no block is added.      *)
LEMMA TrailKept ==
    ASSUME Typing, Typing', Trail, NEW i \in TransferId, NEW F, SenderMoves(i, F),
           NEW k \in TransferId, \A f \in F : f \notin Chunks(k),
           SameCounts(job'[k], job[k]), job'[k].pc = "none" => job[k].pc = "none"
    PROVE  OnTrail(k)'
<1>1. /\ Counted(k) /\ NumbersWithin(k) /\ NumbersRise(k)
  BY DEF Trail
<1>2. /\ Moved(wire'["receiver"], wire["receiver"], F) /\ Moved(wire'["sender"], wire["sender"], {})
      /\ Moved(mail'[k], mail[k], Cancels)
  BY DEF SenderMoves
<1>3. (\A f \in Cancels : f \notin AnyAck) /\ (\A f \in {} : f \notin Acks(k))
  BY Sorts
<1> QED
  BY <1>1, <1>2, <1>3, TrailQuiet DEF OnTrail

(* A step of one transfer keeps the Trail of the others.                    *)
LEMMA TrailOthers ==
    ASSUME Typing, Typing', Trail, NEW i \in TransferId, NEW F, SenderMoves(i, F),
           NEW k \in TransferId \ {i}
    PROVE  OnTrail(k)'
<1>1. (\A f \in F : f \notin Chunks(k)) /\ job'[k] = job[k]
  BY DEF SenderMoves, Chunks
<1>2. SameCounts(job'[k], job[k])
  BY <1>1 DEF SameCounts
<1> QED
  BY <1>1, <1>2, TrailKept

(* A step of the sender that keeps the counts keeps Trail.                  *)
LEMMA TrailSender ==
    ASSUME Typing, Typing', Trail, NEW i \in TransferId, NEW F, SenderMoves(i, F), Counts(i),
           \A f \in F : f.kind # "chunk"
    PROVE  Trail'
<1>1. Counted(i)
  BY DEF Trail
<1>2. (\A f \in F : f \notin Chunks(i)) /\ (job'[i].pc = "none" => job[i].pc = "none")
  BY DEF SenderMoves, Chunks
<1>3. SameCounts(job'[i], job[i])
  BY <1>1 DEF Counts, Counted, SameCounts
<1>4. OnTrail(i)'
  BY <1>2, <1>3, TrailKept
<1>5. \A k \in TransferId \ {i} : OnTrail(k)'
  BY TrailOthers
<1> QED
  BY <1>4, <1>5 DEF Trail, OnTrail

(* A step of the receiver without an acknowledgement keeps Trail.           *)
LEMMA TrailReceiver ==
    ASSUME Typing, Typing', Trail, NEW F, ReceiverMoves(F), NEW k \in TransferId,
           \A f \in F : f \notin Acks(k)
    PROVE  OnTrail(k)'
<1>1. /\ Counted(k) /\ NumbersWithin(k) /\ NumbersRise(k)
  BY DEF Trail
<1>2. /\ Moved(wire'["receiver"], wire["receiver"], {})
      /\ Moved(wire'["sender"], wire["sender"], F) /\ Moved(mail'[k], mail[k], Cancels)
      /\ SameCounts(job'[k], job[k]) /\ (job'[k].pc = "none" => job[k].pc = "none")
  BY DEF ReceiverMoves, JobMoves
<1>3. \A f \in Cancels : f \notin AnyAck
  BY Sorts
<1> QED
  BY <1>1, <1>2, <1>3, TrailQuiet DEF OnTrail

(* A block is sent: its number is above all others.                         *)
LEMMA TrailChunk ==
    ASSUME Typing, Typing', Trail, NEW i \in TransferId, NEW c \in AnyFrame,
           SenderMoves(i, {c}), c.kind = "chunk", c.seq = job[i].seq + 1,
           job'[i].seq = job[i].seq + 1, job'[i].acked = job[i].acked,
           job'[i].inFlight = job[i].inFlight + 1, job[i].pc # "none"
    PROVE  Trail'
<1>1. /\ wire["receiver"] \in Seq(AnyFrame) /\ wire["sender"] \in Seq(AnyFrame)
      /\ mail[i] \in Seq(AnyFrame) /\ job[i].seq \in Nat /\ job[i].acked \in Nat
      /\ job[i].inFlight \in Nat
  BY Channels, Numbers
<1>2. /\ wire'["receiver"] \in Seq(AnyFrame) /\ wire'["sender"] \in Seq(AnyFrame)
      /\ mail'[i] \in Seq(AnyFrame)
  BY EndFacts DEF Typing, Typed
<1> DEFINE r == wire["receiver"]
           s == wire["sender"]
           m == mail[i]
           r2 == wire'["receiver"]
           s2 == wire'["sender"]
           m2 == mail'[i]
           a == job[i].acked
           b == job[i].seq
<1>3. /\ Within(r, Chunks(i), a + 1, b) /\ Within(s, Acks(i), a, b) /\ Within(m, AnyAck, a, b)
      /\ Rising(m, AnyAck, 0) /\ Rising(s, Acks(i), 0) /\ Rising(r, Chunks(i), 1)
      /\ Below(m, AnyAck, s, Acks(i), 0) /\ Below(m, AnyAck, r, Chunks(i), 1)
      /\ Below(s, Acks(i), r, Chunks(i), 1)
  BY DEF Trail, NumbersWithin, NumbersRise
<1>4. Counted(i)'
  <2>1. job[i].inFlight + job[i].acked = job[i].seq
    BY DEF Trail, Counted
  <2>2. job'[i].inFlight + job'[i].acked = job'[i].seq
    <3>1. ASSUME NEW x \in Nat, NEW y \in Nat, NEW z \in Nat, x + y = z
          PROVE  (x + 1) + y = z + 1
      BY <3>1
    <3>2. (job[i].inFlight + 1) + job[i].acked = job[i].seq + 1
      BY <1>1, <2>1, <3>1
    <3> QED
      BY <3>2
  <2>3. job'[i].pc # "none"
    BY DEF SenderMoves
  <2> QED
    BY <2>2, <2>3 DEF Counted
<1>5. Moved(r2, r, {c}) /\ Moved(s2, s, {}) /\ Moved(m2, m, Cancels)
  BY DEF SenderMoves
<1>6. /\ r \in Seq(AnyFrame) /\ s \in Seq(AnyFrame) /\ m \in Seq(AnyFrame)
      /\ r2 \in Seq(AnyFrame) /\ s2 \in Seq(AnyFrame) /\ m2 \in Seq(AnyFrame)
      /\ a \in Nat /\ b \in Nat /\ c.seq = b + 1 /\ a <= b
  <2>1. job[i].inFlight + job[i].acked = job[i].seq
    BY DEF Trail, Counted
  <2> QED
    BY <1>1, <1>2, <2>1
<1>7. \A f \in Cancels : f \notin AnyAck
  BY Sorts
<1>8. job'[i].acked = a /\ job'[i].seq = b + 1
  OBVIOUS
<1> HIDE DEF r, s, m, r2, s2, m2, a, b
<1>9. ASSUME NEW q \in Seq(AnyFrame), NEW G \in {Chunks(i), Acks(i), AnyAck}, NEW l, Within(q, G, l, b)
      PROVE  /\ Within(q, G, l, b + 1)
             /\ \A k \in 1 .. Len(q) : q[k] \in G => q[k].seq + 1 <= c.seq
  <2> SUFFICES ASSUME NEW k \in 1 .. Len(q), q[k] \in G
               PROVE  l <= q[k].seq /\ q[k].seq <= b + 1 /\ q[k].seq + 1 <= c.seq
    BY DEF Within
  <2>1. q[k].seq \in Nat
    BY Sorts
  <2>2. l <= q[k].seq /\ q[k].seq <= b
    BY <1>9 DEF Within
  <2> QED
    BY <1>6, <2>1, <2>2
<1>10. /\ Within(r, Chunks(i), a + 1, b + 1) /\ Within(s, Acks(i), a, b + 1)
       /\ Within(m, AnyAck, a, b + 1)
  BY <1>3, <1>6, <1>9
<1>11. Within(r2, Chunks(i), a + 1, b + 1)
  <2>1. a + 1 <= c.seq /\ c.seq <= b + 1
    BY <1>6
  <2> QED
    BY <1>5, <1>6, <1>10, <2>1, MovedWithin
<1>12. Within(s2, Acks(i), a, b + 1) /\ Within(m2, AnyAck, a, b + 1)
  BY <1>5, <1>6, <1>7, <1>10, MovedWithin
<1>13. Rising(m2, AnyAck, 0) /\ Rising(s2, Acks(i), 0)
  BY <1>3, <1>5, <1>6, <1>7, MovedRising
<1>14. Rising(r2, Chunks(i), 1)
  <2>1. \A k \in 1 .. Len(r) : r[k] \in Chunks(i) => r[k].seq + 1 <= c.seq
    BY <1>3, <1>6, <1>9
  <2> QED
    BY <1>3, <1>5, <1>6, <2>1, MovedRising
<1>15. Below(m2, AnyAck, s2, Acks(i), 0)
  BY <1>3, <1>5, <1>6, <1>7, MovedBelow
<1>16. Below(m2, AnyAck, r2, Chunks(i), 1)
  <2>1. \A k \in 1 .. Len(m) : m[k] \in AnyAck => m[k].seq + 1 <= c.seq
    BY <1>3, <1>6, <1>9
  <2> QED
    BY <1>3, <1>5, <1>6, <1>7, <2>1, MovedBelow
<1>17. Below(s2, Acks(i), r2, Chunks(i), 1)
  <2>1. \A k \in 1 .. Len(s) : s[k] \in Acks(i) => s[k].seq + 1 <= c.seq
    BY <1>3, <1>6, <1>9
  <2> QED
    BY <1>3, <1>5, <1>6, <1>7, <2>1, MovedBelow
<1>18. OnTrail(i)'
  BY <1>4, <1>8, <1>11, <1>12, <1>13, <1>14, <1>15, <1>16, <1>17
  DEF OnTrail, NumbersWithin, NumbersRise, r2, s2, m2
<1>19. \A k \in TransferId \ {i} : OnTrail(k)'
  BY TrailOthers
<1> QED
  BY <1>18, <1>19 DEF Trail, OnTrail

(* An acknowledgement is read: the others, and the blocks, are above it.    *)
LEMMA TrailAck ==
    ASSUME Typing, Typing', Trail, NEW i \in TransferId, Acknowledged(i)
    PROVE  Trail'
<1> DEFINE r == wire["receiver"]
           s == wire["sender"]
           m == mail[i]
           m2 == mail'[i]
           a == job[i].acked
           b == job[i].seq
           h == Head(mail[i])
<1>1. /\ SenderMoves(i, {}) /\ wire' = wire /\ mail[i] # <<>> /\ mail' = [mail EXCEPT ![i] = Tail(@)]
      /\ h \in AnyAck /\ job'[i].seq = b /\ job'[i].acked = h.seq
      /\ job'[i].inFlight = Outstanding(job[i], h.seq) /\ job[i].pc # "none"
  BY AckMoves DEF AnyAck
<1>2. /\ r \in Seq(AnyFrame) /\ s \in Seq(AnyFrame) /\ m \in Seq(AnyFrame) /\ m # <<>>
      /\ m2 = Tail(m) /\ m2 \in Seq(AnyFrame) /\ h = Head(m) /\ h = m[1] /\ 1 \in 1 .. Len(m)
      /\ a \in Nat /\ b \in Nat /\ h.seq \in Nat
      /\ job[i].inFlight \in Nat
  <2>1. /\ r \in Seq(AnyFrame) /\ s \in Seq(AnyFrame) /\ m \in Seq(AnyFrame)
        /\ a \in Nat /\ b \in Nat /\ job[i].inFlight \in Nat
    BY Channels, Numbers
  <2>2. m2 = Tail(m)
    BY <1>1 DEF Typing, Typed
  <2>3. m # <<>> /\ h.seq \in Nat
    BY <1>1, Sorts
  <2>4. m2 \in Seq(AnyFrame)
    BY <2>1, <2>2, <2>3, HeadTailProperties
  <2>5. Len(m) \in Nat /\ Len(m) # 0 /\ Head(m) = m[1]
    BY <2>1, <2>3
  <2> QED
    BY <2>1, <2>2, <2>3, <2>4, <2>5
<1>3. /\ Within(r, Chunks(i), a + 1, b) /\ Within(s, Acks(i), a, b) /\ Within(m, AnyAck, a, b)
      /\ Rising(m, AnyAck, 0) /\ Rising(s, Acks(i), 0) /\ Rising(r, Chunks(i), 1)
      /\ Below(m, AnyAck, s, Acks(i), 0) /\ Below(m, AnyAck, r, Chunks(i), 1)
      /\ Below(s, Acks(i), r, Chunks(i), 1)
      /\ job[i].inFlight + a = b
  BY DEF Trail, NumbersWithin, NumbersRise, Counted
<1>4. a <= h.seq /\ h.seq <= b
  BY <1>1, <1>2, <1>3 DEF Within
<1>5. Counted(i)'
  <2>1. job'[i].pc # "none"
    BY <1>1 DEF SenderMoves
  <2>2. Outstanding(job[i], h.seq) + h.seq = b
    <3>1. ASSUME NEW x \in Nat, NEW y \in Nat, NEW z \in Nat, NEW n \in Nat,
                 x + y = z, y <= n, n <= z
          PROVE  Minus(x, Minus(n, y)) + n = z
      BY <3>1 DEF Minus
    <3>2. Minus(job[i].inFlight, Minus(h.seq, a)) + h.seq = b
      BY <1>2, <1>3, <1>4, <3>1
    <3> QED
      BY <3>2 DEF Outstanding
  <2> QED
    BY <1>1, <2>1, <2>2 DEF Counted
<1>6. Moved(m2, m, {})
  BY <1>2, MovedCases
<1> HIDE DEF r, s, m, m2, a, b, h
<1>7. Within(r, Chunks(i), h.seq + 1, b)
  BY <1>1, <1>2, <1>3 DEF Within, Below
<1>8. Within(s, Acks(i), h.seq, b)
  <2>1. \A k \in 1 .. Len(s) : s[k] \in Acks(i) => h.seq + 0 <= s[k].seq
    BY <1>1, <1>2, <1>3 DEF Below
  <2> SUFFICES ASSUME NEW k \in 1 .. Len(s), s[k] \in Acks(i)
               PROVE  h.seq <= s[k].seq /\ s[k].seq <= b
    BY DEF Within
  <2>2. h.seq + 0 <= s[k].seq /\ s[k].seq \in Nat
    BY <2>1, Sorts
  <2> QED
    BY <1>2, <1>3, <2>2 DEF Within
<1>9. Within(m2, AnyAck, h.seq, b)
  <2>1. \A k \in 1 .. Len(m2) : m2[k] \in AnyAck => h.seq + 0 <= m2[k].seq
    BY <1>1, <1>2, <1>3, TailAbove
  <2>2. Within(m2, AnyAck, a, b)
    BY <1>2, <1>3, <1>6, Dropped
  <2> SUFFICES ASSUME NEW k \in 1 .. Len(m2), m2[k] \in AnyAck
               PROVE  h.seq <= m2[k].seq /\ m2[k].seq <= b
    BY DEF Within
  <2>3. h.seq + 0 <= m2[k].seq /\ m2[k].seq \in Nat
    BY <2>1, Sorts
  <2>4. m2[k].seq <= b
    BY <2>2 DEF Within
  <2>5. h.seq <= m2[k].seq
    BY <1>2, <2>3
  <2> QED
    BY <2>4, <2>5
<1>10. Rising(m2, AnyAck, 0)
  BY <1>2, <1>3, <1>6, Dropped
<1>12. Below(m2, AnyAck, s, Acks(i), 0) /\ Below(m2, AnyAck, r, Chunks(i), 1)
  BY <1>2, <1>3, <1>6, Dropped
<1>14. OnTrail(i)'
  BY <1>1, <1>3, <1>5, <1>7, <1>8, <1>9, <1>10, <1>12
  DEF OnTrail, NumbersWithin, NumbersRise, r, s, m2, b
<1>15. \A k \in TransferId \ {i} : OnTrail(k)'
  BY <1>1, TrailOthers
<1> QED
  BY <1>14, <1>15 DEF Trail, OnTrail

(* A block is acknowledged: it was the lowest, and above every              *)
(* acknowledgement.                                                         *)
LEMMA TrailBlock ==
    ASSUME Typing, Typing', Trail, NEW i \in TransferId, HandleChunk(i)
    PROVE  Trail'
<1>1. CASE ReceiverMoves({})
  <2>1. \A k \in TransferId : \A f \in {} : f \notin Acks(k)
    OBVIOUS
  <2>2. \A k \in TransferId : OnTrail(k)'
    BY <1>1, <2>1, TrailReceiver
  <2> QED
    BY <2>2 DEF Trail, OnTrail
<1>2. ASSUME NEW f \in AnyFrame,
             ReceiverMoves({f}), f.kind = "chunk_ack", f.id = i,
             wire["receiver"] # <<>>, wire'["receiver"] = Tail(wire["receiver"]),
             Head(wire["receiver"]).kind = "chunk", Head(wire["receiver"]).id = i,
             Head(wire["receiver"]) \in AnyFrame, f.seq = Head(wire["receiver"]).seq
      PROVE  Trail'
  <2> DEFINE r == wire["receiver"]
             s == wire["sender"]
             m == mail[i]
             r2 == wire'["receiver"]
             s2 == wire'["sender"]
             m2 == mail'[i]
             a == job[i].acked
             b == job[i].seq
             h == Head(wire["receiver"])
  <2>1. /\ r \in Seq(AnyFrame) /\ s \in Seq(AnyFrame) /\ m \in Seq(AnyFrame)
        /\ a \in Nat /\ b \in Nat
    BY Channels
  <2>2. /\ r2 \in Seq(AnyFrame) /\ s2 \in Seq(AnyFrame) /\ m2 \in Seq(AnyFrame)
    BY EndFacts DEF Typing, Typed
  <2>3. /\ Within(r, Chunks(i), a + 1, b) /\ Within(s, Acks(i), a, b) /\ Within(m, AnyAck, a, b)
        /\ Rising(m, AnyAck, 0) /\ Rising(s, Acks(i), 0) /\ Rising(r, Chunks(i), 1)
        /\ Below(m, AnyAck, s, Acks(i), 0) /\ Below(m, AnyAck, r, Chunks(i), 1)
        /\ Below(s, Acks(i), r, Chunks(i), 1)
    BY DEF Trail, NumbersWithin, NumbersRise
  <2>4. /\ Moved(r2, r, {}) /\ Moved(s2, s, {f}) /\ Moved(m2, m, Cancels)
        /\ JobMoves(i)
    BY <1>2 DEF ReceiverMoves
  <2>5. Counted(i)' /\ job'[i].acked = a /\ job'[i].seq = b
    BY <2>4 DEF Trail, Counted, JobMoves, SameCounts
  <2>6. /\ h \in Chunks(i) /\ f.seq = h.seq /\ f.seq \in Nat /\ r # <<>> /\ r2 = Tail(r)
        /\ h = Head(r) /\ h = r[1] /\ 1 \in 1 .. Len(r)
    <3>1. h \in Chunks(i) /\ h.seq \in Nat
      BY <1>2, Sorts DEF Chunks
    <3>2. Len(r) \in Nat /\ Len(r) # 0 /\ Head(r) = r[1]
      BY <1>2, <2>1
    <3> QED
      BY <1>2, <3>1, <3>2
  <2>7. \A g \in Cancels : g \notin AnyAck
    BY Sorts
  <2> HIDE DEF r, s, m, r2, s2, m2, a, b, h
  <2>8. a <= f.seq /\ f.seq <= b
    <3>1. a + 1 <= h.seq /\ h.seq <= b
      BY <2>3, <2>6 DEF Within
    <3> QED
      BY <2>1, <2>6, <3>1
  <2>9. \A k \in 1 .. Len(r2) : r2[k] \in Chunks(i) => f.seq + 1 <= r2[k].seq
    BY <2>1, <2>3, <2>6, TailAbove
  <2>10. /\ \A k \in 1 .. Len(s) : s[k] \in Acks(i) => s[k].seq + 0 <= f.seq
         /\ \A k \in 1 .. Len(m) : m[k] \in AnyAck => m[k].seq + 0 <= f.seq
    <3>1. /\ \A k \in 1 .. Len(s) : s[k] \in Acks(i) => s[k].seq + 1 <= h.seq /\ s[k].seq \in Nat
          /\ \A k \in 1 .. Len(m) : m[k] \in AnyAck => m[k].seq + 1 <= h.seq /\ m[k].seq \in Nat
      BY <2>3, <2>6, Sorts DEF Below
    <3> QED
      BY <2>6, <3>1
  <2>11. Within(r2, Chunks(i), a + 1, b) /\ Within(m2, AnyAck, a, b)
    BY <2>1, <2>2, <2>3, <2>4, <2>7, MovedWithin
  <2>12. Within(s2, Acks(i), a, b)
    BY <2>1, <2>2, <2>3, <2>4, <2>8, MovedWithin
  <2>13. Rising(m2, AnyAck, 0) /\ Rising(r2, Chunks(i), 1)
    BY <2>1, <2>2, <2>3, <2>4, <2>7, MovedRising
  <2>14. Rising(s2, Acks(i), 0)
    <3>1. \A g \in {f} : g \in Acks(i) =>
              \A k \in 1 .. Len(s) : s[k] \in Acks(i) => s[k].seq + 0 <= g.seq
      BY <2>10
    <3> DEFINE M == {f}
    <3>2. /\ s \in Seq(AnyFrame) /\ s2 \in Seq(AnyFrame) /\ Moved(s2, s, M) /\ 0 \in Nat
          /\ Rising(s, Acks(i), 0)
          /\ \A g \in M : g \in Acks(i) =>
                \A k \in 1 .. Len(s) : s[k] \in Acks(i) => s[k].seq + 0 <= g.seq
      BY <2>1, <2>2, <2>3, <2>4, <3>1
    <3> HIDE DEF M
    <3> QED
      BY ONLY <3>2, MovedRising
  <2>15. Below(m2, AnyAck, s2, Acks(i), 0)
    <3> DEFINE M == {f}
    <3>1. /\ m \in Seq(AnyFrame) /\ m2 \in Seq(AnyFrame) /\ Moved(m2, m, Cancels)
          /\ s \in Seq(AnyFrame) /\ s2 \in Seq(AnyFrame) /\ Moved(s2, s, M)
          /\ Below(m, AnyAck, s, Acks(i), 0)
      BY <2>1, <2>2, <2>3, <2>4
    <3>2. \A g \in Cancels : g \in AnyAck =>
              \A l \in 1 .. Len(s2) : s2[l] \in Acks(i) => g.seq + 0 <= s2[l].seq
      BY <2>7
    <3>3. \A g \in M : g \in Acks(i) =>
              \A k \in 1 .. Len(m) : m[k] \in AnyAck => m[k].seq + 0 <= g.seq
      BY <2>10
    <3> HIDE DEF M
    <3> QED
      BY ONLY <3>1, <3>2, <3>3, MovedBelow
  <2>16. Below(m2, AnyAck, r2, Chunks(i), 1)
    BY <2>1, <2>2, <2>3, <2>4, <2>7, MovedBelow
  <2>17. Below(s2, Acks(i), r2, Chunks(i), 1)
    <3>1. Below(s, Acks(i), r2, Chunks(i), 1)
      BY <2>1, <2>2, <2>3, <2>4, Dropped
    <3>2. Moved(r2, r2, {})
      BY <2>2, MovedCases
    <3>3. \A g \in {f} : g \in Acks(i) =>
              \A k \in 1 .. Len(r2) : r2[k] \in Chunks(i) => g.seq + 1 <= r2[k].seq
      BY <2>9
    <3> QED
      BY <2>1, <2>2, <2>4, <3>1, <3>2, <3>3, MovedBelow
  <2>18. OnTrail(i)'
    BY <2>5, <2>11, <2>12, <2>13, <2>14, <2>15, <2>16, <2>17
    DEF OnTrail, NumbersWithin, NumbersRise, r2, s2, m2
  <2>19. \A k \in TransferId \ {i} : OnTrail(k)'
    <3>1. \A k \in TransferId \ {i} : \A g \in {f} : g \notin Acks(k)
      BY <1>2 DEF Acks
    <3> QED
      BY <1>2, <3>1, TrailReceiver
  <2> QED
    BY <2>18, <2>19 DEF Trail, OnTrail
<1> QED
  BY <1>1, <1>2, BlockMoves

(* An acknowledgement comes to the queue of the task: it was the lowest on  *)
(* the wire and is above those in the queue.                                *)
LEMMA TrailForward ==
    ASSUME Typing, Typing', Trail, forward_outgoing
    PROVE  Trail'
<1> DEFINE f == Frame("sender")
<1>1. /\ wire["sender"] # <<>> /\ f \in AnyFrame /\ f = Head(wire["sender"])
      /\ wire'["receiver"] = wire["receiver"] /\ wire'["sender"] = Tail(wire["sender"])
      /\ \A k \in TransferId : mail'[k] = mail[k] \/ (k = f.id /\ mail'[k] = Append(mail[k], f))
      /\ UNCHANGED <<job, inc, saved>>
  BY ForwardMoves
<1> HIDE DEF f
<1> SUFFICES ASSUME NEW i \in TransferId PROVE OnTrail(i)'
  BY DEF Trail, OnTrail
<1> DEFINE r == wire["receiver"]
           s == wire["sender"]
           m == mail[i]
           s2 == wire'["sender"]
           m2 == mail'[i]
           a == job[i].acked
           b == job[i].seq
<1>2. /\ r \in Seq(AnyFrame) /\ s \in Seq(AnyFrame) /\ m \in Seq(AnyFrame)
      /\ a \in Nat /\ b \in Nat
  BY Channels
<1>3. s2 \in Seq(AnyFrame) /\ m2 \in Seq(AnyFrame)
  BY EndFacts DEF Typing, Typed
<1>4. /\ Counted(i) /\ NumbersWithin(i) /\ NumbersRise(i)
      /\ Within(r, Chunks(i), a + 1, b) /\ Within(s, Acks(i), a, b) /\ Within(m, AnyAck, a, b)
      /\ Rising(m, AnyAck, 0) /\ Rising(s, Acks(i), 0) /\ Rising(r, Chunks(i), 1)
      /\ Below(m, AnyAck, s, Acks(i), 0) /\ Below(m, AnyAck, r, Chunks(i), 1)
      /\ Below(s, Acks(i), r, Chunks(i), 1)
  BY DEF Trail, NumbersWithin, NumbersRise
<1>5. /\ Counted(i)' /\ job'[i].acked = a /\ job'[i].seq = b /\ wire'["receiver"] = r
  BY <1>1, <1>4 DEF Counted
<1>6. Moved(s2, s, {})
  BY <1>1, <1>2, MovedCases
<1>7. s # <<>> /\ f = Head(s) /\ f = s[1] /\ 1 \in 1 .. Len(s) /\ s2 = Tail(s)
  <2>1. Len(s) \in Nat /\ Len(s) # 0 /\ Head(s) = s[1]
    BY <1>1, <1>2
  <2> QED
    BY <1>1, <2>1
<1> HIDE DEF r, s, m, s2, m2, a, b
<1>8. /\ Within(s2, Acks(i), a, b) /\ Rising(s2, Acks(i), 0)
      /\ Below(m, AnyAck, s2, Acks(i), 0) /\ Below(s2, Acks(i), r, Chunks(i), 1)
  BY <1>2, <1>3, <1>4, <1>6, Dropped
<1>9. /\ Within(m2, AnyAck, a, b) /\ Rising(m2, AnyAck, 0)
      /\ Below(m2, AnyAck, s2, Acks(i), 0) /\ Below(m2, AnyAck, r, Chunks(i), 1)
  <2>1. CASE m2 = m
    BY <1>4, <1>8, <2>1
  <2>2. CASE i = f.id /\ m2 = Append(m, f)
    <3> DEFINE M == {f}
    <3>1. Moved(m2, m, M)
      BY <1>1, <1>2, <2>2, MovedCases
    <3>2. f \in AnyAck => f \in Acks(i)
      BY <2>2 DEF AnyAck, Acks
    <3>3. f \in AnyAck => a <= f.seq /\ f.seq <= b
      BY <1>4, <1>7, <3>2 DEF Within
    <3>4. f \in AnyAck => \A k \in 1 .. Len(m) : m[k] \in AnyAck => m[k].seq + 0 <= f.seq
      BY <1>4, <1>7, <3>2 DEF Below
    <3>5. f \in AnyAck => \A k \in 1 .. Len(s2) : s2[k] \in Acks(i) => f.seq + 0 <= s2[k].seq
      BY <1>2, <1>4, <1>7, <3>2, TailAbove
    <3>6. f \in AnyAck => \A k \in 1 .. Len(r) : r[k] \in Chunks(i) => f.seq + 1 <= r[k].seq
      BY <1>4, <1>7, <3>2 DEF Below
    <3>7. /\ \A g \in M : g \in AnyAck => a <= g.seq /\ g.seq <= b
          /\ \A g \in M : g \in AnyAck =>
                \A k \in 1 .. Len(m) : m[k] \in AnyAck => m[k].seq + 0 <= g.seq
          /\ \A g \in M : g \in AnyAck =>
                \A k \in 1 .. Len(s2) : s2[k] \in Acks(i) => g.seq + 0 <= s2[k].seq
          /\ \A g \in M : g \in AnyAck =>
                \A k \in 1 .. Len(r) : r[k] \in Chunks(i) => g.seq + 1 <= r[k].seq
      BY <3>3, <3>4, <3>5, <3>6
    <3> HIDE DEF M
    <3>8. Within(m2, AnyAck, a, b)
      BY ONLY <1>2, <1>3, <1>4, <3>1, <3>7, MovedWithin
    <3>9. Rising(m2, AnyAck, 0)
      BY ONLY <1>2, <1>3, <1>4, <3>1, <3>7, MovedRising
    <3>10. Moved(s2, s2, {}) /\ Moved(r, r, {})
      BY <1>2, <1>3, MovedCases
    <3>11. Below(m2, AnyAck, s2, Acks(i), 0)
      BY ONLY <1>2, <1>3, <1>8, <3>1, <3>7, <3>10, MovedBelow
    <3>12. Below(m2, AnyAck, r, Chunks(i), 1)
      BY ONLY <1>2, <1>3, <1>4, <3>1, <3>7, <3>10, MovedBelow
    <3> QED
      BY <3>8, <3>9, <3>11, <3>12
  <2> QED
    BY <1>1, <2>1, <2>2 DEF m, m2
<1> QED
  BY <1>4, <1>5, <1>8, <1>9 DEF OnTrail, NumbersWithin, NumbersRise, r, s2, m2

(* Trail holds at the start.                                                *)
LEMMA TrailInit == Init => Trail
<1> SUFFICES ASSUME Init, NEW i \in TransferId PROVE OnTrail(i)
  BY DEF Trail, OnTrail
<1>1. wire["receiver"] = <<>> /\ wire["sender"] = <<>> /\ mail[i] = <<>> /\ job[i] = NoJob
  BY EndFacts DEF Init
<1>2. Len(<<>>) = 0 /\ 1 .. 0 = {}
  OBVIOUS
<1>3. Counted(i)
  BY <1>1 DEF Counted, SameCounts, NoJob
<1>4. NumbersWithin(i)
  BY <1>1, <1>2 DEF NumbersWithin, Within
<1>5. NumbersRise(i)
  BY <1>1, <1>2 DEF NumbersRise, Rising, Below
<1> QED
  BY <1>3, <1>4, <1>5 DEF OnTrail

(* Trail is inductive, given the types.                                     *)
LEMMA TrailStep == Typing /\ Typing' /\ Trail /\ [Next]_vars => Trail'
<1> SUFFICES ASSUME Typing, Typing', Trail, [Next]_vars PROVE Trail'
  OBVIOUS
<1>1. ASSUME NEW F, ReceiverMoves(F), \A f \in F : f.kind # "chunk_ack" PROVE Trail'
  <2>1. \A k \in TransferId : \A f \in F : f \notin Acks(k)
    BY <1>1 DEF Acks
  <2>2. \A k \in TransferId : OnTrail(k)'
    BY <1>1, <2>1, TrailReceiver
  <2> QED
    BY <2>2 DEF Trail, OnTrail
<1>2. CASE UNCHANGED vars
  BY <1>2 DEF vars, disk, net, Trail, Counted, NumbersWithin, NumbersRise
<1>3. ASSUME NEW i \in TransferId,
             \/ SendFile(i) \/ CancelOutgoing(i) \/ \E p \in BOOLEAN : SetPaused(i, p)
             \/ Task(i) \/ TimeOut(i)
      PROVE  Trail'
  <2>1. CASE SendChunk(i)
    <3>1. CASE SenderMoves(i, {}) /\ SameCounts(job'[i], job[i])
      <4>1. Counts(i)
        BY <3>1 DEF Counts
      <4> QED
        BY <3>1, <4>1, TrailSender
    <3>2. CASE ~(SenderMoves(i, {}) /\ SameCounts(job'[i], job[i]))
      BY <2>1, <3>2, ChunkMoves, TrailChunk
    <3> QED
      BY <3>1, <3>2
  <2>2. CASE Acknowledged(i)
    BY <2>2, TrailAck
  <2>3. CASE ~SendChunk(i) /\ ~Acknowledged(i)
    BY <1>3, <2>3, SenderQuiet, TrailSender DEF Task
  <2> QED
    BY <2>1, <2>2, <2>3
<1>4. CASE Receive
  <2>1. CASE \E i \in TransferId : HandleChunk(i)
    BY <2>1, TrailBlock
  <2>2. CASE ~\E i \in TransferId : HandleChunk(i)
    BY <1>1, <1>4, <2>2, ReceiveMoves
  <2> QED
    BY <2>1, <2>2
<1>5. CASE forward_outgoing
  BY <1>5, TrailForward
<1>6. ASSUME NEW i \in TransferId, AcceptTransfer(i) \/ RejectTransfer(i) \/ CancelIncoming(i)
      PROVE  Trail'
  BY <1>1, <1>6, CommandMoves
<1>7. CASE \/ EditSource \/ CleanUpIncoming \/ CleanUpOutgoing
           \/ CrashSender \/ CrashReceiver \/ \E e \in End : Dial(e) \/ Disconnect(e)
  BY <1>1, <1>7, SessionMoves
<1> QED
  BY <1>2, <1>3, <1>4, <1>5, <1>6, <1>7 DEF Next, UserCommand, Failure

(* Trail implies the window.                                                *)
LEMMA TrailWindow == Typing /\ Trail => WindowKept
<1> SUFFICES ASSUME Typing, Trail, NEW i \in TransferId,
                    NEW k \in 1 .. Len(wire["receiver"]), NEW l \in 1 .. Len(wire["receiver"]),
                    ChunkOf(i, k), ChunkOf(i, l)
             PROVE  wire["receiver"][l].seq < wire["receiver"][k].seq + Window
  BY DEF WindowKept
<1> DEFINE x == wire["receiver"][k].seq
           y == wire["receiver"][l].seq
           a == job[i].acked
           b == job[i].seq
           n == job[i].inFlight
<1>1. wire["receiver"][k] \in Chunks(i) /\ wire["receiver"][l] \in Chunks(i)
  BY Channels DEF Chunks, ChunkOf
<1>2. a + 1 <= x /\ y <= b /\ n + a = b
  BY <1>1 DEF Trail, NumbersWithin, Within, Counted
<1>3. x \in Nat /\ y \in Nat /\ a \in Nat /\ b \in Nat /\ n \in 0 .. Window /\ Window \in Nat
  BY <1>1, Sorts, Channels, Numbers
<1> HIDE DEF x, y, a, b, n
<1>4. y < x + Window
  BY <1>2, <1>3
<1> QED
  BY <1>4 DEF x, y

(* The blocks of a transfer that are under way are always among the Window  *)
(* blocks sent last.                                                        *)
THEOREM WindowIsKept == Spec => []WindowKept
<1>1. Init => Typing /\ Trail
  BY TypingInit, TrailInit
<1>2. (Typing /\ Trail) /\ [Next]_vars => (Typing /\ Trail)'
  BY TypingStep, TrailStep
<1>3. Typing /\ Trail => WindowKept
  BY TrailWindow
<1> QED
  BY <1>1, <1>2, <1>3, PTL DEF Spec

-----------------------------------------------------------------------------
(* The end of a transfer.                                                  *)

(* Nothing of a transfer follows its file_done on the wire, and nothing of  *)
(* it is on the wire when its file is done.                                 *)
LastFrame(i) ==
    \A k \in 1 .. Len(wire["receiver"]) :
        wire["receiver"][k].kind = "file_done" /\ wire["receiver"][k].id = i =>
            /\ job[i].pc \in Past
            /\ \A l \in 1 .. Len(wire["receiver"]) : wire["receiver"][l].id = i => l <= k

DoneIsLast(i) ==
    inc[i].state = "done" =>
        /\ job[i].pc \in Past
        /\ \A k \in 1 .. Len(wire["receiver"]) : wire["receiver"][k].id # i

(* A confirmation, on the wire, in the queue of the task or shown, is true. *)
Confirming(i) ==
    /\ job[i].state = "done" => saved[i] # 0
    /\ \A k \in 1 .. Len(wire["sender"]) :
          wire["sender"][k].kind = "file_done" /\ wire["sender"][k].id = i => saved[i] # 0
    /\ \A k \in 1 .. Len(mail[i]) : mail[i][k].kind = "file_done" => saved[i] # 0

Completion == \A i \in TransferId : LastFrame(i) /\ DoneIsLast(i) /\ Confirming(i)

(* What a step is, as far as the frames are concerned.                      *)
LEMMA StepMoves ==
    ASSUME Typing, [Next]_vars
    PROVE  \/ UNCHANGED vars \/ forward_outgoing
           \/ \E i \in TransferId : \E F : SenderMoves(i, F)
           \/ \E F : ReceiverMoves(F)
<1>1. ASSUME NEW i \in TransferId,
             \/ SendFile(i) \/ CancelOutgoing(i) \/ \E p \in BOOLEAN : SetPaused(i, p)
             \/ Task(i) \/ TimeOut(i)
      PROVE  \E F : SenderMoves(i, F)
  BY <1>1, ChunkMoves, AckMoves, SenderQuiet DEF Task
<1>2. CASE Receive
  BY <1>2, ReceiveMoves, BlockMoves
<1>3. ASSUME NEW i \in TransferId, AcceptTransfer(i) \/ RejectTransfer(i) \/ CancelIncoming(i)
      PROVE  \E F : ReceiverMoves(F)
  BY <1>3, CommandMoves
<1>4. CASE \/ EditSource \/ CleanUpIncoming \/ CleanUpOutgoing
           \/ CrashSender \/ CrashReceiver \/ \E e \in End : Dial(e) \/ Disconnect(e)
  BY <1>4, SessionMoves
<1> QED
  BY <1>1, <1>2, <1>3, <1>4 DEF Next, UserCommand, Failure

(* When the channel moves, nothing comes to follow a file_done.             *)
LEMMA LastMoved ==
    ASSUME Typing, Typing', NEW i \in TransferId, NEW F, LastFrame(i), DoneIsLast(i),
           Moved(wire'["receiver"], wire["receiver"], F),
           job[i].pc \in Past => (\A f \in F : f.id # i) /\ job'[i].pc \in Past,
           (\E f \in F : f.id = i /\ f.kind = "file_done") => job'[i].pc \in Past,
           inc'[i].state = "done" => inc[i].state = "done" \/ DoneAt(i)
    PROVE  LastFrame(i)' /\ DoneIsLast(i)'
<1> DEFINE r == wire["receiver"]
           r2 == wire'["receiver"]
<1>1. r \in Seq(AnyFrame) /\ r2 \in Seq(AnyFrame)
  BY EndFacts DEF Typing, Typed
<1>2. /\ \A k \in 1 .. Len(r) : r[k].kind = "file_done" /\ r[k].id = i =>
            job[i].pc \in Past /\ \A l \in 1 .. Len(r) : r[l].id = i => l <= k
      /\ inc[i].state = "done" => job[i].pc \in Past /\ \A k \in 1 .. Len(r) : r[k].id # i
  BY DEF LastFrame, DoneIsLast
<1>3. PICK n \in Nat : \A k \in 1 .. Len(r2) :
          \/ k + n \in 1 .. Len(r) /\ r2[k] = r[k + n]
          \/ k + n = Len(r) + 1 /\ r2[k] \in F
  BY DEF Moved
<1>4. DoneAt(i) => r # <<>> /\ r[1].id = i /\ r[1].kind = "file_done" /\ r2 = Tail(r)
  <2>1. r # <<>> => Head(r) = r[1]
    BY <1>1
  <2> QED
    BY <2>1 DEF DoneAt, HeadFor
<1> HIDE DEF r, r2
<1>0. Len(r) \in Nat /\ Len(r2) \in Nat
  BY <1>1
<1>5. ASSUME NEW k \in 1 .. Len(r2), r2[k].kind = "file_done", r2[k].id = i
      PROVE  job'[i].pc \in Past /\ \A l \in 1 .. Len(r2) : r2[l].id = i => l <= k
  <2>1. CASE k + n \in 1 .. Len(r) /\ r2[k] = r[k + n]
    <3>1. job[i].pc \in Past /\ \A l \in 1 .. Len(r) : r[l].id = i => l <= k + n
      BY <1>2, <1>5, <2>1
    <3>2. (\A f \in F : f.id # i) /\ job'[i].pc \in Past
      BY <3>1
    <3>3. ASSUME NEW l \in 1 .. Len(r2), r2[l].id = i PROVE l <= k
      <4>1. l + n \in 1 .. Len(r) /\ r2[l] = r[l + n]
        BY <1>3, <3>2, <3>3
      <4>2. l + n <= k + n
        BY <3>1, <3>3, <4>1
      <4> QED
        BY <1>0, <4>2
    <3> QED
      BY <3>2, <3>3
  <2>2. CASE k + n = Len(r) + 1 /\ r2[k] \in F
    <3>1. job'[i].pc \in Past
      BY <1>5, <2>2
    <3>2. ASSUME NEW l \in 1 .. Len(r2) PROVE l <= k
      <4>1. l + n <= Len(r) + 1
        BY <1>0, <1>3
      <4> QED
        BY <1>0, <2>2, <4>1
    <3> QED
      BY <3>1, <3>2
  <2> QED
    BY <1>3, <2>1, <2>2
<1>6. ASSUME inc'[i].state = "done"
      PROVE  job'[i].pc \in Past /\ \A k \in 1 .. Len(r2) : r2[k].id # i
  <2>1. CASE inc[i].state = "done"
    <3>1. job[i].pc \in Past /\ \A k \in 1 .. Len(r) : r[k].id # i
      BY <1>2, <2>1
    <3> QED
      BY <1>3, <3>1
  <2>2. CASE DoneAt(i)
    <3>1. /\ r # <<>> /\ r[1].id = i /\ r[1].kind = "file_done" /\ r2 = Tail(r)
          /\ 1 \in 1 .. Len(r)
      <4>1. Len(r) # 0 \/ r = <<>>
        BY <1>1
      <4> QED
        BY <1>0, <1>4, <2>2, <4>1
    <3>2. job[i].pc \in Past /\ \A l \in 1 .. Len(r) : r[l].id = i => l <= 1
      BY <1>2, <3>1
    <3>3. ASSUME NEW k \in 1 .. Len(r2) PROVE r2[k].id # i
      <4>1. k + 1 \in 1 .. Len(r) /\ r2[k] = r[k + 1]
        <5>1. Len(r2) = Len(r) - 1 /\ \A l \in 1 .. Len(r2) : r2[l] = r[l + 1]
          BY <1>1, <3>1, HeadTailProperties
        <5> QED
          BY <1>0, <5>1
      <4> QED
        BY <1>0, <3>2, <4>1
    <3> QED
      BY <3>2, <3>3
  <2> QED
    BY <1>6, <2>1, <2>2
<1> QED
  BY <1>5, <1>6 DEF LastFrame, DoneIsLast, r2

(* When the channels move, a confirmation under way stays true.             *)
LEMMA ConfirmMoved ==
    ASSUME Typing, Typing', NEW i \in TransferId, NEW G, NEW M, Confirming(i),
           Moved(wire'["sender"], wire["sender"], G), Moved(mail'[i], mail[i], M),
           saved[i] # 0 => saved'[i] # 0,
           \A g \in G : g.kind = "file_done" /\ g.id = i => saved'[i] # 0,
           \A g \in M : g.kind = "file_done" => saved'[i] # 0,
           job'[i].state = "done" =>
               job[i].state = "done" \/ (mail[i] # <<>> /\ Head(mail[i]).kind = "file_done")
    PROVE  Confirming(i)'
<1>1. job'[i].state = "done" => saved'[i] # 0
  <2>1. mail[i] # <<>> => 1 \in 1 .. Len(mail[i]) /\ Head(mail[i]) = mail[i][1]
    <3>1. mail[i] \in Seq(AnyFrame)
      BY Channels
    <3> QED
      BY <3>1
  <2> QED
    BY <2>1 DEF Confirming
<1>2. \A k \in 1 .. Len(wire'["sender"]) :
          wire'["sender"][k].kind = "file_done" /\ wire'["sender"][k].id = i => saved'[i] # 0
  BY DEF Confirming, Moved
<1>3. \A k \in 1 .. Len(mail'[i]) : mail'[i][k].kind = "file_done" => saved'[i] # 0
  BY DEF Confirming, Moved
<1> QED
  BY <1>1, <1>2, <1>3 DEF Confirming

(* Completion holds at the start.                                           *)
LEMMA CompletionInit == Init => Completion
<1> SUFFICES ASSUME Init, NEW i \in TransferId
             PROVE  LastFrame(i) /\ DoneIsLast(i) /\ Confirming(i)
  BY DEF Completion
<1>1. /\ wire["receiver"] = <<>> /\ wire["sender"] = <<>> /\ mail[i] = <<>>
      /\ job[i] = NoJob /\ inc[i] = NoEntry
  BY EndFacts DEF Init
<1>2. Len(<<>>) = 0 /\ 1 .. 0 = {}
  OBVIOUS
<1>3. NoJob.state = "none" /\ NoEntry.state = "none"
  BY DEF NoJob, NoEntry
<1> QED
  BY <1>1, <1>2, <1>3 DEF LastFrame, DoneIsLast, Confirming

(* Completion is inductive, given the types.                                *)
LEMMA CompletionStep == Typing /\ Typing' /\ Completion /\ [Next]_vars => Completion'
<1> SUFFICES ASSUME Typing, Typing', Completion, [Next]_vars, NEW i \in TransferId
             PROVE  LastFrame(i)' /\ DoneIsLast(i)' /\ Confirming(i)'
  BY DEF Completion
<1>0. LastFrame(i) /\ DoneIsLast(i) /\ Confirming(i)
  BY DEF Completion
<1>1. CASE UNCHANGED vars
  BY <1>0, <1>1 DEF vars, disk, net, LastFrame, DoneIsLast, Confirming
<1>2. ASSUME NEW k \in TransferId, NEW F, SenderMoves(k, F)
      PROVE  LastFrame(i)' /\ DoneIsLast(i)' /\ Confirming(i)'
  <2>1. /\ Moved(wire'["receiver"], wire["receiver"], F)
        /\ Moved(wire'["sender"], wire["sender"], {}) /\ Moved(mail'[i], mail[i], Cancels)
        /\ inc' = inc /\ saved' = saved
    BY <1>2 DEF SenderMoves
  <2>2. /\ job[i].pc \in Past => (\A f \in F : f.id # i) /\ job'[i].pc \in Past
        /\ (\E f \in F : f.id = i /\ f.kind = "file_done") => job'[i].pc \in Past
        /\ job'[i].state = "done" =>
              job[i].state = "done" \/ (mail[i] # <<>> /\ Head(mail[i]).kind = "file_done")
    BY <1>2 DEF SenderMoves, Reply
  <2>3. LastFrame(i)' /\ DoneIsLast(i)'
    BY <1>0, <2>1, <2>2, LastMoved
  <2>4. \A f \in Cancels : f.kind = "file_done" => saved'[i] # 0
    BY DEF Cancels
  <2>5. Confirming(i)'
    <3>1. /\ \A g \in {} : g.kind = "file_done" /\ g.id = i => saved'[i] # 0
          /\ saved[i] # 0 => saved'[i] # 0
      BY <2>1
    <3> QED
      BY <1>0, <2>1, <2>2, <2>4, <3>1, ConfirmMoved
  <2> QED
    BY <2>3, <2>5
<1>3. ASSUME NEW G, ReceiverMoves(G)
      PROVE  LastFrame(i)' /\ DoneIsLast(i)' /\ Confirming(i)'
  <2>1. /\ Moved(wire'["receiver"], wire["receiver"], {})
        /\ Moved(wire'["sender"], wire["sender"], G) /\ Moved(mail'[i], mail[i], Cancels)
        /\ EntryMoves(i) /\ JobMoves(i)
        /\ \A g \in G : g.kind = "file_done" /\ g.id = i => saved'[i] # 0
    BY <1>3 DEF ReceiverMoves
  <2>2. LastFrame(i)' /\ DoneIsLast(i)'
    <3>1. /\ job[i].pc \in Past => (\A f \in {} : f.id # i) /\ job'[i].pc \in Past
          /\ (\E f \in {} : f.id = i /\ f.kind = "file_done") => job'[i].pc \in Past
          /\ inc'[i].state = "done" => inc[i].state = "done" \/ DoneAt(i)
      BY <2>1 DEF EntryMoves, JobMoves
    <3> QED
      BY <1>0, <2>1, <3>1, LastMoved
  <2>3. \A f \in Cancels : f.kind = "file_done" => saved'[i] # 0
    BY DEF Cancels
  <2>4. /\ saved[i] # 0 => saved'[i] # 0
        /\ job'[i].state = "done" => job[i].state = "done"
    BY <2>1 DEF EntryMoves, JobMoves
  <2>5. Confirming(i)'
    BY <1>0, <2>1, <2>3, <2>4, ConfirmMoved
  <2> QED
    BY <2>2, <2>5
<1>4. CASE forward_outgoing
  <2> DEFINE f == Frame("sender")
  <2>1. /\ wire["sender"] # <<>> /\ f \in AnyFrame /\ f = Head(wire["sender"])
        /\ wire'["receiver"] = wire["receiver"] /\ wire'["sender"] = Tail(wire["sender"])
        /\ mail'[i] = mail[i] \/ (i = f.id /\ mail'[i] = Append(mail[i], f))
        /\ UNCHANGED <<job, inc, saved>>
    BY <1>4, ForwardMoves
  <2> HIDE DEF f
  <2>2. wire["sender"] \in Seq(AnyFrame) /\ mail[i] \in Seq(AnyFrame)
    BY Channels
  <2>3. LastFrame(i)' /\ DoneIsLast(i)'
    BY <1>0, <2>1 DEF LastFrame, DoneIsLast
  <2>4. Moved(wire'["sender"], wire["sender"], {})
    BY <2>1, <2>2, MovedCases
  <2>5. f.kind = "file_done" /\ i = f.id => saved'[i] # 0
    <3>1. 1 \in 1 .. Len(wire["sender"]) /\ f = wire["sender"][1]
      <4>1. Len(wire["sender"]) \in Nat /\ Len(wire["sender"]) # 0
            /\ Head(wire["sender"]) = wire["sender"][1]
        BY <2>1, <2>2
      <4> QED
        BY <2>1, <4>1
    <3> QED
      BY <1>0, <2>1, <3>1 DEF Confirming
  <2>6. PICK M : /\ Moved(mail'[i], mail[i], M)
                 /\ \A g \in M : g.kind = "file_done" => saved'[i] # 0
    <3>1. CASE mail'[i] = mail[i]
      <4>1. Moved(mail'[i], mail[i], {}) /\ \A g \in {} : g.kind = "file_done" => saved'[i] # 0
        BY <2>2, <3>1, MovedCases
      <4> QED
        BY <4>1
    <3>2. CASE i = f.id /\ mail'[i] = Append(mail[i], f)
      <4>1. f \in {f} \cap AnyFrame
        BY <2>1
      <4>2. /\ Moved(mail'[i], mail[i], {f})
            /\ \A g \in {f} : g.kind = "file_done" => saved'[i] # 0
        BY <2>2, <2>5, <3>2, <4>1, MovedCases
      <4> QED
        BY <4>2
    <3> QED
      BY <2>1, <3>1, <3>2
  <2>7. Confirming(i)'
    <3>1. /\ \A g \in {} : g.kind = "file_done" /\ g.id = i => saved'[i] # 0
          /\ saved[i] # 0 => saved'[i] # 0
          /\ job'[i].state = "done" => job[i].state = "done"
      BY <2>1
    <3> QED
      BY <1>0, <2>4, <2>6, <3>1, ConfirmMoved
  <2> QED
    BY <2>3, <2>7
<1> QED
  BY <1>1, <1>2, <1>3, <1>4, StepMoves

(* A transfer that is done receives nothing more.                           *)
LEMMA DoneStep ==
    Typing /\ Completion /\ [Next]_vars =>
        \A i \in TransferId : inc[i].state = "done" => inc'[i].state \in {"done", "none"}
<1> SUFFICES ASSUME Typing, Completion, [Next]_vars, NEW i \in TransferId, inc[i].state = "done"
             PROVE  inc'[i].state \in {"done", "none"}
  OBVIOUS
<1>1. ~HeadFor(i)
  <2>1. \A k \in 1 .. Len(wire["receiver"]) : wire["receiver"][k].id # i
    BY DEF Completion, DoneIsLast
  <2>2. wire["receiver"] # <<>> =>
            1 \in 1 .. Len(wire["receiver"]) /\ Head(wire["receiver"]) = wire["receiver"][1]
    <3>1. wire["receiver"] \in Seq(AnyFrame)
      BY Channels
    <3> QED
      BY <3>1
  <2> QED
    BY <2>1, <2>2 DEF HeadFor
<1>2. CASE UNCHANGED vars
  BY <1>2 DEF vars
<1>3. CASE \E k \in TransferId : \E F : SenderMoves(k, F)
  BY <1>3 DEF SenderMoves
<1>4. CASE \E F : ReceiverMoves(F)
  BY <1>1, <1>4 DEF ReceiverMoves, EntryMoves
<1>5. CASE forward_outgoing
  BY <1>5, ForwardMoves
<1> QED
  BY <1>2, <1>3, <1>4, <1>5, StepMoves

(* The types and Completion always hold.                                    *)
LEMMA CompletionAlways == Spec => [](Typing /\ Completion)
<1>1. Init => Typing /\ Completion
  BY TypingInit, CompletionInit
<1>2. (Typing /\ Completion) /\ [Next]_vars => (Typing /\ Completion)'
  BY TypingStep, CompletionStep
<1> QED
  BY <1>1, <1>2, PTL DEF Spec

(* The sender shows a transfer as done only when the receiver has saved the *)
(* file, whatever is lost, closed or restarted in between.                  *)
THEOREM DoneIsSaved == Spec => []DoneMeansSaved
<1>1. Completion => DoneMeansSaved
  BY DEF Completion, Confirming, DoneMeansSaved
<1> QED
  BY <1>1, CompletionAlways, PTL

(* A transfer the receiver shows as done stays done until a restart.        *)
THEOREM DoneStays == Spec => DoneIsFinal
<1>1. Typing /\ Completion /\ [Next]_vars =>
          [\A i \in TransferId :
              inc[i].state = "done" => inc'[i].state \in {"done", "none"}]_vars
  BY DoneStep
<1> QED
  BY <1>1, CompletionAlways, PTL DEF Spec, DoneIsFinal

=============================================================================
