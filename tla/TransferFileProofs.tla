-------------------------- MODULE TransferFileProofs --------------------------
(***************************************************************************)
(* What a transfer saves is what was read, for any number of transfers,    *)
(* blocks and faults, when a file is offered again only after the task of  *)
(* its earlier offer has ended.                                            *)
(*                                                                         *)
(* Progress (Turns, Readings, FirstFrame, Blank) says how the frames of    *)
(* one transfer follow those of another and what the sender has read.      *)
(* Partials (Apart, OpenFits, PartFits) says what the .part of the         *)
(* transfer that frames can still reach holds: the blocks of its hash.     *)
(***************************************************************************)
EXTENDS TransferProofs

-----------------------------------------------------------------------------
(* The steps of a task.                                                    *)

(* Before its source is opened, a task has read nothing.                    *)
Early == {"none", "offer", "wait", "open"}

(* A transfer that has ended stops.                                         *)
Halts(j, k) ==
    k = j \/ (j.pc \notin {"none", "over"} /\ k.pc = "over" /\ k.read = j.read /\ k.state # "done")

(* The task i goes on from j to k, and the frames F are sent.               *)
Advances(j, k, F) ==
    /\ j.pc \notin {"none", "over"} /\ k.pc # "none"
    /\ k.pc = "offer" => j.pc = "offer" /\ F = {}
    /\ \A f \in F : f.kind = "file_offer" => j.pc = "offer"
    /\ j.pc \notin Early => k.pc \notin Early
    /\ k.read # j.read =>
          /\ j.pc = "open" \/ (j.pc = "fill" /\ Len(j.read) < Size)
          /\ k.pc \in {"turn", "fill"}
    /\ j.pc \in Past => F = {} /\ k.pc \in Past
    /\ \A f \in F : f.kind = "file_done" =>
          f.hash = k.read /\ k.read = j.read /\ Len(k.read) = Size /\ k.pc \in Past
    /\ Size = 0 => \A f \in F : f.kind \notin {"chunk", "file_restart"}
    /\ k.state = "done" => k.pc = "over" \/ j.state = "done"

Begins(i) ==
    /\ job[i].pc = "none" /\ job'[i].pc = "offer"
    /\ job'[i].read = <<>> /\ job'[i].state = "open"
    /\ \A k \in TransferId : k < i => job[k].pc \in (IF Overlap THEN Pc \ {"none"} ELSE {"over"})

TaskMoves(i, F) ==
    /\ Moved(wire'["receiver"], wire["receiver"], F)
    /\ \A f \in F : f \in AnyFrame /\ f.id = i
    /\ \A k \in TransferId \ {i} : job'[k] = job[k]
    /\ \/ Begins(i) /\ F = {}
       \/ Advances(job[i], job'[i], F)
    /\ UNCHANGED <<inc, disk>>

(* A step that sends its frame and goes on, or fails.                       *)
LEMMA SendAdvances ==
    ASSUME Typed, NEW i \in TransferId, NEW f \in AnyFrame, NEW j \in Job, f.id = i,
           SendOrFail(i, f, j), UNCHANGED <<inc, disk>>,
           Advances(job[i], j, {f})
    PROVE  \E F : TaskMoves(i, F)
<1>0. job[i] \in Job
  BY DEF Typed
<1>1. CASE session["sender"]
  <2>1. job' = [job EXCEPT ![i] = j] /\ wire' = Push(wire, "sender", f)
    BY <1>1 DEF SendOrFail
  <2>2. Moved(wire'["receiver"], wire["receiver"], {f})
    BY <2>1, PushMoves
  <2>3. job'[i] = j /\ \A k \in TransferId \ {i} : job'[k] = job[k]
    BY <2>1, GoesOn
  <2>4. TaskMoves(i, {f})
    BY <2>2, <2>3 DEF TaskMoves
  <2> QED
    BY <2>4
<1>2. CASE ~session["sender"]
  <2>1. finish_outgoing(i, "failed") /\ wire' = wire
    BY <1>2 DEF SendOrFail
  <2>2. /\ job'[i] = Ended(job[i], "failed") /\ \A k \in TransferId \ {i} : job'[k] = job[k]
    <3>1. job' = [job EXCEPT ![i] = Ended(job[i], "failed")]
      BY <2>1 DEF finish_outgoing, Ended
    <3> QED
      BY <3>1, GoesOn
  <2>3. Moved(wire'["receiver"], wire["receiver"], {})
    BY <2>1, MailMoves
  <2>4. /\ job'[i].pc = "over" /\ job'[i].read = job[i].read /\ job'[i].state = "failed"
    BY <1>0, <2>2 DEF Ended, Job
  <2>5. Advances(job[i], job'[i], {})
    BY <2>4 DEF Advances, Past, Early
  <2>6. TaskMoves(i, {})
    BY <2>2, <2>3, <2>5 DEF TaskMoves
  <2> QED
    BY <2>6
<1> QED
  BY <1>1, <1>2

(* A step that may push a frame.                                            *)
LEMMA PushAdvances ==
    ASSUME Typed, NEW i \in TransferId, NEW f \in AnyFrame, NEW F, NEW j, f.id = i,
           job' = [job EXCEPT ![i] = j], UNCHANGED <<inc, disk>>,
           \/ wire' = wire /\ F = {}
           \/ wire' = TryPush(wire, "sender", f) /\ F = {f},
           Advances(job[i], j, F)
    PROVE  TaskMoves(i, F)
<1>1. job'[i] = j /\ \A k \in TransferId \ {i} : job'[k] = job[k]
  BY GoesOn
<1>2. Moved(wire'["receiver"], wire["receiver"], F)
  BY PushMoves, MailMoves
<1> QED
  BY <1>1, <1>2 DEF TaskMoves

(* The end of a task is a step that may push a frame.                       *)
LEMMA FinishAdvances ==
    ASSUME Typed, NEW i \in TransferId, NEW f \in AnyFrame, NEW F, NEW s \in JobState, f.id = i,
           finish_outgoing(i, s), UNCHANGED <<inc, disk>>,
           \/ wire' = wire /\ F = {}
           \/ wire' = TryPush(wire, "sender", f) /\ F = {f},
           f.kind = "file_cancel", job[i].pc \notin {"none", "over"},
           job[i].pc = "confirm" => F = {}
    PROVE  TaskMoves(i, F)
<1>1. job' = [job EXCEPT ![i] = Ended(job[i], s)]
  BY DEF finish_outgoing, Ended
<1>2. /\ Ended(job[i], s).pc = "over" /\ Ended(job[i], s).read = job[i].read
  BY DEF Typed, Ended, Job
<1>3. Advances(job[i], Ended(job[i], s), F)
  BY <1>2 DEF Advances, Past, Early
<1> QED
  BY <1>1, <1>3, PushAdvances

(* Every step of the sender's user and of a task is one of a task.          *)
LEMMA TaskSteps ==
    ASSUME Typing, NEW i \in TransferId,
           \/ SendFile(i) \/ CancelOutgoing(i) \/ \E p \in BOOLEAN : SetPaused(i, p)
           \/ Task(i) \/ TimeOut(i)
    PROVE  \E F : TaskMoves(i, F)
<1>0. Typed /\ job[i] \in Job /\ ReadsOf(job[i])
  BY DEF Typing, Typed, Reads
<1>f. /\ FileCancel(i) \in AnyFrame /\ FileCancel(i).id = i /\ FileCancel(i).kind = "file_cancel"
      /\ FileRestart(i) \in AnyFrame /\ FileRestart(i).id = i
      /\ FileRestart(i).kind = "file_restart"
  BY FrameTypes DEF FileCancel, FileRestart
<1>1. CASE SendFile(i)
  <2> DEFINE j == [NoJob EXCEPT !.pc = "offer", !.state = "open", !.token = src]
  <2>1. /\ j.pc = "offer" /\ j.state = "open" /\ j.read = <<>>
    BY DEF NoJob
  <2>2. job'[i] = j /\ \A k \in TransferId \ {i} : job'[k] = job[k]
    BY <1>0, <1>1, GoesOn DEF SendFile
  <2>3. job[i].pc = "none" /\ UNCHANGED <<inc, disk, wire>>
    BY <1>1 DEF SendFile, net
  <2>4. \A k \in TransferId : k < i => job[k].pc \in (IF Overlap THEN Pc \ {"none"} ELSE {"over"})
    BY <1>0, <1>1 DEF SendFile, Running, Typed, Job
  <2> HIDE DEF j
  <2>5. TaskMoves(i, {})
    BY <1>0, <2>1, <2>2, <2>3, <2>4, MailMoves DEF TaskMoves, Begins
  <2> QED
    BY <2>5
<1>2. CASE CancelOutgoing(i)
  <2>1. job' = job /\ wire' = wire /\ UNCHANGED <<inc, disk>> /\ Running(i)
    BY <1>2 DEF CancelOutgoing, net
  <2>2. Advances(job[i], job'[i], {})
    BY <2>1 DEF Advances, Running
  <2>3. TaskMoves(i, {})
    BY <1>0, <2>1, <2>2, MailMoves DEF TaskMoves
  <2> QED
    BY <2>3
<1>3. CASE (\E p \in BOOLEAN : SetPaused(i, p)) \/ StartRound(i) \/ WindowFull(i) \/ Acknowledged(i)
  <2>1. PICK j : /\ job' = [job EXCEPT ![i] = j] /\ j.read = job[i].read /\ j.state = job[i].state
                 /\ \/ j.pc = job[i].pc /\ Running(i)
                    \/ {job[i].pc, j.pc} \subseteq {"turn", "fill", "ack"}
    <3>1. CASE \E p \in BOOLEAN : SetPaused(i, p)
      <4>1. PICK p \in BOOLEAN : SetPaused(i, p)
        BY <3>1
      <4> DEFINE j == [job[i] EXCEPT !.paused = p]
      <4>2. job' = [job EXCEPT ![i] = j] /\ Running(i)
        BY <4>1 DEF SetPaused
      <4>3. j.pc = job[i].pc /\ j.state = job[i].state /\ j.read = job[i].read
        BY <1>0 DEF Job
      <4> QED
        BY <4>2, <4>3
    <3>2. CASE StartRound(i) \/ WindowFull(i)
      <4>1. PICK p \in {"fill", "ack"} : job' = [job EXCEPT ![i].pc = p]
        BY <3>2 DEF StartRound, WindowFull
      <4> DEFINE j == [job[i] EXCEPT !.pc = p]
      <4>2. job' = [job EXCEPT ![i] = j] /\ job[i].pc \in {"turn", "fill"}
        BY <3>2, <4>1 DEF StartRound, WindowFull
      <4>3. j.pc = p /\ j.state = job[i].state /\ j.read = job[i].read
        BY <1>0 DEF Job
      <4> QED
        BY <4>2, <4>3
    <3>3. CASE Acknowledged(i)
      <4> DEFINE s == Reply(i).seq
                 n == Outstanding(job[i], s)
                 j == [job[i] EXCEPT !.pc = "turn", !.acked = s, !.inFlight = n]
      <4>1. job' = [job EXCEPT ![i] = j] /\ job[i].pc \in {"turn", "ack"}
        BY <3>3 DEF Acknowledged, Reading
      <4> HIDE DEF s, n
      <4>2. j.pc = "turn" /\ j.state = job[i].state /\ j.read = job[i].read
        BY <1>0 DEF Job
      <4> QED
        BY <4>1, <4>2
    <3> QED
      BY <1>3, <3>1, <3>2, <3>3
  <2>2. wire' = wire /\ UNCHANGED <<inc, disk>>
    BY <1>3 DEF SetPaused, StartRound, WindowFull, Acknowledged, net
  <2>3. Advances(job[i], j, {})
    BY <2>1 DEF Advances, Running, Past, Early
  <2>4. TaskMoves(i, {})
    BY <1>0, <1>f, <2>1, <2>2, <2>3, PushAdvances
  <2> QED
    BY <2>4
<1>4. CASE Offer(i)
  <2> DEFINE f == FileOffer(i, job[i].token)
             j == [job[i] EXCEPT !.pc = "wait"]
  <2>1. job[i].pc = "offer" /\ SendOrFail(i, f, j) /\ UNCHANGED <<inc, disk>>
    BY <1>4 DEF Offer
  <2>2. f \in AnyFrame /\ f.id = i /\ f.kind = "file_offer"
    BY <1>0, <2>1, FrameTypes DEF ReadsOf, FileOffer
  <2>3. j \in Job /\ j.pc = "wait" /\ j.read = job[i].read /\ j.state = job[i].state
    BY <1>0 DEF Job, Pc
  <2> HIDE DEF f, j
  <2>4. Advances(job[i], j, {f})
    BY <2>1, <2>2, <2>3 DEF Advances, Early, Past
  <2> QED
    BY <1>0, <2>1, <2>2, <2>3, <2>4, SendAdvances
<1>5. CASE Accepted(i)
  <2> DEFINE resumes == Reply(i).offset = 0 \/ partial_matches(Reply(i))
             o == IF resumes THEN Reply(i).offset ELSE 0
             j == [job[i] EXCEPT !.pc = "open", !.sent = o]
             F == IF resumes THEN {} ELSE {FileRestart(i)}
  <2>1. /\ job' = [job EXCEPT ![i] = j] /\ job[i].pc = "wait" /\ UNCHANGED <<inc, disk>>
        /\ wire' = IF resumes THEN wire ELSE TryPush(wire, "sender", FileRestart(i))
    BY <1>5 DEF Accepted
  <2>2. Size = 0 => resumes
    <3>1. Reply(i) \in AnyFrame /\ Reply(i).kind = "file_accept"
      BY <1>0, <1>5, ReplyTypes DEF Accepted, Answered
    <3>2. Reply(i).offset \in 0 .. Size
      BY <3>1, FrameFields
    <3> QED
      BY <3>2, Numbers
  <2> HIDE DEF o, resumes
  <2>3. j.pc = "open" /\ j.read = job[i].read /\ j.state = job[i].state
    BY <1>0 DEF Job
  <2>4. Advances(job[i], j, F)
    BY <1>f, <2>1, <2>2, <2>3 DEF Advances, Early, Past
  <2>5. TaskMoves(i, F)
    <3> HIDE DEF j
    <3>1. \/ wire' = wire /\ F = {}
          \/ wire' = TryPush(wire, "sender", FileRestart(i)) /\ F = {FileRestart(i)}
      BY <2>1
    <3> QED
      BY <1>0, <1>f, <2>1, <2>4, <3>1, PushAdvances
  <2> QED
    BY <2>5
<1>6. CASE NotAccepted(i) \/ TimeOut(i)
  <2>1. PICK s \in JobState : finish_outgoing(i, s)
    BY <1>6 DEF NotAccepted, TimeOut, JobState
  <2>2. UNCHANGED <<inc, disk, wire>> /\ job[i].pc \in {"wait", "ack", "confirm"}
    BY <1>6 DEF NotAccepted, TimeOut, net
  <2>3. TaskMoves(i, {})
    BY <1>0, <1>f, <2>1, <2>2, FinishAdvances
  <2> QED
    BY <2>3
<1>7. CASE OpenSource(i)
  <2> DEFINE b == Blocks(job[i].sent)
             j == [job[i] EXCEPT !.pc = "turn", !.read = b]
  <2>1. /\ job' = [job EXCEPT ![i] = j] /\ job[i].pc = "open"
        /\ wire' = wire /\ UNCHANGED <<inc, disk>>
    BY <1>7 DEF OpenSource, net
  <2> HIDE DEF b
  <2>2. j.pc = "turn" /\ j.state = job[i].state
    BY <1>0 DEF Job
  <2> HIDE DEF j
  <2>3. Advances(job[i], j, {})
    BY <2>1, <2>2 DEF Advances, Early, Past
  <2>4. TaskMoves(i, {})
    BY <1>0, <1>f, <2>1, <2>3, PushAdvances
  <2> QED
    BY <2>4
<1>8. CASE SendChunk(i)
  <2> DEFINE f == Chunk(i, job[i].sent, job[i].seq + 1, src)
             j == [job[i] EXCEPT !.read = Append(@, src), !.sent = @ + 1, !.seq = @ + 1,
                                 !.inFlight = @ + 1]
  <2>1. /\ job[i].pc = "fill" /\ SendOrFail(i, f, j) /\ UNCHANGED <<inc, disk>>
        /\ job[i].sent < Size
    BY <1>8 DEF SendChunk
  <2>2. f.id = i /\ f.kind = "chunk"
    BY DEF Chunk
  <2>3. f \in AnyFrame /\ j \in Job
    <3>1. /\ job[i].sent \in 0 .. Size /\ job[i].seq \in Nat /\ src \in Version
          /\ job[i].inFlight \in 0 .. Window /\ job[i].inFlight < Window
      BY <1>0, <1>8 DEF Job, Typed, SendChunk, Room
    <3>2. /\ job[i].sent + 1 \in 0 .. Size /\ job[i].inFlight + 1 \in 0 .. Window
          /\ job[i].seq + 1 \in Nat
      <4>1. ASSUME NEW m \in Nat, NEW k \in 0 .. m, k < m PROVE k + 1 \in 0 .. m
        BY <4>1
      <4> HIDE DEF f, j
      <4>2. job[i].sent + 1 \in 0 .. Size
        BY <2>1, <3>1, <4>1, Numbers
      <4>3. job[i].inFlight + 1 \in 0 .. Window
        BY <3>1, <4>1, Numbers
      <4> QED
        BY <3>1, <4>2, <4>3
    <3>3. Append(job[i].read, src) \in Seq(Version)
      BY <1>0, <3>1, AppendProperties DEF Job
    <3>4. j \in Job
      BY <1>0, <3>2, <3>3 DEF Job
    <3>5. f \in AnyFrame
      BY <3>1, <3>2, FrameTypes
    <3> QED
      BY <3>4, <3>5
  <2>4. j.pc = "fill" /\ j.state = job[i].state
    BY <1>0, <2>1 DEF Job
  <2>5. Len(job[i].read) < Size /\ Size # 0
    <3>1. Len(job[i].read) = job[i].sent /\ job[i].sent \in 0 .. Size
      BY <1>0, <2>1 DEF ReadsOf, Job
    <3> QED
      BY <2>1, <3>1, Numbers
  <2> HIDE DEF f, j
  <2>6. Advances(job[i], j, {f})
    BY <2>1, <2>2, <2>4, <2>5 DEF Advances, Early, Past
  <2> QED
    BY <1>0, <2>1, <2>2, <2>3, <2>6, SendAdvances
<1>9. CASE SendDone(i)
  <2> DEFINE f == FileDone(i, job[i].read)
             j == [job[i] EXCEPT !.pc = "confirm"]
  <2>1. /\ job[i].pc = "fill" /\ SendOrFail(i, f, j) /\ UNCHANGED <<inc, disk>>
        /\ job[i].sent = Size
    BY <1>9 DEF SendDone
  <2>2. f \in AnyFrame /\ f.id = i /\ f.kind = "file_done" /\ f.hash = job[i].read
    BY <1>0, FrameTypes, ReadIsBlocks DEF Job, FileDone
  <2>3. j \in Job /\ j.pc = "confirm" /\ j.read = job[i].read /\ j.state = job[i].state
    BY <1>0 DEF Job, Pc
  <2>4. Len(job[i].read) = Size
    BY <1>0, <2>1 DEF ReadsOf
  <2> HIDE DEF f, j
  <2>5. Advances(job[i], j, {f})
    BY <2>1, <2>2, <2>3, <2>4 DEF Advances, Early, Past
  <2> QED
    BY <1>0, <2>1, <2>2, <2>3, <2>5, SendAdvances
<1>10. CASE Interrupted(i)
  <2>1. /\ \E s \in JobState : finish_outgoing(i, s)
        /\ UNCHANGED <<inc, disk>> /\ job[i].pc \in {"ack", "turn"}
        /\ wire' = wire \/ wire' = TryPush(wire, "sender", FileCancel(i))
    BY <1>10 DEF Interrupted, Reading, JobState
  <2>2. TaskMoves(i, {}) \/ TaskMoves(i, {FileCancel(i)})
    BY <1>0, <1>f, <2>1, FinishAdvances
  <2> QED
    BY <2>2
<1>11. CASE Confirmed(i)
  <2>1. wire' = wire /\ UNCHANGED <<inc, disk>> /\ job[i].pc = "confirm"
    BY <1>11 DEF Confirmed
  <2>2. CASE \E s \in JobState : finish_outgoing(i, s)
    <3>1. TaskMoves(i, {})
      BY <1>0, <1>f, <2>1, <2>2, FinishAdvances
    <3> QED
      BY <3>1
  <2>3. CASE job' = job
    <3>1. Advances(job[i], job'[i], {})
      BY <2>1, <2>3 DEF Advances, Past, Early
    <3>2. TaskMoves(i, {})
      BY <1>0, <2>1, <2>3, <3>1, MailMoves DEF TaskMoves
    <3> QED
      BY <3>2
  <2> QED
    BY <1>11, <2>2, <2>3 DEF Confirmed, JobState
<1> QED
  BY <1>1, <1>2, <1>3, <1>4, <1>5, <1>6, <1>7, <1>8, <1>9, <1>10, <1>11 DEF Task

-----------------------------------------------------------------------------
(* The other steps.                                                        *)

(* The frame at the head is of the kind kind and for k, and is taken off.   *)
At(k, kind) ==
    /\ HeadFor(k) /\ Head(wire["receiver"]).kind = kind
    /\ wire'["receiver"] = Tail(wire["receiver"])

EntryAdvances(k) ==
    /\ inc'[k].state # "none" => Listed(k) \/ At(k, "file_offer")
    /\ \/ inc'[k].hash \in {NoHash, inc[k].hash}
       \/ HeadFor(k) /\ Head(wire["receiver"]).kind \in {"chunk", "file_restart"}
    /\ saved'[k] # saved[k] => At(k, "file_done")

QuietMoves ==
    /\ Moved(wire'["receiver"], wire["receiver"], {})
    /\ \A k \in TransferId : Halts(job[k], job'[k]) /\ EntryAdvances(k)

(* One entry changes.                                                       *)
LEMMA EntryQuiet ==
    ASSUME Typed, NEW i \in TransferId, NEW e, inc' = [inc EXCEPT ![i] = e],
           Moved(wire'["receiver"], wire["receiver"], {}), UNCHANGED job,
           e.state # "none" => Listed(i) \/ At(i, "file_offer"),
           \/ e.hash \in {NoHash, inc[i].hash}
           \/ HeadFor(i) /\ Head(wire["receiver"]).kind \in {"chunk", "file_restart"},
           \A k \in TransferId : saved'[k] # saved[k] => k = i /\ At(k, "file_done")
    PROVE  QuietMoves
<1>1. inc'[i] = e /\ \A k \in TransferId \ {i} : inc'[k] = inc[k]
  BY EntryGoesOn
<1>2. \A k \in TransferId : Halts(job[k], job'[k])
  BY DEF Halts
<1>3. EntryAdvances(i)
  BY <1>1 DEF EntryAdvances
<1>4. \A k \in TransferId \ {i} : EntryAdvances(k)
  BY <1>1 DEF EntryAdvances, Listed
<1> QED
  BY <1>2, <1>3, <1>4 DEF QuietMoves

(* No entry changes.                                                        *)
LEMMA NothingQuiet ==
    ASSUME Moved(wire'["receiver"], wire["receiver"], {}), UNCHANGED <<job, inc, saved>>
    PROVE  QuietMoves
  BY DEF QuietMoves, Halts, EntryAdvances, Listed

(* The head of the channel of the receiver.                                 *)
LEMMA Handles ==
    ASSUME Typing, NEW kind, Incoming("receiver", kind)
    PROVE  /\ HeadFor(Frame("receiver").id) /\ Frame("receiver").id \in TransferId
           /\ Frame("receiver") = Head(wire["receiver"]) /\ Frame("receiver") \in AnyFrame
           /\ Frame("receiver").kind = kind
           /\ \A f \in AnyFrame : wire' = Consumed("receiver") \/ wire' = Answer(f) =>
                 /\ wire'["receiver"] = Tail(wire["receiver"])
                 /\ Moved(wire'["receiver"], wire["receiver"], {})
                 /\ At(Frame("receiver").id, kind)
<1>1. wire["receiver"] # <<>> /\ Frame("receiver") \in AnyFrame /\ Frame("receiver").kind = kind
  BY AnswerTypes DEF Incoming
<1>2. Frame("receiver").id \in TransferId
  BY <1>1, FrameFields
<1>3. ASSUME NEW f \in AnyFrame, wire' = Consumed("receiver") \/ wire' = Answer(f)
      PROVE  /\ wire'["receiver"] = Tail(wire["receiver"])
             /\ Moved(wire'["receiver"], wire["receiver"], {})
  BY <1>1, <1>3, AnswerMoves DEF Typing
<1> QED
  BY <1>1, <1>2, <1>3 DEF HeadFor, At, Frame

(* A command of the receiver's user is quiet.                               *)
LEMMA CommandQuiet ==
    ASSUME Typing, NEW i \in TransferId,
           AcceptTransfer(i) \/ RejectTransfer(i) \/ CancelIncoming(i)
    PROVE  QuietMoves
<1>0. Typed /\ inc[i] \in Entry
  BY DEF Typing, Typed
<1>1. Moved(wire'["receiver"], wire["receiver"], {})
  BY CommandMoves DEF ReceiverMoves
<1>2. /\ UNCHANGED <<job, saved>> /\ Listed(i)
      /\ \/ \E s \in {"accepted", "rejected"} : inc' = [inc EXCEPT ![i].state = s]
         \/ inc' = [inc EXCEPT ![i].state = "canceled", ![i].handle = 0]
  BY DEF AcceptTransfer, RejectTransfer, CancelIncoming, Discard, disk, Listed
<1>3. PICK e : inc' = [inc EXCEPT ![i] = e] /\ e.hash = inc[i].hash
  <2>1. CASE \E s \in {"accepted", "rejected"} : inc' = [inc EXCEPT ![i].state = s]
    <3>1. PICK s : inc' = [inc EXCEPT ![i] = [inc[i] EXCEPT !.state = s]]
      BY <2>1
    <3>2. [inc[i] EXCEPT !.state = s].hash = inc[i].hash
      BY <1>0 DEF Entry
    <3> QED
      BY <3>1, <3>2
  <2>2. CASE inc' = [inc EXCEPT ![i].state = "canceled", ![i].handle = 0]
    <3>1. inc' = [inc EXCEPT ![i] = [inc[i] EXCEPT !.state = "canceled", !.handle = 0]]
      BY <2>2
    <3>2. [inc[i] EXCEPT !.state = "canceled", !.handle = 0].hash = inc[i].hash
      BY <1>0 DEF Entry
    <3> QED
      BY <3>1, <3>2
  <2> QED
    BY <1>2, <2>1, <2>2
<1> QED
  BY <1>0, <1>1, <1>2, <1>3, EntryQuiet

(* The fields of an entry that a handler leaves.                            *)
LEMMA EntryFields ==
    ASSUME NEW e \in Entry
    PROVE  /\ [e EXCEPT !.state = "canceled", !.handle = 0].hash = e.hash
           /\ FailedEntry(e).hash = e.hash
           /\ [e EXCEPT !.state = "failed", !.handle = 0, !.hash = NoHash].hash = NoHash
           /\ [FailedEntry(e) EXCEPT !.hash = NoHash].hash = NoHash
           /\ [e EXCEPT !.state = "done", !.temp = 0, !.handle = 0, !.hash = NoHash].hash = NoHash
  BY DEF Entry, FailedEntry

(* A frame the receiver handles is quiet.                                   *)
LEMMA ReceiveQuiet ==
    ASSUME Typing, Receive
    PROVE  QuietMoves
<1>0. Typed /\ inc \in [TransferId -> Entry] /\ \A i \in TransferId : FileCancel(i) \in AnyFrame
  BY FrameTypes DEF Typing, Typed
<1>1. Moved(wire'["receiver"], wire["receiver"], {})
  BY ReceiveMoves, BlockMoves DEF ReceiverMoves
<1>2. CASE HandleOffer
  <2> DEFINE i == Frame("receiver").id
  <2>1. At(i, "file_offer") /\ i \in TransferId
    BY <1>0, <1>2, Handles DEF HandleOffer
  <2>2. PICK e : inc' = [inc EXCEPT ![i] = e] /\ e.hash = NoHash
    <3> DEFINE e(t, p, x, n) == [NoEntry EXCEPT !.state = "offered", !.token = t, !.temp = p,
                                               !.prefix = x, !.received = n]
    <3>1. PICK t, p, x, n : inc' = [inc EXCEPT ![i] = e(t, p, x, n)]
      BY <1>2 DEF HandleOffer
    <3>2. e(t, p, x, n).hash = NoHash
      BY DEF NoEntry
    <3> QED
      BY <3>1, <3>2
  <2>3. UNCHANGED <<job, saved>>
    BY <1>2 DEF HandleOffer, disk
  <2> HIDE DEF i
  <2> QED
    BY <1>0, <1>1, <2>1, <2>2, <2>3, EntryQuiet
<1>3. CASE HandleRestart \/ HandlePeerCancel
  <2> DEFINE i == Frame("receiver").id
  <2>1. /\ i \in TransferId /\ HeadFor(i) /\ UNCHANGED <<job, saved>>
        /\ HandleRestart => Head(wire["receiver"]).kind = "file_restart"
    BY <1>3, Handles DEF HandleRestart, HandlePeerCancel, Discard, disk
  <2>2. CASE ~Listed(i)
    <3>1. inc' = inc
      BY <1>3, <2>2 DEF HandleRestart, HandlePeerCancel
    <3> QED
      BY <1>1, <2>1, <3>1, NothingQuiet
  <2>3. CASE Listed(i)
    <3>1. PICK e : inc' = [inc EXCEPT ![i] = e] /\ (HandleRestart \/ e.hash = inc[i].hash)
      <4>1. CASE HandleRestart
        <5>1. inc' = [inc EXCEPT ![i] = [@ EXCEPT !.state = "in_progress", !.received = 0,
                  !.prefix = <<>>, !.hash = <<>>, !.temp = 0, !.handle = 0]]
          BY <2>3, <4>1 DEF HandleRestart
        <5> QED
          BY <4>1, <5>1
      <4>2. CASE HandlePeerCancel
        <5>1. inc' = [inc EXCEPT ![i] = [inc[i] EXCEPT !.state = "canceled", !.handle = 0]]
          BY <2>3, <4>2 DEF HandlePeerCancel
        <5>2. inc[i] \in Entry
          BY <1>0, <2>1
        <5> HIDE DEF i
        <5> QED
          BY <5>1, <5>2, EntryFields
      <4> QED
        BY <1>3, <4>1, <4>2
    <3> HIDE DEF i
    <3> QED
      BY <1>0, <1>1, <2>1, <2>3, <3>1, EntryQuiet
  <2> QED
    BY <2>2, <2>3
<1>4. CASE HandleStrayChunk \/ HandleStrayDone
  <2>1. UNCHANGED <<job, inc, saved>>
    BY <1>4 DEF HandleStrayChunk, HandleStrayDone, disk
  <2> QED
    BY <1>1, <2>1, NothingQuiet
<1>5. ASSUME NEW i \in TransferId, HandleChunk(i) \/ HandleBadChunk(i) \/ HandleLateChunk(i)
      PROVE  QuietMoves
  <2>1. /\ HeadFor(i) /\ Head(wire["receiver"]).kind = "chunk" /\ UNCHANGED <<job, saved>>
        /\ Listed(i)
    BY <1>5, Handles
    DEF HandleChunk, HandleBadChunk, HandleLateChunk, ChunkFor, Listed, Incoming, Frame, disk
  <2>2. PICK e : inc' = [inc EXCEPT ![i] = e]
    BY <1>5 DEF HandleChunk, HandleBadChunk, HandleLateChunk
  <2> QED
    BY <1>0, <1>1, <2>1, <2>2, EntryQuiet
<1>6. ASSUME NEW i \in TransferId,
             HandleDone(i) \/ HandleDoneUnsaved(i) \/ HandleDoneMismatch(i)
      PROVE  QuietMoves
  <2>1. /\ Listed(i) /\ Incoming("receiver", "file_done") /\ Frame("receiver").id = i
        /\ UNCHANGED job
    BY <1>6 DEF HandleDone, HandleDoneUnsaved, HandleDoneMismatch, DoneFor
  <2>2. At(i, "file_done")
    <3>1. FileDone(i, Frame("receiver").hash) \in AnyFrame
      BY <2>1, Handles, FrameFields, FrameTypes
    <3> QED
      BY <1>0, <1>6, <2>1, <3>1, Handles DEF HandleDone, HandleDoneUnsaved, HandleDoneMismatch
  <2>3. PICK e : inc' = [inc EXCEPT ![i] = e] /\ e.hash = NoHash
    <3>1. inc[i] \in Entry
      BY <1>0
    <3>2. \/ inc' = [inc EXCEPT ![i] =
                [inc[i] EXCEPT !.state = "done", !.temp = 0, !.handle = 0, !.hash = NoHash]]
          \/ inc' = [inc EXCEPT ![i] =
                [inc[i] EXCEPT !.state = "failed", !.handle = 0, !.hash = NoHash]]
          \/ inc' = [inc EXCEPT ![i] = [FailedEntry(inc[i]) EXCEPT !.hash = NoHash]]
      BY <1>6 DEF HandleDone, HandleDoneUnsaved, HandleDoneMismatch
    <3>3. /\ [inc[i] EXCEPT !.state = "done", !.temp = 0, !.handle = 0, !.hash = NoHash].hash
                = NoHash
          /\ [inc[i] EXCEPT !.state = "failed", !.handle = 0, !.hash = NoHash].hash = NoHash
          /\ [FailedEntry(inc[i]) EXCEPT !.hash = NoHash].hash = NoHash
      BY <3>1, EntryFields
    <3> QED
      BY <3>2, <3>3
  <2>4. \A k \in TransferId : saved'[k] # saved[k] => k = i
    BY <1>0, <1>6 DEF HandleDone, HandleDoneUnsaved, HandleDoneMismatch, disk, Typed
  <2> QED
    BY <1>0, <1>1, <2>1, <2>2, <2>3, <2>4, EntryQuiet
<1> QED
  BY <1>2, <1>3, <1>4, <1>5, <1>6 DEF Receive, Dispatch

(* Disconnections, crashes and clean-ups are quiet.                         *)
LEMMA SessionQuiet ==
    ASSUME Typing,
           \/ EditSource \/ CleanUpIncoming \/ CleanUpOutgoing
           \/ CrashSender \/ CrashReceiver \/ \E e \in End : Dial(e) \/ Disconnect(e)
    PROVE  QuietMoves
<1>0. /\ \A i \in TransferId : inc[i] \in Entry /\ job[i] \in Job
      /\ Moved(wire'["receiver"], wire["receiver"], {})
  BY SessionMoves DEF Typing, Typed, ReceiverMoves
<1>1. CASE \/ EditSource \/ CleanUpOutgoing \/ \E e \in End : Dial(e) \/ Disconnect(e)
  <2>1. UNCHANGED <<job, inc, saved>>
    BY <1>1 DEF EditSource, CleanUpOutgoing, Dial, Connect, NoticeClosed, Disconnect, Close, disk
  <2> QED
    BY <1>0, <2>1, NothingQuiet
<1>2. CASE CleanUpIncoming
  <2>1. UNCHANGED <<job, saved>>
    BY <1>2 DEF CleanUpIncoming, disk
  <2>2. ASSUME NEW k \in TransferId PROVE EntryAdvances(k)
    <3>1. \/ inc'[k] = inc[k]
          \/ inc'[k] = [inc[k] EXCEPT !.state = "failed", !.handle = 0] /\ Listed(k)
      BY <1>2 DEF CleanUpIncoming, Listed
    <3>2. [inc[k] EXCEPT !.state = "failed", !.handle = 0].hash = inc[k].hash
      BY <1>0 DEF Entry
    <3> QED
      BY <2>1, <3>1, <3>2 DEF EntryAdvances, Listed
  <2> QED
    BY <1>0, <2>1, <2>2 DEF QuietMoves, Halts
<1>3. CASE CrashReceiver
  <2>1. UNCHANGED <<job, saved>> /\ \A k \in TransferId : inc'[k] = NoEntry
    BY <1>3 DEF CrashReceiver, disk
  <2>2. NoEntry.state = "none" /\ NoEntry.hash = NoHash
    BY DEF NoEntry
  <2> QED
    BY <1>0, <2>1, <2>2 DEF QuietMoves, Halts, EntryAdvances
<1>4. CASE CrashSender
  <2>1. UNCHANGED <<inc, saved>>
    BY <1>4 DEF CrashSender, disk
  <2>2. ASSUME NEW k \in TransferId PROVE Halts(job[k], job'[k])
    <3> DEFINE j == [job[k] EXCEPT !.pc = "over", !.state = "lost", !.paused = FALSE]
    <3>1. job'[k] = job[k] \/ (job'[k] = j /\ job[k].pc \notin {"none", "over"})
      BY <1>4 DEF CrashSender, Running
    <3>2. j.pc = "over" /\ j.state = "lost" /\ j.read = job[k].read
      BY <1>0 DEF Job
    <3> QED
      BY <3>1, <3>2 DEF Halts
  <2> QED
    BY <1>0, <2>1, <2>2 DEF QuietMoves, EntryAdvances, Listed
<1> QED
  BY <1>1, <1>2, <1>3, <1>4

(* Every step is one of a task or quiet.                                    *)
LEMMA EveryStep ==
    ASSUME Typing, [Next]_vars
    PROVE  QuietMoves \/ \E i \in TransferId : \E F : TaskMoves(i, F)
<1>1. CASE UNCHANGED vars
  BY <1>1, Channels, MovedCases, NothingQuiet DEF vars, disk, net
<1>2. CASE forward_outgoing
  BY <1>2, ForwardMoves, Channels, MovedCases, NothingQuiet
<1> QED
  BY <1>1, <1>2, TaskSteps, CommandQuiet, ReceiveQuiet, SessionQuiet
  DEF Next, UserCommand, Failure

-----------------------------------------------------------------------------
(* The transfers take turns.                                               *)

Received == wire["receiver"]

(* A task starts when those before it are over; the frames of a transfer    *)
(* follow those of the transfers before it, and what is left of a transfer  *)
(* on the wire when a later one is listed is nothing.                       *)
Turns ==
    /\ \A j, k \in TransferId : j < k /\ job[k].pc # "none" => job[j].pc = "over"
    /\ \A k, l \in 1 .. Len(Received) : k <= l => Received[k].id <= Received[l].id
    /\ \A k \in 1 .. Len(Received) : job[Received[k].id].pc # "none"
    /\ \A i \in TransferId : Listed(i) =>
          /\ job[i].pc # "none"
          /\ \A k \in 1 .. Len(Received) : i <= Received[k].id

(* What a task has read when it says so is all of the file; nothing of a    *)
(* transfer follows once its file is saved.                                 *)
Readings(i) ==
    /\ job[i].pc \in Early => job[i].read = <<>>
    /\ job[i].state = "done" => job[i].pc = "over"
    /\ saved[i] # 0 =>
          job[i].pc \in Past /\ \A k \in 1 .. Len(Received) : Received[k].id # i
    /\ \A k \in 1 .. Len(Received) : Received[k].kind = "file_done" /\ Received[k].id = i =>
          Received[k].hash = job[i].read /\ Len(job[i].read) = Size /\ job[i].pc \in Past

(* The first frame of a transfer is its only offer.                         *)
FirstFrame(i) ==
    /\ job[i].pc \in {"none", "offer"} =>
          ~Listed(i) /\ \A k \in 1 .. Len(Received) : Received[k].id # i
    /\ \A k \in 1 .. Len(Received) : Received[k].kind = "file_offer" /\ Received[k].id = i =>
          ~Listed(i) /\ \A l \in 1 .. Len(Received) : Received[l].id = i => k <= l

(* Of an empty file there are no blocks, and no hash is started.            *)
Blank ==
    Size = 0 =>
        /\ \A i \in TransferId : inc[i].hash = NoHash
        /\ \A k \in 1 .. Len(Received) : Received[k].kind \notin {"chunk", "file_restart"}

Progress == Turns /\ Blank /\ \A i \in TransferId : Readings(i) /\ FirstFrame(i)

(* What the channel of the receiver is after a step.                        *)
LEMMA ChannelMoved ==
    ASSUME Typing, Typing', NEW F, Moved(wire'["receiver"], wire["receiver"], F)
    PROVE  /\ Len(Received) \in Nat /\ Len(Received') \in Nat
           /\ \A k \in 1 .. Len(Received) :
                 Received[k] \in AnyFrame /\ Received[k].id \in TransferId
           /\ \E n \in Nat : \A k \in 1 .. Len(Received') :
                 \/ k + n \in 1 .. Len(Received) /\ Received'[k] = Received[k + n]
                 \/ k + n = Len(Received) + 1 /\ Received'[k] \in F
<1>1. Received \in Seq(AnyFrame) /\ Received' \in Seq(AnyFrame)
  BY EndFacts DEF Typing, Typed, Received
<1>2. /\ Len(Received) \in Nat /\ Len(Received') \in Nat
      /\ \A k \in 1 .. Len(Received) : Received[k] \in AnyFrame
  BY <1>1
<1>3. \A k \in 1 .. Len(Received) : Received[k].id \in TransferId
  BY <1>2, FrameFields
<1>4. Moved(Received', Received, F)
  BY DEF Received
<1> QED
  BY <1>2, <1>3, <1>4 DEF Moved

(* After a quiet step it is what is left of it.                             *)
LEMMA ChannelQuiet ==
    ASSUME Typing, Typing', QuietMoves
    PROVE  \E n \in Nat : \A k \in 1 .. Len(Received') :
               k + n \in 1 .. Len(Received) /\ Received'[k] = Received[k + n]
<1>1. Moved(wire'["receiver"], wire["receiver"], {})
  BY DEF QuietMoves
<1>2. PICK n \in Nat : \A k \in 1 .. Len(Received') :
          \/ k + n \in 1 .. Len(Received) /\ Received'[k] = Received[k + n]
          \/ k + n = Len(Received) + 1 /\ Received'[k] \in {}
  BY <1>1 DEF Moved, Received
<1> QED
  BY <1>2

(* A step of a task keeps the turns.                                        *)
LEMMA TurnsTask ==
    ASSUME Typing, Typing', ~Overlap, Turns, NEW i \in TransferId, NEW F, TaskMoves(i, F)
    PROVE  Turns'
<1>1. PICK n \in Nat : \A k \in 1 .. Len(Received') :
          \/ k + n \in 1 .. Len(Received) /\ Received'[k] = Received[k + n]
          \/ k + n = Len(Received) + 1 /\ Received'[k] \in F
  BY ChannelMoved DEF TaskMoves
<1>2. /\ Len(Received) \in Nat /\ Len(Received') \in Nat
      /\ \A k \in 1 .. Len(Received) : Received[k].id \in TransferId
  BY ChannelMoved DEF TaskMoves
<1>3. /\ \A f \in F : f.id = i
      /\ \A k \in TransferId \ {i} : job'[k] = job[k]
      /\ job[i].pc # "over" /\ job'[i].pc # "none"
      /\ job[i].pc = "none" => F = {} /\ \A k \in TransferId : k < i => job[k].pc = "over"
      /\ inc' = inc
  BY DEF TaskMoves, Begins, Advances
<1>4. /\ \A j, k \in TransferId : j < k /\ job[k].pc # "none" => job[j].pc = "over"
      /\ \A k, l \in 1 .. Len(Received) : k <= l => Received[k].id <= Received[l].id
      /\ \A k \in 1 .. Len(Received) : job[Received[k].id].pc # "none"
      /\ \A k \in TransferId : Listed(k) =>
            job[k].pc # "none" /\ \A l \in 1 .. Len(Received) : k <= Received[l].id
  BY DEF Turns
<1>5. \A j, k \in TransferId : j < k /\ job'[k].pc # "none" => job'[j].pc = "over"
  <2> SUFFICES ASSUME NEW j \in TransferId, NEW k \in TransferId, j < k, job'[k].pc # "none"
               PROVE  job'[j].pc = "over"
    OBVIOUS
  <2>1. j \in Nat /\ k \in Nat
    BY Numbers
  <2>2. CASE k = i
    BY <1>3, <1>4, <2>1, <2>2
  <2>3. CASE k # i
    BY <1>3, <1>4, <2>1, <2>3
  <2> QED
    BY <2>2, <2>3
<1>6. \A k \in TransferId : job[k].pc # "none" => k <= i
  <2> SUFFICES ASSUME NEW k \in TransferId, job[k].pc # "none", ~(k <= i) PROVE FALSE
    OBVIOUS
  <2>1. i < k
    BY Numbers
  <2> QED
    BY <1>3, <1>4, <2>1
<1>7. \A k, l \in 1 .. Len(Received') : k <= l => Received'[k].id <= Received'[l].id
  <2> SUFFICES ASSUME NEW k \in 1 .. Len(Received'), NEW l \in 1 .. Len(Received'), k <= l
               PROVE  Received'[k].id <= Received'[l].id
    OBVIOUS
  <2>1. CASE l + n \in 1 .. Len(Received) /\ Received'[l] = Received[l + n]
    <3>1. k + n \in 1 .. Len(Received) /\ Received'[k] = Received[k + n] /\ k + n <= l + n
      BY <1>1, <1>2, <2>1
    <3> QED
      BY <1>4, <2>1, <3>1
  <2>2. CASE Received'[l] \in F
    <3>1. Received'[l].id = i
      BY <1>3, <2>2
    <3>2. CASE Received'[k] \in F
      BY <1>3, <3>1, <3>2, Numbers
    <3>3. CASE k + n \in 1 .. Len(Received) /\ Received'[k] = Received[k + n]
      <4>1. Received[k + n].id \in TransferId /\ job[Received[k + n].id].pc # "none"
        BY <1>2, <1>4, <3>3
      <4> QED
        BY <1>6, <3>1, <3>3, <4>1
    <3> QED
      BY <1>1, <3>2, <3>3
  <2> QED
    BY <1>1, <2>1, <2>2
<1>8. \A k \in 1 .. Len(Received') : job'[Received'[k].id].pc # "none"
  BY <1>1, <1>2, <1>3, <1>4
<1>9. ASSUME NEW j \in TransferId, Listed(j)'
      PROVE  job'[j].pc # "none" /\ \A k \in 1 .. Len(Received') : j <= Received'[k].id
  <2>1. Listed(j)
    BY <1>3, <1>9 DEF Listed
  <2>2. job[j].pc # "none" /\ \A k \in 1 .. Len(Received) : j <= Received[k].id
    BY <1>4, <2>1
  <2>3. j <= i
    BY <1>6, <2>2
  <2> QED
    BY <1>1, <1>3, <2>2, <2>3
<1> QED
  BY <1>5, <1>7, <1>8, <1>9 DEF Turns

(* The frame at the head is the first.                                      *)
LEMMA HeadIsFirst ==
    ASSUME Typing, NEW i, HeadFor(i)
    PROVE  /\ 1 \in 1 .. Len(Received) /\ Received[1] = Head(wire["receiver"])
           /\ Received[1].id = i
           /\ wire'["receiver"] = Tail(wire["receiver"]) =>
                 \A k \in 1 .. Len(Received') :
                     k + 1 \in 1 .. Len(Received) /\ Received'[k] = Received[k + 1]
<1>1. Received \in Seq(AnyFrame) /\ Received # <<>>
  BY Channels DEF Received, HeadFor
<1>2. 1 \in 1 .. Len(Received) /\ Received[1] = Head(Received) /\ Len(Received) \in Nat
  BY <1>1
<1>3. ASSUME wire'["receiver"] = Tail(wire["receiver"])
      PROVE  \A k \in 1 .. Len(Received') :
                 k + 1 \in 1 .. Len(Received) /\ Received'[k] = Received[k + 1]
  <2>1. Received' = Tail(Received)
    BY <1>3 DEF Received
  <2>2. /\ Len(Received') = Len(Received) - 1
        /\ \A k \in 1 .. Len(Received') : Received'[k] = Received[k + 1]
    BY <1>1, <2>1, HeadTailProperties
  <2> QED
    BY <1>2, <2>2
<1> QED
  BY <1>2, <1>3 DEF HeadFor, Received

(* A quiet step keeps the turns.                                            *)
LEMMA TurnsQuiet ==
    ASSUME Typing, Typing', Turns, QuietMoves
    PROVE  Turns'
<1>1. PICK n \in Nat : \A k \in 1 .. Len(Received') :
          k + n \in 1 .. Len(Received) /\ Received'[k] = Received[k + n]
  BY ChannelQuiet
<1>2. /\ Len(Received) \in Nat /\ Len(Received') \in Nat
      /\ \A k \in 1 .. Len(Received) : Received[k].id \in TransferId
  BY ChannelMoved DEF QuietMoves
<1>3. \A k \in TransferId :
          /\ job'[k].pc = job[k].pc \/ (job[k].pc # "none" /\ job'[k].pc = "over")
          /\ EntryAdvances(k)
  BY DEF QuietMoves, Halts
<1>4. /\ \A j, k \in TransferId : j < k /\ job[k].pc # "none" => job[j].pc = "over"
      /\ \A k, l \in 1 .. Len(Received) : k <= l => Received[k].id <= Received[l].id
      /\ \A k \in 1 .. Len(Received) : job[Received[k].id].pc # "none"
      /\ \A k \in TransferId : Listed(k) =>
            job[k].pc # "none" /\ \A l \in 1 .. Len(Received) : k <= Received[l].id
  BY DEF Turns
<1>5. \A j, k \in TransferId : j < k /\ job'[k].pc # "none" => job'[j].pc = "over"
  BY <1>3, <1>4
<1>6. \A k, l \in 1 .. Len(Received') : k <= l => Received'[k].id <= Received'[l].id
  <2> SUFFICES ASSUME NEW k \in 1 .. Len(Received'), NEW l \in 1 .. Len(Received'), k <= l
               PROVE  Received'[k].id <= Received'[l].id
    OBVIOUS
  <2>1. k + n <= l + n
    BY <1>2
  <2> QED
    BY <1>1, <1>4, <2>1
<1>7. \A k \in 1 .. Len(Received') : job'[Received'[k].id].pc # "none"
  BY <1>1, <1>2, <1>3, <1>4
<1>8. ASSUME NEW j \in TransferId, Listed(j)'
      PROVE  job'[j].pc # "none" /\ \A k \in 1 .. Len(Received') : j <= Received'[k].id
  <2>1. CASE Listed(j)
    BY <1>1, <1>3, <1>4, <2>1
  <2>2. CASE At(j, "file_offer")
    <3>1. /\ 1 \in 1 .. Len(Received) /\ Received[1].id = j
          /\ \A k \in 1 .. Len(Received') :
                k + 1 \in 1 .. Len(Received) /\ Received'[k] = Received[k + 1]
      BY <2>2, HeadIsFirst DEF At
    <3>2. \A k \in 1 .. Len(Received') : 1 <= k + 1
      BY <1>2
    <3> QED
      BY <1>3, <1>4, <3>1, <3>2
  <2> QED
    BY <1>3, <1>8, <2>1, <2>2 DEF EntryAdvances, Listed
<1> QED
  BY <1>5, <1>6, <1>7, <1>8 DEF Turns

(* A step of a task keeps what is known of the reading.                     *)
LEMMA ReadingsTask ==
    ASSUME Typing, Typing', NEW i \in TransferId, NEW F, TaskMoves(i, F),
           NEW k \in TransferId, Readings(k)
    PROVE  Readings(k)'
<1>1. PICK n \in Nat : \A l \in 1 .. Len(Received') :
          \/ l + n \in 1 .. Len(Received) /\ Received'[l] = Received[l + n]
          \/ l + n = Len(Received) + 1 /\ Received'[l] \in F
  BY ChannelMoved DEF TaskMoves
<1>2. /\ \A f \in F : f.id = i
      /\ \A j \in TransferId \ {i} : job'[j] = job[j]
      /\ saved' = saved /\ job[i].pc # "over"
      /\ \/ Begins(i) /\ F = {}
         \/ Advances(job[i], job'[i], F)
  BY DEF TaskMoves, disk, Begins, Advances
<1>3. CASE k # i
  <2>1. job'[k] = job[k] /\ saved'[k] = saved[k]
    BY <1>2, <1>3
  <2>2. \A l \in 1 .. Len(Received') : Received'[l].id = k =>
            l + n \in 1 .. Len(Received) /\ Received'[l] = Received[l + n]
    BY <1>1, <1>2, <1>3
  <2> QED
    BY <2>1, <2>2 DEF Readings
<1>4. CASE k = i /\ Begins(i) /\ F = {}
  <2>1. job[i].pc = "none" /\ job'[i].pc = "offer" /\ job'[i].read = <<>> /\ job'[i].state = "open"
    BY <1>4 DEF Begins
  <2> QED
    BY <1>1, <1>2, <1>4, <2>1 DEF Readings, Past
<1>5. CASE k = i /\ Advances(job[i], job'[i], F)
  <2>1. job'[i].pc \in Early => job'[i].read = <<>>
    BY <1>5 DEF Readings, Advances, Early
  <2>2. job'[i].state = "done" => job'[i].pc = "over"
    BY <1>5 DEF Readings, Advances
  <2>3. job[i].pc \in Past => F = {} /\ job'[i].pc \in Past /\ job'[i].read = job[i].read
    BY <1>5 DEF Advances, Past
  <2>4. saved'[i] # 0 =>
            job'[i].pc \in Past /\ \A l \in 1 .. Len(Received') : Received'[l].id # i
    BY <1>1, <1>2, <1>5, <2>3 DEF Readings
  <2>5. \A l \in 1 .. Len(Received') : Received'[l].kind = "file_done" /\ Received'[l].id = i =>
            Received'[l].hash = job'[i].read /\ Len(job'[i].read) = Size /\ job'[i].pc \in Past
    <3>1. \A f \in F : f.kind = "file_done" =>
              f.hash = job'[i].read /\ Len(job'[i].read) = Size /\ job'[i].pc \in Past
      BY <1>5 DEF Advances
    <3> QED
      BY <1>1, <1>5, <2>3, <3>1 DEF Readings
  <2> QED
    BY <1>5, <2>1, <2>2, <2>4, <2>5 DEF Readings
<1> QED
  BY <1>2, <1>3, <1>4, <1>5

(* A quiet step keeps it, too: when a file is saved, nothing of the         *)
(* transfer follows its file_done.                                          *)
LEMMA ReadingsQuiet ==
    ASSUME Typing, Typing', QuietMoves, NEW k \in TransferId, Readings(k), LastFrame(k)
    PROVE  Readings(k)'
<1>1. PICK n \in Nat : \A l \in 1 .. Len(Received') :
          l + n \in 1 .. Len(Received) /\ Received'[l] = Received[l + n]
  BY ChannelQuiet
<1>2. Halts(job[k], job'[k]) /\ EntryAdvances(k)
  BY DEF QuietMoves
<1>3. /\ job'[k].pc \in Early => job'[k].read = <<>>
      /\ job'[k].state = "done" => job'[k].pc = "over"
      /\ job[k].pc \in Past => job'[k].pc \in Past /\ job'[k].read = job[k].read
  BY <1>2 DEF Readings, Halts, Early, Past
<1>4. ASSUME saved'[k] # 0
      PROVE  job'[k].pc \in Past /\ \A l \in 1 .. Len(Received') : Received'[l].id # k
  <2>1. CASE saved'[k] = saved[k]
    BY <1>1, <1>3, <1>4, <2>1 DEF Readings
  <2>2. CASE At(k, "file_done")
    <3>1. /\ 1 \in 1 .. Len(Received) /\ Received[1].id = k /\ Received[1].kind = "file_done"
          /\ \A l \in 1 .. Len(Received') :
                l + 1 \in 1 .. Len(Received) /\ Received'[l] = Received[l + 1]
      BY <2>2, HeadIsFirst DEF At
    <3>2. \A l \in 1 .. Len(Received) : Received[l].id = k => l <= 1
      BY <3>1 DEF LastFrame, Received
    <3>3. \A l \in 1 .. Len(Received') : ~(l + 1 <= 1)
      OBVIOUS
    <3> QED
      BY <1>3, <3>1, <3>2, <3>3 DEF Readings
  <2> QED
    BY <1>2, <2>1, <2>2 DEF EntryAdvances
<1>5. \A l \in 1 .. Len(Received') : Received'[l].kind = "file_done" /\ Received'[l].id = k =>
          Received'[l].hash = job'[k].read /\ Len(job'[k].read) = Size /\ job'[k].pc \in Past
  BY <1>1, <1>3 DEF Readings
<1> QED
  BY <1>3, <1>4, <1>5 DEF Readings

(* A step of a task keeps the offer of each transfer its first frame.       *)
LEMMA FirstTask ==
    ASSUME Typing, Typing', NEW i \in TransferId, NEW F, TaskMoves(i, F),
           NEW k \in TransferId, FirstFrame(k)
    PROVE  FirstFrame(k)'
<1>1. PICK n \in Nat : \A l \in 1 .. Len(Received') :
          \/ l + n \in 1 .. Len(Received) /\ Received'[l] = Received[l + n]
          \/ l + n = Len(Received) + 1 /\ Received'[l] \in F
  BY ChannelMoved DEF TaskMoves
<1>2. /\ Len(Received) \in Nat /\ Len(Received') \in Nat
      /\ \A f \in F : f.id = i
      /\ \A j \in TransferId \ {i} : job'[j] = job[j]
      /\ inc' = inc
  BY ChannelMoved DEF TaskMoves
<1>3. CASE k # i
  <2>1. job'[k] = job[k] /\ (Listed(k)' <=> Listed(k))
    BY <1>2, <1>3 DEF Listed
  <2>2. \A l \in 1 .. Len(Received') : Received'[l].id = k =>
            l + n \in 1 .. Len(Received) /\ Received'[l] = Received[l + n]
    BY <1>1, <1>2, <1>3
  <2>3. ASSUME NEW a \in 1 .. Len(Received'), NEW b \in 1 .. Len(Received'), a + n <= b + n
        PROVE  a <= b
    BY <1>2, <2>3
  <2>4. job'[k].pc \in {"none", "offer"} =>
            ~Listed(k)' /\ \A l \in 1 .. Len(Received') : Received'[l].id # k
    BY <2>1, <2>2 DEF FirstFrame
  <2>5. ASSUME NEW a \in 1 .. Len(Received'), Received'[a].kind = "file_offer",
               Received'[a].id = k
        PROVE  ~Listed(k)' /\ \A l \in 1 .. Len(Received') : Received'[l].id = k => a <= l
    <3>1. ~Listed(k) /\ \A l \in 1 .. Len(Received) : Received[l].id = k => a + n <= l
      BY <2>2, <2>5 DEF FirstFrame
    <3> QED
      BY <2>1, <2>2, <2>3, <3>1
  <2> QED
    BY <2>4, <2>5 DEF FirstFrame
<1>4. CASE k = i
  <2>1. (Begins(i) /\ F = {}) \/ Advances(job[i], job'[i], F)
    BY DEF TaskMoves
  <2>2. /\ job'[i].pc \in {"none", "offer"} => job[i].pc \in {"none", "offer"} /\ F = {}
        /\ \A f \in F : f.kind = "file_offer" => job[i].pc = "offer"
    BY <2>1 DEF Begins, Advances
  <2>3. job'[i].pc \in {"none", "offer"} =>
            ~Listed(i)' /\ \A l \in 1 .. Len(Received') : Received'[l].id # i
    BY <1>1, <1>2, <1>4, <2>2 DEF FirstFrame, Listed
  <2>4. ASSUME NEW a \in 1 .. Len(Received'), Received'[a].kind = "file_offer",
               Received'[a].id = i
        PROVE  ~Listed(i)' /\ \A l \in 1 .. Len(Received') : Received'[l].id = i => a <= l
    <3>1. CASE a + n \in 1 .. Len(Received) /\ Received'[a] = Received[a + n]
      <4>1. ~Listed(i) /\ \A l \in 1 .. Len(Received) : Received[l].id = i => a + n <= l
        BY <1>4, <2>4, <3>1 DEF FirstFrame
      <4>2. \A l \in 1 .. Len(Received') : Received'[l].id = i => a + n <= l + n
        BY <1>1, <1>2, <3>1, <4>1
      <4> QED
        BY <1>2, <4>1, <4>2 DEF Listed
    <3>2. CASE a + n = Len(Received) + 1 /\ Received'[a] \in F
      <4>1. ~Listed(i) /\ \A l \in 1 .. Len(Received) : Received[l].id # i
        BY <1>4, <2>2, <2>4, <3>2 DEF FirstFrame
      <4>2. \A l \in 1 .. Len(Received') : Received'[l].id = i => l + n = a + n
        BY <1>1, <3>2, <4>1
      <4> QED
        BY <1>2, <4>1, <4>2 DEF Listed
    <3> QED
      BY <1>1, <3>1, <3>2
  <2> QED
    BY <1>4, <2>3, <2>4 DEF FirstFrame
<1> QED
  BY <1>3, <1>4

(* A quiet step does so, too: a transfer is listed by its only offer.       *)
LEMMA FirstQuiet ==
    ASSUME Typing, Typing', QuietMoves, NEW k \in TransferId, FirstFrame(k)
    PROVE  FirstFrame(k)'
<1>1. PICK n \in Nat : \A l \in 1 .. Len(Received') :
          l + n \in 1 .. Len(Received) /\ Received'[l] = Received[l + n]
  BY ChannelQuiet
<1>2. Halts(job[k], job'[k]) /\ EntryAdvances(k)
  BY DEF QuietMoves
<1>3. Listed(k)' => Listed(k) \/ At(k, "file_offer")
  BY <1>2 DEF EntryAdvances, Listed
<1>4. ASSUME job'[k].pc \in {"none", "offer"}
      PROVE  ~Listed(k)' /\ \A l \in 1 .. Len(Received') : Received'[l].id # k
  <2>1. ~Listed(k) /\ \A l \in 1 .. Len(Received) : Received[l].id # k
    BY <1>2, <1>4 DEF FirstFrame, Halts
  <2>2. ~At(k, "file_offer")
    BY <2>1, HeadIsFirst DEF At
  <2> QED
    BY <1>1, <1>3, <2>1, <2>2
<1>5. ASSUME NEW a \in 1 .. Len(Received'), Received'[a].kind = "file_offer", Received'[a].id = k
      PROVE  ~Listed(k)' /\ \A l \in 1 .. Len(Received') : Received'[l].id = k => a <= l
  <2>1. ~Listed(k) /\ \A l \in 1 .. Len(Received) : Received[l].id = k => a + n <= l
    BY <1>1, <1>5 DEF FirstFrame
  <2>2. \A l \in 1 .. Len(Received') : Received'[l].id = k => a <= l
    <3>1. \A l \in 1 .. Len(Received') : Received'[l].id = k => a + n <= l + n
      BY <1>1, <2>1
    <3> QED
      BY <3>1
  <2>3. ASSUME At(k, "file_offer") PROVE FALSE
    <3>1. /\ 1 \in 1 .. Len(Received) /\ Received[1].id = k
          /\ a + 1 \in 1 .. Len(Received) /\ Received'[a] = Received[a + 1]
      BY <2>3, HeadIsFirst DEF At
    <3>2. \A l \in 1 .. Len(Received) : Received[l].id = k => a + 1 <= l
      BY <1>5, <3>1 DEF FirstFrame
    <3>3. a + 1 <= 1
      BY <3>1, <3>2
    <3> QED
      BY <3>3
  <2> QED
    BY <1>3, <2>1, <2>2, <2>3
<1> QED
  BY <1>4, <1>5 DEF FirstFrame

(* A step of a task keeps an empty file without blocks.                     *)
LEMMA BlankTask ==
    ASSUME Typing, Typing', NEW i \in TransferId, NEW F, TaskMoves(i, F), Blank
    PROVE  Blank'
<1>1. PICK n \in Nat : \A l \in 1 .. Len(Received') :
          \/ l + n \in 1 .. Len(Received) /\ Received'[l] = Received[l + n]
          \/ l + n = Len(Received) + 1 /\ Received'[l] \in F
  BY ChannelMoved DEF TaskMoves
<1>2. inc' = inc /\ (Size = 0 => \A f \in F : f.kind \notin {"chunk", "file_restart"})
  BY DEF TaskMoves, Advances
<1> QED
  BY <1>1, <1>2 DEF Blank

(* A quiet step does so, too: a hash is started only by a block or a        *)
(* file_restart.                                                            *)
LEMMA BlankQuiet ==
    ASSUME Typing, Typing', QuietMoves, Blank
    PROVE  Blank'
<1>1. PICK n \in Nat : \A l \in 1 .. Len(Received') :
          l + n \in 1 .. Len(Received) /\ Received'[l] = Received[l + n]
  BY ChannelQuiet
<1> SUFFICES ASSUME Size = 0
             PROVE  /\ \A k \in TransferId : inc'[k].hash = NoHash
                    /\ \A l \in 1 .. Len(Received') :
                          Received'[l].kind \notin {"chunk", "file_restart"}
  BY DEF Blank
<1>2. /\ \A k \in TransferId : inc[k].hash = NoHash
      /\ \A l \in 1 .. Len(Received) : Received[l].kind \notin {"chunk", "file_restart"}
  BY DEF Blank
<1>3. ASSUME NEW k \in TransferId PROVE inc'[k].hash = NoHash
  <2>1. \/ inc'[k].hash \in {NoHash, inc[k].hash}
        \/ HeadFor(k) /\ Head(wire["receiver"]).kind \in {"chunk", "file_restart"}
    BY DEF QuietMoves, EntryAdvances
  <2>2. HeadFor(k) => Head(wire["receiver"]).kind \notin {"chunk", "file_restart"}
    BY <1>2, HeadIsFirst
  <2> QED
    BY <1>2, <2>1, <2>2
<1> QED
  BY <1>1, <1>2, <1>3

(* At first nothing has been read or sent.                                  *)
LEMMA ProgressInit == Init => Progress
<1> SUFFICES ASSUME Init PROVE Progress
  OBVIOUS
<1>1. /\ Received = <<>> /\ Len(Received) = 0
      /\ \A i \in TransferId : job[i] = NoJob /\ inc[i] = NoEntry /\ saved[i] = 0
  BY EndFacts DEF Init, Received
<1>2. NoJob.pc = "none" /\ NoJob.read = <<>> /\ NoJob.state = "none"
  BY DEF NoJob
<1>3. NoEntry.state = "none" /\ NoEntry.hash = NoHash
  BY DEF NoEntry
<1>4. 1 .. Len(Received) = {}
  BY <1>1
<1>5. Turns
  BY <1>1, <1>2, <1>3, <1>4 DEF Turns, Listed
<1>6. \A i \in TransferId : Readings(i) /\ FirstFrame(i)
  BY <1>1, <1>2, <1>3, <1>4 DEF Readings, FirstFrame, Listed, Past
<1>7. Blank
  BY <1>1, <1>3, <1>4 DEF Blank
<1> QED
  BY <1>5, <1>6, <1>7 DEF Progress

(* Every step keeps the progress.                                           *)
LEMMA ProgressStep ==
    ASSUME Typing, Typing', Completion, ~Overlap, Progress, [Next]_vars
    PROVE  Progress'
<1>1. CASE QuietMoves
  <2>1. \A k \in TransferId : Readings(k) /\ FirstFrame(k) /\ LastFrame(k)
    BY DEF Progress, Completion
  <2>2. Turns' /\ Blank'
    BY <1>1, TurnsQuiet, BlankQuiet DEF Progress
  <2>3. \A k \in TransferId : Readings(k)' /\ FirstFrame(k)'
    BY <1>1, <2>1, ReadingsQuiet, FirstQuiet
  <2> QED
    BY <2>2, <2>3 DEF Progress
<1>2. ASSUME NEW i \in TransferId, NEW F, TaskMoves(i, F) PROVE Progress'
  <2>1. \A k \in TransferId : Readings(k) /\ FirstFrame(k)
    BY DEF Progress
  <2>2. Turns' /\ Blank'
    BY <1>2, TurnsTask, BlankTask DEF Progress
  <2>3. \A k \in TransferId : Readings(k)' /\ FirstFrame(k)'
    BY <1>2, <2>1, ReadingsTask, FirstTask
  <2> QED
    BY <2>2, <2>3 DEF Progress
<1> QED
  BY <1>1, <1>2, EveryStep

-----------------------------------------------------------------------------
(* What the .part of a transfer holds.                                     *)

(* The task of the transfer runs, or frames of it are under way.            *)
Live(i) == Running(i) \/ \E k \in 1 .. Len(Received) : Received[k].id = i

(* No file has two paths, and a saved file has none.                        *)
Apart(l, s) ==
    /\ \A j, k \in TransferId : l[j] # 0 /\ l[j] = l[k] => j = k
    /\ \A j, k \in TransferId : s[j] # 0 => l[k] # s[j]

(* The file at the path of an entry, 0 if there is none.                    *)
PartOf(e, l) == IF e.temp = 0 THEN 0 ELSE l[e.temp]

(* The open file is the .part or is unlinked, holds the blocks of the hash  *)
(* and is not yet a saved file.                                             *)
OpenFits(e, l, d, s) ==
    e.handle # 0 =>
        /\ d[e.handle] = e.hash /\ Len(e.hash) = e.received
        /\ e.temp # 0 /\ PartOf(e, l) \in {0, e.handle}
        /\ \A k \in TransferId : s[k] # e.handle
        /\ e.state = "in_progress"

(* The .part holds the blocks of the hash.  Before the first block there is *)
(* no hash, and what the offer found is still all of the .part; a .part is  *)
(* opened again only where nothing is received; a cancelled entry has none. *)
PartFits(e, l, d) ==
    /\ PartOf(e, l) # 0 /\ e.hash # NoHash => d[PartOf(e, l)] = e.hash
    /\ e.state \in {"offered", "accepted"} =>
          /\ e.hash = NoHash /\ e.handle = 0
          /\ PartOf(e, l) = 0 \/ Len(d[PartOf(e, l)]) = e.received
          /\ e.temp = 0 => e.received = 0
    /\ e.state = "in_progress" /\ e.handle = 0 => e.received = 0
    /\ e.state = "canceled" => PartOf(e, l) = 0

Fits(e, l, d, s) == OpenFits(e, l, d, s) /\ PartFits(e, l, d)

Partials ==
    /\ Apart(link, saved)
    /\ \A i \in TransferId : Live(i) /\ Listed(i) => Fits(inc[i], link, data, saved)
    /\ SavedIsRead

(* Some paths go.                                                           *)
Cleared(m, l) == \A k \in TransferId : m[k] \in {0, l[k]}

(* A path that goes does no harm.                                           *)
LEMMA ClearedFits ==
    ASSUME NEW e \in Entry, NEW l, NEW m, NEW d, NEW s, Cleared(m, l)
    PROVE  /\ PartOf(e, m) \in {0, PartOf(e, l)}
           /\ Fits(e, l, d, s) => Fits(e, m, d, s)
           /\ Apart(l, s) => Apart(m, s)
<1>1. PartOf(e, m) \in {0, PartOf(e, l)}
  BY DEF Cleared, PartOf, Entry
<1>2. OpenFits(e, l, d, s) => OpenFits(e, m, d, s)
  BY <1>1 DEF OpenFits
<1>3. PartFits(e, l, d) => PartFits(e, m, d)
  BY <1>1 DEF PartFits
<1>4. Apart(l, s) => Apart(m, s)
  BY DEF Apart, Cleared
<1> QED
  BY <1>1, <1>2, <1>3, <1>4 DEF Fits

(* What is left of an entry that ends.                                      *)
EndsAs(e, f) ==
    /\ f.handle = 0 /\ f.temp \in {0, e.temp} /\ f.hash \in {NoHash, e.hash}
    /\ f.state \in {"failed", "rejected", "canceled", "done"}

(* What is left fits as the entry did, or has no hash to fit.               *)
LEMMA EndedFits ==
    ASSUME NEW e \in Entry, NEW f, EndsAs(e, f), NEW l, NEW d, NEW s, NEW t,
           f.hash = NoHash \/ Fits(e, l, d, s),
           f.state = "canceled" => PartOf(f, l) = 0
    PROVE  Fits(f, l, d, t)
<1>1. PartOf(f, l) \in {0, PartOf(e, l)}
  BY DEF EndsAs, PartOf
<1>2. OpenFits(f, l, d, t)
  BY DEF EndsAs, OpenFits
<1>3. PartFits(f, l, d)
  BY <1>1 DEF EndsAs, Fits, PartFits
<1> QED
  BY <1>2, <1>3 DEF Fits

(* Discard and Unlink clear paths.                                          *)
LEMMA ClearedPaths ==
    ASSUME Typed, NEW e \in Entry, NEW l \in [TransferId -> Nat]
    PROVE  /\ Cleared(l, l)
           /\ Cleared(Unlink(l, e), l)
           /\ Discard(e) => /\ Cleared(link', link) /\ UNCHANGED <<data, saved>>
                            /\ PartOf(e, link') = 0
<1>1. Cleared(l, l)
  BY DEF Cleared
<1>2. Cleared(Unlink(l, e), l)
  BY DEF Cleared, Unlink
<1>3. ASSUME Discard(e) PROVE Cleared(link', link) /\ PartOf(e, link') = 0
  BY <1>3 DEF Typed, Discard, Cleared, PartOf, Entry
<1> QED
  BY <1>1, <1>2, <1>3 DEF Discard

(* Only the transfer of the frame at the head can be live and listed.       *)
LEMMA HeadAlone ==
    ASSUME Typing, Turns, NEW i \in TransferId, HeadFor(i), NEW k \in TransferId, k # i
    PROVE  ~(Listed(k) /\ Live(k))
<1> SUFFICES ASSUME Listed(k), Live(k) PROVE FALSE
  OBVIOUS
<1>1. /\ 1 \in 1 .. Len(Received) /\ Received[1].id = i
  BY HeadIsFirst
<1>2. k <= i /\ job[i].pc # "none"
  BY <1>1 DEF Turns
<1>3. k < i
  BY <1>2, Numbers
<1>4. job[k].pc = "over"
  BY <1>2, <1>3 DEF Turns
<1>5. ASSUME NEW l \in 1 .. Len(Received), Received[l].id = k PROVE FALSE
  <2>1. 1 <= l
    OBVIOUS
  <2>2. i <= k
    BY <1>1, <1>5, <2>1 DEF Turns
  <2> QED
    BY <1>3, <2>2, Numbers
<1> QED
  BY <1>4, <1>5 DEF Live, Running

(* What is live after a quiet step was live, and has read the same.         *)
LEMMA LiveQuiet ==
    ASSUME Typing, Typing', QuietMoves, NEW k \in TransferId
    PROVE  (Live(k)' => Live(k)) /\ job'[k].read = job[k].read
<1>1. PICK n \in Nat : \A l \in 1 .. Len(Received') :
          l + n \in 1 .. Len(Received) /\ Received'[l] = Received[l + n]
  BY ChannelQuiet
<1>2. Halts(job[k], job'[k])
  BY DEF QuietMoves
<1> QED
  BY <1>1, <1>2 DEF Halts, Live, Running

(* A block written at the end is appended.                                  *)
LEMMA WrittenAtEnd ==
    ASSUME NEW q \in Seq(Block), NEW v \in Block
    PROVE  Written(q, Len(q), v) = Append(q, v)
<1>1. /\ Append(q, v) \in Seq(Block) /\ Len(Append(q, v)) = Len(q) + 1 /\ Len(q) \in Nat
      /\ \A k \in 1 .. Len(q) : Append(q, v)[k] = q[k]
      /\ Append(q, v)[Len(q) + 1] = v
  BY AppendProperties
<1>2. Written(q, Len(q), v) =
          [k \in 1 .. Len(q) + 1 |->
              IF k = Len(q) + 1 THEN v ELSE IF k <= Len(q) THEN q[k] ELSE 0]
  BY <1>1 DEF Written
<1>3. Append(q, v) = [k \in 1 .. Len(q) + 1 |-> Append(q, v)[k]]
  <2> DEFINE a == Append(q, v)
  <2>1. a \in Seq(Block) /\ Len(a) = Len(q) + 1
    BY <1>1
  <2> HIDE DEF a
  <2>2. a \in [1 .. Len(a) -> Block]
    BY <2>1
  <2>3. a = [k \in 1 .. Len(q) + 1 |-> a[k]]
    BY <2>1, <2>2
  <2> QED
    BY <2>3 DEF a
<1>4. \A k \in 1 .. Len(q) + 1 :
          Append(q, v)[k] = IF k = Len(q) + 1 THEN v ELSE IF k <= Len(q) THEN q[k] ELSE 0
  BY <1>1
<1> HIDE DEF Written
<1> QED
  BY <1>2, <1>3, <1>4

(* A .part that is opened with all of it received holds what is hashed; one *)
(* that is too short has no hash yet.                                       *)
LEMMA OpenedFits ==
    ASSUME Typing, NEW i \in TransferId, Listed(i),
           Apart(link, saved), Fits(inc[i], link, data, saved)
    PROVE  LET o == Opened(i)
           IN  /\ Apart(o.link, saved)
               /\ \A k \in TransferId : saved[k] # 0 => o.data[saved[k]] = data[saved[k]]
               /\ \/ Fits(o.entry, o.link, o.data, saved)
                  \/ o.entry.handle = 0 /\ o.entry.hash = NoHash
<1> DEFINE e == inc[i]
           p == IF e.temp = 0 THEN i ELSE e.temp
           n == IF link[p] = 0 THEN Len(data) + 1 ELSE link[p]
           found == IF link[p] = 0 THEN Append(data, <<>>) ELSE data
           files == IF e.received = 0 THEN [found EXCEPT ![n] = <<>>] ELSE found
           short == Len(files[n]) < e.received
           h == IF short THEN e.hash ELSE SubSeq(files[n], 1, e.received)
           next == [e EXCEPT !.temp = p, !.handle = IF short THEN 0 ELSE n,
                             !.hash = h, !.state = "in_progress"]
           l == [link EXCEPT ![p] = n]
<1>0. CASE ~(e.handle = 0 /\ e.state \in {"accepted", "in_progress"})
  <2>1. Opened(i) = [entry |-> e, link |-> link, data |-> data, meta |-> meta]
    BY <1>0 DEF Opened
  <2> QED
    BY <2>1
<1>a. CASE e.handle = 0 /\ e.state \in {"accepted", "in_progress"}
  <2>0. Opened(i) = [entry |-> next, link |-> l, data |-> files,
                     meta |-> [meta EXCEPT ![e.token] = p]]
    BY <1>a DEF Opened
  <2>1. /\ e \in Entry /\ Paths /\ Contents /\ Kept /\ data \in Seq(Seq(Block))
        /\ Len(data) \in Nat /\ p \in TransferId /\ e.received \in Nat
    BY DiskTypes, Numbers DEF Entries, Contents, Entry
  <2>2. /\ n \in Nat /\ n # 0
        /\ \A k \in TransferId : saved[k] # n
        /\ \A k \in TransferId : saved[k] # 0 => found[saved[k]] = data[saved[k]]
        /\ \A k \in TransferId \ {p} : link[k] # n
        /\ found \in Seq(Seq(Block)) /\ n \in 1 .. Len(found)
        /\ link[p] = 0 => found[n] = <<>>
    <3>1. CASE link[p] = 0
      <4>1. /\ found \in Seq(Seq(Block)) /\ Len(found) = Len(data) + 1
            /\ \A k \in 1 .. Len(data) : found[k] = data[k]
            /\ found[Len(data) + 1] = <<>>
        <5>1. <<>> \in Seq(Block)
          OBVIOUS
        <5> QED
          BY <2>1, <3>1, <5>1, AppendProperties
      <4>2. \A k \in TransferId : saved[k] # 0 => saved[k] \in 1 .. Len(data)
        BY <2>1 DEF Kept
      <4>3. \A k \in TransferId : saved[k] # Len(data) + 1 /\ link[k] # Len(data) + 1
        BY <2>1 DEF Kept, Paths
      <4>4. n = Len(data) + 1 /\ n # 0
        BY <2>1, <3>1
      <4>5. n \in 1 .. Len(found) /\ n \in Nat /\ found[n] = <<>>
        BY <2>1, <4>1, <4>4
      <4> HIDE DEF found, n, p
      <4>6. \A k \in TransferId : saved[k] # 0 => found[saved[k]] = data[saved[k]]
        BY <4>1, <4>2
      <4> QED
        BY <4>1, <4>3, <4>4, <4>5, <4>6
    <3>2. CASE link[p] # 0
      <4>1. link[p] \in Nat /\ link[p] <= Len(data)
        BY <2>1 DEF Paths
      <4>2. \A k \in TransferId : saved[k] # link[p]
        <5>1. \A k \in TransferId : saved[k] # 0 => link[p] # saved[k]
          BY <2>1 DEF Apart
        <5> HIDE DEF p
        <5> QED
          BY <3>2, <5>1
      <4>3. \A k \in TransferId \ {p} : link[k] # link[p]
        <5>1. \A k \in TransferId : link[p] # 0 /\ link[p] = link[k] => p = k
          BY <2>1 DEF Apart
        <5> HIDE DEF p
        <5> QED
          BY <3>2, <5>1
      <4> HIDE DEF p
      <4> QED
        BY <2>1, <3>2, <4>1, <4>2, <4>3
    <3> QED
      BY <3>1, <3>2
  <2>3. /\ files \in Seq(Seq(Block)) /\ files[n] \in Seq(Block)
        /\ \A k \in 1 .. Len(found) : k # n => files[k] = found[k]
        /\ e.received = 0 => files[n] = <<>>
        /\ e.received # 0 => files[n] = found[n]
    <3> HIDE DEF found, n
    <3>1. CASE e.received = 0
      <4>1. <<>> \in Seq(Block)
        OBVIOUS
      <4>2. files = [found EXCEPT ![n] = <<>>]
        BY <3>1
      <4> HIDE DEF files
      <4> QED
        BY <2>2, <3>1, <4>1, <4>2, ExceptSeq
    <3>2. CASE e.received # 0
      BY <2>2, <3>2
    <3> QED
      BY <3>1, <3>2
  <2>4. \A k \in TransferId : saved[k] # 0 => files[saved[k]] = data[saved[k]]
    <3> SUFFICES ASSUME NEW k \in TransferId, saved[k] # 0
                 PROVE  files[saved[k]] = data[saved[k]]
      OBVIOUS
    <3>1. CASE e.received = 0
      <4>1. files = [found EXCEPT ![n] = <<>>]
        BY <3>1
      <4>2. saved[k] # n /\ found[saved[k]] = data[saved[k]]
        BY <2>2
      <4> HIDE DEF found, n, files
      <4> QED
        BY <2>2, <4>1, <4>2
    <3>2. CASE e.received # 0
      <4>1. files = found
        BY <3>2
      <4> HIDE DEF found, n, files
      <4> QED
        BY <2>2, <4>1
    <3> QED
      BY <3>1, <3>2
  <2>5. Apart(l, saved) /\ l[p] = n
    <3> HIDE DEF n, p, found
    <3>1. l[p] = n /\ \A k \in TransferId \ {p} : l[k] = link[k]
      BY <2>1 DEF Paths
    <3> HIDE DEF l
    <3>2. \A j, k \in TransferId : l[j] # 0 /\ l[j] = l[k] => j = k
      <4>1. \A j, k \in TransferId \ {p} : link[j] # 0 /\ link[j] = link[k] => j = k
        BY DEF Apart
      <4> QED
        BY <2>2, <3>1, <4>1
    <3>3. \A j, k \in TransferId : saved[j] # 0 => l[k] # saved[j]
      <4>1. \A j, k \in TransferId : saved[j] # 0 => link[k] # saved[j]
        BY DEF Apart
      <4> QED
        BY <2>2, <3>1, <4>1
    <3> QED
      BY <3>1, <3>2, <3>3 DEF Apart
  <2>6. /\ next.temp = p /\ next.hash = h /\ next.state = "in_progress"
        /\ next.received = e.received /\ next.handle = IF short THEN 0 ELSE n
    <3> HIDE DEF p, n, h, short
    <3> QED
      BY <2>1 DEF Entry
  <2>7. PartOf(next, l) = n
    <3> HIDE DEF p, n, h, short, next, l
    <3> QED
      BY <2>1, <2>5, <2>6, Numbers DEF PartOf
  <2>8. CASE short
    <3>1. e.received # 0
      <4>1. Len(files[n]) \in Nat
        <5> HIDE DEF files, n
        <5> QED
          BY <2>3
      <4> QED
        BY <2>1, <2>8, <4>1
    <3>2. e.state = "accepted"
      BY <1>a, <3>1 DEF Fits, PartFits
    <3>3. e.hash = NoHash
      BY <3>2 DEF Fits, PartFits
    <3>4. next.handle = 0 /\ next.hash = NoHash
      BY <2>6, <2>8, <3>3
    <3> HIDE DEF p, n, h, short, next, l, files
    <3> QED
      BY <2>0, <2>4, <2>5, <3>4
  <2>9. CASE ~short
    <3>1. Len(files[n]) = e.received
      <4>1. CASE e.received = 0
        <5>1. Len(<<>>) = 0
          OBVIOUS
        <5> QED
          BY <2>3, <4>1, <5>1
      <4>2. CASE e.received # 0
        <5>1. e.state = "accepted"
          BY <1>a, <4>2 DEF Fits, PartFits
        <5>2. e.temp # 0 /\ (PartOf(e, link) = 0 \/ Len(data[PartOf(e, link)]) = e.received)
          BY <4>2, <5>1 DEF Fits, PartFits
        <5>3. PartOf(e, link) = link[p]
          BY <5>2 DEF PartOf
        <5>4. CASE link[p] = 0
          <6>1. files[n] = <<>> /\ Len(<<>>) = 0
            BY <2>2, <2>3, <4>2, <5>4
          <6>2. Len(files[n]) < e.received
            <7> HIDE DEF files, n
            <7> QED
              BY <2>1, <4>2, <6>1
          <6> QED
            BY <2>9, <6>2
        <5>5. CASE link[p] # 0
          <6>1. files[n] = data[link[p]]
            BY <2>3, <4>2, <5>5
          <6> HIDE DEF files, n, p
          <6> QED
            BY <5>2, <5>3, <5>5, <6>1
        <5> QED
          BY <5>4, <5>5
      <4> QED
        BY <4>1, <4>2
    <3>2. h = files[n]
      <4>1. h = SubSeq(files[n], 1, e.received)
        BY <2>9
      <4> HIDE DEF h, files, n
      <4> QED
        BY <2>3, <3>1, <4>1, SubSeqFull
    <3>3. next.handle = n /\ next.hash = files[n]
      BY <2>6, <2>9, <3>2
    <3> HIDE DEF p, n, h, short, next, l, files, found
    <3>4. OpenFits(next, l, files, saved)
      BY <2>1, <2>2, <2>6, <2>7, <3>1, <3>3, Numbers DEF OpenFits
    <3>5. PartFits(next, l, files)
      BY <2>2, <2>6, <2>7, <3>3 DEF PartFits
    <3> QED
      BY <2>0, <2>4, <2>5, <3>4, <3>5 DEF Fits
  <2> QED
    BY <2>8, <2>9
<1> QED
  BY <1>0, <1>a

-----------------------------------------------------------------------------
(* The steps keep what the .part files hold.                               *)

(* A step of a task leaves the disk, and reads on only before it is saved.  *)
LEMMA PartialsTask ==
    ASSUME Typing, Typing', Progress, Partials, NEW i \in TransferId, NEW F, TaskMoves(i, F)
    PROVE  Partials'
<1>1. PICK n \in Nat : \A l \in 1 .. Len(Received') :
          \/ l + n \in 1 .. Len(Received) /\ Received'[l] = Received[l + n]
          \/ l + n = Len(Received) + 1 /\ Received'[l] \in F
  BY ChannelMoved DEF TaskMoves
<1>2. /\ \A f \in F : f.id = i
      /\ \A j \in TransferId \ {i} : job'[j] = job[j]
      /\ UNCHANGED <<inc, link, data, saved>>
      /\ Begins(i) \/ Advances(job[i], job'[i], F)
  BY DEF TaskMoves, disk
<1>3. Readings(i) /\ FirstFrame(i)
  BY DEF Progress
<1>4. Listed(i) => Live(i)
  BY <1>2, <1>3 DEF Begins, FirstFrame, Advances, Live, Running
<1>5. ASSUME NEW k \in TransferId, Live(k)', Listed(k)' PROVE Live(k) /\ Listed(k)
  <2>1. Listed(k)
    BY <1>2, <1>5 DEF Listed
  <2>2. CASE k # i
    <3>1. job'[k] = job[k]
      BY <1>2, <2>2
    <3>2. \A l \in 1 .. Len(Received') : Received'[l].id = k =>
              l + n \in 1 .. Len(Received) /\ Received[l + n].id = k
      BY <1>1, <1>2, <2>2
    <3> QED
      BY <1>5, <2>1, <3>1, <3>2 DEF Live, Running
  <2> QED
    BY <1>4, <2>1, <2>2
<1>6. ASSUME NEW k \in TransferId, saved[k] # 0 PROVE job'[k].read = job[k].read
  <2>1. CASE k = i
    <3>1. job[i].pc \in Past
      BY <1>3, <1>6, <2>1 DEF Readings
    <3>2. ~Begins(i)
      BY <3>1 DEF Begins, Past
    <3> QED
      BY <1>2, <2>1, <3>1, <3>2 DEF Advances, Past
  <2> QED
    BY <1>2, <2>1
<1>7. SavedIsRead'
  BY <1>2, <1>6 DEF Partials, SavedIsRead
<1>8. Apart(link', saved') /\ \A k \in TransferId : Live(k)' /\ Listed(k)' =>
          Fits(inc'[k], link', data', saved')
  BY <1>2, <1>5 DEF Partials
<1> QED
  BY <1>7, <1>8 DEF Partials

(* A quiet step that changes no file but may clear paths.                   *)
LEMMA PartialsClearing ==
    ASSUME Typing, Typing', QuietMoves, Partials, Cleared(link', link), UNCHANGED <<data, saved>>,
           \A k \in TransferId :
               \/ inc'[k] = inc[k] \/ inc'[k].state = "none"
               \/ Live(k) => Fits(inc'[k], link', data, saved)
    PROVE  Partials'
<1>1. Apart(link', saved')
  <2>1. Apart(link, saved)
    BY DEF Partials
  <2> QED
    BY <2>1 DEF Apart, Cleared
<1>2. ASSUME NEW k \in TransferId, Live(k)', Listed(k)'
      PROVE  Fits(inc'[k], link', data', saved')
  <2>1. Live(k)
    BY <1>2, LiveQuiet
  <2>2. CASE inc'[k] = inc[k]
    <3>1. Fits(inc[k], link, data, saved) /\ inc[k] \in Entry
      BY <1>2, <2>1, <2>2 DEF Partials, Listed, Typing, Typed
    <3>2. Fits(inc[k], link', data, saved)
      BY <3>1, ClearedFits
    <3> QED
      BY <2>2, <3>2
  <2>3. inc'[k].state # "none"
    BY <1>2 DEF Listed
  <2> QED
    BY <2>1, <2>2, <2>3
<1>3. SavedIsRead'
  BY LiveQuiet DEF Partials, SavedIsRead
<1> QED
  BY <1>1, <1>2, <1>3 DEF Partials

(* An entry that ends while paths are cleared.                              *)
LEMMA EndsClearing ==
    ASSUME Typing, Partials, NEW i \in TransferId, Listed(i), Cleared(link', link), NEW f,
           EndsAs(inc[i], f), f.state = "canceled" => PartOf(f, link') = 0
    PROVE  Live(i) => Fits(f, link', data, saved)
<1> SUFFICES ASSUME Live(i) PROVE Fits(f, link', data, saved)
  OBVIOUS
<1>1. Fits(inc[i], link, data, saved) /\ inc[i] \in Entry
  BY DEF Partials, Typing, Typed
<1>2. Fits(inc[i], link', data, saved)
  BY <1>1, ClearedFits
<1> QED
  BY <1>1, <1>2, EndedFits

(* How the handlers end an entry.                                           *)
LEMMA EndedEntries ==
    ASSUME NEW e \in Entry
    PROVE  /\ \A s \in {"failed", "canceled"} :
                 /\ EndsAs(e, [e EXCEPT !.state = s, !.handle = 0])
                 /\ [e EXCEPT !.state = s, !.handle = 0].state = s
                 /\ [e EXCEPT !.state = s, !.handle = 0].temp = e.temp
           /\ EndsAs(e, FailedEntry(e)) /\ FailedEntry(e).state = "failed"
           /\ LET u == [e EXCEPT !.state = "failed", !.handle = 0, !.hash = NoHash]
              IN  EndsAs(e, u) /\ u.state = "failed"
           /\ LET m == [FailedEntry(e) EXCEPT !.hash = NoHash]
              IN  EndsAs(e, m) /\ m.state = "failed"
           /\ LET d == [e EXCEPT !.state = "done", !.temp = 0, !.handle = 0, !.hash = NoHash]
              IN  EndsAs(e, d) /\ d.state = "done" /\ d.hash = NoHash
  BY DEF Entry, FailedEntry, EndsAs

(* The commands of the receiver's user.                                     *)
LEMMA PartialsCommand ==
    ASSUME Typing, Typing', Partials, NEW i \in TransferId,
           AcceptTransfer(i) \/ RejectTransfer(i) \/ CancelIncoming(i)
    PROVE  Partials'
<1>0. Typed /\ inc[i] \in Entry /\ link \in [TransferId -> Nat] /\ QuietMoves
  BY CommandQuiet DEF Typing, Typed
<1>1. CASE CancelIncoming(i)
  <2> DEFINE f == [inc[i] EXCEPT !.state = "canceled", !.handle = 0]
  <2>1. inc' = [inc EXCEPT ![i] = f] /\ Discard(inc[i]) /\ Listed(i)
    BY <1>1 DEF CancelIncoming
  <2>2. /\ Cleared(link', link) /\ UNCHANGED <<data, saved>> /\ PartOf(inc[i], link') = 0
    BY <1>0, <2>1, ClearedPaths
  <2>3. EndsAs(inc[i], f) /\ f.temp = inc[i].temp
    BY <1>0, EndedEntries
  <2> HIDE DEF f
  <2>4. PartOf(f, link') = 0
    BY <2>2, <2>3 DEF PartOf
  <2>5. Live(i) => Fits(f, link', data, saved)
    BY <2>1, <2>2, <2>3, <2>4, EndsClearing
  <2>6. inc'[i] = f /\ \A k \in TransferId \ {i} : inc'[k] = inc[k]
    BY <1>0, <2>1, EntryGoesOn
  <2> QED
    BY <1>0, <2>2, <2>5, <2>6, PartialsClearing
<1>2. CASE AcceptTransfer(i) \/ RejectTransfer(i)
  <2>1. PICK s \in {"accepted", "rejected"} : inc' = [inc EXCEPT ![i] = [inc[i] EXCEPT !.state = s]]
    BY <1>2 DEF AcceptTransfer, RejectTransfer
  <2>2. inc[i].state = "offered" /\ UNCHANGED <<link, data, saved>>
    BY <1>2 DEF AcceptTransfer, RejectTransfer, disk
  <2> DEFINE f == [inc[i] EXCEPT !.state = s]
  <2>3. /\ f.state = s /\ f.handle = inc[i].handle /\ f.hash = inc[i].hash
        /\ f.temp = inc[i].temp /\ f.received = inc[i].received
    BY <1>0 DEF Entry
  <2>4. inc'[i] = f /\ \A k \in TransferId \ {i} : inc'[k] = inc[k]
    BY <1>0, <2>1, EntryGoesOn
  <2> HIDE DEF f
  <2>5. Cleared(link', link)
    BY <2>2 DEF Cleared
  <2>6. ASSUME Live(i) PROVE Fits(f, link', data, saved)
    <3>1. Fits(inc[i], link, data, saved)
      BY <2>2, <2>6 DEF Partials, Listed
    <3> QED
      BY <2>2, <2>3, <3>1 DEF Fits, OpenFits, PartFits, PartOf
  <2> QED
    BY <1>0, <2>2, <2>4, <2>5, <2>6, PartialsClearing
<1> QED
  BY <1>1, <1>2

(* Disconnections, crashes and clean-ups.                                   *)
LEMMA PartialsSession ==
    ASSUME Typing, Typing', Partials,
           \/ EditSource \/ CleanUpIncoming \/ CleanUpOutgoing
           \/ CrashSender \/ CrashReceiver \/ \E e \in End : Dial(e) \/ Disconnect(e)
    PROVE  Partials'
<1>0. QuietMoves /\ \A k \in TransferId : inc[k] \in Entry
  BY SessionQuiet DEF Typing, Typed
<1>1. UNCHANGED <<link, data, saved>>
  BY DEF EditSource, CleanUpIncoming, CleanUpOutgoing, CrashSender, CrashReceiver, Dial, Connect,
         NoticeClosed, Disconnect, Close, disk
<1>2. Cleared(link', link)
  BY <1>1 DEF Cleared
<1>3. \A k \in TransferId :
          \/ inc'[k] = inc[k] \/ inc'[k].state = "none"
          \/ Live(k) => Fits(inc'[k], link', data, saved)
  <2>1. CASE CleanUpIncoming
    <3> SUFFICES ASSUME NEW k \in TransferId, inc'[k] # inc[k]
                 PROVE  Live(k) => Fits(inc'[k], link', data, saved)
      OBVIOUS
    <3> DEFINE f == [inc[k] EXCEPT !.state = "failed", !.handle = 0]
    <3>1. inc'[k] = f /\ Listed(k)
      BY <2>1 DEF CleanUpIncoming, Listed
    <3>2. EndsAs(inc[k], f) /\ f.state = "failed"
      BY <1>0, EndedEntries
    <3> HIDE DEF f
    <3> QED
      BY <1>2, <3>1, <3>2, EndsClearing
  <2>2. CASE CrashReceiver
    BY <2>2 DEF CrashReceiver, NoEntry
  <2>3. CASE EditSource \/ CleanUpOutgoing \/ CrashSender \/ \E e \in End : Dial(e) \/ Disconnect(e)
    <3>1. inc' = inc
      BY <2>3 DEF EditSource, CleanUpOutgoing, CrashSender, Dial, Connect, NoticeClosed,
                  Disconnect, Close
    <3> QED
      BY <3>1
  <2> QED
    BY <2>1, <2>2, <2>3
<1> QED
  BY <1>0, <1>1, <1>2, <1>3, PartialsClearing

(* Frames that open no .part and save no file.                              *)
LEMMA PartialsFrame ==
    ASSUME Typing, Typing', Partials,
           \/ HandleOffer \/ HandleRestart \/ HandlePeerCancel
           \/ HandleStrayChunk \/ HandleStrayDone
    PROVE  Partials'
<1> DEFINE i == Frame("receiver").id
<1>0. /\ Typed /\ \A k \in TransferId : inc[k] \in Entry
      /\ link \in [TransferId -> Nat] /\ QuietMoves
  BY ReceiveQuiet DEF Typing, Typed, Receive
<1>1. i \in TransferId
  BY Handles DEF HandleOffer, HandleRestart, HandlePeerCancel, HandleStrayChunk, HandleStrayDone
<1>2. CASE HandleOffer
  <2> DEFINE t == Frame("receiver").token
             p == find_partial(t)
             x == IF p = 0 THEN <<>> ELSE data[link[p]]
             f == [NoEntry EXCEPT !.state = "offered", !.token = t, !.temp = p, !.prefix = x,
                                  !.received = Len(x)]
  <2>1. inc' = [inc EXCEPT ![i] = f] /\ UNCHANGED <<link, data, saved>>
    BY <1>2 DEF HandleOffer, disk
  <2>2. inc'[i] = f /\ \A k \in TransferId \ {i} : inc'[k] = inc[k]
    BY <1>0, <1>1, <2>1, EntryGoesOn
  <2>3. Cleared(link', link)
    BY <2>1 DEF Cleared
  <2>4. /\ f.state = "offered" /\ f.temp = p /\ f.received = Len(x) /\ f.hash = NoHash
        /\ f.handle = 0
    BY DEF NoEntry
  <2> HIDE DEF f, i, p
  <2>5. OpenFits(f, link', data, saved)
    BY <2>4 DEF OpenFits
  <2>6. PartFits(f, link', data)
    <3>1. Len(<<>>) = 0
      OBVIOUS
    <3>2. PartOf(f, link') = IF p = 0 THEN 0 ELSE link[p]
      BY <2>1, <2>4 DEF PartOf
    <3> QED
      BY <2>4, <3>1, <3>2 DEF PartFits
  <2> QED
    BY <1>0, <2>1, <2>2, <2>3, <2>5, <2>6, PartialsClearing DEF Fits
<1>3. CASE UNCHANGED <<inc, disk>>
  <2>1. UNCHANGED <<inc, link, data, saved>>
    BY <1>3 DEF disk
  <2>2. Cleared(link', link)
    BY <2>1 DEF Cleared
  <2> QED
    BY <1>0, <2>1, <2>2, PartialsClearing
<1>4. CASE HandleRestart /\ Listed(i)
  <2> DEFINE f == [inc[i] EXCEPT !.state = "in_progress", !.received = 0, !.prefix = <<>>,
                                 !.hash = <<>>, !.temp = 0, !.handle = 0]
  <2>1. inc' = [inc EXCEPT ![i] = f] /\ Discard(inc[i])
    BY <1>4 DEF HandleRestart
  <2>2. Cleared(link', link) /\ UNCHANGED <<data, saved>>
    BY <1>0, <1>1, <2>1, ClearedPaths
  <2>3. inc'[i] = f /\ \A k \in TransferId \ {i} : inc'[k] = inc[k]
    BY <1>0, <1>1, <2>1, EntryGoesOn
  <2>4. f.state = "in_progress" /\ f.temp = 0 /\ f.received = 0 /\ f.handle = 0
    BY <1>0, <1>1 DEF Entry
  <2> HIDE DEF f, i
  <2>5. Fits(f, link', data, saved)
    BY <2>4 DEF Fits, OpenFits, PartFits, PartOf
  <2> QED
    BY <1>0, <2>2, <2>3, <2>5, PartialsClearing
<1>5. CASE HandlePeerCancel /\ ~UNCHANGED <<inc, disk>>
  <2> DEFINE f == [inc[i] EXCEPT !.state = "canceled", !.handle = 0]
  <2>1. inc' = [inc EXCEPT ![i] = f] /\ Discard(inc[i]) /\ Listed(i)
    BY <1>5 DEF HandlePeerCancel
  <2>2. /\ Cleared(link', link) /\ UNCHANGED <<data, saved>> /\ PartOf(inc[i], link') = 0
    BY <1>0, <1>1, <2>1, ClearedPaths
  <2>3. EndsAs(inc[i], f) /\ f.temp = inc[i].temp
    BY <1>0, <1>1, EndedEntries
  <2>4. inc'[i] = f /\ \A k \in TransferId \ {i} : inc'[k] = inc[k]
    BY <1>0, <1>1, <2>1, EntryGoesOn
  <2> HIDE DEF f, i
  <2>5. PartOf(f, link') = 0
    BY <2>2, <2>3 DEF PartOf
  <2>6. Live(i) => Fits(f, link', data, saved)
    BY <1>1, <2>1, <2>2, <2>3, <2>5, EndsClearing
  <2> QED
    BY <1>0, <2>2, <2>4, <2>6, PartialsClearing
<1> QED
  BY <1>2, <1>3, <1>4, <1>5 DEF HandleRestart, HandleStrayChunk, HandleStrayDone

(* A frame for i that may write to files: all that can be reached is i's.   *)
LEMMA PartialsHead ==
    ASSUME Typing, Typing', Turns, QuietMoves, Partials, NEW i \in TransferId, HeadFor(i),
           NEW e, inc' = [inc EXCEPT ![i] = e],
           e.state = "none" \/ Fits(e, link', data', saved'), Apart(link', saved'),
           \A k \in TransferId : saved'[k] # 0 => data'[saved'[k]] = job[k].read
    PROVE  Partials'
<1>1. inc'[i] = e /\ \A k \in TransferId \ {i} : inc'[k] = inc[k]
  BY EntryGoesOn DEF Typing
<1>2. ASSUME NEW k \in TransferId, Live(k)', Listed(k)'
      PROVE  Fits(inc'[k], link', data', saved')
  <2>1. Live(k)
    BY <1>2, LiveQuiet
  <2>2. CASE k = i
    BY <1>1, <1>2, <2>2 DEF Listed
  <2>3. CASE k # i
    <3>1. Listed(k)
      BY <1>1, <1>2, <2>3 DEF Listed
    <3> QED
      BY <2>1, <2>3, <3>1, HeadAlone
  <2> QED
    BY <2>2, <2>3
<1>3. SavedIsRead'
  BY LiveQuiet DEF SavedIsRead
<1> QED
  BY <1>2, <1>3 DEF Partials

(* A block.                                                                 *)
LEMMA PartialsChunk ==
    ASSUME Typing, Typing', Progress, Partials, NEW i \in TransferId,
           HandleChunk(i) \/ HandleBadChunk(i) \/ HandleLateChunk(i)
    PROVE  Partials'
<1> DEFINE f == Frame("receiver")
           o == Opened(i)
           e == o.entry
<1>0. /\ Typed /\ inc[i] \in Entry /\ QuietMoves /\ Turns /\ link \in [TransferId -> Nat]
      /\ Apart(link, saved) /\ SavedIsRead
  BY ReceiveQuiet DEF Typing, Typed, Receive, Dispatch, Progress, Partials
<1>1. /\ HeadFor(i) /\ Listed(i) /\ f.block \in Block /\ UNCHANGED saved
  <2>1. Incoming("receiver", "chunk") /\ f.id = i /\ Listed(i) /\ UNCHANGED saved
    BY DEF HandleChunk, HandleBadChunk, HandleLateChunk, ChunkFor, Listed, disk
  <2>2. HeadFor(i) /\ f \in AnyFrame /\ f.kind = "chunk"
    BY <2>1, Handles
  <2>3. f.block \in Block
    BY <2>2, FrameFields, Numbers
  <2> QED
    BY <2>1, <2>2, <2>3
<1>2. Live(i)
  BY <1>1, HeadIsFirst DEF Live
<1>3. Fits(inc[i], link, data, saved)
  BY <1>1, <1>2 DEF Partials
<1>4. /\ Apart(o.link, saved)
      /\ \A k \in TransferId : saved[k] # 0 => o.data[saved[k]] = data[saved[k]]
      /\ Fits(e, o.link, o.data, saved) \/ (e.handle = 0 /\ e.hash = NoHash)
  BY <1>0, <1>1, <1>3, OpenedFits
<1>5. /\ e \in Entry /\ o.data \in Seq(Seq(Block)) /\ EntryFits(e, Len(o.data))
      /\ o.link \in [TransferId -> Nat]
  BY OpenedTypes
<1>6. CASE HandleLateChunk(i)
  <2>1. inc' = [inc EXCEPT ![i] = NoEntry] /\ UNCHANGED <<link, data, saved>>
    BY <1>6 DEF HandleLateChunk, disk
  <2>2. NoEntry.state = "none"
    BY DEF NoEntry
  <2>3. \A k \in TransferId : saved'[k] # 0 => data'[saved'[k]] = job[k].read
    BY <1>0, <2>1 DEF SavedIsRead
  <2>4. Apart(link', saved')
    BY <1>0, <2>1
  <2> QED
    BY <1>0, <1>1, <2>1, <2>2, <2>3, <2>4, PartialsHead
<1>7. CASE HandleBadChunk(i)
  <2> DEFINE u == FailedEntry(e)
  <2>1. inc' = [inc EXCEPT ![i] = u] /\ data' = o.data /\ link' = Unlink(o.link, e)
    BY <1>7 DEF HandleBadChunk
  <2> HIDE DEF o, e
  <2>2. Cleared(link', o.link)
    BY <1>0, <1>5, <2>1, ClearedPaths
  <2>3. EndsAs(e, u) /\ u.state = "failed"
    BY <1>5, EndedEntries
  <2> HIDE DEF u
  <2>4. u.hash = NoHash \/ Fits(e, link', data', saved)
    BY <1>4, <1>5, <2>1, <2>2, <2>3, ClearedFits DEF EndsAs
  <2>5. Fits(u, link', data', saved')
    BY <1>5, <2>3, <2>4, EndedFits
  <2>6. Apart(link', saved')
    BY <1>1, <1>4, <1>5, <2>2, ClearedFits
  <2>7. \A k \in TransferId : saved'[k] # 0 => data'[saved'[k]] = job[k].read
    BY <1>0, <1>1, <1>4, <2>1 DEF SavedIsRead
  <2> QED
    BY <1>0, <1>1, <2>1, <2>5, <2>6, <2>7, PartialsHead
<1>8. CASE HandleChunk(i)
  <2> DEFINE r == e.received + 1
             h == Append(e.hash, f.block)
             u == [e EXCEPT !.received = r, !.hash = h]
  <2>1. /\ inc' = [inc EXCEPT ![i] = u] /\ e.handle # 0 /\ link' = o.link
        /\ data' = [o.data EXCEPT ![e.handle] = Written(@, e.received, f.block)]
    BY <1>8 DEF HandleChunk
  <2> HIDE DEF o, e, f
  <2>2. /\ e.handle \in 1 .. Len(o.data) /\ o.data[e.handle] = e.hash /\ Len(e.hash) = e.received
        /\ e.temp # 0 /\ PartOf(e, o.link) \in {0, e.handle}
        /\ \A k \in TransferId : saved[k] # e.handle
        /\ e.state = "in_progress"
    <3>1. Fits(e, o.link, o.data, saved)
      BY <1>4, <2>1
    <3>2. e.handle \in 1 .. Len(o.data)
      BY <1>5, <2>1 DEF EntryFits, Entry
    <3> QED
      BY <2>1, <3>1, <3>2 DEF Fits, OpenFits
  <2>3. e.hash \in Seq(Block) /\ e.received \in Nat
    BY <1>5, <2>2
  <2>4. Written(o.data[e.handle], e.received, f.block) = h
    BY <1>1, <2>2, <2>3, WrittenAtEnd
  <2>5. data' = [o.data EXCEPT ![e.handle] = h]
    BY <2>1, <2>4
  <2>6. h \in Seq(Block) /\ Len(h) = r
    BY <1>1, <2>2, <2>3, AppendProperties
  <2>7. /\ data'[e.handle] = h
        /\ \A k \in 1 .. Len(o.data) : k # e.handle => data'[k] = o.data[k]
    BY <1>5, <2>2, <2>5, <2>6, ExceptSeq
  <2>8. /\ u.received = r /\ u.hash = h /\ u.handle = e.handle /\ u.temp = e.temp
        /\ u.state = "in_progress"
    <3> HIDE DEF r, h
    <3> QED
      BY <1>5, <2>2 DEF Entry
  <2> HIDE DEF u, r, h
  <2>9. Fits(u, link', data', saved')
    <3>1. PartOf(u, link') \in {0, u.handle}
      BY <2>1, <2>2, <2>8 DEF PartOf
    <3>2. OpenFits(u, link', data', saved')
      BY <1>1, <2>2, <2>6, <2>7, <2>8, <3>1 DEF OpenFits
    <3>3. PartFits(u, link', data')
      BY <2>1, <2>7, <2>8, <3>1 DEF PartFits
    <3> QED
      BY <3>2, <3>3 DEF Fits
  <2>10. ASSUME NEW k \in TransferId, saved'[k] # 0 PROVE data'[saved'[k]] = job[k].read
    <3>1. saved[k] # 0 /\ saved[k] # e.handle
      BY <1>1, <2>2, <2>10
    <3>2. data'[saved[k]] = o.data[saved[k]]
      <4> HIDE DEF Written
      <4>1. data' = [o.data EXCEPT ![e.handle] = h]
        BY <2>5
      <4>2. saved[k] \in 1 .. Len(o.data)
        <5>1. saved[k] \in Nat /\ saved[k] <= Len(data) /\ Len(data) \in Nat
          BY DiskTypes, LenProperties DEF Kept, Contents
        <5>2. Len(data) <= Len(o.data) /\ Len(o.data) \in Nat
          BY <1>5, OpenedTypes DEF o
        <5> QED
          BY <3>1, <5>1, <5>2
      <4> QED
        BY <2>7, <3>1, <4>2
    <3> QED
      BY <1>0, <1>1, <1>4, <3>1, <3>2 DEF SavedIsRead
  <2>11. Apart(link', saved')
    BY <1>1, <1>4, <2>1
  <2> QED
    BY <1>0, <1>1, <2>1, <2>9, <2>10, <2>11, PartialsHead
<1> QED
  BY <1>6, <1>7, <1>8

(* A file_done: what is saved was the .part, and holds what its hash says.  *)
LEMMA PartialsDone ==
    ASSUME Typing, Typing', Progress, Partials, NEW i \in TransferId,
           HandleDone(i) \/ HandleDoneUnsaved(i) \/ HandleDoneMismatch(i)
    PROVE  Partials'
<1> DEFINE f == Frame("receiver")
           e == inc[i]
<1>0. /\ Typed /\ e \in Entry /\ QuietMoves /\ Turns /\ link \in [TransferId -> Nat]
      /\ Apart(link, saved) /\ SavedIsRead
  BY ReceiveQuiet DEF Typing, Typed, Receive, Dispatch, Progress, Partials
<1>1. HeadFor(i) /\ Listed(i) /\ f = Received[1] /\ f.kind = "file_done" /\ f.hash \in Seq(Block)
  <2>1. Incoming("receiver", "file_done") /\ f.id = i /\ Listed(i)
    BY DEF HandleDone, HandleDoneUnsaved, HandleDoneMismatch, DoneFor
  <2>2. HeadFor(i) /\ f \in AnyFrame /\ f.kind = "file_done"
    BY <2>1, Handles
  <2>3. f = Received[1]
    BY <2>2, HeadIsFirst DEF Frame
  <2> QED
    BY <2>1, <2>2, <2>3, FrameFields
<1>2. Live(i) /\ f.hash = job[i].read
  <2>1. 1 \in 1 .. Len(Received) /\ Received[1].id = i
    BY <1>1, HeadIsFirst
  <2>2. Readings(i)
    BY DEF Progress
  <2> QED
    BY <1>1, <2>1, <2>2 DEF Live, Readings
<1>3. Fits(e, link, data, saved)
  BY <1>1, <1>2 DEF Partials
<1>4. CASE HandleDoneUnsaved(i)
  <2> DEFINE u == [e EXCEPT !.state = "failed", !.handle = 0, !.hash = NoHash]
  <2>1. inc' = [inc EXCEPT ![i] = u] /\ UNCHANGED <<link, data, saved>>
    BY <1>4 DEF HandleDoneUnsaved, disk
  <2>2. EndsAs(e, u) /\ u.state = "failed"
    BY <1>0, EndedEntries
  <2>3. Cleared(link', link)
    BY <2>1 DEF Cleared
  <2> HIDE DEF u
  <2>4. inc'[i] = u /\ \A k \in TransferId \ {i} : inc'[k] = inc[k]
    BY <1>0, <2>1, EntryGoesOn
  <2>5. Fits(u, link', data', saved)
    BY <1>0, <1>3, <2>1, <2>2, EndedFits
  <2> QED
    BY <1>0, <2>1, <2>3, <2>4, <2>5, PartialsClearing
<1>5. CASE HandleDoneMismatch(i)
  <2> DEFINE u == [FailedEntry(e) EXCEPT !.hash = NoHash]
  <2>1. inc' = [inc EXCEPT ![i] = u] /\ link' = Unlink(link, e) /\ UNCHANGED <<data, saved>>
    BY <1>5 DEF HandleDoneMismatch
  <2>2. EndsAs(e, u) /\ u.state = "failed"
    BY <1>0, EndedEntries
  <2>3. Cleared(link', link)
    BY <1>0, <2>1, ClearedPaths
  <2> HIDE DEF u
  <2>4. inc'[i] = u /\ \A k \in TransferId \ {i} : inc'[k] = inc[k]
    BY <1>0, <2>1, EntryGoesOn
  <2>5. Fits(u, link', data', saved)
    BY <1>1, <1>2, <2>1, <2>2, <2>3, EndsClearing
  <2> QED
    BY <1>0, <2>1, <2>3, <2>4, <2>5, PartialsClearing
<1>6. CASE HandleDone(i)
  <2> DEFINE u == [e EXCEPT !.state = "done", !.temp = 0, !.handle = 0, !.hash = NoHash]
             t == e.temp
             n == link[t]
  <2>1. inc' = [inc EXCEPT ![i] = u] /\ Complete(e, f) /\ CanFinalize(e)
    BY <1>6 DEF HandleDone
  <2>2. e.hash # NoHash /\ e.hash = f.hash /\ Size # 0
    <3>1. e.hash = f.hash /\ f.hash # NoHash
      BY <1>1, <2>1, Numbers DEF Complete
    <3> QED
      BY <3>1 DEF Progress, Blank
  <2>3. t # 0 /\ n # 0 /\ t \in TransferId
    BY <1>0, <2>1, <2>2 DEF CanFinalize, Entry
  <2>4. /\ saved' = [saved EXCEPT ![i] = n] /\ data' = data /\ link' = [link EXCEPT ![t] = 0]
    BY <1>6, <2>3 DEF HandleDone
  <2>5. EndsAs(e, u) /\ u.state = "done" /\ u.hash = NoHash
    BY <1>0, EndedEntries
  <2>6. data[n] = job[i].read
    BY <1>2, <1>3, <2>2, <2>3 DEF Fits, PartFits, PartOf
  <2> HIDE DEF u, n, t
  <2>7. Fits(u, link', data', saved')
    BY <1>0, <2>5, EndedFits
  <2>8. /\ saved'[i] = n /\ \A k \in TransferId \ {i} : saved'[k] = saved[k]
        /\ link'[t] = 0 /\ \A k \in TransferId \ {t} : link'[k] = link[k]
        /\ link[t] = n
    BY <1>0, <2>3, <2>4 DEF Typed, n
  <2>9. Apart(link', saved')
    <3>1. \A j, k \in TransferId : link'[j] # 0 /\ link'[j] = link'[k] => j = k
      BY <1>0, <2>3, <2>8 DEF Apart
    <3>2. ASSUME NEW j \in TransferId, NEW k \in TransferId, saved'[j] # 0
          PROVE  link'[k] # saved'[j]
      <4>1. CASE k = t
        BY <2>8, <3>2, <4>1
      <4>2. CASE k # t
        <5>1. link'[k] = link[k] /\ link[k] # n
          BY <1>0, <2>3, <2>8, <4>2 DEF Apart
        <5> QED
          BY <1>0, <2>8, <3>2, <5>1 DEF Apart
      <4> QED
        BY <4>1, <4>2
    <3> QED
      BY <3>1, <3>2 DEF Apart
  <2>10. \A k \in TransferId : saved'[k] # 0 => data'[saved'[k]] = job[k].read
    BY <1>0, <2>4, <2>6, <2>8 DEF SavedIsRead
  <2> QED
    BY <1>0, <1>1, <2>1, <2>7, <2>9, <2>10, PartialsHead
<1> QED
  BY <1>4, <1>5, <1>6

(* At first there are no files.                                             *)
LEMMA PartialsInit == Init => Partials
<1> SUFFICES ASSUME Init PROVE Partials
  OBVIOUS
<1>1. \A i \in TransferId : link[i] = 0 /\ saved[i] = 0 /\ inc[i] = NoEntry
  BY DEF Init
<1>2. NoEntry.state = "none"
  BY DEF NoEntry
<1> QED
  BY <1>1, <1>2 DEF Partials, Apart, Listed, SavedIsRead

(* Every step keeps what the .part files hold.                              *)
LEMMA PartialsStep ==
    ASSUME Typing, Typing', Progress, Partials, [Next]_vars
    PROVE  Partials'
<1>1. CASE UNCHANGED vars \/ forward_outgoing
  <2>1. UNCHANGED <<job, inc, link, data, saved>>
    BY <1>1 DEF vars, disk, forward_outgoing
  <2>2. Moved(wire'["receiver"], wire["receiver"], {})
    BY <1>1, Channels, MovedCases, ForwardMoves DEF vars, net
  <2>3. QuietMoves
    BY <2>1, <2>2, NothingQuiet
  <2>4. Cleared(link', link)
    BY <2>1 DEF Cleared
  <2> QED
    BY <2>1, <2>3, <2>4, PartialsClearing
<1>2. ASSUME NEW i \in TransferId,
             \/ SendFile(i) \/ CancelOutgoing(i) \/ \E p \in BOOLEAN : SetPaused(i, p)
             \/ Task(i) \/ TimeOut(i)
      PROVE  Partials'
  <2>1. PICK F : TaskMoves(i, F)
    BY <1>2, TaskSteps
  <2> QED
    BY <2>1, PartialsTask
<1>3. CASE \E i \in TransferId : AcceptTransfer(i) \/ RejectTransfer(i) \/ CancelIncoming(i)
  BY <1>3, PartialsCommand
<1>4. CASE Receive
  BY <1>4, PartialsFrame, PartialsChunk, PartialsDone DEF Receive, Dispatch
<1>5. CASE \/ EditSource \/ CleanUpIncoming \/ CleanUpOutgoing
           \/ CrashSender \/ CrashReceiver \/ \E e \in End : Dial(e) \/ Disconnect(e)
  BY <1>5, PartialsSession
<1> QED
  BY <1>1, <1>2, <1>3, <1>4, <1>5 DEF Next, UserCommand, Failure

-----------------------------------------------------------------------------
(* The theorems.  A file is offered again only when its task has ended.    *)

(* The invariant.                                                           *)
InTurn == ~Overlap /\ Typing /\ Completion /\ Progress /\ Partials

(* Every step keeps it.                                                     *)
LEMMA InTurnStep == InTurn /\ [Next]_vars => InTurn'
<1> SUFFICES ASSUME InTurn, [Next]_vars PROVE InTurn'
  OBVIOUS
<1>1. Typing' /\ Completion'
  BY TypingStep, CompletionStep DEF InTurn
<1>2. Progress' /\ Partials'
  BY <1>1, ProgressStep, PartialsStep DEF InTurn
<1> QED
  BY <1>1, <1>2 DEF InTurn

(* The invariant holds when a file is not offered while a task for it runs. *)
LEMMA InTurnAlways == ~Overlap /\ Spec => []InTurn
<1>1. ~Overlap /\ Init => InTurn
  BY TypingInit, CompletionInit, ProgressInit, PartialsInit DEF InTurn
<1>2. InTurn /\ [Next]_vars => InTurn'
  BY InTurnStep
<1> QED
  BY <1>1, <1>2, PTL DEF Spec

(* A file shown as received is, block for block, what its sender read,      *)
(* whatever was resumed, restarted, edited, lost or closed in between.      *)
THEOREM SavedAsRead == ~Overlap /\ Spec => []SavedIsRead
<1>1. InTurn => SavedIsRead
  BY DEF InTurn, Partials
<1> QED
  BY <1>1, InTurnAlways, PTL

(* A step takes a cancelled transfer up again only for a file_restart.      *)
LEMMA CancelStep ==
    ASSUME InTurn, [Next]_vars, NEW i \in TransferId, inc[i].state = "canceled"
    PROVE  /\ saved'[i] = saved[i]
           /\ \/ inc'[i].state \in {"canceled", "failed", "none"}
              \/ wire["receiver"] # <<>> /\ Frame("receiver") = FileRestart(i)
<1> DEFINE Stays == saved'[i] = saved[i] /\ inc'[i].state \in {"canceled", "failed", "none"}
<1>0. /\ Typing /\ Typed /\ inc[i] \in Entry /\ Turns /\ Partials /\ FirstFrame(i) /\ Blank
      /\ Listed(i)
  BY DEF InTurn, Typing, Typed, Progress, Listed
<1>a. ASSUME inc'[i] = inc[i], saved'[i] = saved[i] PROVE Stays
  BY <1>a
<1>1. CASE UNCHANGED vars \/ forward_outgoing
  BY <1>1, <1>a DEF vars, disk, forward_outgoing
<1>2. ASSUME NEW k \in TransferId,
             \/ SendFile(k) \/ CancelOutgoing(k) \/ \E p \in BOOLEAN : SetPaused(k, p)
             \/ Task(k) \/ TimeOut(k)
      PROVE  Stays
  <2>1. PICK F : TaskMoves(k, F)
    BY <1>0, <1>2, TaskSteps
  <2> QED
    BY <1>a, <2>1 DEF TaskMoves, disk
<1>3. ASSUME NEW k \in TransferId, AcceptTransfer(k) \/ RejectTransfer(k) \/ CancelIncoming(k)
      PROVE  Stays
  <2>1. k # i
    BY <1>3 DEF AcceptTransfer, RejectTransfer, CancelIncoming
  <2>2. UNCHANGED saved /\ \E e : inc' = [inc EXCEPT ![k] = e]
    BY <1>3 DEF AcceptTransfer, RejectTransfer, CancelIncoming, Discard, disk
  <2> QED
    BY <1>0, <1>a, <2>1, <2>2
<1>4. CASE \/ EditSource \/ CleanUpIncoming \/ CleanUpOutgoing
           \/ CrashSender \/ CrashReceiver \/ \E e \in End : Dial(e) \/ Disconnect(e)
  <2>1. UNCHANGED saved /\ (inc'[i] = inc[i] \/ inc'[i] = NoEntry)
    BY <1>4 DEF EditSource, CleanUpIncoming, CleanUpOutgoing, CrashSender, CrashReceiver, Dial,
                Connect, NoticeClosed, Disconnect, Close, disk
  <2> QED
    BY <2>1 DEF NoEntry
<1>5. HeadFor(i) => Live(i)
  BY <1>0, HeadIsFirst DEF Live
<1>6. CASE \/ HandleOffer \/ HandleRestart \/ HandlePeerCancel
           \/ HandleStrayChunk \/ HandleStrayDone
  <2> DEFINE k == Frame("receiver").id
  <2>1. k \in TransferId /\ HeadFor(k) /\ Frame("receiver") \in AnyFrame
        /\ wire["receiver"] # <<>>
    BY <1>0, <1>6, Handles
    DEF HandleOffer, HandleRestart, HandlePeerCancel, HandleStrayChunk, HandleStrayDone, Incoming
  <2>2. UNCHANGED saved /\ (inc' = inc \/ \E e : inc' = [inc EXCEPT ![k] = e])
    BY <1>6 DEF HandleOffer, HandleRestart, HandlePeerCancel, HandleStrayChunk, HandleStrayDone,
                Discard, disk
  <2>3. CASE k # i
    <3>1. inc'[i] = inc[i]
      BY <1>0, <2>1, <2>2, <2>3, EntryGoesOn
    <3> QED
      BY <1>a, <2>2, <3>1
  <2>4. CASE k = i /\ HandleOffer
    <3>1. 1 \in 1 .. Len(Received) /\ Received[1].id = i /\ Received[1].kind = "file_offer"
      BY <1>0, <2>1, <2>4, HeadIsFirst DEF HandleOffer, Incoming
    <3> QED
      BY <1>0, <3>1 DEF FirstFrame
  <2>5. CASE k = i /\ HandleRestart
    <3>1. Frame("receiver").kind = "file_restart"
      BY <2>5 DEF HandleRestart, Incoming, Frame
    <3>2. Frame("receiver") = FileRestart(i)
      BY <2>1, <2>5, <3>1 DEF AnyFrame, FileRestart
    <3> QED
      BY <2>1, <2>2, <3>2
  <2>6. CASE k = i /\ HandlePeerCancel
    <3>1. \/ inc' = inc
          \/ inc' = [inc EXCEPT ![i] = [inc[i] EXCEPT !.state = "canceled", !.handle = 0]]
      BY <2>6 DEF HandlePeerCancel
    <3> DEFINE u == [inc[i] EXCEPT !.state = "canceled", !.handle = 0]
    <3>2. u.state = "canceled"
      BY <1>0, EndedEntries
    <3> HIDE DEF u
    <3>3. inc' = inc \/ inc'[i] = u
      BY <1>0, <3>1, EntryGoesOn DEF u
    <3> QED
      BY <1>a, <2>2, <3>2, <3>3
  <2>7. CASE HandleStrayChunk \/ HandleStrayDone
    BY <1>a, <2>2, <2>7 DEF HandleStrayChunk, HandleStrayDone
  <2> QED
    BY <1>6, <2>3, <2>4, <2>5, <2>6, <2>7
<1>7. ASSUME NEW k \in TransferId, Dispatch(k) PROVE Stays
  <2>1. HeadFor(k)
    BY <1>0, <1>7, Handles
    DEF Dispatch, HandleChunk, HandleBadChunk, HandleLateChunk, HandleDone, HandleDoneUnsaved,
        HandleDoneMismatch, ChunkFor, DoneFor
  <2>2. PICK e, n : /\ inc' = [inc EXCEPT ![k] = e]
                    /\ saved' = saved \/ saved' = [saved EXCEPT ![k] = n]
    BY <1>7
    DEF Dispatch, HandleChunk, HandleBadChunk, HandleLateChunk, HandleDone, HandleDoneUnsaved,
        HandleDoneMismatch, disk
  <2>3. CASE k # i
    BY <1>0, <1>a, <2>2, <2>3 DEF Typed
  <2>4. CASE k = i
    <3>0. Fits(inc[i], link, data, saved)
      BY <1>0, <1>5, <2>1, <2>4 DEF Partials
    <3>1. Opened(i).entry = inc[i]
      BY DEF Opened
    <3>2. inc[i].handle = 0 /\ PartOf(inc[i], link) = 0
      BY <3>0 DEF Fits, OpenFits, PartFits
    <3>3. ~HandleChunk(i)
      BY <3>1, <3>2 DEF HandleChunk
    <3>4. ~HandleDone(i)
      <4> SUFFICES ASSUME HandleDone(i) PROVE FALSE
        OBVIOUS
      <4>1. Complete(inc[i], Frame("receiver")) /\ CanFinalize(inc[i]) /\ DoneFor(i)
        BY DEF HandleDone
      <4>2. Size = 0
        BY <3>2, <4>1 DEF CanFinalize, PartOf
      <4>3. Frame("receiver").hash \in Seq(Block)
        BY <1>0, <4>1, Handles, FrameFields DEF DoneFor
      <4> QED
        BY <1>0, <4>1, <4>2, <4>3, Numbers DEF Complete, Blank
    <3>5. CASE HandleBadChunk(i) \/ HandleDoneUnsaved(i) \/ HandleDoneMismatch(i)
      <4>1. /\ UNCHANGED saved
            /\ \/ inc' = [inc EXCEPT ![i] = FailedEntry(inc[i])]
               \/ inc' = [inc EXCEPT ![i] =
                     [inc[i] EXCEPT !.state = "failed", !.handle = 0, !.hash = NoHash]]
               \/ inc' = [inc EXCEPT ![i] = [FailedEntry(inc[i]) EXCEPT !.hash = NoHash]]
        BY <3>1, <3>5 DEF HandleBadChunk, HandleDoneUnsaved, HandleDoneMismatch, disk
      <4>2. /\ FailedEntry(inc[i]).state = "failed"
            /\ [inc[i] EXCEPT !.state = "failed", !.handle = 0, !.hash = NoHash].state = "failed"
            /\ [FailedEntry(inc[i]) EXCEPT !.hash = NoHash].state = "failed"
        BY <1>0, EndedEntries
      <4>3. PICK u : inc' = [inc EXCEPT ![i] = u] /\ u.state = "failed"
        BY <4>1, <4>2
      <4>4. inc'[i] = u
        BY <1>0, <4>3, EntryGoesOn
      <4> QED
        BY <4>1, <4>3, <4>4
    <3>6. CASE HandleLateChunk(i)
      <4>1. UNCHANGED saved /\ inc' = [inc EXCEPT ![i] = NoEntry]
        BY <3>6 DEF HandleLateChunk, disk
      <4>2. NoEntry.state = "none"
        BY DEF NoEntry
      <4> QED
        BY <1>0, <4>1, <4>2
    <3> QED
      BY <1>7, <2>4, <3>3, <3>4, <3>5, <3>6 DEF Dispatch
  <2> QED
    BY <2>3, <2>4
<1> HIDE DEF Stays
<1> QED
  BY <1>1, <1>2, <1>3, <1>4, <1>6, <1>7 DEF Next, UserCommand, Failure, Receive, Stays

(* A transfer that the receiver's user has cancelled is not received after  *)
(* all, unless a file_restart under way takes it up again.                  *)
THEOREM CancelStays == ~Overlap /\ Spec => CancelIsFinal
<1>1. InTurn /\ [Next]_vars =>
          [\A i \in TransferId : inc[i].state = "canceled" =>
              /\ saved'[i] = saved[i]
              /\ \/ inc'[i].state \in {"canceled", "failed", "none"}
                 \/ wire["receiver"] # <<>> /\ Frame("receiver") = FileRestart(i)]_vars
  BY CancelStep
<1> QED
  BY <1>1, InTurnAlways, PTL DEF Spec, CancelIsFinal

-----------------------------------------------------------------------------
(* The contract.                                                           *)

(* What the contract says of a transfer, in terms of the code's state.      *)
ReadOut == [i \in TransferId |-> IF Len(job[i].read) = Size THEN job[i].read ELSE NoHash]

KeptAs == [i \in TransferId |-> IF saved[i] = 0 THEN NoHash ELSE data[saved[i]]]

ShownDone == {i \in TransferId : job[i].state = "done"}

(* The steps of the contract in these terms.                                *)
LEMMA ContractSteps ==
    /\ UNCHANGED <<ReadOut, KeptAs, ShownDone>> => UNCHANGED Contract!vars
    /\ \A i \in TransferId :
          /\ /\ ReadOut[i] = NoHash
             /\ \E c \in [1 .. Size -> Version] : ReadOut' = [ReadOut EXCEPT ![i] = c]
             /\ UNCHANGED <<KeptAs, ShownDone>>
             => Contract!Next
          /\ /\ KeptAs[i] = NoHash /\ ReadOut[i] # NoHash
             /\ KeptAs' = [KeptAs EXCEPT ![i] = ReadOut[i]]
             /\ UNCHANGED <<ReadOut, ShownDone>>
             => Contract!Next
          /\ /\ KeptAs[i] # NoHash
             /\ ShownDone' = ShownDone \cup {i}
             /\ UNCHANGED <<ReadOut, KeptAs>>
             => Contract!Next
  BY DEF Contract!vars, Contract!Next, Contract!Finish, Contract!Keep, Contract!Confirm, ReadOut,
         KeptAs, ShownDone

(* At first nothing of a file that is not empty is read.                    *)
LEMMA ContractInit == Size # 0 /\ Init => Contract!Init
<1> SUFFICES ASSUME Size # 0, Init PROVE Contract!Init
  OBVIOUS
<1>1. \A i \in TransferId : job[i] = NoJob /\ saved[i] = 0
  BY DEF Init
<1>2. NoJob.state = "none" /\ NoJob.read = <<>> /\ Len(<<>>) = 0
  BY DEF NoJob
<1> QED
  BY <1>1, <1>2 DEF Contract!Init

(* What is read, or saved as it was read, is not nothing.                   *)
LEMMA NotNothing ==
    ASSUME Typing, NEW i \in TransferId
    PROVE  /\ job[i].read \in Seq(Version) /\ job[i].read # NoHash
           /\ Len(job[i].read) = Size => job[i].read \in [1 .. Size -> Version]
           /\ saved[i] # 0 => data[saved[i]] # NoHash
<1>1. job[i].read \in Seq(Version)
  BY DEF Typing, Typed, Job
<1>2. Len(job[i].read) = Size => job[i].read \in [1 .. Size -> Version]
  <2> DEFINE q == job[i].read
  <2>1. q \in Seq(Version)
    BY <1>1
  <2> HIDE DEF q
  <2>2. q \in [1 .. Len(q) -> Version]
    BY <2>1
  <2>3. Len(q) = Size => q \in [1 .. Size -> Version]
    BY <2>2
  <2> QED
    BY <2>3 DEF q
<1>3. saved[i] # 0 => data[saved[i]] \in Seq(Block)
  BY DiskTypes DEF Kept, Contents
<1> QED
  BY <1>1, <1>2, <1>3, ReadIsBlocks, Numbers

(* A step of a task finishes the reading, confirms, or is none of the       *)
(* contract's.                                                              *)
LEMMA ContractTask ==
    ASSUME Typing, Typing', Completion', Progress, Size # 0, NEW i \in TransferId, NEW F,
           TaskMoves(i, F)
    PROVE  [Contract!Next]_(Contract!vars)
<1>0. /\ \A k \in TransferId \ {i} : job'[k] = job[k]
      /\ UNCHANGED <<data, saved, KeptAs>>
      /\ Begins(i) \/ Advances(job[i], job'[i], F)
  BY DEF TaskMoves, disk, KeptAs
<1>1. Readings(i)
  BY DEF Progress
<1>2. ShownDone' \in {ShownDone, ShownDone \cup {i}}
  <2>1. job[i].state # "done"
    BY <1>0, <1>1 DEF Readings, Begins, Advances
  <2> QED
    BY <1>0, <2>1 DEF ShownDone
<1>3. CASE job'[i].read = job[i].read
  <2>1. ReadOut' = ReadOut
    <3>1. \A k \in TransferId : job'[k].read = job[k].read
      BY <1>0, <1>3
    <3> QED
      BY <3>1 DEF ReadOut
  <2>2. CASE ShownDone' = ShownDone
    BY <1>0, <2>1, <2>2, ContractSteps
  <2>3. CASE ShownDone' = ShownDone \cup {i}
    <3>1. job'[i].state = "done"
      BY <2>3 DEF ShownDone
    <3>2. saved[i] # 0
      BY <1>0, <3>1 DEF Completion, Confirming
    <3>3. KeptAs[i] # NoHash
      BY <3>2, NotNothing DEF KeptAs
    <3> QED
      BY <1>0, <2>1, <2>3, <3>3, ContractSteps
  <2> QED
    BY <1>2, <2>2, <2>3
<1>4. CASE job'[i].read # job[i].read
  <2>1. /\ Advances(job[i], job'[i], F)
        /\ job[i].pc = "open" \/ (job[i].pc = "fill" /\ Len(job[i].read) < Size)
        /\ job'[i].pc \in {"turn", "fill"}
    <3>1. ~Begins(i)
      BY <1>1, <1>4 DEF Begins, Readings, Early
    <3> QED
      BY <1>0, <1>4, <3>1 DEF Advances
  <2>2. ShownDone' = ShownDone
    <3>1. job[i].state # "done" /\ job'[i].state # "done"
      BY <1>1, <2>1 DEF Advances, Readings
    <3> QED
      BY <1>0, <3>1 DEF ShownDone
  <2>3. Len(job[i].read) # Size
    <3>1. CASE job[i].pc = "open"
      <4>1. job[i].read = <<>> /\ Len(<<>>) = 0
        BY <1>1, <3>1 DEF Readings, Early
      <4> QED
        BY <4>1
    <3>2. CASE Len(job[i].read) < Size
      <4>1. Len(job[i].read) \in Nat
        BY NotNothing
      <4> QED
        BY <3>2, <4>1, Numbers
    <3> QED
      BY <2>1, <3>1, <3>2
  <2>4. ReadOut[i] = NoHash
    BY <2>3 DEF ReadOut
  <2>5. ReadOut' = [ReadOut EXCEPT ![i] = ReadOut'[i]]
    BY <1>0 DEF ReadOut
  <2>6. CASE Len(job'[i].read) = Size
    <3>1. ReadOut'[i] \in [1 .. Size -> Version]
      <4>1. job'[i].read \in Seq(Version)
        BY DEF Typing, Typed, Job
      <4>2. job'[i].read \in [1 .. Size -> Version]
        BY <2>6, <4>1
      <4> QED
        BY <2>6, <4>2 DEF ReadOut
    <3> QED
      BY <1>0, <2>2, <2>4, <2>5, <3>1, ContractSteps
  <2>7. CASE Len(job'[i].read) # Size
    <3>1. ReadOut'[i] = ReadOut[i]
      BY <2>4, <2>7 DEF ReadOut
    <3>2. ReadOut' = ReadOut
      BY <2>5, <3>1 DEF ReadOut
    <3> QED
      BY <1>0, <2>2, <3>2, ContractSteps
  <2> QED
    BY <2>6, <2>7
<1> QED
  BY <1>3, <1>4

(* A quiet step keeps a file, or is none of the contract's.                 *)
LEMMA ContractQuiet ==
    ASSUME Typing, Typing', Progress, SavedIsRead, SavedIsRead', QuietMoves
    PROVE  [Contract!Next]_(Contract!vars)
<1>1. \A k \in TransferId : job'[k].read = job[k].read
  BY LiveQuiet
<1>2. UNCHANGED <<ReadOut, ShownDone>>
  <2>1. UNCHANGED ReadOut
    BY <1>1 DEF ReadOut
  <2>2. ASSUME NEW k \in TransferId PROVE job'[k].state = "done" <=> job[k].state = "done"
    BY DEF QuietMoves, Halts, Progress, Readings
  <2> QED
    BY <2>1, <2>2 DEF ShownDone
<1>3. ASSUME NEW k \in TransferId, saved'[k] = saved[k] PROVE KeptAs'[k] = KeptAs[k]
  BY <1>1, <1>3 DEF KeptAs, SavedIsRead
<1>4. ASSUME NEW k \in TransferId, saved'[k] # saved[k]
      PROVE  HeadFor(k) /\ saved[k] = 0 /\ ReadOut[k] = job[k].read
  <2>1. At(k, "file_done")
    BY <1>4 DEF QuietMoves, EntryAdvances
  <2>2. 1 \in 1 .. Len(Received) /\ Received[1].id = k /\ Received[1].kind = "file_done"
    BY <2>1, HeadIsFirst DEF At
  <2> QED
    BY <2>1, <2>2 DEF At, Progress, Readings, ReadOut
<1>5. CASE \A k \in TransferId : saved'[k] = saved[k]
  <2>1. KeptAs' = KeptAs
    BY <1>3, <1>5 DEF KeptAs
  <2> QED
    BY <1>2, <2>1, ContractSteps
<1>6. ASSUME NEW i \in TransferId, saved'[i] # saved[i] PROVE Contract!Next
  <2>1. saved[i] = 0 /\ saved'[i] # 0 /\ HeadFor(i) /\ ReadOut[i] = job[i].read
    BY <1>4, <1>6
  <2>2. \A k \in TransferId \ {i} : KeptAs'[k] = KeptAs[k]
    BY <1>3, <1>4, <2>1 DEF HeadFor
  <2>3. KeptAs[i] = NoHash /\ KeptAs'[i] = ReadOut[i]
    BY <1>1, <2>1 DEF KeptAs, SavedIsRead
  <2>4. KeptAs' = [KeptAs EXCEPT ![i] = ReadOut[i]]
    BY <2>2, <2>3 DEF KeptAs
  <2>5. ReadOut[i] # NoHash
    BY <2>1, NotNothing
  <2> QED
    BY <1>2, <2>3, <2>4, <2>5, ContractSteps
<1> QED
  BY <1>5, <1>6

(* A transfer implements its contract: it is kept exactly as it was read to *)
(* the end, left alone from then on, and confirmed only after that.         *)
THEOREM HandsOver == ~Overlap /\ Size # 0 /\ Spec => KeepsContract
<1>1. ASSUME Size # 0, InTurn, [Next]_vars PROVE [Contract!Next]_(Contract!vars)
  <2>1. InTurn'
    BY <1>1, InTurnStep
  <2>2. \/ QuietMoves
        \/ \E i \in TransferId : \E F : TaskMoves(i, F)
    BY <1>1, EveryStep DEF InTurn
  <2> QED
    BY <1>1, <2>1, <2>2, ContractTask, ContractQuiet DEF InTurn, Partials
<1>2. Size # 0 /\ InTurn /\ [Next]_vars => [Contract!Next]_(Contract!vars) /\ (Size # 0)'
  BY <1>1
<1> QED
  BY <1>2, ContractInit, InTurnAlways, PTL DEF Spec, KeepsContract, Contract!Spec

=============================================================================
