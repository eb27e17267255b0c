---------------------------- MODULE SessionProofs ----------------------------
(***************************************************************************)
(* The safety invariants of Session, for any number of connections and     *)
(* jobs and any bounds.  The inductive invariant joins what the properties *)
(* say with what a push rests on (Pushing), which job is told (JobsAreTold)*)
(* and where the loop of a replaced connection is (LateLeaves).            *)
(***************************************************************************)
EXTENDS Session, TLAPS, SequenceTheorems

(* There are two devices: the peer of a device is the other one.            *)
LEMMA PeerType == \A d \in Device : Peer(d) \in Device /\ Peer(d) # d
  BY DeviceAssumption DEF Peer

(* An end is a connection and a device.                                     *)
LEMMA EndType == \A c \in Conn, d \in Device : <<c, d>> \in End
  BY DEF End

(* Connections and jobs are numbered from 1; the bounds are numbers.        *)
LEMMA Numbers ==
    /\ NoConn \notin Conn /\ NoJob \notin Job
    /\ Conn \subseteq Nat /\ Job \subseteq Nat
    /\ Capacity \in Nat /\ Replies \in Nat
  BY BoundAssumption DEF Conn, Job, NoConn, NoJob

(* What a push rests on: it was begun on a connection that was registered,  *)
(* and a handler that pushes has a reply left.                              *)
Pushing ==
    /\ \A x \in End : pc[x] = "push" => via[x] \in Conn /\ left[x] > 0
    /\ \A n \in Job : job[n] \in {"pushing", "sent"} => key[n] \in Conn

(* A job works on an end that was registered, and is told when it is over.  *)
JobsAreTold ==
    \A n \in Job :
        job[n] \in {"pushing", "sent"} =>
            /\ pc[<<key[n], From[n]>>] \notin {"none", "greeted"}
            /\ pc[<<key[n], From[n]>>] = "over" => n \in told

(* An end that has handled a frame after it was replaced will not wait for  *)
(* another one, and is not registered again.                                *)
LateLeaves ==
    \A c \in Conn, d \in Device :
        late[<<c, d>>] > 0 =>
            /\ late[<<c, d>>] = 1
            /\ sessions[d] # c
            /\ pc[<<c, d>>] \notin {"none", "greeted", "select"}

(* What taking the first frame leaves in a queue.                           *)
LEMMA Dequeued ==
    ASSUME NEW q \in Seq(Job \cup {NoJob}), q # <<>>, Len(q) <= Capacity
    PROVE  /\ Head(q) \in Job \cup {NoJob}
           /\ Tail(q) \in Seq(Job \cup {NoJob})
           /\ Len(Tail(q)) <= Capacity
  BY Numbers, HeadTailProperties

(* What a push leaves in the queues.                                        *)
LEMMA Enqueued ==
    ASSUME NEW c \in Conn, NEW d \in Device, NEW f \in Job \cup {NoJob},
           TypeOK, HasRoom(c, d), Enqueue(c, d, f)
    PROVE  /\ wire' \in [End -> Seq(Job \cup {NoJob})]
           /\ \A x \in End : Len(wire'[x]) <= Capacity
<1> DEFINE q == wire[<<c, d>>]
<1>1. <<c, d>> \in End /\ q \in Seq(Job \cup {NoJob})
  BY EndType DEF TypeOK
<1>2. /\ Append(q, f) \in Seq(Job \cup {NoJob})
      /\ Len(Append(q, f)) = Len(q) + 1
  BY <1>1, AppendProperties
<1>3. Len(q) + 1 <= Capacity
  BY <1>1, Numbers, LenProperties DEF HasRoom
<1>4. wire' = [wire EXCEPT ![<<c, d>>] = Append(q, f)]
  BY DEF Enqueue
<1> QED
  BY <1>1, <1>2, <1>3, <1>4 DEF TypeOK

(* Every step of every end, of every job and of the network keeps the types, *)
(* and no queue grows past its capacity.                                    *)
LEMMA TypeStep == TypeOK /\ Pushing /\ [Next]_vars => TypeOK'
<1> SUFFICES ASSUME TypeOK, Pushing, [Next]_vars PROVE TypeOK'
  OBVIOUS
<1>1. ASSUME NEW c \in Conn, NEW d \in Device, Dial(c, d) PROVE TypeOK'
  BY <1>1 DEF Dial, jobs, handling, TypeOK
<1>2. ASSUME NEW c \in Conn, NEW d \in Device, HandshakeStep(c, d) PROVE TypeOK'
  <2>1. CASE Greet(c, d)
    BY <2>1, EndType DEF TypeOK, Greet, Goto, Place, world, jobs, handling
  <2>2. CASE GiveUp(c, d)
    BY <2>2, EndType DEF TypeOK, GiveUp, Goto, Place, world, jobs, handling
  <2>3. CASE Register(c, d)
    <3>1. close' \in [End -> BOOLEAN]
      BY <2>3 DEF TypeOK, Register
    <3>2. pc' \in [End -> Place]
      BY <2>3, EndType DEF TypeOK, Register, Goto, Place
    <3>3. sessions' \in [Device -> Conn \cup {NoConn}]
      BY <2>3 DEF TypeOK, Register
    <3> QED
      BY <2>3, <3>1, <3>2, <3>3 DEF TypeOK, Register, world, jobs, handling
  <2> QED
    BY <1>2, <2>1, <2>2, <2>3 DEF HandshakeStep
<1>3. ASSUME NEW c \in Conn, NEW d \in Device, Check(c, d) PROVE TypeOK'
  BY <1>3, EndType DEF TypeOK, Check, Goto, Place, world, jobs, handling
<1>4. ASSUME NEW c \in Conn, NEW d \in Device, Receive(c, d) PROVE TypeOK'
  <2> DEFINE y  == <<c, Peer(d)>>
             in == wire[y]
  <2>1. y \in End /\ <<c, d>> \in End
    BY EndType, PeerType
  <2>2. /\ Head(in) \in Job \cup {NoJob}
        /\ Tail(in) \in Seq(Job \cup {NoJob}) /\ Len(Tail(in)) <= Capacity
    BY <1>4, <2>1, Dequeued DEF TypeOK, Receive
  <2>3. wire' = [wire EXCEPT ![y] = Tail(in)]
    BY <1>4 DEF Receive
  <2>4. wire' \in [End -> Seq(Job \cup {NoJob})] /\ \A x \in End : Len(wire'[x]) <= Capacity
    BY <2>2, <2>3 DEF TypeOK
  <2>5. late' = late \/ late' = [late EXCEPT ![<<c, d>>] = late[<<c, d>>] + 1]
    BY <1>4 DEF Receive
  <2>6. late' \in [End -> Nat]
    <3>1. late[<<c, d>>] + 1 \in Nat
      BY <2>1 DEF TypeOK
    <3> QED
      BY <2>5, <3>1 DEF TypeOK
  <2>7. pc' \in [End -> Place]
    BY <1>4 DEF TypeOK, Receive, Goto, Place
  <2>8. left' = left \/ left' = [left EXCEPT ![<<c, d>>] = Replies]
    BY <1>4 DEF Receive
  <2>9. left' \in [End -> 0 .. Replies]
    <3>1. Replies \in 0 .. Replies
      BY Numbers
    <3> QED
      BY <2>8, <3>1 DEF TypeOK
  <2>10. job' \in [Job -> {"idle", "pushing", "sent", "failed", "arrived"}]
    BY <1>4 DEF TypeOK, Receive
  <2> QED
    BY <1>4, <2>4, <2>6, <2>7, <2>9, <2>10 DEF TypeOK, Receive, world
<1>5. ASSUME NEW c \in Conn, NEW d \in Device, Handler(c, d) PROVE TypeOK'
  <2>1. CASE Return(c, d)
    BY <2>1, EndType DEF TypeOK, Return, Goto, Place, world, jobs, handling
  <2>2. CASE BeginReply(c, d)
    BY <2>2, EndType DEF TypeOK, BeginReply, Goto, Place, world, jobs
  <2>3. CASE PushReply(c, d)
    <3>1. via[<<c, d>>] \in Conn /\ left[<<c, d>>] > 0
      BY <2>3, EndType DEF PushReply, Pushing
    <3>2. wire' \in [End -> Seq(Job \cup {NoJob})] /\ \A x \in End : Len(wire'[x]) <= Capacity
      BY <2>3, <3>1, Enqueued DEF PushReply
    <3>3. left' \in [End -> 0 .. Replies]
      BY <2>3, <3>1, Numbers, EndType DEF TypeOK, PushReply
    <3> QED
      BY <2>3, <3>2, <3>3, EndType, Numbers DEF TypeOK, PushReply, Goto, Place, world, jobs
  <2>4. CASE ReplyFails(c, d)
    BY <2>4, EndType, Numbers DEF TypeOK, ReplyFails, Goto, Place, world, jobs
  <2> QED
    BY <1>5, <2>1, <2>2, <2>3, <2>4 DEF Handler
<1>6. ASSUME NEW c \in Conn, NEW d \in Device, HandlerFails(c, d) PROVE TypeOK'
  BY <1>6, EndType, Numbers DEF TypeOK, HandlerFails, Goto, Place, world, jobs
<1>7. ASSUME NEW c \in Conn, NEW d \in Device, Leave(c, d) PROVE TypeOK'
  BY <1>7, EndType
  DEF TypeOK, Leave, LeaveOnSignal, LeaveOnEnd, LeaveOnIdle, Goto, Place, world, jobs, handling
<1>8. ASSUME NEW c \in Conn, NEW d \in Device, Ending(c, d) PROVE TypeOK'
  BY <1>8, EndType
  DEF TypeOK, Ending, CleanUp, Notify, Notified, Goto, Place, world, jobs, handling
<1>9. ASSUME NEW n \in Job, Task(n) PROVE TypeOK'
  <2>1. From[n] \in Device
    BY FromAssumption
  <2>2. CASE Begin(n)
    BY <2>1, <2>2 DEF TypeOK, Begin, world, handling
  <2>3. CASE Push(n)
    <3>1. wire' \in [End -> Seq(Job \cup {NoJob})] /\ \A x \in End : Len(wire'[x]) <= Capacity
      BY <2>1, <2>3, Enqueued DEF Push, Pushing
    <3> QED
      BY <2>3, <3>1 DEF TypeOK, Push, world, handling
  <2>4. CASE PushFails(n)
    BY <2>4 DEF TypeOK, PushFails, world, handling
  <2> QED
    BY <1>9, <2>2, <2>3, <2>4 DEF Task
<1>10. ASSUME NEW c \in Conn, Cut(c) PROVE TypeOK'
  BY <1>10 DEF TypeOK, Cut, jobs, handling
<1>11. CASE UNCHANGED vars
  BY <1>11 DEF TypeOK, vars, world, jobs, handling
<1> QED
  BY <1>1, <1>2, <1>3, <1>4, <1>5, <1>6, <1>7, <1>8, <1>9, <1>10, <1>11 DEF Next, EndStep, MainLoop

(* What a step of a main loop may do.  It stays in the loop or goes to its  *)
(* end; it waits for a frame only while it is registered; a frame that is   *)
(* handled later than that is counted.                                      *)
LEMMA LoopStep ==
    ASSUME NEW c \in Conn, NEW d \in Device, TypeOK,
           MainLoop(c, d) \/ HandlerFails(c, d) \/ Leave(c, d)
    PROVE  /\ pc[<<c, d>>] \in Loop
           /\ \E place \in Loop \cup {"closing"} :
                 Goto(<<c, d>>, place) /\ (place = "select" => sessions[d] = c)
           /\ sessions' = sessions /\ close' = close /\ told' = told /\ key' = key
           /\ \A n \in Job : job'[n] \in {job[n], "arrived"}
           /\ \/ late' = late
              \/ /\ pc[<<c, d>>] = "select" /\ sessions[d] # c
                 /\ late' = [late EXCEPT ![<<c, d>>] = late[<<c, d>>] + 1]
<1>1. CASE Check(c, d)
  <2>1. CASE sessions[d] = c
    BY <1>1, <2>1 DEF Check, Current, Loop, Goto, world, jobs, handling
  <2>2. CASE sessions[d] # c
    BY <1>1, <2>2 DEF Check, Current, Loop, Goto, world, jobs, handling
  <2> QED
    BY <2>1, <2>2
<1>2. CASE Receive(c, d)
  <2> DEFINE in == wire[<<c, Peer(d)>>]
  <2>1. in \in Seq(Job \cup {NoJob}) /\ in # <<>>
    BY <1>2, EndType, PeerType DEF TypeOK, Receive
  <2>2. Head(in) \in Job \cup {NoJob}
    BY <2>1, HeadTailProperties
  <2>3. Goto(<<c, d>>, "check") \/ Goto(<<c, d>>, "handle")
    BY <1>2 DEF Receive
  <2>4. job' = job \/ job' = [job EXCEPT ![Head(in)] = "arrived"]
    BY <1>2 DEF Receive
  <2>5. \/ late' = late
        \/ sessions[d] # c /\ late' = [late EXCEPT ![<<c, d>>] = late[<<c, d>>] + 1]
    BY <1>2 DEF Receive
  <2>6. pc[<<c, d>>] = "select" /\ sessions' = sessions /\ close' = close /\ told' = told /\ key' = key
    BY <1>2 DEF Receive
  <2>7. \A n \in Job : job'[n] \in {job[n], "arrived"}
    BY <2>4 DEF TypeOK
  <2>8. \E place \in Loop \cup {"closing"} :
           Goto(<<c, d>>, place) /\ (place = "select" => sessions[d] = c)
    BY <2>3 DEF Loop
  <2> QED
    BY <2>5, <2>6, <2>7, <2>8 DEF Loop
<1>3. CASE Handler(c, d)
  <2>1. CASE Return(c, d)
    BY <2>1 DEF Return, Loop, Goto, world, jobs, handling
  <2>2. CASE BeginReply(c, d)
    BY <2>2 DEF BeginReply, Loop, Goto, world, jobs
  <2>3. CASE PushReply(c, d)
    BY <2>3 DEF PushReply, Loop, Goto, world, jobs
  <2>4. CASE ReplyFails(c, d)
    BY <2>4 DEF ReplyFails, Loop, Goto, world, jobs
  <2> QED
    BY <1>3, <2>1, <2>2, <2>3, <2>4 DEF Handler
<1>4. CASE HandlerFails(c, d)
  BY <1>4 DEF HandlerFails, Loop, Goto, world, jobs
<1>5. CASE Leave(c, d)
  BY <1>5 DEF Leave, LeaveOnSignal, LeaveOnEnd, LeaveOnIdle, Loop, Goto, world, jobs, handling
<1> QED
  BY <1>1, <1>2, <1>3, <1>4, <1>5 DEF MainLoop

(* A push stays on the session it was begun on.                             *)
LEMMA PushingStep == TypeOK /\ Pushing /\ [Next]_vars => Pushing'
<1> SUFFICES ASSUME TypeOK, Pushing, [Next]_vars PROVE Pushing'
  OBVIOUS
<1>1. ASSUME NEW c \in Conn, NEW d \in Device, Dial(c, d) PROVE Pushing'
  BY <1>1 DEF Dial, jobs, handling, TypeOK, Pushing
<1>2. ASSUME NEW c \in Conn, NEW d \in Device, Greet(c, d) PROVE Pushing'
  BY <1>2, EndType DEF Greet, Goto, world, jobs, handling, TypeOK, Pushing
<1>3. ASSUME NEW c \in Conn, NEW d \in Device, GiveUp(c, d) PROVE Pushing'
  BY <1>3, EndType DEF GiveUp, Goto, world, jobs, handling, TypeOK, Pushing
<1>4. ASSUME NEW c \in Conn, NEW d \in Device, Register(c, d) PROVE Pushing'
  BY <1>4, EndType, Numbers DEF Register, Goto, ToClose, world, jobs, handling, TypeOK, Pushing
<1>5. ASSUME NEW c \in Conn, NEW d \in Device,
             MainLoop(c, d) \/ HandlerFails(c, d) \/ Leave(c, d)
      PROVE  Pushing'
  <2>1. CASE Check(c, d)
    BY <2>1, EndType DEF Check, Goto, world, jobs, handling, TypeOK, Pushing
  <2>2. CASE Receive(c, d)
    <3>1. <<c, d>> \in End /\ via' = via /\ key' = key
      BY <2>2, EndType DEF Receive
    <3>2. Goto(<<c, d>>, "check") \/ Goto(<<c, d>>, "handle")
      BY <2>2 DEF Receive
    <3>3. \A n \in Job : job'[n] \in {job[n], "arrived"}
      BY <2>2, LoopStep DEF MainLoop
    <3> QED
      <4>1. \A x \in End : pc'[x] = "push" => pc[x] = "push" /\ x # <<c, d>>
        BY <3>1, <3>2 DEF Goto, TypeOK
      <4>2. \A x \in End : x # <<c, d>> => left'[x] = left[x]
        BY <2>2 DEF Receive, TypeOK
      <4> QED
        BY <3>1, <3>3, <4>1, <4>2 DEF Pushing
  <2>3. CASE Return(c, d)
    BY <2>3, EndType DEF Return, Goto, world, jobs, handling, TypeOK, Pushing
  <2>4. CASE BeginReply(c, d)
    BY <2>4, EndType DEF BeginReply, Goto, world, jobs, TypeOK, Pushing
  <2>5. CASE PushReply(c, d)
    BY <2>5, EndType DEF PushReply, Goto, world, jobs, TypeOK, Pushing
  <2>6. CASE ReplyFails(c, d)
    BY <2>6, EndType DEF ReplyFails, Goto, world, jobs, TypeOK, Pushing
  <2>7. CASE HandlerFails(c, d)
    BY <2>7, EndType DEF HandlerFails, Goto, world, jobs, TypeOK, Pushing
  <2>8. CASE Leave(c, d)
    BY <2>8, EndType
    DEF Leave, LeaveOnSignal, LeaveOnEnd, LeaveOnIdle, Goto, world, jobs, handling, TypeOK, Pushing
  <2> QED
    BY <1>5, <2>1, <2>2, <2>3, <2>4, <2>5, <2>6, <2>7, <2>8 DEF MainLoop, Handler
<1>6. ASSUME NEW c \in Conn, NEW d \in Device, CleanUp(c, d) PROVE Pushing'
  BY <1>6, EndType, Numbers DEF CleanUp, Removed, Goto, world, jobs, handling, TypeOK, Pushing
<1>7. ASSUME NEW c \in Conn, NEW d \in Device, Notify(c, d) PROVE Pushing'
  BY <1>7, EndType, FromAssumption DEF Notify, Notified, Goto, world, jobs, handling, TypeOK, Pushing
<1>8. ASSUME NEW n \in Job, Task(n) PROVE Pushing'
  BY <1>8, FromAssumption DEF Task, Begin, Push, PushFails, world, handling, TypeOK, Pushing
<1>9. ASSUME NEW c \in Conn, Cut(c) PROVE Pushing'
  BY <1>9 DEF Cut, jobs, handling, TypeOK, Pushing
<1>10. CASE UNCHANGED vars
  BY <1>10 DEF vars, world, jobs, handling, TypeOK, Pushing
<1> QED
  BY <1>1, <1>2, <1>3, <1>4, <1>5, <1>6, <1>7, <1>8, <1>9, <1>10
  DEF Next, EndStep, HandshakeStep, Ending

(* A registration closes the connection it replaces.                        *)
LEMMA OrphanStep == TypeOK /\ NoOrphan /\ [Next]_vars => NoOrphan'
<1> SUFFICES ASSUME TypeOK, NoOrphan, [Next]_vars PROVE NoOrphan'
  OBVIOUS
<1>1. ASSUME NEW c \in Conn, NEW d \in Device, Dial(c, d) PROVE NoOrphan'
  BY <1>1 DEF Dial, jobs, handling, TypeOK, NoOrphan, Loop
<1>2. ASSUME NEW c \in Conn, NEW d \in Device, Greet(c, d) PROVE NoOrphan'
  BY <1>2, EndType DEF Greet, Goto, world, jobs, handling, TypeOK, NoOrphan, Loop
<1>3. ASSUME NEW c \in Conn, NEW d \in Device, GiveUp(c, d) PROVE NoOrphan'
  BY <1>3, EndType DEF GiveUp, Goto, world, jobs, handling, TypeOK, NoOrphan, Loop
<1>4. ASSUME NEW c \in Conn, NEW d \in Device, Register(c, d) PROVE NoOrphan'
  BY <1>4, EndType, Numbers DEF Register, Goto, ToClose, world, jobs, handling, TypeOK, NoOrphan, Loop
<1>5. ASSUME NEW c \in Conn, NEW d \in Device,
             MainLoop(c, d) \/ HandlerFails(c, d) \/ Leave(c, d)
      PROVE  NoOrphan'
  <2>1. PICK place \in Loop \cup {"closing"} :
            Goto(<<c, d>>, place) /\ (place = "select" => sessions[d] = c)
    BY <1>5, LoopStep
  <2>2. sessions' = sessions /\ close' = close /\ pc[<<c, d>>] \in Loop
    BY <1>5, LoopStep
  <2>3. \A x \in End : pc'[x] = IF x = <<c, d>> THEN place ELSE pc[x]
    BY <2>1 DEF Goto, TypeOK
  <2>4. SUFFICES ASSUME NEW e \in Conn, NEW g \in Device
        PROVE  /\ sessions[g] = e => pc'[<<e, g>>] \in Loop \cup {"closing"}
               /\ pc'[<<e, g>>] \in Loop /\ sessions[g] # e => close[<<e, g>>]
    BY <2>2 DEF NoOrphan
  <2>5. CASE <<e, g>> = <<c, d>>
    BY <2>1, <2>2, <2>3, <2>5, EndType DEF NoOrphan
  <2>6. CASE <<e, g>> # <<c, d>>
    BY <2>3, <2>6, EndType DEF NoOrphan
  <2> QED
    BY <2>5, <2>6
<1>6. ASSUME NEW c \in Conn, NEW d \in Device, CleanUp(c, d) PROVE NoOrphan'
  BY <1>6, EndType, Numbers DEF CleanUp, Removed, Goto, world, jobs, handling, TypeOK, NoOrphan, Loop
<1>7. ASSUME NEW c \in Conn, NEW d \in Device, Notify(c, d) PROVE NoOrphan'
  BY <1>7, EndType, FromAssumption DEF Notify, Notified, Goto, world, jobs, handling, TypeOK, NoOrphan, Loop
<1>8. ASSUME NEW n \in Job, Task(n) PROVE NoOrphan'
  BY <1>8, FromAssumption DEF Task, Begin, Push, PushFails, world, handling, TypeOK, NoOrphan, Loop
<1>9. ASSUME NEW c \in Conn, Cut(c) PROVE NoOrphan'
  BY <1>9 DEF Cut, jobs, handling, TypeOK, NoOrphan, Loop
<1>10. CASE UNCHANGED vars
  BY <1>10 DEF vars, world, jobs, handling, TypeOK, NoOrphan, Loop
<1> QED
  BY <1>1, <1>2, <1>3, <1>4, <1>5, <1>6, <1>7, <1>8, <1>9, <1>10
  DEF Next, EndStep, HandshakeStep, Ending

(* A job is begun on a registered end, and Notify tells it.                 *)
LEMMA JobsStep == TypeOK /\ Pushing /\ NoOrphan /\ JobsAreTold /\ [Next]_vars => JobsAreTold'
<1> SUFFICES ASSUME TypeOK, Pushing, NoOrphan, JobsAreTold, [Next]_vars,
                    NEW n \in Job, job'[n] \in {"pushing", "sent"}
             PROVE  /\ pc'[<<key'[n], From[n]>>] \notin {"none", "greeted"}
                    /\ pc'[<<key'[n], From[n]>>] = "over" => n \in told'
  BY DEF JobsAreTold
<1> DEFINE x    == <<key[n], From[n]>>
           Goal == /\ pc'[<<key'[n], From[n]>>] \notin {"none", "greeted"}
                   /\ pc'[<<key'[n], From[n]>>] = "over" => n \in told'
<1>0. job[n] \in {"pushing", "sent"} =>
        x \in End /\ pc[x] \notin {"none", "greeted"} /\ (pc[x] = "over" => n \in told)
  BY FromAssumption DEF JobsAreTold, Pushing, End
<1>1. ASSUME NEW c \in Conn, NEW d \in Device, Dial(c, d) PROVE Goal
  BY <1>0, <1>1 DEF Dial, jobs
<1>2. ASSUME NEW c \in Conn, NEW d \in Device, HandshakeStep(c, d) PROVE Goal
  <2>1. key' = key /\ told' = told /\ job' = job
    BY <1>2 DEF HandshakeStep, Greet, GiveUp, Register, jobs
  <2>2. /\ pc[<<c, d>>] \in {"none", "greeted"}
        /\ \E place \in Place : pc' = [pc EXCEPT ![<<c, d>>] = place]
    BY <1>2 DEF HandshakeStep, Greet, GiveUp, Register, Goto, Place
  <2>3. pc'[x] = pc[x]
    BY <1>0, <2>1, <2>2 DEF TypeOK
  <2> QED
    BY <1>0, <2>1, <2>3
<1>3. ASSUME NEW c \in Conn, NEW d \in Device,
             MainLoop(c, d) \/ HandlerFails(c, d) \/ Leave(c, d)
      PROVE  Goal
  <2>1. PICK place \in Loop \cup {"closing"} : Goto(<<c, d>>, place)
    BY <1>3, LoopStep
  <2>2. key' = key /\ told' = told /\ job'[n] \in {job[n], "arrived"}
    BY <1>3, LoopStep
  <2>3. pc'[x] \in {pc[x], place}
    BY <1>0, <2>1, <2>2 DEF Goto, TypeOK
  <2> QED
    BY <1>0, <2>1, <2>2, <2>3 DEF Loop
<1>4. ASSUME NEW c \in Conn, NEW d \in Device, CleanUp(c, d) PROVE Goal
  <2>1. key' = key /\ told' = told /\ job' = job
    BY <1>4 DEF CleanUp, jobs
  <2>2. pc'[x] \in {pc[x], "cleaned"}
    BY <1>0, <1>4, <2>1 DEF CleanUp, Goto, TypeOK
  <2> QED
    BY <1>0, <2>1, <2>2
<1>5. ASSUME NEW c \in Conn, NEW d \in Device, Notify(c, d) PROVE Goal
  <2>1. key' = key /\ job' = job /\ told' = told \cup Notified(c, d)
    BY <1>5 DEF Notify
  <2>2. pc' = [pc EXCEPT ![<<c, d>>] = "over"]
    BY <1>5 DEF Notify, Goto
  <2>3. CASE x = <<c, d>>
    BY <1>0, <2>1, <2>2, <2>3 DEF Notified, TypeOK
  <2>4. CASE x # <<c, d>>
    BY <1>0, <2>1, <2>2, <2>4 DEF TypeOK
  <2> QED
    BY <2>3, <2>4
<1>6. ASSUME NEW m \in Job, Begin(m) PROVE Goal
  <2>1. pc' = pc /\ told' = told /\ key' = [key EXCEPT ![m] = sessions[From[m]]]
    BY <1>6 DEF Begin
  <2>2. m # n => key'[n] = key[n] /\ job'[n] = job[n]
    BY <1>6, <2>1 DEF Begin, TypeOK
  <2>3. m = n => key'[n] = sessions[From[n]] /\ sessions[From[n]] \in Conn
    BY <1>6, <2>1, FromAssumption DEF Begin, TypeOK
  <2>4. m = n => pc[<<key'[n], From[n]>>] \in Loop \cup {"closing"}
    BY <2>3, FromAssumption DEF NoOrphan
  <2> QED
    BY <1>0, <2>1, <2>2, <2>4 DEF Loop
<1>7. ASSUME NEW m \in Job, Push(m) \/ PushFails(m) PROVE Goal
  <2>1. pc' = pc /\ told' = told /\ key' = key /\ job[m] = "pushing"
    BY <1>7 DEF Push, PushFails
  <2>2. job[n] \in {"pushing", "sent"}
    BY <1>7, <2>1 DEF Push, PushFails, TypeOK
  <2> QED
    BY <1>0, <2>1, <2>2
<1>8. ASSUME NEW c \in Conn, Cut(c) PROVE Goal
  BY <1>0, <1>8 DEF Cut, jobs
<1>9. CASE UNCHANGED vars
  BY <1>0, <1>9 DEF vars, jobs
<1> QED
  BY <1>1, <1>2, <1>3, <1>4, <1>5, <1>6, <1>7, <1>8, <1>9 DEF Next, EndStep, Ending, Task

(* After a late frame the loop looks at the registry and leaves.            *)
LEMMA LateStep == TypeOK /\ LateLeaves /\ [Next]_vars => LateLeaves'
<1> SUFFICES ASSUME TypeOK, LateLeaves, [Next]_vars PROVE LateLeaves'
  OBVIOUS
<1>1. ASSUME NEW c \in Conn, NEW d \in Device, Dial(c, d) PROVE LateLeaves'
  BY <1>1 DEF Dial, jobs, handling, TypeOK, LateLeaves
<1>2. ASSUME NEW c \in Conn, NEW d \in Device, Greet(c, d) PROVE LateLeaves'
  BY <1>2, EndType DEF Greet, Goto, world, jobs, handling, TypeOK, LateLeaves
<1>3. ASSUME NEW c \in Conn, NEW d \in Device, GiveUp(c, d) PROVE LateLeaves'
  BY <1>3, EndType DEF GiveUp, Goto, world, jobs, handling, TypeOK, LateLeaves
<1>4. ASSUME NEW c \in Conn, NEW d \in Device, Register(c, d) PROVE LateLeaves'
  BY <1>4, EndType, Numbers DEF Register, Goto, ToClose, world, jobs, handling, TypeOK, LateLeaves
<1>5. ASSUME NEW c \in Conn, NEW d \in Device,
             MainLoop(c, d) \/ HandlerFails(c, d) \/ Leave(c, d)
      PROVE  LateLeaves'
  <2>1. PICK place \in Loop \cup {"closing"} :
            Goto(<<c, d>>, place) /\ (place = "select" => sessions[d] = c)
    BY <1>5, LoopStep
  <2>2. \A x \in End : pc'[x] = IF x = <<c, d>> THEN place ELSE pc[x]
    BY <2>1 DEF Goto, TypeOK
  <2>3. sessions' = sessions /\ pc[<<c, d>>] \in Loop
    BY <1>5, LoopStep
  <2>4. CASE late' = late
    <3>1. ASSUME NEW e \in Conn, NEW g \in Device, late[<<e, g>>] > 0
          PROVE  pc'[<<e, g>>] \notin {"none", "greeted", "select"}
      BY <2>1, <2>2, <3>1, EndType DEF LateLeaves, Loop
    <3> QED
      BY <2>3, <2>4, <3>1 DEF LateLeaves
  <2>5. CASE /\ pc[<<c, d>>] = "select" /\ sessions[d] # c
             /\ late' = [late EXCEPT ![<<c, d>>] = late[<<c, d>>] + 1]
    <3>1. late[<<c, d>>] = 0
      BY <2>5, EndType DEF LateLeaves, TypeOK
    <3>2. \A x \in End : late'[x] = IF x = <<c, d>> THEN 1 ELSE late[x]
      BY <2>5, <3>1 DEF TypeOK
    <3>3. place \notin {"none", "greeted", "select"}
      BY <2>1, <2>5 DEF Loop
    <3>4. SUFFICES ASSUME NEW e \in Conn, NEW g \in Device, late'[<<e, g>>] > 0
          PROVE  /\ late'[<<e, g>>] = 1 /\ sessions[g] # e
                 /\ pc'[<<e, g>>] \notin {"none", "greeted", "select"}
      BY <2>3 DEF LateLeaves
    <3>5. CASE <<e, g>> = <<c, d>>
      BY <2>2, <2>5, <3>2, <3>3, <3>5, EndType
    <3>6. CASE <<e, g>> # <<c, d>>
      BY <2>2, <3>2, <3>4, <3>6, EndType DEF LateLeaves
    <3> QED
      BY <3>5, <3>6
  <2> QED
    BY <1>5, <2>4, <2>5, LoopStep
<1>6. ASSUME NEW c \in Conn, NEW d \in Device, CleanUp(c, d) PROVE LateLeaves'
  BY <1>6, EndType, Numbers DEF CleanUp, Removed, Goto, world, jobs, handling, TypeOK, LateLeaves
<1>7. ASSUME NEW c \in Conn, NEW d \in Device, Notify(c, d) PROVE LateLeaves'
  BY <1>7, EndType, FromAssumption DEF Notify, Notified, Goto, world, jobs, handling, TypeOK, LateLeaves
<1>8. ASSUME NEW n \in Job, Task(n) PROVE LateLeaves'
  BY <1>8, FromAssumption DEF Task, Begin, Push, PushFails, world, handling, TypeOK, LateLeaves
<1>9. ASSUME NEW c \in Conn, Cut(c) PROVE LateLeaves'
  BY <1>9 DEF Cut, jobs, handling, TypeOK, LateLeaves
<1>10. CASE UNCHANGED vars
  BY <1>10 DEF vars, world, jobs, handling, TypeOK, LateLeaves
<1> QED
  BY <1>1, <1>2, <1>3, <1>4, <1>5, <1>6, <1>7, <1>8, <1>9, <1>10
  DEF Next, EndStep, HandshakeStep, Ending

(* The inductive invariant.                                                 *)
Inductive == TypeOK /\ Pushing /\ NoOrphan /\ JobsAreTold /\ LateLeaves

(* The inductive invariant holds of every run.                              *)
THEOREM Invariance == Spec => []Inductive
<1>1. Init => Inductive
  BY BoundAssumption, Numbers
  DEF Init, Inductive, TypeOK, Pushing, NoOrphan, JobsAreTold, LateLeaves, Place, Loop, End
<1>2. Inductive /\ [Next]_vars => Inductive'
  BY TypeStep, PushingStep, OrphanStep, JobsStep, LateStep DEF Inductive
<1> QED
  BY <1>1, <1>2, PTL DEF Spec

(* The types of the state hold, and no queue grows past its capacity.       *)
THEOREM TypeCorrect == Spec => []TypeOK
  BY Invariance, PTL DEF Inductive

(* The registry and the main loops agree: run_connection's registration and *)
(* clean-up neither lose the session of a device nor keep two of them.      *)
THEOREM RegistryIsSound == Spec => []NoOrphan
  BY Invariance, PTL DEF Inductive

(* A frame that is lost with its connection does not go unnoticed.          *)
THEOREM LossIsKnown == Spec => []LossIsNotified
<1>1. Inductive => LossIsNotified
  BY DEF Inductive, JobsAreTold, LossIsNotified
<1> QED
  BY <1>1, Invariance, PTL

(* The main loop of a connection that was replaced handles one more frame   *)
(* at most, whatever it still waits for at the moment it is replaced.       *)
THEOREM ReplacedLoopLeaves == Spec => []OneMoreFrame
<1>1. ASSUME Inductive, NEW x \in End PROVE late[x] <= 1
  <2>1. PICK c \in Conn, d \in Device : x = <<c, d>>
    BY DEF End
  <2>2. late[x] \in Nat
    BY <1>1 DEF Inductive, TypeOK
  <2> QED
    BY <1>1, <2>1, <2>2 DEF Inductive, LateLeaves
<1>2. Inductive => OneMoreFrame
  BY <1>1 DEF OneMoreFrame
<1> QED
  BY <1>2, Invariance, PTL

=============================================================================
