------------------------------- MODULE Session -------------------------------
(***************************************************************************)
(* The connections between two devices (session.rs): how they are made,    *)
(* registered, replaced and cleaned up, and what becomes of the frames     *)
(* pushed on them.                                                         *)
(*                                                                         *)
(* A connection has an end on each device: the main loop run_connection    *)
(* with its reader and writer tasks.  wire[<<c, d>>] is what the end of d has  *)
(* queued and the other end has not taken: the queue of the writer, the    *)
(* bytes under way and the queue of the reader.  A job is a task of a      *)
(* device that pushes one frame (a file transfer, say); the handler of the *)
(* frame pushes some frames of its own, which are not told apart.          *)
(***************************************************************************)
EXTENDS Naturals, Sequences, FiniteSets

CONSTANTS
    Device,     \* two devices
    MaxConn,    \* bound: the connections ever made
    MaxJob,     \* bound: the frames pushed by tasks
    From,       \* the device of a job
    Replies,    \* frames pushed by the handler of a job's frame, at most
    Capacity,   \* frames between two ends (CHANNEL_CAPACITY and the reader's 64)
    MaxFaults   \* bound: connections that break without a word

ASSUME DeviceAssumption == \E a, b \in Device : a # b /\ Device = {a, b}
ASSUME BoundAssumption ==
    MaxConn \in Nat /\ MaxJob \in Nat /\ Replies \in Nat /\ Capacity \in Nat \ {0} /\ MaxFaults \in Nat

Conn == 1 .. MaxConn
NoConn == 0

(* A frame is the number of its job, or NoJob for one of a handler.         *)
Job == 1 .. MaxJob
NoJob == 0

ASSUME FromAssumption == From \in [Job -> Device]

VARIABLES
    dialler,    \* the device that made a connection
    pc,         \* where an end is
    close,      \* has the close signal of an end been given?
    sessions,   \* the registry of a device: its session with the other one
    wire,       \* frames pushed by an end and not taken by the other
    left,       \* replies the handler of an end has still to push
    key,        \* the session a job pushes on
    via,        \* the session the handler of an end pushes on
    job,        \* where a job is
    cut,        \* connections whose bytes are lost in both directions
    told,       \* history: jobs that were told of a disconnection
    late        \* history: frames handled by an end since it was replaced

world == <<dialler, cut>>
jobs == <<key, job, told>>
handling == <<left, via, late>>
vars == <<world, sessions, wire, jobs, pc, close, handling>>

Peer(d) == CHOOSE e \in Device : e # d

End == Conn \X Device

Place == {"none", "greeted", "check", "select", "handle", "push", "closing", "cleaned", "over"}

(* The main loop runs.                                                      *)
Loop == {"check", "select", "handle", "push"}
Gone == {"closing", "cleaned", "over"}

Init ==
    /\ dialler = [c \in Conn |-> NoConn]
    /\ pc = [x \in End |-> "none"]
    /\ close = [x \in End |-> FALSE]
    /\ sessions = [d \in Device |-> NoConn]
    /\ wire = [x \in End |-> <<>>]
    /\ left = [x \in End |-> 0]
    /\ key = [n \in Job |-> NoConn]
    /\ via = [x \in End |-> NoConn]
    /\ job = [n \in Job |-> "idle"]
    /\ cut = {}
    /\ told = {}
    /\ late = [x \in End |-> 0]

Goto(x, place) == pc' = [pc EXCEPT ![x] = place]

(* The other end of d is gone, and d can see it.                            *)
Broken(c, d) == c \notin cut /\ pc[<<c, Peer(d)>>] \in Gone

-----------------------------------------------------------------------------
(* Making a connection: the listening side is done with the handshake when  *)
(* it has written HelloAck, the other one when it has read it.              *)

Dial(c, d) ==
    /\ dialler[c] = NoConn
    /\ \A e \in Conn : e < c => dialler[e] # NoConn
    /\ dialler' = [dialler EXCEPT ![c] = d]
    /\ UNCHANGED <<jobs, handling, sessions, wire, cut, pc, close>>

Greet(c, d) ==
    /\ dialler[c] # NoConn
    /\ pc[<<c, d>>] = "none"
    /\ d = dialler[c] => pc[<<c, Peer(d)>>] # "none" /\ c \notin cut
    /\ Goto(<<c, d>>, "greeted")
    /\ UNCHANGED <<world, jobs, handling, sessions, wire, close>>

(* The dialling side gives up: the identity is not the expected one, or a   *)
(* time-out of the handshake has passed.                                    *)
GiveUp(c, d) ==
    /\ dialler[c] = d
    /\ pc[<<c, d>>] = "none"
    /\ Goto(<<c, d>>, "over")
    /\ UNCHANGED <<world, jobs, handling, sessions, wire, close>>

(* Mutant: the connection that is replaced is not closed.                   *)
NoneToClose(d) == {}

(* The connection of the device that a registration replaces.               *)
ToClose(d) == {<<sessions[d], d>>} \cap End

Register(c, d) ==
    /\ pc[<<c, d>>] = "greeted"
    /\ Goto(<<c, d>>, "check")
    /\ close' = [x \in End |-> close[x] \/ x \in ToClose(d)]
    /\ sessions' = [sessions EXCEPT ![d] = c]
    /\ UNCHANGED <<world, jobs, handling, wire>>

-----------------------------------------------------------------------------
(* The main loop of run_connection.                                         *)

(* Mutant: the loop does not look at the registry.                          *)
CurrentAlways(c, d) == TRUE

Current(c, d) == sessions[d] = c

Check(c, d) ==
    /\ pc[<<c, d>>] = "check"
    /\ Goto(<<c, d>>, IF Current(c, d) THEN "select" ELSE "closing")
    /\ UNCHANGED <<world, jobs, handling, sessions, wire, close>>

(* The next frame is taken and its handler begins; a frame of a job is      *)
(* what the job is about.                                                   *)
Receive(c, d) ==
    LET in == wire[<<c, Peer(d)>>]
    IN  /\ pc[<<c, d>>] = "select"
        /\ c \notin cut
        /\ in # <<>>
        /\ wire' = [wire EXCEPT ![<<c, Peer(d)>>] = Tail(in)]
        /\ late' = IF sessions[d] = c THEN late ELSE [late EXCEPT ![<<c, d>>] = @ + 1]
        /\ IF Head(in) = NoJob
           THEN /\ Goto(<<c, d>>, "check")
                /\ UNCHANGED <<left, job>>
           ELSE /\ Goto(<<c, d>>, "handle")
                /\ left' = [left EXCEPT ![<<c, d>>] = Replies]
                /\ job' = [job EXCEPT ![Head(in)] = "arrived"]
        /\ UNCHANGED <<world, sessions, key, told, close, via>>

(* The handler has nothing more to push.                                    *)
Return(c, d) ==
    /\ pc[<<c, d>>] = "handle"
    /\ left[<<c, d>>] = 0
    /\ Goto(<<c, d>>, "check")
    /\ UNCHANGED <<world, jobs, handling, sessions, wire, close>>

(* The handler fails by itself: the error ends the loop.                    *)
HandlerFails(c, d) ==
    /\ pc[<<c, d>>] = "handle"
    /\ left' = [left EXCEPT ![<<c, d>>] = 0]
    /\ Goto(<<c, d>>, "closing")
    /\ UNCHANGED <<world, jobs, sessions, wire, close, late, via>>

(* The loop ends: by the close signal, ...                                  *)
LeaveOnSignal(c, d) ==
    /\ pc[<<c, d>>] = "select"
    /\ close[<<c, d>>]
    /\ Goto(<<c, d>>, "closing")
    /\ UNCHANGED <<world, jobs, handling, sessions, wire, close>>

(* ... because the reader failed, ...                                       *)
LeaveOnEnd(c, d) ==
    /\ pc[<<c, d>>] = "select"
    /\ Broken(c, d)
    /\ Goto(<<c, d>>, "closing")
    /\ UNCHANGED <<world, jobs, handling, sessions, wire, close>>

(* Mutant: a silent connection is kept.                                     *)
IdleNever(c) == FALSE

(* Nothing is received for IDLE_CLOSE_AFTER; a peer that can be heard sends *)
(* heartbeats more often.                                                   *)
Idle(c) == c \in cut

(* ... or because the connection is idle.                                   *)
LeaveOnIdle(c, d) ==
    /\ pc[<<c, d>>] = "select"
    /\ Idle(c)
    /\ Goto(<<c, d>>, "closing")
    /\ UNCHANGED <<world, jobs, handling, sessions, wire, close>>

-----------------------------------------------------------------------------
(* The end of run_connection.                                               *)

(* Mutant: the registration is removed, whoever's it is.                    *)
RemovedAny(c, d) == sessions[d] # NoConn

Removed(c, d) == sessions[d] = c

CleanUp(c, d) ==
    /\ pc[<<c, d>>] = "closing"
    /\ close' = [close EXCEPT ![<<c, d>>] = TRUE]
    /\ sessions' = IF Removed(c, d) THEN [sessions EXCEPT ![d] = NoConn] ELSE sessions
    /\ Goto(<<c, d>>, "cleaned")
    /\ UNCHANGED <<world, jobs, handling, wire>>

(* Mutant: a connection that was replaced does not notify.                  *)
NotifiedIfLast(c, d) ==
    IF sessions[d] = NoConn THEN {n \in Job : From[n] = d /\ job[n] \in {"pushing", "sent"}} ELSE {}

(* on_peer_disconnected tells every task that works with the device.        *)
Notified(c, d) == {n \in Job : From[n] = d /\ job[n] \in {"pushing", "sent"}}

Notify(c, d) ==
    /\ pc[<<c, d>>] = "cleaned"
    /\ told' = told \cup Notified(c, d)
    /\ Goto(<<c, d>>, "over")
    /\ UNCHANGED <<world, handling, sessions, wire, key, job, close>>

-----------------------------------------------------------------------------
(* push_frame: the session is looked up, then the frame waits for room.     *)

(* Mutant: a queue takes one frame more than it has room for.              *)
HasRoomInclusive(c, d) == Len(wire[<<c, d>>]) <= Capacity

HasRoom(c, d) == Len(wire[<<c, d>>]) < Capacity

Enqueue(c, d, f) == wire' = [wire EXCEPT ![<<c, d>>] = Append(@, f)]

(* Mutant: a push waits for room as long as it takes.                       *)
RefusedByWriter(c, d) == Broken(c, d)

(* The writer has failed, or there was no room for QUEUE_SEND_TIMEOUT.      *)
Refused(c, d) == Broken(c, d) \/ ~HasRoom(c, d)

Begin(n) ==
    LET d == From[n]
    IN  /\ job[n] = "idle"
        /\ sessions[d] # NoConn
        /\ key' = [key EXCEPT ![n] = sessions[d]]
        /\ job' = [job EXCEPT ![n] = "pushing"]
        /\ UNCHANGED <<world, handling, sessions, wire, told, pc, close>>

Push(n) ==
    /\ job[n] = "pushing"
    /\ HasRoom(key[n], From[n])
    /\ Enqueue(key[n], From[n], n)
    /\ job' = [job EXCEPT ![n] = "sent"]
    /\ UNCHANGED <<world, handling, sessions, key, told, pc, close>>

PushFails(n) ==
    /\ job[n] = "pushing"
    /\ Refused(key[n], From[n])
    /\ job' = [job EXCEPT ![n] = "failed"]
    /\ UNCHANGED <<world, handling, sessions, wire, key, told, pc, close>>

(* A handler pushes on whatever session is registered by then.              *)
BeginReply(c, d) ==
    /\ pc[<<c, d>>] = "handle"
    /\ left[<<c, d>>] > 0
    /\ sessions[d] # NoConn
    /\ via' = [via EXCEPT ![<<c, d>>] = sessions[d]]
    /\ Goto(<<c, d>>, "push")
    /\ UNCHANGED <<world, jobs, sessions, wire, close, left, late>>

PushReply(c, d) ==
    /\ pc[<<c, d>>] = "push"
    /\ HasRoom(via[<<c, d>>], d)
    /\ Enqueue(via[<<c, d>>], d, NoJob)
    /\ left' = [left EXCEPT ![<<c, d>>] = @ - 1]
    /\ Goto(<<c, d>>, "handle")
    /\ via' = [via EXCEPT ![<<c, d>>] = NoConn]
    /\ UNCHANGED <<world, jobs, sessions, close, late>>

(* Without a session, or when the push fails: some handlers pass the error  *)
(* on, which ends the loop, the others ignore it.                           *)
ReplyFails(c, d) ==
    /\ \/ pc[<<c, d>>] = "handle" /\ left[<<c, d>>] > 0 /\ sessions[d] = NoConn
       \/ pc[<<c, d>>] = "push" /\ Refused(via[<<c, d>>], d)
    /\ left' = [left EXCEPT ![<<c, d>>] = 0]
    /\ \E place \in {"closing", "check"} : Goto(<<c, d>>, place)
    /\ via' = [via EXCEPT ![<<c, d>>] = NoConn]
    /\ UNCHANGED <<world, jobs, sessions, wire, close, late>>

-----------------------------------------------------------------------------
(* Nothing arrives any more, in either direction, and nobody is told.       *)
Cut(c) ==
    /\ dialler[c] # NoConn
    /\ c \notin cut
    /\ Cardinality(cut) < MaxFaults
    /\ cut' = cut \cup {c}
    /\ UNCHANGED <<jobs, handling, dialler, sessions, wire, pc, close>>

HandshakeStep(c, d) == Greet(c, d) \/ GiveUp(c, d) \/ Register(c, d)

Leave(c, d) == LeaveOnSignal(c, d) \/ LeaveOnEnd(c, d) \/ LeaveOnIdle(c, d)

Handler(c, d) ==
    Return(c, d) \/ BeginReply(c, d) \/ PushReply(c, d) \/ ReplyFails(c, d)

MainLoop(c, d) == Check(c, d) \/ Receive(c, d) \/ Handler(c, d)

Ending(c, d) == CleanUp(c, d) \/ Notify(c, d)

EndStep(c, d) == HandshakeStep(c, d) \/ MainLoop(c, d) \/ Leave(c, d) \/ Ending(c, d)

Task(n) == Begin(n) \/ Push(n) \/ PushFails(n)

Next ==
    \/ \E c \in Conn, d \in Device :
          Dial(c, d) \/ EndStep(c, d) \/ HandlerFails(c, d)
    \/ \E n \in Job : Task(n)
    \/ \E c \in Conn : Cut(c)

Spec == Init /\ [][Next]_vars

(* The task of an end runs from the handshake to its end, and so does every *)
(* job; an end of stream or an idle connection is noticed.  Nobody has to   *)
(* dial.                                                                    *)
Fairness ==
    /\ \A c \in Conn, d \in Device : WF_vars(EndStep(c, d))
    /\ \A n \in Job : WF_vars(Task(n))

FairSpec == Spec /\ Fairness

-----------------------------------------------------------------------------
TypeOK ==
    /\ dialler \in [Conn -> Device \cup {NoConn}]
    /\ pc \in [End -> Place]
    /\ close \in [End -> BOOLEAN]
    /\ sessions \in [Device -> Conn \cup {NoConn}]
    /\ wire \in [End -> Seq(Job \cup {NoJob})]
    /\ \A x \in End : Len(wire[x]) <= Capacity
    /\ left \in [End -> 0 .. Replies]
    /\ key \in [Job -> Conn \cup {NoConn}]
    /\ via \in [End -> Conn \cup {NoConn}]
    /\ job \in [Job -> {"idle", "pushing", "sent", "failed", "arrived"}]
    /\ cut \subseteq Conn
    /\ told \subseteq Job
    /\ late \in [End -> Nat]

(* The registry names a connection whose loop has not yet been cleaned up,  *)
(* and a loop that is not registered has been told to close: a connection   *)
(* that is replaced neither takes the registration of the new one with it   *)
(* nor runs on beside it (run_connection, registration and clean-up).       *)
NoOrphan ==
    \A c \in Conn, d \in Device :
        /\ sessions[d] = c => pc[<<c, d>>] \in Loop \cup {"closing"}
        /\ pc[<<c, d>>] \in Loop /\ sessions[d] # c => close[<<c, d>>]

(* A connection that was replaced handles at most one more frame.           *)
OneMoreFrame == \A x \in End : late[x] <= 1

(* A frame that was pushed and will not arrive does not go unnoticed: when  *)
(* the end it was pushed on is over, its frame has arrived or its task has  *)
(* been told that the device was disconnected.                              *)
LossIsNotified ==
    \A n \in Job :
        job[n] = "sent" /\ pc[<<key[n], From[n]>>] = "over" => n \in told

(* No handler waits for ever for room in a queue, whatever the other device *)
(* pushes at the same time (push_frame, QUEUE_SEND_TIMEOUT).                *)
HandlersReturn == <>[](\A x \in End : pc[x] \notin {"handle", "push"})

(* However the devices dial each other, in the end both hold the same       *)
(* connection, and it works, or neither holds one.                          *)
Agreed ==
    \E c \in Conn \cup {NoConn} :
        /\ \A d \in Device : sessions[d] = c
        /\ c # NoConn => c \notin cut /\ \A d \in Device : pc[<<c, d>>] \in Loop

SettledSessionsAgree == <>[]Agreed

=============================================================================
