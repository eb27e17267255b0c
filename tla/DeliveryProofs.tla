---------------------------- MODULE DeliveryProofs ----------------------------
(***************************************************************************)
(* The type invariant of Delivery, its inductive invariant, and what        *)
(* follows from it, for any set of messages and threads and any bounds.     *)
(***************************************************************************)
EXTENDS Delivery, TLAPS

USE DeviceAssumption, MsgAssumption, ConvAssumption, OriginAssumption, BoundAssumption

(* There are two devices: the peer of a device is the other one.            *)
LEMMA PeerFacts ==
    ASSUME NEW d \in Device
    PROVE  /\ Peer(d) \in Device
           /\ Peer(d) # d
           /\ Peer(Peer(d)) = d
           /\ \A e \in Device : e = d \/ e = Peer(d)
<1>1. \E p \in Device : p # d
  OBVIOUS
<1>2. Peer(d) \in Device /\ Peer(d) # d
  BY <1>1 DEF Peer
<1>3. \A e \in Device : e = d \/ e = Peer(d)
  BY <1>2
<1>4. \E p \in Device : p # Peer(d)
  BY <1>2
<1>5. Peer(Peer(d)) \in Device /\ Peer(Peer(d)) # Peer(d)
  BY <1>4 DEF Peer
<1>6. QED
  BY <1>2, <1>3, <1>5

(* Pushing a frame keeps the channels' type.                                *)
LEMMA PushType ==
    ASSUME NEW w \in [Device -> Seq(Frame)], NEW d \in Device, NEW f \in Frame
    PROVE  Push(w, d, f) \in [Device -> Seq(Frame)]
<1>1. Peer(d) \in Device
  BY PeerFacts
<1>2. Append(w[Peer(d)], f) \in Seq(Frame)
  BY <1>1
<1>3. QED
  BY <1>1, <1>2 DEF Push

(* What the constructors build is a frame of the protocol.                  *)
LEMMA FrameTypes ==
    /\ \A t \in Thread, x \in BOOLEAN : ThreadState(t, x) \in Frame /\ ThreadAck(t, x) \in Frame
    /\ \A m \in Msg : ReliableMessage(m) \in Frame /\ MessageAck(m) \in Frame
  BY DEF Frame, ThreadState, ThreadAck, ReliableMessage, MessageAck

(* The stages of a round: over, announcing threads, sending messages, and  *)
(* with one announcement or message less to send.                          *)
LEMMA RoundTypes ==
    /\ Idle \in FlushProgress
    /\ \A S \in SUBSET (Thread \X BOOLEAN) :
          [phase |-> "threads", states |-> S, ids |-> {}] \in FlushProgress
    /\ \A M \in SUBSET Msg : Sending(M) \in FlushProgress
    /\ \A r \in FlushProgress :
          /\ r.states \in SUBSET (Thread \X BOOLEAN) /\ r.ids \in SUBSET Msg
          /\ \A s : [r EXCEPT !.states = @ \ {s}] \in FlushProgress
  BY DEF Idle, Sending, FlushProgress

(* A frame at the head of a channel has the fields of its kind.             *)
LEMMA HeadFrame ==
    ASSUME TypeOK, NEW d \in Device, NEW k, Incoming(d, k)
    PROVE  /\ Head(wire[d]) \in Frame
           /\ Consumed(d) \in [Device -> Seq(Frame)]
           /\ k \in {"thread_state", "thread_ack"} =>
                 Head(wire[d]).thread \in Thread /\ Head(wire[d]).deleted \in BOOLEAN
           /\ k \in {"reliable_message", "message_ack"} => Head(wire[d]).id \in Msg
<1>1. wire[d] \in Seq(Frame) /\ wire[d] # <<>> /\ Head(wire[d]).kind = k
  BY DEF TypeOK, Incoming
<1>2. Head(wire[d]) \in Frame /\ Tail(wire[d]) \in Seq(Frame)
  BY <1>1
<1>3. Consumed(d) \in [Device -> Seq(Frame)]
  BY <1>2 DEF TypeOK, Consumed
<1>4. QED
  BY <1>1, <1>2, <1>3 DEF Frame

(* Every step keeps the type invariant: one step per action.                *)
LEMMA TypeStep == TypeOK /\ [Next]_vars => TypeOK'
<1> SUFFICES ASSUME TypeOK, [Next]_vars PROVE TypeOK'
  OBVIOUS
<1> USE DEF TypeOK, store, threads, tasks
<1>1. CASE UNCHANGED vars
  BY <1>1 DEF vars
<1>2. ASSUME NEW d \in Device, NEW m \in Msg, SendText(d, m) PROVE TypeOK'
  BY <1>2 DEF SendText, enqueue_message
<1>3. ASSUME NEW d \in Device, NEW m \in Msg, SendThreadText(d, m) PROVE TypeOK'
  BY <1>3 DEF SendThreadText
<1>4. ASSUME NEW d \in Device, NEW m \in Msg, DeleteMessage(d, m) PROVE TypeOK'
  BY <1>4 DEF DeleteMessage, RemoveRows
<1>5. ASSUME NEW d \in Device, NEW t \in Thread, CreateThread(d, t) PROVE TypeOK'
  BY <1>5 DEF CreateThread, apply_thread, Tombstones
<1>6. ASSUME NEW d \in Device, NEW t \in Thread, DeleteThread(d, t) PROVE TypeOK'
  BY <1>6 DEF DeleteThread, apply_thread, Tombstones, RemoveRows
<1>7. ASSUME NEW d \in Device, NEW t \in Thread, HideThread(d, t) PROVE TypeOK'
  BY <1>7 DEF HideThread, RemoveRows
<1>8. ASSUME NEW d \in Device, NEW c \in Thread \cup {Main}, DeleteConversation(d, c)
      PROVE TypeOK'
  BY <1>8 DEF DeleteConversation, RemoveRows
<1>9. ASSUME NEW d \in Device, NEW b \in BOOLEAN, SetTrusted(d, b) PROVE TypeOK'
  BY <1>9 DEF SetTrusted
<1>10. ASSUME NEW d \in Device, EnqueueComposed(d) PROVE TypeOK'
  BY <1>10 DEF EnqueueComposed, enqueue_message
<1>11. ASSUME NEW d \in Device, Connect(d) PROVE TypeOK'
  BY <1>11 DEF Connect
<1>12. ASSUME NEW d \in Device, NoticeClosed(d) PROVE TypeOK'
  BY <1>12 DEF NoticeClosed, Drop
<1>13. ASSUME NEW d \in Device, FlushThreads(d) PROVE TypeOK'
  <2>1. {<<t, t \in deleted[d]>> : t \in syncPending[d]} \in SUBSET (Thread \X BOOLEAN)
    <3>1. ASSUME NEW t \in syncPending[d]
          PROVE  <<t, t \in deleted[d]>> \in Thread \X BOOLEAN
      <4>1. t \in Thread /\ (t \in deleted[d]) \in BOOLEAN
        OBVIOUS
      <4>2. QED
        BY <4>1
    <3>2. QED
      BY <3>1
  <2>2. flush' \in [Device -> FlushProgress]
    BY <1>13, <2>1, RoundTypes DEF FlushThreads
  <2>3. QED
    BY <1>13, <2>2 DEF FlushThreads
<1>14. ASSUME NEW d \in Device, SendThreadState(d) PROVE TypeOK'
  <2>1. PICK s \in flush[d].states :
           /\ wire' = Push(wire, d, ThreadState(s[1], s[2]))
           /\ flush' = [flush EXCEPT ![d].states = @ \ {s}]
    BY <1>14 DEF SendThreadState
  <2>2. s \in Thread \X BOOLEAN /\ ThreadState(s[1], s[2]) \in Frame
    BY FrameTypes, RoundTypes
  <2>3. wire' \in [Device -> Seq(Frame)]
    BY <2>1, <2>2, PushType
  <2>4. flush' \in [Device -> FlushProgress]
    BY <2>1, RoundTypes
  <2>5. QED
    BY <1>14, <2>3, <2>4 DEF SendThreadState
<1>15. ASSUME NEW d \in Device, FlushMessages(d) PROVE TypeOK'
  <2>1. pending_messages(d) \in SUBSET Msg
    BY DEF pending_messages
  <2>2. flush' \in [Device -> FlushProgress]
    BY <1>15, <2>1, RoundTypes DEF FlushMessages
  <2>3. QED
    BY <1>15, <2>2 DEF FlushMessages
<1>16. ASSUME NEW d \in Device, SendPending(d) PROVE TypeOK'
  <2>1. PICK m \in flush[d].ids :
           /\ wire' = Push(wire, d, ReliableMessage(m))
           /\ flush' = [flush EXCEPT ![d] = Sending(flush[d].ids \ {m})]
    BY <1>16 DEF SendPending
  <2>2. m \in Msg
    BY RoundTypes
  <2>3. wire' \in [Device -> Seq(Frame)]
    BY <2>1, <2>2, FrameTypes, PushType
  <2>4. flush' \in [Device -> FlushProgress]
    BY <2>1, RoundTypes
  <2>5. QED
    BY <1>16, <2>3, <2>4 DEF SendPending
<1>17. ASSUME NEW d \in Device, FlushStops(d) PROVE TypeOK'
  BY <1>17, RoundTypes DEF FlushStops
<1>18. ASSUME NEW d \in Device, HandleThreadState(d) PROVE TypeOK'
  <2> DEFINE f == Head(wire[d])
             del == f.thread \in Tombstones(d, f.thread, f.deleted)
  <2>1. Incoming(d, "thread_state") /\ apply_thread(d, f.thread, f.deleted, FALSE)
        /\ wire' = Push(Consumed(d), d, ThreadAck(f.thread, del))
    BY <1>18 DEF HandleThreadState
  <2>2. f.thread \in Thread /\ f.deleted \in BOOLEAN
    BY <2>1, HeadFrame
  <2>3. wire' \in [Device -> Seq(Frame)]
    <3>0. del \in BOOLEAN
      OBVIOUS
    <3>1. ThreadAck(f.thread, del) \in Frame
      <4> HIDE DEF del
      <4>1. QED
        BY <3>0, <2>2, FrameTypes
    <3>2. Consumed(d) \in [Device -> Seq(Frame)]
      BY <2>1, HeadFrame
    <3>3. QED
      BY <2>1, <3>1, <3>2, PushType
  <2> HIDE DEF f
  <2>4. /\ known' \in [Device -> SUBSET Thread]
        /\ deleted' \in [Device -> SUBSET Thread]
        /\ hidden' \in [Device -> SUBSET Thread]
        /\ syncPending' \in [Device -> SUBSET Thread]
    BY <2>1, <2>2 DEF apply_thread, Tombstones
  <2>5. /\ messages' \in [Device -> SUBSET Msg]
        /\ unacked' \in [Device -> SUBSET Msg]
        /\ acked' \in [Device -> SUBSET Msg]
        /\ receipts' \in [Device -> SUBSET Msg]
        /\ \A e \in Device : unacked'[e] \cup acked'[e] \subseteq messages'[e]
    BY <2>1 DEF apply_thread, RemoveRows
  <2>6. QED
    BY <1>18, <2>3, <2>4, <2>5 DEF HandleThreadState
<1>19. ASSUME NEW d \in Device, HandleThreadAck(d) PROVE TypeOK'
  <2> DEFINE f == Head(wire[d])
  <2>1. wire' \in [Device -> Seq(Frame)]
    BY <1>19, HeadFrame DEF HandleThreadAck
  <2>2. CASE ~trusted[d]
    BY <1>19, <2>1, <2>2 DEF HandleThreadAck
  <2>3. CASE trusted[d]
    <3>1. acknowledge_thread(d, f.thread, f.deleted)
      BY <1>19, <2>3 DEF HandleThreadAck
    <3> HIDE DEF f
    <3>2. syncPending' \in [Device -> SUBSET Thread] /\ UNCHANGED <<known, deleted, hidden>>
      BY <3>1 DEF acknowledge_thread
    <3>3. QED
      BY <1>19, <2>1, <3>2 DEF HandleThreadAck
  <2>4. QED
    BY <2>2, <2>3
<1>20. ASSUME NEW d \in Device, HandleMessageForDeletedThread(d) PROVE TypeOK'
  <2>1. Incoming(d, "reliable_message")
        /\ wire' = Push(Consumed(d), d, MessageAck(Head(wire[d]).id))
    BY <1>20 DEF HandleMessageForDeletedThread
  <2>2. Head(wire[d]).id \in Msg /\ Consumed(d) \in [Device -> Seq(Frame)]
    BY <2>1, HeadFrame
  <2>3. wire' \in [Device -> Seq(Frame)]
    BY <2>1, <2>2, FrameTypes, PushType
  <2>4. QED
    BY <1>20, <2>3 DEF HandleMessageForDeletedThread
<1>21. ASSUME NEW d \in Device, CheckReliableMessage(d) PROVE TypeOK'
  BY <1>21, HeadFrame DEF CheckReliableMessage
<1>22. ASSUME NEW d \in Device, StoreReliableMessage(d) PROVE TypeOK'
  <2>1. handling[d] \in Msg
    BY <1>22 DEF StoreReliableMessage
  <2>2. wire' \in [Device -> Seq(Frame)]
    BY <1>22, <2>1, FrameTypes, PushType DEF StoreReliableMessage
  <2>3. handling' \in [Device -> Msg \cup {None}]
    BY <1>22 DEF StoreReliableMessage
  <2>4. /\ receipts' \in [Device -> SUBSET Msg]
        /\ messages' \in [Device -> SUBSET Msg]
        /\ hidden' \in [Device -> SUBSET Thread]
        /\ UNCHANGED <<unacked, acked, known, deleted, syncPending>>
        /\ \A e \in Device : messages[e] \subseteq messages'[e]
    BY <1>22, <2>1 DEF StoreReliableMessage, receive_queued_message
  <2>5. QED
    BY <1>22, <2>2, <2>3, <2>4 DEF StoreReliableMessage
<1>23. ASSUME NEW d \in Device, HandleMessageAck(d) PROVE TypeOK'
  <2> DEFINE m == Head(wire[d]).id
  <2>1. m \in Msg /\ Consumed(d) \in [Device -> Seq(Frame)]
    BY <1>23, HeadFrame DEF HandleMessageAck
  <2> HIDE DEF m
  <2>2. /\ messages' \in [Device -> SUBSET Msg]
        /\ unacked' \in [Device -> SUBSET Msg]
        /\ acked' \in [Device -> SUBSET Msg]
        /\ receipts' \in [Device -> SUBSET Msg]
        /\ \A e \in Device : unacked'[e] \cup acked'[e] \subseteq messages'[e]
    BY <1>23, <2>1 DEF HandleMessageAck, acknowledge_message, m
  <2>3. QED
    BY <1>23, <2>1, <2>2 DEF HandleMessageAck
<1>24. ASSUME NEW d \in Device, RefuseFrame(d) PROVE TypeOK'
  BY <1>24 DEF RefuseFrame, Drop
<1>25. ASSUME NEW d \in Device, Fault(d) PROVE TypeOK'
  <2>1. CASE Disconnect(d)
    BY <2>1 DEF Disconnect, Drop
  <2>2. CASE Crash(d)
    BY <2>2, RoundTypes DEF Crash, Drop
  <2>3. CASE FlushTimeout(d)
    BY <2>3, RoundTypes DEF FlushTimeout
  <2>4. QED
    BY <1>25, <2>1, <2>2, <2>3 DEF Fault
<1> HIDE DEF TypeOK, store, threads, tasks
<1>26. QED
  BY <1>1, <1>2, <1>3, <1>4, <1>5, <1>6, <1>7, <1>8, <1>9, <1>10, <1>11, <1>12,
     <1>13, <1>14, <1>15, <1>16, <1>17, <1>18, <1>19, <1>20, <1>21, <1>22, <1>23,
     <1>24, <1>25
  DEF Next, UserCommand, Outbox, Dispatch

(* Every row belongs to its table, every frame under way to the protocol,   *)
(* and no delivery mark outlives its message row (store.rs schema), for any *)
(* messages, threads and bounds.                                            *)
THEOREM TypeCorrect == Spec => []TypeOK
<1>1. Init => TypeOK
  <2> SUFFICES ASSUME Init PROVE TypeOK
    OBVIOUS
  <2>1. flush \in [Device -> FlushProgress]
    BY RoundTypes DEF Init
  <2>2. QED
    BY <2>1 DEF Init, TypeOK
<1>2. QED
  BY <1>1, TypeStep, PTL DEF Spec

-----------------------------------------------------------------------------
(* What a step never takes away: the rows of a thread, its tombstone, the   *)
(* receipts and the ids that have been used.                                *)
Grows ==
    \A d \in Device : /\ known[d] \subseteq known'[d]
                      /\ deleted[d] \subseteq deleted'[d]
                      /\ receipts[d] \subseteq receipts'[d]
                      /\ issued \subseteq issued'

(* No step takes back what Grows lists.                                     *)
LEMMA StepGrows == TypeOK /\ [Next]_vars => Grows
<1> SUFFICES ASSUME TypeOK, [Next]_vars PROVE Grows
  OBVIOUS
<1> USE DEF store, threads, tasks, Grows
<1>1. CASE UNCHANGED vars
  BY <1>1 DEF vars
<1>2. ASSUME NEW d \in Device, UserCommand(d) PROVE Grows
  <2>1. ASSUME NEW m \in Msg, SendText(d, m) \/ SendThreadText(d, m) \/ DeleteMessage(d, m)
        PROVE  Grows
    BY <2>1 DEF SendText, SendThreadText, DeleteMessage, enqueue_message, RemoveRows
  <2>2. ASSUME NEW t \in Thread, CreateThread(d, t) \/ DeleteThread(d, t)
        PROVE  Grows
    BY <2>2 DEF CreateThread, DeleteThread, apply_thread, Tombstones, RemoveRows, TypeOK
  <2>3. ASSUME NEW t \in Thread, HideThread(d, t) PROVE Grows
    BY <2>3 DEF HideThread, RemoveRows
  <2>4. ASSUME NEW c \in Thread \cup {Main}, DeleteConversation(d, c) PROVE Grows
    BY <2>4 DEF DeleteConversation, RemoveRows
  <2>5. ASSUME NEW b \in BOOLEAN, SetTrusted(d, b) PROVE Grows
    BY <2>5 DEF SetTrusted
  <2>6. QED
    BY <1>2, <2>1, <2>2, <2>3, <2>4, <2>5 DEF UserCommand
<1>3. ASSUME NEW d \in Device,
             EnqueueComposed(d) \/ Connect(d) \/ NoticeClosed(d) \/ Outbox(d) \/ Fault(d)
      PROVE  Grows
  BY <1>3 DEF EnqueueComposed, Connect, NoticeClosed, Outbox, Fault, enqueue_message,
              FlushThreads, SendThreadState, FlushMessages, SendPending, FlushStops,
              Disconnect, Crash, FlushTimeout
<1>4. ASSUME NEW d \in Device, Dispatch(d) PROVE Grows
  <2>1. CASE HandleThreadState(d)
    BY <2>1 DEF HandleThreadState, apply_thread, Tombstones, RemoveRows, TypeOK
  <2>2. CASE HandleThreadAck(d) \/ HandleMessageForDeletedThread(d) \/ CheckReliableMessage(d)
    BY <2>2 DEF HandleThreadAck, acknowledge_thread, HandleMessageForDeletedThread,
                CheckReliableMessage
  <2>3. CASE StoreReliableMessage(d)
    BY <2>3 DEF StoreReliableMessage, receive_queued_message, TypeOK
  <2>4. CASE HandleMessageAck(d) \/ RefuseFrame(d)
    BY <2>4 DEF HandleMessageAck, acknowledge_message, RefuseFrame
  <2>5. QED
    BY <1>4, <2>1, <2>2, <2>3, <2>4 DEF Dispatch
<1>5. QED
  BY <1>1, <1>2, <1>3, <1>4 DEF Next

(* A tombstone is never lifted, whatever announcements are still under way. *)
THEOREM TombstonesKept == Spec => TombstonesStay
<1>1. Grows => \A d \in Device : deleted[d] \subseteq deleted'[d]
  BY DEF Grows
<1>2. TypeOK /\ [Next]_vars => [\A d \in Device : deleted[d] \subseteq deleted'[d]]_vars
  BY <1>1, StepGrows
<1>3. QED
  BY <1>2, TypeCorrect, PTL DEF Spec, TombstonesStay

-----------------------------------------------------------------------------
(* The inductive invariant, conjunct by conjunct.                           *)

(* What a frame says stays true while it is under way.                      *)
LEMMA FrameStaysTrue ==
    ASSUME TypeOK, Grows, NEW d \in Device, NEW f, FrameTrue(d, f)
    PROVE  FrameTrue(d, f)'
  BY PeerFacts DEF FrameTrue, Grows

(* A step that puts nothing on a channel keeps all its frames true.         *)
LEMMA NoNewFrame ==
    ASSUME TypeOK, Grows, FramesTrue,
           \A d \in Device : UnderWay(wire', d) \subseteq UnderWay(wire, d)
    PROVE  FramesTrue'
  BY FrameStaysTrue DEF FramesTrue

(* Nor does one that adds a true frame.                                     *)
LEMMA OneNewFrame ==
    ASSUME TypeOK, Grows, FramesTrue, NEW e \in Device, NEW g, FrameTrue(e, g)',
           \A d \in Device : UnderWay(wire', d) \subseteq
               UnderWay(wire, d) \cup (IF d = e THEN {g} ELSE {})
    PROVE  FramesTrue'
  BY FrameStaysTrue DEF FramesTrue

(* Consuming the head of a channel leaves only frames that were under way.  *)
LEMMA ConsumedFrames ==
    ASSUME TypeOK, NEW d \in Device, wire[d] # <<>>, NEW e \in Device
    PROVE  UnderWay(Consumed(d), e) \subseteq UnderWay(wire, e)
<1>1. wire[d] \in Seq(Frame) /\ Head(wire[d]) \in Frame /\ Tail(wire[d]) \in Seq(Frame)
  BY DEF TypeOK
<1>2. CASE e = d
  <2>1. Consumed(d)[e] = Tail(wire[d])
    BY <1>2 DEF Consumed, TypeOK
  <2>2. ASSUME NEW i \in 1 .. Len(Tail(wire[d]))
        PROVE  i + 1 \in 1 .. Len(wire[d]) /\ Tail(wire[d])[i] = wire[d][i + 1]
    BY <1>1
  <2>3. QED
    BY <1>2, <2>1, <2>2 DEF UnderWay
<1>3. CASE e # d
  BY <1>3 DEF Consumed, TypeOK, UnderWay
<1>4. QED
  BY <1>2, <1>3

(* Pushing a frame adds at most that frame, and only on the peer's channel. *)
LEMMA PushedFrames ==
    ASSUME NEW w \in [Device -> Seq(Frame)], NEW d \in Device, NEW f \in Frame,
           NEW e \in Device
    PROVE  UnderWay(Push(w, d, f), e) \subseteq
               UnderWay(w, e) \cup (IF e = Peer(d) THEN {f} ELSE {})
<1>1. CASE e = Peer(d) /\ session[Peer(d)]
  <2>1. Push(w, d, f)[e] = Append(w[e], f) /\ w[e] \in Seq(Frame)
    BY <1>1, PeerFacts DEF Push
  <2>2. ASSUME NEW i \in 1 .. Len(Append(w[e], f))
        PROVE  \/ i \in 1 .. Len(w[e]) /\ Append(w[e], f)[i] = w[e][i]
               \/ Append(w[e], f)[i] = f
    BY <2>1
  <2>3. QED
    BY <1>1, <2>1, <2>2 DEF UnderWay
<1>2. CASE ~ (e = Peer(d) /\ session[Peer(d)])
  <2>1. Push(w, d, f)[e] = w[e]
    BY <1>2, PeerFacts DEF Push
  <2>2. QED
    BY <2>1 DEF UnderWay
<1>3. QED
  BY <1>1, <1>2

(* A true frame sent keeps all frames true.                                 *)
LEMMA Sent ==
    ASSUME TypeOK, Grows, FramesTrue, NEW d \in Device, NEW g \in Frame,
           wire' = Push(wire, d, g), NEW p, p = Peer(d), FrameTrue(p, g)'
    PROVE  FramesTrue'
<1>1. wire \in [Device -> Seq(Frame)] /\ Peer(d) \in Device
  BY PeerFacts DEF TypeOK
<1>2. \A e \in Device : UnderWay(wire', e) \subseteq
          UnderWay(wire, e) \cup (IF e = p THEN {g} ELSE {})
  BY <1>1, PushedFrames
<1>3. p \in Device
  BY <1>1
<1>4. QED
  BY <1>2, <1>3, OneNewFrame

(* So does a true frame sent in answer to the one at the head.              *)
LEMMA Answered ==
    ASSUME TypeOK, Grows, FramesTrue, NEW d \in Device, NEW g \in Frame,
           wire[d] # <<>>, wire' = Push(Consumed(d), d, g),
           NEW p, p = Peer(d), FrameTrue(p, g)'
    PROVE  FramesTrue'
<1>1. wire[d] \in Seq(Frame) /\ Tail(wire[d]) \in Seq(Frame)
  BY DEF TypeOK
<1>2. Peer(d) \in Device /\ Consumed(d) \in [Device -> Seq(Frame)]
  BY <1>1, PeerFacts DEF TypeOK, Consumed
<1>3. \A e \in Device : UnderWay(wire', e) \subseteq
          UnderWay(Consumed(d), e) \cup (IF e = Peer(d) THEN {g} ELSE {})
  BY <1>2, PushedFrames
<1>4. \A e \in Device : UnderWay(wire', e) \subseteq
          UnderWay(wire, e) \cup (IF e = p THEN {g} ELSE {})
  BY <1>3, ConsumedFrames
<1>5. p \in Device
  BY <1>2
<1>6. QED
  BY <1>4, <1>5, OneNewFrame

(* What the frame at the head of a channel says is true.                    *)
LEMMA HeadTrue ==
    ASSUME TypeOK, FramesTrue, NEW d \in Device, wire[d] # <<>>
    PROVE  FrameTrue(d, Head(wire[d]))
<1>1. wire[d] \in Seq(Frame)
  BY DEF TypeOK
<1>2. 1 \in 1 .. Len(wire[d]) /\ Head(wire[d]) = wire[d][1]
  BY <1>1
<1>3. QED
  BY <1>2 DEF FramesTrue, UnderWay

(* Every step keeps the frames under way true.                              *)
LEMMA FramesStep ==
    TypeOK /\ RowsMakeSense /\ FramesTrue /\ FlushTrue /\ [Next]_vars => FramesTrue'
<1> SUFFICES ASSUME TypeOK, RowsMakeSense, FramesTrue, FlushTrue, [Next]_vars
             PROVE  FramesTrue'
  OBVIOUS
<1>0. Grows
  BY StepGrows
<1>1. CASE UNCHANGED wire
  BY <1>0, <1>1, NoNewFrame
<1>2. ASSUME NEW d \in Device, Drop(d) PROVE FramesTrue'
  BY <1>0, <1>2, NoNewFrame DEF Drop, TypeOK, UnderWay
<1>3. ASSUME NEW d \in Device, Connect(d) PROVE FramesTrue'
  BY <1>0, <1>3, NoNewFrame DEF Connect, TypeOK, UnderWay
<1>4. ASSUME NEW d \in Device, wire' = Consumed(d), wire[d] # <<>> PROVE FramesTrue'
  BY <1>0, <1>4, ConsumedFrames, NoNewFrame
<1>5. ASSUME NEW d \in Device, SendThreadState(d) PROVE FramesTrue'
  <2>1. PICK s \in flush[d].states : wire' = Push(wire, d, ThreadState(s[1], s[2]))
    BY <1>5 DEF SendThreadState
  <2>2. s \in Thread \X BOOLEAN /\ s[1] \in known[d] /\ (s[2] => s[1] \in deleted[d])
    BY RoundTypes DEF TypeOK, FlushTrue
  <2>3. PICK g \in Frame : g = ThreadState(s[1], s[2])
    BY <2>2, FrameTypes
  <2>4. FrameTrue(Peer(d), g)
    BY <2>2, <2>3, PeerFacts DEF FrameTrue, ThreadState
  <2>5. FrameTrue(Peer(d), g)'
    BY <1>0, <2>4, FrameStaysTrue, PeerFacts
  <2>6. QED
    BY <1>0, <2>1, <2>3, <2>5, Sent
<1>6. ASSUME NEW d \in Device, SendPending(d) PROVE FramesTrue'
  <2>1. PICK m \in flush[d].ids : wire' = Push(wire, d, ReliableMessage(m))
    BY <1>6 DEF SendPending
  <2>2. m \in Msg /\ Sender[m] = d /\ m \in issued
    BY RoundTypes DEF TypeOK, FlushTrue
  <2>3. PICK g \in Frame : g = ReliableMessage(m)
    BY <2>2, FrameTypes
  <2>4. FrameTrue(Peer(d), g)
    BY <2>2, <2>3, PeerFacts DEF FrameTrue, ReliableMessage
  <2>5. FrameTrue(Peer(d), g)'
    BY <1>0, <2>4, FrameStaysTrue, PeerFacts
  <2>6. QED
    BY <1>0, <2>1, <2>3, <2>5, Sent
<1>7. ASSUME NEW d \in Device, HandleThreadState(d) PROVE FramesTrue'
  <2>1. PICK f : f = Head(wire[d])
    OBVIOUS
  <2>2. f.thread \in Thread /\ f.deleted \in BOOLEAN /\ wire[d] # <<>>
    BY <1>7, <2>1, HeadFrame DEF HandleThreadState, Incoming
  <2>3. PICK x \in BOOLEAN : x = (f.thread \in Tombstones(d, f.thread, f.deleted))
    <3>1. (f.thread \in Tombstones(d, f.thread, f.deleted)) \in BOOLEAN
      OBVIOUS
    <3>2. QED
      BY <3>1
  <2>4. PICK g \in Frame : g = ThreadAck(f.thread, x)
    BY <2>2, FrameTypes
  <2>5. wire' = Push(Consumed(d), d, g) /\ apply_thread(d, f.thread, f.deleted, FALSE)
    BY <1>7, <2>1, <2>3, <2>4 DEF HandleThreadState
  <2>6. f.thread \in known'[d] /\ (x => f.thread \in deleted'[d])
    <3>1. /\ known' = [known EXCEPT ![d] = @ \cup {f.thread}]
          /\ deleted' = [deleted EXCEPT ![d] = Tombstones(d, f.thread, f.deleted)]
      BY <2>5 DEF apply_thread
    <3>2. known \in [Device -> SUBSET Thread] /\ deleted \in [Device -> SUBSET Thread]
      BY DEF TypeOK
    <3>3. /\ known'[d] = known[d] \cup {f.thread}
          /\ deleted'[d] = Tombstones(d, f.thread, f.deleted)
      BY <3>1, <3>2
    <3>4. QED
      BY <2>3, <3>3
  <2>7. FrameTrue(Peer(d), g)'
    BY <2>4, <2>6, PeerFacts DEF FrameTrue, ThreadAck
  <2>8. QED
    BY <1>0, <2>2, <2>5, <2>7, Answered
<1>8. ASSUME NEW d \in Device, HandleMessageForDeletedThread(d) PROVE FramesTrue'
  <2>1. PICK m : m = Head(wire[d]).id
    OBVIOUS
  <2>2. m \in Msg /\ wire[d] # <<>> /\ Head(wire[d]).kind = "reliable_message"
    BY <1>8, <2>1, HeadFrame DEF HandleMessageForDeletedThread, Incoming
  <2>3. Sender[m] = Peer(d) /\ m \in issued
    BY <2>1, <2>2, HeadTrue DEF FrameTrue
  <2>4. PICK g \in Frame : g = MessageAck(m)
    BY <2>2, FrameTypes
  <2>5. Conv[m] \in deleted[d] /\ wire' = Push(Consumed(d), d, g)
    BY <1>8, <2>1, <2>4 DEF HandleMessageForDeletedThread
  <2>6. FrameTrue(Peer(d), g)
    BY <2>3, <2>4, <2>5, PeerFacts DEF FrameTrue, MessageAck
  <2>7. FrameTrue(Peer(d), g)'
    BY <1>0, <2>6, FrameStaysTrue, PeerFacts
  <2>8. QED
    BY <1>0, <2>2, <2>5, <2>7, Answered
<1>9. ASSUME NEW d \in Device, StoreReliableMessage(d) PROVE FramesTrue'
  <2>1. PICK m : m = handling[d]
    OBVIOUS
  <2>2. m \in Msg /\ Sender[m] = Peer(d) /\ m \in issued
    BY <1>9, <2>1 DEF StoreReliableMessage, RowsMakeSense, TypeOK
  <2>3. PICK g \in Frame : g = MessageAck(m)
    BY <2>2, FrameTypes
  <2>4. wire' = Push(wire, d, g) /\ receive_queued_message(d, m) /\ issued' = issued
    BY <1>9, <2>1, <2>3 DEF StoreReliableMessage
  <2>5. m \in receipts'[d]
    BY <2>4 DEF receive_queued_message, Fresh, TypeOK, store
  <2>6. FrameTrue(Peer(d), g)'
    BY <2>2, <2>3, <2>4, <2>5, PeerFacts DEF FrameTrue, MessageAck
  <2>7. QED
    BY <1>0, <2>3, <2>4, <2>6, Sent
<1>10. ASSUME NEW d \in Device, Outbox(d) PROVE FramesTrue'
  BY <1>10, <1>1, <1>5, <1>6 DEF Outbox, FlushThreads, FlushMessages, FlushStops
<1>11. ASSUME NEW d \in Device, Dispatch(d) PROVE FramesTrue'
  BY <1>11, <1>2, <1>4, <1>7, <1>8, <1>9
  DEF Dispatch, HandleThreadAck, CheckReliableMessage, HandleMessageAck, RefuseFrame, Incoming
<1>12. ASSUME NEW d \in Device, UserCommand(d) \/ EnqueueComposed(d) PROVE UNCHANGED wire
  BY <1>12 DEF UserCommand, SendText, SendThreadText, DeleteMessage, CreateThread,
     DeleteThread, HideThread, DeleteConversation, SetTrusted, EnqueueComposed
<1>13. ASSUME NEW d \in Device, NoticeClosed(d) \/ Fault(d) PROVE FramesTrue'
  BY <1>13, <1>1, <1>2 DEF NoticeClosed, Fault, Disconnect, Crash, FlushTimeout
<1>14. QED
  BY <1>1, <1>3, <1>10, <1>11, <1>12, <1>13 DEF Next, vars

(* What a round still has to send is true of the device's rows.             *)
LEMMA FlushStep ==
    TypeOK /\ RowsMakeSense /\ FlushTrue /\ [Next]_vars => FlushTrue'
<1> SUFFICES ASSUME TypeOK, RowsMakeSense, FlushTrue, [Next]_vars
             PROVE  FlushTrue'
  OBVIOUS
<1>0. Grows
  BY StepGrows
<1>1. ASSUME \A d \in Device : /\ flush'[d].states \subseteq flush[d].states
                               /\ flush'[d].ids \subseteq flush[d].ids
      PROVE  FlushTrue'
  BY <1>0, <1>1 DEF FlushTrue, Grows
<1>2. CASE UNCHANGED flush
  BY <1>1, <1>2
<1>3. ASSUME NEW d \in Device, flush' = [flush EXCEPT ![d] = Idle] PROVE FlushTrue'
  BY <1>0, <1>3 DEF FlushTrue, Grows, TypeOK, Idle
<1>4. ASSUME NEW d \in Device, FlushThreads(d) PROVE FlushTrue'
  <2>1. \A e \in Device : e # d => flush'[e] = flush[e]
    BY <1>4 DEF FlushThreads, TypeOK
  <2>2. /\ flush'[d].states = {<<t, t \in deleted[d]>> : t \in syncPending[d]}
        /\ flush'[d].ids = {}
        /\ UNCHANGED <<known, deleted, issued>>
    BY <1>4 DEF FlushThreads, TypeOK, threads
  <2>3. ASSUME NEW s \in flush'[d].states
        PROVE  s[1] \in known'[d] /\ (s[2] => s[1] \in deleted'[d])
    <3>1. PICK t \in syncPending[d] : s = <<t, t \in deleted[d]>>
      BY <2>2
    <3>2. t \in known[d] /\ s[1] = t /\ s[2] = (t \in deleted[d])
      BY <3>1 DEF RowsMakeSense
    <3>3. QED
      BY <2>2, <3>2
  <2>4. QED
    BY <1>0, <2>1, <2>2, <2>3 DEF FlushTrue, Grows
<1>5. ASSUME NEW d \in Device, SendThreadState(d) PROVE FlushTrue'
  <2>1. PICK s \in flush[d].states : flush' = [flush EXCEPT ![d].states = @ \ {s}]
    BY <1>5 DEF SendThreadState
  <2>2. flush[d] \in FlushProgress
    BY DEF TypeOK
  <2>3. /\ flush'[d].states = flush[d].states \ {s} /\ flush'[d].ids = flush[d].ids
        /\ \A e \in Device : e # d => flush'[e] = flush[e]
    BY <2>1, <2>2 DEF TypeOK, FlushProgress
  <2>4. QED
    BY <1>1, <2>3
<1>6. ASSUME NEW d \in Device, FlushMessages(d) PROVE FlushTrue'
  <2>1. /\ flush'[d].states = {}
        /\ flush'[d].ids = pending_messages(d)
        /\ \A e \in Device : e # d => flush'[e] = flush[e]
        /\ UNCHANGED issued
    BY <1>6 DEF FlushMessages, Sending, Idle, TypeOK
  <2>2. \A m \in pending_messages(d) : Sender[m] = d /\ m \in issued
    BY DEF pending_messages, RowsMakeSense
  <2>3. QED
    BY <1>0, <2>1, <2>2 DEF FlushTrue, Grows
<1>7. ASSUME NEW d \in Device, SendPending(d) PROVE FlushTrue'
  <2>1. PICK m \in flush[d].ids :
           flush' = [flush EXCEPT ![d] = Sending(flush[d].ids \ {m})]
    BY <1>7 DEF SendPending
  <2>2. /\ flush'[d].states = {} /\ flush'[d].ids = flush[d].ids \ {m}
        /\ \A e \in Device : e # d => flush'[e] = flush[e]
    BY <2>1 DEF Sending, Idle, TypeOK
  <2>3. QED
    BY <1>1, <2>2
<1>8. ASSUME NEW d \in Device, Outbox(d) PROVE FlushTrue'
  BY <1>8, <1>3, <1>4, <1>5, <1>6, <1>7 DEF Outbox, FlushStops
<1>9. ASSUME NEW d \in Device, Dispatch(d) PROVE UNCHANGED flush
  BY <1>9 DEF Dispatch, HandleThreadState, HandleThreadAck, HandleMessageForDeletedThread,
     CheckReliableMessage, StoreReliableMessage, HandleMessageAck, RefuseFrame, tasks
<1>10. ASSUME NEW d \in Device, UserCommand(d) \/ EnqueueComposed(d) PROVE UNCHANGED flush
  BY <1>10 DEF UserCommand, SendText, SendThreadText, DeleteMessage, CreateThread,
     DeleteThread, HideThread, DeleteConversation, SetTrusted, EnqueueComposed, tasks
<1>11. ASSUME NEW d \in Device, Connect(d) \/ NoticeClosed(d) \/ Fault(d) PROVE FlushTrue'
  BY <1>11, <1>2, <1>3 DEF Connect, NoticeClosed, Fault, Disconnect, Crash, FlushTimeout, tasks
<1>12. QED
  BY <1>2, <1>8, <1>9, <1>10, <1>11 DEF Next, vars, tasks

(* "Delivered" stays true: only an acknowledgement marks a message, and     *)
(* what it says is true.                                                    *)
LEMMA DeliveredStep ==
    TypeOK /\ FramesTrue /\ DeliveredMeansSaved /\ [Next]_vars => DeliveredMeansSaved'
<1> SUFFICES ASSUME TypeOK, FramesTrue, DeliveredMeansSaved, [Next]_vars
             PROVE  DeliveredMeansSaved'
  OBVIOUS
<1>0. Grows
  BY StepGrows
<1>1. \A m \in Msg : Sender[m] \in Device /\ Receiver(m) \in Device
                     /\ Receiver(m) = Peer(Sender[m])
  BY PeerFacts DEF Receiver
<1>2. ASSUME \A d \in Device : acked'[d] \subseteq acked[d] PROVE DeliveredMeansSaved'
  BY <1>0, <1>1, <1>2 DEF DeliveredMeansSaved, Grows
<1>3. CASE UNCHANGED acked
  BY <1>2, <1>3
<1>4. ASSUME NEW d \in Device, NEW ms, RemoveRows(d, ms) PROVE DeliveredMeansSaved'
  BY <1>2, <1>4 DEF RemoveRows, TypeOK
<1>5. ASSUME NEW d \in Device, HandleMessageAck(d) PROVE DeliveredMeansSaved'
  <2>1. PICK m : m = Head(wire[d]).id
    OBVIOUS
  <2>2. m \in Msg /\ FrameTrue(d, Head(wire[d])) /\ Head(wire[d]).kind = "message_ack"
    BY <1>5, <2>1, HeadFrame, HeadTrue DEF HandleMessageAck, Incoming
  <2>3. m \in receipts[Peer(d)] \/ Conv[m] \in deleted[Peer(d)]
    BY <2>1, <2>2 DEF FrameTrue
  <2>4. Sender[m] = d
    BY <2>1, <2>2 DEF FrameTrue
  <2>5. \A e \in Device : acked'[e] \subseteq acked[e] \cup (IF e = d THEN {m} ELSE {})
    BY <1>5, <2>1 DEF HandleMessageAck, acknowledge_message, TypeOK, store
  <2>6. QED
    BY <1>0, <1>1, <2>3, <2>4, <2>5 DEF DeliveredMeansSaved, Grows
<1>6. ASSUME NEW d \in Device, UserCommand(d) PROVE DeliveredMeansSaved'
  BY <1>6, <1>3, <1>4 DEF UserCommand, SendText, SendThreadText, DeleteMessage, CreateThread,
     DeleteThread, HideThread, DeleteConversation, SetTrusted, enqueue_message,
     apply_thread, store
<1>7. ASSUME NEW d \in Device, Dispatch(d) PROVE DeliveredMeansSaved'
  BY <1>7, <1>3, <1>4, <1>5 DEF Dispatch, HandleThreadState, HandleThreadAck,
     HandleMessageForDeletedThread, CheckReliableMessage, StoreReliableMessage, RefuseFrame,
     apply_thread, receive_queued_message, store
<1>8. ASSUME NEW d \in Device,
             EnqueueComposed(d) \/ Connect(d) \/ NoticeClosed(d) \/ Outbox(d) \/ Fault(d)
      PROVE  UNCHANGED acked
  BY <1>8 DEF EnqueueComposed, enqueue_message, Connect, NoticeClosed, Outbox, Fault,
     FlushThreads, SendThreadState, FlushMessages, SendPending, FlushStops, Disconnect,
     Crash, FlushTimeout, store
<1>9. QED
  BY <1>3, <1>6, <1>7, <1>8 DEF Next, vars, store

(* Two devices keep agreeing on the threads they no longer announce: an     *)
(* announcement ends only on a reply that tells of the state it announced.  *)
LEMMA SettledStep ==
    TypeOK /\ RowsMakeSense /\ FramesTrue /\ SettledThreadsAgree /\ [Next]_vars
        => SettledThreadsAgree'
<1> SUFFICES ASSUME TypeOK, RowsMakeSense, FramesTrue, SettledThreadsAgree, [Next]_vars
             PROVE  SettledThreadsAgree'
  OBVIOUS
<1>0. Grows
  BY StepGrows
<1>1. ASSUME \A d \in Device : \A t \in known'[d] \ syncPending'[d] :
                 \/ /\ t \in known[d] \ syncPending[d]
                    /\ t \in deleted'[d] => t \in deleted[d]
                 \/ /\ t \in known[Peer(d)]
                    /\ t \in deleted'[d] => t \in deleted[Peer(d)]
      PROVE  SettledThreadsAgree'
  BY <1>0, <1>1, PeerFacts DEF SettledThreadsAgree, Grows
<1>2. CASE UNCHANGED <<known, deleted, syncPending>>
  BY <1>1, <1>2
<1>3. ASSUME NEW d \in Device, NEW t \in Thread, CreateThread(d, t) \/ DeleteThread(d, t)
      PROVE  SettledThreadsAgree'
  BY <1>1, <1>3 DEF CreateThread, DeleteThread, apply_thread, Tombstones, TypeOK
<1>4. ASSUME NEW d \in Device, HandleThreadState(d) PROVE SettledThreadsAgree'
  <2>1. PICK f : f = Head(wire[d])
    OBVIOUS
  <2>2. /\ FrameTrue(d, f) /\ f.kind = "thread_state"
        /\ f.thread \in Thread /\ f.deleted \in BOOLEAN
    BY <1>4, <2>1, HeadFrame, HeadTrue DEF HandleThreadState, Incoming
  <2>3. f.thread \in known[Peer(d)] /\ (f.deleted => f.thread \in deleted[Peer(d)])
    BY <2>2 DEF FrameTrue
  <2>4. apply_thread(d, f.thread, f.deleted, FALSE)
    BY <1>4, <2>1 DEF HandleThreadState
  <2>5. /\ known' = [known EXCEPT ![d] = @ \cup {f.thread}]
        /\ syncPending' = syncPending
        /\ deleted' = [deleted EXCEPT ![d] = IF f.deleted THEN @ \cup {f.thread} ELSE @]
    BY <2>4 DEF apply_thread, Tombstones, TypeOK
  <2>6. deleted[d] \subseteq known[d]
    BY DEF RowsMakeSense
  <2>7. QED
    BY <1>1, <2>2, <2>3, <2>5, <2>6 DEF TypeOK
<1>5. ASSUME NEW d \in Device, HandleThreadAck(d) PROVE SettledThreadsAgree'
  <2>1. PICK f : f = Head(wire[d])
    OBVIOUS
  <2>2. FrameTrue(d, f) /\ f.kind = "thread_ack" /\ f.deleted \in BOOLEAN
    BY <1>5, <2>1, HeadFrame, HeadTrue DEF HandleThreadAck, Incoming
  <2>3. f.thread \in known[Peer(d)] /\ (f.deleted => f.thread \in deleted[Peer(d)])
    BY <2>2 DEF FrameTrue
  <2>4. acknowledge_thread(d, f.thread, f.deleted) \/ UNCHANGED threads
    BY <1>5, <2>1 DEF HandleThreadAck
  <2>5. CASE acknowledge_thread(d, f.thread, f.deleted)
    BY <1>1, <2>2, <2>3, <2>5 DEF acknowledge_thread, TypeOK
  <2>6. QED
    BY <1>2, <2>4, <2>5 DEF threads
<1>6. ASSUME NEW d \in Device, UserCommand(d) PROVE SettledThreadsAgree'
  BY <1>6, <1>2, <1>3 DEF UserCommand, SendText, SendThreadText, DeleteMessage, HideThread,
     DeleteConversation, SetTrusted, threads
<1>7. ASSUME NEW d \in Device, Dispatch(d) PROVE SettledThreadsAgree'
  BY <1>7, <1>2, <1>4, <1>5 DEF Dispatch, HandleMessageForDeletedThread, CheckReliableMessage,
     StoreReliableMessage, HandleMessageAck, RefuseFrame, receive_queued_message, threads
<1>8. ASSUME NEW d \in Device,
             EnqueueComposed(d) \/ Connect(d) \/ NoticeClosed(d) \/ Outbox(d) \/ Fault(d)
      PROVE  UNCHANGED threads
  BY <1>8 DEF EnqueueComposed, Connect, NoticeClosed, Outbox, Fault, FlushThreads,
     SendThreadState, FlushMessages, SendPending, FlushStops, Disconnect, Crash, FlushTimeout
<1>9. QED
  BY <1>2, <1>6, <1>7, <1>8 DEF Next, vars, threads

(* The rows of each device stay where messages and threads may have rows.   *)
LEMMA RowsStep ==
    TypeOK /\ RowsMakeSense /\ FramesTrue /\ [Next]_vars => RowsMakeSense'
<1> SUFFICES ASSUME TypeOK, RowsMakeSense, FramesTrue, [Next]_vars PROVE RowsMakeSense'
  OBVIOUS
<1>0. Grows
  BY StepGrows
<1>1. ASSUME UNCHANGED <<threads, composing, handling>>, receipts' = receipts,
             \A d \in Device : unacked'[d] \cup acked'[d] \subseteq unacked[d] \cup acked[d]
      PROVE  RowsMakeSense'
  BY <1>0, <1>1 DEF RowsMakeSense, Grows, threads
<1>2. CASE UNCHANGED <<store, threads, composing, handling>>
  BY <1>1, <1>2 DEF store
<1>3. ASSUME NEW d \in Device, NEW m \in Msg, SendText(d, m) \/ SendThreadText(d, m)
      PROVE  RowsMakeSense'
  <2>1. Sender[m] = d /\ m \in issued'
    BY <1>3 DEF SendText, SendThreadText, NextId
  <2>2. CASE SendText(d, m)
    <3>1. /\ UNCHANGED <<acked, receipts, composing, handling, threads>>
          /\ \A e \in Device : unacked'[e] \subseteq unacked[e] \cup (IF e = d THEN {m} ELSE {})
      BY <2>2 DEF SendText, enqueue_message, TypeOK, tasks
    <3>2. QED
      BY <1>0, <2>1, <3>1 DEF RowsMakeSense, Grows, threads
  <2>3. CASE SendThreadText(d, m)
    <3>1. /\ UNCHANGED <<store, handling, threads>>
          /\ \A e \in Device : composing'[e] = IF e = d THEN m ELSE composing[e]
      BY <2>3 DEF SendThreadText, TypeOK
    <3>2. QED
      BY <1>0, <2>1, <3>1 DEF RowsMakeSense, Grows, threads, store
  <2>4. QED
    BY <1>3, <2>2, <2>3
<1>4. ASSUME NEW d \in Device, NEW ms, RemoveRows(d, ms), UNCHANGED <<threads, composing, handling>>
      PROVE  RowsMakeSense'
  BY <1>1, <1>4 DEF RemoveRows, TypeOK
<1>5. ASSUME NEW d \in Device, NEW t \in Thread, NEW del \in BOOLEAN, NEW l \in BOOLEAN,
             apply_thread(d, t, del, l), UNCHANGED <<composing, handling>>
      PROVE  RowsMakeSense'
  <2>1. /\ \A e \in Device : unacked'[e] \cup acked'[e] \subseteq unacked[e] \cup acked[e]
        /\ receipts' = receipts
    BY <1>5 DEF apply_thread, RemoveRows, TypeOK, store
  <2>2. \A e \in Device : deleted'[e] \cup hidden'[e] \cup syncPending'[e] \subseteq known'[e]
    BY <1>5 DEF apply_thread, Tombstones, RowsMakeSense, TypeOK
  <2>3. QED
    BY <1>0, <1>5, <2>1, <2>2 DEF RowsMakeSense, Grows
<1>6. ASSUME NEW d \in Device, NEW t \in Thread, HideThread(d, t) PROVE RowsMakeSense'
  <2>1. \A e \in Device : unacked'[e] \cup acked'[e] \subseteq unacked[e] \cup acked[e]
    BY <1>6 DEF HideThread, RemoveRows, TypeOK
  <2>2. QED
    BY <1>0, <1>6, <2>1 DEF HideThread, RemoveRows, RowsMakeSense, Grows, TypeOK, tasks
<1>7. ASSUME NEW d \in Device, EnqueueComposed(d) PROVE RowsMakeSense'
  BY <1>0, <1>7 DEF EnqueueComposed, enqueue_message, RowsMakeSense, Grows, TypeOK, threads
<1>8. ASSUME NEW d \in Device, Crash(d) PROVE RowsMakeSense'
  BY <1>0, <1>8 DEF Crash, RowsMakeSense, Grows, TypeOK, store, threads
<1>9. ASSUME NEW d \in Device, HandleThreadState(d) PROVE RowsMakeSense'
  <2>1. Head(wire[d]).thread \in Thread /\ Head(wire[d]).deleted \in BOOLEAN
    BY <1>9, HeadFrame DEF HandleThreadState
  <2>2. QED
    BY <1>5, <1>9, <2>1 DEF HandleThreadState, tasks
<1>10. ASSUME NEW d \in Device, HandleThreadAck(d) PROVE RowsMakeSense'
  BY <1>0, <1>10 DEF HandleThreadAck, acknowledge_thread, RowsMakeSense, Grows, TypeOK,
     store, threads, tasks
<1>11. ASSUME NEW d \in Device, CheckReliableMessage(d) PROVE RowsMakeSense'
  <2>1. PICK m : m = Head(wire[d]).id
    OBVIOUS
  <2>2. Sender[m] = Peer(d) /\ m \in issued
    BY <1>11, <2>1, HeadTrue DEF CheckReliableMessage, Incoming, FrameTrue
  <2>3. handling' = [handling EXCEPT ![d] = m]
    BY <1>11, <2>1 DEF CheckReliableMessage
  <2>4. QED
    BY <1>0, <1>11, <2>2, <2>3 DEF CheckReliableMessage, RowsMakeSense, Grows, TypeOK,
       store, threads
<1>12. ASSUME NEW d \in Device, StoreReliableMessage(d) PROVE RowsMakeSense'
  <2>1. Sender[handling[d]] = Peer(d) /\ handling[d] \in issued
    BY <1>12 DEF StoreReliableMessage, RowsMakeSense
  <2>2. /\ \A e \in Device : e # d => receipts'[e] = receipts[e]
        /\ receipts'[d] \subseteq receipts[d] \cup {handling[d]}
        /\ \A e \in Device : hidden'[e] \subseteq hidden[e]
        /\ UNCHANGED <<unacked, acked, known, deleted, syncPending, composing>>
        /\ \A e \in Device : handling'[e] = handling[e] \/ handling'[e] = None
    BY <1>12 DEF StoreReliableMessage, receive_queued_message, TypeOK, store, threads
  <2>3. QED
    BY <1>0, <2>1, <2>2 DEF RowsMakeSense, Grows
<1>13. ASSUME NEW d \in Device, HandleMessageAck(d) PROVE RowsMakeSense'
  BY <1>1, <1>13 DEF HandleMessageAck, acknowledge_message, TypeOK, store, tasks
<1>14. ASSUME NEW d \in Device, UserCommand(d) PROVE RowsMakeSense'
  <2>1. ASSUME NEW t \in Thread, CreateThread(d, t) \/ DeleteThread(d, t) PROVE RowsMakeSense'
    BY <1>5, <2>1 DEF CreateThread, DeleteThread, tasks
  <2>2. ASSUME NEW m \in Msg, DeleteMessage(d, m) PROVE RowsMakeSense'
    BY <1>4, <2>2 DEF DeleteMessage, tasks
  <2>3. ASSUME NEW c \in Thread \cup {Main}, DeleteConversation(d, c) PROVE RowsMakeSense'
    BY <1>4, <2>3 DEF DeleteConversation, tasks
  <2>4. ASSUME NEW b \in BOOLEAN, SetTrusted(d, b) PROVE RowsMakeSense'
    BY <1>2, <2>4 DEF SetTrusted, tasks
  <2>5. QED
    BY <1>3, <1>6, <1>14, <2>1, <2>2, <2>3, <2>4 DEF UserCommand
<1>15. ASSUME NEW d \in Device, Dispatch(d) PROVE RowsMakeSense'
  BY <1>2, <1>9, <1>10, <1>11, <1>12, <1>13, <1>15
  DEF Dispatch, HandleMessageForDeletedThread, RefuseFrame, tasks
<1>16. ASSUME NEW d \in Device, Connect(d) \/ NoticeClosed(d) \/ Outbox(d) \/ Fault(d)
       PROVE  RowsMakeSense'
  BY <1>2, <1>8, <1>16 DEF Connect, NoticeClosed, Outbox, Fault, FlushThreads,
     SendThreadState, FlushMessages, SendPending, FlushStops, Disconnect, FlushTimeout, tasks
<1>17. QED
  BY <1>2, <1>7, <1>14, <1>15, <1>16 DEF Next, vars, tasks

-----------------------------------------------------------------------------
(* The invariant holds at the start, and every step keeps it.               *)
LEMMA InvariantInit == Init => IndInv
<1> SUFFICES ASSUME Init PROVE IndInv
  OBVIOUS
<1>1. TypeOK
  BY RoundTypes DEF Init, TypeOK
<1>2. FramesTrue
  BY DEF Init, FramesTrue, UnderWay
<1>3. FlushTrue
  BY DEF Init, FlushTrue, Idle
<1>4. RowsMakeSense
  BY DEF Init, RowsMakeSense
<1>5. DeliveredMeansSaved
  BY DEF Init, DeliveredMeansSaved
<1>6. SettledThreadsAgree
  BY DEF Init, SettledThreadsAgree
<1>7. QED
  BY <1>1, <1>2, <1>3, <1>4, <1>5, <1>6 DEF IndInv

LEMMA InvariantStep == IndInv /\ [Next]_vars => IndInv'
  BY TypeStep, RowsStep, FramesStep, FlushStep, DeliveredStep, SettledStep DEF IndInv

(* The invariants of the queue, for any messages, threads and bounds.       *)
LEMMA Invariant == Spec => []IndInv
  BY InvariantInit, InvariantStep, PTL DEF Spec

(* A message marked delivered is on the peer's disk, or the peer has        *)
(* deleted its thread.                                                      *)
THEOREM DeliveredIsSaved == Spec => []DeliveredMeansSaved
  BY Invariant, PTL DEF IndInv

(* The devices agree on every thread that neither announces any more.       *)
THEOREM ThreadsSettle == Spec => []SettledThreadsAgree
  BY Invariant, PTL DEF IndInv

(* A message the device has a receipt for is not stored again.              *)
THEOREM ReceivedOnce == Spec => NoResurrection
<1> DEFINE Step == \A d \in Device : \A m \in messages'[d] \ messages[d] :
                      Sender[m] # d => m \notin receipts[d]
<1>1. ASSUME IndInv, [Next]_vars PROVE [Step]_vars
  <2>1. ASSUME \A d \in Device : messages'[d] \subseteq messages[d] PROVE Step
    BY <2>1
  <2>2. CASE UNCHANGED messages
    BY <2>1, <2>2
  <2>3. ASSUME NEW d \in Device, NEW ms, RemoveRows(d, ms) PROVE Step
    BY <1>1, <2>1, <2>3 DEF RemoveRows, IndInv, TypeOK
  <2>4. ASSUME NEW d \in Device, NEW m, Sender[m] = d, enqueue_message(d, m) PROVE Step
    BY <1>1, <2>4 DEF enqueue_message, IndInv, TypeOK
  <2>5. ASSUME NEW d \in Device, EnqueueComposed(d) PROVE Step
    BY <1>1, <2>4, <2>5 DEF EnqueueComposed, IndInv, RowsMakeSense
  <2>6. ASSUME NEW d \in Device, StoreReliableMessage(d) PROVE Step
    BY <1>1, <2>6 DEF StoreReliableMessage, receive_queued_message, Fresh, store,
       IndInv, TypeOK
  <2>7. ASSUME NEW d \in Device, UserCommand(d) PROVE Step
    BY <2>2, <2>3, <2>4, <2>7 DEF UserCommand, SendText, NextId, SendThreadText,
       DeleteMessage, CreateThread, DeleteThread, HideThread, DeleteConversation,
       SetTrusted, apply_thread, store
  <2>8. ASSUME NEW d \in Device, Dispatch(d) PROVE Step
    BY <2>2, <2>3, <2>6, <2>8 DEF Dispatch, HandleThreadState, HandleThreadAck,
       HandleMessageForDeletedThread, CheckReliableMessage, HandleMessageAck, RefuseFrame,
       apply_thread, acknowledge_message, store
  <2>9. ASSUME NEW d \in Device, Connect(d) \/ NoticeClosed(d) \/ Outbox(d) \/ Fault(d)
        PROVE  UNCHANGED messages
    BY <2>9 DEF Connect, NoticeClosed, Outbox, Fault, FlushThreads, SendThreadState,
       FlushMessages, SendPending, FlushStops, Disconnect, Crash, FlushTimeout, store
  <2>10. QED
    BY <1>1, <2>2, <2>5, <2>7, <2>8, <2>9 DEF Next, vars, store
<1>2. QED
  BY <1>1, Invariant, PTL DEF Spec, NoResurrection

-----------------------------------------------------------------------------
(* The queue implements the contract of Messaging: a message is submitted   *)
(* by a command, saved by the handler of the first copy that is not for a   *)
(* deleted thread, and confirmed by the handler of its acknowledgement;     *)
(* every other step only deletes, or changes nothing the contract shows.    *)
Saved     == {m \in Msg : m \in receipts[Receiver(m)]}
Delivered == {m \in Msg : m \in acked[Sender[m]]}
Closed    == {m \in Msg : Conv[m] \in deleted[Receiver(m)]}

(* Every step of the queue is a step of the contract, or none.              *)
LEMMA ContractStep == IndInv /\ [Next]_vars => [Contract!Next]_(Contract!vars)
<1> SUFFICES ASSUME IndInv, [Next]_vars PROVE [Contract!Next]_(Contract!vars)
  OBVIOUS
<1> USE DEF Contract!vars, Saved, Delivered, Closed
<1>0. Grows /\ TypeOK
  BY StepGrows DEF IndInv
<1>1. \A m \in Msg : /\ Sender[m] \in Device /\ Receiver(m) \in Device
                     /\ Receiver(m) = Peer(Sender[m])
  BY PeerFacts DEF Receiver
<1>2. ASSUME issued' = issued, receipts' = receipts,
             \A d \in Device : acked'[d] \subseteq acked[d]
      PROVE  Contract!Next
  <2>1. Closed \subseteq Closed' /\ Closed' \in SUBSET Msg
    BY <1>0, <1>1 DEF Grows
  <2>2. Delivered' \subseteq Delivered
    BY <1>1, <1>2
  <2>3. PICK S \in SUBSET Msg : S = Closed'
    BY <2>1
  <2>4. PICK F \in SUBSET Msg : F = Delivered \ Delivered'
    OBVIOUS
  <2>5. Contract!Delete(S, F)
    BY <1>2, <2>1, <2>2, <2>3, <2>4 DEF Contract!Delete
  <2>6. QED
    BY <2>5 DEF Contract!Next
<1>3. ASSUME UNCHANGED <<issued, store>> PROVE Contract!Next
  BY <1>2, <1>3 DEF store
<1>4. ASSUME NEW d \in Device, NEW ms, RemoveRows(d, ms), issued' = issued
      PROVE  Contract!Next
  BY <1>0, <1>2, <1>4 DEF RemoveRows, TypeOK
<1>5. ASSUME NEW d \in Device, NEW m \in Msg, SendText(d, m) \/ SendThreadText(d, m)
      PROVE  Contract!Next
  <2>1. /\ m \notin issued /\ issued' = issued \cup {m}
        /\ UNCHANGED <<acked, receipts, deleted>>
    BY <1>5 DEF SendText, SendThreadText, NextId, enqueue_message, store, threads
  <2>2. UNCHANGED <<Saved, Delivered, Closed>>
    BY <2>1
  <2>3. Contract!Submit(m)
    BY <2>1, <2>2 DEF Contract!Submit
  <2>4. QED
    BY <2>3 DEF Contract!Next
<1>6. ASSUME NEW d \in Device, EnqueueComposed(d) PROVE Contract!Next
  BY <1>2, <1>6 DEF EnqueueComposed, enqueue_message
<1>7. ASSUME NEW d \in Device, StoreReliableMessage(d) PROVE Contract!Next
  <2>1. PICK m : m = handling[d]
    OBVIOUS
  <2>2. m \in Msg /\ Sender[m] = Peer(d) /\ m \in issued /\ Receiver(m) = d
    BY <1>0, <1>1, <1>7, <2>1, PeerFacts
    DEF StoreReliableMessage, IndInv, RowsMakeSense, TypeOK
  <2>3. CASE Fresh(d, m)
    <3>1. /\ receipts' = [receipts EXCEPT ![d] = @ \cup {m}]
          /\ UNCHANGED <<acked, deleted, issued>>
      BY <1>7, <2>1, <2>3 DEF StoreReliableMessage, receive_queued_message
    <3>2. m \notin Saved /\ UNCHANGED <<Delivered, Closed>>
      BY <2>2, <2>3, <3>1 DEF Fresh
    <3>3. Saved' = Saved \cup {m}
      BY <1>0, <1>1, <2>2, <3>1 DEF TypeOK
    <3>4. Contract!Save(m)
      BY <2>2, <3>1, <3>2, <3>3 DEF Contract!Save
    <3>5. QED
      BY <2>2, <3>4 DEF Contract!Next
  <2>4. CASE ~Fresh(d, m)
    BY <1>3, <1>7, <2>1, <2>4 DEF StoreReliableMessage, receive_queued_message
  <2>5. QED
    BY <2>3, <2>4
<1>8. ASSUME NEW d \in Device, HandleMessageAck(d) PROVE Contract!Next
  <2>1. PICK m : m = Head(wire[d]).id
    OBVIOUS
  <2>2. m \in Msg /\ FrameTrue(d, Head(wire[d])) /\ Head(wire[d]).kind = "message_ack"
    BY <1>0, <1>8, <2>1, HeadFrame, HeadTrue DEF HandleMessageAck, Incoming, IndInv
  <2>3. /\ Sender[m] = d /\ m \in issued
        /\ m \in receipts[Peer(d)] \/ Conv[m] \in deleted[Peer(d)]
    BY <2>1, <2>2 DEF FrameTrue
  <2>4. m \in Saved \cup Closed
    BY <1>1, <2>2, <2>3
  <2>5. CASE UNCHANGED store
    BY <1>3, <1>8, <2>5 DEF HandleMessageAck
  <2>6. CASE acked' = [acked EXCEPT ![d] = @ \cup {m}] /\ UNCHANGED receipts
    <3>1. Delivered' = Delivered \cup {m} /\ UNCHANGED <<Saved, Closed, issued>>
      BY <1>0, <1>1, <1>8, <2>2, <2>3, <2>6 DEF HandleMessageAck, TypeOK, threads
    <3>2. Contract!Confirm(m)
      BY <2>3, <2>4, <3>1 DEF Contract!Confirm
    <3>3. QED
      BY <2>2, <3>2 DEF Contract!Next
  <2>7. CASE acked' = acked /\ UNCHANGED receipts
    BY <1>2, <1>8, <2>7 DEF HandleMessageAck
  <2>8. QED
    BY <1>8, <2>1, <2>5, <2>6, <2>7 DEF HandleMessageAck, acknowledge_message
<1>9. ASSUME NEW d \in Device, UserCommand(d) PROVE Contract!Next
  BY <1>3, <1>4, <1>5, <1>9 DEF UserCommand, DeleteMessage, CreateThread, DeleteThread,
     HideThread, DeleteConversation, SetTrusted, apply_thread, store
<1>10. ASSUME NEW d \in Device, Dispatch(d) PROVE Contract!Next
  BY <1>3, <1>4, <1>7, <1>8, <1>10 DEF Dispatch, HandleThreadState, HandleThreadAck,
     HandleMessageForDeletedThread, CheckReliableMessage, RefuseFrame, apply_thread, store
<1>11. ASSUME NEW d \in Device, Connect(d) \/ NoticeClosed(d) \/ Outbox(d) \/ Fault(d)
       PROVE  UNCHANGED <<issued, store>>
  BY <1>11 DEF Connect, NoticeClosed, Outbox, Fault, FlushThreads, SendThreadState,
     FlushMessages, SendPending, FlushStops, Disconnect, Crash, FlushTimeout
<1>12. CASE UNCHANGED vars
  BY <1>3, <1>12 DEF vars
<1>13. QED
  BY <1>3, <1>6, <1>9, <1>10, <1>11, <1>12 DEF Next

(* Nothing is submitted, saved, delivered or closed at the start.           *)
LEMMA ContractInit == Init => Contract!Init
<1>1. \A m \in Msg : Sender[m] \in Device /\ Receiver(m) \in Device
  BY PeerFacts DEF Receiver
<1>2. ASSUME Init PROVE \A m \in Msg : /\ m \notin receipts[Receiver(m)]
                                      /\ m \notin acked[Sender[m]]
                                      /\ Conv[m] \notin deleted[Receiver(m)]
  BY <1>1, <1>2 DEF Init
<1>3. Init => issued = {}
  BY DEF Init
<1>4. QED
  BY <1>2, <1>3 DEF Contract!Init

(* The queue implements the contract of Messaging: saved at most once, only *)
(* what was sent, never forgotten, and confirmed only after the save.       *)
THEOREM Refinement == Spec => KeepsContract
  BY ContractInit, ContractStep, Invariant, PTL DEF Spec, KeepsContract, Contract!Spec

=============================================================================
