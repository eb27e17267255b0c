---------------------------- MODULE DiscoveryProofs ----------------------------
(***************************************************************************)
(* The safety invariants of Discovery, for any set of devices, any number  *)
(* of runs and beacons of each, any time-out and any delay.                *)
(***************************************************************************)
EXTENDS Discovery, TLAPS

(* What the table and the addresses rest on: a device of the table has an   *)
(* address, and the address of a device is one of its own instances.        *)
Addressed ==
    /\ \A d \in running : starts[d] > 0
    /\ \A e \in peers : byDevice[Dev(e.inst)] # NoAddr
    /\ \A d \in Device : byDevice[d] # NoAddr => Dev(byDevice[d].addr) = d

(* What is still under way of a device that ended is as old as its end, and *)
(* what was heard of it was heard within the longest delay.                 *)
Fading ==
    \A d \in Device \ running :
        /\ \A b \in net : Dev(b.inst) = d => silence[d].ended <= b.age
        /\ \A e \in peers : Dev(e.inst) = d /\ e.online => silence[d].ended <= e.age + MaxDelay

(* The bounds are numbers, and an entry is kept for longer than Timeout.    *)
LEMMA Bounds ==
    /\ Timeout \in Nat \ {0} /\ MaxDelay \in Nat /\ MaxSeq \in Nat \ {0}
    /\ ForgetAfter \in Nat /\ Timeout < ForgetAfter
    /\ EndedMost \in Nat
    /\ Starts \in [Device -> Nat]
  BY TimeoutAssumption, BoundAssumption DEF ForgetAfter, EndedMost

(* Counting up to a bound.                                                  *)
LEMMA LaterTypes ==
    ASSUME NEW most \in Nat, NEW n \in 0 .. most
    PROVE  /\ Later(n, most) \in 0 .. most
           /\ Later(n, most) <= n + 1
           /\ n < most => Later(n, most) = n + 1
  BY DEF Later

(* An instance is a device and the number of one of its runs.               *)
LEMMA InstanceTypes ==
    /\ \A i \in Instance : Dev(i) \in Device
    /\ \A d \in Device, n \in Nat : 0 < n /\ n <= Starts[d] => <<d, n>> \in Instance
<1>1. ASSUME NEW i \in Instance PROVE Dev(i) \in Device
  <2>1. PICK d \in Device : i \in {d} \X (1 .. Starts[d])
    BY DEF Instance
  <2> QED
    BY <2>1 DEF Dev
<1>2. ASSUME NEW d \in Device, NEW n \in Nat, 0 < n, n <= Starts[d] PROVE <<d, n>> \in Instance
  <2>1. <<d, n>> \in {d} \X (1 .. Starts[d])
    BY <1>2, Bounds
  <2> QED
    BY <2>1 DEF Instance
<1> QED
  BY <1>1, <1>2

Inductive == TypeOK /\ Addressed /\ Fading /\ OnlineIsBacked /\ EventsTell

(* A beacon that is taken in makes an entry of its instance.                *)
LEMMA EntryTypes ==
    ASSUME TypeOK, NEW b \in net
    PROVE  /\ b \in Beacon /\ b.inst \in Instance /\ Dev(b.inst) \in Device
           /\ Entry(b) \in PeerEntry /\ Entry(b).inst = b.inst
           /\ Entry(b).online = TRUE /\ Entry(b).age = 0
<1>1. b \in Beacon
  BY DEF TypeOK
<1>2. b.inst \in Instance /\ b.seq \in 1 .. MaxSeq /\ Dev(b.inst) \in Device
  BY <1>1, InstanceTypes DEF Beacon
<1>3. 0 \in 0 .. ForgetAfter
  BY Bounds
<1> QED
  BY <1>1, <1>2, <1>3 DEF Entry, PeerEntry

(* What the two handlers of a beacon have in common: the entry of the       *)
(* beacon takes the place of entries that are offline, or of its own.       *)
LEMMA HeardStep ==
    ASSUME Inductive, NEW b \in net, NEW dropped \in SUBSET peers,
           \A e \in dropped : ~e.online \/ e.inst = b.inst,
           \A e \in peers : e.inst = b.inst => e \in dropped,
           peers' = (peers \ dropped) \cup {Entry(b)},
           byDevice' \in [Device -> PeerAddr \cup {NoAddr}],
           \A d \in Device : d # Dev(b.inst) => byDevice'[d] = byDevice[d],
           byDevice'[Dev(b.inst)] # NoAddr,
           byDevice'[Dev(b.inst)].addr = b.inst,
           told' = ToldOnline(b.inst), Heard(Dev(b.inst)), UNCHANGED <<sending, net>>
    PROVE  Inductive'
<1> USE DEF Inductive
<1>1. /\ b \in Beacon /\ b.inst \in Instance /\ Dev(b.inst) \in Device
      /\ Entry(b) \in PeerEntry /\ Entry(b).inst = b.inst
      /\ Entry(b).online = TRUE /\ Entry(b).age = 0
  BY EntryTypes
<1>2. silence' \in [Device -> [ended : 0 .. EndedMost, unheard : 0 .. Timeout]]
      /\ \A d \in Device : silence'[d].ended = silence[d].ended
  <2>1. 0 \in 0 .. Timeout
    BY Bounds
  <2> QED
    BY <2>1 DEF TypeOK, Heard
<1>3. \A e \in peers' : e = Entry(b) \/ (e \in peers /\ e.inst # b.inst)
  OBVIOUS
<1>4. TypeOK'
  <2>1. peers' \subseteq PeerEntry
    BY <1>1 DEF TypeOK
  <2>2. \A e, f \in peers' : e.inst = f.inst => e = f
    BY <1>1, <1>3 DEF TypeOK
  <2>3. told' \subseteq Instance
    BY <1>1 DEF TypeOK, ToldOnline
  <2> QED
    BY <1>2, <2>1, <2>2, <2>3 DEF TypeOK, sending
<1>5. Addressed'
  <2>1. ASSUME NEW e \in peers' PROVE byDevice'[Dev(e.inst)] # NoAddr
    <3>1. CASE Dev(e.inst) = Dev(b.inst)
      BY <3>1
    <3>2. CASE Dev(e.inst) # Dev(b.inst)
      <4>1. e \in peers /\ Dev(e.inst) \in Device
        BY <1>1, <1>3, <3>2, InstanceTypes DEF TypeOK, PeerEntry
      <4> QED
        BY <3>2, <4>1 DEF Addressed
    <3> QED
      BY <3>1, <3>2
  <2>2. \A d \in Device : byDevice'[d] # NoAddr => Dev(byDevice'[d].addr) = d
    BY DEF Addressed
  <2> QED
    BY <2>1, <2>2 DEF Addressed, sending
<1>6. Fading'
  <2>1. ASSUME NEW d \in Device \ running, NEW e \in peers', Dev(e.inst) = d, e.online
        PROVE  silence'[d].ended <= e.age + MaxDelay
    <3>1. CASE e = Entry(b)
      <4>1. silence[d].ended <= b.age /\ b.age \in 0 .. MaxDelay
        BY <1>1, <2>1, <3>1 DEF Fading, Beacon
      <4> QED
        BY <1>1, <1>2, <3>1, <4>1, Bounds DEF TypeOK
    <3>2. CASE e \in peers
      BY <1>2, <2>1, <3>2 DEF Fading
    <3> QED
      BY <1>3, <3>1, <3>2
  <2> QED
    BY <1>2, <2>1 DEF Fading, sending
<1>7. OnlineIsBacked'
  <2> SUFFICES ASSUME NEW d \in Device, byDevice'[d] # NoAddr, byDevice'[d].online
               PROVE  \E e \in peers' : e.inst = byDevice'[d].addr /\ e.online /\ e.age <= Timeout
    BY DEF OnlineIsBacked, Online
  <2>1. CASE d = Dev(b.inst)
    BY <1>1, <2>1, Bounds
  <2>2. CASE d # Dev(b.inst)
    <3>1. PICK e \in peers : e.inst = byDevice[d].addr /\ e.online /\ e.age <= Timeout
      BY <2>2 DEF OnlineIsBacked, Online
    <3>2. CASE e.inst = b.inst
      <4>1. Entry(b).inst = byDevice'[d].addr
        BY <1>1, <2>2, <3>1, <3>2
      <4>2. Entry(b).age <= Timeout
        BY <1>1, Bounds
      <4> QED
        BY <1>1, <4>1, <4>2
    <3>3. CASE e.inst # b.inst
      BY <2>2, <3>1, <3>3
    <3> QED
      BY <3>2, <3>3
  <2> QED
    BY <2>1, <2>2
<1>8. EventsTell'
  <2>1. {e.inst : e \in {x \in peers' : x.online}} = {e.inst : e \in {x \in peers : x.online}} \cup {b.inst}
    BY <1>1
  <2> QED
    BY <2>1 DEF EventsTell, ToldOnline
<1> QED
  BY <1>4, <1>5, <1>6, <1>7, <1>8

(* A sweep takes the silent entries offline, and their devices with them.   *)
LEMMA SweepStep == Inductive /\ Sweep => Inductive'
<1> SUFFICES ASSUME Inductive, Sweep PROVE Inductive'
  OBVIOUS
<1> USE DEF Inductive
<1> DEFINE off(e) == [e EXCEPT !.online = FALSE]
<1>1. Silent \subseteq peers /\ Expired \subseteq peers /\ UNCHANGED <<sending, net, silence>>
  BY DEF Silent, Expired, Sweep
<1>2. \A e \in Silent : off(e) \in PeerEntry /\ off(e).inst = e.inst /\ off(e).age = e.age /\ off(e).online = FALSE
  <2>1. \A e \in PeerEntry : off(e) \in PeerEntry /\ off(e).inst = e.inst /\ off(e).age = e.age /\ off(e).online = FALSE
    BY DEF PeerEntry
  <2> QED
    BY <1>1, <2>1 DEF TypeOK
<1> HIDE DEF off
<1>3. peers' = (peers \ (Silent \cup Expired)) \cup {off(e) : e \in Silent}
  BY DEF Sweep, off
<1>4. ASSUME NEW f \in peers'
      PROVE  \/ f \in peers /\ f \notin Silent
             \/ \E e \in Silent : f = off(e) /\ f.inst = e.inst /\ ~f.online
  BY <1>2, <1>3
<1>5. ASSUME NEW d \in Device
      PROVE  byDevice'[d] = IF d \in Unreachable THEN [byDevice[d] EXCEPT !.online = FALSE] ELSE byDevice[d]
  BY DEF Sweep
<1>6. ASSUME NEW d \in Unreachable
      PROVE  d \in Device /\ byDevice[d] \in PeerAddr
  <2>1. PICK e \in Silent : d = Dev(e.inst)
    BY DEF Unreachable
  <2>2. e.inst \in Instance /\ e \in peers
    BY <1>1 DEF TypeOK, PeerEntry
  <2>3. d \in Device
    BY <2>1, <2>2, InstanceTypes
  <2> QED
    BY <2>1, <2>2, <2>3 DEF TypeOK, Addressed
<1>7. ASSUME NEW d \in Unreachable
      PROVE  /\ byDevice'[d] \in PeerAddr /\ byDevice'[d].addr = byDevice[d].addr
             /\ byDevice'[d].online = FALSE
  BY <1>5, <1>6 DEF PeerAddr
<1>8. TypeOK'
  <2>1. peers' \subseteq PeerEntry
    BY <1>2, <1>3 DEF TypeOK
  <2>2. ASSUME NEW f \in peers', NEW g \in peers', f.inst = g.inst PROVE f = g
    <3>1. \A x, y \in peers : x.inst = y.inst => x = y
      BY DEF TypeOK
    <3>2. CASE f \in peers /\ f \notin Silent
      BY <1>1, <1>4, <2>2, <3>1, <3>2
    <3>3. CASE \E e \in Silent : f = off(e) /\ f.inst = e.inst
      BY <1>1, <1>4, <2>2, <3>1, <3>3
    <3> QED
      BY <1>4, <3>2, <3>3
  <2>3. byDevice' \in [Device -> PeerAddr \cup {NoAddr}]
    <3>1. \A d \in Device : byDevice'[d] \in PeerAddr \cup {NoAddr}
      BY <1>5, <1>7 DEF TypeOK
    <3> QED
      BY <3>1 DEF Sweep
  <2>4. told' \subseteq Instance
    BY DEF Sweep, TypeOK
  <2> QED
    BY <1>1, <2>1, <2>2, <2>3, <2>4 DEF TypeOK, sending
<1>9. Addressed'
  <2>1. \A d \in Device : byDevice[d] # NoAddr => byDevice'[d] # NoAddr
    BY <1>5, <1>7, NoAddrAssumption
  <2>2. \A f \in peers' : \E e \in peers : f.inst = e.inst
    BY <1>1, <1>4
  <2>3. \A e \in peers : Dev(e.inst) \in Device
    BY InstanceTypes DEF TypeOK, PeerEntry
  <2>4. ASSUME NEW f \in peers' PROVE byDevice'[Dev(f.inst)] # NoAddr
    BY <2>1, <2>2, <2>3 DEF Addressed
  <2>5. ASSUME NEW d \in Device, byDevice'[d] # NoAddr PROVE Dev(byDevice'[d].addr) = d
    <3>1. CASE d \in Unreachable
      BY <1>6, <1>7, <3>1, NoAddrAssumption DEF Addressed
    <3>2. CASE d \notin Unreachable
      BY <1>5, <2>5, <3>2 DEF Addressed
    <3> QED
      BY <3>1, <3>2
  <2> QED
    BY <1>1, <2>4, <2>5 DEF Addressed, sending
<1>10. Fading'
  BY <1>1, <1>4 DEF Fading, sending
<1>11. OnlineIsBacked'
  <2> SUFFICES ASSUME NEW d \in Device, byDevice'[d] # NoAddr, byDevice'[d].online
               PROVE  \E e \in peers' : e.inst = byDevice'[d].addr /\ e.online /\ e.age <= Timeout
    BY DEF OnlineIsBacked, Online
  <2>1. d \notin Unreachable /\ byDevice'[d] = byDevice[d]
    BY <1>5, <1>7
  <2>2. PICK e \in peers : e.inst = byDevice[d].addr /\ e.online /\ e.age <= Timeout
    BY <2>1 DEF OnlineIsBacked, Online
  <2>3. Dev(e.inst) = d
    BY <2>1, <2>2 DEF Addressed
  <2>4. e \notin Silent
    BY <2>1, <2>3 DEF Unreachable
  <2>5. e \notin Expired
    BY <2>2 DEF Expired
  <2> QED
    BY <1>3, <2>1, <2>2, <2>4, <2>5
<1>12. EventsTell'
  <2>1. told' = told \ {e.inst : e \in Silent}
    BY DEF Sweep
  <2>2. \A i : (\E e \in peers' : e.online /\ e.inst = i) <=>
               (\E e \in peers : e.online /\ e.inst = i /\ e \notin Silent)
    <3>1. \A e \in peers' : e.online => e \in peers /\ e \notin Silent
      BY <1>4
    <3>2. \A e \in peers : e.online /\ e \notin Silent => e \in peers'
      BY <1>3 DEF Expired
    <3> QED
      BY <3>1, <3>2
  <2>3. \A i : i \in told <=> \E e \in peers : e.online /\ e.inst = i
    BY DEF EventsTell
  <2>4. \A i : i \in told' <=> \E e \in peers' : e.online /\ e.inst = i
    BY <1>1, <2>1, <2>2, <2>3 DEF TypeOK, Silent
  <2> QED
    BY <2>4 DEF EventsTell
<1> QED
  BY <1>8, <1>9, <1>10, <1>11, <1>12

(* When time passes no entry is silent: what is online has been heard       *)
(* within the time-out.                                                     *)
LEMMA TickStep == Inductive /\ Tick => Inductive'
<1> SUFFICES ASSUME Inductive, Tick PROVE Inductive'
  OBVIOUS
<1> USE DEF Inductive
<1> DEFINE aged(e) == [e EXCEPT !.age = Later(e.age, ForgetAfter)]
           older(b) == [b EXCEPT !.age = b.age + 1]
<1>1. Silent = {} /\ UNCHANGED <<sending, byDevice, told>>
  BY DEF Tick
<1>2. \A e \in PeerEntry : /\ aged(e) \in PeerEntry /\ aged(e).inst = e.inst /\ aged(e).online = e.online
                          /\ aged(e).lastSeq = e.lastSeq /\ aged(e).age = Later(e.age, ForgetAfter)
  BY Bounds, LaterTypes DEF PeerEntry
<1>3. peers' = {aged(e) : e \in peers}
  BY DEF Tick
<1>4. net' = {older(b) : b \in {x \in net : x.age < MaxDelay}}
  BY DEF Tick
<1>5. \A b \in Beacon : b.age < MaxDelay =>
         older(b) \in Beacon /\ older(b).inst = b.inst /\ older(b).age = b.age + 1
  BY Bounds DEF Beacon
<1> DEFINE counted(d) == [ended   |-> IF d \in running THEN 0 ELSE Later(silence[d].ended, EndedMost),
                         unheard |-> Later(silence[d].unheard, Timeout)]
<1>6. silence' = [d \in Device |-> counted(d)]
  BY DEF Tick
<1>7. ASSUME NEW d \in Device
      PROVE  /\ silence'[d] \in [ended : 0 .. EndedMost, unheard : 0 .. Timeout]
             /\ silence[d].ended \in 0 .. EndedMost
             /\ silence'[d].ended <= silence[d].ended + 1
  <2> DEFINE ended   == IF d \in running THEN 0 ELSE Later(silence[d].ended, EndedMost)
             unheard == Later(silence[d].unheard, Timeout)
  <2>1. silence[d].ended \in 0 .. EndedMost /\ silence[d].unheard \in 0 .. Timeout
    BY DEF TypeOK
  <2>2. unheard \in 0 .. Timeout
    BY <2>1, Bounds, LaterTypes
  <2>3. Later(silence[d].ended, EndedMost) \in 0 .. EndedMost
        /\ Later(silence[d].ended, EndedMost) <= silence[d].ended + 1
    BY <2>1, Bounds, LaterTypes
  <2>4. ended \in 0 .. EndedMost /\ ended <= silence[d].ended + 1
    BY <2>1, <2>3, Bounds
  <2>5. silence'[d] = [ended |-> ended, unheard |-> unheard]
    BY <1>6
  <2> HIDE DEF ended, unheard
  <2> QED
    BY <2>1, <2>2, <2>4, <2>5
<1> HIDE DEF aged, older, counted
<1>8. ASSUME NEW f \in peers'
      PROVE  \E e \in peers : f = aged(e) /\ f.inst = e.inst /\ f.online = e.online
                              /\ f.age = Later(e.age, ForgetAfter)
  BY <1>2, <1>3 DEF TypeOK
<1>9. ASSUME NEW e \in peers, e.online
      PROVE  e.age \in Nat /\ e.age < Timeout /\ Later(e.age, ForgetAfter) = e.age + 1
  <2>1. e.age \in 0 .. ForgetAfter
    BY DEF TypeOK, PeerEntry
  <2>2. e.age < Timeout
    BY <1>1, <1>9, <2>1, Bounds DEF Silent
  <2>3. e.age < ForgetAfter /\ e.age \in Nat
    BY <2>1, <2>2, Bounds
  <2> QED
    BY <2>2, <2>3 DEF Later
<1>10. TypeOK'
  <2>1. peers' \subseteq PeerEntry
    BY <1>2, <1>3 DEF TypeOK
  <2>2. \A f, g \in peers' : f.inst = g.inst => f = g
    BY <1>8 DEF TypeOK
  <2>3. net' \subseteq Beacon
    BY <1>4, <1>5 DEF TypeOK
  <2>4. ASSUME NEW d \in Device
        PROVE  silence'[d] \in [ended : 0 .. EndedMost, unheard : 0 .. Timeout]
    BY <1>7
  <2>5. silence' \in [Device -> [ended : 0 .. EndedMost, unheard : 0 .. Timeout]]
    BY <2>4 DEF Tick
  <2> QED
    BY <1>1, <2>1, <2>2, <2>3, <2>5 DEF TypeOK, sending
<1>11. Addressed'
  BY <1>1, <1>8 DEF Addressed, sending
<1>12. Fading'
  <2>1. ASSUME NEW d \in Device \ running
        PROVE  silence'[d].ended <= silence[d].ended + 1 /\ silence[d].ended \in Nat /\ silence'[d].ended \in Nat
    BY <1>7, Bounds
  <2>2. ASSUME NEW d \in Device \ running, NEW b \in net', Dev(b.inst) = d
        PROVE  silence'[d].ended <= b.age
    <3>1. PICK x \in net : x.age < MaxDelay /\ b = older(x)
      BY <1>4
    <3>2. b.inst = x.inst /\ b.age = x.age + 1 /\ x.age \in Nat
      BY <1>5, <3>1 DEF TypeOK, Beacon
    <3>3. silence[d].ended <= x.age
      BY <2>2, <3>2 DEF Fading
    <3> QED
      BY <2>1, <3>2, <3>3
  <2>3. ASSUME NEW d \in Device \ running, NEW f \in peers', Dev(f.inst) = d, f.online
        PROVE  silence'[d].ended <= f.age + MaxDelay
    <3>1. PICK e \in peers : f.inst = e.inst /\ f.online = e.online /\ f.age = Later(e.age, ForgetAfter)
      BY <1>8
    <3>2. f.age = e.age + 1 /\ e.age \in Nat
      BY <1>9, <2>3, <3>1
    <3>3. silence[d].ended <= e.age + MaxDelay
      BY <2>3, <3>1 DEF Fading
    <3> QED
      BY <2>1, <3>2, <3>3, Bounds
  <2> QED
    BY <1>1, <2>2, <2>3 DEF Fading, sending
<1>13. OnlineIsBacked'
  <2> SUFFICES ASSUME NEW d \in Device, byDevice[d] # NoAddr, byDevice[d].online
               PROVE  \E e \in peers' : e.inst = byDevice[d].addr /\ e.online /\ e.age <= Timeout
    BY <1>1 DEF OnlineIsBacked, Online
  <2>1. PICK e \in peers : e.inst = byDevice[d].addr /\ e.online
    BY DEF OnlineIsBacked, Online
  <2>2. aged(e) \in peers' /\ aged(e).inst = e.inst /\ aged(e).online = e.online
        /\ aged(e).age = Later(e.age, ForgetAfter)
    BY <1>2, <1>3 DEF TypeOK
  <2>3. Later(e.age, ForgetAfter) <= Timeout
    BY <1>9, <2>1, Bounds
  <2> QED
    BY <2>1, <2>2, <2>3
<1>14. EventsTell'
  <2>1. \A i : (\E e \in peers' : e.online /\ e.inst = i) <=> (\E e \in peers : e.online /\ e.inst = i)
    BY <1>2, <1>3 DEF TypeOK
  <2> QED
    BY <1>1, <2>1 DEF EventsTell
<1> QED
  BY <1>10, <1>11, <1>12, <1>13, <1>14

(* The inductive invariant holds of every run.                              *)
THEOREM Invariance == Spec => []Inductive
<1>1. Init => Inductive
  <2> SUFFICES ASSUME Init PROVE Inductive
    OBVIOUS
  <2>1. 0 \in 0 .. EndedMost /\ 0 \in 0 .. Timeout /\ 0 \in 0 .. MaxSeq
    BY Bounds
  <2>2. TypeOK
    BY <2>1, Bounds DEF Init, TypeOK
  <2> QED
    BY <2>2 DEF Init, Inductive, Addressed, Fading, OnlineIsBacked, Online, EventsTell
<1>2. Inductive /\ [Next]_vars => Inductive'
  <2> SUFFICES ASSUME Inductive, [Next]_vars PROVE Inductive'
    OBVIOUS
  <2> USE DEF Inductive
  <2>1. ASSUME NEW d \in Device, Start(d) PROVE Inductive'
    <3>1. starts' = [starts EXCEPT ![d] = starts[d] + 1] /\ starts[d] < Starts[d]
          /\ seq' = [seq EXCEPT ![d] = 0] /\ running' = running \cup {d}
          /\ UNCHANGED <<net, table, silence>>
      BY <2>1 DEF Start
    <3>2. starts' \in [Device -> Nat] /\ \A e \in Device : starts'[e] <= Starts[e]
      <4>1. starts[d] \in Nat /\ Starts[d] \in Nat
        BY Bounds DEF TypeOK
      <4>2. starts[d] + 1 \in Nat /\ starts[d] + 1 <= Starts[d]
        BY <3>1, <4>1
      <4> QED
        BY <3>1, <4>2 DEF TypeOK
    <3>3. seq' \in [Device -> 0 .. MaxSeq]
      BY <3>1, Bounds DEF TypeOK
    <3>4. TypeOK'
      BY <3>1, <3>2, <3>3 DEF TypeOK, table
    <3>5. \A e \in running' : starts'[e] > 0
      BY <3>1 DEF TypeOK, Addressed
    <3> QED
      BY <3>1, <3>4, <3>5 DEF Addressed, Fading, OnlineIsBacked, Online, EventsTell, table
  <2>2. ASSUME NEW d \in Device, Stop(d) PROVE Inductive'
    <3>1. running' = running \ {d} /\ silence' = [silence EXCEPT ![d].ended = 0]
          /\ UNCHANGED <<starts, seq, net, table>>
      BY <2>2 DEF Stop
    <3>2. silence' \in [Device -> [ended : 0 .. EndedMost, unheard : 0 .. Timeout]]
          /\ \A e \in Device : silence'[e].ended = IF e = d THEN 0 ELSE silence[e].ended
      <4>1. 0 \in 0 .. EndedMost
        BY Bounds
      <4> QED
        BY <3>1, <4>1 DEF TypeOK
    <3>3. TypeOK'
      BY <3>1, <3>2 DEF TypeOK, table
    <3>4. \A b \in net : b.age \in Nat
      BY Bounds DEF TypeOK, Beacon
    <3>5. \A e \in peers : e.age \in Nat
      BY Bounds DEF TypeOK, PeerEntry
    <3>6. Fading'
      BY <3>1, <3>2, <3>4, <3>5, Bounds DEF Fading, table
    <3> QED
      BY <3>1, <3>3, <3>6 DEF Addressed, OnlineIsBacked, Online, EventsTell, table
  <2>3. ASSUME NEW d \in Device, SendBeacon(d) PROVE Inductive'
    <3> DEFINE b == [inst |-> Current(d), seq |-> seq[d] + 1, age |-> 0]
    <3>1. d \in running /\ seq[d] < MaxSeq /\ seq' = [seq EXCEPT ![d] = seq[d] + 1]
          /\ net' = net \cup {b} /\ UNCHANGED <<starts, running, table, silence>>
      BY <2>3 DEF SendBeacon
    <3>2. Current(d) \in Instance /\ Dev(Current(d)) = d
      BY <3>1, InstanceTypes DEF Current, Dev, TypeOK, Addressed
    <3>3. b \in Beacon /\ b.inst = Current(d)
      BY <3>1, <3>2, Bounds DEF TypeOK, Beacon
    <3>4. seq' \in [Device -> 0 .. MaxSeq]
      BY <3>1, Bounds DEF TypeOK
    <3>5. TypeOK'
      BY <3>1, <3>3, <3>4 DEF TypeOK, table
    <3>6. Fading'
      BY <3>1, <3>2, <3>3 DEF Fading, table
    <3> QED
      BY <3>1, <3>5, <3>6 DEF Addressed, OnlineIsBacked, Online, EventsTell, table
  <2>4. ASSUME NEW b \in net, HandleNewInstance(b) PROVE Inductive'
    <3>1. PICK replaced \in SUBSET {e \in Entries(Dev(b.inst)) : ~e.online} :
             peers' = (peers \ replaced) \cup {Entry(b)}
      BY <2>4 DEF HandleNewInstance
    <3> DEFINE addr == [inst |-> b.inst, addr |-> b.inst, online |-> TRUE]
    <3>2. /\ \A e \in peers : e.inst # b.inst
          /\ byDevice' = [byDevice EXCEPT ![Dev(b.inst)] = addr]
          /\ told' = ToldOnline(b.inst) /\ Heard(Dev(b.inst)) /\ UNCHANGED <<sending, net>>
      BY <2>4 DEF HandleNewInstance, Unknown
    <3>3. /\ b.inst \in Instance /\ Dev(b.inst) \in Device
          /\ addr \in PeerAddr /\ addr # NoAddr /\ addr.addr = b.inst
      <4>1. b.inst \in Instance /\ Dev(b.inst) \in Device
        BY EntryTypes
      <4>2. addr \in PeerAddr /\ addr.addr = b.inst
        BY <4>1 DEF PeerAddr
      <4> QED
        BY <4>1, <4>2, NoAddrAssumption
    <3> HIDE DEF addr
    <3>4. /\ byDevice' \in [Device -> PeerAddr \cup {NoAddr}]
          /\ \A d \in Device : d # Dev(b.inst) => byDevice'[d] = byDevice[d]
          /\ byDevice'[Dev(b.inst)] # NoAddr /\ byDevice'[Dev(b.inst)].addr = b.inst
      BY <3>2, <3>3 DEF TypeOK
    <3>5. replaced \in SUBSET peers /\ \A e \in replaced : ~e.online \/ e.inst = b.inst
      BY <3>1 DEF Entries
    <3> QED
      BY <3>1, <3>2, <3>4, <3>5, HeardStep
  <2>5. ASSUME NEW b \in net, HandleBeacon(b) PROVE Inductive'
    <3>1. PICK e \in peers : e.inst = b.inst /\ peers' = (peers \ {e}) \cup {Entry(b)}
      BY <2>5 DEF HandleBeacon
    <3> DEFINE addr == [byDevice[Dev(b.inst)] EXCEPT !.addr = b.inst, !.online = TRUE]
    <3>2. /\ byDevice' = [byDevice EXCEPT ![Dev(b.inst)] = addr]
          /\ told' = ToldOnline(b.inst) /\ Heard(Dev(b.inst)) /\ UNCHANGED <<sending, net>>
      BY <2>5 DEF HandleBeacon
    <3>3. Dev(b.inst) \in Device /\ b.inst \in Instance
      BY EntryTypes
    <3>4. byDevice[Dev(b.inst)] \in PeerAddr
      BY <3>1, <3>3 DEF TypeOK, Addressed
    <3>5. addr \in PeerAddr /\ addr # NoAddr /\ addr.addr = b.inst
      BY <3>3, <3>4, NoAddrAssumption DEF PeerAddr
    <3> HIDE DEF addr
    <3>6. /\ byDevice' \in [Device -> PeerAddr \cup {NoAddr}]
          /\ \A d \in Device : d # Dev(b.inst) => byDevice'[d] = byDevice[d]
          /\ byDevice'[Dev(b.inst)] # NoAddr /\ byDevice'[Dev(b.inst)].addr = b.inst
      BY <3>2, <3>3, <3>5 DEF TypeOK
    <3>7. {e} \in SUBSET peers /\ \A f \in peers : f.inst = b.inst => f \in {e}
      BY <3>1 DEF TypeOK
    <3> QED
      BY <3>1, <3>2, <3>6, <3>7, HeardStep
  <2>6. CASE Sweep
    BY <2>6, SweepStep
  <2>7. CASE Tick
    BY <2>7, TickStep
  <2>8. CASE UNCHANGED vars
    BY <2>8
    DEF vars, sending, table, TypeOK, Addressed, Fading, OnlineIsBacked, Online, EventsTell
  <2> QED
    BY <2>1, <2>2, <2>3, <2>4, <2>5, <2>6, <2>7, <2>8 DEF Next
<1> QED
  BY <1>1, <1>2, PTL DEF Spec

(* The types of the state; the table has one entry for an instance.         *)
THEOREM TypeCorrect == Spec => []TypeOK
  BY Invariance, PTL DEF Inductive

(* Late, repeated and reordered beacons of older instances and the sweeps   *)
(* of their entries never leave a device online without an instance that    *)
(* was heard within the time-out at the address that is shown.              *)
THEOREM OnlineDevicesAreBacked == Spec => []OnlineIsBacked
  BY Invariance, PTL DEF Inductive

(* The events PeerOnline and PeerOffline tell of every change.              *)
THEOREM EventsAreComplete == Spec => []EventsTell
  BY Invariance, PTL DEF Inductive

(* A device that ended is shown offline in time.                            *)
THEOREM SilenceIsNoticed == Spec => []SilentIsOffline
<1>1. ASSUME Inductive, NEW d \in Device \ running, silence[d].ended > Timeout + MaxDelay
      PROVE  ~Online(d)
  <2> USE DEF Inductive
  <2>1. SUFFICES ASSUME Online(d) PROVE FALSE
    OBVIOUS
  <2>2. PICK e \in peers : e.inst = byDevice[d].addr /\ e.online /\ e.age <= Timeout
    BY <1>1, <2>1 DEF OnlineIsBacked
  <2>3. Dev(e.inst) = d
    BY <1>1, <2>1, <2>2 DEF Addressed, Online
  <2>4. silence[d].ended <= e.age + MaxDelay
    BY <1>1, <2>2, <2>3 DEF Fading
  <2>5. e.age \in Nat /\ silence[d].ended \in Nat
    BY <1>1, Bounds DEF TypeOK, PeerEntry
  <2> QED
    BY <1>1, <2>2, <2>4, <2>5, Bounds
<1>2. Inductive => SilentIsOffline
  BY <1>1 DEF SilentIsOffline
<1> QED
  BY <1>2, Invariance, PTL

================================================================================
