------------------------------ MODULE Discovery ------------------------------
(***************************************************************************)
(* Discovery in the local network (discovery.rs), as one device sees it:   *)
(* the other devices announce themselves by beacons, which the network may *)
(* lose, duplicate, delay and reorder.  Each run of a device is an         *)
(* instance with an identifier and sequence numbers of its own.            *)
(*                                                                         *)
(* Time passes in ticks.  The sweep runs every 500 ms, so it comes round   *)
(* at least once between two ticks; a beacon may be sent or lost at any    *)
(* time.  An address stands for the instance that announced it.            *)
(***************************************************************************)
EXTENDS Naturals, FiniteSets

CONSTANTS
    Device,     \* the other devices
    NoAddr,     \* no address
    Timeout,    \* ticks of silence until an instance is offline
    MaxDelay,   \* bound: ticks a beacon is under way
    Starts,     \* bound: runs of a device
    MaxSeq      \* bound: beacons of each run

ASSUME TimeoutAssumption == Timeout \in Nat \ {0}
ASSUME BoundAssumption == MaxDelay \in Nat /\ Starts \in [Device -> Nat] /\ MaxSeq \in Nat \ {0}

VARIABLES
    starts,     \* runs of a device so far; the last one is its current instance
    running,    \* the devices whose program runs
    seq,        \* the sequence number of the current instance
    net,        \* beacons under way
    peers,      \* the entries of the table peers, one per instance
    byDevice,   \* the latest address of a device
    told,       \* history: instances of which PeerOnline was the last event
    silence     \* history: ticks since a device ended or a beacon of it was taken in

sending == <<starts, running, seq>>
table == <<peers, byDevice, told>>
vars == <<sending, net, table, silence>>

Instance == UNION {{d} \X (1 .. Starts[d]) : d \in Device}
Dev(i) == i[1]

ForgetAfter == 4 * Timeout

(* Ticks are counted up to what the comparisons ask for.                    *)
Later(n, most) == IF n < most THEN n + 1 ELSE n
EndedMost == Timeout + MaxDelay + 1

Beacon == [inst : Instance, seq : 1 .. MaxSeq, age : 0 .. MaxDelay]
PeerEntry == [inst : Instance, lastSeq : 1 .. MaxSeq, age : 0 .. ForgetAfter, online : BOOLEAN]
PeerAddr == [inst : Instance, addr : Instance, online : BOOLEAN]

ASSUME NoAddrAssumption == NoAddr \notin PeerAddr

Current(d) == <<d, starts[d]>>
Entries(d) == {e \in peers : Dev(e.inst) = d}

Init ==
    /\ starts = [d \in Device |-> 0]
    /\ running = {}
    /\ seq = [d \in Device |-> 0]
    /\ net = {}
    /\ peers = {}
    /\ byDevice = [d \in Device |-> NoAddr]
    /\ told = {}
    /\ silence = [d \in Device |-> [ended |-> 0, unheard |-> 0]]

-----------------------------------------------------------------------------
(* The other devices.                                                      *)

(* A new instance starts, with an identifier of its own.                    *)
Start(d) ==
    /\ d \notin running
    /\ starts[d] < Starts[d]
    /\ starts' = [starts EXCEPT ![d] = @ + 1]
    /\ seq' = [seq EXCEPT ![d] = 0]
    /\ running' = running \cup {d}
    /\ UNCHANGED <<net, table, silence>>

Stop(d) ==
    /\ d \in running
    /\ running' = running \ {d}
    /\ silence' = [silence EXCEPT ![d].ended = 0]
    /\ UNCHANGED <<starts, seq, net, table>>

(* One beacon, sent through every interface and as a broadcast.             *)
SendBeacon(d) ==
    /\ d \in running
    /\ seq[d] < MaxSeq
    /\ seq' = [seq EXCEPT ![d] = @ + 1]
    /\ net' = net \cup {[inst |-> Current(d), seq |-> seq[d] + 1, age |-> 0]}
    /\ UNCHANGED <<starts, running, table, silence>>

-----------------------------------------------------------------------------
(* Beacons taken in; a copy of the beacon may still be under way.           *)

Heard(d) == silence' = [silence EXCEPT ![d].unheard = 0]

Entry(b) == [inst |-> b.inst, lastSeq |-> b.seq, age |-> 0, online |-> TRUE]

(* Mutant: an entry that came back is online without an event.              *)
ToldFirstOnly(i) ==
    IF \E e \in peers : e.inst = i THEN told ELSE told \cup {i}

(* The event PeerOnline, which an entry that is online does not emit again. *)
ToldOnline(i) == told \cup {i}

(* Mutant: an instance that is offline counts as unknown.                   *)
UnknownOnline(i) == \A e \in peers : e.online => e.inst # i

Unknown(i) == \A e \in peers : e.inst # i

(* An instance that is not in the table: it takes the place of one instance *)
(* of the device that is offline, if there is one.                          *)
HandleNewInstance(b) ==
    LET offline == {e \in Entries(Dev(b.inst)) : ~e.online}
    IN  /\ b \in net
        /\ Unknown(b.inst)
        /\ \E replaced \in SUBSET offline :
              /\ Cardinality(replaced) = (IF offline = {} THEN 0 ELSE 1)
              /\ peers' = (peers \ replaced) \cup {Entry(b)}
        /\ byDevice' = [byDevice EXCEPT ![Dev(b.inst)] =
               [inst |-> b.inst, addr |-> b.inst, online |-> TRUE]]
        /\ told' = ToldOnline(b.inst)
        /\ Heard(Dev(b.inst))
        /\ UNCHANGED <<sending, net>>

(* A beacon newer than the last one of its instance; the address of the     *)
(* device keeps the identifier of the instance it was first made for.       *)
HandleBeacon(b) ==
    /\ b \in net
    /\ \E e \in peers :
          /\ e.inst = b.inst
          /\ b.seq > e.lastSeq
          /\ peers' = (peers \ {e}) \cup {Entry(b)}
    /\ byDevice' = [byDevice EXCEPT ![Dev(b.inst)].addr = b.inst, ![Dev(b.inst)].online = TRUE]
    /\ told' = ToldOnline(b.inst)
    /\ Heard(Dev(b.inst))
    /\ UNCHANGED <<sending, net>>

-----------------------------------------------------------------------------
(* Time and the sweep.                                                      *)

(* Mutant: only the latest instance of a device is swept.                   *)
SilentLatest ==
    {e \in peers : e.online /\ e.age >= Timeout /\ byDevice[Dev(e.inst)].inst = e.inst}

Silent == {e \in peers : e.online /\ e.age >= Timeout}

(* Mutant: what is online is dropped, as if the sweep never came first.     *)
ExpiredOnline == {e \in peers : e.online /\ e.age >= ForgetAfter}

Expired == {e \in peers : ~e.online /\ e.age >= ForgetAfter}

(* Mutant: a silent instance is dropped from the table only.                *)
UnreachableNever == {}

(* The devices that a sweep shows as offline.                               *)
Unreachable == {Dev(e.inst) : e \in Silent}

Sweep ==
    /\ Silent \cup Expired # {}
    /\ peers' = (peers \ (Silent \cup Expired)) \cup {[e EXCEPT !.online = FALSE] : e \in Silent}
    /\ byDevice' = [d \in Device |->
           IF d \in Unreachable THEN [byDevice[d] EXCEPT !.online = FALSE] ELSE byDevice[d]]
    /\ told' = told \ {e.inst : e \in Silent}
    /\ UNCHANGED <<sending, net, silence>>

Tick ==
    /\ Silent \cup Expired = {}
    /\ net' = {[b EXCEPT !.age = @ + 1] : b \in {x \in net : x.age < MaxDelay}}
    /\ peers' = {[e EXCEPT !.age = Later(@, ForgetAfter)] : e \in peers}
    /\ silence' = [d \in Device |->
           [ended |-> IF d \in running THEN 0 ELSE Later(silence[d].ended, EndedMost),
            unheard |-> Later(silence[d].unheard, Timeout)]]
    /\ UNCHANGED <<sending, byDevice, told>>

-----------------------------------------------------------------------------
Next ==
    \/ \E d \in Device : Start(d) \/ Stop(d) \/ SendBeacon(d)
    \/ \E b \in net : HandleNewInstance(b) \/ HandleBeacon(b)
    \/ Sweep
    \/ Tick

Spec == Init /\ [][Next]_vars

(* Time passes and the sweep runs; nothing is asked of the network or of    *)
(* the other devices.                                                       *)
FairSpec == Spec /\ WF_vars(Tick) /\ WF_vars(Sweep)

-----------------------------------------------------------------------------
TypeOK ==
    /\ starts \in [Device -> Nat] /\ \A d \in Device : starts[d] <= Starts[d]
    /\ running \subseteq Device
    /\ seq \in [Device -> 0 .. MaxSeq]
    /\ net \subseteq Beacon
    /\ peers \subseteq PeerEntry
    /\ \A e, f \in peers : e.inst = f.inst => e = f
    /\ byDevice \in [Device -> PeerAddr \cup {NoAddr}]
    /\ told \subseteq Instance
    /\ silence \in [Device -> [ended : 0 .. EndedMost, unheard : 0 .. Timeout]]

Online(d) == byDevice[d] # NoAddr /\ byDevice[d].online

(* The address of a device that is shown online was announced by an         *)
(* instance that is online itself, within the time-out: whatever late       *)
(* beacons of older instances and sweeps of them come in between, an        *)
(* address is never offered on the strength of another instance             *)
(* (handle_beacon, sweep_loop).                                             *)
OnlineIsBacked ==
    \A d \in Device : Online(d) =>
        \E e \in peers : e.inst = byDevice[d].addr /\ e.online /\ e.age <= Timeout

(* A device that ended is offline once the time-out has passed after the    *)
(* last of its beacons that was under way, however they were duplicated     *)
(* (sweep_loop).                                                            *)
SilentIsOffline ==
    \A d \in Device \ running : silence[d].ended > Timeout + MaxDelay => ~Online(d)

(* The events tell every change of an instance: PeerOnline was the last     *)
(* event of exactly the instances that are online.  Of a device they tell   *)
(* less: one that the sweep of another instance took offline comes back     *)
(* with the next beacon, without an event (handle_beacon, sweep_loop).      *)
EventsTell == told = {e.inst : e \in {x \in peers : x.online}}

(* The table does not grow for ever: the instances of a device that no      *)
(* longer runs are forgotten.                                               *)
GoneIsForgotten ==
    \A d \in Device : <>[](d \notin running) => <>[](Entries(d) = {})

(* A device is offline only after it was silent for the time-out (events.rs *)
(* PeerOffline).  The code does not keep this: the sweep of an older        *)
(* instance takes the device offline while a newer one is heard.            *)
OfflineIsSilent ==
    \A d \in Device : byDevice[d] # NoAddr /\ ~byDevice[d].online =>
        silence[d].unheard >= Timeout

=============================================================================
