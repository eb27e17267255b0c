-------------------------------- MODULE Notes --------------------------------
(***************************************************************************)
(* The notes of Lunote (notes.rs) and their synchronisation (session.rs):  *)
(* every device keeps a workspace of notes, each with a version vector,    *)
(* edits it whether or not its peers can be reached, and exchanges index,  *)
(* requests and batches with the peers it has selected.                    *)
(*                                                                         *)
(* The body of a note stands for all that its user wrote; every save makes *)
(* a new one.  The fingerprint of a note is the note itself: equal         *)
(* fingerprints are equal notes.  Which of two is greater is a constant.   *)
(***************************************************************************)
EXTENDS Naturals, Sequences, FiniteSets, SequencesExt

CONSTANTS
    Device,
    Greater(_, _),  \* the order of the fingerprints of two notes
    NoNote,         \* no note
    MaxNotes,       \* notes of a workspace
    BatchSize,      \* notes that are asked for at once
    MaxCreated,     \* bound: notes created
    MaxSaves,       \* bound: notes created and edits
    MaxDeletes,     \* bound: deletions
    MaxReorders,    \* bound: reorderings
    Backups,        \* is a backup made?
    MaxOpened,      \* bound: editors left open
    MaxWire,        \* bound: frames between two devices when a round begins
    MaxFaults       \* bound: disconnections, changes of the selected peers

ASSUME LimitAssumption == MaxNotes \in Nat \ {0} /\ BatchSize \in Nat \ {0}
ASSUME BackupAssumption == Backups \in BOOLEAN
ASSUME BoundAssumption ==
    MaxCreated \in Nat /\ MaxSaves \in Nat /\ MaxOpened \in Nat /\ MaxDeletes \in Nat
    /\ MaxReorders \in Nat /\ MaxWire \in Nat /\ MaxFaults \in Nat

VARIABLES
    notes,      \* the workspace of a device: a set of notes
    counter,    \* its version counter
    peers,      \* the devices it shares notes with
    editor,     \* the note its user has opened
    backup,     \* the notes of an exported file
    session,    \* is there a session between two devices?
    wire,       \* frames under way from one device to another
    written,    \* bodies written so far
    replaced,   \* bodies a user has replaced or deleted
    copied,     \* bodies a user has written into a conflict copy
    deletes,
    reorders,
    opened,     \* editors left open so far
    faults

Pair == {p \in SUBSET Device : Cardinality(p) = 2}

net == <<session, wire>>
history == <<written, replaced, copied, deletes, reorders, opened>>
vars == <<notes, counter, peers, editor, backup, net, history, faults>>

-----------------------------------------------------------------------------
(* Notes and version vectors.                                              *)

Clock == [Device -> Nat]
NoClock == [d \in Device |-> 0]

Note(id, body, clock) == [id |-> id, body |-> body, order |-> 1, clock |-> clock, deleted |-> FALSE]

dominates(a, b) == \A d \in Device : a[d] >= b[d]

Join(a, b) == [d \in Device |-> IF a[d] >= b[d] THEN a[d] ELSE b[d]]

Has(N, id) == \E n \in N : n.id = id

Get(N, id) == CHOOSE n \in N : n.id = id

Put(N, n) == {m \in N : m.id # n.id} \cup {n}

(* The losing side of a conflict, kept under the name of its fingerprint.  *)
ConflictCopy(n, clock) ==
    [n EXCEPT !.id = <<"conflict", n>>, !.clock = clock]

IsCopy(n) == n.id[1] = "conflict"

(* Mutant: a workspace may hold one note more.                              *)
RoomInclusive(N) == Cardinality(N) <= MaxNotes

Room(N) == Cardinality(N) < MaxNotes

(* Mutant: the greater fingerprint wins, deleted or not.                    *)
RemoteWinsByPrint(local, incoming) == Greater(incoming, local)

(* A deletion wins over an edit, otherwise the greater fingerprint.        *)
RemoteWins(local, incoming) ==
    IF local.deleted # incoming.deleted THEN incoming.deleted ELSE Greater(incoming, local)

(* Mutant: the losing side is not kept.                                     *)
ResolvedDropping(N, local, incoming) ==
    LET clock == Join(local.clock, incoming.clock)
        winner == IF RemoteWins(local, incoming) THEN incoming ELSE local
    IN  Put(N, [winner EXCEPT !.clock = clock])

(* Mutant: the winner keeps its version.                                    *)
ResolvedUnjoined(N, local, incoming) ==
    LET remote == RemoteWins(local, incoming)
        winner == IF remote THEN incoming ELSE local
        loser == IF remote THEN local ELSE incoming
        kept == IF loser.deleted THEN N ELSE Put(N, ConflictCopy(loser, loser.clock))
    IN  Put(kept, winner)

Resolved(N, local, incoming) ==
    LET clock == Join(local.clock, incoming.clock)
        remote == RemoteWins(local, incoming)
        winner == IF remote THEN incoming ELSE local
        loser == IF remote THEN local ELSE incoming
        kept == IF loser.deleted THEN N ELSE Put(N, ConflictCopy(loser, clock))
    IN  Put(kept, [winner EXCEPT !.clock = clock])

(* The workspace after one note of a peer; full if there is no room for it. *)
MergeOne(w, incoming) ==
    LET N == w.notes
        local == Get(N, incoming.id)
        localAfter == dominates(local.clock, incoming.clock)
        remoteAfter == dominates(incoming.clock, local.clock)
        loser == IF RemoteWins(local, incoming) THEN local ELSE incoming
    IN  IF ~Has(N, incoming.id)
        THEN IF Room(N) THEN [w EXCEPT !.notes = N \cup {incoming}] ELSE [w EXCEPT !.full = TRUE]
        ELSE IF local = incoming \/ (localAfter /\ ~remoteAfter)
        THEN w
        ELSE IF remoteAfter /\ ~localAfter
        THEN [w EXCEPT !.notes = Put(N, incoming)]
        ELSE IF loser.deleted \/ Room(N)
        THEN [w EXCEPT !.notes = Resolved(N, local, incoming)]
        ELSE [w EXCEPT !.full = TRUE]

(* A batch is merged note by note and kept only as a whole.                *)
MergedUpTo(N, batch) ==
    LET w[k \in 0 .. Len(batch)] ==
            IF k = 0 THEN [notes |-> N, full |-> FALSE] ELSE MergeOne(w[k - 1], batch[k])
    IN  w

Merged(N, batch) == MergedUpTo(N, batch)[Len(batch)]

-----------------------------------------------------------------------------
Init ==
    /\ notes = [d \in Device |-> {}]
    /\ counter = [d \in Device |-> 0]
    /\ peers = [d \in Device |-> Device \ {d}]
    /\ editor = [d \in Device |-> NoNote]
    /\ backup = {}
    /\ session = [p \in Pair |-> TRUE]
    /\ wire = [d \in Device |-> [e \in Device |-> <<>>]]
    /\ written = 0
    /\ replaced = {}
    /\ copied = {}
    /\ deletes = 0
    /\ reorders = 0
    /\ opened = 0
    /\ faults = 0

Fault ==
    /\ faults < MaxFaults
    /\ faults' = faults + 1

-----------------------------------------------------------------------------
(* Commands of the user.                                                   *)

Created == {n.id : n \in UNION {notes[d] : d \in Device}} \cap ({"note"} \X Nat)

(* A version counter goes on from the greatest version the device knows.   *)
Tick(d, clock) == (IF counter[d] >= clock[d] THEN counter[d] ELSE clock[d]) + 1

CreateNote(d) ==
    /\ written < MaxSaves
    /\ Cardinality(Created) < MaxCreated
    /\ Room(notes[d])
    /\ written' = written + 1
    /\ LET k == Tick(d, NoClock)
       IN  /\ counter' = [counter EXCEPT ![d] = k]
           /\ notes' = [notes EXCEPT ![d] =
                  @ \cup {Note(<<"note", written'>>, written', [NoClock EXCEPT ![d] = k])}]
    /\ UNCHANGED <<peers, editor, backup, net, replaced, copied, deletes, reorders, opened,
                   faults>>

(* An editor that stays open while other things happen.                    *)
Open(d, n) ==
    /\ opened < MaxOpened
    /\ ~n.deleted
    /\ editor' = [editor EXCEPT ![d] = n]
    /\ opened' = opened + 1
    /\ UNCHANGED <<notes, counter, peers, backup, net, written, replaced, copied, deletes,
                   reorders, faults>>

Shown(d) == notes[d] \cup ({editor[d]} \ {NoNote})

(* An editor opened before a merge may not overwrite what came with it.    *)
Current(d, n) ==
    /\ Has(notes[d], n.id)
    /\ LET old == Get(notes[d], n.id) IN ~old.deleted /\ old.clock = n.clock

(* The note as the editor showed it, and what the user makes of it.        *)
Store(d, shown, n) ==
    LET k == Tick(d, n.clock)
    IN  /\ counter' = [counter EXCEPT ![d] = k]
        /\ notes' = [notes EXCEPT ![d] = Put(@, [n EXCEPT !.clock[d] = k])]
        /\ replaced' = replaced \cup {shown.body}
        /\ editor' = [editor EXCEPT ![d] = IF @ = shown THEN NoNote ELSE @]

Save(d, n) ==
    /\ Current(d, n)
    /\ written < MaxSaves
    /\ written' = written + 1
    /\ Store(d, n, [n EXCEPT !.body = written'])
    /\ copied' = IF IsCopy(n) THEN copied \cup {written'} ELSE copied
    /\ UNCHANGED <<peers, backup, net, deletes, reorders, opened, faults>>

Delete(d, n) ==
    /\ Current(d, n)
    /\ deletes < MaxDeletes
    /\ deletes' = deletes + 1
    /\ Store(d, n, [n EXCEPT !.body = 0, !.deleted = TRUE])
    /\ UNCHANGED <<peers, backup, net, written, copied, reorders, opened, faults>>

(* The notes of a list get the order they have there, and those that have   *)
(* moved become new versions.  A list that does not know of every note is   *)
(* accepted too.                                                            *)
Move(d, w, id, k) ==
    LET n == Get(w.notes, id)
        t == (IF w.counter >= n.clock[d] THEN w.counter ELSE n.clock[d]) + 1
    IN  IF n.order = k THEN w
        ELSE [counter |-> t, notes |-> Put(w.notes, [n EXCEPT !.order = k, !.clock[d] = t])]

MovedUpTo(d, q) ==
    LET w[k \in 0 .. Len(q)] ==
            IF k = 0 THEN [counter |-> counter[d], notes |-> notes[d]]
            ELSE Move(d, w[k - 1], q[k].id, k)
    IN  w

Reorder(d, q) ==
    /\ reorders < MaxReorders
    /\ reorders' = reorders + 1
    /\ LET w == MovedUpTo(d, q)[Len(q)]
       IN  /\ counter' = [counter EXCEPT ![d] = w.counter]
           /\ notes' = [notes EXCEPT ![d] = w.notes]
    /\ UNCHANGED <<peers, editor, backup, net, written, replaced, copied, deletes, opened,
                   faults>>

Export(d) ==
    /\ Backups
    /\ backup = {}
    /\ backup' = notes[d]
    /\ UNCHANGED <<notes, counter, peers, editor, net, history, faults>>

Import(d) ==
    /\ LET w == Merged(notes[d], SetToSeq(backup))
       IN  /\ ~w.full
           /\ w.notes # notes[d]
           /\ notes' = [notes EXCEPT ![d] = w.notes]
    /\ UNCHANGED <<counter, peers, editor, backup, net, history, faults>>

select_peers(d, P) ==
    /\ d \notin P
    /\ P # peers[d]
    /\ Fault
    /\ peers' = [peers EXCEPT ![d] = P]
    /\ UNCHANGED <<notes, counter, editor, backup, net, history>>

-----------------------------------------------------------------------------
(* Synchronisation.                                                        *)

NoteIndex(versions) == [kind |-> "note_index", versions |-> versions]
NoteRequest(ids)    == [kind |-> "note_request", ids |-> ids]
NoteBatch(batch)    == [kind |-> "note_batch", batch |-> batch]

Versions(N) == {[id |-> n.id, clock |-> n.clock] : n \in N}

(* Mutant: only notes it does not have are asked for.                       *)
NeededMissing(N, versions) ==
    {v.id : v \in {x \in versions : ~Has(N, x.id)}}

needed(N, versions) ==
    {v.id : v \in {x \in versions :
        Has(N, x.id) => ~dominates(Get(N, x.id).clock, x.clock)}}

(* The ids are asked for in portions.                                      *)
Requests(ids) ==
    LET q == SetToSeq(ids)
        n == (Len(q) + BatchSize - 1) \div BatchSize
    IN  [k \in 1 .. n |-> NoteRequest(ToSet(
            SubSeq(q, (k - 1) * BatchSize + 1,
                   IF k * BatchSize < Len(q) THEN k * BatchSize ELSE Len(q))))]

(* flush_outbox, the notes.                                                *)
SendIndex(d, e) ==
    /\ session[{d, e}]
    /\ e \in peers[d]
    /\ Len(wire[d][e]) + Len(wire[e][d]) < MaxWire
    /\ wire' = [wire EXCEPT ![d][e] = Append(@, NoteIndex(Versions(notes[d])))]
    /\ UNCHANGED <<notes, counter, peers, editor, backup, session, history, faults>>

Incoming(e, d, kind) ==
    /\ session[{d, e}]
    /\ wire[e][d] # <<>>
    /\ Head(wire[e][d]).kind = kind

Frame(e, d) == Head(wire[e][d])

(* What d answers to the frame of e it has handled; peers it does not share *)
(* notes with get no answer.                                               *)
Answered(e, d, frames) ==
    wire' = [wire EXCEPT ![e][d] = Tail(@),
                         ![d][e] = IF e \in peers[d] THEN @ \o frames ELSE @]

HandleIndex(e, d) ==
    /\ Incoming(e, d, "note_index")
    /\ Answered(e, d, Requests(needed(notes[d], Frame(e, d).versions)))
    /\ UNCHANGED <<notes, counter, peers, editor, backup, session, history, faults>>

HandleRequest(e, d) ==
    /\ Incoming(e, d, "note_request")
    /\ Answered(e, d,
           <<NoteBatch(SetToSeq({n \in notes[d] : n.id \in Frame(e, d).ids}))>>)
    /\ UNCHANGED <<notes, counter, peers, editor, backup, session, history, faults>>

HandleBatch(e, d) ==
    /\ Incoming(e, d, "note_batch")
    /\ LET w == Merged(notes[d], Frame(e, d).batch)
       IN  /\ e \in peers[d] => ~w.full
           /\ notes' = IF e \in peers[d] THEN [notes EXCEPT ![d] = w.notes] ELSE notes
    /\ wire' = [wire EXCEPT ![e][d] = Tail(@)]
    /\ UNCHANGED <<counter, peers, editor, backup, session, history, faults>>

Close(p) ==
    /\ session' = [session EXCEPT ![p] = FALSE]
    /\ wire' = [d \in Device |-> [e \in Device |->
                  IF {d, e} = p THEN <<>> ELSE wire[d][e]]]

(* Without room for a note the handler fails, which closes the session.    *)
RefuseBatch(e, d) ==
    /\ Incoming(e, d, "note_batch")
    /\ e \in peers[d]
    /\ Merged(notes[d], Frame(e, d).batch).full
    /\ Close({d, e})
    /\ UNCHANGED <<notes, counter, peers, editor, backup, history, faults>>

Connect(p) ==
    /\ ~session[p]
    /\ session' = [session EXCEPT ![p] = TRUE]
    /\ UNCHANGED <<notes, counter, peers, editor, backup, wire, history, faults>>

Disconnect(p) ==
    /\ session[p]
    /\ Fault
    /\ Close(p)
    /\ UNCHANGED <<notes, counter, peers, editor, backup, history>>

-----------------------------------------------------------------------------
UserCommand ==
    \E d \in Device :
        \/ CreateNote(d)
        \/ \E n \in notes[d] : Open(d, n)
        \/ \E n \in Shown(d) : Save(d, n) \/ Delete(d, n)
        \/ \E S \in SUBSET {n \in notes[d] : ~n.deleted} :
              \E q \in SetToSeqs(S) : Reorder(d, q)
        \/ Export(d) \/ Import(d) \/ \E P \in SUBSET Device : select_peers(d, P)

Handle(e, d) ==
    \/ HandleIndex(e, d) \/ HandleRequest(e, d) \/ HandleBatch(e, d) \/ RefuseBatch(e, d)

Next ==
    \/ UserCommand
    \/ \E d \in Device : \E e \in Device \ {d} : SendIndex(d, e) \/ Handle(e, d)
    \/ \E p \in Pair : Connect(p) \/ Disconnect(p)

Spec == Init /\ [][Next]_vars

(* A round of the outbox begins every three seconds, however many frames    *)
(* MaxWire lets through at a time; frames are handled; a peer with selected *)
(* notes is dialled again.                                                  *)
Fairness ==
    /\ \A d \in Device : \A e \in Device \ {d} :
          SF_vars(SendIndex(d, e)) /\ WF_vars(Handle(e, d))
    /\ \A p \in Pair : WF_vars(Connect(p))

FairSpec == Spec /\ Fairness

-----------------------------------------------------------------------------
(* Properties.                                                             *)

AllNotes == UNION {notes[d] : d \in Device}

(* Ids are unique in a workspace, and no version vector names a version its *)
(* device has not issued.                                                   *)
TypeOK ==
    /\ \A d \in Device :
          /\ Cardinality(notes[d]) <= MaxNotes
          /\ \A n, m \in notes[d] : n.id = m.id => n = m
          /\ peers[d] \subseteq Device \ {d}
    /\ \A n \in AllNotes :
          /\ n.clock \in Clock /\ n.body \in 0 .. written
          /\ \A d \in Device : n.clock[d] <= counter[d]
    /\ written \in 0 .. MaxSaves /\ replaced \subseteq 0 .. written /\ copied \subseteq 1 .. written
    /\ session \in [Pair -> BOOLEAN]

(* What a user wrote stays on some device until a user who saw it replaces  *)
(* or deletes it (notes.rs merge_records: a conflict retains the losing     *)
(* content).  The code keeps this for what is written into a note, but not  *)
(* for what is written into a conflict copy: see OriginalsKept.             *)
Kept(b) == b \in replaced \/ \E n \in AllNotes : n.body = b

NothingLost == \A b \in 1 .. written : Kept(b)

(* The same of everything that was not written into a conflict copy: a      *)
(* second resolution of the same conflict puts the copy back as it was,     *)
(* over what the user made of it.                                           *)
OriginalsKept == \A b \in (1 .. written) \ copied : Kept(b)

(* A deleted note does not come back on a device, a conflict copy excepted. *)
DeletedStaysDeleted ==
    [][\A d \in Device : \A n \in notes[d] :
          n.deleted /\ ~IsCopy(n) => \E m \in notes'[d] : m.id = n.id /\ m.deleted]_vars

(* No merge takes a note back to an older version, a copy excepted.         *)
VersionsGrow ==
    [][\A d \in Device : \A n \in {m \in notes[d] : ~IsCopy(m)} :
          \E m \in notes'[d] : m.id = n.id /\ dominates(m.clock, n.clock)]_vars

(* d has every version that e has.                                           *)
UpToDate(d, e) ==
    \A m \in notes[e] : \E n \in notes[d] : n.id = m.id /\ dominates(n.clock, m.clock)

(* Two devices that need nothing from each other have the same notes.  The  *)
(* code does not keep this: merge_records may store two winners under one   *)
(* joined clock (see the README).                                           *)
SettledAgree ==
    \A d, e \in Device : UpToDate(d, e) /\ UpToDate(e, d) => notes[d] = notes[e]

(* When the users stop, every device gets to know every version of every    *)
(* note of the peers it shares notes with, as long as one batch fits in both. *)
HasRoom(d) == Cardinality(notes[d]) + BatchSize <= MaxNotes

NotesSpread ==
    \A d \in Device : \A e \in Device \ {d} :
        []<>(e \in peers[d] /\ d \in peers[e] =>
                UpToDate(d, e) \/ ~HasRoom(d) \/ ~HasRoom(e))

=============================================================================
