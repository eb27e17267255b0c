# Lunote in TLA+

Formal models of Lunote, a serverless messenger and file-transfer program for a
local network.  The modules are translated from the Rust core
(`crates/lunote-core/src`); TLC checks them on small instances and TLAPS proves the
main invariants for every instance.

## 1. The system

Every device runs the same core (`runtime.rs`): a TLS listener and an outgoing
connector (`session.rs`), a UDP beacon (`discovery.rs`), a trust store (`trust.rs`), an
encrypted SQLite record store (`store.rs`), a file-transfer manager (`transfer.rs`) and a
notes workspace (`notes.rs`).  The Flutter application drives it through JSON commands
(`lunote-bridge`), one command of an instance at a time: `lunote_call` holds the
`INSTANCES` lock for the whole command.

| part | durable state | volatile state | operations | interacts with |
|---|---|---|---|---|
| record store | messages, message_delivery, message_receipts, threads, transfers | one connection behind a mutex | enqueue, receive, acknowledge, apply/hide thread, delete, export/import, wipe | every other part calls it; each operation is one transaction |
| session manager | - | sessions map, one reader, writer and main loop per connection | connect, accept, register, dispatch a frame, close | outbox task; transfers and notes through frames and callbacks |
| outbox task | - | position in a round | every 3 s, or when woken: dial each peer with pending work, send thread states, then messages | store, session manager, notes |
| transfers | `.part` files, transfer rows | incoming and outgoing maps, one task per outgoing file | offer, accept, reject, chunks, acks, pause, cancel, resume, restart | session frames, on_peer_disconnected, cancel_thread |
| notes | workspace file | the workspace behind a mutex | save, delete, reorder, import, index/request/batch | outbox task and frames |
| trust | trust file | records | first contact, fingerprint check, set_trusted, auto trust | session handshake, every handler |
| discovery | - | peers by instance id | beacon, sweep, manual peers | session manager asks it for addresses |
| runtime | settings file | settings | start, stop, setters with roll-back | owns all the parts |

What makes it hard: two stores with no server between them, so every promise
("delivered", "deleted on both sides") spans two databases and a connection that breaks;
checks and writes under separate locks; tasks that push frames on whatever session is
current by then; retries of what was already done; deletions that race with late
announcements; files interrupted at any chunk.  The list of hazards, each at its line
and with the properties that are about it, is `hazards` in `PROJECT.json`.

What makes each part correct:

- *queue and threads*: a message is stored at most once, "delivered" is true, a
  tombstone is final, a deletion and a message get through, announcements end;
- *backup*: an import undoes no deletion and changes nothing the queue promised;
- *transfers*: a file reported done has the sender's bytes, two ends agree on the
  outcome, cancel is final, a partial file can be resumed, window and offsets agree;
- *notes*: every version reaches the selected peers, no merge takes back a version or a
  deletion, nothing written is lost;
- *sessions*: one registered connection per device, a replaced one does not disturb
  the new one, two devices that dial each other end with a session;
- *trust*: a fingerprint once recorded is not replaced, a device the user distrusted
  stays so;
- *discovery*: an address shown was announced within the time-out, a silent peer goes
  away, the events tell every change.

## 2. Plan

1. `Delivery` (queue and threads), `Messaging` (its contract), `Backup`, and the proofs
   `DeliveryProofs` and `BackupProofs`.  Done.
2. `Transfer` and its contract `Handover`: one file between two devices with blocks,
   window and acknowledgements, pause, cancel, disconnection, resume, restart, crashes.
   Done, with the proofs `TransferProofs` of types, window and completion, and
   `TransferFileProofs` of what is saved, cancellation and the contract.
3. `Notes`: version vectors, merge and conflict copies, index, request and batch.
   Done, with the proofs `NotesProofs` of every safety property it keeps.
4. `Session` and `SessionProofs`: dialling, registration, replacement, clean-up, pushes
   over bounded queues, silent connections.  Done.
5. `Trust` and `TrustProofs`: first contact, fingerprint check, automatic trust, the
   user's commands, flushes that fail, restarts.  Done.
6. `Discovery` and `DiscoveryProofs`: beacons, sweep, instances that restart.  Done.
7. Left: `Session` composed with an abstract transfer, for what a late clean-up
   interrupts.

## 3. Delivery: the offline queue and the temporary threads

`Delivery.tla` has two devices.  The first eight variables are the columns of the SQLite
tables (each a set per device), the others the volatile state:

| variable | code |
|---|---|
| `messages`, `unacked`, `acked`, `receipts` | tables messages, message_delivery (by its acknowledged column), message_receipts |
| `known`, `deleted`, `hidden`, `syncPending` | table threads and its columns |
| `trusted` | `TrustStore::is_trusted` |
| `session`, `wire` | an entry in the sessions map; frames between the far end's writer and this end's handler |
| `flush` | where `flush_outbox` is: the thread states, then the messages it has read but not sent |
| `composing` | `send_thread_text` after its check and before its insertion |
| `handling` | the `ReliableMessage` handler after its check and before the store |
| `issued`, `faults` | ids already used (an id is a UUID); the bound on faults |

An action is one store transaction, or one step of a task between two locks or awaits.
The operators named like functions (`apply_thread`, `receive_queued_message`, ...) are the
transactions; the actions call them as the code does.  Commands of a user wait for the
command in progress (`Unblocked`), as the lock of the bridge makes them.

Abstractions.  A body, title or time stamp is not represented; an id stands for its row.
`MaxWire` frames of an outbox under way stand for the 128 slots of the channel.
The limit of 64 rows of `pending_messages` is left out.  `HandleThreadState` is one
action: a deletion between `apply_thread` and reading the state it answers with gives
the same answer as a deletion just before.  The trust flag is read once, when a handler
starts.  A handler of a replaced connection ends before the frames of the new one are
handled.  Notes frames, the legacy `text`/`link` frames and the automatic trust of a
first contact are left out of this module.  The check that a thread belongs to the
announcing device needs a third device and is left out.

`Messaging.tla` is the contract: messages are submitted, saved at most once, confirmed
only when saved (or when the receiver has deleted the conversation).  `KeepsContract`
says that `Delivery` implements it under the mapping `Contract`: `saved` is the receipts,
`delivered` the acknowledged marks, `closed` the messages of tombstoned threads.

`Backup.tla` adds export and import beside the same queue.  An import applies the
threads and then inserts messages; it is one action, since the messages are inserted
under one lock against the tombstones current by then, and a deletion by the peer
between the two parts has the effect of one just before.

### Runs

| run | instance | shows |
|---|---|---|
| `delivery_queue` | main conversation, a message each way, 1 frame under way, 2 faults | `NoResurrection`, `KeepsContract` |
| `delivery_threads` | one thread created by a, one message by b in it, 1 frame, 1 fault, fairness | `TypeOK`, `DeliveredMeansSaved`, `SettledThreadsAgree`, `TombstonesStay`, and the liveness properties `QueueDrains`, `DeletionPropagates`, `AnnouncementsEnd` |
| `backup_restore` | the thread instance with an export and imports by b | `RestoreKeepsDeletions`, `BackupKeepsContract` |

A fault is a crash, a disconnection, a time-out of a round, a change of trust, or a
connection for another reason than the queue.  One thread, and one or two
messages, are enough for the hazards listed: they need one late frame, one earlier state
of the same thread, and one retry.  An outbox waits
while `MaxWire` frames of it, or answers to them, are under way; for any number of them
the safety properties are proved.  Two devices are the whole protocol, since queues
to different peers share nothing but the task that serves them.  Deadlock is not
checked: the devices may be at rest.

### Fairness

The outbox task runs every three seconds, the connection loop handles what it has read,
an end of stream is noticed, and a command that began ends: weak fairness of `Connect`
(for the queue), `Outbox`, `Dispatch`, `NoticeClosed` and `EnqueueComposed`.  Faults and
commands are never fair.  The liveness properties have the premise `Settled`: from some
point on the devices trust each other, and a round of the outbox begins after the frames
of the rounds before have been handled and a closed session noticed.  In the code that
is a matter of three seconds against a few milliseconds; without the premise a round may
resend for ever what the receiver is just about to acknowledge as an older state.

### What is proved

`DeliveryProofs.tla`, for any sets of messages and threads and any bounds:

- `TypeCorrect`: `TypeOK`;
- `DeliveredIsSaved`, `ThreadsSettle`: the two state invariants;
- `TombstonesKept`, `ReceivedOnce`: the two action properties;
- `Refinement`: `Spec => KeepsContract`.

From the assumptions of `Delivery` only (two devices, ids that are numbers, a sender and
a conversation for each message).  "Delivered is saved" is not inductive: an
acknowledgement under way must be true when it arrives.  `IndInv` therefore says, beside
`TypeOK` and the two invariants, that what every frame under way claims of its sender is
true (`FramesTrue`), that what a round still has to send is (`FlushTrue`), and where a
message may have rows at all (`RowsMakeSense`).  The key fact is `Grows`: ids, receipts,
tombstones and known threads are never taken back, so a true frame stays true
(`FrameStaysTrue`) and each action need only show that what it puts on the wire is true.
The refinement uses the same invariant: an acknowledgement that is handled is a step
`Confirm` of the contract because the frame is true.

`BackupProofs.tla` proves the same of the queue with exports and imports beside it:
`RestoreIsSafe` and `BackupRefinement` for the two action properties of `Backup`, and
`RestoreKeepsDelivered` and `RestoreKeepsThreads`, the invariants of the queue over the
larger next-state relation.  The invariant is that of the queue and, of a file, that what it
has as deleted or hidden is one of its threads (`BackupsMakeSense`).  An import removes no
thread and no tombstone, adds no delivery mark and touches no channel (`ImportGrows`), so
every frame under way stays true.

Liveness stays with TLC: `ENABLED` and fairness are out of the prover's reach.

## 4. Transfer: one file between two devices

`Transfer.tla` follows one file from a sender to a receiver, offered in one or more
transfers.

| variable | code |
|---|---|
| `src` | the version of the source file; `token` in a job is the resume token, which covers size and modification time |
| `job`, `mail` | the task `outgoing_task` with its locals, and its `mpsc` queue; `pc` is the place in the task: offer, wait for an answer, open the source, turn (the pause flag), fill the window, wait for an acknowledgement, confirm |
| `inc` | `IncomingState` in the table `incoming`; `handle` is the open file |
| `link`, `data`, `meta`, `saved` | the receiver's disk: which file a `.part` path names, the blocks of the files, the resume notes, the files that were renamed to their final name |
| `session`, `ending`, `wire` | an end holds a connection; it has a closed one it has still to clean up after (`on_peer_disconnected`); frames under way |

A block is the version of the source it was read from and a hash is the sequence of
blocks it covers, so two hashes are equal exactly when the contents are.  Offsets count
blocks; the source keeps its size when it is edited.  A path and the file it names are
apart because the code deletes and renames paths while files are open under them.

Every frame handler is an action.  `receive_chunk` is one action per outcome
(`HandleStrayChunk`, `HandleChunk`, `HandleBadChunk`, `HandleLateChunk`), `on_done` too
(`HandleDone`, `HandleDoneUnsaved`, `HandleDoneMismatch`, `HandleStrayDone`).

Abstractions.  `receive_chunk` is atomic, although the entry is out of the table while
the block is written.  The write buffers of tokio are not modelled: a block written is on
disk.  The task's queue never fills (64 places).  Folders, names, conflict policies
(a refused policy is a failed rename, `DiskFails`), thread ownership of a transfer,
throttled progress events and the history rows are left out, and so is the display state
"paused".  Both devices trust each other and the receiving directory has room; a refusal
for want of it is `RejectTransfer`.

`Handover.tla` is the contract: a transfer is read by the sender, kept by the receiver
exactly as read and never touched again, and confirmed only after that.  `KeepsContract`
maps `read` to the blocks a task has read to the end, `kept` to the saved file and
`confirmed` to the transfers shown as done.

### Runs

| run | instance | shows |
|---|---|---|
| `transfer_blocks` | 2 transfers of 3 blocks one after the other, window 2, an acknowledgement every 2, 2 versions of the source, cancellation by the receiver, disk errors, 1 fault | `TypeOK`, `DoneMeansSaved`, `SavedIsRead`, `DoneIsFinal`, `CancelIsFinal`, `KeepsContract` |
| `transfer_progress` | 2 transfers of 8 blocks, window 3, an acknowledgement every 2, pauses, one version of the source, 1 fault, the sender may cancel the first, fairness | `WindowKept`, `AcceptedArrives` |

Window 3 with an acknowledgement every 2 stands for 16 and 4 (`WINDOW_CHUNKS`,
`ACK_EVERY`).  Unlike there the window is no multiple of the interval, so it also fills
between two acknowledgements, the harder case; eight blocks let it slide past two of them.  Three blocks are one
more than a window, so that a break may leave a `.part` of none, some or all blocks.  A
fault is a disconnection at either end, a crash of either device, a time-out or a disk
error.  `Canceling` says who may cancel which attempt.  The fault of `transfer_progress`
breaks the first attempt anywhere, so that the second resumes a `.part` of any length;
the source is edited in `transfer_blocks` only.

Two transfers suffice for resumption: the second finds what the first left.  The second
starts only when the task of the first has ended; with `Overlap = TRUE` it need not, and
`SavedIsRead` fails (see section 9).

### Fairness

Each task runs, each end handles its frames, dials again and cleans up after a closed
connection: they are tokio tasks that wait on nothing else.  Users and faults are not
fair.  `AcceptedArrives` starts from an acceptance under way over an intact session with
no fault left and no other task running, and assumes that pauses come to an end.  It is
about transfers that nobody cancels and entries that still lack a block: a `.part` that
the first attempt left short is resumed to the end, and the frames that a cancelled one
left under way stop nothing.  Three things do stop a transfer, and section 9 describes
them: a retry that resumes at the very end of the file, an empty file, and a cancellation
at the receiver of an earlier entry of the same file.

### What is proved

`TransferProofs.tla`, for any transfers, versions, sizes, windows, intervals between
acknowledgements, pauses, cancellations and faults, and with `Overlap` either way:

- `TypeCorrect`: `TypeOK`.  The inductive form (`Typing`) adds that no file of the receiver
  is longer than the source, that an open file has its hash started, and that a task in
  the middle of the file has read as many blocks as it counts as sent.
- `WindowIsKept`: `WindowKept`.  The count of blocks in flight alone says nothing of
  what is on the wire.  `Trail` does: unacknowledged and acknowledged blocks add up to the
  number of the last one (`Counted`); every number under way lies between the two ends of
  the window (`NumbersWithin`); acknowledgements in the queue of the task come before those
  on the wire and these before the blocks not yet received (`NumbersRise`), so that reading
  one acknowledgement leaves the rest ahead of it.
- `DoneIsSaved` and `DoneStays`: `DoneMeansSaved` and `DoneIsFinal`.  `Completion` says that a
  `file_done` is the last frame of its transfer, that nothing of a finished transfer is
  under way and its task is past sending, and that a confirmation, on the wire or in the
  queue, belongs to a saved file.  Without it a late block could make a failed transfer of
  a finished one.

Each action is reduced first to what it does to the channels (`SenderMoves`,
`ReceiverMoves`: frames are taken off, or one of a few is added), and the invariants
are proved from these footprints.

`TransferFileProofs.tla`, for any transfers, versions, sizes, windows, cancellations and
faults, with `Overlap = FALSE` (the task of one offer ends before the next begins; without
that `SavedIsRead` is false, section 9):

- `SavedAsRead`: `SavedIsRead`.
- `CancelStays`: `CancelIsFinal`, with the exception that property names: `on_restart`
  does not look at the state of the entry.
- `HandsOver`: `KeepsContract`, for `Size # 0`, since an empty file is never confirmed
  (section 9) and the contract asks for one block at least.

Every step is one of a task (`TaskMoves`: it begins, or goes on and sends some frames) or
adds no frame for the receiver (`QuietMoves`).  From these footprints follows `Progress`:
the frames of one transfer come after all those of the ones before it, and when a later
one is listed nothing of an earlier one is left on the wire (`Turns`); what a task has
read when it sends `file_done` is the whole file (`Readings`); the first frame of a
transfer is its only offer (`FirstFrame`).  So at any time frames reach the `.part` of one
transfer at most, however many paths earlier attempts left.  `Partials` says of that one
that its open file holds the blocks of its hash and is the file at its path or unlinked
(`OpenFits`), that before the first block the `.part` is as long as the offset that was
promised, and that a cancelled entry has none (`PartFits`).  No two paths name one file,
and no path names a saved one (`Apart`): nothing is written to a file once it is saved.

## 5. Notes

`Notes.tla` follows the workspaces of devices that share their notes.

| variable | code |
|---|---|
| `notes`, `counter`, `peers` | `Workspace`: the notes with their version vectors, the version counter, the devices that are allowed to share them |
| `editor` | a note as the user interface got it, while it stays open |
| `backup` | an exported file |
| `session`, `wire` | a session between two devices; `note_index`, `note_request` and `note_batch` under way |
| `written`, `replaced`, `copied` | history: the bodies written so far, those a user has replaced or deleted, those written into a conflict copy |
| `deletes`, `reorders`, `opened`, `faults` | used by the bounds |

An action is one method of `Notes`, which holds its mutex throughout, or one frame
handler of `session.rs`.  A merge works on a copy and keeps all of a batch or nothing
(`Merged`); a batch without room closes the session (`RefuseBatch`), since the handler
returns the error.

Abstractions.  A body stands for all a user can write in a note, pass phrase included,
and every save writes a new one; only `order` is apart, because `reorder` writes it.  The
fingerprint of a note is the note; `Greater` is any total order, in the runs one without
a pattern, which depends on the clock as a hash of the whole note does.  All devices
trust each other; a device that is not selected is served nothing.  A command refused
changes nothing and is no step, so the duplicates and old versions `reorder` refuses are
not enumerated.  `BatchSize` stands for 16, `MaxNotes` for 512.

### Runs

| run | instance | shows |
|---|---|---|
| `notes_merge` | 2 devices, one note and its copies, 3 saves, a reordering of some or all notes, a deletion, an editor left open, a backup, 1 frame | `TypeOK`, `OriginalsKept`, `DeletedStaysDeleted`, `VersionsGrow` |
| `notes_spread` | 2 devices, room for 3 notes, 2 saves, a reordering, a backup, a disconnection or change of peers, fairness | `NotesSpread` |
| `notes_copies` | 2 devices, one note, 3 saves, a deletion, a backup, 2 frames | violation of `NothingLost` |

Three saves are a note and an edit on each side, which is a conflict, or an edit of the
conflict copy, which may then be met again; room for three notes lets two conflict copies
in and refuses the next.

`NothingLost` says that what a user wrote stays on some device until a user who saw it
replaces or deletes it.  The code keeps it for everything but the edits of conflict copies:
`OriginalsKept` is what holds, `notes_copies` shows what does not.

Fairness.  The outbox task sends an index every three seconds to every selected peer
(strong fairness of `SendIndex`: `MaxWire` stops it while frames are under way, and the
code does not), frames are handled, and a closed session is opened again.  `NotesSpread`
leaves out workspaces without room for a batch: they refuse it, and the session with it,
in every round.

`NotesSpread` says that versions arrive, not that contents agree; that two devices with the
same versions need not have the same contents is described in section 9 (`SettledAgree`,
which no run checks).

### What is proved

`NotesProofs.tla`, for any devices, any relation `Greater` between fingerprints and any
bounds: `TypeCorrect`, `OriginalsAreKept`, `DeletionsStay` and `VersionsOnlyGrow`, that is
every invariant and action property of `notes_merge`.

None of them is inductive.  An old version may come back at any time, from a batch under
way, an editor left open or an exported file, so the invariant (`Inv`) speaks of the set
`A` of all versions there have been: each workspace, editor, file and frame holds versions
of `A` (`Traced`).  Of a version in `A` it says (`Sound`)

- that its clock names only versions its devices have issued, and what a device has issued
  for a note, it has in its own workspace (`Issued`): so a user's save is newer than all
  of `A`;
- that one entry of its clock marks it (`Marked`): every version in `A` of the same note
  that has this entry follows it, which means that it is deleted if the first was, and has
  its body unless that body was replaced by a user or is in a conflict copy.  So a version
  that dominates another may take its place without a loss;
- that a conflict copy has the body of the version in its name, or a user replaced it there
  (`CopyMakesSense`).

`PutSound` is the step all operations are made of: one version put into one workspace.  It
asks for a mark of the new version and that it follows what it replaces (`Successor`).
Version vectors grow by one entry at a save and are joined at a conflict; the joined
version is marked by the mark of its winner, and the loser's body is in the copy that was
put first (`JoinedSound`).  The argument needs no assumption on `Greater`, so it also
covers a tie of fingerprints.

A batch and a new order are loops, here functions of the number of notes handled
(`MergedUpTo`, `MovedUpTo`).  What they preserve is proved by induction on that number,
as a fact about a set of numbers (`SetInduction`, from the well-foundedness of `<` on the
naturals), since the library's rules of induction take an operator and the provers cannot
instantiate those.

Only model-checked: `NotesSpread`, which is liveness.

## 6. Session: the connections between two devices

`Session.tla` has the connections two devices ever make.  A connection has an end on each
device, which is one call of `run_connection`.

| variable | code |
|---|---|
| `dialler` | who made the connection (`connect_addr`); the other device accepted it |
| `pc` | where an end is: handshake done (`greeted`), look at the registry (`check`), the `select!` of the main loop (`select`), a handler (`handle`) and its push (`push`), after the loop (`closing`), after the clean-up (`cleaned`), returned (`over`) |
| `close` | `close_tx` of an end |
| `sessions` | the map `sessions` of a device, for the other one |
| `wire` | what an end has pushed and the other end's loop has not taken: the queue `tx`, the bytes under way, the channel `frame_tx` |
| `job`, `key` | a task that pushes one frame (`outgoing_task`, the outbox), and the session it looked up |
| `left`, `via` | frames a handler has still to push, and the session it looked up for the next |
| `cut` | connections whose bytes are lost in both directions without an error |
| `told`, `late` | history: jobs that were told by `on_peer_disconnected`; frames a loop handled since it was replaced |

`push_frame` is three actions: it looks the session up under the lock (`Begin`), and the
frame is queued (`Push`) or not (`PushFails`, `Refused`) some time later.  Between the two
the session may be replaced, be closing or be over.  The look at the registry and the wait
of the main loop are two actions for the same reason (`Check`, `Receive`), and so are the
two locks of the clean-up (`CleanUp`, `Notify`).

Abstractions.  The three queues between two ends are one, of `Capacity` frames.  A silent
connection fills up, so a push on it times out; an idle time-out ends an end of it, while
heartbeats keep every other connection alive (`Idle`).  `connect_address` dials whether
or not there is a session, and `Dial` therefore has no guard.  A frame of a handler has no
handler that pushes.  Shutdown is left out, and so are the listener's limits and the
contents of the handshake.

Run `session`: two connections, a job with a handler that pushes two frames, queues of one
place, one silent connection.  Two connections are what it takes to register them in
opposite orders or to replace one while it is being cleaned up; two replies over a queue of
one place are what it takes to fill it.

- `NoOrphan`: a replaced connection neither takes the registration of the new one with it
  nor runs on unnoticed;
- `OneMoreFrame`: it handles at most one more frame, which may come after frames of the new
  connection;
- `LossIsNotified`: a frame pushed on a connection that ends has arrived or its task is told,
  which is what `transfer.rs` builds on;
- `HandlersReturn`: handlers that wait for room in each other's queues do not wait for ever;
- `SettledSessionsAgree`: in the end both devices hold the same working connection, or none.

Fairness.  An end runs from its handshake to its return, and a task runs: tokio tasks that
wait only for what the model lets them wait for, with the time-outs of the code as actions
that are enabled as long as the wait goes on.  Nobody has to dial, so devices may well
settle on no session; that the outbox dials again is in `Delivery`.

Proved (`SessionProofs.tla`), for any number of connections and jobs, any bounds: `TypeOK`,
`NoOrphan`, `LossIsNotified` and `OneMoreFrame`.  `LossIsNotified` needs the invariant
`JobsAreTold`: a job that pushes or has pushed works on an end that was registered when it
looked, so that end has its notification still to come, unless the job was told; and
`Pushing`, that the session a job or handler pushes on is one there was.  `OneMoreFrame`
needs `LateLeaves`: a replaced loop that has handled a frame is past the registry's check.

What the notification reaches beside that: `on_peer_disconnected` is called for the device,
not for the connection (session.rs 829), so the end of a replaced connection also
interrupts the transfers that already use the new one, and `PeerDisconnected` is emitted
after the `PeerConnected` of the new one.  The user interface asks for the sessions every
three seconds and recovers; an interrupted transfer can be resumed.


## 7. Trust

`Trust.tla` is the trust store of one device with the handshakes and commands that use it.

| variable | code |
|---|---|
| `records`, `file` | `TrustStore::records` and the file `flush` writes |
| `hs` | handshakes between their three uses of the store: `check_identity`, the automatic trust, `update_last_ip` |
| `auto`, `setting`, `previous` | the switch `auto_trust`, its value in the settings file, the value `set_auto_trust` goes back to |
| `revoked` | history: devices the user has distrusted by a command that succeeded |
| `early` | history: the first contacts with such a device that were under way at that moment |
| `overruled` | history: the devices that a contact in `early` has trusted since |
| `fails`, `restarts` | the bounds on failed writes and restarts |

A method of the store is one action, since it runs under the lock, with a flush that may
fail: the record is changed in memory all the same.  `set_auto_trust` is two, the switch
and the file.  A handshake is one whose signature holds; the device it shows may have any
fingerprint, name and address.  Time stamps are left out.

Run `trust`: two devices, two fingerprints, two names, one address, two handshakes at once,
one failed write, one restart.  Two devices are what the automatic trust compares, two
handshakes let one finish inside the other.

- `RevocationHolds`: a device that the user distrusted is not trusted again, in memory or in
  the file, by any handshake that begins later, a failed write or a restart; the one
  exception is named in `overruled`;
- `PinKept`: a recorded fingerprint is let go of only by a removal, or by a restart from a
  file that lacks the last changes;
- `SettingAgrees`: outside `set_auto_trust`, the switch has the value of the file.

The exception is what the code does between two locks.  A handshake that met a device for
the first time decides on the automatic trust from what it saw before (session.rs 326-334,
552-570): if the user distrusts the device in between, the automatic trust comes after the
decision and overrules it, and the device stays trusted.  Every distrust that is written
counts in `revoked`; only the contacts that were in that window when it was written count
in `early`.  Without `\ overruled` TLC finds `RevocationHolds` violated after 8 states with
the bounds of `Trust.cfg`; section 9 sets it against the documents, and so it does the
trust flag that is kept when a fingerprint changes: the session's own flag is then false,
and the stored one stays, which is what the model has and what `PinKept` says nothing of.

Proved (`TrustProofs.tla`), for any devices, fingerprints, names, addresses and handshakes:
`TypeOK`, `RevocationHolds`, `SettingAgrees` and `PinKept`.  `RevocationHolds` needs
`MetEarly`: a handshake that holds a first contact with a revoked device between its locks
is in `early`, because the record that `revoked` stands for makes every later contact a
known one.  `SettingAgrees` needs `SwitchFollows`, for the value to go back to.

## 8. Discovery

`Discovery.tla` is the table of one device and the neighbours that send it beacons.

| variable | code |
|---|---|
| `starts`, `running`, `seq` | the neighbours: runs so far, whether one is on, the sequence number of its beacons; a run has an `instance_id` of its own |
| `net` | beacons under way; one may be taken in many times (every interface and the broadcast send it), or never |
| `peers` | `peers`, by instance; `age` is `last_seen.elapsed()` in ticks |
| `byDevice` | `by_device`; an address stands for the instance that announced it |
| `told` | history: instances whose last event was `PeerOnline` |
| `silence` | history: ticks since a device ended, and since a beacon of it was last taken in |

`HandleNewInstance` and `HandleBeacon` are the two halves of `handle_beacon`, which holds
the lock from the look-up to the events; `Sweep` is a round of `sweep_loop`.  The sweep runs
every 500 ms against a time-out of seconds, so `Tick` waits for it.  Which of several
entries that are offline makes room for a new instance depends on the order of a hash map
and is any of them.  Sockets, interfaces and their refresh, the parsing of beacons, name
changes, statistics and the longer interval in the background are left out.

| run | instance | shows |
|---|---|---|
| `discovery` | a neighbour that starts twice and one that starts once, 2 beacons of each run, time-out and delay of 1 tick, fairness | `TypeOK`, `OnlineIsBacked`, `SilentIsOffline`, `EventsTell`, `GoneIsForgotten` |
| `discovery_restart` | a neighbour that starts twice, time-out 2 | violation of `OfflineIsSilent` |

Two runs give an old instance with late beacons beside a new one; two beacons give one that
is newer than the other.  A delay as long as the time-out lets an instance be heard after
its device has ended and been swept.

- `OnlineIsBacked`: the address of a device shown online is that of an instance that is
  online itself and was heard within the time-out, whatever late beacons and sweeps of
  older instances come in between;
- `SilentIsOffline`: a device that ended is offline once time-out and delay have passed;
- `EventsTell`: exactly the instances that are online were told of last by `PeerOnline`.
  It is about instances: a device that the sweep of another instance took offline comes
  back with the next beacon (618-632), and no event says so;
- `GoneIsForgotten`: the entries of a device that is gone are dropped.

Fairness: time passes and the sweep runs.  Nothing is asked of the network.

Proved (`DiscoveryProofs.tla`), for any neighbours, time-out, delay and number of runs:
`TypeOK`, `OnlineIsBacked`, `EventsTell` and `SilentIsOffline`.  `OnlineIsBacked` alone is
inductive only with `Addressed` (an entry has an address, of the same device).
`SilentIsOffline` needs `Fading`: of a device that ended, the beacons under way and the
entries online are as old as the time since allows.

`discovery_restart`: the sweep takes the device offline for the sake of one silent instance
(668-670).  A device that restarts within the time-out is heard under its new instance and
shown as offline when the old one times out, until its next beacon; no `PeerOnline`
follows, since the new entry never was offline.  In the same way a late beacon of an old
instance puts its address in the place of the new one (618) until the next beacon, which
`OnlineIsBacked` allows while the old instance is online itself (section 9).


## 9. Where the code and its documents disagree

The runs that expect a violation are listed under `findings` in `PROJECT.json`, each with
the line of the document, comment or test it contradicts.  The others were met while
modelling, and no run is kept for them:

- *a deletion between check and insertion* (`session.rs` 1124-1133): `send_thread_text`
  checks that the thread is not deleted and enqueues under a later lock; a `ThreadState`
  handled in between leaves the message in the deleted conversation.  The receiver has the
  same gap (946-973).  `docs/2.0-development.md:30` says that late events do not revive a
  thread.  `DeliveryThreads.cfg` with the invariant `DeletedThreadsStayEmpty` shows it.
- *messages of an unknown thread* (`session.rs` 952): the handler fails and the connection
  closes.  A device that wiped its records (`store.rs` 687-694, the threads too) is never
  told of the thread again, so the peer's outbox sends the refused message first in every
  round and the messages behind it are lost with the session; the comment at 213 says a
  failed peer must not block the queue.
- *a retry with nothing left to send* (`transfer.rs` 1021): the hasher is made by the first
  block that is received (853-890).  If all blocks had arrived before the first attempt
  failed, the retry resumes at the end of the file, the hash of nothing is compared, and
  the `.part` is kept for the next retry, which ends the same way; the comment at 1051
  says it continues from the break.  `AcceptedArrives` leaves the case out by the condition
  `inc[i].received < Size`; without it, `TransferProgress.cfg` with `Size = 2` and
  `Canceling <- NoCancel` violates it.
- *two contents under one version* (`notes.rs` 350): the winner of a conflict is chosen by
  fingerprints that cover the clocks, and stored under the joined clock.  Two devices that
  resolve conflicts of one note against different intermediate versions may keep different
  winners under equal clocks, and neither asks for the note again (202-206);
  `docs/协议.md:107` calls the outcome deterministic.  With four saves and four frames
  under way TLC finds a violation of `SettledAgree`.
- *a stale editor under the same version* (`notes.rs` 238): the check of a save compares
  the clock of the editor with that of the workspace.  After the joined clocks above, an
  editor that shows one winner passes the check against the other, and the save replaces
  a version its user has not seen; the comment at 228 says the clock prevents "an editor
  opened before a sync from overwriting it".  With the bounds of `NotesMerge.cfg` but four
  notes, four saves and no reordering TLC finds such a save.  What it replaces is in a
  conflict copy, so `OriginalsKept` holds there too.
- *two offers of one file at the same time* (`transfer.rs` 691-734): `find_partial` hands
  the `.part` of a running transfer to a second offer.  When one of the two is cancelled,
  its removal of the `.part` and the other's blocks mix, `on_done` compares the hash of
  what it received and not of the file, and a file is saved that is not what was read.
  `TransferBlocks.cfg` with `Overlap = TRUE` violates `SavedIsRead` after five minutes.
- *an empty file* (1021-1034): the hasher is made by the first block, there is none, and
  the comparison fails although 1106-1111 and `docs/交付报告.md:71` provide for the case.
  `TransferProgress.cfg` with `Size = 0` violates `AcceptedArrives` without the same
  condition.
- *a cancellation of an entry whose `.part` was taken over* (`transfer.rs` 337-364): the
  sender's task may time out on an acknowledgement while the receiver's entry stays in
  progress.  The next offer of the file finds the `.part` (691-734); when the receiver's user
  cancels the first entry now, the `.part` and the note of the second are deleted and the
  second fails at its next block or its end.  `docs/协议.md:82` has the receiver delete the
  `.part` of the transfer that is cancelled.  `TransferProgress.cfg` with a `Canceling`
  that lets the receiver cancel the first transfer violates `AcceptedArrives` after 40
  states.
- *a disk error at the receiver* (1573-1588): `fail_incoming` keeps the `.part` for a
  later attempt (comment at 964-965) and sends `file_cancel`; the task answers with a
  `file_cancel` of its own, whose handler deletes the `.part` (1177-1184).
- *a cancellation before the acceptance* (1364-1368): the task ends without telling the
  receiver, which keeps the offer; `docs/协议.md:82` lets either side cancel.
- *a restart after a cancellation* (736-766): `on_restart` makes the entry one in progress
  whatever its state was, so a `file_restart` under way takes up a transfer the receiver's
  user has just cancelled.  A file smaller than the window (16 blocks of 256 KiB, 33-34) is
  sent before the sender reads the cancellation, and is received and saved;
  `docs/协议.md:82` lets either side cancel.  `CancelIsFinal` therefore excepts the step that
  handles a `file_restart`.  With `Size = 2`, `Window = 3`, `AckEvery = 2` and otherwise the
  bounds of `TransferBlocks.cfg`, TLC finds a cancelled transfer saved after 30 states.
- *a block after a cancellation* (914): the entry has been taken out of the table and the
  `?` returns without putting it back, so the transfer vanishes from the list, which the
  comment at 918 wants to avoid.
- *a thread revived from a backup* (`store.rs` 441): a device that received a tombstone,
  wiped its records and imports an older backup announces the thread as alive; the
  answer "deleted" is ignored, because its own row is not deleted, and the two devices
  disagree for good.  `docs/协议.md:105` says a backup does not revive a tombstone.
- *a distrust during a first contact* (`session.rs` 326-334, 552-570, see section 7): the
  automatic trust of a contact that was checked before the user's decision comes after it
  and overrules it; `docs/安全模型.md:62` says that a revocation takes effect at once and
  the next connection needs a confirmation.  `RevocationHolds` without `\ overruled` is
  violated after 8 states with the bounds of `Trust.cfg`.
- *a changed fingerprint of a trusted device* (`trust.rs` 74-83): `check_identity` reports
  `Changed` and leaves the stored trust flag as it is, and the handlers that ask
  `is_trusted` go by the stored flag; `docs/安全模型.md:24-25` and `63` promise a
  downgrade that lasts until the user confirms again.
- *the address of an older instance* (`discovery.rs` 618): every beacon of a known instance
  writes its address into the entry of its device, a late one of an ended instance too,
  and the newer instance's address comes back with its next beacon only;
  `docs/协议.md:33` and `37` say that the new instance replaces the old one and the newest
  prevails.
- *the interval of acknowledgements* (`transfer.rs` 35): `ACK_EVERY` is 4 blocks;
  `docs/协议.md:68` and `76` say 16.  The window is 16 blocks in both, and the model takes
  the two numbers as constants.
- *a session interrupted by the end of the one before* (829, see section 6) contradicts no
  document.

## 10. Not modelled

Cryptography, certificates and the encoding of frames; sockets, interfaces and the file
system below a `.part` file; the event queue and the user interface; the command line
client; the platform hosts.  They hold no protocol state, or state that is a copy of
what the core reports.  Of the runtime, `set_auto_trust` stands for the setters, which all
set a value, write the settings and go back if that fails; start and stop build and drop
the parts.  Of the store, the transfer rows and `wipe` are left out.  The legacy `text`
and `link` frames, folders and conflict policies of transfers, name changes in beacons,
the limits of the listener and shutdown are left out too.

Only model-checked, not proved: liveness (fairness and `ENABLED` are out of the prover's
reach).  Every safety property the passing runs check is proved, those of
`TransferFileProofs` under the hypotheses of section 4.
