-------------------------------- MODULE Trust --------------------------------
(***************************************************************************)
(* The trust store of a device (trust.rs), as the handshakes of session.rs *)
(* and the commands of the user work with it: a fingerprint is recorded at *)
(* the first contact, the user trusts or distrusts devices, and a new      *)
(* device is trusted by itself when a trusted one had its name and address.*)
(*                                                                         *)
(* Each method of the store runs under its lock and ends with a flush of   *)
(* all records to the trust file, which may fail; a handshake takes the    *)
(* lock three times.                                                       *)
(***************************************************************************)
EXTENDS Naturals, FiniteSets

CONSTANTS
    Device,         \* the other devices
    Fingerprint, Name, Ip,
    None,           \* no record, no fingerprint yet, no address yet
    Handshake,      \* bound: handshakes at the same time
    MaxFails,       \* bound: writes of a file that fail
    MaxRestarts     \* bound: restarts

ASSUME BoundAssumption == MaxFails \in Nat /\ MaxRestarts \in Nat

VARIABLES
    records,    \* the records in memory
    file,       \* the records of the trust file
    hs,         \* the handshakes under way
    auto,       \* the switch auto_trust
    setting,    \* its value in the settings file
    previous,   \* the value to go back to while the switch is being set
    revoked,    \* history: devices the user has distrusted
    early,      \* history: first contacts under way when that was decided
    overruled,  \* history: devices that such a first contact has trusted
    fails, restarts

switch == <<auto, setting, previous>>
history == <<revoked, early, overruled>>
vars == <<records, file, hs, switch, history, fails, restarts>>

TrustRecord ==
    [fingerprint : Fingerprint \cup {None}, trusted : BOOLEAN, name : Name, ip : Ip \cup {None}]

ASSUME NoneAssumption == None \notin Fingerprint \cup Ip \cup TrustRecord \cup BOOLEAN

Idle == [at |-> "idle"]

Contact == [at : {"checked"}, dev : Device, name : Name, ip : Ip, new : BOOLEAN]
Settled == [at : {"settled"}, dev : Device, ip : Ip]

Init ==
    /\ records = [d \in Device |-> None]
    /\ file = records
    /\ hs = [h \in Handshake |-> Idle]
    /\ auto = TRUE
    /\ setting = TRUE
    /\ previous = None
    /\ revoked = {}
    /\ early = {}
    /\ overruled = {}
    /\ fails = 0
    /\ restarts = 0

(* All records are written, or the write fails and the file stays.          *)
Flushed ==
    /\ file' = records'
    /\ UNCHANGED fails

FlushFails ==
    /\ fails < MaxFails
    /\ fails' = fails + 1
    /\ UNCHANGED file

Flush == Flushed \/ FlushFails

is_trusted(d) == records[d] # None /\ records[d].trusted

-----------------------------------------------------------------------------
(* A handshake whose signature holds.                                      *)

NewRecord(fp, name, trusted) ==
    [fingerprint |-> fp, trusted |-> trusted, name |-> name, ip |-> None]

(* Mutant: what the device shows replaces what was recorded.                *)
LearnedAnyway(r, fp) == fp

(* A record made before the first contact gets the fingerprint it lacks; a  *)
(* fingerprint that differs from the recorded one changes nothing.          *)
Learned(r, fp) == IF r.fingerprint = None THEN fp ELSE r.fingerprint

check_identity(d, fp, name) ==
    IF records[d] = None THEN NewRecord(fp, name, FALSE)
    ELSE [records[d] EXCEPT !.fingerprint = Learned(records[d], fp),
                            !.name = IF records[d].trusted THEN name ELSE @]

(* The handshake goes on whether or not the flush succeeds.                 *)
CheckIdentity(h, d, fp, name, ip) ==
    /\ hs[h] = Idle
    /\ records' = [records EXCEPT ![d] = check_identity(d, fp, name)]
    /\ hs' = [hs EXCEPT ![h] =
           [at |-> "checked", dev |-> d, name |-> name, ip |-> ip, new |-> records[d] = None]]
    /\ Flush
    /\ UNCHANGED <<switch, history, restarts>>

auto_trust_match(name, ip) ==
    \E d \in Device : is_trusted(d) /\ records[d].name = name /\ records[d].ip = ip

(* Mutant: the rule for new devices is applied to every device.             *)
AppliesToAll(c) == auto /\ auto_trust_match(c.name, c.ip)

Applies(c) == c.new /\ auto /\ auto_trust_match(c.name, c.ip)

(* The automatic trust, under a lock of its own; the record may be gone.    *)
AutoTrust(h) ==
    LET c == hs[h]
    IN  /\ c.at = "checked"
        /\ hs' = [hs EXCEPT ![h] = [at |-> "settled", dev |-> c.dev, ip |-> c.ip]]
        /\ IF Applies(c) /\ records[c.dev] # None
           THEN /\ records' = [records EXCEPT ![c.dev].trusted = TRUE]
                /\ Flush
                /\ overruled' = IF h \in early THEN overruled \cup {c.dev} ELSE overruled
           ELSE UNCHANGED <<records, file, fails, overruled>>
        /\ early' = early \ {h}
        /\ UNCHANGED <<switch, revoked, restarts>>

(* The address of the connection is noted, and the session begins.          *)
UpdateLastIp(h) ==
    LET c == hs[h]
    IN  /\ c.at = "settled"
        /\ hs' = [hs EXCEPT ![h] = Idle]
        /\ IF records[c.dev] # None /\ records[c.dev].ip # c.ip
           THEN /\ records' = [records EXCEPT ![c.dev].ip = c.ip]
                /\ Flush
           ELSE UNCHANGED <<records, file, fails>>
        /\ UNCHANGED <<switch, history, restarts>>

-----------------------------------------------------------------------------
(* The commands of the user.                                               *)

(* The handshakes that have just met the device and may still apply the     *)
(* automatic trust to it: between two locks, they can overrule the user.    *)
Meeting(d) == {h \in Handshake : hs[h].at = "checked" /\ hs[h].dev = d /\ hs[h].new}

trust_device(d, name, trusted) ==
    IF records[d] = None THEN NewRecord(None, name, trusted)
    ELSE [records[d] EXCEPT !.trusted = trusted, !.name = name]

(* Mutant: a command succeeds whether or not the file is written.           *)
SavedAnyway == TRUE

(* The command reports the success of the flush.                            *)
Saved == file' = records'

Distrusted(trusted) == ~trusted /\ Saved

(* The user's decision against a device is remembered, or is no more.       *)
Revokes(d) ==
    /\ revoked' = revoked \cup {d}
    /\ early' = early \cup Meeting(d)
    /\ overruled' = overruled \ {d}

Forgets(d) ==
    /\ revoked' = revoked \ {d}
    /\ early' = early \ Meeting(d)
    /\ overruled' = overruled \ {d}

TrustDevice(d, name, trusted) ==
    /\ previous = None
    /\ records' = [records EXCEPT ![d] = trust_device(d, name, trusted)]
    /\ Flush
    /\ IF Distrusted(trusted) THEN Revokes(d)
       ELSE IF trusted THEN Forgets(d)
       ELSE UNCHANGED history
    /\ UNCHANGED <<hs, switch, restarts>>

Remove(d) ==
    /\ previous = None
    /\ records' = [records EXCEPT ![d] = None]
    /\ Flush
    /\ Forgets(d)
    /\ UNCHANGED <<hs, switch, restarts>>

(* set_auto_trust: the switch is set before the settings are written, ...   *)
SetAutoTrust(enabled) ==
    /\ previous = None
    /\ previous' = auto
    /\ auto' = enabled
    /\ UNCHANGED <<records, file, hs, setting, history, fails, restarts>>

WriteSettings ==
    /\ previous # None
    /\ setting' = auto
    /\ previous' = None
    /\ UNCHANGED <<records, file, hs, auto, history, fails, restarts>>

(* Mutant: the switch stays as it was set.                                  *)
NotRolledBack == auto

RolledBack == previous

(* ... and set back when that fails.                                        *)
WriteSettingsFails ==
    /\ previous # None
    /\ fails < MaxFails
    /\ fails' = fails + 1
    /\ auto' = RolledBack
    /\ previous' = None
    /\ UNCHANGED <<records, file, hs, setting, history, restarts>>

(* The program stops at any point and starts from its files.                *)
Restart ==
    /\ restarts < MaxRestarts
    /\ restarts' = restarts + 1
    /\ records' = file
    /\ hs' = [h \in Handshake |-> Idle]
    /\ auto' = setting
    /\ previous' = None
    /\ early' = {}
    /\ UNCHANGED <<file, setting, revoked, overruled, fails>>

-----------------------------------------------------------------------------
HandshakeStep(h) ==
    \/ \E d \in Device, fp \in Fingerprint, name \in Name, ip \in Ip :
          CheckIdentity(h, d, fp, name, ip)
    \/ AutoTrust(h)
    \/ UpdateLastIp(h)

UserCommand ==
    \/ \E d \in Device : Remove(d)
    \/ \E d \in Device, name \in Name, trusted \in BOOLEAN : TrustDevice(d, name, trusted)
    \/ \E enabled \in BOOLEAN : SetAutoTrust(enabled)
    \/ WriteSettings
    \/ WriteSettingsFails

Next ==
    \/ \E h \in Handshake : HandshakeStep(h)
    \/ UserCommand
    \/ Restart

Spec == Init /\ [][Next]_vars

-----------------------------------------------------------------------------
TypeOK ==
    /\ records \in [Device -> TrustRecord \cup {None}]
    /\ file \in [Device -> TrustRecord \cup {None}]
    /\ hs \in [Handshake -> Contact \cup Settled \cup {Idle}]
    /\ auto \in BOOLEAN /\ setting \in BOOLEAN /\ previous \in BOOLEAN \cup {None}
    /\ revoked \subseteq {d \in Device : records[d] # None /\ file[d] # None}
    /\ early \subseteq Handshake /\ overruled \subseteq Device
    /\ fails \in 0 .. MaxFails /\ restarts \in 0 .. MaxRestarts

TrustedIn(R, d) == R[d] # None /\ R[d].trusted

(* A device the user has distrusted, by a command that succeeded, is not    *)
(* trusted again, in memory or after a restart, until the user trusts or    *)
(* removes it: no handshake that begins later, no write that fails and no   *)
(* restart takes the decision back (trust_device, check_identity,           *)
(* auto_trust_match, flush).  One thing does: a first contact with the      *)
(* device that was between its check and its automatic trust when the user  *)
(* decided (session.rs 326-334); it is what overruled records.              *)
RevocationHolds ==
    \A d \in revoked \ overruled : ~TrustedIn(records, d) /\ ~TrustedIn(file, d)

(* The fingerprint of a record is learned once: only a removal, or a        *)
(* restart from a file that lacks the last changes, lets go of it           *)
(* (check_identity).                                                        *)
PinKept ==
    [][\A d \in Device :
          records[d] # None /\ records[d].fingerprint # None =>
              \/ records'[d] = None
              \/ records'[d].fingerprint = records[d].fingerprint
              \/ Restart /\ file # records]_vars

(* Unless it is just being set, the switch has the value it will have after *)
(* a restart (set_auto_trust).                                              *)
SettingAgrees == previous = None => auto = setting

=============================================================================
