------------------------------ MODULE TrustProofs ------------------------------
(***************************************************************************)
(* The properties of Trust, for any sets of devices, fingerprints, names   *)
(* and addresses, any number of handshakes and any bounds.                 *)
(***************************************************************************)
EXTENDS Trust, TLAPS

Stored == TrustRecord \cup {None}

(* A first contact with a device that the user has distrusted was under way *)
(* when the user decided; the switch is set from the value of the file.     *)
MetEarly == \A d \in revoked : Meeting(d) \subseteq early
SwitchFollows == previous \in {None, setting}

(* A record that is there is a record, so its fields have their types.      *)
LEMMA RecordTypes ==
    ASSUME TypeOK, NEW d \in Device, records[d] # None
    PROVE  /\ records[d] \in TrustRecord
           /\ \A b \in BOOLEAN : [records[d] EXCEPT !.trusted = b] \in TrustRecord
           /\ \A ip \in Ip : [records[d] EXCEPT !.ip = ip] \in TrustRecord
  BY DEF TypeOK, TrustRecord

(* What a handshake records is a record, with the trust there was.          *)
LEMMA CheckedRecord ==
    ASSUME TypeOK, NEW d \in Device, NEW fp \in Fingerprint, NEW name \in Name
    PROVE  /\ check_identity(d, fp, name) \in TrustRecord
           /\ records[d] # None =>
                 check_identity(d, fp, name).trusted = records[d].trusted
           /\ records[d] # None /\ records[d].fingerprint # None =>
                 check_identity(d, fp, name).fingerprint = records[d].fingerprint
<1>1. CASE records[d] = None
  BY <1>1 DEF check_identity, NewRecord, TrustRecord
<1>2. CASE records[d] # None
  BY <1>2, RecordTypes DEF check_identity, Learned, TrustRecord
<1> QED
  BY <1>1, <1>2

(* What a command of the user records.                                      *)
LEMMA CommandedRecord ==
    ASSUME TypeOK, NEW d \in Device, NEW name \in Name, NEW trusted \in BOOLEAN
    PROVE  /\ trust_device(d, name, trusted) \in TrustRecord
           /\ trust_device(d, name, trusted).trusted = trusted
           /\ records[d] # None =>
                 trust_device(d, name, trusted).fingerprint = records[d].fingerprint
<1>1. CASE records[d] = None
  BY <1>1 DEF trust_device, NewRecord, TrustRecord
<1>2. CASE records[d] # None
  BY <1>2, RecordTypes DEF trust_device, TrustRecord
<1> QED
  BY <1>1, <1>2

(* A flush writes what is in memory or leaves the file as it is.            *)
LEMMA FlushTypes ==
    ASSUME TypeOK, Flush, records' \in [Device -> Stored]
    PROVE  /\ file' \in [Device -> Stored] /\ file' \in {file, records'}
           /\ fails' \in 0 .. MaxFails
  BY BoundAssumption DEF TypeOK, Flush, Flushed, FlushFails, Stored

(* A step that changes one record, and no record of a device that the user  *)
(* distrusted into a trusted one, keeps what is promised about those.       *)
LEMMA RecordStep ==
    ASSUME TypeOK, RevocationHolds, Flush,
           NEW d \in Device, NEW r \in TrustRecord,
           records' = [records EXCEPT ![d] = r],
           revoked' \subseteq revoked,
           overruled' = overruled \/ overruled' = overruled \cup {d},
           d \in revoked' \ overruled' => ~r.trusted
    PROVE  /\ records' \in [Device -> Stored] /\ file' \in [Device -> Stored]
           /\ fails' \in 0 .. MaxFails
           /\ revoked' \subseteq {e \in Device : records'[e] # None /\ file'[e] # None}
           /\ RevocationHolds'
<1>1. records' \in [Device -> Stored]
  BY DEF TypeOK, Stored
<1>2. file' \in [Device -> Stored] /\ file' \in {file, records'} /\ fails' \in 0 .. MaxFails
  BY <1>1, FlushTypes
<1>3. ASSUME NEW e \in revoked'
      PROVE  e \in Device /\ records'[e] # None /\ file'[e] # None
  BY <1>2, <1>3, NoneAssumption DEF TypeOK
<1>4. ASSUME NEW e \in revoked' \ overruled'
      PROVE  ~records'[e].trusted /\ ~file'[e].trusted
  BY <1>2, <1>3, <1>4 DEF TypeOK, RevocationHolds, TrustedIn
<1> QED
  BY <1>1, <1>2, <1>3, <1>4 DEF RevocationHolds, TrustedIn

Inductive == TypeOK /\ RevocationHolds /\ MetEarly /\ SwitchFollows /\ SettingAgrees

(* Forgetting a decision forgets only the first contacts of that device.    *)
LEMMA ForgottenEarly ==
    ASSUME TypeOK, MetEarly, NEW d \in Device, Forgets(d), hs' = hs
    PROVE  MetEarly'
<1> SUFFICES ASSUME NEW e \in revoked', NEW h \in Meeting(e) PROVE h \in early'
  BY DEF MetEarly, Meeting
<1>1. e \in revoked /\ e # d /\ h \in early
  BY DEF Forgets, MetEarly
<1>2. h \notin Meeting(d)
  BY <1>1 DEF Meeting
<1> QED
  BY <1>1, <1>2 DEF Forgets

(* The inductive invariant holds of every run.                              *)
THEOREM Invariance == Spec => []Inductive
<1>1. Init => Inductive
  BY BoundAssumption
  DEF Init, Inductive, TypeOK, RevocationHolds, MetEarly, SwitchFollows, SettingAgrees
<1>2. Inductive /\ [Next]_vars => Inductive'
  <2> SUFFICES ASSUME Inductive, [Next]_vars PROVE Inductive'
    OBVIOUS
  <2> USE DEF Inductive, SwitchFollows, SettingAgrees
  <2>1. ASSUME NEW h \in Handshake, NEW d \in Device, NEW fp \in Fingerprint,
               NEW name \in Name, NEW ip \in Ip, CheckIdentity(h, d, fp, name, ip)
        PROVE  Inductive'
    <3> DEFINE r == check_identity(d, fp, name)
               c == [at |-> "checked", dev |-> d, name |-> name, ip |-> ip, new |-> records[d] = None]
    <3>1. r \in TrustRecord /\ (records[d] # None => r.trusted = records[d].trusted)
      BY CheckedRecord
    <3>2. records' = [records EXCEPT ![d] = r] /\ Flush
          /\ hs' = [hs EXCEPT ![h] = c] /\ UNCHANGED <<switch, restarts>>
          /\ revoked' = revoked /\ early' = early /\ overruled' = overruled
      BY <2>1 DEF CheckIdentity, history
    <3>3. /\ d \in revoked => records[d] # None
          /\ d \in revoked \ overruled => ~r.trusted
      BY <3>1 DEF TypeOK, RevocationHolds, TrustedIn
    <3> HIDE DEF r
    <3>4. /\ records' \in [Device -> Stored] /\ file' \in [Device -> Stored]
          /\ fails' \in 0 .. MaxFails /\ RevocationHolds'
          /\ revoked' \subseteq {e \in Device : records'[e] # None /\ file'[e] # None}
      BY <3>1, <3>2, <3>3, RecordStep
    <3>5. c \in Contact
      BY DEF Contact
    <3>6. hs' \in [Handshake -> Contact \cup Settled \cup {Idle}]
      BY <3>2, <3>5 DEF TypeOK
    <3>7. TypeOK'
      BY <3>2, <3>4, <3>6 DEF TypeOK, switch, Stored
    <3>8. MetEarly'
      BY <3>2, <3>3 DEF MetEarly, Meeting, TypeOK
    <3> QED
      BY <3>2, <3>4, <3>7, <3>8 DEF switch
  <2>2. ASSUME NEW h \in Handshake, AutoTrust(h) PROVE Inductive'
    <3> DEFINE c == hs[h]
    <3>1. c \in Contact /\ revoked' = revoked /\ early' = early \ {h}
          /\ hs' = [hs EXCEPT ![h] = [at |-> "settled", dev |-> c.dev, ip |-> c.ip]]
          /\ UNCHANGED <<switch, restarts>>
      BY <2>2 DEF AutoTrust, TypeOK, Idle, Settled
    <3>2. hs' \in [Handshake -> Contact \cup Settled \cup {Idle}]
      BY <3>1 DEF TypeOK, Contact, Settled
    <3>3. MetEarly'
      BY <3>1 DEF MetEarly, Meeting, TypeOK
    <3>4. CASE UNCHANGED <<records, file, fails, overruled>>
      BY <3>1, <3>2, <3>3, <3>4 DEF TypeOK, RevocationHolds, TrustedIn, switch
    <3>5. CASE Applies(c) /\ records[c.dev] # None /\ Flush
               /\ records' = [records EXCEPT ![c.dev].trusted = TRUE]
               /\ overruled' = IF h \in early THEN overruled \cup {c.dev} ELSE overruled
      <4> DEFINE r == [records[c.dev] EXCEPT !.trusted = TRUE]
      <4>1. c.dev \in Device /\ (c.dev \in revoked => c.dev \in overruled')
        BY <3>1, <3>5 DEF Contact, Applies, MetEarly, Meeting
      <4>2. r \in TrustRecord
        BY <3>5, <4>1, RecordTypes
      <4>3. records' = [records EXCEPT ![c.dev] = r]
        BY <3>5
      <4> HIDE DEF r
      <4>4. /\ records' \in [Device -> Stored] /\ file' \in [Device -> Stored]
            /\ fails' \in 0 .. MaxFails /\ RevocationHolds'
            /\ revoked' \subseteq {e \in Device : records'[e] # None /\ file'[e] # None}
        BY <3>1, <3>5, <4>1, <4>2, <4>3, RecordStep
      <4>5. overruled' \subseteq Device
        BY <3>5, <4>1 DEF TypeOK
      <4>6. TypeOK'
        BY <3>1, <3>2, <4>4, <4>5 DEF TypeOK, switch, Stored
      <4> QED
        BY <3>1, <3>3, <4>4, <4>6 DEF switch
    <3> QED
      BY <2>2, <3>4, <3>5 DEF AutoTrust
  <2>3. ASSUME NEW h \in Handshake, UpdateLastIp(h) PROVE Inductive'
    <3> DEFINE c == hs[h]
    <3>1. c \in Settled /\ revoked' = revoked /\ early' = early /\ overruled' = overruled
          /\ hs' = [hs EXCEPT ![h] = Idle] /\ UNCHANGED <<switch, restarts>>
      BY <2>3 DEF UpdateLastIp, TypeOK, Idle, Contact, history
    <3>2. hs' \in [Handshake -> Contact \cup Settled \cup {Idle}]
      BY <3>1 DEF TypeOK
    <3>3. MetEarly'
      BY <3>1 DEF MetEarly, Meeting, TypeOK, Idle
    <3>4. CASE UNCHANGED <<records, file, fails>>
      BY <3>1, <3>2, <3>3, <3>4 DEF TypeOK, RevocationHolds, TrustedIn, switch
    <3>5. CASE records[c.dev] # None /\ Flush /\ records' = [records EXCEPT ![c.dev].ip = c.ip]
      <4> DEFINE r == [records[c.dev] EXCEPT !.ip = c.ip]
      <4>1. c.dev \in Device /\ c.ip \in Ip
        BY <3>1 DEF Settled
      <4>2. r \in TrustRecord /\ r.trusted = records[c.dev].trusted
        BY <3>5, <4>1, RecordTypes DEF TrustRecord
      <4>3. records' = [records EXCEPT ![c.dev] = r]
        BY <3>5
      <4>4. c.dev \in revoked \ overruled => ~r.trusted
        BY <3>5, <4>2 DEF RevocationHolds, TrustedIn
      <4> HIDE DEF r
      <4>5. /\ records' \in [Device -> Stored] /\ file' \in [Device -> Stored]
            /\ fails' \in 0 .. MaxFails /\ RevocationHolds'
            /\ revoked' \subseteq {e \in Device : records'[e] # None /\ file'[e] # None}
        BY <3>1, <3>5, <4>1, <4>2, <4>3, <4>4, RecordStep
      <4>6. TypeOK'
        BY <3>1, <3>2, <4>5 DEF TypeOK, switch, Stored
      <4> QED
        BY <3>1, <3>3, <4>5, <4>6 DEF switch
    <3> QED
      BY <2>3, <3>4, <3>5 DEF UpdateLastIp
  <2>4. ASSUME NEW d \in Device, Remove(d) PROVE Inductive'
    <3>1. /\ records' = [records EXCEPT ![d] = None] /\ Flush /\ Forgets(d)
          /\ UNCHANGED <<hs, switch, restarts>>
      BY <2>4 DEF Remove
    <3>2. records' \in [Device -> Stored]
      BY <3>1 DEF TypeOK, Stored
    <3>3. file' \in [Device -> Stored] /\ file' \in {file, records'} /\ fails' \in 0 .. MaxFails
      BY <3>1, <3>2, FlushTypes
    <3>4. \A e \in revoked' : /\ records'[e] = records[e] /\ file'[e] \in {file[e], records[e]}
                              /\ e \in Device /\ e \in revoked
                              /\ e \notin overruled' => e \notin overruled
      BY <3>1, <3>3 DEF TypeOK, Forgets
    <3>5. ASSUME NEW e \in revoked'
          PROVE  /\ records'[e] # None /\ file'[e] # None
                 /\ e \notin overruled' => ~TrustedIn(records', e) /\ ~TrustedIn(file', e)
      <4>1. /\ records'[e] = records[e] /\ file'[e] \in {file[e], records[e]}
            /\ e \in revoked /\ (e \notin overruled' => e \notin overruled)
        BY <3>4, <3>5
      <4>2. records[e] # None /\ file[e] # None
        BY <4>1 DEF TypeOK
      <4>3. e \notin overruled' => ~records[e].trusted /\ ~file[e].trusted
        BY <4>1, <4>2 DEF RevocationHolds, TrustedIn
      <4> QED
        BY <4>1, <4>2, <4>3 DEF TrustedIn
    <3>6. RevocationHolds' /\ revoked' \subseteq {e \in Device : records'[e] # None /\ file'[e] # None}
      BY <3>4, <3>5 DEF RevocationHolds, TrustedIn
    <3>7. TypeOK'
      BY <3>1, <3>2, <3>3, <3>6 DEF TypeOK, switch, Stored, Forgets
    <3>8. MetEarly'
      BY <3>1, ForgottenEarly
    <3> QED
      BY <3>1, <3>6, <3>7, <3>8 DEF switch
  <2>5. ASSUME NEW d \in Device, NEW name \in Name, NEW trusted \in BOOLEAN,
               TrustDevice(d, name, trusted)
        PROVE  Inductive'
    <3> DEFINE r == trust_device(d, name, trusted)
    <3>1. /\ records' = [records EXCEPT ![d] = r] /\ Flush
          /\ UNCHANGED <<hs, switch, restarts>>
          /\ \/ ~trusted /\ file' = records' /\ Revokes(d)
             \/ trusted /\ Forgets(d)
             \/ ~trusted /\ UNCHANGED history
      BY <2>5 DEF TrustDevice, Distrusted, Saved
    <3>2. r \in TrustRecord /\ r.trusted = trusted /\ r # None
      BY CommandedRecord, NoneAssumption
    <3> HIDE DEF r
    <3>3. records' \in [Device -> Stored]
      BY <3>1, <3>2 DEF TypeOK, Stored
    <3>4. file' \in [Device -> Stored] /\ file' \in {file, records'} /\ fails' \in 0 .. MaxFails
      BY <3>1, <3>3, FlushTypes
    <3>5. \A e \in revoked' : \/ e \in revoked /\ e # d
                              \/ e = d /\ ~trusted /\ e \in revoked
                              \/ e = d /\ ~trusted /\ file' = records'
      BY <3>1 DEF Revokes, Forgets, history
    <3>6. \A e \in revoked' \ overruled' : e \in revoked /\ ~(e = d /\ file' = records') => e \notin overruled
      BY <3>1 DEF Revokes, Forgets, history
    <3>7. ASSUME NEW e \in revoked'
          PROVE  /\ e \in Device /\ records'[e] # None /\ file'[e] # None
                 /\ e \notin overruled' => ~TrustedIn(records', e) /\ ~TrustedIn(file', e)
      <4>1. CASE e \in revoked /\ e # d
        BY <3>1, <3>4, <3>6, <4>1 DEF TypeOK, RevocationHolds, TrustedIn
      <4>2. CASE e = d /\ ~trusted /\ file' = records'
        BY <3>1, <3>2, <4>2 DEF TypeOK, TrustedIn
      <4>3. CASE e = d /\ ~trusted /\ e \in revoked /\ file' # records'
        BY <3>1, <3>2, <3>4, <3>6, <4>3 DEF TypeOK, RevocationHolds, TrustedIn
      <4> QED
        BY <3>5, <4>1, <4>2, <4>3
    <3>8. RevocationHolds'
      BY <3>7 DEF RevocationHolds, TrustedIn
    <3>9. early' \subseteq Handshake /\ overruled' \subseteq Device
      BY <3>1 DEF TypeOK, Revokes, Forgets, Meeting, history
    <3>10. TypeOK'
      BY <3>1, <3>3, <3>4, <3>7, <3>9 DEF TypeOK, switch, Stored
    <3>11. MetEarly'
      <4>1. CASE Revokes(d)
        BY <3>1, <4>1 DEF MetEarly, Meeting, Revokes
      <4>2. CASE Forgets(d)
        BY <3>1, <4>2, ForgottenEarly
      <4>3. CASE UNCHANGED history
        BY <3>1, <4>3 DEF MetEarly, Meeting, history
      <4> QED
        BY <3>1, <4>1, <4>2, <4>3
    <3> QED
      BY <3>1, <3>8, <3>10, <3>11 DEF switch
  <2>6. ASSUME NEW enabled \in BOOLEAN, SetAutoTrust(enabled) PROVE Inductive'
    BY <2>6, NoneAssumption
    DEF SetAutoTrust, history, TypeOK, RevocationHolds, TrustedIn, MetEarly, Meeting
  <2>7. CASE WriteSettings
    BY <2>7 DEF WriteSettings, history, TypeOK, RevocationHolds, TrustedIn, MetEarly, Meeting
  <2>8. CASE WriteSettingsFails
    BY <2>8, BoundAssumption
    DEF WriteSettingsFails, RolledBack, history, TypeOK, RevocationHolds, TrustedIn, MetEarly, Meeting
  <2>9. CASE Restart
    BY <2>9, BoundAssumption
    DEF Restart, TypeOK, RevocationHolds, TrustedIn, MetEarly, Meeting, Idle
  <2>10. CASE UNCHANGED vars
    BY <2>10 DEF vars, switch, history, TypeOK, RevocationHolds, TrustedIn, MetEarly, Meeting
  <2> QED
    BY <2>1, <2>2, <2>3, <2>4, <2>5, <2>6, <2>7, <2>8, <2>9, <2>10
    DEF Next, HandshakeStep, UserCommand
<1> QED
  BY <1>1, <1>2, PTL DEF Spec

(* The types of the state; a device that was distrusted has its record in   *)
(* memory and in the file.                                                  *)
THEOREM TypeCorrect == Spec => []TypeOK
  BY Invariance, PTL DEF Inductive

(* Nothing but a command of the user, or a first contact that was under way *)
(* when the user decided, takes back that the user distrusts a device.      *)
THEOREM RevocationIsKept == Spec => []RevocationHolds
  BY Invariance, PTL DEF Inductive

(* The switch auto_trust and the settings file agree, but while it is set.  *)
THEOREM SwitchAgrees == Spec => []SettingAgrees
  BY Invariance, PTL DEF Inductive

(* The fingerprint of a device is learned once.                             *)
THEOREM PinIsKept == Spec => PinKept
<1> DEFINE Kept(d) == records[d] # None /\ records[d].fingerprint # None =>
                          \/ records'[d] = None
                          \/ records'[d].fingerprint = records[d].fingerprint
                          \/ Restart /\ file # records
<1>1. ASSUME Inductive, [Next]_vars PROVE [\A d \in Device : Kept(d)]_vars
  <2>0. SUFFICES ASSUME Next, NEW d \in Device, records[d] # None, records[d].fingerprint # None
                 PROVE  \/ records'[d] = None
                        \/ records'[d].fingerprint = records[d].fingerprint
                        \/ Restart /\ file # records
    BY <1>1
  <2> USE <1>1, <2>0 DEF Inductive, TypeOK
  <2>1. ASSUME NEW h \in Handshake, NEW e \in Device, NEW fp \in Fingerprint,
               NEW name \in Name, NEW ip \in Ip, CheckIdentity(h, e, fp, name, ip)
        PROVE  records'[d].fingerprint = records[d].fingerprint
    BY <2>1, CheckedRecord DEF CheckIdentity
  <2>2. ASSUME NEW h \in Handshake, AutoTrust(h) \/ UpdateLastIp(h)
        PROVE  records'[d].fingerprint = records[d].fingerprint
    BY <2>2, RecordTypes DEF AutoTrust, UpdateLastIp, TrustRecord
  <2>3. ASSUME NEW e \in Device, Remove(e)
        PROVE  records'[d] = None \/ records'[d].fingerprint = records[d].fingerprint
    BY <2>3 DEF Remove
  <2>4. ASSUME NEW e \in Device, NEW name \in Name, NEW trusted \in BOOLEAN,
               TrustDevice(e, name, trusted)
        PROVE  records'[d].fingerprint = records[d].fingerprint
    BY <2>4, CommandedRecord DEF TrustDevice
  <2>5. ASSUME NEW enabled \in BOOLEAN, SetAutoTrust(enabled) \/ WriteSettings \/ WriteSettingsFails
        PROVE  records'[d].fingerprint = records[d].fingerprint
    BY <2>5 DEF SetAutoTrust, WriteSettings, WriteSettingsFails
  <2>6. CASE Restart
    BY <2>6 DEF Restart
  <2> QED
    BY <2>0, <2>1, <2>2, <2>3, <2>4, <2>5, <2>6 DEF Next, HandshakeStep, UserCommand
<1> QED
  BY <1>1, Invariance, PTL DEF PinKept, Spec

================================================================================
