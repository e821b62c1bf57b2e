---------------------------- MODULE DevicesProofs ----------------------------
(***************************************************************************)
(* Proofs about Devices for every set of key ids, every policy and every   *)
(* number of registrations: one active record per key, what becomes of a   *)
(* revoked device, and what the cleanup may put out of use; and for every  *)
(* set of labels and public keys, which passkey is found.                  *)
(***************************************************************************)
EXTENDS Devices, WellFoundedInduction, TLAPS

DeviceRecords == [key_id : KeyId, last_used : Nat, is_active : BOOLEAN]

DeviceTypes ==
    /\ devices \in Seq(DeviceRecords)
    /\ now \in Nat
    /\ used \in [KeyId -> Nat]

\* Only an id that was registered again has several records.
OneRecordUnlessAgain ==
    \A i, j \in DOMAIN devices :
        devices[i].key_id = devices[j].key_id => i = j \/ devices[i].key_id \in again

\* The record of an id that has one tells when it was last used.
UseIsRecorded ==
    \A i \in DOMAIN devices :
        devices[i].key_id \notin again => devices[i].last_used = used[devices[i].key_id]

\* An id that has one record, and was revoked by name, is not in use.
RevokedOutOfUse == \A id \in revoked \ again : id \notin ActiveIds

DevicesInv ==
    /\ DeviceTypes
    /\ OneRecordUnlessAgain
    /\ UseIsRecorded
    /\ OneActiveRecordPerKey
    /\ RevokedOutOfUse

\* A step that adds no record, renames none and activates none.
EditedInPlace ==
    /\ DOMAIN devices' = DOMAIN devices
    /\ \A i \in DOMAIN devices :
          /\ devices'[i].key_id = devices[i].key_id
          /\ devices'[i].is_active => devices[i].is_active

-----------------------------------------------------------------------------
(* Lists of records *)

\* A list of records with one more at its end.
LEMMA AppendedList ==
    ASSUME NEW s \in Seq(DeviceRecords), NEW r \in DeviceRecords
    PROVE  /\ Append(s, r) \in Seq(DeviceRecords)
           /\ DOMAIN Append(s, r) = DOMAIN s \cup {Len(s) + 1}
           /\ Len(s) + 1 \notin DOMAIN s
           /\ \A i \in DOMAIN s : Append(s, r)[i] = s[i]
           /\ Append(s, r)[Len(s) + 1] = r
<1>1. /\ Len(s) \in Nat
      /\ DOMAIN s = 1..Len(s)
      /\ Append(s, r) \in Seq(DeviceRecords)
      /\ Len(Append(s, r)) = Len(s) + 1
      /\ \A i \in 1..Len(s) : Append(s, r)[i] = s[i]
      /\ Append(s, r)[Len(s) + 1] = r
  OBVIOUS
<1>2. DOMAIN Append(s, r) = 1..(Len(s) + 1)
  BY <1>1
<1>3. 1..(Len(s) + 1) = (1..Len(s)) \cup {Len(s) + 1}
  BY <1>1
<1> QED
  BY <1>1, <1>2, <1>3

\* Setting is_active changes nothing else of a record.
LEMMA DeactivatedRecord ==
    ASSUME NEW r \in DeviceRecords, NEW b \in BOOLEAN
    PROVE  /\ [r EXCEPT !.is_active = b] \in DeviceRecords
           /\ [r EXCEPT !.is_active = b].key_id = r.key_id
           /\ [r EXCEPT !.is_active = b].last_used = r.last_used
           /\ [r EXCEPT !.is_active = b].is_active = b
  BY Zenon DEF DeviceRecords

\* Setting last_used changes nothing else of a record.
LEMMA UsedRecord ==
    ASSUME NEW r \in DeviceRecords, NEW t \in Nat
    PROVE  /\ [r EXCEPT !.last_used = t] \in DeviceRecords
           /\ [r EXCEPT !.last_used = t].key_id = r.key_id
           /\ [r EXCEPT !.last_used = t].last_used = t
           /\ [r EXCEPT !.last_used = t].is_active = r.is_active
  BY Zenon DEF DeviceRecords

\* update_device replaces one element and keeps the others in place.
LEMMA ReplacedInList ==
    ASSUME NEW s \in Seq(DeviceRecords), NEW i \in DOMAIN s, NEW r \in DeviceRecords
    PROVE  /\ [s EXCEPT ![i] = r] \in Seq(DeviceRecords)
           /\ DOMAIN [s EXCEPT ![i] = r] = DOMAIN s
           /\ \A j \in DOMAIN s : [s EXCEPT ![i] = r][j] = IF j = i THEN r ELSE s[j]
  OBVIOUS

\* The ids of records are key ids.
LEMMA RecordedIds ==
    ASSUME DeviceTypes
    PROVE  \A i \in DOMAIN devices : devices[i].key_id \in KeyId
<1>1. \A i \in DOMAIN devices : devices[i] \in DeviceRecords
  BY DEF DeviceTypes
<1>2. \A r \in DeviceRecords : r.key_id \in KeyId
  BY DEF DeviceRecords
<1> QED
  BY <1>1, <1>2

\* The record revoke_device or update_last_used changes is in the list.
LEMMA FirstOf ==
    ASSUME DeviceTypes, NEW id \in KeyId, NEW i \in DOMAIN devices, IsFirstOf(id, i)
    PROVE  devices[i] \in DeviceRecords /\ devices[i].key_id = id
  BY DEF DeviceTypes, IsFirstOf

-----------------------------------------------------------------------------
(* What the steps do to the list *)

\* revoke_device deactivates a record of this id, in place.
LEMMA RevokeEdits ==
    ASSUME DeviceTypes, NEW id \in KeyId, RevokeDevice(id)
    PROVE  /\ DeviceTypes'
           /\ EditedInPlace
           /\ \A i \in DOMAIN devices : devices'[i].last_used = devices[i].last_used
           /\ \E i \in DOMAIN devices : devices[i].key_id = id /\ ~devices'[i].is_active
           /\ \A i \in DOMAIN devices : devices[i].key_id # id =>
                 devices'[i].is_active = devices[i].is_active
<1>1. PICK i \in DOMAIN devices :
        /\ IsFirstOf(id, i)
        /\ devices' = [devices EXCEPT ![i] = [devices[i] EXCEPT !.is_active = FALSE]]
  BY DEF RevokeDevice
<1> DEFINE r == [devices[i] EXCEPT !.is_active = FALSE]
<1>2. devices[i] \in DeviceRecords /\ devices[i].key_id = id
  BY <1>1, FirstOf
<1>3. /\ r \in DeviceRecords
      /\ r.key_id = devices[i].key_id
      /\ r.last_used = devices[i].last_used
      /\ r.is_active = FALSE
  BY <1>2, DeactivatedRecord
<1> HIDE DEF r
<1>4. /\ devices' \in Seq(DeviceRecords)
      /\ DOMAIN devices' = DOMAIN devices
      /\ \A j \in DOMAIN devices : devices'[j] = IF j = i THEN r ELSE devices[j]
  BY <1>1, <1>3, ReplacedInList DEF DeviceTypes, r
<1>5. now' = now /\ used' = used
  BY DEF RevokeDevice
<1>6. DeviceTypes'
  BY <1>4, <1>5 DEF DeviceTypes
<1> QED
  BY <1>2, <1>3, <1>4, <1>6 DEF EditedInPlace

\* update_last_used writes the time into a record of this id, in place.
LEMMA UseEdits ==
    ASSUME DeviceTypes, NEW id \in KeyId, UpdateLastUsed(id)
    PROVE  /\ DeviceTypes'
           /\ EditedInPlace
           /\ \A i \in DOMAIN devices : devices'[i].is_active = devices[i].is_active
           /\ \A i \in DOMAIN devices : devices[i].key_id # id =>
                 devices'[i].last_used = devices[i].last_used
           /\ \E i \in DOMAIN devices : devices[i].key_id = id /\ devices'[i].last_used = now
           /\ used' = [used EXCEPT ![id] = now]
<1>1. PICK i \in DOMAIN devices :
        /\ IsFirstOf(id, i)
        /\ devices' = [devices EXCEPT ![i] = [devices[i] EXCEPT !.last_used = now]]
        /\ used' = [used EXCEPT ![id] = now]
  BY DEF UpdateLastUsed
<1> DEFINE r == [devices[i] EXCEPT !.last_used = now]
<1>2. devices[i] \in DeviceRecords /\ devices[i].key_id = id
  BY <1>1, FirstOf
<1>3. /\ r \in DeviceRecords
      /\ r.key_id = devices[i].key_id
      /\ r.last_used = now
      /\ r.is_active = devices[i].is_active
  BY <1>2, UsedRecord DEF DeviceTypes
<1> HIDE DEF r
<1>4. /\ devices' \in Seq(DeviceRecords)
      /\ DOMAIN devices' = DOMAIN devices
      /\ \A j \in DOMAIN devices : devices'[j] = IF j = i THEN r ELSE devices[j]
  BY <1>1, <1>3, ReplacedInList DEF DeviceTypes, r
<1>5. now' = now
  BY DEF UpdateLastUsed
<1>6. DeviceTypes'
  BY <1>1, <1>4, <1>5 DEF DeviceTypes
<1> QED
  BY <1>1, <1>2, <1>3, <1>4, <1>6 DEF EditedInPlace

\* cleanup_inactive deactivates idle records only, in place.
LEMMA CleanupEdits ==
    ASSUME DeviceTypes, CleanupInactive
    PROVE  /\ DeviceTypes'
           /\ EditedInPlace
           /\ \A i \in DOMAIN devices :
                 /\ devices'[i].last_used = devices[i].last_used
                 /\ devices[i].is_active /\ ~devices'[i].is_active => Idle(devices[i])
<1> DEFINE kept(i) == devices[i].is_active /\ ~Idle(devices[i])
           r(i) == [devices[i] EXCEPT !.is_active = kept(i)]
<1>1. devices' = [i \in DOMAIN devices |-> r(i)]
  BY DEF CleanupInactive
<1>2. \A i \in DOMAIN devices :
        /\ r(i) \in DeviceRecords
        /\ r(i).key_id = devices[i].key_id
        /\ r(i).last_used = devices[i].last_used
        /\ r(i).is_active = kept(i)
  <2> TAKE i \in DOMAIN devices
  <2>1. devices[i] \in DeviceRecords
    BY DEF DeviceTypes
  <2>2. kept(i) \in BOOLEAN
    OBVIOUS
  <2> HIDE DEF kept
  <2> QED
    BY <2>1, <2>2, DeactivatedRecord
<1> HIDE DEF r
<1>3. \A i \in DOMAIN devices : devices'[i] = r(i)
  BY <1>1
<1>4. DOMAIN devices' = DOMAIN devices
  BY <1>1
<1>5. devices' \in Seq(DeviceRecords)
  <2>1. DOMAIN devices = 1..Len(devices) /\ Len(devices) \in Nat
    BY DEF DeviceTypes
  <2> QED
    BY <1>1, <1>2, <2>1
<1>6. DeviceTypes'
  BY <1>5 DEF CleanupInactive, history, DeviceTypes
<1> HIDE DEF kept
<1>7. \A i \in DOMAIN devices :
        /\ devices'[i].key_id = devices[i].key_id
        /\ devices'[i].last_used = devices[i].last_used
        /\ devices'[i].is_active = kept(i)
  BY <1>2, <1>3, Zenon
<1> QED
  BY <1>4, <1>6, <1>7, Zenon DEF EditedInPlace, kept

-----------------------------------------------------------------------------
(* The invariant *)

\* What a step means for the devices; the passkey calls leave them alone.
LEMMA NextCases ==
    ASSUME [Next]_vars
    PROVE  \/ \E p \in Policies \cup {DefaultPolicy} : New(p)
           \/ \E id \in KeyId : RegisterDevice(id)
           \/ \E id \in KeyId : RevokeDevice(id)
           \/ \E id \in KeyId : UpdateLastUsed(id)
           \/ CleanupInactive
           \/ UNCHANGED <<devices, now, history>>
           \/ Tick
  BY DEF Next, vars, SetPolicy, StorePasskey, RemovePasskey, history

\* No device is registered at first.
LEMMA InitInv == Init => DevicesInv
<1> SUFFICES ASSUME Init PROVE DevicesInv
  OBVIOUS
<1>1. DeviceTypes
  BY DEF Init, DeviceTypes
<1>2. DOMAIN devices = {} /\ revoked = {}
  BY DEF Init
<1> QED
  BY <1>1, <1>2 DEF DevicesInv, OneRecordUnlessAgain, UseIsRecorded,
     OneActiveRecordPerKey, RevokedOutOfUse, ActiveAt, ActiveIds

\* A call that edits records in place adds no record and activates none.
LEMMA EditingKeeps ==
    ASSUME DevicesInv, EditedInPlace, again' = again
    PROVE  /\ OneRecordUnlessAgain'
           /\ OneActiveRecordPerKey'
           /\ ActiveIds' \subseteq ActiveIds
  BY DEF DevicesInv, EditedInPlace, OneRecordUnlessAgain, OneActiveRecordPerKey,
         ActiveAt, ActiveIds

\* A new manager stores an empty list.
LEMMA NewStep ==
    ASSUME DevicesInv, NEW p, New(p)
    PROVE  DevicesInv'
<1>1. DeviceTypes'
  BY DEF DevicesInv, DeviceTypes, New
<1>2. DOMAIN devices' = {} /\ revoked' = {}
  BY DEF New
<1> QED
  BY <1>1, <1>2 DEF DevicesInv, OneRecordUnlessAgain, UseIsRecorded,
     OneActiveRecordPerKey, RevokedOutOfUse, ActiveAt, ActiveIds

\* register_device appends a record only where none of its id is active.
LEMMA RegisterStep ==
    ASSUME DevicesInv, NEW id \in KeyId, RegisterDevice(id)
    PROVE  DevicesInv'
<1> DEFINE n == Len(devices) + 1
<1>1. /\ id \notin ActiveIds
      /\ devices' = Append(devices, NewDevice(id))
      /\ again' = IF Recorded(id) THEN again \cup {id} ELSE again
      /\ used' = [used EXCEPT ![id] = now]
      /\ revoked' = revoked \ {id}
      /\ now' = now
  BY DEF RegisterDevice, Listed
<1>2. /\ NewDevice(id) \in DeviceRecords
      /\ NewDevice(id).key_id = id
      /\ NewDevice(id).last_used = now
  BY DEF NewDevice, DeviceRecords, DevicesInv, DeviceTypes
<1>3. /\ devices' \in Seq(DeviceRecords)
      /\ DOMAIN devices' = DOMAIN devices \cup {n}
      /\ n \notin DOMAIN devices
      /\ \A i \in DOMAIN devices : devices'[i] = devices[i]
      /\ devices'[n].key_id = id
      /\ devices'[n].last_used = now
  BY <1>1, <1>2, AppendedList DEF DevicesInv, DeviceTypes
<1> HIDE DEF n
<1>4. \A i \in DOMAIN devices : devices[i].key_id = id => id \in again'
  BY <1>1 DEF Recorded
<1>5. again \subseteq again'
  BY <1>1
<1>6. \A i \in DOMAIN devices : devices[i].key_id \in KeyId
  BY RecordedIds DEF DevicesInv
<1>7. DeviceTypes'
  BY <1>1, <1>3 DEF DevicesInv, DeviceTypes
<1>8. OneRecordUnlessAgain'
  BY <1>3, <1>4, <1>5 DEF DevicesInv, OneRecordUnlessAgain
<1>9. UseIsRecorded'
  <2> SUFFICES ASSUME NEW i \in DOMAIN devices', devices'[i].key_id \notin again'
               PROVE  devices'[i].last_used = used'[devices'[i].key_id]
    BY DEF UseIsRecorded
  <2>1. CASE i = n
    BY <1>1, <1>3, <2>1 DEF DevicesInv, DeviceTypes
  <2>2. CASE i \in DOMAIN devices
    <3>1. devices[i].key_id \in KeyId \ {id} /\ devices'[i] = devices[i]
      BY <1>3, <1>4, <1>6, <2>2
    <3>2. used'[devices[i].key_id] = used[devices[i].key_id]
      BY <1>1, <3>1 DEF DevicesInv, DeviceTypes
    <3>3. devices[i].last_used = used[devices[i].key_id]
      BY <1>5, <2>2, <3>1 DEF DevicesInv, UseIsRecorded
    <3> QED
      BY <3>1, <3>2, <3>3
  <2> QED
    BY <1>3, <2>1, <2>2
<1>10. \A i \in DOMAIN devices : devices[i].is_active => devices[i].key_id # id
  BY <1>1 DEF ActiveIds, ActiveAt
<1>11. OneActiveRecordPerKey'
  BY <1>3, <1>10 DEF DevicesInv, OneActiveRecordPerKey, ActiveAt
<1>12. ActiveIds' \subseteq ActiveIds \cup {id}
  BY <1>3 DEF ActiveIds, ActiveAt
<1>13. RevokedOutOfUse'
  BY <1>1, <1>5, <1>12 DEF DevicesInv, RevokedOutOfUse
<1> QED
  BY <1>7, <1>8, <1>9, <1>11, <1>13 DEF DevicesInv

\* An id with one record has no active one after revoke_device.
LEMMA RevokeStep ==
    ASSUME DevicesInv, NEW id \in KeyId, RevokeDevice(id)
    PROVE  DevicesInv'
<1>1. /\ DeviceTypes'
      /\ EditedInPlace
      /\ \A i \in DOMAIN devices : devices'[i].last_used = devices[i].last_used
      /\ \E i \in DOMAIN devices : devices[i].key_id = id /\ ~devices'[i].is_active
  BY RevokeEdits DEF DevicesInv
<1>2. again' = again /\ used' = used /\ revoked' = revoked \cup {id}
  BY DEF RevokeDevice
<1>3. OneRecordUnlessAgain' /\ OneActiveRecordPerKey' /\ ActiveIds' \subseteq ActiveIds
  BY <1>1, <1>2, EditingKeeps
<1>4. UseIsRecorded'
  BY <1>1, <1>2 DEF DevicesInv, UseIsRecorded, EditedInPlace
<1>5. id \notin again => id \notin ActiveIds'
  BY <1>1 DEF DevicesInv, OneRecordUnlessAgain, EditedInPlace, ActiveIds, ActiveAt
<1>6. RevokedOutOfUse'
  BY <1>2, <1>3, <1>5 DEF DevicesInv, RevokedOutOfUse
<1> QED
  BY <1>1, <1>3, <1>4, <1>6 DEF DevicesInv

\* The date of an id with one record is that of its last use.
LEMMA UseStep ==
    ASSUME DevicesInv, NEW id \in KeyId, UpdateLastUsed(id)
    PROVE  DevicesInv'
<1>1. /\ DeviceTypes'
      /\ EditedInPlace
      /\ \A i \in DOMAIN devices : devices[i].key_id # id =>
            devices'[i].last_used = devices[i].last_used
      /\ used' = [used EXCEPT ![id] = now]
  BY UseEdits DEF DevicesInv
<1>2. PICK k \in DOMAIN devices : devices[k].key_id = id /\ devices'[k].last_used = now
  BY UseEdits DEF DevicesInv
<1>3. again' = again /\ revoked' = revoked
  BY DEF UpdateLastUsed
<1>4. OneRecordUnlessAgain' /\ OneActiveRecordPerKey' /\ ActiveIds' \subseteq ActiveIds
  BY <1>1, <1>3, EditingKeeps
<1>5. UseIsRecorded'
  <2> SUFFICES ASSUME NEW i \in DOMAIN devices, devices[i].key_id \notin again
               PROVE  devices'[i].last_used = used'[devices[i].key_id]
    BY <1>1, <1>3 DEF UseIsRecorded, EditedInPlace
  <2>1. CASE devices[i].key_id = id
    <3>1. i = k
      BY <1>2, <2>1 DEF DevicesInv, OneRecordUnlessAgain
    <3> QED
      BY <1>1, <1>2, <2>1, <3>1 DEF DevicesInv, DeviceTypes
  <2>2. CASE devices[i].key_id # id
    BY <1>1, <2>2 DEF DevicesInv, DeviceTypes, UseIsRecorded, DeviceRecords
  <2> QED
    BY <2>1, <2>2
<1>6. RevokedOutOfUse'
  BY <1>3, <1>4 DEF DevicesInv, RevokedOutOfUse
<1> QED
  BY <1>1, <1>4, <1>5, <1>6 DEF DevicesInv

\* cleanup_inactive changes no date.
LEMMA CleanupStep ==
    ASSUME DevicesInv, CleanupInactive
    PROVE  DevicesInv'
<1>1. /\ DeviceTypes'
      /\ EditedInPlace
      /\ \A i \in DOMAIN devices : devices'[i].last_used = devices[i].last_used
  BY CleanupEdits DEF DevicesInv
<1>2. again' = again /\ used' = used /\ revoked' = revoked
  BY DEF CleanupInactive, history
<1>3. OneRecordUnlessAgain' /\ OneActiveRecordPerKey' /\ ActiveIds' \subseteq ActiveIds
  BY <1>1, <1>2, EditingKeeps
<1>4. UseIsRecorded'
  BY <1>1, <1>2 DEF DevicesInv, UseIsRecorded, EditedInPlace
<1>5. RevokedOutOfUse'
  BY <1>2, <1>3 DEF DevicesInv, RevokedOutOfUse
<1> QED
  BY <1>1, <1>3, <1>4, <1>5 DEF DevicesInv

\* Every step keeps the invariant.
LEMMA StepInv ==
    ASSUME DevicesInv, [Next]_vars
    PROVE  DevicesInv'
<1>1. CASE UNCHANGED <<devices, now, history>> \/ Tick
  <2>1. UNCHANGED <<devices, again, used, revoked>> /\ now' \in Nat
    BY <1>1 DEF Tick, history, DevicesInv, DeviceTypes
  <2> QED
    BY <2>1 DEF DevicesInv, DeviceTypes, OneRecordUnlessAgain, UseIsRecorded,
       OneActiveRecordPerKey, RevokedOutOfUse, ActiveAt, ActiveIds
<1> QED
  BY <1>1, NextCases, NewStep, RegisterStep, RevokeStep, UseStep, CleanupStep

\* The invariant holds of every reachable state.
LEMMA Invariance == Spec => []DevicesInv
  BY InitInv, StepInv, PTL DEF Spec

\* However often an id is revoked and registered again, at most one of its
\* records is active.
THEOREM OneActiveRecord == Spec => []OneActiveRecordPerKey
<1>1. DevicesInv => OneActiveRecordPerKey
  BY DEF DevicesInv
<1> QED
  BY <1>1, Invariance, PTL

\* An id comes into use only with the record register_device appends.
LEMMA WhoActivates ==
    ASSUME DevicesInv, [Next]_vars, devices' # <<>>
    PROVE  /\ \A i \in DOMAIN devices :
                 /\ i \in DOMAIN devices'
                 /\ devices'[i].key_id = devices[i].key_id
                 /\ devices'[i].is_active => devices[i].is_active
           /\ \A id \in ActiveIds' \ ActiveIds : devices' = Append(devices, NewDevice(id))
<1>1. EditedInPlace => ActiveIds' \subseteq ActiveIds
  BY DEF EditedInPlace, ActiveIds, ActiveAt
<1>2. CASE EditedInPlace
  BY <1>1, <1>2 DEF EditedInPlace
<1>3. ASSUME NEW p, New(p)
      PROVE  FALSE
  BY <1>3 DEF New
<1>4. ASSUME NEW k \in KeyId, RegisterDevice(k)
      PROVE  /\ \A i \in DOMAIN devices :
                   i \in DOMAIN devices' /\ devices'[i] = devices[i]
             /\ ActiveIds' \subseteq ActiveIds \cup {k}
             /\ devices' = Append(devices, NewDevice(k))
  <2>1. NewDevice(k) \in DeviceRecords /\ NewDevice(k).key_id = k
    BY DEF NewDevice, DeviceRecords, DevicesInv, DeviceTypes
  <2>2. devices' = Append(devices, NewDevice(k))
    BY <1>4 DEF RegisterDevice, Listed
  <2> DEFINE n == Len(devices) + 1
  <2>3. /\ DOMAIN devices' = DOMAIN devices \cup {n}
        /\ \A i \in DOMAIN devices : devices'[i] = devices[i]
        /\ devices'[n].key_id = k
    BY <2>1, <2>2, AppendedList DEF DevicesInv, DeviceTypes
  <2> HIDE DEF n
  <2>4. ActiveIds' \subseteq ActiveIds \cup {k}
    BY <2>3 DEF ActiveIds, ActiveAt
  <2> QED
    BY <2>2, <2>3, <2>4
<1>5. ASSUME NEW k \in KeyId, RevokeDevice(k) \/ UpdateLastUsed(k)
      PROVE  EditedInPlace
  BY <1>5, RevokeEdits, UseEdits DEF DevicesInv
<1>6. CleanupInactive => EditedInPlace
  BY CleanupEdits DEF DevicesInv
<1>7. UNCHANGED <<devices, now, history>> \/ Tick => EditedInPlace
  BY DEF Tick, EditedInPlace
<1> QED
  BY <1>2, <1>3, <1>4, <1>5, <1>6, <1>7, NextCases

\* A record that is out of use stays so, an id comes back into use only with a
\* new record, and an id revoked by name and not registered since is in use
\* only if it has an older record.
THEOREM RevocationLasts == Spec => RevokedStaysRevoked
<1>1. ASSUME DevicesInv, DevicesInv', [Next]_vars, devices' # <<>>
      PROVE  /\ \A i \in DOMAIN devices :
                   /\ i \in DOMAIN devices'
                   /\ devices'[i].key_id = devices[i].key_id
                   /\ devices'[i].is_active => devices[i].is_active
             /\ \A id \in ActiveIds' \ ActiveIds : devices' = Append(devices, NewDevice(id))
             /\ revoked' \cap ActiveIds' \subseteq again'
  <2>1. revoked' \cap ActiveIds' \subseteq again'
    BY <1>1 DEF DevicesInv, RevokedOutOfUse
  <2> QED
    BY <1>1, <2>1, WhoActivates
<1>2. DevicesInv /\ DevicesInv' /\ [Next]_vars =>
        [devices' # <<>> =>
             /\ \A i \in DOMAIN devices :
                   /\ i \in DOMAIN devices'
                   /\ devices'[i].key_id = devices[i].key_id
                   /\ devices'[i].is_active => devices[i].is_active
             /\ \A id \in ActiveIds' \ ActiveIds : devices' = Append(devices, NewDevice(id))
             /\ revoked' \cap ActiveIds' \subseteq again']_vars
  BY <1>1
<1> QED
  BY <1>2, Invariance, PTL DEF Spec, RevokedStaysRevoked

-----------------------------------------------------------------------------
(* Expiry *)

\* A step that puts an id out of use for which revoke_device was not called is
\* a cleanup.
LEMMA WhoDeactivates ==
    ASSUME DevicesInv, [Next]_vars, devices' # <<>>,
           NEW id \in KeyId, id \in ActiveIds, id \notin ActiveIds', id \notin revoked'
    PROVE  CleanupInactive
<1>1. PICK i \in DOMAIN devices : devices[i].is_active /\ devices[i].key_id = id
  BY DEF ActiveIds, ActiveAt
<1>2. ASSUME i \in DOMAIN devices', devices'[i].key_id = id, devices'[i].is_active
      PROVE  FALSE
  BY <1>2 DEF ActiveIds, ActiveAt
<1>3. ASSUME NEW p, New(p)
      PROVE  FALSE
  BY <1>3 DEF New
<1>4. ASSUME NEW k \in KeyId, RegisterDevice(k)
      PROVE  FALSE
  <2>1. NewDevice(k) \in DeviceRecords
    BY DEF NewDevice, DeviceRecords, DevicesInv, DeviceTypes
  <2>2. devices' = Append(devices, NewDevice(k))
    BY <1>4 DEF RegisterDevice, Listed
  <2>3. i \in DOMAIN devices' /\ devices'[i] = devices[i]
    BY <1>1, <2>1, <2>2, AppendedList DEF DevicesInv, DeviceTypes
  <2> QED
    BY <1>1, <1>2, <2>3
<1>5. ASSUME NEW k \in KeyId, RevokeDevice(k)
      PROVE  FALSE
  <2>1. k # id
    BY <1>5 DEF RevokeDevice
  <2>2. /\ EditedInPlace
        /\ devices'[i].is_active = devices[i].is_active
    BY <1>1, <1>5, <2>1, RevokeEdits DEF DevicesInv
  <2> QED
    BY <1>1, <1>2, <2>2 DEF EditedInPlace
<1>6. ASSUME NEW k \in KeyId, UpdateLastUsed(k)
      PROVE  FALSE
  <2>1. /\ EditedInPlace
        /\ devices'[i].is_active = devices[i].is_active
    BY <1>1, <1>6, UseEdits DEF DevicesInv
  <2> QED
    BY <1>1, <1>2, <2>1 DEF EditedInPlace
<1>7. ASSUME UNCHANGED <<devices, now, history>> \/ Tick
      PROVE  FALSE
  BY <1>1, <1>2, <1>7 DEF Tick
<1> QED
  BY <1>3, <1>4, <1>5, <1>6, <1>7, NextCases

\* A device that was not revoked by name is put out of use only when it was
\* idle for longer than the policy in force allows.
THEOREM ExpiryIsEarned == Spec => OnlyIdleDevicesExpire
<1>1. ASSUME DevicesInv, [Next]_vars, devices' # <<>>,
             NEW id \in ActiveIds \ (ActiveIds' \cup revoked' \cup again)
      PROVE  /\ Policy.auto_revoke_after # 0
             /\ now - used[id] > Policy.auto_revoke_after
  <2>1. PICK i \in DOMAIN devices : devices[i].is_active /\ devices[i].key_id = id
    BY <1>1 DEF ActiveIds, ActiveAt
  <2>2. id \in KeyId
    BY <1>1, <2>1, RecordedIds DEF DevicesInv
  <2>3. CleanupInactive
    BY <1>1, <2>2, WhoDeactivates
  <2>4. /\ EditedInPlace
        /\ ~devices'[i].is_active => Idle(devices[i])
    BY <1>1, <2>1, <2>3, CleanupEdits DEF DevicesInv
  <2>5. ~devices'[i].is_active
    BY <1>1, <2>1, <2>4 DEF EditedInPlace, ActiveIds, ActiveAt
  <2>6. devices[i].last_used = used[id]
    BY <1>1, <2>1 DEF DevicesInv, UseIsRecorded
  <2> QED
    BY <2>3, <2>4, <2>5, <2>6 DEF Idle, CleanupInactive
<1>2. DevicesInv /\ [Next]_vars =>
        [devices' # <<>> =>
            \A id \in ActiveIds \ (ActiveIds' \cup revoked' \cup again) :
                /\ Policy.auto_revoke_after # 0
                /\ now - used[id] > Policy.auto_revoke_after]_vars
  BY <1>1
<1> QED
  BY <1>2, Invariance, PTL DEF Spec, OnlyIdleDevicesExpire

-----------------------------------------------------------------------------
(* Induction along a list *)

\* Every set of numbers that is not empty has a least member.
LEMMA LeastNumber ==
    ASSUME NEW S, S \subseteq Nat, S # {}
    PROVE  \E n \in S : \A m \in S : n =< m
<1> DEFINE less == OpToRel(<, Nat)
<1>1. PICK n \in S : \A m \in S : <<m, n>> \notin less
  BY NatLessThanWellFounded, WFMin, Zenon
<1>2. ASSUME NEW m \in S
      PROVE  n =< m
  <2>1. m \in Nat /\ n \in Nat
    BY <1>2
  <2>2. m < n => <<m, n>> \in less
    BY <2>1 DEF OpToRel
  <2>3. ~(m < n)
    BY <1>1, <1>2, <2>2, Zenon
  <2> QED
    BY <2>1, <2>3
<1> QED
  BY <1>2

\* A set that contains 0 and with a number its successor contains all numbers.
LEMMA NumberInduction ==
    ASSUME NEW S, 0 \in S, \A n \in Nat : n \in S => n + 1 \in S
    PROVE  \A n \in Nat : n \in S
<1> DEFINE T == Nat \ S
<1> SUFFICES ASSUME T # {} PROVE FALSE
  OBVIOUS
<1>1. PICK n \in T : \A m \in T : n =< m
  BY LeastNumber
<1>2. n \in Nat /\ n # 0 /\ n - 1 \in Nat /\ n - 1 \notin T
  BY <1>1
<1> QED
  BY <1>1, <1>2

-----------------------------------------------------------------------------
(* Passkeys *)

PasskeyRecords == [label : Label, public_key : PublicKey]

\* Every stored key is the latest of its label, and no latest key is missing.
PasskeyInv ==
    /\ passkeys \in Seq(PasskeyRecords)
    /\ latest \in [Label -> PublicKey \cup {None}]
    /\ \A i \in DOMAIN passkeys : latest[passkeys[i].label] = passkeys[i].public_key
    /\ \A l \in Label :
          latest[l] # None => \E i \in DOMAIN passkeys : passkeys[i].label = l

\* What the loop of store and remove has taken over after i keys.
TakenOver(g, n, l) ==
    g = [i \in 0..n |-> IF i = 0 THEN <<>>
                        ELSE IF passkeys[i].label = l THEN g[i - 1]
                        ELSE Append(g[i - 1], passkeys[i])]

\* The loop is well defined.
LEMMA TakenOverExists ==
    ASSUME NEW l
    PROVE  \A n \in Nat : \E g : TakenOver(g, n, l)
<1> DEFINE S == {n \in Nat : \E g : TakenOver(g, n, l)}
<1>1. 0 \in S
  <2> DEFINE g == [i \in 0..0 |-> <<>>]
  <2>1. TakenOver(g, 0, l)
    BY DEF TakenOver
  <2> QED
    BY <2>1
<1>2. ASSUME NEW n \in Nat, n \in S
      PROVE  n + 1 \in S
  <2>1. PICK g : TakenOver(g, n, l)
    BY <1>2
  <2> DEFINE step(i, x) == IF i = 0 THEN <<>>
                           ELSE IF passkeys[i].label = l THEN x
                           ELSE Append(x, passkeys[i])
             h == [i \in 0..(n + 1) |-> IF i = n + 1 THEN step(n + 1, g[n]) ELSE g[i]]
  <2>2. \A i \in 0..n : g[i] = step(i, g[i - 1])
    BY <2>1 DEF TakenOver
  <2> HIDE DEF step
  <2>3. \A i \in 0..(n + 1) : h[i] = step(i, h[i - 1])
    <3> SUFFICES ASSUME NEW i \in 0..(n + 1)
                 PROVE  h[i] = step(i, h[i - 1])
      OBVIOUS
    <3>1. CASE i = n + 1
      <4>1. h[i] = step(n + 1, g[n]) /\ h[n] = g[n] /\ n = i - 1
        BY <3>1
      <4> HIDE DEF h
      <4> QED
        BY <3>1, <4>1
    <3>2. CASE i # n + 1 /\ i # 0
      <4>1. i \in 0..n /\ h[i] = g[i] /\ h[i - 1] = g[i - 1]
        BY <3>2
      <4> HIDE DEF h
      <4> QED
        BY <2>2, <4>1
    <3>3. CASE i = 0
      <4>1. h[i] = g[i] /\ g[i] = step(i, g[i - 1])
        BY <2>2, <3>3
      <4> HIDE DEF h
      <4> QED
        BY <3>3, <4>1 DEF step
    <3> QED
      BY <3>1, <3>2, <3>3
  <2>4. h = [i \in 0..(n + 1) |-> h[i]]
    OBVIOUS
  <2> HIDE DEF h
  <2>5. TakenOver(h, n + 1, l)
    BY <2>3, <2>4 DEF TakenOver, step
  <2> QED
    BY <2>5
<1> HIDE DEF S
<1>3. \A n \in Nat : n \in S
  BY <1>1, <1>2, NumberInduction
<1> QED
  BY <1>3 DEF S

\* The list without a label has exactly the keys of other labels.
LEMMA WithoutKeeps ==
    ASSUME passkeys \in Seq(PasskeyRecords), NEW l
    PROVE  /\ Without(l) \in Seq(PasskeyRecords)
           /\ \A i \in DOMAIN Without(l) :
                 \E j \in DOMAIN passkeys :
                    Without(l)[i] = passkeys[j] /\ passkeys[j].label # l
           /\ \A j \in DOMAIN passkeys : passkeys[j].label # l =>
                 \E i \in DOMAIN Without(l) : Without(l)[i] = passkeys[j]
<1> DEFINE m == Len(passkeys)
           new_keys[n \in 0..Len(passkeys)] ==
               IF n = 0 THEN <<>>
               ELSE IF passkeys[n].label = l THEN new_keys[n - 1]
               ELSE Append(new_keys[n - 1], passkeys[n])
           Sound(s, n) == \A i \in DOMAIN s : \E j \in 1..n :
                             s[i] = passkeys[j] /\ passkeys[j].label # l
           Whole(s, n) == \A j \in 1..n : passkeys[j].label # l =>
                             \E i \in DOMAIN s : s[i] = passkeys[j]
           S == {n \in Nat : n \in 0..m => /\ new_keys[n] \in Seq(PasskeyRecords)
                                           /\ Sound(new_keys[n], n)
                                           /\ Whole(new_keys[n], n)}
<1>1. m \in Nat /\ DOMAIN passkeys = 1..m
  OBVIOUS
<1>2. new_keys = [n \in 0..Len(passkeys) |->
                    IF n = 0 THEN <<>>
                    ELSE IF passkeys[n].label = l THEN new_keys[n - 1]
                    ELSE Append(new_keys[n - 1], passkeys[n])]
  <2>1. \E g : TakenOver(g, Len(passkeys), l)
    BY <1>1, TakenOverExists
  <2> QED
    BY <2>1 DEF TakenOver
<1>3. Without(l) = new_keys[m]
  BY DEF Without
<1>4. /\ new_keys[0] = <<>>
      /\ \A n \in 1..m : new_keys[n] = IF passkeys[n].label = l THEN new_keys[n - 1]
                                       ELSE Append(new_keys[n - 1], passkeys[n])
  <2> HIDE DEF new_keys
  <2>1. 0 \in 0..m /\ \A n \in 1..m : n \in 0..m /\ n # 0
    BY <1>1
  <2> QED
    BY <1>2, <2>1
<1> HIDE DEF new_keys, m
<1>5. 0 \in S
  <2>1. <<>> \in Seq(PasskeyRecords) /\ DOMAIN <<>> = {} /\ 1..0 = {}
    OBVIOUS
  <2> QED
    BY <1>4, <2>1
<1>6. ASSUME NEW n \in Nat, n \in S
      PROVE  n + 1 \in S
  <2> SUFFICES ASSUME n + 1 \in 0..m
               PROVE  /\ new_keys[n + 1] \in Seq(PasskeyRecords)
                      /\ Sound(new_keys[n + 1], n + 1)
                      /\ Whole(new_keys[n + 1], n + 1)
    OBVIOUS
  <2> DEFINE s == new_keys[n]
             k == passkeys[n + 1]
  <2>1. /\ s \in Seq(PasskeyRecords) /\ Sound(s, n) /\ Whole(s, n)
        /\ k \in PasskeyRecords
        /\ new_keys[n + 1] = IF k.label = l THEN s ELSE Append(s, k)
    BY <1>1, <1>4, <1>6
  <2>2. \A j \in 1..(n + 1) : j \in 1..n \/ j = n + 1
    BY <1>6
  <2>3. \A j \in 1..n : j \in 1..(n + 1)
    BY <1>6
  <2>4. n + 1 \in 1..(n + 1)
    BY <1>6
  <2>5. CASE k.label = l
    <3>1. new_keys[n + 1] = s
      BY <2>1, <2>5
    <3> QED
      BY <2>1, <2>2, <2>3, <2>5, <3>1
  <2>6. CASE k.label # l
    <3> DEFINE a == Append(s, k)
    <3>1. new_keys[n + 1] = a
      BY <2>1, <2>6
    <3>2. /\ a \in Seq(PasskeyRecords)
          /\ DOMAIN a = DOMAIN s \cup {Len(s) + 1}
          /\ \A i \in DOMAIN s : a[i] = s[i]
          /\ a[Len(s) + 1] = k
      <4> HIDE DEF s, k
      <4>1. /\ Len(s) \in Nat /\ DOMAIN s = 1..Len(s)
            /\ a \in Seq(PasskeyRecords) /\ DOMAIN a = 1..(Len(s) + 1)
            /\ \A i \in 1..Len(s) : a[i] = s[i]
            /\ a[Len(s) + 1] = k
        BY <2>1
      <4> HIDE DEF a
      <4> QED
        BY <4>1
    <3> HIDE DEF a
    <3>3. Sound(a, n + 1)
      BY <2>1, <2>3, <2>4, <2>6, <3>2
    <3>4. Whole(a, n + 1)
      BY <2>1, <2>2, <3>2
    <3> QED
      BY <3>1, <3>2, <3>3, <3>4
  <2> QED
    BY <2>5, <2>6
<1> HIDE DEF S
<1>7. m \in S
  BY <1>1, <1>5, <1>6, NumberInduction
<1> QED
  BY <1>1, <1>3, <1>7 DEF S

\* The labels of stored keys are labels.
LEMMA StoredLabels ==
    ASSUME PasskeyInv
    PROVE  \A i \in DOMAIN passkeys : passkeys[i].label \in Label
<1>1. \A i \in DOMAIN passkeys : passkeys[i] \in PasskeyRecords
  BY DEF PasskeyInv
<1>2. \A k \in PasskeyRecords : k.label \in Label
  BY DEF PasskeyRecords
<1> QED
  BY <1>1, <1>2

\* No key is stored at first, and no label has a latest one.
LEMMA InitPasskeys == Init => PasskeyInv
<1> SUFFICES ASSUME Init PROVE PasskeyInv
  OBVIOUS
<1>1. passkeys = <<>> /\ latest = [l \in Label |-> None]
  BY DEF Init
<1>2. <<>> \in Seq(PasskeyRecords) /\ DOMAIN <<>> = {}
  OBVIOUS
<1> QED
  BY <1>1, <1>2 DEF PasskeyInv

\* store replaces the key of its label, and keeps the others.
LEMMA StoreStep ==
    ASSUME PasskeyInv, NEW l \in Label, NEW pk \in PublicKey, StorePasskey(l, pk)
    PROVE  PasskeyInv'
<1> DEFINE s == Without(l)
           k == Passkey(l, pk)
           a == Append(s, k)
<1>1. passkeys' = a /\ latest' = [latest EXCEPT ![l] = pk]
  BY DEF StorePasskey
<1>2. /\ s \in Seq(PasskeyRecords)
      /\ \A i \in DOMAIN s : \E j \in DOMAIN passkeys :
            s[i] = passkeys[j] /\ passkeys[j].label # l
      /\ \A j \in DOMAIN passkeys : passkeys[j].label # l =>
            \E i \in DOMAIN s : s[i] = passkeys[j]
  BY WithoutKeeps DEF PasskeyInv
<1>3. k \in PasskeyRecords /\ k.label = l /\ k.public_key = pk
  BY DEF Passkey, PasskeyRecords
<1> HIDE DEF s, k
<1>4. /\ a \in Seq(PasskeyRecords) /\ DOMAIN a = DOMAIN s \cup {Len(s) + 1}
      /\ \A i \in DOMAIN s : a[i] = s[i]
      /\ a[Len(s) + 1] = k
  <2>1. /\ Len(s) \in Nat /\ DOMAIN s = 1..Len(s)
        /\ a \in Seq(PasskeyRecords) /\ DOMAIN a = 1..(Len(s) + 1)
        /\ \A i \in 1..Len(s) : a[i] = s[i]
        /\ a[Len(s) + 1] = k
    BY <1>2, <1>3
  <2> HIDE DEF a
  <2> QED
    BY <2>1
<1> HIDE DEF a
<1>5. /\ latest \in [Label -> PublicKey \cup {None}]
      /\ \A i \in DOMAIN passkeys : latest[passkeys[i].label] = passkeys[i].public_key
      /\ \A x \in Label : latest[x] # None => \E i \in DOMAIN passkeys : passkeys[i].label = x
      /\ \A i \in DOMAIN passkeys : passkeys[i].label \in Label
  BY StoredLabels DEF PasskeyInv
<1>6. latest' \in [Label -> PublicKey \cup {None}]
  BY <1>1, <1>5
<1>7. \A i \in DOMAIN a : latest'[a[i].label] = a[i].public_key
  BY <1>1, <1>2, <1>3, <1>4, <1>5
<1>8. \A x \in Label : latest'[x] # None => \E i \in DOMAIN a : a[i].label = x
  <2> SUFFICES ASSUME NEW x \in Label, latest'[x] # None
               PROVE  \E i \in DOMAIN a : a[i].label = x
    OBVIOUS
  <2>1. CASE x = l
    BY <1>3, <1>4, <2>1
  <2>2. CASE x # l
    <3>1. PICK j \in DOMAIN passkeys : passkeys[j].label = x
      BY <1>1, <1>5, <2>2
    <3> QED
      BY <1>2, <1>4, <2>2, <3>1
  <2> QED
    BY <2>1, <2>2
<1> QED
  BY <1>1, <1>4, <1>6, <1>7, <1>8 DEF PasskeyInv

\* remove takes out the key of its label, and keeps the others.
LEMMA RemoveStep ==
    ASSUME PasskeyInv, NEW l \in Label, RemovePasskey(l)
    PROVE  PasskeyInv'
<1> DEFINE s == Without(l)
<1>1. passkeys' = s /\ latest' = [latest EXCEPT ![l] = None]
  BY DEF RemovePasskey
<1>2. /\ s \in Seq(PasskeyRecords)
      /\ \A i \in DOMAIN s : \E j \in DOMAIN passkeys :
            s[i] = passkeys[j] /\ passkeys[j].label # l
      /\ \A j \in DOMAIN passkeys : passkeys[j].label # l =>
            \E i \in DOMAIN s : s[i] = passkeys[j]
  BY WithoutKeeps DEF PasskeyInv
<1> HIDE DEF s
<1>3. /\ latest \in [Label -> PublicKey \cup {None}]
      /\ \A i \in DOMAIN passkeys : latest[passkeys[i].label] = passkeys[i].public_key
      /\ \A x \in Label : latest[x] # None => \E i \in DOMAIN passkeys : passkeys[i].label = x
      /\ \A i \in DOMAIN passkeys : passkeys[i].label \in Label
  BY StoredLabels DEF PasskeyInv
<1>4. latest' \in [Label -> PublicKey \cup {None}]
  BY <1>1, <1>3
<1>5. \A i \in DOMAIN s : latest'[s[i].label] = s[i].public_key
  BY <1>1, <1>2, <1>3
<1>6. \A x \in Label : latest'[x] # None => \E i \in DOMAIN s : s[i].label = x
  <2> SUFFICES ASSUME NEW x \in Label, latest'[x] # None
               PROVE  \E i \in DOMAIN s : s[i].label = x
    OBVIOUS
  <2>1. x # l /\ latest[x] # None
    BY <1>1, <1>3
  <2>2. PICK j \in DOMAIN passkeys : passkeys[j].label = x
    BY <1>3, <2>1
  <2> QED
    BY <1>2, <2>1, <2>2
<1> QED
  BY <1>1, <1>2, <1>4, <1>5, <1>6 DEF PasskeyInv

\* Every step keeps what is known of the key store.
LEMMA StepPasskeys ==
    ASSUME PasskeyInv, [Next]_vars
    PROVE  PasskeyInv'
<1>1. CASE \E l \in Label, pk \in PublicKey : StorePasskey(l, pk)
  BY <1>1, StoreStep
<1>2. CASE \E l \in Label : RemovePasskey(l)
  BY <1>2, RemoveStep
<1>3. CASE UNCHANGED <<passkeys, latest>>
  BY <1>3 DEF PasskeyInv
<1>4. \/ \E l \in Label, pk \in PublicKey : StorePasskey(l, pk)
      \/ \E l \in Label : RemovePasskey(l)
      \/ UNCHANGED <<passkeys, latest>>
  BY DEF Next, vars, New, RegisterDevice, Listed, RevokeDevice, UpdateLastUsed,
         SetPolicy, CleanupInactive, Tick
<1> QED
  BY <1>1, <1>2, <1>3, <1>4

\* find_by_label answers with the key last stored under the label, and with
\* none when that one was removed.
THEOREM LatestIsFound == Spec => []LatestPasskeyIsFound
<1>1. ASSUME PasskeyInv, NEW l \in Label
      PROVE  FindByLabel(l) = latest[l]
  <2> DEFINE found == {i \in DOMAIN passkeys : passkeys[i].label = l}
             first == CHOOSE i \in found : \A j \in found : i =< j
  <2>1. /\ latest[l] \in PublicKey \cup {None}
        /\ \A i \in found : latest[l] = passkeys[i].public_key
        /\ found = {} => latest[l] = None
    BY <1>1 DEF PasskeyInv
  <2>2. found \subseteq Nat
    BY <1>1 DEF PasskeyInv
  <2>3. FindByLabel(l) = IF found = {} THEN None ELSE passkeys[first].public_key
    BY DEF FindByLabel
  <2>4. found # {} => first \in found
    <3> HIDE DEF found
    <3>1. found # {} => \E i \in found : \A j \in found : i =< j
      BY <2>2, LeastNumber
    <3> QED
      BY <3>1
  <2> HIDE DEF found, first
  <2> QED
    BY <2>1, <2>3, <2>4
<1>2. PasskeyInv => LatestPasskeyIsFound
  BY <1>1 DEF LatestPasskeyIsFound
<1>3. PasskeyInv /\ [Next]_vars => PasskeyInv'
  BY StepPasskeys
<1> QED
  BY <1>2, <1>3, InitPasskeys, PTL DEF Spec
=============================================================================
