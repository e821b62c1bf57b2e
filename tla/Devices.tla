------------------------------ MODULE Devices -------------------------------
(***************************************************************************)
(* The keys of one account's owner: the devices of DeviceManager           *)
(* (src/src/accounts/multi_device.rs, stored by device_storage.rs) and the *)
(* passkeys of Secp256r1Storage (src/src/accounts/secp256r1_auth.rs).      *)
(*                                                                         *)
(* A DeviceManager holds the account's address and nothing else, so its    *)
(* state is what is stored for the address; other accounts are stored      *)
(* apart.  A record of a revoked device stays in the list, and the same    *)
(* key id may then be registered again.  Names, registration times and the *)
(* error values of refused calls, which change nothing, are left out.      *)
(***************************************************************************)
EXTENDS Integers, Sequences, FiniteSets

CONSTANTS
    KeyId,       \* ids of device keys
    Policies,    \* the DevicePolicy values contracts set
    Label,       \* labels of passkeys
    PublicKey,   \* public keys of passkeys
    MaxRecords,  \* bound of the list of device records
    MaxTime,     \* bound of the ledger clock
    None         \* an absent policy or passkey

DevicePolicies == [max_devices : Nat, auto_revoke_after : Nat]

DefaultPolicy == [max_devices |-> 5, auto_revoke_after |-> 0]

ASSUME DevicesAssumption ==
    /\ MaxRecords \in Nat
    /\ MaxTime \in Nat
    /\ Policies \subseteq DevicePolicies
    /\ None \notin PublicKey

VARIABLES
    devices,   \* the stored list of device records
    policy,    \* the stored policy, or None
    passkeys,  \* the stored list of secp256r1 keys
    now,       \* env.ledger().timestamp()
    again,     \* history: ids registered more than once in this list
    used,      \* history: when each id was last registered or used
    revoked,   \* history: ids revoked by name and not registered since
    latest     \* history: the passkey last stored under each label, or None

history == <<again, used, revoked>>
vars == <<devices, policy, passkeys, now, again, used, revoked, latest>>

Init ==
    /\ devices = <<>>
    /\ policy = None
    /\ passkeys = <<>>
    /\ now = 0
    /\ again = {}
    /\ used = [id \in KeyId |-> 0]
    /\ revoked = {}
    /\ latest = [l \in Label |-> None]

-----------------------------------------------------------------------------
(* Devices *)

\* For the histories: there is a record of the id, active or not.
Recorded(id) == \E i \in DOMAIN devices : devices[i].key_id = id

ActiveAt == {i \in DOMAIN devices : devices[i].is_active}

ActiveIds == {devices[i].key_id : i \in ActiveAt}

\* policy() and cleanup_inactive() fall back on the default.
Policy == IF policy = None THEN DefaultPolicy ELSE policy

\* DeviceStorage::update_device changes the first record of the id.
IsFirstOf(id, i) ==
    /\ i \in DOMAIN devices
    /\ devices[i].key_id = id
    /\ \A j \in DOMAIN devices : devices[j].key_id = id => i =< j

\* DeviceManager::new; with_defaults calls it with the default policy.
New(p) ==
    /\ policy' = p
    /\ devices' = <<>>
    /\ again' = {}
    /\ revoked' = {}
    /\ UNCHANGED <<passkeys, now, used, latest>>

NewDevice(id) == [key_id |-> id, last_used |-> now, is_active |-> TRUE]

\* The guard is the bound of the model: the list of the code has none, and
\* revoked records are never taken out of it.
Listed(id) ==
    /\ Len(devices) < MaxRecords
    /\ devices' = Append(devices, NewDevice(id))
    /\ again' = IF Recorded(id) THEN again \cup {id} ELSE again
    /\ used' = [used EXCEPT ![id] = now]
    /\ revoked' = revoked \ {id}
    /\ UNCHANGED <<policy, passkeys, now, latest>>

\* Faulty variant of the next definition: no record is looked at.
RegisterDeviceTwice(id) ==
    /\ policy # None
    /\ Cardinality(ActiveAt) < policy.max_devices
    /\ Listed(id)

RegisterDevice(id) ==
    /\ policy # None
    /\ id \notin ActiveIds
    /\ Cardinality(ActiveAt) < policy.max_devices
    /\ Listed(id)

RevokeDevice(id) ==
    \E i \in DOMAIN devices :
        /\ IsFirstOf(id, i)
        /\ devices' = [devices EXCEPT ![i].is_active = FALSE]
        /\ revoked' = revoked \cup {id}
        /\ UNCHANGED <<policy, passkeys, now, again, used, latest>>

\* Faulty variant of the next definition: a device that is used is active.
UpdateLastUsedRevives(id) ==
    \E i \in DOMAIN devices :
        /\ IsFirstOf(id, i)
        /\ devices' = [devices EXCEPT ![i].last_used = now, ![i].is_active = TRUE]
        /\ used' = [used EXCEPT ![id] = now]
        /\ UNCHANGED <<policy, passkeys, now, again, revoked, latest>>

UpdateLastUsed(id) ==
    \E i \in DOMAIN devices :
        /\ IsFirstOf(id, i)
        /\ devices' = [devices EXCEPT ![i].last_used = now]
        /\ used' = [used EXCEPT ![id] = now]
        /\ UNCHANGED <<policy, passkeys, now, again, revoked, latest>>

SetPolicy(p) ==
    /\ policy' = p
    /\ UNCHANGED <<devices, passkeys, now, history, latest>>

\* Faulty variant of the next definition: a device may be idle for less.
IdleFromThreshold(d) ==
    d.is_active /\ now - d.last_used >= Policy.auto_revoke_after

\* Time does not run back, so the saturating subtraction does not saturate.
Idle(d) == d.is_active /\ now - d.last_used > Policy.auto_revoke_after

\* Called when nothing is idle, or with auto-revoke disabled, it does nothing.
CleanupInactive ==
    /\ Policy.auto_revoke_after # 0
    /\ \E i \in DOMAIN devices : Idle(devices[i])
    /\ devices' = [i \in DOMAIN devices |->
                     [devices[i] EXCEPT !.is_active = @ /\ ~Idle(devices[i])]]
    /\ UNCHANGED <<policy, passkeys, now, history, latest>>

-----------------------------------------------------------------------------
(* Passkeys *)

\* The keys that do not have the label, taken over one by one.
Without(label) ==
    LET new_keys[n \in 0..Len(passkeys)] ==
            IF n = 0 THEN <<>>
            ELSE IF passkeys[n].label = label THEN new_keys[n - 1]
            ELSE Append(new_keys[n - 1], passkeys[n])
    IN  new_keys[Len(passkeys)]

Passkey(label, pk) == [label |-> label, public_key |-> pk]

\* Faulty variant of the next definition: the key of that label stays.
StorePasskeyBeside(label, pk) ==
    /\ Len(passkeys) =< Cardinality(Label)
    /\ passkeys' = Append(passkeys, Passkey(label, pk))
    /\ latest' = [latest EXCEPT ![label] = pk]
    /\ UNCHANGED <<devices, policy, now, history>>

StorePasskey(label, pk) ==
    /\ passkeys' = Append(Without(label), Passkey(label, pk))
    /\ latest' = [latest EXCEPT ![label] = pk]
    /\ UNCHANGED <<devices, policy, now, history>>

RemovePasskey(label) ==
    /\ \E i \in DOMAIN passkeys : passkeys[i].label = label
    /\ passkeys' = Without(label)
    /\ latest' = [latest EXCEPT ![label] = None]
    /\ UNCHANGED <<devices, policy, now, history>>

\* The first key of the list with that label.
FindByLabel(label) ==
    LET found == {i \in DOMAIN passkeys : passkeys[i].label = label}
    IN  IF found = {} THEN None
        ELSE passkeys[CHOOSE i \in found : \A j \in found : i =< j].public_key

-----------------------------------------------------------------------------

Tick ==
    /\ now < MaxTime
    /\ now' = now + 1
    /\ UNCHANGED <<devices, policy, passkeys, history, latest>>

Next ==
    \/ \E p \in Policies \cup {DefaultPolicy} : New(p)
    \/ \E id \in KeyId : RegisterDevice(id)
    \/ \E id \in KeyId : RevokeDevice(id)
    \/ \E id \in KeyId : UpdateLastUsed(id)
    \/ \E p \in Policies : SetPolicy(p)
    \/ CleanupInactive
    \/ \E l \in Label, pk \in PublicKey : StorePasskey(l, pk)
    \/ \E l \in Label : RemovePasskey(l)
    \/ Tick

Spec == Init /\ [][Next]_vars

-----------------------------------------------------------------------------
(* Properties *)

\* However often an id is revoked and registered again (multi_device.rs:114),
\* at most one of its records is active: the number of active records, which
\* is compared with the limit, is the number of devices that can sign.
OneActiveRecordPerKey ==
    \A i, j \in ActiveAt : devices[i].key_id = devices[j].key_id => i = j

\* A record of the list keeps its place and its id, and once it is out of use
\* it stays so, through uses, cleanups, policy changes and new registrations of
\* its id: what puts an id back in use is register_device, with a record of its
\* own, and nothing else.  Until then an id revoked by name can only be in use
\* if it has an older record in the list, which revoke_device
\* (device_storage.rs:68) found in place of the active one.
RevokedStaysRevoked ==
    [][devices' # <<>> =>
          /\ \A i \in DOMAIN devices :
                /\ i \in DOMAIN devices'
                /\ devices'[i].key_id = devices[i].key_id
                /\ devices'[i].is_active => devices[i].is_active
          /\ \A id \in ActiveIds' \ ActiveIds : devices' = Append(devices, NewDevice(id))
          /\ revoked' \cap ActiveIds' \subseteq again']_vars

\* A device that was not revoked by name is only put out of use when it was
\* idle for longer than the policy in force allows, whatever the policy was
\* when it was last used, and never when the policy disables it.  Ids
\* registered twice are excepted for the same reason: their use is recorded
\* on the old record.
OnlyIdleDevicesExpire ==
    [][devices' # <<>> =>
          \A id \in ActiveIds \ (ActiveIds' \cup revoked' \cup again) :
              /\ Policy.auto_revoke_after # 0
              /\ now - used[id] > Policy.auto_revoke_after]_vars

\* find_by_label, which takes the first match of a list that is rebuilt by
\* every store and remove, answers with the key last stored under the label.
LatestPasskeyIsFound == \A l \in Label : FindByLabel(l) = latest[l]
=============================================================================
