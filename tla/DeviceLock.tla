----------------------------- MODULE DeviceLock -----------------------------
(***************************************************************************)
(* The device lock of one account: device_lock:<user> in Redis beside the  *)
(* rows of identity_device (backend/apps/identity/services/devices.py,     *)
(* core/adapters/device_lock.py), used by logins, by every authenticated   *)
(* request and by device resets.                                           *)
(*                                                                         *)
(* What a transaction writes to PostgreSQL shows when it commits; what it  *)
(* does to Redis shows at once and is not rolled back.  Redis answers:     *)
(* the fallback for an outage of it is left out.                           *)
(***************************************************************************)
EXTENDS Integers, Sequences

CONSTANTS Workers, Fingerprints,
          MaxDevices     \* bound on the rows of identity_device

VARIABLES devices, \* the rows: fingerprint and status
          lock,    \* the device named in Redis, 0 when the key is absent
          work     \* what each worker is in the middle of, and on which device

vars == <<devices, lock, work>>

Init ==
  /\ devices = <<>>
  /\ lock = 0
  /\ work = [w \in Workers |-> [pc |-> "idle", dev |-> 0]]

At(w, pc) == work[w].pc = pc
Turn(w, pc, d) == work' = [work EXCEPT ![w] = [pc |-> pc, dev |-> d]]
ActiveDevice == {d \in DOMAIN devices : devices[d].status = "active"}
Acquired(d) == IF lock = 0 THEN d ELSE lock   \* SET NX

-----------------------------------------------------------------------------
\* bind: the account's device is the one that logs in.  A device with another
\* fingerprint is refused and changes nothing.
BindDevice(w, fp) ==
  /\ At(w, "idle")
  /\ \E d \in ActiveDevice :
       /\ devices[d].fp = fp
       /\ lock' = Acquired(d)
       /\ Turn(w, "login", d)
  /\ UNCHANGED devices

\* _create: one uncommitted or active row at a time, uq_device_active_per_user.
CreateDevice(w, fp) ==
  /\ At(w, "idle") /\ Len(devices) < MaxDevices
  /\ \A d \in DOMAIN devices : devices[d].status \notin {"active", "inserted"}
  /\ devices' = Append(devices, [fp |-> fp, status |-> "inserted"])
  /\ lock' = Acquired(Len(devices) + 1)
  /\ Turn(w, "login", Len(devices) + 1)

\* The login commits, or fails and takes its device back; Redis is not told.
EndLogin(w) ==
  LET d == work[w].dev IN
  /\ At(w, "login")
  /\ \/ devices[d].status = "inserted" /\ \E result \in {"active", "gone"} :
          devices' = [devices EXCEPT ![d].status = result]
     \/ devices[d].status # "inserted" /\ UNCHANGED devices
  /\ Turn(w, "idle", 0)
  /\ UNCHANGED lock

-----------------------------------------------------------------------------
\* assert_matches: the key is absent, so the device is read and then locked.
ReadDevice(w) ==
  /\ At(w, "idle") /\ lock = 0
  /\ \E d \in ActiveDevice : Turn(w, "filling", d)
  /\ UNCHANGED <<devices, lock>>

FillLock(w) ==
  /\ At(w, "filling")
  /\ lock' = Acquired(work[w].dev)
  /\ Turn(w, "idle", 0)
  /\ UNCHANGED devices

\* LOCK_TTL_SECONDS have passed.
ExpireLock ==
  /\ lock # 0
  /\ lock' = 0
  /\ UNCHANGED <<devices, work>>

-----------------------------------------------------------------------------
\* revoke: the row is updated and the key deleted, inside the transaction of
\* DeviceResetService._settle.  A second UPDATE of the row waits for the first.
RevokeDevice(w) ==
  /\ At(w, "idle")
  /\ \E d \in ActiveDevice :
       /\ \A r \in Workers : work[r] # [pc |-> "resetting", dev |-> d]
       /\ Turn(w, "resetting", d)
  /\ lock' = 0
  /\ UNCHANGED devices

\* _settle commits, or rolls back.
EndReset(w) ==
  /\ At(w, "resetting")
  /\ \/ devices' = [devices EXCEPT ![work[w].dev].status = "revoked"]
     \/ UNCHANGED devices
  /\ Turn(w, "idle", 0)
  /\ UNCHANGED lock

Next ==
  \/ \E w \in Workers :
       \/ \E fp \in Fingerprints : BindDevice(w, fp) \/ CreateDevice(w, fp)
       \/ EndLogin(w)
       \/ ReadDevice(w) \/ FillLock(w)
       \/ RevokeDevice(w) \/ EndReset(w)
  \/ ExpireLock

Spec == Init /\ [][Next]_vars

-----------------------------------------------------------------------------
\* DeviceBindingService.revoke, devices.py:201-203: "Persist revocation first
\* and clear the cache second so another bind cannot observe an empty cache
\* while the old device is still active in the database."
BindNeverSeesReleasedLock ==
  [][\A w, r \in Workers, fp \in Fingerprints :
       BindDevice(w, fp) /\ At(r, "resetting") => lock # 0]_vars
=============================================================================
