-------------------------- MODULE CredentialStore --------------------------
(***************************************************************************)
(* What the device store promises: one durable map of device records that  *)
(* each write changes in one step, or not at all.  EnrolStore, with its    *)
(* in-memory map, its file, failing saves and crashes, implements it.      *)
(***************************************************************************)
EXTENDS DeviceRecords

VARIABLE db

Init == db = [d \in Devices |-> Absent]

(* One write, as a relation between the map before and after.              *)
Write(old, new) ==
  \E d \in Devices :
    \/ \E u \in Users : Created(old, new, d, u)
    \/ \E u \in Users, t \in Credentials, at \in Times : Issued(old, new, d, u, t, at)
    \/ \E c \in Credentials, at \in Times : MintedCode(old, new, d, c, at)
    \/ CancelledCode(old, new, d)
    \/ \E t \in Credentials, at \in Times : Claimed(old, new, d, t, at)
    \/ Revoked(old, new, d)
    \/ Purged(old, new, d)
    \/ \E s \in SsidLists : Configured(old, new, d, s)
    \/ \E x \in Details : Detailed(old, new, d, x)

Next == Write(db, db')

Spec == Init /\ [][Next]_db
=============================================================================
