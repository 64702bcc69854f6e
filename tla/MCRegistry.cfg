SPECIFICATION Spec
CONSTANTS
  Users = {u1, u2}
  Devices = {d1, d2}
  Contacts = {k1, k2}
  Calls = {c1, c2}
  NoUser = NoUser
  NoDevice = NoDevice
  NoContact = NoContact
  Absent = Absent
  TTLs <- MCTTLs
  MaxNow = 1
INVARIANT RegistrySound
PROPERTY WaitEnds
