SPECIFICATION ScSpec
CONSTANTS
  Job = {j1, j2, j3}
  Name = {"m1", "m2"}
  Hosts <- MCHosts
  none = none
INVARIANT ScTypeOK
PROPERTIES StaysCapped EventuallyCapped StoreConverges SlotsFit GuardSettles
