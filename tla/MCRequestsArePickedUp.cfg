CONSTANTS
  Devices = {d1, d2}
  Slots = {s1, s2}
  None = None
  MaxPending = 1
  MaxDrops = 0
  MaxRestarts = 0
SPECIFICATION Spec
PROPERTIES
  RequestsArePickedUp
