CONSTANTS
  Devices = {d1}
  Slots = {s1, s2}
  None = None
  MaxPending = 2
  MaxDrops = 0
  MaxRestarts = 2
SPECIFICATION HopefulSpec
PROPERTIES
  
  PendingBoardIsAdmitted
