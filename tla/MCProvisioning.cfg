CONSTANTS
  Devices = {d1, d2}
  Slots = {s1, s2}
  None = None
  MaxPending = 1
  MaxDrops = 1
  MaxRestarts = 1
SPECIFICATION Spec
SYMMETRY Symmetry
CONSTRAINT OneFault
INVARIANTS
  TypeOK
  EnrolmentIsDurable
  OneSlotPerDevice
  ResponseSequencesDistinct
  OneAttemptPerDevice
PROPERTY
  Enrolls
