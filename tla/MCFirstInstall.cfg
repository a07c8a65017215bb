CONSTANTS
  Slots = {s1, s2}
  None = None
  MaxStarts = 3
  MaxLines = 1
SPECIFICATION FairSpec
INVARIANTS
  TypeOK
  FlashedSlotsWereWritten
  OneAnswerPerStart
  ListeningIsFlashing
  NothingAfterOutcome
PROPERTY
  SessionEnds
