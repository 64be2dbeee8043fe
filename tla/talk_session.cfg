CONSTANTS
  a1 = a1
  a2 = a2
  Seats <- MCSeats
  PerAgent = 2
  PerDay = 3
  MaxSkip = 1
  LengthPerAgent = 1
  BaseLength = 1
  MentionLength = 1
  PerTalk = 2
  Countings <- MCCountings
  Speech <- MCSpeech
  Sends = 2
  Breaks = 1
  ChanCap = 2
  None = None
SPECIFICATION FairSpec
INVARIANTS TypeOK SaidWithinCount LengthHeld
PROPERTIES OverIsFinal UntrimmedIsLast PhaseEnds
CHECK_DEADLOCK FALSE
