CONSTANTS
  Agents = {a1, a2}
  NoAgent = NoAgent
  MaxNotices = 3
  HasTimeout = TRUE
SPECIFICATION DrainFairSpec
INVARIANTS OnlyTimerArmed HeldIsHandedBack
PROPERTIES AnnouncedDrainEnds
CHECK_DEADLOCK FALSE
