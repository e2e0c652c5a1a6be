\* A typist, a lossy reordering network and the receiver.
SPECIFICATION KbmLinkSpec
CONSTANTS
  SeqModulus = 10
  RingDepth <- MCRingDepth
  Codes <- MCCodes
  KbmWatchdog = 6
  Modifiers = {3}
  Second = 6
  MaxRate = 6
  SessionRate = 6
  KbmRepeat = 2
  TrailGap = 1
  TrailCopies = 2
  Queues <- MCQueues
  MouseRates = {0, 3}
  MaxEdges = 3
  MaxMotion = 1
  MaxFaults = 2
INVARIANTS
  EdgesAsMeant
  LossesAreCovered
PROPERTIES
  NoReleaseUnderFinger
CHECK_DEADLOCK FALSE
