\* One client and one slot on a faulty network.
SPECIFICATION LinkSpec
CONSTANTS
  SeqModulus = 4
  IdleTimeout = 3
  Keepalive = 0
  RetxDelays <- MCOneRetransmit
  KbmClasses <- Facilities
  Keys <- MCKeys
  NoKey = NoKey
  NoSeq = NoSeq
  PairingWindow = 2
  MaxPairAttempts = 2
  RingDepth <- MCRingDepth
  Codes <- MCCodes
  KbmWatchdog = 1
  BurstCopies = 0
  BurstGap = 0
  SlowRepeat = 1
  NSlots = 1
  Peers = {p1}
  NoPeer = NoPeer
  Nonces = {n1}
  NoNonce = NoNonce
  ForgedKeys = {ForgedKey}
  NoWelcome = NoWelcome
  MaxGeneration = 1
  KbmFeatures = {}
  TouchProfile = FALSE
  PingPeriod = 1
  RandomFails = FALSE
  DevicesFail = FALSE
  InboundTypes = {}
  HelloKinds = {"GOOD"}
  ErrorsPass = {TRUE}
  AckedSeqs = {0}
  InputSeqs = {0}
  KbmMsgs <- MCNoMsgs
  NoneAccepted = NoneAccepted
  Secrets = {0, 1}
  NoSecret = NoSecret
  Derived <- MCDerived
  CallTimeout = 2
  InputInterval = 1
  PingInterval = 1
  ThePeer = p1
  MaxFaults = 1
  MaxCalls = 1
CHECK_DEADLOCK TRUE
INVARIANTS
  HandshakeJudged
  DisagreementEnds
  CallsReturn
PROPERTIES
  ImplementsConnection
