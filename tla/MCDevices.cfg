\* Devices and proof: a mouse and a pairing window on one slot, two peers,
\* entropy and device creation that fail.
SPECIFICATION Spec
CONSTANTS
  SeqModulus = 4
  IdleTimeout = 1
  Keepalive = 0
  RetxDelays <- MCOneRetransmit
  KbmClasses <- Facilities
  Keys <- MCKeys
  NoKey = NoKey
  NoSeq = NoSeq
  PairingWindow = 1
  MaxPairAttempts = 1
  RingDepth <- MCRingDepth
  Codes <- MCCodes
  KbmWatchdog = 1
  BurstCopies = 1
  BurstGap = 0
  SlowRepeat = 1
  NSlots = 1
  Peers = {p1, p2}
  NoPeer = NoPeer
  Nonces = {n1}
  NoNonce = NoNonce
  ForgedKeys = {ForgedKey}
  NoWelcome = NoWelcome
  MaxGeneration = 1
  KbmFeatures = {"MOUSE"}
  TouchProfile = FALSE
  PingPeriod = 0
  RandomFails = TRUE
  DevicesFail = TRUE
  InboundTypes = {"HELLO", "ACK", "BYE", "MOUSE"}
  HelloKinds = {"GOOD", "VERSION"}
  ErrorsPass = {TRUE}
  AckedSeqs = {0}
  InputSeqs = {0, 3}
  KbmMsgs <- MCMouseMsgs
SYMMETRY PeerSymmetry
CHECK_DEADLOCK TRUE
INVARIANTS
  DevicesMatch
  ProofGate
  NothingInherited
PROPERTIES
  WindowsOnlyAdvance
