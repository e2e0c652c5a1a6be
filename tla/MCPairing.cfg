\* Pairing, authentication and the session table: two peers, two slots, one rotation.
SPECIFICATION Spec
CONSTANTS
  SeqModulus = 4
  IdleTimeout = 1
  Keepalive = 0
  RetxDelays <- MCOneRetransmit
  KbmClasses <- Facilities
  Keys <- MCKeys
  NoKey = NoKey
  NoSeq = NoSeq
  PairingWindow = 2
  MaxPairAttempts = 2
  RingDepth <- MCRingDepth
  Codes <- MCCodes
  KbmWatchdog = 1
  BurstCopies = 0
  BurstGap = 0
  SlowRepeat = 1
  NSlots = 2
  Peers = {p1, p2}
  NoPeer = NoPeer
  Nonces = {n1, n2}
  NoNonce = NoNonce
  ForgedKeys = {ForgedKey}
  NoWelcome = NoWelcome
  MaxGeneration = 2
  KbmFeatures = {}
  TouchProfile = FALSE
  PingPeriod = 0
  RandomFails = FALSE
  DevicesFail = FALSE
  InboundTypes = {"HELLO", "ACK"}
  HelloKinds = {"GOOD", "RATE"}
  ErrorsPass = {FALSE}
  AckedSeqs = {0}
  InputSeqs = {0}
  KbmMsgs <- MCNoMsgs
SYMMETRY PeerSymmetry
CHECK_DEADLOCK TRUE
INVARIANTS
  TypeOK
  KeysFollowWelcomes
  UnprovenHasWindow
PROPERTIES
  GuessesArePaid
  DeadlineIsTheHosts
