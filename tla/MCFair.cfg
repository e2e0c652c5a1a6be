\* Everything that must happen, under FairSpec: one slot, one peer, a mouse, bursts
\* and slow repeats.
SPECIFICATION FairSpec
CONSTANTS
  SeqModulus = 4
  IdleTimeout = 1
  Keepalive = 0
  RetxDelays <- MCOneRetransmit
  KbmClasses <- Facilities
  Keys <- MCKeys
  NoKey = NoKey
  NoSeq = NoSeq
  PairingWindow = 1
  MaxPairAttempts = 1
  RingDepth <- MCRingDepth
  Codes <- MCCodes
  KbmWatchdog = 1
  BurstCopies = 2
  BurstGap = 1
  SlowRepeat = 2
  NSlots = 1
  Peers = {p1}
  NoPeer = NoPeer
  Nonces = {n1}
  NoNonce = NoNonce
  ForgedKeys = {ForgedKey}
  NoWelcome = NoWelcome
  MaxGeneration = 1
  KbmFeatures = {"MOUSE"}
  TouchProfile = TRUE
  PingPeriod = 0
  RandomFails = FALSE
  DevicesFail = FALSE
  InboundTypes = {"DISCOVER", "HELLO", "ACK", "BYE", "MOUSE"}
  HelloKinds = {"GOOD"}
  ErrorsPass = {FALSE}
  AckedSeqs = {0}
  InputSeqs = {0}
  KbmMsgs <- MCMouseMsgs
CHECK_DEADLOCK TRUE
PROPERTIES
  TellsItsClients
  NothingLingers
