SPECIFICATION MCHostSpec
CONSTANTS
  Networks = {"eth", "wlan"}
  AddressLists <- MCAddressLists
  FreeCounts = {0, 1}
  FactsPoll = 1
  AnnounceGap = 2
  AnnounceCount = 2
  UnicastBurst = 2
  UnicastRate = 1
  Questions <- MCQuestions
  MaxChanges = 1
  Clients = {"c1", "c2"}
  Hosts = {"linux", "windows"}
  MenuUnits = 4
  MaxQueue = 3
  SlowInARow = 1
  MaxGeneration = 2
  Askers = {"a1", "a2", "a3"}
  TrackSlots = 2
  Limit = 2
  Window = 2
  ClockModulus = 5
  StemOrder <- McStemOrder
  Shipped <- McShipped
  Devices <- McDevices
  HandTexts <- McHandTexts
  UserStems = {"aim"}
  MaxTouched = 1
  Revisions = {0}
  TableSize = 2
  Seats = {1}
  PadSlots = {0, 1}
  KbmDevices = {"KEYBOARD"}
  PadButtons = {1, 2}
  Frames <- McFrames
  KeyCodes = {1, 2}
  Evdev <- McEvdev
  Systems = {"LINUX", "WINDOWS"}
  MaxFaults = 1
INVARIANTS
  NothingLeftBehind
  AddressOfItsNetwork
  KeptAlive
  OperatorIsServed
  ErrorsLimited
  SessionsFollowTable
  NoTornFile
PROPERTIES
  NoAmplifier
  ImplementsHostDevices
CHECK_DEADLOCK FALSE
