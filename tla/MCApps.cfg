\* The phone with both transports, two facilities and two session threads;
\* the codec and its texts; one server and one network for each console;
\* the 3DS's camera over four pictures.
SPECIFICATION MCSpec
CONSTANTS
  AppFacilities = {"MOUSE", "MEDIA"}
  MaxPosted = 2
  MaxStray = 1
  SessionThreads <- MCThreads
  MaxDatagram = 256
  LinkKeys = {"OWN", "OTHER"}
  OwnKey = "OWN"
  FieldWidth = 4
  MaxExcess = 2
  MinSecret = 2
  MaxSecret = 3
  MaxCodes = 2
  ServerAddresses = {"den"}
  NoAddress = ""
  Networks = {"one"}
  NoNetwork = "none"
  ReadyCap = 1
  MaxTransfers = 4
  MaxRefusals = 1
  MaxOpens = 2
INVARIANTS
  OnePump
  BluetoothFollowsScreen
  ReadsAsWritten
  ConsolesKeepFaith
  FramesAreWhole
PROPERTIES
  NeverSwapped
