\* The touchscreen, the mapping engine, a profile, the web page, the start: each by itself.
SPECIFICATION SurfaceSpec
CONSTANTS
  ScreenW = 320
  ScreenH = 240
  Places <- MCPlaces
  Shoulders = {"L"}
  Offers <- MCOffers
  SettleFrames = 1
  TapMaxFrames = 2
  TapMaxPx = 4
  TapDragFrames = 3
  Detent = 18
  Sens = 3
  MaxSamples = 4
  Full = 100
  Rounding = 4
  Inputs <- MCInputs
  Profiles <- MCProfiles
  CapSets <- MCCapSets
  WireButtons <- MCWire
  MaxRegions = 1
  SavedName = "mine"
  Requests <- MCRequests
  EditSymbols <- MCEditSymbols
  EditPlaces <- MCEditPlaces
  MaxEdits = 1
  StemOrder <- McStemOrder
  Shipped <- McShipped
  Devices <- McDevices
  HandTexts <- McHandTexts
  UserStems = {"aim"}
  MaxTouched = 1
  Revisions = {0}
  TableSize = 2
  Seats = {1}
  WebRequests <- McWebRequests
  OwnLists <- McOwnLists
  MaxSecrets = 2
  Programs = {"linux", "windows"}
  InterfaceLists <- McInterfaceLists
  MaxOwn = 3
  MaxMoves = 1
INVARIANTS
  TouchActsAsMeant
  PadsAsMeant
  ProfilesAsMeant
  AnswersAreTrue
  OrderlyStart
PROPERTY OnlyAllowedChanges
CHECK_DEADLOCK FALSE
