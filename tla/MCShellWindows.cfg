\* Two surfaces, two window ids, at most three commands in flight, one
\* popup dismissal in flight.
CONSTANTS
  Surfaces = {s1, s2}
  NoSurface = NoSurface
  MaxWindow = 2
  MaxQueue = 2
  MaxBus = 1
SPECIFICATION FairSpec
INVARIANTS
  TypeOK
  WindowsFollowRecords
  CommandsFindTheirWindow
  RolesNameLiveRecords
  GrabNeverOutlivesPopup
  AtMostOnePopupDone
PROPERTIES
  StaleGrabEnds
  ScreenFollowsClients
\* Once every surface is destroyed and every id spent, nothing is left to do.
CHECK_DEADLOCK FALSE
