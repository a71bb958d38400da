CONSTANTS
  Ids = {a, b}
  NoId = NoId
  GfxSurfaces = {s}
  Rects <- MCRects
  OwnWindows = {NoId}
  NoRect <- Frame
  MaxSlots = 2
  MaxPending = 1
SPECIFICATION Spec
INVARIANT
  IdleAppIsNotBlank
CHECK_DEADLOCK FALSE
