\* The seat: three windows over two surfaces, so that a surface gets a second
\* role while the pointer and the keyboard are on its first or on the other.
\* RAIL: a frame, the content in it, and a third window; one surface.
CONSTANTS
  Windows = {a, b, c}
  NoWindow = NoWindow
  Surfaces = {s1, s2}
  NoSurface = NoSurface
  Ids = {a, b, c}
  NoId = NoId
  GfxSurfaces = {s}
  Rects <- MCRects
  OwnWindows = {NoId, a, b, c}
  NoRect <- Frame
  MaxSlots = 3
  MaxPending = 1
SPECIFICATION PartSpec
SYMMETRY Symmetry
INVARIANTS
  SeatTypeOK
  EnterBeforeUse
  TypeOK
  NoPhantom
  NativeWindowsAreMirrored
  AppWindowsAreShown
  PixelsStayInTheirWindow
PROPERTY NoStrayLeave
\* Once every surface is destroyed and every id spent, and once the session
\* has ended, nothing is left to do.
CHECK_DEADLOCK FALSE
