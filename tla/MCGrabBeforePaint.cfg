\* One popup is enough: its grab is dropped by the first mouse event that
\* arrives before its first frame.
CONSTANTS
  Surfaces = {s1}
  NoSurface = NoSurface
  MaxWindow = 1
  MaxQueue = 2
  MaxBus = 1
SPECIFICATION Spec
INVARIANT
  ShownPopupHoldsGrab
CHECK_DEADLOCK FALSE
