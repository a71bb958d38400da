\* Clipboard: two clients that copy, one a text and one a picture, a Mac
\* program that copies once more than at the start, and one key window change
\* at a time.  Sizes: windows of up to four points, with and without a shadow;
\* three sizes that somebody comes up with.
CONSTANTS
  c1 = c1
  c2 = c2
  s1 = s1
  s2 = s2
  Clients = {c1, c2}
  Sources = {s1, s2}
  TextSources = {s1}
  ClientOf <- MCClientOf
  MacTexts = {m1}
  NoText = NoText
  NoSource = NoSource
  Untold = Untold
  MaxCopies = 1
  MaxQueue = 1
  InputEvents <- Events
  Top = 4
  Shadows = {0, 1}
  MaxInitiatives = 3
  MaxSize = 5
  None = None
SPECIFICATION PartSpec
INVARIANTS
  ClipTypeOK
  OwnersAgree
  ToldIsCurrent
  WatcherMissesNothing
  NoBounce
  NoLostWakeup
  SizeTypeOK
PROPERTIES
  MacTextOffered
  SizesSettle
\* A window that nobody resizes any more is at rest.
CHECK_DEADLOCK FALSE
