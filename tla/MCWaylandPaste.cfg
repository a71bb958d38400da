\* As MCClipboard: what is offered is what is on the pasteboard, once all is quiet.
CONSTANTS
  c1 = c1
  c2 = c2
  s1 = s1
  s2 = s2
  Clients = {c1, c2}
  Sources = {s1, s2}
  TextSources = {s1}
  ClientOf <- MCClientOf
  MacTexts = {m1}
  NoText = NoText
  NoSource = NoSource
  Untold = Untold
  MaxCopies = 1
  MaxQueue = 1
  InputEvents <- Events
SPECIFICATION ClipSpec
INVARIANT PasteMatchesPasteboard
