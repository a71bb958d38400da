\* As MCClipboard, with a client that clears what is not its own.
CONSTANTS
  c1 = c1
  c2 = c2
  s1 = s1
  s2 = s2
  Clients = {c1, c2}
  Sources = {s1, s2}
  TextSources = {s1}
  ClientOf <- MCClientOf
  MacTexts = {m1}
  NoText = NoText
  NoSource = NoSource
  Untold = Untold
  MaxCopies = 1
  MaxQueue = 1
  InputEvents <- Events
SPECIFICATION ClipSpec
INVARIANT OneOwner
