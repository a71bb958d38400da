\* Three invocations on two ports, one of which begins with the other's
\* digits; one failure.
\* Menus: one window, two menus, two buttons; places on the window, on each
\* menu and off all windows.
CONSTANTS
  p1 = p1
  p2 = p2
  c1 = c1
  c2 = c2
  c3 = c3
  CliCommands <- MCCommands
  Clis = {c1, c2, c3}
  Ports = {p1, p2}
  PortExtensions <- MCExtensions
  NoCli = NoCli
  NoPort = NoPort
  MaxFailures = 1
  Toplevels = {1}
  Menus = {2, 3}
  Buttons = {left, right}
  Places = {"button", "item", "aside"}
  NoPlace = "nowhere"
  Frame <- MCFrame
  MaxQueue = 1
  MaxBus = 1
SPECIFICATION PartSpec
SYMMETRY ButtonSymmetry
VIEW PartView
INVARIANTS
  CliTypeOK
  TypeOK
  KeyboardComesBack
PROPERTIES
  StopIsComplete
  SeenInstancesKeepAudio
  ReleasesFollowPresses
\* Invocations end.
CHECK_DEADLOCK FALSE
