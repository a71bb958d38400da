\* As MCCliInstances: a stop of one instance, while others start.
CONSTANTS
  p1 = p1
  p2 = p2
  c1 = c1
  c2 = c2
  c3 = c3
  CliCommands <- MCStopOne
  Clis = {c1, c2, c3}
  Ports = {p1, p2}
  PortExtensions <- MCExtensions
  NoCli = NoCli
  NoPort = NoPort
  MaxFailures = 2
SPECIFICATION CliSpec
CHECK_DEADLOCK FALSE
PROPERTY OthersAreNotMuted
