\* Router: two apps, one of which has two toplevels and a menu.
\* Subsurfaces: four surfaces and two subsurface objects.
CONSTANTS
  editor = editor
  panel = panel
  document = document
  palette = palette
  menu = menu
  clock = clock
  Apps = {editor, panel}
  NoApp = NoApp
  Toplevels = {document, palette, clock}
  Popups = {menu}
  AppOf <- MCAppOf
  ParentOf <- MCParentOf
  Insets = {none, top}
  StartInsets = none
  MaxDown = 2
  Surfaces = {s1, s2, s3, s4}
  Subs = {u1, u2}
  NoSurface = NoSurface
  NoSub = NoSub
SPECIFICATION PartSpec
INVARIANTS
  TypeOK
  HelpersHaveWindows
  WindowsInTheirApp
  HostsFollowRouter
  GrabsStayInTheirHost
  InsetsFollow
  SubTypeOK
  SublayersFollow
PROPERTY ScreensFollowApps
\* Surfaces are created once each.
CHECK_DEADLOCK FALSE
