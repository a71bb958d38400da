\* As MCMenuInput, with every button there is.
CONSTANTS
  Toplevels = {1}
  Menus = {2, 3}
  Buttons = {left, right}
  Places = {"button", "item", "aside"}
  NoPlace = "nowhere"
  Frame <- MCFrame
  MaxQueue = 2
  MaxBus = 1
SPECIFICATION Spec
PROPERTY EveryReleaseFollows
