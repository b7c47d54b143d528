SPECIFICATION Spec
CONSTANTS
  None = None
  NoPin = NoPin
  Files <- SomeFiles
  Sticks = {stick}
  Changes = 2
  Scratchpads <- Chips
  Images <- TwoImages
  ChipPages = 3
  Losses = 2
  Pins = {p1, bad}
  BadPins = {bad}
  Readings <- Cells
  Others = {"Busy"}
  Meters = {3300}
  Calls <- Mixes
INVARIANTS
  FlashContract
  Ch32Contract
PROPERTIES
  LowBatteryShows
  StartedRuns
CHECK_DEADLOCK FALSE
