SPECIFICATION Spec
CONSTANTS
  None = None
  NoPin = NoPin
  Files <- SomeFiles
  Sticks = {stick}
  Changes = 2
  Scratchpads <- Chips
  Images <- TwoImages
  ChipPages = 3
  Losses = 1
  Pins = {p1, bad}
  BadPins = {bad}
  Readings <- Cells
  Others = {"Busy"}
  Meters = {3300}
  Calls <- Mixes
INVARIANTS
  WrittenIsThere
CHECK_DEADLOCK FALSE
