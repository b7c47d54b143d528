SPECIFICATION Spec
CONSTANTS
  Firmware = {factory, broken, usbBroken}
  Broken = {broken}
  UsbBroken = {usbBroken}
  Damaged = {damaged}
  Foreign = {uf2}
  Factory = factory
  Chunks = 2
  None = None
  Sites = {site}
  Torn = {torn}
  Others = {binary}
  Size = 3
  Head = 1
  Buffer = 2
  Formatted = Formatted
  Blank = Blank
PROPERTY ConfirmedAfterUsb
CHECK_DEADLOCK FALSE
