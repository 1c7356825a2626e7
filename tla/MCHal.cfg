SPECIFICATION Spec
CONSTANTS
  Alarms = {a1, a2}
  W = 6
  Devices = {"/dev/jtag_uart_0", "/dev/lcd"}
  Console = "/dev/jtag_uart_0"
  ALT_MAX_FD = 6
INVARIANTS
  CalledWhenDue
  MarkCoversAll
PROPERTIES
  LockKeepsOthersOut
