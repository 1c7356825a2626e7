SPECIFICATION FdSpec
CONSTANTS
  Devices = {"/dev/jtag_uart_0", "/dev/lcd"}
  Console = "/dev/jtag_uart_0"
  ALT_MAX_FD = 6
PROPERTIES
  LockGrantedAlone
