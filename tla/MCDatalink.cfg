SPECIFICATION DatalinkSpec
\* A sender that has nothing to send may stop.
CONSTANTS
  BYTE = 8
  STX = 1
  UART_TX_BUFFER_SIZE = 7
  UART_RX_BUFFER_SIZE = 2
  Messages <- MCMessages
  Noise = {1, 4}
  MAX_HARMS = 1
CHECK_DEADLOCK FALSE
INVARIANTS MessagesAreWhole
PROPERTIES RoomAgain LinkRecovers
