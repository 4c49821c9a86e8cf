SPECIFICATION SimSpec
CONSTANTS
  MAX_USART_BUF_LEN = 3
  QueueLen = 1
  Tries = 2
  OK = OK
  ERROR = ERROR
  Replies <- MCReplies
  MaxBytes = 4
SYMMETRY MCSymmetry
CHECK_DEADLOCK FALSE
INVARIANTS HandedInOrder LostInReadOnly NoUnseenAnswer
