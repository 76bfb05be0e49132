SPECIFICATION Spec
CONSTANTS
  Bytes = {127, 128, 191, 192, 224, 240, 247, 248}
  MaxLen = 5
INVARIANT TypeOK
INVARIANT Decides
\* The function returns.
CHECK_DEADLOCK FALSE
