SPECIFICATION Spec
CONSTANTS
  HighBytes = {0, 255}
  LowBytes = {0, 1, 125, 126, 127, 128, 255}
INVARIANT SentAsDrawn
INVARIANT ReadsPlainLengths
INVARIANT NeverCut
\* The frame has been made or read.
CHECK_DEADLOCK FALSE
