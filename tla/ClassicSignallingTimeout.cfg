SPECIFICATION Spec
CONSTANTS
  Ends = {A, B}
  Modes = {"BASIC"}
  IncomingMtus = {672}
  MinimalMtu = 48
  Verdicts = {TRUE}
  MaxRequests = 1
  MaxCloses = 0
  MaxTimeouts = 1
INVARIANT QueueMoves
CHECK_DEADLOCK FALSE
