SPECIFICATION Spec
CONSTANTS
  Ends = {A, B}
  Modes = {"none", "BASIC", "ERTM", "OPTIONAL"}
  IncomingMtus = {48, 672}
  MinimalMtu = 672
  Verdicts = {TRUE, FALSE}
  MaxRequests = 1
  MaxCloses = 2
  MaxTimeouts = 1
SYMMETRY Symmetry
INVARIANTS BooksAgree Settles ModesAgree
CHECK_DEADLOCK FALSE
