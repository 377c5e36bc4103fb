SPECIFICATION FairSpec
CONSTANTS
  BUF_SIZE = 4
  Header = 1
  Lengths <- AllLengths
  MaxData = 2
  MaxResend = 1
  MaxFaults = 2
  Faults = {"lose", "duplicate", "overtake"}
INVARIANTS SessionInv Emptied EndsOnlyIf StuckOnlyByLoss
PROPERTIES SessionRelay Connects Carried
\* MaxData bounds the traffic, and a handshake may hang.
CHECK_DEADLOCK FALSE
