SPECIFICATION FairSpec
CONSTANTS
  BUF_SIZE = 4
  Header = 1
  Lengths <- Fitting
  MaxData = 1
  MaxResend = 1
  MaxFaults = 1
  Faults = {"lose"}
PROPERTY CompletesDespiteLoss
CHECK_DEADLOCK FALSE
