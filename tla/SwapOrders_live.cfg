SPECIFICATION FairSpec
CONSTANTS
  o1 = o1
  w1 = w1
  k1 = k1
  k2 = k2
  k3 = k3
  None = None
  CustodialOrder <- Custodial1
  Web3Order <- Web3One
  Call <- Calls1
  SOL = SOL
  usdt = usdt
  x1 = x1
  Elsewhere <- Elsewhere0
  InputToken <- InputW1
  Shows <- ShowsW1
  LostAnswers = TRUE
  DbFaults = TRUE
  SerialClients = FALSE
  MaxCrashes = 1
PROPERTIES PendingIsDecided
\* Requests, clients and the sweep may all be finished.
CHECK_DEADLOCK FALSE
