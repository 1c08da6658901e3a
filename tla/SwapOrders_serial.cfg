SPECIFICATION Spec
CONSTANTS
  o1 = o1
  w1 = w1
  k1 = k1
  k2 = k2
  k3 = k3
  None = None
  CustodialOrder <- Custodial1
  Web3Order <- Web3One
  Call <- Calls3
  SOL = SOL
  usdt = usdt
  x1 = x1
  Elsewhere <- Elsewhere1
  InputToken <- InputBoth
  Shows <- ShowsBoth
  LostAnswers = FALSE
  DbFaults = FALSE
  SerialClients = TRUE
  MaxCrashes = 0
SYMMETRY CallSymmetry
INVARIANTS SerialClientsServedOnce DeliveredMeansCompleted
\* Requests, clients and the sweep may all be finished.
CHECK_DEADLOCK FALSE
