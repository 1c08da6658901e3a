SPECIFICATION MCSpec
CONSTANTS
  w1 = w1
  w2 = w2
  w3 = w3
  w4 = w4
  w5 = w5
  c1 = c1
  c2 = c2
  c3 = c3
  x1 = x1
  x2 = x2
  k1 = k1
  k2 = k2
  k3 = k3
  k4 = k4
  r1 = r1
  r2 = r2
  u1 = u1
  d1 = d1
  o1 = o1
  y1 = y1
  Null = Null
  Withdraw <- Requests
  Symbol <- Symbols
  Amount <- Amounts
  Opening <- OpeningBalance
  DollarInSol <- Prices
  MIN_AMOUNT_USD = 4
  WITHDRAWAL_FEE_USD = 1
  TRANSACTION_FEE = 2
  Reserve = 2
  NetworkFee = 1
  Rent = 2
  Environments <- All
  Client = {c1, c2, c3}
  Watched = {x1, x2}
  Subscribe = {k1, k2, k3, k4}
  ClientOf <- Callers
  WatchedBy <- CallersWallets
  TokenAccounts <- AccountCounts
  FirstListener = 0
  MaxChanges = 1
  GatewayEnvironments <- GatewayRuns
  Create = {r1, r2}
  Update = {u1}
  Remove = {d1}
  Overview = {o1}
  Public = {y1}
  Sale <- Sales
  Coin = {"MMP", "MPB"}
  Time = {1, 2, 3}
  SaleEnvironments <- SaleRuns
INVARIANTS WalletsTypeOK RecordedIsPaid FailedIsJustified
           SubscriberIsServedOnce SerialToldIsCurrent SummaryCountsOnce
PROPERTIES IsDecided
\* Requests are finite in number and all may have returned.
CHECK_DEADLOCK FALSE
