SPECIFICATION MCFairSpec
CONSTANTS
  None = None
  c1 = c1
  c2 = c2
  c3 = c3
  n1 = n1
  n2 = n2
  s1 = s1
  s2 = s2
  w1 = w1
  w2 = w2
  o1 = o1
  k1 = k1
  k2 = k2
  r1 = r1
  r2 = r2
  MaxBalance = 3
  MaxErrors = 0
  Call <- Calls
  Notice <- Notices
  Swap <- Swaps
  Wallet <- Wallets
  SwapOf <- SwapOfCall
  Referrer <- OneReferrer
  Environments <- TwoCalls
  Callback = {k1, k2}
  Owed = {r1, r2}
  Cost <- Costs
  Click = {c1, c2, c3}
  FirstWeekday = 4
  MonthStarts <- Months
  LastDay = 9
  WalletRow = {w1, w2}
  RewardRow = {r1, r2}
  OrderRow = {o1}
  StakeRow = {s1}
  TokenOf <- SolAndMmp
  FromOf <- FromOne
  Scopes <- Observed
  Item <- ListRows
  Limit = 2
  MaxMoves = 2
  Refresh = {c1, c2}
  Choice = {k1}
  Coins <- TwoCoins
  MaxHeight = 2
  Parts <- MonitorOnly
PROPERTIES DepositPaysWaiting
\* Calls, deposits and notifications are finite in number and may all be over.
CHECK_DEADLOCK FALSE
