SPECIFICATION MCSpec
CONSTANTS
  None = None
  c1 = c1
  t1 = t1
  t2 = t2
  e1 = e1
  e2 = e2
  e3 = e3
  s1 = s1
  s2 = s2
  u1 = u1
  u2 = u2
  x1 = x1
  x2 = x2
  o1 = o1
  Create <- Creates
  Signed <- SignedTxs
  Execute <- Executes
  Environments <- TwoSigned
  Stake <- Rows
  Unstake <- Unstakers
  SignedUnstake <- SignedCloses
  OtherUnstake <- OtherCloses
  ExecuteUnstake <- Submissions
  UnstakeEnvironments <- Unstakings
  Parts <- StakesOnly
INVARIANTS StakeIdIsTheOneUsed
\* Requests are finite in number and all may have returned.
CHECK_DEADLOCK FALSE
