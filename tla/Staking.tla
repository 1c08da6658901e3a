------------------------------ MODULE Staking ------------------------------
\* Staking and unstaking, of the code in user-stake.service.ts, side by side.
\* They share no variable: UserUnstakes starts from rows and accounts as
\* UserStakes may leave them, and Environments there says which.
EXTENDS UserStakes

CONSTANTS
  Stake, Unstake, SignedUnstake, OtherUnstake, ExecuteUnstake,  \* of UserUnstakes
  UnstakeEnvironments

VARIABLES
  unstaking, stakes, matured, open, closed, unstakeInFlight, closes, unstakePc,
  unstakeRow, unstakeSig

unstakeVars == <<unstaking, stakes, matured, open, closed, unstakeInFlight,
                 closes, unstakePc, unstakeRow, unstakeSig>>

Unstakes == INSTANCE UserUnstakes
              WITH Signed <- SignedUnstake, Other <- OtherUnstake,
                   Execute <- ExecuteUnstake, Environments <- UnstakeEnvironments,
                   env <- unstaking, rows <- stakes, executed <- closed,
                   inFlight <- unstakeInFlight, pc <- unstakePc,
                   loaded <- unstakeRow, sig <- unstakeSig

UnstakeAssumptions == Unstakes!RequestsAssumption /\ Unstakes!EnvironmentsAssumption

-----------------------------------------------------------------------------
(* Both at once.                                                           *)

StakingSpec == Spec /\ Unstakes!Spec

\* Every variable of the two has its type.
StakesTypeOK == TypeOK /\ Unstakes!TypeOK

\* While the ledger does not fail, a COMPLETED row carries a transaction that was
\* sent and closes what it names: the account of the row, if clients return what
\* they were given.
CompletedIsClosed == Unstakes!CompletedIsClosed

\* Without faults, and with such clients, a row whose account is closed becomes
\* COMPLETED.
ClosedIsCompleted == Unstakes!ClosedIsCompleted
=============================================================================
