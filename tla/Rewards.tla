------------------------------ MODULE Rewards -------------------------------
\* The rewards of ReferralRewards, the monitor of the wallet that pays them, and
\* what Statistics keeps and shows, side by side.  They share no variable: a
\* payment is a single step of the monitor, and many of ReferralRewards.
EXTENDS ReferralRewards, Statistics

CONSTANTS Callback, Owed, Cost, MaxBalance, MaxErrors  \* of AuthorityMonitor

VARIABLES
  authority, previousBalance, errors, monitor, due, monitorPc, currentBalance, found,
  status, covered

monitorVars == <<authority, previousBalance, errors, monitor, due, monitorPc,
                 currentBalance, found, status, covered>>

Monitor == INSTANCE AuthorityMonitor
             WITH Reward <- Owed, Amount <- Cost, balance <- authority,
                  pc <- monitorPc, seen <- currentBalance

-----------------------------------------------------------------------------
(* All at once.                                                            *)

RewardsSpec == Spec /\ Monitor!Spec /\ StatisticsSpec

\* Every variable of them has its type.
RewardsTypeOK == TypeOK /\ Monitor!TypeOK /\ StatisticsTypeOK

\* A reward that waits while a notification is due and the balance is above
\* previousBalance is taken up, or the increase is taken for handled.
NoticedIncreaseIsPaid == Monitor!NoticedIncreaseIsPaid

\* What sol-authority-monitor.service.ts says of itself: a deposit that covers a
\* waiting reward pays it.
DepositPaysWaiting == Monitor!DepositPaysWaiting
=============================================================================
