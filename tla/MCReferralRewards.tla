------------------------- MODULE MCReferralRewards -------------------------
\* Instances of the components of Rewards for TLC.  They share no variable, and a
\* behaviour is one of the parts named by Parts.
EXTENDS Rewards, Integers, TLC

CONSTANTS c1, c2, c3, n1, n2, s1, s2, w1, w2, o1, k1, k2, r1, r2, Parts

VARIABLE part

ASSUME Monitor!MonitorAssumption
ASSUME StatisticsAssumptions

-----------------------------------------------------------------------------
(* The monitor pays rewards of one and two units.                          *)

Costs == r1 :> 1 @@ r2 :> 2

-----------------------------------------------------------------------------
(* Three clicks from a Thursday on, over a Sunday and the end of a month.  *)

Months == {-20, 6}

-----------------------------------------------------------------------------
(* Each report, with the rows it is about.                                 *)

SolAndMmp == r1 :> "SOL" @@ r2 :> "MMP"
FromOne == r1 :> w1 @@ r2 :> w1

RewardReports == {"getReferralRanking", "getReferralStatistics", "getReferredWallets",
                  "getWalletReferralStatistics", "getOwnReferralStatistics"}
LoopReports == {"getReferredWallets", "getOwnReferralStatistics"}

Observed ==
  [report : RewardReports, rows : {{w1, r2}}]
    \cup [report : LoopReports, rows : {{w1, w2, r2}}]
    \cup {[report |-> "getWalletReferralStatistics", rows |-> {w1, r1, r2}],
          [report |-> "getWalletDetailStatistics", rows |-> {w1, r2, s1}],
          [report |-> "getReferralsOfWallet", rows |-> {w1, w2}],
          [report |-> "getWalletStatistics", rows |-> {w1, w2}],
          [report |-> "getSwapStatistics", rows |-> {o1}],
          [report |-> "getStakeStatistics", rows |-> {s1}]}

-----------------------------------------------------------------------------
(* Lists of up to four rows, two on a page; two refreshes of a wallet with *)
(* two balances, and a choice of its type.                                 *)

ListRows == 1..4
TwoCoins == <<"sol", "mpb">>

-----------------------------------------------------------------------------
(* The rewards.                                                            *)

Calls == {c1, c2, c3}
Notices == {n1, n2}
Swaps == {s1, s2}
Wallets == {w1}
\* The first swap order is completed twice.
SwapOfCall == c1 :> s1 @@ c2 :> s1 @@ c3 :> s2
OneReferrer == s1 :> w1 @@ s2 :> w1

NoFaults == [handlers |-> {}, serial |-> FALSE, lostAnswers |-> FALSE,
             chainErrors |-> FALSE, dbFaults |-> FALSE, maxCrashes |-> 0]
AllFaults == [NoFaults EXCEPT !.lostAnswers = TRUE, !.dbFaults = TRUE, !.maxCrashes = 1]

\* Two calls that race; a call and two notifications; a call whose transaction
\* fails on chain; and everything one at a time, with and without a database
\* that fails.
Racing ==
  {[AllFaults EXCEPT !.handlers = {c1, c3}, !.maxCrashes = 0],
   [AllFaults EXCEPT !.handlers = {c1, c3}, !.dbFaults = FALSE, !.lostAnswers = FALSE],
   [AllFaults EXCEPT !.handlers = {c1, n1, n2}],
   [NoFaults EXCEPT !.handlers = {c1}, !.chainErrors = TRUE],
   [NoFaults EXCEPT !.handlers = Handler, !.lostAnswers = TRUE, !.serial = TRUE],
   [AllFaults EXCEPT !.handlers = {c1, c2, c3}, !.serial = TRUE]}

Undisturbed == {[NoFaults EXCEPT !.handlers = {c1, c3}],
                [NoFaults EXCEPT !.handlers = {c1, n1}, !.lostAnswers = TRUE]}

TwoCalls == {[NoFaults EXCEPT !.handlers = {c1, c3}]}

-----------------------------------------------------------------------------
(* The parts.                                                              *)

AllParts == {"rewards", "monitor", "clicks", "reports", "lists", "wallets"}
BothParts == {"rewards", "monitor"}
RewardsOnly == {"rewards"}
MonitorOnly == {"monitor"}

\* A part that is not observed stays in one of its initial states.
MCInit ==
  /\ part \in Parts
  /\ Init /\ (part = "rewards" \/ env = CHOOSE e \in Environments : TRUE)
  /\ Monitor!Init /\ (part = "monitor" \/ (authority = 0 /\ errors = 0))
  /\ Clicks!Init /\ (part = "clicks" \/ serialClicks)
  /\ Report!Init /\ (part = "reports" \/ scope = CHOOSE s \in Observed : TRUE)
  /\ Lists!Init /\ (part = "lists" \/ (list = Lists!Newest /\ listed = <<>>))
  /\ Stored!Init

RewardsNext ==
  /\ part = "rewards"
  /\ Next
  /\ UNCHANGED <<part, monitorVars, clickVars, reportVars, listVars, walletVars>>
MonitorNext ==
  /\ part = "monitor"
  /\ Monitor!Next
  /\ UNCHANGED <<part, vars, clickVars, reportVars, listVars, walletVars>>
ClicksNext ==
  /\ part = "clicks"
  /\ Clicks!Next
  /\ UNCHANGED <<part, vars, monitorVars, reportVars, listVars, walletVars>>
ReportNext ==
  /\ part = "reports"
  /\ Report!Next
  /\ UNCHANGED <<part, vars, monitorVars, clickVars, listVars, walletVars>>
ListsNext ==
  /\ part = "lists"
  /\ Lists!Next
  /\ UNCHANGED <<part, vars, monitorVars, clickVars, reportVars, walletVars>>
StoredNext ==
  /\ part = "wallets"
  /\ Stored!Next
  /\ UNCHANGED <<part, vars, monitorVars, clickVars, reportVars, listVars>>

MCNext ==
  RewardsNext \/ MonitorNext \/ ClicksNext \/ ReportNext \/ ListsNext \/ StoredNext

MCSpec ==
  MCInit /\ [][MCNext]_<<part, vars, monitorVars, clickVars, reportVars, listVars, walletVars>>

\* Without a call or a notification Fairness asks for nothing.
MCFairSpec == MCSpec /\ Fairness /\ (part = "monitor" => Monitor!Fairness)
=============================================================================
