---------------------------- MODULE MCUserStakes ----------------------------
\* Instances of UserStakes and of UserUnstakes for TLC: custodial requests,
\* signed transactions and the requests that submit them.  A behaviour is one of
\* the parts named by Parts.
EXTENDS Staking, TLC

CONSTANTS c1, t1, t2, e1, e2, e3, s1, s2, u1, u2, x1, x2, o1, Parts

VARIABLE part

ASSUME UnstakeAssumptions

-----------------------------------------------------------------------------
(* Unstaking.                                                              *)

NamedRight == s1 :> s1 @@ s2 :> s2
\* The number of the first row is that of the second stake.
NamedLater == s1 :> s2 @@ s2 :> s2
\* The number of the first row names no account of the wallet.
NamedNone == s1 :> None @@ s2 :> s2

UnstakeCalm == [named |-> NamedRight, others |-> o1 :> s2, ownRows |-> TRUE,
                handlers |-> {u1, e1, e2},
                lostAnswers |-> FALSE, chainFaults |-> FALSE, dbFaults |-> FALSE]

\* A custodial request, and a transaction submitted twice, for rows that are
\* numbered right, for one that names no account, and for two that name one; and
\* clients that name any row, with a transaction that closes the second account
\* or none.
Unstakings ==
  {UnstakeCalm,
   [UnstakeCalm EXCEPT !.handlers = {u1, u2, e1}],
   [UnstakeCalm EXCEPT !.named = NamedNone, !.lostAnswers = TRUE,
                       !.chainFaults = TRUE, !.dbFaults = TRUE],
   [UnstakeCalm EXCEPT !.named = NamedLater, !.handlers = {u1, u2, e1},
                       !.lostAnswers = TRUE, !.dbFaults = TRUE],
   [UnstakeCalm EXCEPT !.ownRows = FALSE, !.handlers = {u1, e1}],
   [UnstakeCalm EXCEPT !.ownRows = FALSE, !.handlers = {e1, e2},
                       !.others = o1 :> None]}

Rows == {s1, s2}
Unstakers == {u1, u2}
SignedCloses == {x1, x2}
OtherCloses == {o1}
Submissions == {e1, e2}

-----------------------------------------------------------------------------
(* Staking.                                                                *)

Creates == {c1}
SignedTxs == {t1, t2}
Executes == {e1, e2, e3}

Calm == [handlers |-> Handler, serial |-> FALSE, lostAnswers |-> FALSE,
         chainFaults |-> FALSE, dbFaults |-> FALSE, maxCrashes |-> 0]
Disturbed == [Calm EXCEPT !.lostAnswers = TRUE, !.chainFaults = TRUE,
                          !.dbFaults = TRUE, !.maxCrashes = 1]

\* Requests that race, without faults and with all of them, and one at a time.
Stakings == {Calm,
             [Disturbed EXCEPT !.handlers = {c1, e1, e2}],
             [Disturbed EXCEPT !.handlers = {e1, e2, e3}, !.serial = TRUE]}

\* Two transactions, each submitted once, without faults.
TwoSigned == {[Calm EXCEPT !.handlers = {e1, e2}]}

BothParts == {"stakes", "unstakes"}
StakesOnly == {"stakes"}

-----------------------------------------------------------------------------
(* The two parts.                                                          *)

MCInit ==
  /\ part \in Parts
  /\ Init
  /\ Unstakes!Init
  /\ part = "stakes" => unstaking = UnstakeCalm
  /\ part = "unstakes" => env = CHOOSE e \in Environments : TRUE

StakesNext == part = "stakes" /\ Next /\ UNCHANGED <<part, unstakeVars>>
UnstakesNext == part = "unstakes" /\ Unstakes!Next /\ UNCHANGED <<part, vars>>

MCSpec == MCInit /\ [][StakesNext \/ UnstakesNext]_<<part, vars, unstakeVars>>

\* Before an unstake request is made its fairness asks for nothing.
MCFairSpec == MCSpec /\ Unstakes!Fairness
=============================================================================
