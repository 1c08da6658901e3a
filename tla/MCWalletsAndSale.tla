-------------------------- MODULE MCWalletsAndSale --------------------------
\* Instances of the components of WalletsAndSale for TLC.  They share no variable,
\* and a behaviour is one of the three parts.
EXTENDS WalletsAndSale, FiniteSets, TLC

CONSTANTS w1, w2, w3, w4, w5, c1, c2, c3, x1, x2, k1, k2, k3, k4,
          r1, r2, u1, d1, o1, y1

VARIABLE part

ASSUME GatewayAssumptions
ASSUME RoundsAssumptions

-----------------------------------------------------------------------------
(* Withdrawals: what is asked for, and the opening balance.                *)

\* Requests of SOL that do not fit beside each other, tokens, which cost SOL,
\* and a symbol that is not withdrawn.
Requests == {w1, w2, w3, w4, w5}
Symbols == w1 :> "SOL" @@ w2 :> "SOL" @@ w3 :> "USDT" @@ w4 :> "none" @@ w5 :> "MMP"
Amounts == w1 :> 12 @@ w2 :> 20 @@ w3 :> 5 @@ w4 :> 5 @@ w5 :> 6

OpeningBalance == [a \in Asset |-> IF a = "SOL" THEN 24 ELSE 6]
Prices == {1, 2}

Calm == [requests |-> {w1, w2, w3, w4}, serial |-> FALSE, lostAnswers |-> FALSE,
         chainFaults |-> FALSE, dbFaults |-> FALSE, maxCrashes |-> 0]

\* Without faults, at once and one at a time; with all faults; and with answers
\* that arrive and saves that work.
All ==
  {Calm,
   [Calm EXCEPT !.requests = {w1, w2, w3}, !.serial = TRUE],
   [Calm EXCEPT !.requests = {w1, w2, w3}, !.lostAnswers = TRUE, !.chainFaults = TRUE,
                !.dbFaults = TRUE, !.maxCrashes = 1],
   [Calm EXCEPT !.requests = {w2, w3, w5}, !.chainFaults = TRUE, !.maxCrashes = 1]}

-----------------------------------------------------------------------------
(* The gateway: up to three clients of one wallet, one of another too.     *)

Unwatched == [requests |-> {}, serial |-> FALSE, rpcFaults |-> FALSE]

\* At once, with and without failing calls of the ledger, and one at a time.
GatewayRuns ==
  {Unwatched,
   [Unwatched EXCEPT !.requests = {k1, k2, k3}],
   [Unwatched EXCEPT !.requests = {k1, k2}, !.rpcFaults = TRUE],
   [Unwatched EXCEPT !.requests = {k1, k2, k4}, !.serial = TRUE]}

Callers == k1 :> c1 @@ k2 :> c2 @@ k3 :> c3 @@ k4 :> c1
CallersWallets == k1 :> x1 @@ k2 :> x1 @@ k3 :> x1 @@ k4 :> x2
AccountCounts == x1 :> 2 @@ x2 :> 1

-----------------------------------------------------------------------------
(* The rounds: two of them, an update, a removal and two summaries.        *)

Sales == {[id |-> 1, coin |-> "MMP", kind |-> "reward", at |-> 2]}

Closed == [requests |-> {}, coins |-> {"MMP"}, serial |-> "all", recoin |-> FALSE]

\* A summary beside the writers, everything one at a time, and writers at once.
SaleRuns ==
  {Closed,
   [Closed EXCEPT !.requests = {r1, r2, u1, o1}, !.serial = "writers"],
   [Closed EXCEPT !.requests = {r1, r2, u1, y1}],
   [Closed EXCEPT !.requests = {r1, u1, d1, y1}, !.coins = {"MMP", "MPB"}],
   [Closed EXCEPT !.requests = {r1, u1, d1}, !.serial = "none", !.recoin = TRUE]}

-----------------------------------------------------------------------------
(* The parts.                                                              *)

MCInit ==
  /\ part \in {"withdrawals", "gateway", "rounds"}
  /\ Init
  /\ Gateway!Init
  /\ Rounds!Init
  /\ part = "withdrawals" \/ env = Calm
  /\ part = "gateway" \/ watch = Unwatched
  /\ part = "rounds" \/ admin = Closed

WithdrawalsNext == /\ part = "withdrawals"
                   /\ Next
                   /\ UNCHANGED <<part, gatewayVariables, saleVariables>>
GatewayNext == /\ part = "gateway"
               /\ Gateway!Next
               /\ UNCHANGED <<part, vars, saleVariables>>
RoundsNext == /\ part = "rounds"
              /\ Rounds!Next
              /\ UNCHANGED <<part, vars, gatewayVariables>>

MCSpec ==
  /\ MCInit
  /\ [][WithdrawalsNext \/ GatewayNext \/ RoundsNext]_
       <<part, vars, gatewayVariables, saleVariables>>
  /\ Fairness  \* no step of it is enabled in the other parts
=============================================================================
