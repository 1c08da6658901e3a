-------------------------- MODULE GatewayAndRounds --------------------------
\* The balances that clients of wallet-balance.gateway.ts are told, and the rounds
\* of the token sale, side by side.  They share no variable.

CONSTANTS
  Client, Watched, Subscribe, ClientOf, WatchedBy,  \* of BalanceGateway
  TokenAccounts, FirstListener, MaxChanges, GatewayEnvironments,
  Create, Update, Remove, Overview, Public,         \* of SaleRounds
  Sale, Coin, Time, SaleEnvironments,
  Null                                              \* None in both

VARIABLES
  watch, gone, subscribedWallets, logSubscriptions, tokenAccountSubscriptions,
  listeners, nextListener, gatewayPc, seen, callbacks, balance, told,
  admin, sold, rounds, salePc, local, counted

gatewayVariables ==
  <<watch, gone, subscribedWallets, logSubscriptions, tokenAccountSubscriptions,
    listeners, nextListener, gatewayPc, seen, callbacks, balance, told>>

saleVariables == <<admin, sold, rounds, salePc, local, counted>>

Gateway == INSTANCE BalanceGateway
             WITH Wallet <- Watched, WalletOf <- WatchedBy, None <- Null,
                  Environments <- GatewayEnvironments, env <- watch, pc <- gatewayPc

Rounds == INSTANCE SaleRounds
            WITH None <- Null, Environments <- SaleEnvironments,
                 env <- admin, pc <- salePc

GatewayAssumptions ==
  Gateway!CallsAssumption /\ Gateway!NumbersAssumption /\ Gateway!EnvironmentsAssumption

RoundsAssumptions ==
  Rounds!TimeAssumption /\ Rounds!SaleAssumption /\ Rounds!EnvironmentsAssumption

-----------------------------------------------------------------------------
(* What is promised.                                                       *)

\* A subscriber past its balances is served by one log listener of its wallet, the
\* one the map remembers.
SubscriberIsServedOnce == Gateway!SubscriberIsServedOnce

\* When nothing overlaps and no RPC fails, subscribers were told the present
\* balance, but where only the listener with the number 0 is left.
SerialToldIsCurrent == Gateway!SerialToldIsCurrent

\* Where writers take turns and a coin changes only with a time, no summary counts
\* a sale twice.
SummaryCountsOnce == Rounds!SummaryCountsOnce
=============================================================================
