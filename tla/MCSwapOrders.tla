---------------------------- MODULE MCSwapOrders ----------------------------
\* Instances of SwapOrders for TLC: the model values of the orders and calls,
\* and what the scan of completeWeb3Wallet makes of each transaction.  x1 is a
\* transaction of neither order that passes for both tokens.
EXTENDS SwapOrders, TLC

CONSTANTS o1, w1, x1, k1, k2, k3, usdt

Custodial1 == {o1}
Web3One == {w1}
Elsewhere0 == {}
Elsewhere1 == {x1}
Calls1 == {k1}
Calls2 == {k1, k2}
Calls3 == {k1, k2, k3}

InputW1 == (o1 :> usdt) @@ (w1 :> SOL)
ShowsW1 == (o1 :> {usdt}) @@ (w1 :> {SOL, usdt})
InputBoth == (o1 :> SOL) @@ (w1 :> SOL)
ShowsBoth == (o1 :> {SOL}) @@ (w1 :> {SOL}) @@ (x1 :> {SOL, usdt})

\* Calls differ in nothing but their names.
CallSymmetry == Permutations(Call)
=============================================================================
