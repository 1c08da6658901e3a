--------------------------- MODULE WalletsAndSale ---------------------------
\* The withdrawals of a wallet beside the gateway and the rounds of the sale.
\* They share no variable.
EXTENDS Withdrawals, GatewayAndRounds

\* All at once.
WalletsSpec == Spec /\ Gateway!Spec /\ Rounds!Spec

\* Every variable of the three has its type.
WalletsTypeOK == TypeOK /\ Gateway!TypeOK /\ Rounds!TypeOK
=============================================================================
