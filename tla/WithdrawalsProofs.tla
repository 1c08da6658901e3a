------------------------- MODULE WithdrawalsProofs --------------------------
(***************************************************************************)
(* Theorems about Withdrawals for any requests, amounts and opening        *)
(* balances, any prices and fees its assumptions allow, any number of      *)
(* restarts and any environments; and about the types of WalletsAndSale.   *)
(***************************************************************************)
EXTENDS WalletsAndSale, ReportProofs

LEMMA EnvironmentType ==
  ASSUME env \in Environments
  PROVE  /\ env.requests \subseteq Withdraw
         /\ env.serial \in BOOLEAN
         /\ env.lostAnswers \in BOOLEAN
         /\ env.chainFaults \in BOOLEAN
         /\ env.dbFaults \in BOOLEAN
         /\ env.maxCrashes \in Nat
BY EnvironmentsAssumption

LEMMA Constants ==
  /\ \A w \in Withdraw : /\ Symbol[w] \in Asset \cup {"none"}
                         /\ Amount[w] \in Nat
                         /\ Amount[w] > 0
  /\ WITHDRAWAL_FEE_USD \in Nat /\ WITHDRAWAL_FEE_USD > 0
  /\ TRANSACTION_FEE \in Nat /\ Reserve \in Nat /\ NetworkFee \in Nat /\ Rent \in Nat
  /\ NetworkFee <= TRANSACTION_FEE
  /\ Rent <= Reserve
BY RequestsAssumption, PricesAssumption, FeesAssumption

\* A fee of some dollars is something at every price.
LEMMA FeeInSol ==
  ASSUME NEW d \in DollarInSol
  PROVE  /\ WITHDRAWAL_FEE_USD * d \in Nat
         /\ WITHDRAWAL_FEE_USD * d > 0
<1>1. d \in Nat /\ d >= 1
  BY PricesAssumption
<1>2. \A m, n \in Nat : m >= 1 /\ n >= 1 => m * n \in Nat /\ m * n >= 1
  BY Z3
<1> QED
  BY <1>1, <1>2, Constants

-----------------------------------------------------------------------------
(* The types.                                                              *)

LEMMA TakesType ==
  ASSUME TypeOK, NEW w \in Withdraw
  PROVE  /\ Takes(w) \in [Asset -> Nat]
         /\ Takes(w)["SOL"] = (IF Symbol[w] = "SOL" THEN entity[w].amount + cost[w].fee
                                                    ELSE 0) + cost[w].sol
BY Constants DEF TypeOK, Takes, Asset, Row

LEMMA RowUpdates ==
  /\ NoRow \in Row
  /\ \A r \in Row, n \in Nat : [r EXCEPT !.amount = n] \in Row
  /\ \A n \in Nat : [NoRow EXCEPT !.status = "pending", !.amount = n] \in Row
  /\ \A r \in Row, fee \in {0, WITHDRAWAL_FEE_USD} :
       [r EXCEPT !.status = "completed", !.hash = TRUE, !.fee = fee] \in Row
  /\ \A r \in Row : [r EXCEPT !.status = "failed", !.hash = FALSE] \in Row
<1>1. ASSUME NEW r \in Row
      PROVE  /\ \A n \in Nat : [r EXCEPT !.amount = n] \in Row
             /\ \A fee \in {0, WITHDRAWAL_FEE_USD} :
                  [r EXCEPT !.status = "completed", !.hash = TRUE, !.fee = fee] \in Row
             /\ [r EXCEPT !.status = "failed", !.hash = FALSE] \in Row
  BY <1>1 DEF Row
<1>2. NoRow \in Row
  BY DEF NoRow, Row
<1>3. \A n \in Nat : [NoRow EXCEPT !.status = "pending", !.amount = n] \in Row
  BY DEF NoRow, Row
<1> QED
  BY <1>1, <1>2, <1>3

LEMMA NextTypeOK == TypeOK /\ [Next]_vars => TypeOK'
<1> SUFFICES ASSUME TypeOK, [Next]_vars
             PROVE  TypeOK'
  OBVIOUS
<1>0. env' = env
  BY DEF Next, vars
<1> USE <1>0, Constants DEF TypeOK, Goto
<1>1. ASSUME NEW w \in Withdraw, CreateInsert(w)
      PROVE  TypeOK'
  <2> DEFINE row == [NoRow EXCEPT !.status = "pending", !.amount = Amount[w]]
  <2>1. row \in Row
    BY RowUpdates
  <2>2. /\ rows' = [rows EXCEPT ![w] = row] \/ rows' = rows
        /\ entity' = [entity EXCEPT ![w] = row] \/ entity' = entity
        /\ pc'= [pc EXCEPT ![w] = "balance"] \/ pc' = [pc EXCEPT ![w] = "done"]
        /\ UNCHANGED <<bal, inFlight, paid, cost, crashes>>
    BY <1>1 DEF CreateInsert
  <2> QED
    BY <2>1, <2>2
<1>2. ASSUME NEW w \in Withdraw, BalanceSOL(w)
      PROVE  TypeOK'
  <2>1. \A d \in DollarInSol :
          WITHDRAWAL_FEE_USD * d \in Nat /\ Adjusted(WITHDRAWAL_FEE_USD * d) \in Int
    BY FeeInSol DEF Adjusted, Asset
  <2>2. /\ \/ cost' = cost
           \/ \E d \in DollarInSol :
                cost' = [cost EXCEPT ![w] = [fee |-> WITHDRAWAL_FEE_USD * d, sol |-> NetworkFee]]
        /\ \/ entity' = entity
           \/ \E d \in DollarInSol :
                /\ Adjusted(WITHDRAWAL_FEE_USD * d) > 0
                /\ entity' = [entity EXCEPT ![w].amount = Adjusted(WITHDRAWAL_FEE_USD * d)]
        /\ pc'= [pc EXCEPT ![w] = "send"] \/ pc' = [pc EXCEPT ![w] = "catch"]
        /\ UNCHANGED <<bal, inFlight, paid, rows, crashes>>
    BY <1>2 DEF BalanceSOL
  <2>3. cost' \in [Withdraw -> [fee : Nat, sol : Nat]]
    BY <2>1, <2>2
  <2>4. entity' \in [Withdraw -> Row]
    <3>1. CASE entity' = entity
      BY <3>1
    <3>2. ASSUME NEW d \in DollarInSol, Adjusted(WITHDRAWAL_FEE_USD * d) > 0,
                 entity' = [entity EXCEPT ![w].amount = Adjusted(WITHDRAWAL_FEE_USD * d)]
          PROVE  entity' \in [Withdraw -> Row]
      <4> DEFINE n == Adjusted(WITHDRAWAL_FEE_USD * d)
      <4>1. n \in Nat
        BY <2>1, <3>2
      <4>2. [entity[w] EXCEPT !.amount = n] \in Row
        BY <4>1, RowUpdates
      <4> QED
        BY <3>2, <4>2
    <3> QED
      BY <2>2, <3>1, <3>2
  <2> QED
    BY <2>2, <2>3, <2>4
<1>3. ASSUME NEW w \in Withdraw, BalanceSPL(w)
      PROVE  TypeOK'
  <2>1. /\ \/ cost' = cost
           \/ \E fee \in {0, WITHDRAWAL_FEE_USD}, sol \in {NetworkFee, NetworkFee + Rent} :
                cost' = [cost EXCEPT ![w] = [fee |-> fee, sol |-> sol]]
        /\ pc'= [pc EXCEPT ![w] = "send"] \/ pc' = [pc EXCEPT ![w] = "catch"]
        /\ UNCHANGED <<bal, inFlight, paid, entity, rows, crashes>>
    BY <1>3 DEF BalanceSPL
  <2>2. \/ cost' = cost
        \/ \E fee, sol \in Nat : cost' = [cost EXCEPT ![w] = [fee |-> fee, sol |-> sol]]
    BY <2>1
  <2>3. cost' \in [Withdraw -> [fee : Nat, sol : Nat]]
    BY <2>2
  <2> QED
    BY <2>1, <2>3
<1>4. ASSUME NEW w \in Withdraw, Send(w)
      PROVE  TypeOK'
  BY <1>4 DEF Send
<1>5. ASSUME NEW w \in Withdraw, Confirm(w)
      PROVE  TypeOK'
  BY <1>5 DEF Confirm
<1>6. ASSUME NEW w \in Withdraw, Save(w)
      PROVE  TypeOK'
  <2> DEFINE e == [entity[w] EXCEPT !.status = "completed", !.hash = TRUE,
                     !.fee = IF HasFee(w) THEN WITHDRAWAL_FEE_USD ELSE 0]
  <2>1. e \in Row
    BY RowUpdates
  <2>2. /\ entity' = [entity EXCEPT ![w] = e]
        /\ rows' = [rows EXCEPT ![w] = e] \/ rows' = rows
        /\ pc'= [pc EXCEPT ![w] = "done"] \/ pc' = [pc EXCEPT ![w] = "catch"]
        /\ UNCHANGED <<bal, inFlight, paid, cost, crashes>>
    BY <1>6 DEF Save
  <2> QED
    BY <2>1, <2>2
<1>7. ASSUME NEW w \in Withdraw, Catch(w)
      PROVE  TypeOK'
  <2> DEFINE e == [entity[w] EXCEPT !.status = "failed", !.hash = FALSE]
  <2>1. e \in Row
    BY RowUpdates
  <2>2. /\ entity' = [entity EXCEPT ![w] = e]
        /\ rows' = [rows EXCEPT ![w] = e] \/ rows' = rows
        /\ pc' = [pc EXCEPT ![w] = "done"]
        /\ UNCHANGED <<bal, inFlight, paid, cost, crashes>>
    BY <1>7 DEF Catch
  <2> QED
    BY <2>1, <2>2
<1>8. ASSUME NEW w \in Withdraw, Land(w)
      PROVE  TypeOK'
  <2>1. CASE Covered(w) /\ bal' = [a \in Asset |-> bal[a] - Takes(w)[a]]
    <3>1. \A a \in Asset : bal[a] - Takes(w)[a] \in Nat
      BY <2>1, TakesType DEF Covered
    <3>2. entity[w].amount \in Nat
      BY DEF Row
    <3> QED
      BY <1>8, <2>1, <3>1, <3>2 DEF Land
  <2>2. CASE UNCHANGED <<bal, paid>>
    BY <1>8, <2>2 DEF Land
  <2> QED
    BY <1>8, <2>1, <2>2 DEF Land
<1>9. ASSUME Crash
      PROVE  TypeOK'
  BY <1>9, EnvironmentType DEF Crash
<1>10. CASE UNCHANGED vars
  BY <1>10 DEF vars, moving
<1> QED
  BY <1>1, <1>2, <1>3, <1>4, <1>5, <1>6, <1>7, <1>8, <1>9, <1>10 DEF Next, Step

LEMMA InitTypeOK == Init => TypeOK
BY RequestsAssumption, Constants, EnvironmentType DEF Init, TypeOK, Row, NoRow, Nothing

\* Every variable keeps its type; in particular no interleaving of withdrawals
\* overdraws the wallet.
THEOREM TypeCorrect == Spec => []TypeOK
BY InitTypeOK, NextTypeOK, PTL DEF Spec

-----------------------------------------------------------------------------
(* What is shown was paid.                                                 *)

\* Of one request: what its transaction moved is what it holds, and it names a
\* fee or calls itself completed only when that was moved.
PaidInvOf(w) ==
  /\ pc[w] \in {"idle", "balance", "send"} => /\ paid[w] = Nothing
                                              /\ w \notin inFlight
                                              /\ rows[w].status \in {"none", "pending"}
  /\ w \in inFlight => paid[w] = Nothing /\ pc[w] # "save"
  /\ paid[w] # Nothing => /\ paid[w].amount = entity[w].amount
                          /\ paid[w].fee = cost[w].fee
  /\ pc[w] \in {"balance", "send", "confirm", "save"} \/ w \in inFlight \/ paid[w] # Nothing
       => entity[w].amount > 0
  /\ pc[w] \in {"send", "confirm", "save"} \/ w \in inFlight \/ paid[w] # Nothing
       => (HasFee(w) => cost[w].fee > 0)
  /\ pc[w] = "save" => paid[w] # Nothing
  /\ entity[w].fee > 0 \/ rows[w].fee > 0 => paid[w] # Nothing /\ HasFee(w)
  /\ rows[w].status = "completed" => /\ paid[w] # Nothing
                                     /\ rows[w].amount = entity[w].amount
                                     /\ pc[w] = "done"

PaidInv == \A w \in Withdraw : PaidInvOf(w)

\* What the updates of an entity change and keep.
LEMMA RowFields ==
  ASSUME NEW r \in Row
  PROVE  /\ r.amount \in Nat
         /\ r.fee \in Nat
         /\ \A n : /\ [r EXCEPT !.amount = n].amount = n
                  /\ [r EXCEPT !.amount = n].fee = r.fee
         /\ \A fee : LET e == [r EXCEPT !.status = "completed", !.hash = TRUE, !.fee = fee]
                     IN  e.amount = r.amount /\ e.fee = fee
         /\ LET e == [r EXCEPT !.status = "failed", !.hash = FALSE]
            IN  e.amount = r.amount /\ e.fee = r.fee /\ e.status = "failed"
BY Constants DEF Row

LEMMA NextPaidInv == TypeOK /\ PaidInv /\ [Next]_vars => PaidInv'
<1> SUFFICES ASSUME TypeOK, PaidInv, [Next]_vars, NEW v \in Withdraw
             PROVE  PaidInvOf(v)'
  BY DEF PaidInv
<1>0. /\ PaidInvOf(v)
      /\ rows[v].amount \in Nat /\ entity[v].amount \in Nat
      /\ rows[v].fee \in Nat /\ entity[v].fee \in Nat
  <2>1. rows[v] \in Row /\ entity[v] \in Row
    BY DEF TypeOK
  <2> QED
    BY <2>1, RowFields DEF PaidInv
<1> USE <1>0, Constants DEF TypeOK, PaidInvOf, Goto, HasFee
<1>1. ASSUME NEW w \in Withdraw, CreateInsert(w)
      PROVE  PaidInvOf(v)'
  <2> DEFINE row == [NoRow EXCEPT !.status = "pending", !.amount = Amount[w]]
  <2>1. row.status = "pending" /\ row.amount > 0 /\ row.fee = 0
    BY DEF NoRow
  <2>2. /\ pc[w] = "idle"
        /\ \/ /\ rows' = [rows EXCEPT ![w] = row]
              /\ entity' = [entity EXCEPT ![w] = row]
              /\ pc' = [pc EXCEPT ![w] = IF Symbol[w] \in Asset THEN "balance" ELSE "done"]
           \/ /\ pc' = [pc EXCEPT ![w] = "done"]
              /\ UNCHANGED <<rows, entity>>
        /\ UNCHANGED <<inFlight, paid, cost>>
    BY <1>1 DEF CreateInsert
  <2> HIDE DEF row
  <2> QED
    BY <2>1, <2>2
<1>2. ASSUME NEW w \in Withdraw, BalanceSOL(w)
      PROVE  PaidInvOf(v)'
  <2>1. CASE v # w
    BY <1>2, <2>1 DEF BalanceSOL
  <2>2. CASE v = w
    <3>1. /\ pc[v] = "balance"
          /\ paid'[v] = Nothing
          /\ v \notin inFlight'
          /\ rows' = rows
          /\ ~(entity[v].fee > 0) /\ ~(rows[v].fee > 0)
      BY <1>2, <2>2 DEF BalanceSOL
    <3>2. ASSUME NEW d \in DollarInSol,
                 cost' = [cost EXCEPT ![w] = [fee |-> WITHDRAWAL_FEE_USD * d, sol |-> NetworkFee]]
          PROVE  cost'[v].fee > 0
      BY <2>2, <3>2, FeeInSol
    <3>3. \A n : /\ [entity[w] EXCEPT !.amount = n].amount = n
                 /\ [entity[w] EXCEPT !.amount = n].fee = entity[w].fee
      <4>1. entity[w] \in Row
        OBVIOUS
      <4> QED
        BY <4>1, RowFields
    <3>4. /\ entity'[v].amount > 0
          /\ entity'[v].fee = entity[v].fee
          /\ pc'[v] \in {"send", "catch"}
          /\ pc'[v] = "send" => cost'[v].fee > 0
      <4>1. ASSUME NEW d \in DollarInSol, Adjusted(WITHDRAWAL_FEE_USD * d) > 0,
                   entity' = [entity EXCEPT ![w].amount = Adjusted(WITHDRAWAL_FEE_USD * d)]
            PROVE  entity'[v].amount > 0 /\ entity'[v].fee = entity[v].fee
        <5> DEFINE n == Adjusted(WITHDRAWAL_FEE_USD * d)
        <5>1. entity'[v] = [entity[w] EXCEPT !.amount = n]
          BY <2>2, <4>1
        <5> HIDE DEF n
        <5> QED
          BY <2>2, <3>3, <4>1, <5>1 DEF n
      <4>2. entity' = entity => entity'[v].amount > 0 /\ entity'[v].fee = entity[v].fee
        BY <3>1
      <4>3. /\ \/ entity' = entity
               \/ \E d \in DollarInSol :
                    /\ Adjusted(WITHDRAWAL_FEE_USD * d) > 0
                    /\ entity' = [entity EXCEPT ![w].amount = Adjusted(WITHDRAWAL_FEE_USD * d)]
            /\ \/ pc' = [pc EXCEPT ![w] = "catch"]
               \/ /\ pc' = [pc EXCEPT ![w] = "send"]
                  /\ \E d \in DollarInSol :
                       cost' = [cost EXCEPT ![w] = [fee |-> WITHDRAWAL_FEE_USD * d,
                                                    sol |-> NetworkFee]]
        BY <1>2 DEF BalanceSOL
      <4> QED
        BY <2>2, <3>2, <4>1, <4>2, <4>3
    <3> QED
      BY <3>1, <3>4
  <2> QED
    BY <2>1, <2>2
<1>3. ASSUME NEW w \in Withdraw, BalanceSPL(w)
      PROVE  PaidInvOf(v)'
  BY <1>3 DEF BalanceSPL
<1>4. ASSUME NEW w \in Withdraw, Send(w)
      PROVE  PaidInvOf(v)'
  BY <1>4 DEF Send
<1>5. ASSUME NEW w \in Withdraw, Confirm(w)
      PROVE  PaidInvOf(v)'
  BY <1>5 DEF Confirm
<1>6. ASSUME NEW w \in Withdraw, Save(w)
      PROVE  PaidInvOf(v)'
  <2> DEFINE e == [entity[w] EXCEPT !.status = "completed", !.hash = TRUE,
                     !.fee = IF HasFee(w) THEN WITHDRAWAL_FEE_USD ELSE 0]
  <2>1. /\ e.amount = entity[w].amount
        /\ e.fee = IF HasFee(w) THEN WITHDRAWAL_FEE_USD ELSE 0
    <3>1. entity[w] \in Row
      OBVIOUS
    <3> QED
      BY <3>1, RowFields
  <2>2. /\ pc[w] = "save"
        /\ entity' = [entity EXCEPT ![w] = e]
        /\ \/ rows' = [rows EXCEPT ![w] = e] /\ pc' = [pc EXCEPT ![w] = "done"]
           \/ UNCHANGED rows /\ pc' = [pc EXCEPT ![w] = "catch"]
        /\ UNCHANGED <<inFlight, paid, cost>>
    BY <1>6 DEF Save
  <2> HIDE DEF e
  <2> QED
    BY <2>1, <2>2
<1>7. ASSUME NEW w \in Withdraw, Catch(w)
      PROVE  PaidInvOf(v)'
  <2> DEFINE e == [entity[w] EXCEPT !.status = "failed", !.hash = FALSE]
  <2>1. e.amount = entity[w].amount /\ e.fee = entity[w].fee /\ e.status = "failed"
    <3>1. entity[w] \in Row
      OBVIOUS
    <3> QED
      BY <3>1, RowFields
  <2>2. /\ pc[w] = "catch"
        /\ entity' = [entity EXCEPT ![w] = e]
        /\ rows' = [rows EXCEPT ![w] = e] \/ UNCHANGED rows
        /\ pc' = [pc EXCEPT ![w] = "done"]
        /\ UNCHANGED <<inFlight, paid, cost>>
    BY <1>7 DEF Catch
  <2> HIDE DEF e
  <2> QED
    BY <2>1, <2>2
<1>8. ASSUME NEW w \in Withdraw, Land(w)
      PROVE  PaidInvOf(v)'
  BY <1>8 DEF Land, Nothing
<1>9. ASSUME Crash
      PROVE  PaidInvOf(v)'
  BY <1>9 DEF Crash
<1>10. CASE UNCHANGED vars
  BY <1>10 DEF vars, moving
<1> QED
  BY <1>1, <1>2, <1>3, <1>4, <1>5, <1>6, <1>7, <1>8, <1>9, <1>10 DEF Next, Step

\* What the history shows left the wallet with the amount it is shown with, and a
\* row that names a fee had it taken, whatever fails and however requests and
\* restarts interleave: the outcome is saved after the confirmation, and from the
\* entity that was cut down.
THEOREM RecordedIsPaidHolds == Spec => []RecordedIsPaid
<1>1. Init => PaidInv
  <2>1. NoRow.status = "none" /\ ~(NoRow.fee > 0)
    BY DEF NoRow
  <2> QED
    BY <2>1 DEF Init, PaidInv, PaidInvOf
<1>2. ASSUME TypeOK, PaidInv
      PROVE  RecordedIsPaid
  <2> SUFFICES ASSUME NEW w \in Withdraw
               PROVE  /\ rows[w].status = "completed" => /\ paid[w] # Nothing
                                                         /\ rows[w].amount = paid[w].amount
                      /\ rows[w].fee > 0 => paid[w].fee > 0
    BY DEF RecordedIsPaid, History
  <2> QED
    BY <1>2 DEF PaidInv, PaidInvOf
<1> QED
  BY InitTypeOK, NextTypeOK, NextPaidInv, <1>1, <1>2, PTL DEF Spec

-----------------------------------------------------------------------------
(* What failed was not paid.                                               *)

\* Who is about to be FAILED, or is, neither moved anything nor will.
UnpaidInvOf(w) ==
  /\ rows[w].status = "failed" => pc[w] = "done"
  /\ ~LostAnswers /\ ~DbFaults =>
       (pc[w] = "catch" \/ rows[w].status = "failed" => paid[w] = Nothing /\ w \notin inFlight)

UnpaidInv == \A w \in Withdraw : UnpaidInvOf(w)

LEMMA NextUnpaidInv == TypeOK /\ PaidInv /\ UnpaidInv /\ [Next]_vars => UnpaidInv'
<1> SUFFICES ASSUME TypeOK, PaidInv, UnpaidInv, [Next]_vars, NEW v \in Withdraw
             PROVE  UnpaidInvOf(v)'
  BY DEF UnpaidInv
<1>0. /\ PaidInvOf(v) /\ UnpaidInvOf(v)
      /\ env' = env
  BY DEF PaidInv, UnpaidInv, Next, vars
<1> USE <1>0 DEF TypeOK, PaidInvOf, UnpaidInvOf, Goto, LostAnswers, DbFaults
<1>1. ASSUME NEW w \in Withdraw, CreateInsert(w)
      PROVE  UnpaidInvOf(v)'
  <2> DEFINE row == [NoRow EXCEPT !.status = "pending", !.amount = Amount[w]]
  <2>1. row.status # "failed"
    BY DEF NoRow
  <2>2. /\ pc[w] = "idle"
        /\ rows' = [rows EXCEPT ![w] = row] \/ rows' = rows
        /\ pc' = [pc EXCEPT ![w] = "balance"] \/ pc' = [pc EXCEPT ![w] = "done"]
        /\ UNCHANGED <<inFlight, paid>>
    BY <1>1 DEF CreateInsert
  <2> HIDE DEF row
  <2> QED
    BY <2>1, <2>2
<1>2. ASSUME NEW w \in Withdraw, BalanceSOL(w)
      PROVE  UnpaidInvOf(v)'
  BY <1>2 DEF BalanceSOL
<1>3. ASSUME NEW w \in Withdraw, BalanceSPL(w)
      PROVE  UnpaidInvOf(v)'
  BY <1>3 DEF BalanceSPL
<1>4. ASSUME NEW w \in Withdraw, Send(w)
      PROVE  UnpaidInvOf(v)'
  BY <1>4 DEF Send
<1>5. ASSUME NEW w \in Withdraw, Confirm(w)
      PROVE  UnpaidInvOf(v)'
  BY <1>5 DEF Confirm
<1>6. ASSUME NEW w \in Withdraw, Save(w)
      PROVE  UnpaidInvOf(v)'
  <2> DEFINE e == [entity[w] EXCEPT !.status = "completed", !.hash = TRUE,
                     !.fee = IF HasFee(w) THEN WITHDRAWAL_FEE_USD ELSE 0]
  <2>1. e.status # "failed"
    <3>1. entity[w] \in Row
      OBVIOUS
    <3> QED
      BY <3>1 DEF Row
  <2>2. /\ pc[w] = "save"
        /\ \/ rows' = [rows EXCEPT ![w] = e] /\ pc' = [pc EXCEPT ![w] = "done"]
           \/ DbFaults /\ UNCHANGED rows /\ pc' = [pc EXCEPT ![w] = "catch"]
        /\ UNCHANGED <<inFlight, paid>>
    BY <1>6 DEF Save
  <2> HIDE DEF e
  <2> QED
    BY <2>1, <2>2
<1>7. ASSUME NEW w \in Withdraw, Catch(w)
      PROVE  UnpaidInvOf(v)'
  BY <1>7 DEF Catch
<1>8. ASSUME NEW w \in Withdraw, Land(w)
      PROVE  UnpaidInvOf(v)'
  BY <1>8 DEF Land
<1>9. ASSUME Crash
      PROVE  UnpaidInvOf(v)'
  BY <1>9 DEF Crash
<1>10. CASE UNCHANGED vars
  BY <1>10 DEF vars, moving
<1> QED
  BY <1>1, <1>2, <1>3, <1>4, <1>5, <1>6, <1>7, <1>8, <1>9, <1>10 DEF Next, Step

Active(w) == pc[w] \notin {"idle", "done"}

\* One at a time: while a request is at work no other is, and no other's
\* transaction is on its way.
AloneInv ==
  Serial => /\ \A v, w \in Withdraw : Active(v) /\ Active(w) => v = w
            /\ \A w \in Withdraw : Active(w) => inFlight \subseteq {w}

LEMMA NextAloneInv == TypeOK /\ AloneInv /\ [Next]_vars => AloneInv'
<1> SUFFICES ASSUME TypeOK, AloneInv, [Next]_vars
             PROVE  AloneInv'
  OBVIOUS
<1>0. env' = env
  BY DEF Next, vars
<1> USE <1>0 DEF TypeOK, AloneInv, Active, Serial, Goto
<1>1. ASSUME NEW w \in Withdraw, CreateInsert(w)
      PROVE  AloneInv'
  BY <1>1 DEF CreateInsert, Underway
<1>2. ASSUME NEW w \in Withdraw, Step(w)
      PROVE  AloneInv'
  <2>1. /\ pc' = [pc EXCEPT ![w] = pc'[w]]
        /\ Active(w)
        /\ inFlight' \subseteq inFlight \cup {w}
    BY <1>2 DEF Step, BalanceSOL, BalanceSPL, Send, Confirm, Save, Catch
  <2> QED
    BY <2>1
<1>3. ASSUME NEW w \in Withdraw, Land(w)
      PROVE  AloneInv'
  BY <1>3 DEF Land
<1>4. ASSUME Crash
      PROVE  AloneInv'
  BY <1>4 DEF Crash
<1>5. CASE UNCHANGED vars
  BY <1>5 DEF vars, moving
<1> QED
  BY <1>1, <1>2, <1>3, <1>4, <1>5 DEF Next

\* The reserve of an amount that was cut down covers the rent.
LEMMA CutIsCovered ==
  ASSUME TypeOK, NEW w \in Withdraw, Symbol[w] = "SOL", NEW fee \in Nat,
         bal' = bal, entity'[w].amount = Adjusted(fee),
         cost'[w] = [fee |-> fee, sol |-> NetworkFee]
  PROVE  Covered(w)'
<1>1. Takes(w)' = [a \in Asset |-> IF a = "SOL" THEN Adjusted(fee) + fee + NetworkFee ELSE 0]
  BY Constants DEF Takes, Adjusted, Asset, TypeOK
<1>2. \A a \in Asset : bal[a] \in Nat
  BY DEF TypeOK
<1>3. Takes(w)'["SOL"] = bal["SOL"] - TRANSACTION_FEE - Reserve + NetworkFee
  BY <1>1, <1>2, Constants DEF Adjusted, Asset
<1>4. \A a \in Asset : bal[a] >= Takes(w)'[a]
  BY <1>1, <1>2, <1>3, Constants DEF Asset
<1>5. bal["SOL"] - Takes(w)'["SOL"] >= Rent
  BY <1>2, <1>3, Constants DEF Asset
<1> QED
  BY <1>4, <1>5 DEF Covered

LEMMA CoveredSame ==
  ASSUME NEW w \in Withdraw, bal' = bal, entity'[w] = entity[w], cost'[w] = cost[w]
  PROVE  Covered(w)' <=> Covered(w)
BY DEF Covered, Takes

\* One at a time and without faults: what was cut down goes through.
CutInvOf(w) ==
  /\ pc[w] \in {"balance", "catch"} => entity[w].amount = Amount[w]
  /\ pc[w] = "send" => entity[w].amount = Amount[w] \/ Covered(w)
  /\ pc[w] = "confirm" => \/ entity[w].amount = Amount[w]
                          \/ paid[w] # Nothing
                          \/ w \in inFlight /\ Covered(w)
  /\ rows[w].status = "failed" => rows[w].amount = Amount[w]

CutInv == Serial /\ NoFaults => \A w \in Withdraw : CutInvOf(w)

LEMMA NextCutInv ==
  TypeOK /\ PaidInv /\ UnpaidInv /\ AloneInv /\ CutInv /\ [Next]_vars => CutInv'
<1> SUFFICES ASSUME TypeOK, PaidInv, UnpaidInv, AloneInv, CutInv, [Next]_vars,
                    Serial, NoFaults, NEW v \in Withdraw
             PROVE  CutInvOf(v)'
  BY DEF CutInv, Serial, NoFaults, LostAnswers, ChainFaults, DbFaults, Next, vars
<1>0. /\ PaidInvOf(v) /\ UnpaidInvOf(v) /\ CutInvOf(v)
      /\ ~LostAnswers /\ ~ChainFaults /\ ~DbFaults
      /\ ~(crashes < env.maxCrashes)
  BY EnvironmentType DEF PaidInv, UnpaidInv, CutInv, NoFaults, TypeOK
<1>1. ASSUME NEW w \in Withdraw, CreateInsert(w)
      PROVE  CutInvOf(v)'
  <2> DEFINE row == [NoRow EXCEPT !.status = "pending", !.amount = Amount[w]]
  <2>1. row.status # "failed" /\ row.amount = Amount[w]
    BY DEF NoRow
  <2>2. /\ pc[w] = "idle"
        /\ \/ /\ rows' = [rows EXCEPT ![w] = row]
              /\ entity' = [entity EXCEPT ![w] = row]
           \/ UNCHANGED <<rows, entity>> /\ pc' = [pc EXCEPT ![w] = "done"]
        /\ pc' = [pc EXCEPT ![w] = "balance"] \/ pc' = [pc EXCEPT ![w] = "done"]
        /\ UNCHANGED <<bal, inFlight, paid, cost>>
    BY <1>1 DEF CreateInsert, Goto
  <2> HIDE DEF row
  <2>3. v # w => (Covered(v)' <=> Covered(v))
    BY <2>2, CoveredSame DEF TypeOK
  <2> QED
    BY <1>0, <2>1, <2>2, <2>3 DEF CutInvOf, UnpaidInvOf, TypeOK
<1>2. ASSUME NEW w \in Withdraw, Step(w)
      PROVE  CutInvOf(v)'
  <2>1. CASE v # w
    <3>1. /\ ~Active(v)
          /\ pc'[v] = pc[v]
          /\ rows'[v] = rows[v]
      BY <1>2, <2>1 DEF Step, BalanceSOL, BalanceSPL, Send, Confirm, Save, Catch, Goto,
                        AloneInv, Active, TypeOK
    <3> QED
      BY <1>0, <3>1 DEF CutInvOf, Active
  <2>2. ASSUME v = w, BalanceSOL(w)
        PROVE  CutInvOf(v)'
    <3>1. /\ pc[w] = "balance" /\ Symbol[w] = "SOL"
          /\ rows' = rows /\ bal' = bal
          /\ rows[w].status # "failed" /\ entity[w].amount = Amount[w]
      BY <1>0, <2>2 DEF BalanceSOL, CutInvOf, UnpaidInvOf
    <3>2. CASE entity' = entity
      BY <2>2, <3>1, <3>2 DEF BalanceSOL, Goto, CutInvOf, TypeOK
    <3>3. ASSUME NEW d \in DollarInSol, pc' = [pc EXCEPT ![w] = "send"],
                 cost' = [cost EXCEPT ![w] = [fee |-> WITHDRAWAL_FEE_USD * d, sol |-> NetworkFee]],
                 entity' = [entity EXCEPT ![w].amount = Adjusted(WITHDRAWAL_FEE_USD * d)]
          PROVE  CutInvOf(v)'
      <4> DEFINE fee == WITHDRAWAL_FEE_USD * d
      <4>1. fee \in Nat
        BY FeeInSol
      <4>2. /\ pc'[w] = "send"
            /\ cost'[w] = [fee |-> fee, sol |-> NetworkFee]
            /\ entity'[w] = [entity[w] EXCEPT !.amount = Adjusted(fee)]
            /\ entity[w] \in Row
        BY <3>3 DEF TypeOK
      <4> HIDE DEF fee
      <4>3. entity'[w].amount = Adjusted(fee)
        BY <4>2, RowFields
      <4>4. Covered(w)'
        BY <3>1, <4>1, <4>2, <4>3, CutIsCovered
      <4> QED
        BY <2>2, <3>1, <4>2, <4>4 DEF CutInvOf
    <3>4. \/ entity' = entity
          \/ /\ pc' = [pc EXCEPT ![w] = "send"]
             /\ \E d \in DollarInSol :
                  /\ cost' = [cost EXCEPT ![w] = [fee |-> WITHDRAWAL_FEE_USD * d,
                                                  sol |-> NetworkFee]]
                  /\ entity' = [entity EXCEPT ![w].amount = Adjusted(WITHDRAWAL_FEE_USD * d)]
      BY <2>2 DEF BalanceSOL, Goto
    <3> QED
      BY <3>2, <3>3, <3>4
  <2>3. ASSUME v = w, BalanceSPL(w)
        PROVE  CutInvOf(v)'
    BY <1>0, <2>3 DEF BalanceSPL, Goto, CutInvOf, TypeOK, UnpaidInvOf
  <2>4. ASSUME v = w, Send(w)
        PROVE  CutInvOf(v)'
    <3>1. Covered(w)' <=> Covered(w)
      BY <2>4, CoveredSame DEF Send
    <3> QED
      BY <1>0, <2>4, <3>1 DEF Send, Goto, CutInvOf, TypeOK, UnpaidInvOf
  <2>5. ASSUME v = w, Confirm(w)
        PROVE  CutInvOf(v)'
    BY <1>0, <2>5 DEF Confirm, Goto, CutInvOf, TypeOK, UnpaidInvOf
  <2>6. ASSUME v = w, Save(w)
        PROVE  CutInvOf(v)'
    <3> DEFINE e == [entity[w] EXCEPT !.status = "completed", !.hash = TRUE,
                       !.fee = IF HasFee(w) THEN WITHDRAWAL_FEE_USD ELSE 0]
    <3>1. e.status # "failed"
      <4>1. entity[w] \in Row
        BY DEF TypeOK
      <4> QED
        BY <4>1 DEF Row
    <3>2. rows' = [rows EXCEPT ![w] = e] /\ pc' = [pc EXCEPT ![w] = "done"]
      BY <1>0, <2>6 DEF Save, Goto
    <3> HIDE DEF e
    <3> QED
      BY <2>6, <3>1, <3>2 DEF CutInvOf, TypeOK
  <2>7. ASSUME v = w, Catch(w)
        PROVE  CutInvOf(v)'
    <3> DEFINE e == [entity[w] EXCEPT !.status = "failed", !.hash = FALSE]
    <3>1. e.amount = entity[w].amount
      <4>1. entity[w] \in Row
        BY DEF TypeOK
      <4> QED
        BY <4>1, RowFields
    <3>2. /\ pc[w] = "catch"
          /\ rows' = [rows EXCEPT ![w] = e]
          /\ pc' = [pc EXCEPT ![w] = "done"]
      BY <1>0, <2>7 DEF Catch, Goto
    <3> HIDE DEF e
    <3> QED
      BY <1>0, <2>7, <3>1, <3>2 DEF CutInvOf, TypeOK
  <2> QED
    BY <1>2, <2>1, <2>2, <2>3, <2>4, <2>5, <2>6, <2>7 DEF Step
<1>3. ASSUME NEW w \in Withdraw, Land(w)
      PROVE  CutInvOf(v)'
  <2>1. CASE v = w
    <3>1. /\ paid[w] = Nothing
          /\ pc[w] \in {"confirm", "done"}
          /\ entity[w].amount > 0
          /\ UNCHANGED <<pc, entity, rows>>
      BY <1>0, <1>3, <2>1 DEF Land, PaidInvOf, UnpaidInvOf, TypeOK
    <3>2. CASE Covered(w) /\ paid' = [paid EXCEPT ![w] = [amount |-> entity[w].amount,
                                                         fee    |-> cost[w].fee]]
      <4>1. paid'[w] # Nothing
        BY <3>1, <3>2 DEF Nothing, TypeOK
      <4> QED
        BY <1>0, <2>1, <3>1, <4>1 DEF CutInvOf
    <3>3. CASE ~Covered(w)
      BY <1>0, <2>1, <3>1, <3>3 DEF CutInvOf
    <3> QED
      BY <1>0, <1>3, <3>2, <3>3 DEF Land
  <2>2. CASE v # w
    <3>1. ~Active(v)
      BY <1>3, <2>2 DEF AloneInv, Active, Land
    <3> QED
      BY <1>0, <1>3, <3>1 DEF Land, CutInvOf, Active
  <2> QED
    BY <2>1, <2>2
<1>4. ~Crash
  BY <1>0 DEF Crash
<1>5. CASE UNCHANGED vars
  BY <1>0, <1>5 DEF vars, moving, CutInvOf, Covered, Takes
<1> QED
  BY <1>1, <1>2, <1>3, <1>4, <1>5 DEF Next

\* A FAILED withdrawal did not and will not leave the wallet as long as answers
\* arrive and saves work; and one at a time, what was cut down to the balance does
\* not fail, as the reserve covers the rent.
THEOREM FailedIsJustifiedHolds == Spec => []FailedIsJustified
<1>1. Init => PaidInv /\ UnpaidInv /\ AloneInv /\ CutInv
  <2>1. NoRow.status = "none" /\ ~(NoRow.fee > 0)
    BY DEF NoRow
  <2> QED
    BY <2>1 DEF Init, PaidInv, PaidInvOf, UnpaidInv, UnpaidInvOf, AloneInv, Active,
                CutInv, CutInvOf
<1>2. ASSUME UnpaidInv, CutInv
      PROVE  FailedIsJustified
  BY <1>2 DEF UnpaidInv, UnpaidInvOf, CutInv, CutInvOf, FailedIsJustified
<1> QED
  BY InitTypeOK, NextTypeOK, NextPaidInv, NextUnpaidInv, NextAloneInv, NextCutInv,
     <1>1, <1>2, PTL DEF Spec

-----------------------------------------------------------------------------
(* All of WalletsAndSale.                                                  *)

\* Withdrawals, gateway and rounds of the sale at once: every variable keeps its
\* type.
THEOREM WalletsTypeCorrect ==
  ASSUME GatewayAssumptions, RoundsAssumptions
  PROVE  WalletsSpec => []WalletsTypeOK
<1>1. TypeOK /\ Gateway!TypeOK /\ Rounds!TypeOK => WalletsTypeOK
  BY DEF WalletsTypeOK
<1> QED
  BY <1>1, TypeCorrect, GatewayTypeCorrect, RoundsTypeCorrect, PTL DEF WalletsSpec
=============================================================================
