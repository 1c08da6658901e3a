-------------------------- MODULE SwapOrdersProofs --------------------------
(***************************************************************************)
(* Theorems about SwapOrders for any sets of orders and calls, any number  *)
(* of restarts, and whichever faults are allowed.                          *)
(***************************************************************************)
EXTENDS SwapOrders, TLAPS

\* The rows that are written as such are rows.
LEMMA RowTypes ==
  /\ NoRow \in Row
  /\ PendingRow \in Row
  /\ PendingRow = [status |-> "pending", tx_hash_send |-> None,
                   tx_hash_ref |-> None]
BY DEF NoRow, PendingRow, Row, Status

\* What a save writes is a row.
LEMMA UpdatedType ==
  ASSUME NEW r \in Row, NEW n \in Row, NEW b \in Row
  PROVE  Updated(r, n, b) \in Row
BY DEF Updated, Row

LEMMA FailedType ==
  ASSUME NEW r \in Row
  PROVE  /\ Failed(r) \in Row
         /\ Failed(r).status = "failed"
         /\ Failed(r).tx_hash_send = r.tx_hash_send
         /\ Failed(r).tx_hash_ref = r.tx_hash_ref
BY DEF Failed, Row, Status

LEMMA CompletedType ==
  ASSUME NEW h \in Handler, Payment(h) \in Transfer \cup {None}
  PROVE  CompletedRow(h) \in Row
BY DEF CompletedRow, Row, Status

LEMMA PaymentType ==
  ASSUME signature \in [Call -> Transfer \cup {None}], NEW h \in Handler
  PROVE  Payment(h) \in Transfer \cup {None}
BY DEF Payment, Handler, Transfer

\* A completeWeb3Wallet call that has started, and only such a call, has an
\* order and may have delivered.
Started ==
  \A c \in Call : /\ pc[c] # "idle" => target[c] \in Order
                  /\ c \in delivered => pc[c] # "idle"

TypeInv == TypeOK /\ Started

\* The order of a handler that has started is an order.
LEMMA OrderOfType ==
  ASSUME TypeInv, NEW h \in Handler, pc[h] # "idle"
  PROVE  OrderOf(h) \in Order
BY DEF OrderOf, Handler, Order, TypeInv, Started

LEMMA InitTypeInv == Init => TypeInv
BY RowTypes, FaultAssumption
   DEF Init, TypeInv, TypeOK, Started, Label, Resting, Handler

LEMMA NextTypeInv == TypeInv /\ [Next]_vars => TypeInv'
<1> SUFFICES ASSUME TypeInv, [Next]_vars
             PROVE  TypeInv'
  OBVIOUS
<1> USE RowTypes, UpdatedType, FailedType, CompletedType, PaymentType,
        OrderOfType, OrdersAssumption
        DEF TypeInv, TypeOK, Started, Goto, Label, Resting
<1>1. ASSUME NEW o \in Order, CreateValidate(o)
      PROVE  TypeInv'
  BY <1>1 DEF CreateValidate, Order, Handler
<1>2. ASSUME NEW o \in Order, CreatePrice(o)
      PROVE  TypeInv'
  BY <1>2 DEF CreatePrice, CalculateUSDValue, Order, Handler
<1>3. ASSUME NEW o \in Order, CreateInsert(o)
      PROVE  TypeInv'
  BY <1>3 DEF CreateInsert, SaveInsert, Order, Handler
<1>4. ASSUME NEW o \in Order, CreateTokenAccount(o)
      PROVE  TypeInv'
  BY <1>4 DEF CreateTokenAccount, Order, Handler
<1>5. ASSUME NEW o \in Order, CreatePay(o)
      PROVE  TypeInv'
  BY <1>5 DEF CreatePay, Order, Handler, Transfer
<1>6. ASSUME NEW o \in Order, CreateDeliver(o)
      PROVE  TypeInv'
  BY <1>6 DEF CreateDeliver, SendOutputTokens, Order, Handler
<1>7. ASSUME NEW o \in Order, CreateComplete(o)
      PROVE  TypeInv'
  BY <1>7 DEF CreateComplete, SaveSelect, Order, Handler
<1>8. ASSUME NEW o \in Order, CreateCompleteUpdate(o)
      PROVE  TypeInv'
  BY <1>8 DEF CreateCompleteUpdate, SaveUpdate, Order, Handler
<1>9. ASSUME NEW o \in Order, CreateReward(o)
      PROVE  TypeInv'
  BY <1>9 DEF CreateReward, RequestReward, Order, Handler
<1>10. ASSUME NEW o \in Order, CreateCatch(o)
      PROVE  TypeInv'
  BY <1>10 DEF CreateCatch, SaveSelect, Order, Handler
<1>11. ASSUME NEW o \in Order, CreateCatchUpdate(o)
      PROVE  TypeInv'
  BY <1>11 DEF CreateCatchUpdate, SaveUpdate, Order, Handler
<1>12. ASSUME NEW o \in Order, InitValidate(o)
      PROVE  TypeInv'
  BY <1>12 DEF InitValidate, Order, Handler
<1>13. ASSUME NEW o \in Order, InitPrice(o)
      PROVE  TypeInv'
  BY <1>13 DEF InitPrice, CalculateUSDValue, Order, Handler
<1>14. ASSUME NEW o \in Order, InitInsert(o)
      PROVE  TypeInv'
  BY <1>14 DEF InitInsert, SaveInsert, Order, Handler
<1>15. ASSUME NEW o \in Order, InitBuild(o)
      PROVE  TypeInv'
  BY <1>15 DEF InitBuild, Order, Handler
<1>16. ASSUME NEW o \in Order, ClientPay(o)
      PROVE  TypeInv'
  BY <1>16 DEF ClientPay, Order, Handler, Transfer
<1>17. ASSUME NEW o \in Order, OrderAges(o)
      PROVE  TypeInv'
  BY <1>17 DEF OrderAges, Order, Handler
<1>18. ASSUME NEW c \in Call, NEW o \in Order, CompleteLoad(c, o)
      PROVE  TypeInv'
  BY <1>18 DEF CompleteLoad, Asks, Order, Handler
<1>19. ASSUME NEW c \in Call, CompleteLookup(c)
      PROVE  TypeInv'
  BY <1>19 DEF CompleteLookup, Accepted, Order, Handler
<1>20. ASSUME NEW c \in Call, CompletePrice(c)
      PROVE  TypeInv'
  BY <1>20 DEF CompletePrice, CalculateUSDValue, Order, Handler
<1>21. ASSUME NEW c \in Call, CompleteDeliver(c)
      PROVE  TypeInv'
  BY <1>21 DEF CompleteDeliver, SendOutputTokens, Order, Handler
<1>22. ASSUME NEW c \in Call, CompleteSave(c)
      PROVE  TypeInv'
  BY <1>22 DEF CompleteSave, SaveSelect, Order, Handler
<1>23. ASSUME NEW c \in Call, CompleteUpdate(c)
      PROVE  TypeInv'
  BY <1>23 DEF CompleteUpdate, SaveUpdate, Order, Handler
<1>24. ASSUME NEW c \in Call, CompleteReward(c)
      PROVE  TypeInv'
  BY <1>24 DEF CompleteReward, RequestReward, Order, Handler
<1>25. ASSUME SweepStart
      PROVE  TypeInv'
  BY <1>25 DEF SweepStart, Expired, SweepEntry, Order, Handler
<1>26. ASSUME NEW e \in sweep, SweepSelect(e)
      PROVE  TypeInv'
  BY <1>26 DEF SweepSelect, SweepEntry, SweepingEntry, Order, Handler
<1>27. ASSUME NEW s \in sweeping, SweepUpdate(s)
      PROVE  TypeInv'
  BY <1>27 DEF SweepUpdate, SweepingEntry, Order, Handler
<1>28. ASSUME SweepAbort
      PROVE  TypeInv'
  BY <1>28 DEF SweepAbort, Order, Handler
<1>29. ASSUME CacheExpires
      PROVE  TypeInv'
  BY <1>29 DEF CacheExpires, Order, Handler
<1>30. ASSUME Crash
      PROVE  TypeInv'
  <2>1. crashes' \in 0..MaxCrashes
    BY <1>30, FaultAssumption DEF Crash
  <2>2. pc' \in [Handler -> Label]
    BY <1>30 DEF Crash
  <2>3. Started'
    BY <1>30 DEF Crash, Handler
  <2> QED
    BY <1>30, <2>1, <2>2, <2>3 DEF Crash
<1>31. CASE UNCHANGED vars
  BY <1>31 DEF vars
<1>32. ASSUME PriceFetched
      PROVE  TypeInv'
  BY <1>32 DEF PriceFetched, Order, Handler
<1>33. ASSUME NEW t \in Elsewhere, OtherPays(t)
      PROVE  TypeInv'
  BY <1>33 DEF OtherPays, Order, Handler, Transfer
<1> QED
  BY <1>1, <1>2, <1>3, <1>4, <1>5, <1>6, <1>7, <1>8, <1>9, <1>10, <1>11, <1>12, <1>13,
     <1>14, <1>15, <1>16, <1>17, <1>18, <1>19, <1>20, <1>21, <1>22, <1>23, <1>24, <1>25,
     <1>26, <1>27, <1>28, <1>29, <1>30, <1>31, <1>32, <1>33
     DEF Next, Create, InitWeb3, CompleteWeb3

\* Every variable keeps its type, whatever the handlers, the sweep and the
\* restarts do.
THEOREM TypeCorrect == Spec => []TypeOK
<1>1. TypeInv => TypeOK
  BY DEF TypeInv
<1> QED
  BY InitTypeInv, NextTypeInv, <1>1, PTL DEF Spec

-----------------------------------------------------------------------------
(* The payment comes first.                                                *)

\* An order's own handler works on it, a call on the order it loaded.
LEMMA OrderOfValue ==
  /\ \A o \in Order : OrderOf(o) = o /\ OrderOf(o)' = o
  /\ \A c \in Call : OrderOf(c) = target[c] /\ OrderOf(c)' = target'[c]
BY OrdersAssumption DEF OrderOf

\* A started handler keeps its order.
LEMMA OrderOfStable ==
  ASSUME TypeInv, [Next]_vars, NEW h \in Handler, pc[h] # "idle"
  PROVE  OrderOf(h)' = OrderOf(h)
<1> USE DEF OrderOf
<1>1. ASSUME NEW c \in Call, NEW o \in Order, CompleteLoad(c, o)
      PROVE  OrderOf(h)' = OrderOf(h)
  BY <1>1 DEF CompleteLoad, Asks, Goto, TypeInv, TypeOK
<1>2. target' = target => OrderOf(h)' = OrderOf(h)
  OBVIOUS
<1>3. \/ target' = target
      \/ \E c \in Call, o \in Order : CompleteLoad(c, o)
  BY DEF Next, vars, Create, InitWeb3, CompleteWeb3, CreateValidate,
         CreatePrice, CreateInsert, CreateTokenAccount, CreatePay,
         CreateDeliver, CreateComplete, CreateCompleteUpdate, CreateReward,
         CreateCatch, CreateCatchUpdate, InitValidate, InitPrice, InitInsert,
         InitBuild, ClientPay, OtherPays, OrderAges, CompleteLookup, CompletePrice,
         CompleteDeliver, CompleteSave, CompleteUpdate, CompleteReward,
         SweepStart, SweepSelect, SweepUpdate, SweepAbort, CacheExpires,
         PriceFetched, Crash
<1> QED
  BY <1>1, <1>2, <1>3

\* What a handler went by does not change once it has been looked up.
LEMMA PaymentStable ==
  ASSUME TypeInv, [Next]_vars, NEW h \in Handler, pc[h] # "lookup"
  PROVE  Payment(h)' = Payment(h)
<1> USE DEF Payment
<1>1. ASSUME NEW c \in Call, CompleteLookup(c)
      PROVE  Payment(h)' = Payment(h)
  <2>1. c # h
    BY <1>1 DEF CompleteLookup
  <2>2. \/ signature' = signature
        \/ \E t : signature' = [signature EXCEPT ![c] = t]
    BY <1>1 DEF CompleteLookup
  <2> QED
    BY <2>1, <2>2 DEF TypeInv, TypeOK, Handler
<1>2. signature' = signature => Payment(h)' = Payment(h)
  OBVIOUS
<1>3. signature' = signature \/ \E c \in Call : CompleteLookup(c)
  BY DEF Next, vars, Create, InitWeb3, CompleteWeb3, CreateValidate,
         CreatePrice, CreateInsert, CreateTokenAccount, CreatePay,
         CreateDeliver, CreateComplete, CreateCompleteUpdate, CreateReward,
         CreateCatch, CreateCatchUpdate, InitValidate, InitPrice, InitInsert,
         InitBuild, ClientPay, OtherPays, OrderAges, CompleteLoad, Asks,
         CompletePrice, CompleteDeliver, CompleteSave, CompleteUpdate,
         CompleteReward, SweepStart, SweepSelect, SweepUpdate, SweepAbort,
         CacheExpires, PriceFetched, Crash
<1> QED
  BY <1>1, <1>2, <1>3

LEMMA CompletedStable ==
  ASSUME TypeInv, [Next]_vars, NEW h \in Handler, pc[h] # "lookup"
  PROVE  CompletedRow(h)' = CompletedRow(h)
BY PaymentStable DEF CompletedRow

LEMMA CompletedColumns ==
  ASSUME NEW h
  PROVE  /\ CompletedRow(h).status = "completed"
         /\ CompletedRow(h).tx_hash_send = Payment(h)
         /\ CompletedRow(h).tx_hash_ref = h
BY DEF CompletedRow

\* A handler's payment, by its kind.
LEMMA PaymentValue ==
  /\ \A o \in Order : Payment(o) = o /\ Payment(o)' = o
  /\ \A c \in Call : Payment(c) = signature[c] /\ Payment(c)' = signature'[c]
BY OrdersAssumption DEF Payment

Paying == {"deliver", "complete", "completeUpdate", "reward"}

\* A handler about to send tokens, or past that, has seen a transfer land: its
\* own in create, one that passes in completeWeb3Wallet.
PaidFirst ==
  /\ \A o \in Order : pc[o] \in Paying => o \in paid
  /\ \A c \in Call : pc[c] \in Paying \cup {"price"} =>
       signature[c] \in paid \cap Accepted(target[c])

\* Only a handler that is past its lookup has delivered.
DeliveredStarted == \A h \in delivered : pc[h] \notin {"idle", "lookup"}

PaidInv == PaidFirst /\ DeliveredStarted /\ DeliveredAgainstTransfer

LEMMA InitPaidInv == Init => PaidInv
BY DEF Init, PaidInv, PaidFirst, DeliveredStarted, DeliveredAgainstTransfer,
       Paying, Handler

LEMMA NextPaidInv == TypeInv /\ PaidInv /\ [Next]_vars => PaidInv'
<1> SUFFICES ASSUME TypeInv, PaidInv, [Next]_vars
             PROVE  PaidInv'
  OBVIOUS
<1> USE PaymentValue, OrdersAssumption
        DEF TypeInv, TypeOK, PaidInv, PaidFirst, DeliveredStarted, Paying,
            DeliveredAgainstTransfer, Accepted, Goto, Order, Handler
<1>1. ASSUME NEW o \in Order, CreateValidate(o)
      PROVE  PaidInv'
  BY <1>1 DEF CreateValidate
<1>2. ASSUME NEW o \in Order, CreatePrice(o)
      PROVE  PaidInv'
  BY <1>2 DEF CreatePrice, CalculateUSDValue
<1>3. ASSUME NEW o \in Order, CreateInsert(o)
      PROVE  PaidInv'
  BY <1>3 DEF CreateInsert, SaveInsert
<1>4. ASSUME NEW o \in Order, CreateTokenAccount(o)
      PROVE  PaidInv'
  BY <1>4 DEF CreateTokenAccount
<1>5. ASSUME NEW o \in Order, CreatePay(o)
      PROVE  PaidInv'
  BY <1>5 DEF CreatePay
<1>6. ASSUME NEW o \in Order, CreateDeliver(o)
      PROVE  PaidInv'
  BY <1>6 DEF CreateDeliver, SendOutputTokens
<1>7. ASSUME NEW o \in Order, CreateComplete(o)
      PROVE  PaidInv'
  BY <1>7 DEF CreateComplete, SaveSelect
<1>8. ASSUME NEW o \in Order, CreateCompleteUpdate(o)
      PROVE  PaidInv'
  BY <1>8 DEF CreateCompleteUpdate, SaveUpdate
<1>9. ASSUME NEW o \in Order, CreateReward(o)
      PROVE  PaidInv'
  BY <1>9 DEF CreateReward, RequestReward
<1>10. ASSUME NEW o \in Order, CreateCatch(o)
      PROVE  PaidInv'
  BY <1>10 DEF CreateCatch, SaveSelect
<1>11. ASSUME NEW o \in Order, CreateCatchUpdate(o)
      PROVE  PaidInv'
  BY <1>11 DEF CreateCatchUpdate, SaveUpdate
<1>12. ASSUME NEW o \in Order, InitValidate(o)
      PROVE  PaidInv'
  BY <1>12 DEF InitValidate
<1>13. ASSUME NEW o \in Order, InitPrice(o)
      PROVE  PaidInv'
  BY <1>13 DEF InitPrice, CalculateUSDValue
<1>14. ASSUME NEW o \in Order, InitInsert(o)
      PROVE  PaidInv'
  BY <1>14 DEF InitInsert, SaveInsert
<1>15. ASSUME NEW o \in Order, InitBuild(o)
      PROVE  PaidInv'
  BY <1>15 DEF InitBuild
<1>16. ASSUME NEW o \in Order, ClientPay(o)
      PROVE  PaidInv'
  BY <1>16 DEF ClientPay
<1>17. ASSUME NEW o \in Order, OrderAges(o)
      PROVE  PaidInv'
  BY <1>17 DEF OrderAges
<1>18. ASSUME NEW c \in Call, NEW o \in Order, CompleteLoad(c, o)
      PROVE  PaidInv'
  BY <1>18 DEF CompleteLoad, Asks
<1>19. ASSUME NEW c \in Call, CompleteLookup(c)
      PROVE  PaidInv'
  BY <1>19 DEF CompleteLookup
<1>20. ASSUME NEW c \in Call, CompletePrice(c)
      PROVE  PaidInv'
  BY <1>20 DEF CompletePrice, CalculateUSDValue
<1>21. ASSUME NEW c \in Call, CompleteDeliver(c)
      PROVE  PaidInv'
  BY <1>21 DEF CompleteDeliver, SendOutputTokens
<1>22. ASSUME NEW c \in Call, CompleteSave(c)
      PROVE  PaidInv'
  BY <1>22 DEF CompleteSave, SaveSelect
<1>23. ASSUME NEW c \in Call, CompleteUpdate(c)
      PROVE  PaidInv'
  BY <1>23 DEF CompleteUpdate, SaveUpdate
<1>24. ASSUME NEW c \in Call, CompleteReward(c)
      PROVE  PaidInv'
  BY <1>24 DEF CompleteReward, RequestReward
<1>25. ASSUME SweepStart
      PROVE  PaidInv'
  BY <1>25 DEF SweepStart
<1>26. ASSUME NEW e \in sweep, SweepSelect(e)
      PROVE  PaidInv'
  BY <1>26 DEF SweepSelect
<1>27. ASSUME NEW s \in sweeping, SweepUpdate(s)
      PROVE  PaidInv'
  BY <1>27 DEF SweepUpdate
<1>28. ASSUME SweepAbort
      PROVE  PaidInv'
  BY <1>28 DEF SweepAbort
<1>29. ASSUME CacheExpires
      PROVE  PaidInv'
  BY <1>29 DEF CacheExpires
<1>30. ASSUME Crash
      PROVE  PaidInv'
  BY <1>30 DEF Crash
<1>31. CASE UNCHANGED vars
  BY <1>31 DEF vars
<1>32. ASSUME PriceFetched
      PROVE  PaidInv'
  BY <1>32 DEF PriceFetched
<1>33. ASSUME NEW t \in Elsewhere, OtherPays(t)
      PROVE  PaidInv'
  BY <1>33 DEF OtherPays
<1> QED
  BY <1>1, <1>2, <1>3, <1>4, <1>5, <1>6, <1>7, <1>8, <1>9, <1>10, <1>11,
     <1>12, <1>13, <1>14, <1>15, <1>16, <1>17, <1>18, <1>19, <1>20, <1>21,
     <1>22, <1>23, <1>24, <1>25, <1>26, <1>27, <1>28, <1>29, <1>30, <1>31,
     <1>32, <1>33
     DEF Next, Create, InitWeb3, CompleteWeb3

\* Tokens leave the treasury only against a transfer that is on the ledger: the
\* order's own, or one that was named and passes for the order's token.
THEOREM DeliveriesArePaid == Spec => []DeliveredAgainstTransfer
<1>1. PaidInv => DeliveredAgainstTransfer
  BY DEF PaidInv
<1> QED
  BY InitTypeInv, NextTypeInv, InitPaidInv, NextPaidInv, <1>1, PTL DEF Spec

-----------------------------------------------------------------------------
(* The null price is out of reach of orders paid in SOL.                   *)

LEMMA InitHasCache == Init => PricedInSolHasCache
BY DEF Init, PricedInSolHasCache, Resting

LEMMA NextHasCache ==
  TypeInv /\ PricedInSolHasCache /\ [Next]_vars => PricedInSolHasCache'
<1> SUFFICES ASSUME TypeInv, PricedInSolHasCache, [Next]_vars
             PROVE  PricedInSolHasCache'
  OBVIOUS
<1> USE OrderOfStable, OrderOfValue, OrdersAssumption
        DEF TypeInv, TypeOK, PricedInSolHasCache, Goto, Resting, Order,
            Handler
<1>1. ASSUME NEW o \in Order, CreateValidate(o)
      PROVE  PricedInSolHasCache'
  BY <1>1 DEF CreateValidate
<1>2. ASSUME NEW o \in Order, CreatePrice(o)
      PROVE  PricedInSolHasCache'
  BY <1>2 DEF CreatePrice, CalculateUSDValue
<1>3. ASSUME NEW o \in Order, CreateInsert(o)
      PROVE  PricedInSolHasCache'
  BY <1>3 DEF CreateInsert, SaveInsert
<1>4. ASSUME NEW o \in Order, CreateTokenAccount(o)
      PROVE  PricedInSolHasCache'
  BY <1>4 DEF CreateTokenAccount
<1>5. ASSUME NEW o \in Order, CreatePay(o)
      PROVE  PricedInSolHasCache'
  BY <1>5 DEF CreatePay
<1>6. ASSUME NEW o \in Order, CreateDeliver(o)
      PROVE  PricedInSolHasCache'
  BY <1>6 DEF CreateDeliver, SendOutputTokens
<1>7. ASSUME NEW o \in Order, CreateComplete(o)
      PROVE  PricedInSolHasCache'
  BY <1>7 DEF CreateComplete, SaveSelect
<1>8. ASSUME NEW o \in Order, CreateCompleteUpdate(o)
      PROVE  PricedInSolHasCache'
  BY <1>8 DEF CreateCompleteUpdate, SaveUpdate
<1>9. ASSUME NEW o \in Order, CreateReward(o)
      PROVE  PricedInSolHasCache'
  BY <1>9 DEF CreateReward, RequestReward
<1>10. ASSUME NEW o \in Order, CreateCatch(o)
      PROVE  PricedInSolHasCache'
  BY <1>10 DEF CreateCatch, SaveSelect
<1>11. ASSUME NEW o \in Order, CreateCatchUpdate(o)
      PROVE  PricedInSolHasCache'
  BY <1>11 DEF CreateCatchUpdate, SaveUpdate
<1>12. ASSUME NEW o \in Order, InitValidate(o)
      PROVE  PricedInSolHasCache'
  BY <1>12 DEF InitValidate
<1>13. ASSUME NEW o \in Order, InitPrice(o)
      PROVE  PricedInSolHasCache'
  BY <1>13 DEF InitPrice, CalculateUSDValue
<1>14. ASSUME NEW o \in Order, InitInsert(o)
      PROVE  PricedInSolHasCache'
  BY <1>14 DEF InitInsert, SaveInsert
<1>15. ASSUME NEW o \in Order, InitBuild(o)
      PROVE  PricedInSolHasCache'
  BY <1>15 DEF InitBuild
<1>16. ASSUME NEW o \in Order, ClientPay(o)
      PROVE  PricedInSolHasCache'
  BY <1>16 DEF ClientPay
<1>17. ASSUME NEW o \in Order, OrderAges(o)
      PROVE  PricedInSolHasCache'
  BY <1>17 DEF OrderAges
<1>18. ASSUME NEW c \in Call, NEW o \in Order, CompleteLoad(c, o)
      PROVE  PricedInSolHasCache'
  BY <1>18 DEF CompleteLoad, Asks
<1>19. ASSUME NEW c \in Call, CompleteLookup(c)
      PROVE  PricedInSolHasCache'
  BY <1>19 DEF CompleteLookup
<1>20. ASSUME NEW c \in Call, CompletePrice(c)
      PROVE  PricedInSolHasCache'
  BY <1>20 DEF CompletePrice, CalculateUSDValue
<1>21. ASSUME NEW c \in Call, CompleteDeliver(c)
      PROVE  PricedInSolHasCache'
  BY <1>21 DEF CompleteDeliver, SendOutputTokens
<1>22. ASSUME NEW c \in Call, CompleteSave(c)
      PROVE  PricedInSolHasCache'
  BY <1>22 DEF CompleteSave, SaveSelect
<1>23. ASSUME NEW c \in Call, CompleteUpdate(c)
      PROVE  PricedInSolHasCache'
  BY <1>23 DEF CompleteUpdate, SaveUpdate
<1>24. ASSUME NEW c \in Call, CompleteReward(c)
      PROVE  PricedInSolHasCache'
  BY <1>24 DEF CompleteReward, RequestReward
<1>25. ASSUME SweepStart
      PROVE  PricedInSolHasCache'
  BY <1>25 DEF SweepStart
<1>26. ASSUME NEW e \in sweep, SweepSelect(e)
      PROVE  PricedInSolHasCache'
  BY <1>26 DEF SweepSelect
<1>27. ASSUME NEW s \in sweeping, SweepUpdate(s)
      PROVE  PricedInSolHasCache'
  BY <1>27 DEF SweepUpdate
<1>28. ASSUME SweepAbort
      PROVE  PricedInSolHasCache'
  BY <1>28 DEF SweepAbort
<1>29. ASSUME CacheExpires
      PROVE  PricedInSolHasCache'
  BY <1>29 DEF CacheExpires
<1>30. ASSUME Crash
      PROVE  PricedInSolHasCache'
  BY <1>30 DEF Crash
<1>31. CASE UNCHANGED vars
  BY <1>31 DEF vars
<1>32. ASSUME PriceFetched
      PROVE  PricedInSolHasCache'
  BY <1>32 DEF PriceFetched
<1>33. ASSUME NEW t \in Elsewhere, OtherPays(t)
      PROVE  PricedInSolHasCache'
  BY <1>33 DEF OtherPays
<1> QED
  BY <1>1, <1>2, <1>3, <1>4, <1>5, <1>6, <1>7, <1>8, <1>9, <1>10, <1>11,
     <1>12, <1>13, <1>14, <1>15, <1>16, <1>17, <1>18, <1>19, <1>20, <1>21,
     <1>22, <1>23, <1>24, <1>25, <1>26, <1>27, <1>28, <1>29, <1>30, <1>31,
     <1>32, <1>33
     DEF Next, Create, InitWeb3, CompleteWeb3

\* A handler of an order paid in SOL never finds the cache null at its reward
\* call: the price it was given is still there, in date or not.
THEOREM SolOrdersHaveAPrice == Spec => []PricedInSolHasCache
BY InitTypeInv, NextTypeInv, InitHasCache, NextHasCache, PTL DEF Spec

-----------------------------------------------------------------------------
(* The status of an order.                                                 *)

\* A row exists exactly from its insertion on.
Opened ==
  \A o \in Order :
    /\ pc[o] \in {"idle", "price", "insert"} => rows[o].status = "none"
    /\ pc[o] \notin {"idle", "price", "insert", "done"} =>
         rows[o].status # "none"

\* A call works on a row that exists.
CallOpened ==
  \A c \in Call : pc[c] # "idle" => rows[target[c]].status # "none"

\* What each handler is about to save.
Saving ==
  \A h \in Handler :
    /\ pc[h] \in {"complete", "completeUpdate", "reward"} =>
         entity[h] = CompletedRow(h) /\ h \in delivered
    /\ pc[h] = "catchUpdate" => entity[h].status = "failed"

\* What the sweep works on: copies of rows that were PENDING.
Sweeping ==
  /\ \A e \in sweep : e.row.status = "pending" /\ rows[e.order].status # "none"
  /\ \A s \in sweeping : /\ s.row.status = "failed"
                         /\ rows[s.order].status # "none"

StatusInv == Opened /\ CallOpened /\ Saving /\ Sweeping

\* An UPDATE of the sweep or of a handler writes its own status or leaves the
\* one that is there.
LEMMA UpdatedStatus ==
  ASSUME NEW r, NEW n, NEW b
  PROVE  Updated(r, n, b).status = r.status \/ Updated(r, n, b).status = n.status
BY DEF Updated

LEMMA SaveUpdateStatus ==
  ASSUME TypeInv, NEW h \in Handler, pc[h] # "idle", NEW l, SaveUpdate(h, l)
  PROVE  /\ pc' = [pc EXCEPT ![h] = l]
         /\ \A o \in Order :
              \/ rows'[o].status = rows[o].status
              \/ o = OrderOf(h) /\ rows'[o].status = entity[h].status
BY UpdatedStatus, OrderOfType DEF SaveUpdate, Goto, TypeInv, TypeOK

LEMMA WrittenStatus ==
  /\ NoRow.status = "none"
  /\ PendingRow.status = "pending"
BY DEF NoRow, PendingRow

LEMMA InitStatusInv == Init => StatusInv
BY WrittenStatus
   DEF Init, StatusInv, Opened, CallOpened, Saving, Sweeping, Handler

SavingLabel == {"complete", "completeUpdate", "reward", "catchUpdate"}

\* A step that leaves alone the entities that are about to be saved.
LEMMA SavingFrame ==
  ASSUME TypeInv, Saving, [Next]_vars, delivered' = delivered,
         \A h \in Handler : pc'[h] \in SavingLabel =>
           pc'[h] = pc[h] /\ entity'[h] = entity[h]
  PROVE  Saving'
<1> SUFFICES ASSUME NEW h \in Handler, pc'[h] \in SavingLabel
             PROVE  /\ pc'[h] \in {"complete", "completeUpdate", "reward"} =>
                         entity'[h] = CompletedRow(h)' /\ h \in delivered'
                    /\ pc'[h] = "catchUpdate" => entity'[h].status = "failed"
  BY DEF Saving, SavingLabel
<1>1. CompletedRow(h)' = CompletedRow(h)
  BY CompletedStable DEF SavingLabel
<1> QED
  BY <1>1 DEF Saving

LEMMA NextStatusInv == TypeInv /\ StatusInv /\ [Next]_vars => StatusInv'
<1> SUFFICES ASSUME TypeInv, StatusInv, [Next]_vars
             PROVE  StatusInv'
  OBVIOUS
<1> USE OrderOfStable, OrderOfValue, OrderOfType, UpdatedStatus, WrittenStatus,
        FailedType, CompletedStable, CompletedColumns, OrdersAssumption
        DEF TypeInv, TypeOK, Started, StatusInv, Opened, CallOpened, Saving,
            Sweeping, SweepEntry, SweepingEntry, Goto, Order, Handler
<1>1. ASSUME NEW o \in Order, CreateValidate(o)
      PROVE  StatusInv'
  BY <1>1 DEF CreateValidate
<1>2. ASSUME NEW o \in Order, CreatePrice(o)
      PROVE  StatusInv'
  BY <1>2 DEF CreatePrice, CalculateUSDValue
<1>3. ASSUME NEW o \in Order, CreateInsert(o)
      PROVE  StatusInv'
  BY <1>3 DEF CreateInsert, SaveInsert
<1>4. ASSUME NEW o \in Order, CreateTokenAccount(o)
      PROVE  StatusInv'
  BY <1>4 DEF CreateTokenAccount
<1>5. ASSUME NEW o \in Order, CreatePay(o)
      PROVE  StatusInv'
  BY <1>5 DEF CreatePay
<1>6. ASSUME NEW o \in Order, CreateDeliver(o)
      PROVE  StatusInv'
  BY <1>6 DEF CreateDeliver, SendOutputTokens
<1>7. ASSUME NEW o \in Order, CreateComplete(o)
      PROVE  StatusInv'
  BY <1>7 DEF CreateComplete, SaveSelect
<1>8. ASSUME NEW o \in Order, CreateCompleteUpdate(o)
      PROVE  StatusInv'
  <2>1. pc[o] # "idle" /\ SaveUpdate(o, "reward")
    BY <1>8 DEF CreateCompleteUpdate
  <2>2. /\ pc' = [pc EXCEPT ![o] = "reward"]
        /\ \A q \in Order : \/ rows'[q].status = rows[q].status
                            \/ /\ q = OrderOf(o)
                               /\ rows'[q].status = entity[o].status
    BY <2>1, SaveUpdateStatus
  <2>3. entity[o].status = "completed"
    <3>1. entity[o] = CompletedRow(o)
      BY <1>8 DEF CreateCompleteUpdate
    <3> QED
      BY <3>1
  <2>4. Opened'
    <3> SUFFICES ASSUME NEW q \in Order
                 PROVE  /\ pc'[q] \in {"idle", "price", "insert"} =>
                             rows'[q].status = "none"
                        /\ pc'[q] \notin {"idle", "price", "insert", "done"} =>
                             rows'[q].status # "none"
      OBVIOUS
    <3> QED
      BY <1>8, <2>2, <2>3 DEF CreateCompleteUpdate
  <2>5. CallOpened' /\ Saving' /\ Sweeping'
    BY <1>8, <2>2, <2>3 DEF CreateCompleteUpdate
  <2> QED
    BY <2>4, <2>5
<1>9. ASSUME NEW o \in Order, CreateReward(o)
      PROVE  StatusInv'
  BY <1>9 DEF CreateReward, RequestReward
<1>10. ASSUME NEW o \in Order, CreateCatch(o)
      PROVE  StatusInv'
  BY <1>10 DEF CreateCatch, SaveSelect
<1>11. ASSUME NEW o \in Order, CreateCatchUpdate(o)
      PROVE  StatusInv'
  <2>1. pc[o] # "idle" /\ SaveUpdate(o, "done")
    BY <1>11 DEF CreateCatchUpdate
  <2>2. /\ pc' = [pc EXCEPT ![o] = "done"]
        /\ \A q \in Order : \/ rows'[q].status = rows[q].status
                            \/ /\ q = OrderOf(o)
                               /\ rows'[q].status = entity[o].status
    BY <2>1, SaveUpdateStatus
  <2>3. entity[o].status = "failed"
    BY <1>11 DEF CreateCatchUpdate
  <2>4. Opened'
    <3> SUFFICES ASSUME NEW q \in Order
                 PROVE  /\ pc'[q] \in {"idle", "price", "insert"} =>
                             rows'[q].status = "none"
                        /\ pc'[q] \notin {"idle", "price", "insert", "done"} =>
                             rows'[q].status # "none"
      OBVIOUS
    <3> QED
      BY <1>11, <2>2, <2>3 DEF CreateCatchUpdate
  <2>5. CallOpened' /\ Saving' /\ Sweeping'
    BY <1>11, <2>2, <2>3 DEF CreateCatchUpdate
  <2> QED
    BY <2>4, <2>5
<1>12. ASSUME NEW o \in Order, InitValidate(o)
      PROVE  StatusInv'
  BY <1>12 DEF InitValidate
<1>13. ASSUME NEW o \in Order, InitPrice(o)
      PROVE  StatusInv'
  BY <1>13 DEF InitPrice, CalculateUSDValue
<1>14. ASSUME NEW o \in Order, InitInsert(o)
      PROVE  StatusInv'
  <2>1. Opened' /\ CallOpened'
    BY <1>14 DEF InitInsert, SaveInsert
  <2>2. Saving'
    <3>1. /\ delivered' = delivered
          /\ \A h \in Handler : pc'[h] \in SavingLabel =>
               pc'[h] = pc[h] /\ entity'[h] = entity[h]
      BY <1>14 DEF InitInsert, SaveInsert, SavingLabel
    <3> HIDE DEF Saving
    <3> QED
      BY <3>1, SavingFrame
  <2>3. Sweeping'
    <3>1. \A q \in Order : rows[q].status # "none" => rows'[q].status # "none"
      BY <1>14 DEF InitInsert, SaveInsert
    <3>2. sweep' = sweep /\ sweeping' = sweeping
      BY <1>14 DEF InitInsert
    <3> QED
      BY <3>1, <3>2
  <2> QED
    BY <2>1, <2>2, <2>3
<1>15. ASSUME NEW o \in Order, InitBuild(o)
      PROVE  StatusInv'
  BY <1>15 DEF InitBuild
<1>16. ASSUME NEW o \in Order, ClientPay(o)
      PROVE  StatusInv'
  BY <1>16 DEF ClientPay
<1>17. ASSUME NEW o \in Order, OrderAges(o)
      PROVE  StatusInv'
  BY <1>17 DEF OrderAges
<1>18. ASSUME NEW c \in Call, NEW o \in Order, CompleteLoad(c, o)
      PROVE  StatusInv'
  BY <1>18 DEF CompleteLoad, Asks
<1>19. ASSUME NEW c \in Call, CompleteLookup(c)
      PROVE  StatusInv'
  BY <1>19 DEF CompleteLookup
<1>20. ASSUME NEW c \in Call, CompletePrice(c)
      PROVE  StatusInv'
  BY <1>20 DEF CompletePrice, CalculateUSDValue
<1>21. ASSUME NEW c \in Call, CompleteDeliver(c)
      PROVE  StatusInv'
  BY <1>21 DEF CompleteDeliver, SendOutputTokens
<1>22. ASSUME NEW c \in Call, CompleteSave(c)
      PROVE  StatusInv'
  BY <1>22 DEF CompleteSave, SaveSelect
<1>23. ASSUME NEW c \in Call, CompleteUpdate(c)
      PROVE  StatusInv'
  <2>1. pc[c] # "idle" /\ SaveUpdate(c, "reward")
    BY <1>23 DEF CompleteUpdate
  <2>2. /\ pc' = [pc EXCEPT ![c] = "reward"]
        /\ \A q \in Order : \/ rows'[q].status = rows[q].status
                            \/ /\ q = OrderOf(c)
                               /\ rows'[q].status = entity[c].status
    BY <2>1, SaveUpdateStatus
  <2>3. entity[c].status = "completed"
    <3>1. entity[c] = CompletedRow(c)
      BY <1>23 DEF CompleteUpdate
    <3> QED
      BY <3>1
  <2>4. Opened'
    <3> SUFFICES ASSUME NEW q \in Order
                 PROVE  /\ pc'[q] \in {"idle", "price", "insert"} =>
                             rows'[q].status = "none"
                        /\ pc'[q] \notin {"idle", "price", "insert", "done"} =>
                             rows'[q].status # "none"
      OBVIOUS
    <3> QED
      BY <1>23, <2>2, <2>3 DEF CompleteUpdate
  <2>5. CallOpened' /\ Saving' /\ Sweeping'
    BY <1>23, <2>2, <2>3 DEF CompleteUpdate
  <2> QED
    BY <2>4, <2>5
<1>24. ASSUME NEW c \in Call, CompleteReward(c)
      PROVE  StatusInv'
  BY <1>24 DEF CompleteReward, RequestReward
<1>25. ASSUME SweepStart
      PROVE  StatusInv'
  BY <1>25 DEF SweepStart, Expired
<1>26. ASSUME NEW e \in sweep, SweepSelect(e)
      PROVE  StatusInv'
  BY <1>26 DEF SweepSelect
<1>27. ASSUME NEW s \in sweeping, SweepUpdate(s)
      PROVE  StatusInv'
  BY <1>27 DEF SweepUpdate
<1>28. ASSUME SweepAbort
      PROVE  StatusInv'
  BY <1>28 DEF SweepAbort
<1>29. ASSUME CacheExpires
      PROVE  StatusInv'
  BY <1>29 DEF CacheExpires
<1>30. ASSUME Crash
      PROVE  StatusInv'
  <2>1. Opened' /\ CallOpened'
    BY <1>30 DEF Crash, Resting
  <2>2. Saving'
    BY <1>30 DEF Crash, Resting
  <2>3. Sweeping'
    BY <1>30 DEF Crash
  <2> QED
    BY <2>1, <2>2, <2>3
<1>31. CASE UNCHANGED vars
  BY <1>31 DEF vars
<1>32. ASSUME PriceFetched
      PROVE  StatusInv'
  BY <1>32 DEF PriceFetched
<1>33. ASSUME NEW t \in Elsewhere, OtherPays(t)
      PROVE  StatusInv'
  BY <1>33 DEF OtherPays
<1> QED
  BY <1>1, <1>2, <1>3, <1>4, <1>5, <1>6, <1>7, <1>8, <1>9, <1>10, <1>11,
     <1>12, <1>13, <1>14, <1>15, <1>16, <1>17, <1>18, <1>19, <1>20, <1>21,
     <1>22, <1>23, <1>24, <1>25, <1>26, <1>27, <1>28, <1>29, <1>30, <1>31,
     <1>32, <1>33
     DEF Next, Create, InitWeb3, CompleteWeb3


\* What a step may do to the status of an order, and the only reasons for it.
StatusStep(o) ==
  \/ rows'[o].status = rows[o].status
  \/ rows[o].status = "none" /\ rows'[o].status = "pending"
  \/ rows[o].status # "none" /\ rows'[o].status = "failed"
  \/ /\ rows[o].status # "none" /\ rows'[o].status = "completed"
     /\ \E h \in delivered : OrderOf(h) = o

LEMMA NextStatusStep ==
  ASSUME TypeInv, StatusInv, [Next]_vars
  PROVE  \A o \in Order : StatusStep(o)
<1> USE OrderOfValue, OrderOfType, UpdatedStatus, WrittenStatus,
        OrdersAssumption
        DEF TypeInv, TypeOK, Started, StatusInv, Opened, CallOpened, Saving,
            Sweeping, StatusStep, Goto, Order, Handler
<1>1. ASSUME NEW o \in Order, CreateValidate(o)
      PROVE  \A q \in Order : StatusStep(q)
  BY <1>1 DEF CreateValidate
<1>2. ASSUME NEW o \in Order, CreatePrice(o)
      PROVE  \A q \in Order : StatusStep(q)
  BY <1>2 DEF CreatePrice, CalculateUSDValue
<1>3. ASSUME NEW o \in Order, CreateInsert(o)
      PROVE  \A q \in Order : StatusStep(q)
  BY <1>3 DEF CreateInsert, SaveInsert
<1>4. ASSUME NEW o \in Order, CreateTokenAccount(o)
      PROVE  \A q \in Order : StatusStep(q)
  BY <1>4 DEF CreateTokenAccount
<1>5. ASSUME NEW o \in Order, CreatePay(o)
      PROVE  \A q \in Order : StatusStep(q)
  BY <1>5 DEF CreatePay
<1>6. ASSUME NEW o \in Order, CreateDeliver(o)
      PROVE  \A q \in Order : StatusStep(q)
  BY <1>6 DEF CreateDeliver, SendOutputTokens
<1>7. ASSUME NEW o \in Order, CreateComplete(o)
      PROVE  \A q \in Order : StatusStep(q)
  BY <1>7 DEF CreateComplete, SaveSelect
<1>8. ASSUME NEW o \in Order, CreateCompleteUpdate(o)
      PROVE  \A q \in Order : StatusStep(q)
  <2>1. pc[o] # "idle" /\ SaveUpdate(o, "reward")
    BY <1>8 DEF CreateCompleteUpdate
  <2>2. \A q \in Order : \/ rows'[q].status = rows[q].status
                         \/ /\ q = OrderOf(o)
                            /\ rows'[q].status = entity[o].status
    BY <2>1, SaveUpdateStatus
  <2>3. entity[o] = CompletedRow(o) /\ o \in delivered
    BY <1>8 DEF CreateCompleteUpdate
  <2>4. entity[o].status = "completed"
    BY <2>3 DEF CompletedRow
  <2>5. rows[OrderOf(o)].status # "none"
    BY <1>8 DEF CreateCompleteUpdate
  <2> QED
    BY <2>2, <2>3, <2>4, <2>5
<1>9. ASSUME NEW o \in Order, CreateReward(o)
      PROVE  \A q \in Order : StatusStep(q)
  BY <1>9 DEF CreateReward, RequestReward
<1>10. ASSUME NEW o \in Order, CreateCatch(o)
      PROVE  \A q \in Order : StatusStep(q)
  BY <1>10 DEF CreateCatch, SaveSelect
<1>11. ASSUME NEW o \in Order, CreateCatchUpdate(o)
      PROVE  \A q \in Order : StatusStep(q)
  <2>1. pc[o] # "idle" /\ SaveUpdate(o, "done")
    BY <1>11 DEF CreateCatchUpdate
  <2>2. \A q \in Order : \/ rows'[q].status = rows[q].status
                         \/ /\ q = OrderOf(o)
                            /\ rows'[q].status = entity[o].status
    BY <2>1, SaveUpdateStatus
  <2> QED
    BY <1>11, <2>2 DEF CreateCatchUpdate, CompletedRow
<1>12. ASSUME NEW o \in Order, InitValidate(o)
      PROVE  \A q \in Order : StatusStep(q)
  BY <1>12 DEF InitValidate
<1>13. ASSUME NEW o \in Order, InitPrice(o)
      PROVE  \A q \in Order : StatusStep(q)
  BY <1>13 DEF InitPrice, CalculateUSDValue
<1>14. ASSUME NEW o \in Order, InitInsert(o)
      PROVE  \A q \in Order : StatusStep(q)
  BY <1>14 DEF InitInsert, SaveInsert
<1>15. ASSUME NEW o \in Order, InitBuild(o)
      PROVE  \A q \in Order : StatusStep(q)
  BY <1>15 DEF InitBuild
<1>16. ASSUME NEW o \in Order, ClientPay(o)
      PROVE  \A q \in Order : StatusStep(q)
  BY <1>16 DEF ClientPay
<1>17. ASSUME NEW o \in Order, OrderAges(o)
      PROVE  \A q \in Order : StatusStep(q)
  BY <1>17 DEF OrderAges
<1>18. ASSUME NEW c \in Call, NEW o \in Order, CompleteLoad(c, o)
      PROVE  \A q \in Order : StatusStep(q)
  BY <1>18 DEF CompleteLoad, Asks
<1>19. ASSUME NEW c \in Call, CompleteLookup(c)
      PROVE  \A q \in Order : StatusStep(q)
  BY <1>19 DEF CompleteLookup
<1>20. ASSUME NEW c \in Call, CompletePrice(c)
      PROVE  \A q \in Order : StatusStep(q)
  BY <1>20 DEF CompletePrice, CalculateUSDValue
<1>21. ASSUME NEW c \in Call, CompleteDeliver(c)
      PROVE  \A q \in Order : StatusStep(q)
  BY <1>21 DEF CompleteDeliver, SendOutputTokens
<1>22. ASSUME NEW c \in Call, CompleteSave(c)
      PROVE  \A q \in Order : StatusStep(q)
  BY <1>22 DEF CompleteSave, SaveSelect
<1>23. ASSUME NEW c \in Call, CompleteUpdate(c)
      PROVE  \A q \in Order : StatusStep(q)
  <2>1. pc[c] # "idle" /\ SaveUpdate(c, "reward")
    BY <1>23 DEF CompleteUpdate
  <2>2. \A q \in Order : \/ rows'[q].status = rows[q].status
                         \/ /\ q = OrderOf(c)
                            /\ rows'[q].status = entity[c].status
    BY <2>1, SaveUpdateStatus
  <2>3. entity[c] = CompletedRow(c) /\ c \in delivered
    BY <1>23 DEF CompleteUpdate
  <2>4. entity[c].status = "completed"
    BY <2>3 DEF CompletedRow
  <2>5. rows[OrderOf(c)].status # "none"
    BY <1>23 DEF CompleteUpdate
  <2> QED
    BY <2>2, <2>3, <2>4, <2>5
<1>24. ASSUME NEW c \in Call, CompleteReward(c)
      PROVE  \A q \in Order : StatusStep(q)
  BY <1>24 DEF CompleteReward, RequestReward
<1>25. ASSUME SweepStart
      PROVE  \A q \in Order : StatusStep(q)
  BY <1>25 DEF SweepStart
<1>26. ASSUME NEW e \in sweep, SweepSelect(e)
      PROVE  \A q \in Order : StatusStep(q)
  BY <1>26 DEF SweepSelect
<1>27. ASSUME NEW s \in sweeping, SweepUpdate(s)
      PROVE  \A q \in Order : StatusStep(q)
  BY <1>27 DEF SweepUpdate
<1>28. ASSUME SweepAbort
      PROVE  \A q \in Order : StatusStep(q)
  BY <1>28 DEF SweepAbort
<1>29. ASSUME CacheExpires
      PROVE  \A q \in Order : StatusStep(q)
  BY <1>29 DEF CacheExpires
<1>30. ASSUME Crash
      PROVE  \A q \in Order : StatusStep(q)
  BY <1>30 DEF Crash
<1>31. CASE UNCHANGED vars
  BY <1>31 DEF vars
<1>32. ASSUME PriceFetched
      PROVE  \A q \in Order : StatusStep(q)
  BY <1>32 DEF PriceFetched
<1>33. ASSUME NEW t \in Elsewhere, OtherPays(t)
      PROVE  \A q \in Order : StatusStep(q)
  BY <1>33 DEF OtherPays
<1> QED
  BY <1>1, <1>2, <1>3, <1>4, <1>5, <1>6, <1>7, <1>8, <1>9, <1>10, <1>11,
     <1>12, <1>13, <1>14, <1>15, <1>16, <1>17, <1>18, <1>19, <1>20, <1>21,
     <1>22, <1>23, <1>24, <1>25, <1>26, <1>27, <1>28, <1>29, <1>30, <1>31,
     <1>32, <1>33
     DEF Next, Create, InitWeb3, CompleteWeb3

\* A decided order is never PENDING again.
THEOREM DecidedStaysDecided == Spec => NeverPendingAgain
<1>1. TypeInv /\ StatusInv /\ [Next]_vars =>
        [\A o \in Order : rows'[o].status = "pending" =>
           rows[o].status \in {"none", "pending"}]_vars
  BY NextStatusStep DEF StatusStep
<1> QED
  BY InitTypeInv, NextTypeInv, InitStatusInv, NextStatusInv, <1>1, PTL
     DEF Spec, NeverPendingAgain

-----------------------------------------------------------------------------
(* The handlers, the sweep and the ledger implement SwapContract.          *)

status == [o \in Order |-> rows[o].status]
served == {OrderOf(h) : h \in delivered}

\* A step writes one row at most, and none if it moves the ledger.
WritesOneRow ==
  \/ rows' = rows
  \/ /\ paid' = paid /\ delivered' = delivered
     /\ \E o \in Order : \E r : rows' = [rows EXCEPT ![o] = r]

LEMMA NextWritesOneRow == TypeInv /\ [Next]_vars => WritesOneRow
<1> SUFFICES ASSUME TypeInv, [Next]_vars
             PROVE  WritesOneRow
  OBVIOUS
<1> USE OrderOfType, OrderOfValue
        DEF WritesOneRow, SaveInsert, SaveUpdate, SaveSelect, SendOutputTokens,
            SweepEntry, SweepingEntry, TypeInv, TypeOK, Order, Handler
<1>1. ASSUME NEW o \in Order, CreateValidate(o)
      PROVE  WritesOneRow
  BY <1>1 DEF CreateValidate
<1>2. ASSUME NEW o \in Order, CreatePrice(o)
      PROVE  WritesOneRow
  BY <1>2 DEF CreatePrice, CalculateUSDValue
<1>3. ASSUME NEW o \in Order, CreateInsert(o)
      PROVE  WritesOneRow
  BY <1>3 DEF CreateInsert, SaveInsert
<1>4. ASSUME NEW o \in Order, CreateTokenAccount(o)
      PROVE  WritesOneRow
  BY <1>4 DEF CreateTokenAccount
<1>5. ASSUME NEW o \in Order, CreatePay(o)
      PROVE  WritesOneRow
  BY <1>5 DEF CreatePay
<1>6. ASSUME NEW o \in Order, CreateDeliver(o)
      PROVE  WritesOneRow
  BY <1>6 DEF CreateDeliver, SendOutputTokens
<1>7. ASSUME NEW o \in Order, CreateComplete(o)
      PROVE  WritesOneRow
  BY <1>7 DEF CreateComplete, SaveSelect
<1>8. ASSUME NEW o \in Order, CreateCompleteUpdate(o)
      PROVE  WritesOneRow
  BY <1>8 DEF CreateCompleteUpdate, SaveUpdate
<1>9. ASSUME NEW o \in Order, CreateReward(o)
      PROVE  WritesOneRow
  BY <1>9 DEF CreateReward, RequestReward
<1>10. ASSUME NEW o \in Order, CreateCatch(o)
      PROVE  WritesOneRow
  BY <1>10 DEF CreateCatch, SaveSelect
<1>11. ASSUME NEW o \in Order, CreateCatchUpdate(o)
      PROVE  WritesOneRow
  BY <1>11 DEF CreateCatchUpdate, SaveUpdate
<1>12. ASSUME NEW o \in Order, InitValidate(o)
      PROVE  WritesOneRow
  BY <1>12 DEF InitValidate
<1>13. ASSUME NEW o \in Order, InitPrice(o)
      PROVE  WritesOneRow
  BY <1>13 DEF InitPrice, CalculateUSDValue
<1>14. ASSUME NEW o \in Order, InitInsert(o)
      PROVE  WritesOneRow
  BY <1>14 DEF InitInsert, SaveInsert
<1>15. ASSUME NEW o \in Order, InitBuild(o)
      PROVE  WritesOneRow
  BY <1>15 DEF InitBuild
<1>16. ASSUME NEW o \in Order, ClientPay(o)
      PROVE  WritesOneRow
  BY <1>16 DEF ClientPay
<1>17. ASSUME NEW o \in Order, OrderAges(o)
      PROVE  WritesOneRow
  BY <1>17 DEF OrderAges
<1>18. ASSUME NEW c \in Call, NEW o \in Order, CompleteLoad(c, o)
      PROVE  WritesOneRow
  BY <1>18 DEF CompleteLoad, Asks
<1>19. ASSUME NEW c \in Call, CompleteLookup(c)
      PROVE  WritesOneRow
  BY <1>19 DEF CompleteLookup
<1>20. ASSUME NEW c \in Call, CompletePrice(c)
      PROVE  WritesOneRow
  BY <1>20 DEF CompletePrice, CalculateUSDValue
<1>21. ASSUME NEW c \in Call, CompleteDeliver(c)
      PROVE  WritesOneRow
  BY <1>21 DEF CompleteDeliver, SendOutputTokens
<1>22. ASSUME NEW c \in Call, CompleteSave(c)
      PROVE  WritesOneRow
  BY <1>22 DEF CompleteSave, SaveSelect
<1>23. ASSUME NEW c \in Call, CompleteUpdate(c)
      PROVE  WritesOneRow
  BY <1>23 DEF CompleteUpdate, SaveUpdate
<1>24. ASSUME NEW c \in Call, CompleteReward(c)
      PROVE  WritesOneRow
  BY <1>24 DEF CompleteReward, RequestReward
<1>25. ASSUME SweepStart
      PROVE  WritesOneRow
  BY <1>25 DEF SweepStart
<1>26. ASSUME NEW e \in sweep, SweepSelect(e)
      PROVE  WritesOneRow
  BY <1>26 DEF SweepSelect
<1>27. ASSUME NEW s \in sweeping, SweepUpdate(s)
      PROVE  WritesOneRow
  BY <1>27 DEF SweepUpdate
<1>28. ASSUME SweepAbort
      PROVE  WritesOneRow
  BY <1>28 DEF SweepAbort
<1>29. ASSUME CacheExpires
      PROVE  WritesOneRow
  BY <1>29 DEF CacheExpires
<1>30. ASSUME Crash
      PROVE  WritesOneRow
  BY <1>30 DEF Crash
<1>31. CASE UNCHANGED vars
  BY <1>31 DEF vars
<1>32. ASSUME PriceFetched
      PROVE  WritesOneRow
  BY <1>32 DEF PriceFetched
<1>33. ASSUME NEW t \in Elsewhere, OtherPays(t)
      PROVE  WritesOneRow
  BY <1>33 DEF OtherPays
<1> QED
  BY <1>1, <1>2, <1>3, <1>4, <1>5, <1>6, <1>7, <1>8, <1>9, <1>10, <1>11,
     <1>12, <1>13, <1>14, <1>15, <1>16, <1>17, <1>18, <1>19, <1>20, <1>21,
     <1>22, <1>23, <1>24, <1>25, <1>26, <1>27, <1>28, <1>29, <1>30, <1>31,
     <1>32, <1>33
     DEF Next, Create, InitWeb3, CompleteWeb3

\* The transfers that count as a payment of an order.
CountsFor(o) == {o} \cup Accepted(o)

\* A step adds one transfer, an order's payment only if the order exists, or one
\* delivery of an order for which some transfer counts, and never takes anything
\* off the ledger.
MovesLedger ==
  \/ paid' = paid /\ delivered' = delivered
  \/ /\ rows' = rows /\ delivered' = delivered
     /\ \E t \in Transfer : /\ t \in Order => rows[t].status # "none"
                            /\ paid' = paid \cup {t}
  \/ /\ rows' = rows /\ paid' = paid
     /\ \E h \in Handler : /\ pc[h] # "idle"
                           /\ rows[OrderOf(h)].status # "none"
                           /\ \E t \in CountsFor(OrderOf(h)) : t \in paid
                           /\ delivered' = delivered \cup {h}

LEMMA NextMovesLedger ==
  TypeInv /\ PaidInv /\ StatusInv /\ [Next]_vars => MovesLedger
<1> SUFFICES ASSUME TypeInv, PaidInv, StatusInv, [Next]_vars
             PROVE  MovesLedger
  OBVIOUS
<1> USE OrderOfType, OrderOfValue
        DEF MovesLedger, SendOutputTokens, TypeInv, TypeOK, PaidInv, PaidFirst,
            Paying, StatusInv, Opened, CallOpened, CountsFor, Order, Handler
<1>1. ASSUME NEW o \in Order, CreateValidate(o)
      PROVE  MovesLedger
  BY <1>1 DEF CreateValidate
<1>2. ASSUME NEW o \in Order, CreatePrice(o)
      PROVE  MovesLedger
  BY <1>2 DEF CreatePrice, CalculateUSDValue
<1>3. ASSUME NEW o \in Order, CreateInsert(o)
      PROVE  MovesLedger
  BY <1>3 DEF CreateInsert, SaveInsert
<1>4. ASSUME NEW o \in Order, CreateTokenAccount(o)
      PROVE  MovesLedger
  BY <1>4 DEF CreateTokenAccount
<1>5. ASSUME NEW o \in Order, CreatePay(o)
      PROVE  MovesLedger
  BY <1>5 DEF CreatePay, Transfer
<1>6. ASSUME NEW o \in Order, CreateDeliver(o)
      PROVE  MovesLedger
  BY <1>6 DEF CreateDeliver, SendOutputTokens
<1>7. ASSUME NEW o \in Order, CreateComplete(o)
      PROVE  MovesLedger
  BY <1>7 DEF CreateComplete, SaveSelect
<1>8. ASSUME NEW o \in Order, CreateCompleteUpdate(o)
      PROVE  MovesLedger
  BY <1>8 DEF CreateCompleteUpdate, SaveUpdate
<1>9. ASSUME NEW o \in Order, CreateReward(o)
      PROVE  MovesLedger
  BY <1>9 DEF CreateReward, RequestReward
<1>10. ASSUME NEW o \in Order, CreateCatch(o)
      PROVE  MovesLedger
  BY <1>10 DEF CreateCatch, SaveSelect
<1>11. ASSUME NEW o \in Order, CreateCatchUpdate(o)
      PROVE  MovesLedger
  BY <1>11 DEF CreateCatchUpdate, SaveUpdate
<1>12. ASSUME NEW o \in Order, InitValidate(o)
      PROVE  MovesLedger
  BY <1>12 DEF InitValidate
<1>13. ASSUME NEW o \in Order, InitPrice(o)
      PROVE  MovesLedger
  BY <1>13 DEF InitPrice, CalculateUSDValue
<1>14. ASSUME NEW o \in Order, InitInsert(o)
      PROVE  MovesLedger
  BY <1>14 DEF InitInsert, SaveInsert
<1>15. ASSUME NEW o \in Order, InitBuild(o)
      PROVE  MovesLedger
  BY <1>15 DEF InitBuild
<1>16. ASSUME NEW o \in Order, ClientPay(o)
      PROVE  MovesLedger
  BY <1>16 DEF ClientPay, Transfer
<1>17. ASSUME NEW o \in Order, OrderAges(o)
      PROVE  MovesLedger
  BY <1>17 DEF OrderAges
<1>18. ASSUME NEW c \in Call, NEW o \in Order, CompleteLoad(c, o)
      PROVE  MovesLedger
  BY <1>18 DEF CompleteLoad, Asks
<1>19. ASSUME NEW c \in Call, CompleteLookup(c)
      PROVE  MovesLedger
  BY <1>19 DEF CompleteLookup
<1>20. ASSUME NEW c \in Call, CompletePrice(c)
      PROVE  MovesLedger
  BY <1>20 DEF CompletePrice, CalculateUSDValue
<1>21. ASSUME NEW c \in Call, CompleteDeliver(c)
      PROVE  MovesLedger
  BY <1>21 DEF CompleteDeliver, SendOutputTokens
<1>22. ASSUME NEW c \in Call, CompleteSave(c)
      PROVE  MovesLedger
  BY <1>22 DEF CompleteSave, SaveSelect
<1>23. ASSUME NEW c \in Call, CompleteUpdate(c)
      PROVE  MovesLedger
  BY <1>23 DEF CompleteUpdate, SaveUpdate
<1>24. ASSUME NEW c \in Call, CompleteReward(c)
      PROVE  MovesLedger
  BY <1>24 DEF CompleteReward, RequestReward
<1>25. ASSUME SweepStart
      PROVE  MovesLedger
  BY <1>25 DEF SweepStart
<1>26. ASSUME NEW e \in sweep, SweepSelect(e)
      PROVE  MovesLedger
  BY <1>26 DEF SweepSelect
<1>27. ASSUME NEW s \in sweeping, SweepUpdate(s)
      PROVE  MovesLedger
  BY <1>27 DEF SweepUpdate
<1>28. ASSUME SweepAbort
      PROVE  MovesLedger
  BY <1>28 DEF SweepAbort
<1>29. ASSUME CacheExpires
      PROVE  MovesLedger
  BY <1>29 DEF CacheExpires
<1>30. ASSUME Crash
      PROVE  MovesLedger
  BY <1>30 DEF Crash
<1>31. CASE UNCHANGED vars
  BY <1>31 DEF vars
<1>32. ASSUME PriceFetched
      PROVE  MovesLedger
  BY <1>32 DEF PriceFetched
<1>33. ASSUME NEW t \in Elsewhere, OtherPays(t)
      PROVE  MovesLedger
  BY <1>33, TransferAssumption DEF OtherPays, Transfer
<1> QED
  BY <1>1, <1>2, <1>3, <1>4, <1>5, <1>6, <1>7, <1>8, <1>9, <1>10, <1>11,
     <1>12, <1>13, <1>14, <1>15, <1>16, <1>17, <1>18, <1>19, <1>20, <1>21,
     <1>22, <1>23, <1>24, <1>25, <1>26, <1>27, <1>28, <1>29, <1>30, <1>31,
     <1>32, <1>33
     DEF Next, Create, InitWeb3, CompleteWeb3

LEMMA ServedStep ==
  ASSUME TypeInv, PaidInv, [Next]_vars
  PROVE  /\ delivered' = delivered => served' = served
         /\ \A h \in Handler :
              (pc[h] # "idle" /\ delivered' = delivered \cup {h})
                => served' = served \cup {OrderOf(h)}
<1>1. \A h \in delivered : h \in Handler /\ pc[h] # "idle"
  BY DEF TypeInv, TypeOK, PaidInv, DeliveredStarted
<1>2. \A h \in delivered : OrderOf(h)' = OrderOf(h)
  BY <1>1, OrderOfStable
<1>3. delivered' = delivered => served' = served
  BY <1>2 DEF served
<1>4. ASSUME NEW h \in Handler, pc[h] # "idle",
             delivered' = delivered \cup {h}
      PROVE  served' = served \cup {OrderOf(h)}
  <2>1. OrderOf(h)' = OrderOf(h)
    BY <1>4, OrderOfStable
  <2> QED
    BY <1>2, <1>4, <2>1 DEF served
<1> QED
  BY <1>3, <1>4

\* Every step of SwapOrders is a step of the contract or leaves it alone.
LEMMA NextContract ==
  TypeInv /\ PaidInv /\ StatusInv /\ [Next]_vars =>
    [Contract!Next]_(Contract!vars)
<1> SUFFICES ASSUME TypeInv, PaidInv, StatusInv, [Next]_vars
             PROVE  [Contract!Next]_(Contract!vars)
  OBVIOUS
<1> USE DEF status, served
<1>1. CASE rows' = rows /\ paid' = paid /\ delivered' = delivered
  <2>1. served' = served
    BY <1>1, ServedStep
  <2> QED
    BY <1>1, <2>1 DEF Contract!vars
<1>2. CASE rows' = rows /\ delivered' = delivered /\
           \E t \in Transfer : /\ t \in Order => rows[t].status # "none"
                              /\ paid' = paid \cup {t}
  <2>1. served' = served
    BY <1>2, ServedStep
  <2>2. PICK t \in Transfer : /\ t \in Order => rows[t].status # "none"
                              /\ paid' = paid \cup {t}
    BY <1>2
  <2>3. Contract!Pay(t)
    BY <1>2, <2>1, <2>2 DEF Contract!Pay
  <2> QED
    BY <2>3 DEF Contract!Next
<1>3. CASE rows' = rows /\ paid' = paid /\
           \E h \in Handler : /\ pc[h] # "idle"
                              /\ rows[OrderOf(h)].status # "none"
                              /\ \E t \in CountsFor(OrderOf(h)) : t \in paid
                              /\ delivered' = delivered \cup {h}
  <2>1. PICK h \in Handler : /\ pc[h] # "idle"
                             /\ rows[OrderOf(h)].status # "none"
                             /\ \E t \in CountsFor(OrderOf(h)) : t \in paid
                             /\ delivered' = delivered \cup {h}
    BY <1>3
  <2>2. served' = served \cup {OrderOf(h)} /\ OrderOf(h) \in Order
    BY <2>1, ServedStep, OrderOfType
  <2>3. Contract!Serve(OrderOf(h))
    BY <1>3, <2>1, <2>2 DEF Contract!Serve, CountsFor
  <2> QED
    BY <2>1, <2>3, OrderOfType DEF Contract!Next
<1>4. CASE paid' = paid /\ delivered' = delivered /\
           \E o \in Order : \E r : rows' = [rows EXCEPT ![o] = r]
  <2>1. served' = served
    BY <1>4, ServedStep
  <2>2. PICK o \in Order : \E r : rows' = [rows EXCEPT ![o] = r]
    BY <1>4
  <2>3. /\ rows \in [Order -> Row] /\ StatusStep(o)
        /\ status' = [status EXCEPT ![o] = rows'[o].status]
    BY <2>2, NextStatusStep DEF TypeInv, TypeOK
  <2>4. status[o] = rows[o].status
    OBVIOUS
  <2>5. CASE rows'[o].status = rows[o].status
    BY <1>4, <2>1, <2>3, <2>5 DEF Contract!vars
  <2>6. CASE rows[o].status = "none" /\ rows'[o].status = "pending"
    <3>1. Contract!Open(o)
      BY <1>4, <2>1, <2>3, <2>4, <2>6 DEF Contract!Open
    <3> QED
      BY <3>1 DEF Contract!Next
  <2>7. CASE rows[o].status # "none" /\ rows'[o].status = "failed"
    <3>1. Contract!Fail(o)
      BY <1>4, <2>1, <2>3, <2>4, <2>7 DEF Contract!Fail
    <3> QED
      BY <3>1 DEF Contract!Next
  <2>8. CASE rows'[o].status = "completed" /\ \E h \in delivered : OrderOf(h) = o
    <3>1. Contract!Complete(o)
      BY <1>4, <2>1, <2>3, <2>4, <2>8 DEF Contract!Complete
    <3> QED
      BY <3>1 DEF Contract!Next
  <2> QED
    BY <2>3, <2>5, <2>6, <2>7, <2>8 DEF StatusStep
<1> QED
  BY <1>1, <1>2, <1>3, <1>4, NextWritesOneRow, NextMovesLedger
     DEF WritesOneRow, MovesLedger

LEMMA InitContract == Init => Contract!Init
BY WrittenStatus DEF Init, Contract!Init

\* The service keeps its contract: a transfer that counts before delivery,
\* delivery before a row says completed.
THEOREM ImplementsContract == Spec => ContractSpec
BY InitTypeInv, NextTypeInv, InitPaidInv, NextPaidInv, InitStatusInv,
   NextStatusInv, InitContract, NextContract, PTL
   DEF Spec, ContractSpec, Contract!Spec

-----------------------------------------------------------------------------
(* What the rows say.  The saves of different handlers and of the sweep    *)
(* update the same row column by column from copies that may be out of     *)
(* date.  HashInv says which copies can be out of date, and how; from it   *)
(* follow that the hashes are real (HashesReal), what a rewarded order     *)
(* says (RewardsFollow), who may touch a completed row (CompletedRowsStay),*)
(* and, when nothing fails, that a delivery ends completed                 *)
(* (DeliveriesComplete) and is the only one of its order (ServedOnce).     *)

Decided(r) == r.status \in {"completed", "failed"}
Blank(r)   == r.tx_hash_send = None /\ r.tx_hash_ref = None

\* Who delivered the order o, and the transfers they went by.
Deliverers(o) == {h \in delivered : OrderOf(h) = o}
Payments(o)   == {Payment(h) : h \in Deliverers(o)}

\* Both hashes, if there, were put there by a handler that delivered o.
Real(r, o) ==
  /\ r.tx_hash_send \in Payments(o) \cup {None}
  /\ r.tx_hash_ref \in Deliverers(o) \cup {None}

Updating == {"completeUpdate", "catchUpdate"}

\* Rows: what HashesAreReal asks, and no hash before the order is decided.
RowsInv ==
  \A o \in Order :
    /\ Real(rows[o], o)
    /\ (rows[o].status = "completed" /\ ~Contested(o)) =>
         rows[o].tx_hash_send # None /\ rows[o].tx_hash_ref # None
    /\ ~Decided(rows[o]) => Blank(rows[o])

\* The entity of a create handler is blank until it has delivered.
EntityInv ==
  \A o \in CustodialOrder :
    /\ pc[o] \in {"ata", "pay", "deliver"} => Blank(entity[o])
    /\ pc[o] \in {"catch", "catchUpdate"} =>
         \/ Blank(entity[o])
         \/ /\ o \in delivered
            /\ entity[o].tx_hash_send = o
            /\ entity[o].tx_hash_ref = o

\* A copy of a decided row is of a row that is still decided.
BaseInv ==
  /\ \A h \in Handler : pc[h] \in Updating =>
       /\ Decided(base[h]) => Decided(rows[OrderOf(h)])
       /\ ~Decided(base[h]) => Blank(base[h])
  /\ \A s \in sweeping : Decided(s.base) => Decided(rows[s.order])

\* The only writer of hashes to a custodial row is the handler that made it,
\* while no call has delivered the order.
CustodialInv ==
  \A o \in CustodialOrder : ~Contested(o) =>
    /\ pc[o] \in {"ata", "pay", "deliver", "complete", "completeUpdate"} =>
         Blank(rows[o]) /\ rows[o].status # "completed"
    /\ pc[o] = "completeUpdate" => Blank(base[o])
    /\ (pc[o] = "catchUpdate" /\ base[o].status = "failed") =>
         rows[o].status # "completed"

\* The sweep holds one copy of an order at most, blank, and none of an order
\* that has failed meanwhile unless its create handler is what failed it.
SweepInv ==
  /\ \A e, f \in sweep : e.order = f.order => e = f
  /\ \A s, t \in sweeping : s = t
  /\ \A e \in sweep, s \in sweeping : e.order # s.order
  /\ \A e \in sweep :
       /\ Blank(e.row)
       /\ rows[e.order].status = "failed" =>
            e.order \in CustodialOrder /\ pc[e.order] = "done"
  /\ \A s \in sweeping :
       /\ Blank(s.row)
       /\ rows[s.order].status = "failed" =>
            s.order \in CustodialOrder /\ pc[s.order] = "done"
       /\ (s.base.status = "failed" /\ ~Contested(s.order)) =>
            rows[s.order].status = "failed"

\* A call about to update a web3 row it had found failed updates it after the
\* sweep is done with it, so the hashes it had found are still there.
CallInv ==
  \A c \in Call :
    (/\ pc[c] = "completeUpdate" /\ target[c] \in Web3Order
     /\ base[c].status = "failed") =>
      /\ \A e \in sweep : e.order # target[c]
      /\ \A s \in sweeping : s.order # target[c]
      /\ base[c].tx_hash_send # None => rows[target[c]].tx_hash_send # None
      /\ base[c].tx_hash_ref # None => rows[target[c]].tx_hash_ref # None

HashInv ==
  RowsInv /\ EntityInv /\ BaseInv /\ CustodialInv /\ SweepInv /\ CallInv

LEMMA BlankRows == Blank(NoRow) /\ Blank(PendingRow)
BY DEF Blank, NoRow, PendingRow

LEMMA InitHashInv == Init => HashInv
BY BlankRows, WrittenStatus
   DEF Init, HashInv, RowsInv, EntityInv, BaseInv, CustodialInv, SweepInv,
       CallInv, Real, Decided, Blank, Updating, Order, Handler

\* What is delivered or aged stays so.
LEMMA NextMonotone ==
  ASSUME [Next]_vars
  PROVE  aged \subseteq aged' /\ delivered \subseteq delivered'
BY DEF Next, vars, Create, InitWeb3, CompleteWeb3, CreateValidate, CreatePrice,
       CreateInsert, CreateTokenAccount, CreatePay, CreateDeliver, CreateComplete,
       CreateCompleteUpdate, CreateReward, CreateCatch, CreateCatchUpdate, InitValidate,
       InitPrice, InitInsert, InitBuild, ClientPay, OtherPays, OrderAges, CompleteLoad,
       Asks, CompleteLookup, CompletePrice, CompleteDeliver, CompleteSave, CompleteUpdate,
       CompleteReward, SweepStart, SweepSelect, SweepUpdate, SweepAbort, CacheExpires,
       PriceFetched, Crash, SendOutputTokens

\* Nobody takes back a delivery, nor what it was made for and against.
LEMMA LedgerGrows ==
  ASSUME TypeInv, PaidInv, [Next]_vars
  PROVE  /\ delivered \subseteq delivered'
         /\ \A o \in Order : /\ Deliverers(o) \subseteq Deliverers(o)'
                             /\ Payments(o) \subseteq Payments(o)'
                             /\ Contested(o) => Contested(o)'
<1>1. delivered \subseteq delivered'
  BY NextMonotone
<1>2. ASSUME NEW h \in delivered
      PROVE  OrderOf(h)' = OrderOf(h) /\ Payment(h)' = Payment(h)
  BY OrderOfStable, PaymentStable DEF TypeInv, TypeOK, PaidInv, DeliveredStarted
<1>3. \A c \in Call \cap delivered : target'[c] = target[c]
  BY <1>2, OrderOfValue
<1>4. ASSUME NEW o \in Order
      PROVE  Deliverers(o) \subseteq Deliverers(o)'
  BY <1>1, <1>2 DEF Deliverers
<1>5. ASSUME NEW o \in Order
      PROVE  Payments(o) \subseteq Payments(o)'
  BY <1>2, <1>4 DEF Payments, Deliverers
<1>6. ASSUME NEW o \in Order, Contested(o)
      PROVE  Contested(o)'
  BY <1>1, <1>3, <1>6 DEF Contested
<1> QED
  BY <1>1, <1>4, <1>5, <1>6

\* A handler about to save its delivery has made it, against a transfer.
LEMMA SavesDelivery ==
  ASSUME TypeInv, PaidInv, StatusInv, NEW h \in Handler,
         pc[h] \in {"complete", "completeUpdate", "reward"}
  PROVE  /\ h \in Deliverers(OrderOf(h)) /\ h \in delivered
         /\ Payment(h) \in Payments(OrderOf(h))
         /\ h # None /\ Payment(h) # None
         /\ h \in Call => target[h] = OrderOf(h) /\ h \notin Order
         /\ (h \in Call /\ OrderOf(h) \in CustodialOrder) => Contested(OrderOf(h))
<1>1. h \in delivered
  BY DEF StatusInv, Saving
<1>2. Payment(h) # None /\ h # None
  BY <1>1, NoneAssumption
     DEF PaidInv, DeliveredAgainstTransfer, TypeInv, TypeOK
<1>3. h \in Call => target[h] = OrderOf(h) /\ h \notin Order
  BY OrderOfValue, OrdersAssumption
<1>4. (h \in Call /\ OrderOf(h) \in CustodialOrder) => Contested(OrderOf(h))
  BY <1>1, <1>3 DEF Contested
<1> QED
  BY <1>1, <1>2, <1>3, <1>4 DEF Deliverers, Payments

\* Column by column, what an UPDATE leaves in the row.
LEMMA UpdatedColumns ==
  ASSUME NEW r, NEW n, NEW b
  PROVE  /\ Updated(r, n, b).status =
              IF n.status # b.status THEN n.status ELSE r.status
         /\ Updated(r, n, b).tx_hash_send =
              IF n.tx_hash_send # b.tx_hash_send
                THEN n.tx_hash_send ELSE r.tx_hash_send
         /\ Updated(r, n, b).tx_hash_ref =
              IF n.tx_hash_ref # b.tx_hash_ref
                THEN n.tx_hash_ref ELSE r.tx_hash_ref
BY DEF Updated

LEMMA SaveUpdateRow ==
  ASSUME TypeInv, NEW h \in Handler, pc[h] # "idle", NEW l, SaveUpdate(h, l)
  PROVE  /\ pc' = [pc EXCEPT ![h] = l]
         /\ \A q \in Order : q # OrderOf(h) => rows'[q] = rows[q]
         /\ rows'[OrderOf(h)] =
              Updated(rows[OrderOf(h)], entity[h], base[h])
BY OrderOfType DEF SaveUpdate, Goto, TypeInv, TypeOK

\* A step that makes no copy and undoes no decision keeps the copies good.
LEMMA BaseFrame ==
  ASSUME TypeInv, BaseInv, [Next]_vars, sweeping' = sweeping,
         \A h \in Handler : pc'[h] \in Updating =>
           pc[h] \in Updating /\ base'[h] = base[h],
         \A q \in Order : Decided(rows[q]) => Decided(rows'[q])
  PROVE  BaseInv'
<1>1. ASSUME NEW h \in Handler, pc'[h] \in Updating
      PROVE  /\ Decided(base'[h]) => Decided(rows'[OrderOf(h)'])
             /\ ~Decided(base'[h]) => Blank(base'[h])
  <2>1. pc[h] \in Updating /\ pc[h] # "idle"
    BY <1>1 DEF Updating
  <2>2. OrderOf(h) \in Order /\ OrderOf(h)' = OrderOf(h)
    BY <2>1, OrderOfType, OrderOfStable
  <2> QED
    BY <1>1, <2>1, <2>2 DEF BaseInv
<1>2. ASSUME NEW s \in sweeping'
      PROVE  Decided(s.base) => Decided(rows'[s.order])
  BY <1>2 DEF BaseInv, TypeInv, TypeOK, SweepingEntry
<1> QED
  BY <1>1, <1>2 DEF BaseInv, Decided, Blank, Updating

\* What the row is after the save that completes it.
LEMMA CompletingWrite ==
  ASSUME TypeInv, PaidInv, StatusInv, HashInv, [Next]_vars,
         NEW h \in CustodialOrder \cup Call, pc[h] = "completeUpdate",
         NEW q, q = OrderOf(h),
         rows'[q] = Updated(rows[q], entity[h], base[h])
  PROVE  /\ q \in Order
         /\ rows'[q].tx_hash_send \in Payments(q)' \cup {None}
         /\ rows'[q].tx_hash_ref \in Deliverers(q)' \cup {None}
         /\ Decided(rows'[q])
         /\ (rows'[q].status = "completed" /\ ~Contested(q)) =>
              rows'[q].tx_hash_send # None /\ rows'[q].tx_hash_ref # None
         /\ rows'[q].status = "failed" => rows[q].status = "failed"
         /\ rows[q].tx_hash_send # None => rows'[q].tx_hash_send # None
         /\ rows[q].tx_hash_ref # None => rows'[q].tx_hash_ref # None
<1>0. h \in Handler
  BY DEF Handler, Order
<1>1. q \in Order
  BY <1>0, OrderOfType
<1>2. /\ entity[h].status = "completed"
      /\ entity[h].tx_hash_send = Payment(h) /\ entity[h].tx_hash_ref = h
  BY <1>0, CompletedColumns DEF StatusInv, Saving
<1>3. /\ h \in Deliverers(q) /\ Payment(h) \in Payments(q)
      /\ h # None /\ Payment(h) # None
      /\ (h \in Call /\ q \in CustodialOrder) => Contested(q)
  BY <1>0, SavesDelivery
<1>4. Deliverers(q) \subseteq Deliverers(q)' /\ Payments(q) \subseteq Payments(q)'
  BY <1>1, LedgerGrows
<1>5. /\ rows[q].tx_hash_send \in Payments(q) \cup {None}
      /\ rows[q].tx_hash_ref \in Deliverers(q) \cup {None}
      /\ (rows[q].status = "completed" /\ ~Contested(q)) =>
           rows[q].tx_hash_send # None /\ rows[q].tx_hash_ref # None
  BY <1>1 DEF HashInv, RowsInv, Real
<1>6. /\ base[h].status \in {"completed", "failed"} =>
           rows[q].status \in {"completed", "failed"}
      /\ base[h].status \notin {"completed", "failed"} =>
           base[h].tx_hash_send = None /\ base[h].tx_hash_ref = None
  BY <1>0 DEF HashInv, BaseInv, Updating, Decided, Blank
<1>7. ASSUME base[h].status = "failed", ~Contested(q)
      PROVE  /\ base[h].tx_hash_send # None => rows[q].tx_hash_send # None
             /\ base[h].tx_hash_ref # None => rows[q].tx_hash_ref # None
  <2>1. CASE h \in CustodialOrder
    BY <1>7, <2>1, OrderOfValue DEF HashInv, CustodialInv, Blank, Order
  <2>2. CASE h \in Call
    BY <1>1, <1>3, <1>7, <2>2, OrderOfValue DEF HashInv, CallInv, Order
  <2> QED
    BY <2>1, <2>2
<1>8. /\ rows'[q].tx_hash_send \in {Payment(h), rows[q].tx_hash_send}
      /\ rows'[q].tx_hash_send = Payment(h) \/ base[h].tx_hash_send = Payment(h)
      /\ rows'[q].tx_hash_ref \in {h, rows[q].tx_hash_ref}
      /\ rows'[q].tx_hash_ref = h \/ base[h].tx_hash_ref = h
      /\ IF base[h].status = "completed" THEN rows'[q].status = rows[q].status
                                         ELSE rows'[q].status = "completed"
  BY <1>2, UpdatedColumns
<1>9. Decided(rows'[q])
  BY <1>6, <1>8 DEF Decided
<1>10. ASSUME rows'[q].status = "completed", ~Contested(q)
       PROVE  rows'[q].tx_hash_send # None /\ rows'[q].tx_hash_ref # None
  <2>1. CASE base[h].status = "completed"
    BY <1>3, <1>5, <1>8, <1>10, <2>1
  <2>2. CASE base[h].status # "completed"
    BY <1>3, <1>6, <1>7, <1>8, <1>10, <2>2
  <2> QED
    BY <2>1, <2>2
<1> QED
  BY <1>1, <1>3, <1>4, <1>5, <1>8, <1>9, <1>10

\* A step that writes one row, of q, and writes it well.
LEMMA RowsFrame ==
  ASSUME TypeInv, PaidInv, RowsInv, [Next]_vars, NEW q \in Order,
         \A p \in Order : p # q => rows'[p] = rows[p],
         rows'[q].tx_hash_send \in Payments(q)' \cup {None},
         rows'[q].tx_hash_ref \in Deliverers(q)' \cup {None},
         (rows'[q].status = "completed" /\ ~Contested(q)) =>
           rows'[q].tx_hash_send # None /\ rows'[q].tx_hash_ref # None,
         Decided(rows'[q])
  PROVE  RowsInv'
<1> SUFFICES ASSUME NEW p \in Order
             PROVE  /\ rows'[p].tx_hash_send \in Payments(p)' \cup {None}
                    /\ rows'[p].tx_hash_ref \in Deliverers(p)' \cup {None}
                    /\ (rows'[p].status = "completed" /\ ~Contested(p)') =>
                         /\ rows'[p].tx_hash_send # None
                         /\ rows'[p].tx_hash_ref # None
                    /\ ~Decided(rows'[p]) => Blank(rows'[p])
  BY DEF RowsInv, Real, Decided, Blank
<1>1. Contested(p) => Contested(p)'
  BY LedgerGrows
<1>2. CASE p = q
  BY <1>1, <1>2
<1>3. CASE p # q
  BY <1>1, <1>3, LedgerGrows DEF RowsInv, Real
<1> QED
  BY <1>2, <1>3

\* A step that writes one row, of q, and after which its create handler, if it
\* has one, is past the last save or shares the row with a call.
LEMMA CustodialFrame ==
  ASSUME TypeInv, PaidInv, CustodialInv, [Next]_vars, NEW q \in Order,
         \A p \in Order : p # q => rows'[p] = rows[p],
         \A p \in CustodialOrder \ {q} : pc'[p] = pc[p] /\ base'[p] = base[p],
         q \in CustodialOrder => Contested(q) \/ pc'[q] \in {"reward", "done"}
  PROVE  CustodialInv'
<1> SUFFICES ASSUME NEW o \in CustodialOrder, ~Contested(o)'
             PROVE  /\ pc'[o] \in {"ata", "pay", "deliver", "complete",
                                   "completeUpdate"} =>
                         Blank(rows'[o]) /\ rows'[o].status # "completed"
                    /\ pc'[o] = "completeUpdate" => Blank(base'[o])
                    /\ (pc'[o] = "catchUpdate" /\ base'[o].status = "failed") =>
                         rows'[o].status # "completed"
  BY DEF CustodialInv, Blank
<1>1. ~Contested(o) /\ o \in Order
  BY LedgerGrows DEF Order
<1>2. CASE o = q
  BY <1>1, <1>2
<1>3. CASE o # q
  BY <1>1, <1>3 DEF CustodialInv
<1> QED
  BY <1>2, <1>3

LEMMA NextHashInv ==
  TypeInv /\ PaidInv /\ StatusInv /\ HashInv /\ [Next]_vars => HashInv'
<1> SUFFICES ASSUME TypeInv, PaidInv, StatusInv, HashInv, [Next]_vars
             PROVE  HashInv'
  OBVIOUS
<1> USE OrderOfStable, OrderOfValue, OrderOfType, BlankRows, WrittenStatus,
        FailedType, CompletedColumns, PaymentValue, LedgerGrows,
        OrdersAssumption, NoneAssumption
        DEF TypeInv, TypeOK, StatusInv, CallOpened, Saving, Sweeping, HashInv,
            RowsInv, EntityInv, BaseInv, CustodialInv, SweepInv,
            CallInv, Real, Decided, Blank, Updating, SweepEntry, SweepingEntry, Goto,
            Order, Handler
<1>1. ASSUME NEW o \in Order, CreateValidate(o)
      PROVE  HashInv'
  BY <1>1 DEF CreateValidate
<1>2. ASSUME NEW o \in Order, CreatePrice(o)
      PROVE  HashInv'
  BY <1>2 DEF CreatePrice, CalculateUSDValue
<1>3. ASSUME NEW o \in Order, CreateInsert(o)
      PROVE  HashInv'
  <2>1. rows[o].status = "none" /\ pc[o] = "insert"
    BY <1>3 DEF Opened, CreateInsert
  <2>10. RowsInv'
    BY <1>3, <2>1 DEF CreateInsert, SaveInsert
  <2>11. EntityInv'
    BY <1>3, <2>1 DEF CreateInsert, SaveInsert
  <2>12. BaseInv'
    <3>1. /\ sweeping' = sweeping
          /\ \A h \in Handler : pc'[h] \in Updating =>
               pc[h] \in Updating /\ base'[h] = base[h]
          /\ \A q \in Order : Decided(rows[q]) => Decided(rows'[q])
      BY <1>3, <2>1 DEF CreateInsert, SaveInsert
    <3> QED
      BY <3>1, BaseFrame
  <2>13. CustodialInv'
    BY <1>3, <2>1 DEF CreateInsert, SaveInsert
  <2>14. SweepInv'
    BY <1>3, <2>1 DEF CreateInsert, SaveInsert
  <2>15. CallInv'
    BY <1>3, <2>1 DEF CreateInsert, SaveInsert
  <2> QED
    BY <2>10, <2>11, <2>12, <2>13, <2>14, <2>15
<1>4. ASSUME NEW o \in Order, CreateTokenAccount(o)
      PROVE  HashInv'
  BY <1>4 DEF CreateTokenAccount
<1>5. ASSUME NEW o \in Order, CreatePay(o)
      PROVE  HashInv'
  BY <1>5 DEF CreatePay
<1>6. ASSUME NEW o \in Order, CreateDeliver(o)
      PROVE  HashInv'
  BY <1>6 DEF CreateDeliver, SendOutputTokens
<1>7. ASSUME NEW o \in Order, CreateComplete(o)
      PROVE  HashInv'
  BY <1>7 DEF CreateComplete, SaveSelect
<1>8. ASSUME NEW o \in Order, CreateCompleteUpdate(o)
      PROVE  HashInv'
  <2>1. pc[o] = "completeUpdate" /\ o \in Handler /\ SaveUpdate(o, "reward")
    BY <1>8 DEF CreateCompleteUpdate
  <2>0. PICK q \in Order : q = OrderOf(o)
    BY <2>1, OrderOfType
  <2>2. /\ pc' = [pc EXCEPT ![o] = "reward"]
        /\ \A p \in Order : p # q => rows'[p] = rows[p]
        /\ rows'[q] = Updated(rows[q], entity[o], base[o])
        /\ \A h \in Handler \ {o} : base'[h] = base[h]
    BY <2>0, <2>1, SaveUpdateRow DEF SaveUpdate
  <2>3. /\ entity' = entity /\ target' = target /\ delivered' = delivered
        /\ sweep' = sweep /\ sweeping' = sweeping
    BY <1>8 DEF CreateCompleteUpdate
  <2>6. o \in CustodialOrder
    BY <1>8 DEF CreateCompleteUpdate
  <2>4. /\ Decided(rows'[q])
        /\ rows'[q].tx_hash_send \in Payments(q)' \cup {None}
        /\ rows'[q].tx_hash_ref \in Deliverers(q)' \cup {None}
        /\ (rows'[q].status = "completed" /\ ~Contested(q)) =>
             rows'[q].tx_hash_send # None /\ rows'[q].tx_hash_ref # None
        /\ rows'[q].status = "failed" => rows[q].status = "failed"
        /\ rows[q].tx_hash_send # None => rows'[q].tx_hash_send # None
        /\ rows[q].tx_hash_ref # None => rows'[q].tx_hash_ref # None
    <3> HIDE DEF TypeInv, TypeOK, StatusInv, RowsInv, EntityInv, BaseInv,
                 CustodialInv, SweepInv, CallInv, Decided
    <3> QED
      BY <2>0, <2>1, <2>2, <2>6, CompletingWrite
  <2>5. /\ o \in CustodialOrder => q = o
        /\ o \notin CustodialOrder /\ q \in CustodialOrder => Contested(q)
    BY <1>8, <2>0, <2>1, SavesDelivery, OrderOfValue DEF CreateCompleteUpdate
  <2>10. RowsInv'
    <3> HIDE DEF TypeInv, TypeOK, StatusInv, RowsInv, EntityInv, BaseInv,
                 CustodialInv, SweepInv, CallInv, Decided
    <3> QED
      BY <2>2, <2>4, RowsFrame DEF HashInv
  <2>11. EntityInv'
    BY <2>0, <2>1, <2>2, <2>3
  <2>12. BaseInv'
    <3>1. /\ sweeping' = sweeping
          /\ \A h \in Handler : pc'[h] \in Updating =>
               pc[h] \in Updating /\ base'[h] = base[h]
          /\ \A p \in Order : Decided(rows[p]) => Decided(rows'[p])
      BY <2>0, <2>1, <2>2, <2>3, <2>4
    <3> QED
      BY <3>1, BaseFrame
  <2>13. CustodialInv'
    <3>1. \A p \in CustodialOrder \ {q} : pc'[p] = pc[p] /\ base'[p] = base[p]
      BY <2>0, <2>1, <2>2, <2>5
    <3>2. q \in CustodialOrder => Contested(q) \/ pc'[q] \in {"reward", "done"}
      BY <2>0, <2>1, <2>2, <2>5
    <3> HIDE DEF TypeInv, TypeOK, StatusInv, RowsInv, EntityInv, BaseInv,
                 CustodialInv, SweepInv, CallInv, Decided
    <3> QED
      BY <2>2, <2>4, <3>1, <3>2, CustodialFrame DEF HashInv
  <2>14. SweepInv'
    BY <2>0, <2>1, <2>2, <2>3, <2>4
  <2>15. CallInv'
    BY <2>0, <2>1, <2>2, <2>3, <2>4
  <2> QED
    BY <2>10, <2>11, <2>12, <2>13, <2>14, <2>15
<1>9. ASSUME NEW o \in Order, CreateReward(o)
      PROVE  HashInv'
  BY <1>9 DEF CreateReward, RequestReward
<1>10. ASSUME NEW o \in Order, CreateCatch(o)
      PROVE  HashInv'
  BY <1>10 DEF CreateCatch, SaveSelect
<1>11. ASSUME NEW o \in Order, CreateCatchUpdate(o)
      PROVE  HashInv'
  <2>1. pc[o] # "idle" /\ SaveUpdate(o, "done")
    BY <1>11 DEF CreateCatchUpdate
  <2>2. /\ pc' = [pc EXCEPT ![o] = "done"]
        /\ \A q \in Order : q # OrderOf(o) => rows'[q] = rows[q]
        /\ rows'[OrderOf(o)] = Updated(rows[OrderOf(o)], entity[o], base[o])
    BY <2>1, SaveUpdateRow
  <2>3. entity[o].status = "failed" /\ pc[o] \in Updating
    BY <1>11 DEF CreateCatchUpdate
  <2>4. \/ rows'[OrderOf(o)].status = "failed"
        \/ /\ base[o].status = "failed"
           /\ rows'[OrderOf(o)].status = rows[OrderOf(o)].status
    BY <2>2, <2>3, UpdatedColumns
  <2>5. Decided(rows'[OrderOf(o)])
    BY <2>3, <2>4
  <2>6. o \in CustodialOrder /\ OrderOf(o) = o
    BY <1>11 DEF CreateCatchUpdate
  <2>7. rows'[o].tx_hash_send \in Payments(o)' \cup {None}
    <3>1. entity[o].tx_hash_send \in Payments(o) \cup {None}
      BY <1>11, <2>6 DEF CreateCatchUpdate, Payments, Deliverers
    <3> QED
      BY <2>2, <2>6, <3>1, UpdatedColumns
  <2>8. rows'[o].tx_hash_ref \in Deliverers(o)' \cup {None}
    <3>1. entity[o].tx_hash_ref \in Deliverers(o) \cup {None}
      BY <1>11, <2>6 DEF CreateCatchUpdate, Deliverers
    <3> QED
      BY <2>2, <2>6, <3>1, UpdatedColumns
  <2>9. rows'[o].status = "completed" => Contested(o)
    BY <1>11, <2>4, <2>6 DEF CreateCatchUpdate
  <2>10. RowsInv'
    <3> HIDE DEF TypeInv, TypeOK, StatusInv, RowsInv, EntityInv, BaseInv,
                 CustodialInv, SweepInv, CallInv, Decided
    <3> QED
      BY <2>2, <2>5, <2>6, <2>7, <2>8, <2>9, RowsFrame DEF HashInv
  <2>11. EntityInv'
    BY <1>11, <2>2, UpdatedColumns DEF CreateCatchUpdate
  <2>12. BaseInv'
    <3>1. /\ sweeping' = sweeping
          /\ \A h \in Handler : pc'[h] \in Updating =>
               pc[h] \in Updating /\ base'[h] = base[h]
          /\ \A q \in Order : Decided(rows[q]) => Decided(rows'[q])
      BY <1>11, <2>2, <2>5 DEF CreateCatchUpdate, SaveUpdate
    <3> QED
      BY <3>1, BaseFrame
  <2>13. CustodialInv'
    <3>1. /\ \A p \in CustodialOrder \ {o} : pc'[p] = pc[p] /\ base'[p] = base[p]
          /\ pc'[o] \in {"reward", "done"}
      BY <1>11, <2>2 DEF CreateCatchUpdate, SaveUpdate
    <3> HIDE DEF TypeInv, TypeOK, StatusInv, RowsInv, EntityInv, BaseInv,
                 CustodialInv, SweepInv, CallInv, Decided
    <3> QED
      BY <2>2, <2>6, <3>1, CustodialFrame DEF HashInv
  <2>14. SweepInv'
    BY <1>11, <2>2, <2>4 DEF CreateCatchUpdate
  <2>15. CallInv'
    BY <1>11, <2>2, <2>6 DEF CreateCatchUpdate, SaveUpdate
  <2> QED
    BY <2>10, <2>11, <2>12, <2>13, <2>14, <2>15
<1>12. ASSUME NEW o \in Order, InitValidate(o)
      PROVE  HashInv'
  BY <1>12 DEF InitValidate
<1>13. ASSUME NEW o \in Order, InitPrice(o)
      PROVE  HashInv'
  BY <1>13 DEF InitPrice, CalculateUSDValue
<1>14. ASSUME NEW o \in Order, InitInsert(o)
      PROVE  HashInv'
  <2>1. rows[o].status = "none" /\ pc[o] = "insert"
    BY <1>14 DEF Opened, InitInsert
  <2>10. RowsInv'
    BY <1>14, <2>1 DEF InitInsert, SaveInsert
  <2>11. EntityInv'
    BY <1>14, <2>1 DEF InitInsert, SaveInsert
  <2>12. BaseInv'
    <3>1. /\ sweeping' = sweeping
          /\ \A h \in Handler : pc'[h] \in Updating =>
               pc[h] \in Updating /\ base'[h] = base[h]
          /\ \A q \in Order : Decided(rows[q]) => Decided(rows'[q])
      BY <1>14, <2>1 DEF InitInsert, SaveInsert
    <3> QED
      BY <3>1, BaseFrame
  <2>13. CustodialInv'
    BY <1>14, <2>1 DEF InitInsert, SaveInsert
  <2>14. SweepInv'
    BY <1>14, <2>1 DEF InitInsert, SaveInsert
  <2>15. CallInv'
    BY <1>14, <2>1 DEF InitInsert, SaveInsert
  <2> QED
    BY <2>10, <2>11, <2>12, <2>13, <2>14, <2>15
<1>15. ASSUME NEW o \in Order, InitBuild(o)
      PROVE  HashInv'
  BY <1>15 DEF InitBuild
<1>16. ASSUME NEW o \in Order, ClientPay(o)
      PROVE  HashInv'
  BY <1>16 DEF ClientPay
<1>17. ASSUME NEW o \in Order, OrderAges(o)
      PROVE  HashInv'
  BY <1>17 DEF OrderAges
<1>18. ASSUME NEW c \in Call, NEW o \in Order, CompleteLoad(c, o)
      PROVE  HashInv'
  BY <1>18 DEF CompleteLoad, Asks
<1>19. ASSUME NEW c \in Call, CompleteLookup(c)
      PROVE  HashInv'
  BY <1>19 DEF CompleteLookup
<1>20. ASSUME NEW c \in Call, CompletePrice(c)
      PROVE  HashInv'
  BY <1>20 DEF CompletePrice, CalculateUSDValue
<1>21. ASSUME NEW c \in Call, CompleteDeliver(c)
      PROVE  HashInv'
  BY <1>21 DEF CompleteDeliver, SendOutputTokens
<1>22. ASSUME NEW c \in Call, CompleteSave(c)
      PROVE  HashInv'
  BY <1>22 DEF CompleteSave, SaveSelect
<1>23. ASSUME NEW c \in Call, CompleteUpdate(c)
      PROVE  HashInv'
  <2>1. pc[c] = "completeUpdate" /\ c \in Handler /\ SaveUpdate(c, "reward")
    BY <1>23 DEF CompleteUpdate
  <2>0. PICK q \in Order : q = OrderOf(c)
    BY <2>1, OrderOfType
  <2>2. /\ pc' = [pc EXCEPT ![c] = "reward"]
        /\ \A p \in Order : p # q => rows'[p] = rows[p]
        /\ rows'[q] = Updated(rows[q], entity[c], base[c])
        /\ \A h \in Handler \ {c} : base'[h] = base[h]
    BY <2>0, <2>1, SaveUpdateRow DEF SaveUpdate
  <2>3. /\ entity' = entity /\ target' = target /\ delivered' = delivered
        /\ sweep' = sweep /\ sweeping' = sweeping
    BY <1>23 DEF CompleteUpdate
  <2>4. /\ Decided(rows'[q])
        /\ rows'[q].tx_hash_send \in Payments(q)' \cup {None}
        /\ rows'[q].tx_hash_ref \in Deliverers(q)' \cup {None}
        /\ (rows'[q].status = "completed" /\ ~Contested(q)) =>
             rows'[q].tx_hash_send # None /\ rows'[q].tx_hash_ref # None
        /\ rows'[q].status = "failed" => rows[q].status = "failed"
        /\ rows[q].tx_hash_send # None => rows'[q].tx_hash_send # None
        /\ rows[q].tx_hash_ref # None => rows'[q].tx_hash_ref # None
    <3> HIDE DEF TypeInv, TypeOK, StatusInv, RowsInv, EntityInv, BaseInv,
                 CustodialInv, SweepInv, CallInv, Decided
    <3> QED
      BY <2>0, <2>1, <2>2, CompletingWrite
  <2>5. /\ c \in CustodialOrder => q = c
        /\ c \notin CustodialOrder /\ q \in CustodialOrder => Contested(q)
    BY <1>23, <2>0, <2>1, SavesDelivery, OrderOfValue DEF CompleteUpdate
  <2>10. RowsInv'
    <3> HIDE DEF TypeInv, TypeOK, StatusInv, RowsInv, EntityInv, BaseInv,
                 CustodialInv, SweepInv, CallInv, Decided
    <3> QED
      BY <2>2, <2>4, RowsFrame DEF HashInv
  <2>11. EntityInv'
    BY <2>0, <2>1, <2>2, <2>3
  <2>12. BaseInv'
    <3>1. /\ sweeping' = sweeping
          /\ \A h \in Handler : pc'[h] \in Updating =>
               pc[h] \in Updating /\ base'[h] = base[h]
          /\ \A p \in Order : Decided(rows[p]) => Decided(rows'[p])
      BY <2>0, <2>1, <2>2, <2>3, <2>4
    <3> QED
      BY <3>1, BaseFrame
  <2>13. CustodialInv'
    <3>1. \A p \in CustodialOrder \ {q} : pc'[p] = pc[p] /\ base'[p] = base[p]
      BY <2>0, <2>1, <2>2, <2>5, OrderOfValue
    <3>2. q \in CustodialOrder => Contested(q) \/ pc'[q] \in {"reward", "done"}
      BY <2>0, <2>1, <2>2, <2>5
    <3> HIDE DEF TypeInv, TypeOK, StatusInv, RowsInv, EntityInv, BaseInv,
                 CustodialInv, SweepInv, CallInv, Decided
    <3> QED
      BY <2>2, <2>4, <3>1, <3>2, CustodialFrame DEF HashInv
  <2>14. SweepInv'
    <3>1. q \in CustodialOrder => Contested(q)
      BY <2>1, <2>5, OrderOfValue, <2>0
    <3>2. \A p \in Order : pc'[p] = pc[p]
      BY <2>2
    <3>3. rows[q].status = "failed" =>
            \/ ~ \E s \in sweeping : s.order = q
            \/ Contested(q)
      BY <3>1
    <3>4. \A p \in Order : rows'[p].status = "failed" => rows[p].status = "failed"
      BY <2>2, <2>4
    <3> QED
      BY <2>2, <2>3, <3>2, <3>3, <3>4
  <2>15. CallInv'
    BY <2>0, <2>1, <2>2, <2>3, <2>4
  <2> QED
    BY <2>10, <2>11, <2>12, <2>13, <2>14, <2>15
<1>24. ASSUME NEW c \in Call, CompleteReward(c)
      PROVE  HashInv'
  BY <1>24 DEF CompleteReward, RequestReward
<1>25. ASSUME SweepStart
      PROVE  HashInv'
  <2>10. RowsInv'
    BY <1>25 DEF SweepStart, Expired
  <2>11. EntityInv'
    BY <1>25 DEF SweepStart, Expired
  <2>12. BaseInv'
    BY <1>25 DEF SweepStart, Expired
  <2>13. CustodialInv'
    BY <1>25 DEF SweepStart, Expired
  <2>14. SweepInv'
    BY <1>25 DEF SweepStart, Expired
  <2>15. CallInv'
    BY <1>25 DEF SweepStart, Expired
  <2> QED
    BY <2>10, <2>11, <2>12, <2>13, <2>14, <2>15
<1>26. ASSUME NEW e \in sweep, SweepSelect(e)
      PROVE  HashInv'
  <2>10. RowsInv'
    BY <1>26 DEF SweepSelect
  <2>11. EntityInv'
    BY <1>26 DEF SweepSelect
  <2>12. BaseInv'
    BY <1>26 DEF SweepSelect
  <2>13. CustodialInv'
    BY <1>26 DEF SweepSelect
  <2>14. SweepInv'
    BY <1>26 DEF SweepSelect
  <2>15. CallInv'
    BY <1>26 DEF SweepSelect
  <2> QED
    BY <2>10, <2>11, <2>12, <2>13, <2>14, <2>15
<1>27. ASSUME NEW s \in sweeping, SweepUpdate(s)
      PROVE  HashInv'
  <2>10. RowsInv'
    BY <1>27, UpdatedColumns DEF SweepUpdate
  <2>11. EntityInv'
    BY <1>27, UpdatedColumns DEF SweepUpdate
  <2>12. BaseInv'
    BY <1>27, UpdatedColumns DEF SweepUpdate
  <2>13. CustodialInv'
    BY <1>27, UpdatedColumns DEF SweepUpdate
  <2>14. SweepInv'
    BY <1>27, UpdatedColumns DEF SweepUpdate
  <2>15. CallInv'
    BY <1>27, UpdatedColumns DEF SweepUpdate
  <2> QED
    BY <2>10, <2>11, <2>12, <2>13, <2>14, <2>15
<1>28. ASSUME SweepAbort
      PROVE  HashInv'
  BY <1>28 DEF SweepAbort
<1>29. ASSUME CacheExpires
      PROVE  HashInv'
  BY <1>29 DEF CacheExpires
<1>30. ASSUME Crash
      PROVE  HashInv'
  BY <1>30 DEF Crash
<1>31. CASE UNCHANGED vars
  BY <1>31 DEF vars
<1>32. ASSUME PriceFetched
      PROVE  HashInv'
  BY <1>32 DEF PriceFetched
<1>33. ASSUME NEW t \in Elsewhere, OtherPays(t)
      PROVE  HashInv'
  BY <1>33 DEF OtherPays
<1> QED
  BY <1>1, <1>2, <1>3, <1>4, <1>5, <1>6, <1>7, <1>8, <1>9, <1>10, <1>11,
     <1>12, <1>13, <1>14, <1>15, <1>16, <1>17, <1>18, <1>19, <1>20, <1>21,
     <1>22, <1>23, <1>24, <1>25, <1>26, <1>27, <1>28, <1>29, <1>30, <1>31,
     <1>32, <1>33
     DEF Next, Create, InitWeb3, CompleteWeb3

\* Every hash in every row is of a transfer on the ledger that a handler which
\* delivered this order went by or made; and a completed row has both, whatever
\* saves overlapped, unless create and a call worked on the same order.
THEOREM HashesReal == Spec => []HashesAreReal
<1>1. PaidInv /\ HashInv => HashesAreReal
  BY DEF PaidInv, DeliveredAgainstTransfer, HashInv, RowsInv, Real, Payments,
         Deliverers, HashesAreReal
<1> QED
  BY InitTypeInv, NextTypeInv, InitPaidInv, NextPaidInv, InitStatusInv,
     NextStatusInv, InitHashInv, NextHashInv, <1>1, PTL DEF Spec

-----------------------------------------------------------------------------
(* Rewards, and what a completed row may become.                           *)

\* Who may write a row that exists.
LEMMA RowWriters ==
  ASSUME TypeInv, StatusInv, [Next]_vars, NEW q \in Order, rows'[q] # rows[q]
  PROVE  \/ rows[q].status = "none" /\ rows'[q] = PendingRow
         \/ /\ q \in CustodialOrder /\ pc[q] \in Updating
            /\ rows'[q] = Updated(rows[q], entity[q], base[q])
         \/ \E c \in Call : /\ target[c] = q /\ pc[c] = "completeUpdate"
                            /\ rows'[q] = Updated(rows[q], entity[c], base[c])
         \/ \E s \in sweeping : s.order = q /\ rows'[q] = Updated(rows[q], s.row, s.base)
<1>1. \/ \E o \in Order : CreateInsert(o) \/ InitInsert(o)
      \/ \E o \in Order : CreateCompleteUpdate(o) \/ CreateCatchUpdate(o)
      \/ \E c \in Call : CompleteUpdate(c)
      \/ \E s \in sweeping : SweepUpdate(s)
  BY DEF Next, vars, Create, InitWeb3, CompleteWeb3, CreateValidate, CreatePrice,
         CreateTokenAccount, CreatePay, CreateDeliver, CreateComplete, CreateReward,
         CreateCatch, InitValidate, InitPrice, InitBuild, ClientPay, OtherPays, OrderAges,
         CompleteLoad, Asks, CompleteLookup, CompletePrice, CompleteDeliver, CompleteSave,
         CompleteReward, SweepStart, SweepSelect, SweepAbort, CacheExpires, PriceFetched,
         Crash
<1>2. ASSUME NEW o \in Order, CreateInsert(o) \/ InitInsert(o)
      PROVE  rows[q].status = "none" /\ rows'[q] = PendingRow
  BY <1>2 DEF CreateInsert, InitInsert, SaveInsert, StatusInv, Opened, TypeInv, TypeOK
<1>3. ASSUME NEW o \in Order, CreateCompleteUpdate(o) \/ CreateCatchUpdate(o)
      PROVE  /\ q \in CustodialOrder /\ pc[q] \in Updating
             /\ rows'[q] = Updated(rows[q], entity[q], base[q])
  BY <1>3, OrderOfValue
     DEF CreateCompleteUpdate, CreateCatchUpdate, SaveUpdate, Updating, TypeInv, TypeOK
<1>4. ASSUME NEW c \in Call, CompleteUpdate(c)
      PROVE  /\ target[c] = q /\ pc[c] = "completeUpdate"
             /\ rows'[q] = Updated(rows[q], entity[c], base[c])
  BY <1>4, OrderOfValue DEF CompleteUpdate, SaveUpdate, TypeInv, TypeOK, Started, Order
<1>5. ASSUME NEW s \in sweeping, SweepUpdate(s)
      PROVE  s.order = q /\ rows'[q] = Updated(rows[q], s.row, s.base)
  BY <1>5 DEF SweepUpdate, TypeInv, TypeOK
<1> QED
  BY <1>1, <1>2, <1>3, <1>4, <1>5

\* A handler is moved by its own steps and by a restart only.
LEMMA HandlerMoves ==
  ASSUME TypeInv, [Next]_vars, NEW h \in Handler
  PROVE  \/ pc'[h] = pc[h] /\ entity'[h] = entity[h] /\ base'[h] = base[h]
         \/ h \in Order /\ (Create(h) \/ InitWeb3(h))
         \/ h \in Call /\ (CompleteWeb3(h) \/ \E o \in Order : CompleteLoad(h, o))
         \/ Crash
<1> USE DEF TypeInv, TypeOK, Goto
<1>1. ASSUME NEW o \in Order, Create(o), o # h
      PROVE  pc'[h] = pc[h] /\ entity'[h] = entity[h] /\ base'[h] = base[h]
  BY <1>1 DEF Create, CreateValidate, CreatePrice, CreateInsert, CreateTokenAccount,
              CreatePay, CreateDeliver, CreateComplete, CreateCompleteUpdate,
              CreateReward, CreateCatch, CreateCatchUpdate, CalculateUSDValue,
              SaveInsert, SendOutputTokens, SaveSelect, SaveUpdate, RequestReward
<1>2. ASSUME NEW o \in Order, InitWeb3(o), o # h
      PROVE  pc'[h] = pc[h] /\ entity'[h] = entity[h] /\ base'[h] = base[h]
  BY <1>2 DEF InitWeb3, InitValidate, InitPrice, InitInsert, InitBuild,
              CalculateUSDValue, SaveInsert
<1>3. ASSUME NEW c \in Call, CompleteWeb3(c), c # h
      PROVE  pc'[h] = pc[h] /\ entity'[h] = entity[h] /\ base'[h] = base[h]
  BY <1>3 DEF CompleteWeb3, CompleteLookup, CompletePrice, CompleteDeliver,
              CompleteSave, CompleteUpdate, CompleteReward, CalculateUSDValue,
              SendOutputTokens, SaveSelect, SaveUpdate, RequestReward
<1>4. ASSUME NEW c \in Call, NEW o \in Order, CompleteLoad(c, o), c # h
      PROVE  pc'[h] = pc[h] /\ entity'[h] = entity[h] /\ base'[h] = base[h]
  BY <1>4 DEF CompleteLoad, Asks
<1>5. \/ \E o \in Order : Create(o) \/ InitWeb3(o)
      \/ \E c \in Call : CompleteWeb3(c) \/ \E o \in Order : CompleteLoad(c, o)
      \/ Crash
      \/ pc' = pc /\ entity' = entity /\ base' = base
  BY DEF Next, vars, ClientPay, OtherPays, OrderAges, SweepStart, SweepSelect, SweepUpdate,
         SweepAbort, CacheExpires, PriceFetched
<1> QED
  BY <1>1, <1>2, <1>3, <1>4, <1>5

\* Where the copy of a handler that is about to update comes from.
LEMMA UpdatingFrom ==
  ASSUME TypeInv, [Next]_vars, NEW h \in Handler, pc'[h] \in Updating
  PROVE  \/ pc'[h] = pc[h] /\ base'[h] = base[h]
         \/ /\ pc[h] \in {"complete", "catch"} /\ rows' = rows
            /\ base'[h] = rows[OrderOf(h)]
<1> USE DEF TypeInv, TypeOK, Goto, Updating
<1>1. CASE Crash
  BY <1>1 DEF Crash, Resting
<1>2. CASE h \in Order /\ Create(h)
  BY <1>2 DEF Create, CreateValidate, CreatePrice, CreateInsert,
     CreateTokenAccount, CreatePay, CreateDeliver, CreateComplete,
     CreateCompleteUpdate, CreateReward, CreateCatch, CreateCatchUpdate,
     CalculateUSDValue, SaveInsert, SendOutputTokens, SaveSelect, SaveUpdate,
     RequestReward
<1>3. CASE h \in Order /\ InitWeb3(h)
  BY <1>3 DEF InitWeb3, InitValidate, InitPrice, InitInsert, InitBuild,
     CalculateUSDValue, SaveInsert
<1>4. CASE h \in Call /\ CompleteWeb3(h)
  BY <1>4 DEF CompleteWeb3, CompleteLookup, CompletePrice, CompleteDeliver,
     CompleteSave, CompleteUpdate, CompleteReward, CalculateUSDValue,
     SendOutputTokens, SaveSelect, SaveUpdate, RequestReward
<1>5. CASE h \in Call /\ \E o \in Order : CompleteLoad(h, o)
  BY <1>5 DEF CompleteLoad
<1> QED
  BY <1>1, <1>2, <1>3, <1>4, <1>5, HandlerMoves

Early == {"idle", "offered", "price", "insert", "ata", "pay", "build", "lookup", "deliver"}

\* The sweep, or the catch of the create handler, may have written FAILED.
Muddled(o) == o \in aged \/ entity[o].status = "failed"

\* The row may say something else than h recorded: the sweep or the catch may
\* have come by, or another handler that delivered the order.
Excused(h) ==
  \/ \E g \in delivered \ {h} : OrderOf(g) = OrderOf(h)
  \/ Muddled(OrderOf(h))

\* Who delivered is past that, and is not the handler of initWeb3Wallet; who was
\* rewarded is done; an entity is FAILED from the catch on.
DeliveredLate ==
  /\ \A h \in delivered : pc[h] \notin Early /\ h \notin Web3Order
  /\ \A h \in rewarded : /\ pc[h] = "done" /\ h \in delivered
                         /\ entity[h] = CompletedRow(h)
  /\ \A o \in Order : entity[o].status = "failed" =>
       pc[o] \in {"catchUpdate", "done"}

\* No row names a transfer before the handler that made it has saved it, and a
\* save that will not write all columns was overtaken.
RecordedOf(h) ==
  /\ pc[h] \in {"complete", "completeUpdate"} =>
       \A q \in Order : rows[q].tx_hash_ref # h
  /\ pc[h] = "completeUpdate" =>
       \/ base[h].tx_hash_ref = None /\ base[h].status # "completed"
       \/ Excused(h)
  /\ pc[h] = "reward" \/ h \in rewarded =>
       rows[OrderOf(h)] = CompletedRow(h) \/ Excused(h)

RecordedInv == \A h \in Handler : RecordedOf(h)

\* The sweep works on old orders only.
SweepAged ==
  /\ \A e \in sweep : e.order \in aged
  /\ \A s \in sweeping : s.order \in aged

\* Nobody finds a row FAILED, or completed without a transfer, unless the sweep
\* or the catch has come by.
QuietInv ==
  \A o \in Order : ~Muddled(o) =>
    /\ rows[o].status # "failed"
    /\ rows[o].status = "completed" => rows[o].tx_hash_ref # None
    /\ \A h \in Handler : (pc[h] \in Updating /\ OrderOf(h) = o) =>
         /\ base[h].status # "failed"
         /\ base[h].tx_hash_ref # None => rows[o].tx_hash_ref # None

RewardInv == DeliveredLate /\ RecordedInv /\ QuietInv /\ SweepAged

\* A FAILED entity is final.
LEMMA MuddledStays ==
  ASSUME TypeInv, DeliveredLate, [Next]_vars, NEW o \in Order, Muddled(o)
  PROVE  Muddled(o)'
<1>1. CASE o \in aged
  BY <1>1, NextMonotone DEF Muddled
<1>2. CASE entity[o].status = "failed"
  <2>1. pc[o] \in {"catchUpdate", "done"} /\ o \in Handler /\ o \notin Call
    BY <1>2, OrdersAssumption DEF DeliveredLate, Handler
  <2>2. ~InitWeb3(o) /\ (Create(o) => CreateCatchUpdate(o))
    BY <2>1 DEF InitWeb3, InitValidate, InitPrice, InitInsert, InitBuild, Create,
       CreateValidate, CreatePrice, CreateInsert, CreateTokenAccount, CreatePay,
       CreateDeliver, CreateComplete, CreateCompleteUpdate, CreateReward,
       CreateCatch
  <2>3. entity'[o] = entity[o]
    BY <2>1, <2>2, HandlerMoves DEF CreateCatchUpdate, Crash
  <2> QED
    BY <1>2, <2>3 DEF Muddled
<1> QED
  BY <1>1, <1>2 DEF Muddled

LEMMA ExcusedStays ==
  ASSUME TypeInv, PaidInv, DeliveredLate, [Next]_vars,
         NEW h \in Handler, pc[h] # "idle", Excused(h)
  PROVE  Excused(h)'
<1>1. PICK o \in Order : o = OrderOf(h)
  BY OrderOfType
<1>2. OrderOf(h)' = o
  BY <1>1, OrderOfStable
<1>3. Muddled(o) => Muddled(o)'
  BY MuddledStays
<1>4. \A g \in Deliverers(o) : g \in Deliverers(o)'
  BY LedgerGrows
<1>5. Excused(h)' <=> (\E g \in delivered' \ {h} : OrderOf(g)' = o) \/ Muddled(o)'
  BY <1>2 DEF Excused, Muddled
<1> QED
  BY <1>1, <1>3, <1>4, <1>5 DEF Excused, Deliverers

LEMMA NextDeliveredLate ==
  TypeInv /\ PaidInv /\ StatusInv /\ DeliveredLate /\ [Next]_vars => DeliveredLate'
<1> SUFFICES ASSUME TypeInv, PaidInv, StatusInv, DeliveredLate, [Next]_vars
             PROVE  DeliveredLate'
  OBVIOUS
<1> USE OrderOfStable, OrderOfValue, CompletedStable, CompletedColumns, FailedType,
        WrittenStatus, OrdersAssumption
        DEF TypeInv, TypeOK, PaidInv, DeliveredStarted, StatusInv, Saving,
            DeliveredLate, Early, Goto, Order, Handler
<1>1. ASSUME NEW o \in Order, CreateValidate(o)
      PROVE  DeliveredLate'
  BY <1>1 DEF CreateValidate
<1>2. ASSUME NEW o \in Order, CreatePrice(o)
      PROVE  DeliveredLate'
  BY <1>2 DEF CreatePrice, CalculateUSDValue
<1>3. ASSUME NEW o \in Order, CreateInsert(o)
      PROVE  DeliveredLate'
  BY <1>3 DEF CreateInsert, SaveInsert
<1>4. ASSUME NEW o \in Order, CreateTokenAccount(o)
      PROVE  DeliveredLate'
  BY <1>4 DEF CreateTokenAccount
<1>5. ASSUME NEW o \in Order, CreatePay(o)
      PROVE  DeliveredLate'
  BY <1>5 DEF CreatePay
<1>6. ASSUME NEW o \in Order, CreateDeliver(o)
      PROVE  DeliveredLate'
  BY <1>6 DEF CreateDeliver, SendOutputTokens
<1>7. ASSUME NEW o \in Order, CreateComplete(o)
      PROVE  DeliveredLate'
  BY <1>7 DEF CreateComplete, SaveSelect
<1>8. ASSUME NEW o \in Order, CreateCompleteUpdate(o)
      PROVE  DeliveredLate'
  BY <1>8 DEF CreateCompleteUpdate, SaveUpdate
<1>9. ASSUME NEW o \in Order, CreateReward(o)
      PROVE  DeliveredLate'
  BY <1>9 DEF CreateReward, RequestReward
<1>10. ASSUME NEW o \in Order, CreateCatch(o)
       PROVE  DeliveredLate'
  BY <1>10 DEF CreateCatch, SaveSelect
<1>11. ASSUME NEW o \in Order, CreateCatchUpdate(o)
       PROVE  DeliveredLate'
  BY <1>11 DEF CreateCatchUpdate, SaveUpdate
<1>12. ASSUME NEW o \in Order, InitValidate(o)
       PROVE  DeliveredLate'
  BY <1>12 DEF InitValidate
<1>13. ASSUME NEW o \in Order, InitPrice(o)
       PROVE  DeliveredLate'
  BY <1>13 DEF InitPrice, CalculateUSDValue
<1>14. ASSUME NEW o \in Order, InitInsert(o)
       PROVE  DeliveredLate'
  BY <1>14 DEF InitInsert, SaveInsert
<1>15. ASSUME NEW o \in Order, InitBuild(o)
       PROVE  DeliveredLate'
  BY <1>15 DEF InitBuild
<1>16. ASSUME NEW o \in Order, ClientPay(o)
       PROVE  DeliveredLate'
  BY <1>16 DEF ClientPay
<1>17. ASSUME NEW o \in Order, OrderAges(o)
       PROVE  DeliveredLate'
  BY <1>17 DEF OrderAges
<1>18. ASSUME NEW c \in Call, NEW o \in Order, CompleteLoad(c, o)
       PROVE  DeliveredLate'
  <2>1. c \notin delivered /\ c \notin rewarded /\ c \notin Order
    BY <1>18 DEF CompleteLoad, Asks
  <2>2. \A h \in Handler \ {c} : pc'[h] = pc[h] /\ entity'[h] = entity[h]
    BY <1>18 DEF CompleteLoad
  <2>3. delivered' = delivered /\ rewarded' = rewarded
    BY <1>18 DEF CompleteLoad
  <2> QED
    BY <2>1, <2>2, <2>3
<1>19. ASSUME NEW c \in Call, CompleteLookup(c)
       PROVE  DeliveredLate'
  BY <1>19 DEF CompleteLookup
<1>20. ASSUME NEW c \in Call, CompletePrice(c)
       PROVE  DeliveredLate'
  BY <1>20 DEF CompletePrice, CalculateUSDValue
<1>21. ASSUME NEW c \in Call, CompleteDeliver(c)
       PROVE  DeliveredLate'
  BY <1>21 DEF CompleteDeliver, SendOutputTokens
<1>22. ASSUME NEW c \in Call, CompleteSave(c)
       PROVE  DeliveredLate'
  BY <1>22 DEF CompleteSave, SaveSelect
<1>23. ASSUME NEW c \in Call, CompleteUpdate(c)
       PROVE  DeliveredLate'
  BY <1>23 DEF CompleteUpdate, SaveUpdate
<1>24. ASSUME NEW c \in Call, CompleteReward(c)
       PROVE  DeliveredLate'
  BY <1>24 DEF CompleteReward, RequestReward
<1>25. ASSUME SweepStart
       PROVE  DeliveredLate'
  BY <1>25 DEF SweepStart, Expired
<1>26. ASSUME NEW e \in sweep, SweepSelect(e)
       PROVE  DeliveredLate'
  BY <1>26 DEF SweepSelect, SweepEntry, SweepingEntry
<1>27. ASSUME NEW s \in sweeping, SweepUpdate(s)
       PROVE  DeliveredLate'
  BY <1>27 DEF SweepUpdate, SweepEntry, SweepingEntry
<1>28. ASSUME SweepAbort
       PROVE  DeliveredLate'
  BY <1>28 DEF SweepAbort
<1>29. ASSUME CacheExpires
       PROVE  DeliveredLate'
  BY <1>29 DEF CacheExpires
<1>30. ASSUME PriceFetched
       PROVE  DeliveredLate'
  BY <1>30 DEF PriceFetched
<1>31. ASSUME Crash
       PROVE  DeliveredLate'
  BY <1>31 DEF Crash
<1>32. CASE UNCHANGED vars
  BY <1>32 DEF vars
<1>33. ASSUME NEW t \in Elsewhere, OtherPays(t)
      PROVE  DeliveredLate'
  BY <1>33 DEF OtherPays
<1> QED
  BY <1>1, <1>2, <1>3, <1>4, <1>5, <1>6, <1>7, <1>8, <1>9, <1>10, <1>11, <1>12,
     <1>13, <1>14, <1>15, <1>16, <1>17, <1>18, <1>19, <1>20, <1>21, <1>22,
     <1>23, <1>24, <1>25, <1>26, <1>27, <1>28, <1>29, <1>30, <1>31, <1>32, <1>33
     DEF Next, Create, InitWeb3, CompleteWeb3

LEMMA NextSweepAged == TypeInv /\ SweepAged /\ [Next]_vars => SweepAged'
<1> SUFFICES ASSUME TypeInv, SweepAged, [Next]_vars
             PROVE  SweepAged'
  OBVIOUS
<1>1. /\ sweep' \subseteq sweep \cup {[order |-> o, row |-> rows[o]] : o \in aged}
      /\ \A s \in sweeping' : s \in sweeping \/ \E e \in sweep : s.order = e.order
  BY DEF Next, vars, Create, InitWeb3, CompleteWeb3, CreateValidate, CreatePrice,
         CreateInsert, CreateTokenAccount, CreatePay, CreateDeliver, CreateComplete,
         CreateCompleteUpdate, CreateReward, CreateCatch, CreateCatchUpdate, InitValidate,
         InitPrice, InitInsert, InitBuild, ClientPay, OtherPays, OrderAges, CompleteLoad,
         Asks, CompleteLookup, CompletePrice, CompleteDeliver, CompleteSave, CompleteUpdate,
         CompleteReward, SweepStart, SweepSelect, SweepUpdate, SweepAbort, CacheExpires,
         PriceFetched, Crash, Expired
<1>2. \A e \in sweep' : e.order \in aged
  BY <1>1 DEF SweepAged
<1> QED
  BY <1>1, <1>2, NextMonotone DEF SweepAged

\* What a started handler keeps in a step.
LEMMA HandlerKeeps ==
  ASSUME TypeInv, PaidInv, DeliveredLate, [Next]_vars,
         NEW h \in Handler, pc[h] \notin {"idle", "lookup"}
  PROVE  /\ OrderOf(h) \in Order
         /\ OrderOf(h)' = OrderOf(h)
         /\ CompletedRow(h)' = CompletedRow(h)
         /\ Excused(h) => Excused(h)'
<1>1. OrderOf(h) \in Order /\ OrderOf(h)' = OrderOf(h)
  BY OrderOfType, OrderOfStable
<1> QED
  BY <1>1, ExcusedStays, CompletedStable

\* A step that writes no row and starts no save or reward of h.
LEMMA RecordedQuiet ==
  ASSUME TypeInv, PaidInv, DeliveredLate, [Next]_vars, NEW h \in Handler, RecordedOf(h),
         rows' = rows,
         pc'[h] \in {"complete", "completeUpdate", "reward"} => pc'[h] = pc[h],
         pc'[h] = "completeUpdate" => base'[h] = base[h],
         h \in rewarded' => h \in rewarded \/ pc[h] = "reward"
  PROVE  RecordedOf(h)'
<1>1. CASE pc[h] \in {"idle", "lookup"}
  <2>1. pc'[h] \notin {"complete", "completeUpdate", "reward"} /\ h \notin rewarded'
    BY <1>1 DEF DeliveredLate
  <2> QED
    BY <2>1 DEF RecordedOf
<1>2. CASE pc[h] \notin {"idle", "lookup"}
  BY <1>2, HandlerKeeps DEF RecordedOf
<1> QED
  BY <1>1, <1>2

\* A row is written, with the hash of another handler's transfer or none.
LEMMA RecordedWrite ==
  ASSUME TypeInv, PaidInv, DeliveredLate, [Next]_vars, NEW h \in Handler, RecordedOf(h),
         NEW q \in Order, NEW ref, ref # h,
         \A p \in Order : p # q => rows'[p] = rows[p],
         rows'[q].tx_hash_ref \in {rows[q].tx_hash_ref, ref},
         pc'[h] = pc[h] \/ pc'[h] \notin {"complete", "completeUpdate", "reward"},
         pc'[h] = "completeUpdate" => base'[h] = base[h],
         rewarded' = rewarded,
         (pc[h] = "reward" \/ h \in rewarded) /\ OrderOf(h) = q /\ rows'[q] # rows[q]
           => Excused(h)'
  PROVE  RecordedOf(h)'
<1>1. CASE pc[h] \in {"idle", "lookup"}
  <2>1. pc'[h] \notin {"complete", "completeUpdate", "reward"} /\ h \notin rewarded'
    BY <1>1 DEF DeliveredLate
  <2> QED
    BY <2>1 DEF RecordedOf
<1>2. CASE pc[h] \notin {"idle", "lookup"}
  BY <1>2, HandlerKeeps DEF RecordedOf
<1> QED
  BY <1>1, <1>2

\* The three steps of a handler that change what is known of its record.
LEMMA RecordedDeliver ==
  ASSUME TypeInv, PaidInv, HashInv, RewardInv, [Next]_vars,
         NEW g \in Handler, pc[g] = "deliver",
         rows' = rows, base' = base, rewarded' = rewarded,
         \A h \in Handler \ {g} : pc'[h] = pc[h],
         pc'[g] \in {"complete", "catch", "done"}
  PROVE  RecordedInv'
<1>1. DeliveredLate /\ \A h \in Handler : RecordedOf(h)
  BY DEF RewardInv, RecordedInv
<1>2. g \notin delivered /\ g \notin rewarded /\ g # None
  BY <1>1, NoneAssumption DEF DeliveredLate, Early
<1>3. \A q \in Order : rows[q].tx_hash_ref # g
  BY <1>2 DEF HashInv, RowsInv, Real, Deliverers
<1>4. RecordedOf(g)'
  BY <1>2, <1>3 DEF RecordedOf
<1>5. \A h \in Handler \ {g} : RecordedOf(h)'
  BY <1>1, RecordedQuiet
<1> QED
  BY <1>4, <1>5 DEF RecordedInv

LEMMA RecordedSelect ==
  ASSUME TypeInv, PaidInv, StatusInv, HashInv, RewardInv, [Next]_vars,
         NEW g \in Handler, pc[g] = "complete",
         rows' = rows, rewarded' = rewarded,
         \A h \in Handler \ {g} : pc'[h] = pc[h] /\ base'[h] = base[h],
         \/ pc'[g] = "completeUpdate" /\ base'[g] = rows[OrderOf(g)]
         \/ pc'[g] \in {"catch", "done"}
  PROVE  RecordedInv'
<1>1. DeliveredLate /\ \A h \in Handler : RecordedOf(h)
  BY DEF RewardInv, RecordedInv
<1>2. /\ OrderOf(g) \in Order /\ (Excused(g) => Excused(g)')
      /\ g \in delivered /\ g \notin rewarded
      /\ \A q \in Order : rows[q].tx_hash_ref # g
  BY <1>1, HandlerKeeps, SavesDelivery DEF RecordedOf, DeliveredLate
<1>3. \/ /\ rows[OrderOf(g)].tx_hash_ref = None
         /\ rows[OrderOf(g)].status # "completed"
      \/ Excused(g)
  <2>1. CASE rows[OrderOf(g)].tx_hash_ref = None
    BY <1>2, <2>1 DEF RewardInv, QuietInv, Excused
  <2>2. CASE rows[OrderOf(g)].tx_hash_ref # None
    BY <1>2, <2>2 DEF HashInv, RowsInv, Real, Deliverers, Excused
  <2> QED
    BY <2>1, <2>2
<1>4. RecordedOf(g)'
  BY <1>2, <1>3 DEF RecordedOf
<1>5. \A h \in Handler \ {g} : RecordedOf(h)'
  BY <1>1, RecordedQuiet
<1> QED
  BY <1>4, <1>5 DEF RecordedInv

LEMMA RecordedUpdate ==
  ASSUME TypeInv, PaidInv, StatusInv, HashInv, RewardInv, [Next]_vars,
         NEW g \in Handler, pc[g] = "completeUpdate",
         SaveUpdate(g, "reward"), rewarded' = rewarded
  PROVE  RecordedInv'
<1>1. DeliveredLate /\ \A h \in Handler : RecordedOf(h)
  BY DEF RewardInv, RecordedInv
<1>2. PICK q \in Order : q = OrderOf(g)
  BY OrderOfType
<1>3. /\ pc' = [pc EXCEPT ![g] = "reward"]
      /\ \A p \in Order : p # q => rows'[p] = rows[p]
      /\ rows'[q] = Updated(rows[q], entity[g], base[g])
      /\ base' = [base EXCEPT ![g] = NoRow]
  BY <1>2, SaveUpdateRow DEF SaveUpdate
<1>4. /\ g \in delivered /\ g \notin rewarded /\ entity[g] = CompletedRow(g)
      /\ CompletedRow(g)' = CompletedRow(g)
      /\ OrderOf(g)' = q /\ (Excused(g) => Excused(g)')
      /\ Payment(g) # None /\ g # None
  BY <1>1, <1>2, HandlerKeeps, SavesDelivery
     DEF StatusInv, Saving, DeliveredLate
<1>5. /\ entity[g].status = "completed" /\ entity[g].tx_hash_send = Payment(g)
      /\ entity[g].tx_hash_ref = g
  BY <1>4, CompletedColumns
<1>6. ASSUME base[g].tx_hash_ref = None, base[g].status # "completed", ~Excused(g)
      PROVE  rows'[q] = CompletedRow(g)
  <2>1. base[g].status # "failed"
    BY <1>2, <1>6 DEF RewardInv, QuietInv, Excused, Updating
  <2>2. base[g].tx_hash_send = None
    BY <1>6, <2>1 DEF HashInv, BaseInv, Updating, Decided, Blank
  <2> QED
    BY <1>3, <1>4, <1>5, <1>6, <2>2 DEF Updated, CompletedRow
<1>7. rows'[q] = CompletedRow(g) \/ Excused(g)
  BY <1>1, <1>6 DEF RecordedOf
<1>8. RecordedOf(g)'
  <2>1. pc'[g] = "reward"
    BY <1>3 DEF TypeInv, TypeOK
  <2> QED
    BY <1>4, <1>7, <2>1 DEF RecordedOf
<1>9. ASSUME NEW h \in Handler, h # g
      PROVE  RecordedOf(h)'
  <2>1. (pc[h] = "reward" \/ h \in rewarded) /\ OrderOf(h) = q => Excused(h)'
    <3>1. OrderOf(h) = q => Excused(h)
      BY <1>2, <1>4, <1>9 DEF Excused
    <3>2. pc[h] = "reward" \/ h \in rewarded => pc[h] \notin {"idle", "lookup"}
      BY <1>1 DEF DeliveredLate
    <3> QED
      BY <1>1, <3>1, <3>2, HandlerKeeps
  <2>2. /\ rows'[q].tx_hash_ref \in {rows[q].tx_hash_ref, g}
        /\ pc'[h] = pc[h] /\ base'[h] = base[h]
    BY <1>3, <1>5, <1>9, UpdatedColumns DEF TypeInv, TypeOK
  <2> QED
    BY <1>1, <1>3, <1>9, <2>1, <2>2, RecordedWrite
<1> QED
  BY <1>8, <1>9 DEF RecordedInv

LEMMA NextRecordedInv ==
  TypeInv /\ PaidInv /\ StatusInv /\ HashInv /\ RewardInv /\ [Next]_vars => RecordedInv'
<1> SUFFICES ASSUME TypeInv, PaidInv, StatusInv, HashInv, RewardInv, [Next]_vars
             PROVE  RecordedInv'
  OBVIOUS
<1>old. DeliveredLate /\ SweepAged /\ \A h \in Handler : RecordedOf(h)
  BY DEF RewardInv, RecordedInv
<1>quiet. ASSUME rows' = rows,
             \A h \in Handler : /\ pc'[h] \in {"complete", "completeUpdate", "reward"}
                                     => pc'[h] = pc[h]
                                /\ pc'[h] = "completeUpdate" => base'[h] = base[h]
                                /\ h \in rewarded' => h \in rewarded \/ pc[h] = "reward"
      PROVE  RecordedInv'
  BY <1>old, <1>quiet, RecordedQuiet DEF RecordedInv
<1>1. ASSUME NEW o \in Order, CreateValidate(o)
      PROVE  RecordedInv'
  BY <1>1, <1>quiet DEF CreateValidate, Goto, TypeInv, TypeOK, Order, Handler
<1>2. ASSUME NEW o \in Order, CreatePrice(o)
      PROVE  RecordedInv'
  BY <1>2, <1>quiet
     DEF CreatePrice, CalculateUSDValue, Goto, TypeInv, TypeOK, Order, Handler
<1>3. ASSUME NEW o \in Order, CreateInsert(o)
      PROVE  RecordedInv'
  <2>1. /\ rows[o].status = "none" /\ pc[o] = "insert"
        /\ rows' = rows \/ rows' = [rows EXCEPT ![o] = PendingRow]
        /\ base' = base /\ rewarded' = rewarded
        /\ \A h \in Handler : \/ pc'[h] = pc[h]
                              \/ h = o /\ pc'[h] \in {"ata", "build", "done"}
    BY <1>3 DEF CreateInsert, SaveInsert, StatusInv, Opened, Goto, TypeInv, TypeOK
  <2>2. ASSUME NEW h \in Handler
        PROVE  RecordedOf(h)'
    <3>1. CASE rows' = rows
      BY <1>old, <2>1, <3>1, RecordedQuiet
    <3>2. CASE rows' = [rows EXCEPT ![o] = PendingRow]
      <4>1. /\ \A p \in Order : p # o => rows'[p] = rows[p]
            /\ rows'[o].tx_hash_ref = None
        BY <3>2, BlankRows DEF TypeInv, TypeOK, Blank
      <4>2. pc[h] = "reward" \/ h \in rewarded => OrderOf(h) # o \/ Excused(h)
        BY <1>old, <2>1, CompletedColumns DEF RecordedOf
      <4>3. (pc[h] = "reward" \/ h \in rewarded) /\ OrderOf(h) = o => Excused(h)'
        BY <1>old, <4>2, HandlerKeeps DEF DeliveredLate
      <4>4. h # None
        BY NoneAssumption
      <4>5. /\ pc'[h] = pc[h] \/ pc'[h] \notin {"complete", "completeUpdate", "reward"}
            /\ rows'[o].tx_hash_ref \in {rows[o].tx_hash_ref, None}
        BY <2>1, <4>1
      <4> QED
        BY <1>old, <2>1, <4>1, <4>3, <4>4, <4>5, RecordedWrite
    <3> QED
      BY <2>1, <3>1, <3>2
  <2> QED
    BY <2>2 DEF RecordedInv
<1>4. ASSUME NEW o \in Order, CreateTokenAccount(o)
      PROVE  RecordedInv'
  BY <1>4, <1>quiet DEF CreateTokenAccount, Goto, TypeInv, TypeOK, Order, Handler
<1>5. ASSUME NEW o \in Order, CreatePay(o)
      PROVE  RecordedInv'
  BY <1>5, <1>quiet DEF CreatePay, Goto, TypeInv, TypeOK, Order, Handler
<1>6. ASSUME NEW o \in Order, CreateDeliver(o)
      PROVE  RecordedInv'
  BY <1>6, RecordedDeliver
     DEF CreateDeliver, SendOutputTokens, Goto, TypeInv, TypeOK, Order, Handler
<1>7. ASSUME NEW o \in Order, CreateComplete(o)
      PROVE  RecordedInv'
  BY <1>7, RecordedSelect
     DEF CreateComplete, SaveSelect, Goto, TypeInv, TypeOK, Order, Handler
<1>8. ASSUME NEW o \in Order, CreateCompleteUpdate(o)
      PROVE  RecordedInv'
  BY <1>8, RecordedUpdate DEF CreateCompleteUpdate, Order, Handler
<1>9. ASSUME NEW o \in Order, CreateReward(o)
      PROVE  RecordedInv'
  BY <1>9, <1>quiet DEF CreateReward, RequestReward, Goto, TypeInv, TypeOK, Order, Handler
<1>10. ASSUME NEW o \in Order, CreateCatch(o)
       PROVE  RecordedInv'
  BY <1>10, <1>quiet DEF CreateCatch, SaveSelect, Goto, TypeInv, TypeOK, Order, Handler
<1>11. ASSUME NEW o \in Order, CreateCatchUpdate(o)
       PROVE  RecordedInv'
  <2>1. /\ pc[o] # "idle" /\ pc[o] = "catchUpdate"
        /\ SaveUpdate(o, "done") /\ o \in CustodialOrder
    BY <1>11 DEF CreateCatchUpdate
  <2>2. o \in Handler /\ OrderOf(o) = o
    BY OrderOfValue DEF Handler
  <2>3. /\ pc' = [pc EXCEPT ![o] = "done"]
        /\ \A p \in Order : p # o => rows'[p] = rows[p]
        /\ rows'[o] = Updated(rows[o], entity[o], base[o])
        /\ base' = [base EXCEPT ![o] = NoRow] /\ rewarded' = rewarded
    BY <1>11, <2>1, <2>2, SaveUpdateRow DEF CreateCatchUpdate, SaveUpdate
  <2>4. o \notin rewarded /\ pc'[o] = "done"
    BY <1>old, <2>1, <2>2, <2>3 DEF DeliveredLate, TypeInv, TypeOK
  <2>5. entity[o].tx_hash_ref \in {None, o} /\ entity[o].status = "failed"
    BY <2>1, <2>2 DEF HashInv, EntityInv, Blank, StatusInv, Saving
  <2>6. RecordedOf(o)'
    BY <2>3, <2>4 DEF RecordedOf
  <2>7. ASSUME NEW h \in Handler, h # o
        PROVE  RecordedOf(h)'
    <3>1. (pc[h] = "reward" \/ h \in rewarded) /\ OrderOf(h) = o => Excused(h)'
      <4>1. OrderOf(h) = o => Excused(h)
        BY <2>5 DEF Excused, Muddled
      <4>2. pc[h] = "reward" \/ h \in rewarded => pc[h] \notin {"idle", "lookup"}
        BY <1>old DEF DeliveredLate
      <4> QED
        BY <1>old, <4>1, <4>2, HandlerKeeps
    <3>2. /\ rows'[o].tx_hash_ref \in {rows[o].tx_hash_ref, entity[o].tx_hash_ref}
          /\ entity[o].tx_hash_ref # h
          /\ pc'[h] = pc[h] /\ base'[h] = base[h]
      BY <2>3, <2>5, <2>7, UpdatedColumns, NoneAssumption DEF TypeInv, TypeOK
    <3> QED
      BY <1>old, <2>3, <2>7, <3>1, <3>2, RecordedWrite
  <2> QED
    BY <2>6, <2>7 DEF RecordedInv
<1>12. ASSUME NEW o \in Order, InitValidate(o)
       PROVE  RecordedInv'
  BY <1>12, <1>quiet DEF InitValidate, Goto, TypeInv, TypeOK, Order, Handler
<1>13. ASSUME NEW o \in Order, InitPrice(o)
       PROVE  RecordedInv'
  BY <1>13, <1>quiet DEF InitPrice, CalculateUSDValue, Goto, TypeInv, TypeOK, Order, Handler
<1>14. ASSUME NEW o \in Order, InitInsert(o)
       PROVE  RecordedInv'
  <2>1. /\ rows[o].status = "none" /\ pc[o] = "insert"
        /\ rows' = rows \/ rows' = [rows EXCEPT ![o] = PendingRow]
        /\ base' = base /\ rewarded' = rewarded
        /\ \A h \in Handler : \/ pc'[h] = pc[h]
                              \/ h = o /\ pc'[h] \in {"ata", "build", "done"}
    BY <1>14 DEF InitInsert, SaveInsert, StatusInv, Opened, Goto, TypeInv, TypeOK
  <2>2. ASSUME NEW h \in Handler
        PROVE  RecordedOf(h)'
    <3>1. CASE rows' = rows
      BY <1>old, <2>1, <3>1, RecordedQuiet
    <3>2. CASE rows' = [rows EXCEPT ![o] = PendingRow]
      <4>1. /\ \A p \in Order : p # o => rows'[p] = rows[p]
            /\ rows'[o].tx_hash_ref = None
        BY <3>2, BlankRows DEF TypeInv, TypeOK, Blank
      <4>2. pc[h] = "reward" \/ h \in rewarded => OrderOf(h) # o \/ Excused(h)
        BY <1>old, <2>1, CompletedColumns DEF RecordedOf
      <4>3. (pc[h] = "reward" \/ h \in rewarded) /\ OrderOf(h) = o => Excused(h)'
        BY <1>old, <4>2, HandlerKeeps DEF DeliveredLate
      <4>4. h # None
        BY NoneAssumption
      <4>5. /\ pc'[h] = pc[h] \/ pc'[h] \notin {"complete", "completeUpdate", "reward"}
            /\ rows'[o].tx_hash_ref \in {rows[o].tx_hash_ref, None}
        BY <2>1, <4>1
      <4> QED
        BY <1>old, <2>1, <4>1, <4>3, <4>4, <4>5, RecordedWrite
    <3> QED
      BY <2>1, <3>1, <3>2
  <2> QED
    BY <2>2 DEF RecordedInv
<1>15. ASSUME NEW o \in Order, InitBuild(o)
       PROVE  RecordedInv'
  BY <1>15, <1>quiet DEF InitBuild, Goto, TypeInv, TypeOK, Order, Handler
<1>16. ASSUME NEW o \in Order, ClientPay(o)
       PROVE  RecordedInv'
  BY <1>16, <1>quiet DEF ClientPay, Goto, TypeInv, TypeOK, Order, Handler
<1>17. ASSUME NEW o \in Order, OrderAges(o)
       PROVE  RecordedInv'
  BY <1>17, <1>quiet DEF OrderAges, Goto, TypeInv, TypeOK, Order, Handler
<1>18. ASSUME NEW c \in Call, NEW o \in Order, CompleteLoad(c, o)
       PROVE  RecordedInv'
  BY <1>18, <1>quiet DEF CompleteLoad, Asks, Goto, TypeInv, TypeOK, Order, Handler
<1>19. ASSUME NEW c \in Call, CompleteLookup(c)
       PROVE  RecordedInv'
  BY <1>19, <1>quiet DEF CompleteLookup, Goto, TypeInv, TypeOK, Order, Handler
<1>20. ASSUME NEW c \in Call, CompletePrice(c)
       PROVE  RecordedInv'
  BY <1>20, <1>quiet
     DEF CompletePrice, CalculateUSDValue, Goto, TypeInv, TypeOK, Order, Handler
<1>21. ASSUME NEW c \in Call, CompleteDeliver(c)
       PROVE  RecordedInv'
  BY <1>21, RecordedDeliver
     DEF CompleteDeliver, SendOutputTokens, Goto, TypeInv, TypeOK, Handler
<1>22. ASSUME NEW c \in Call, CompleteSave(c)
       PROVE  RecordedInv'
  BY <1>22, RecordedSelect
     DEF CompleteSave, SaveSelect, Goto, TypeInv, TypeOK, Handler
<1>23. ASSUME NEW c \in Call, CompleteUpdate(c)
       PROVE  RecordedInv'
  BY <1>23, RecordedUpdate DEF CompleteUpdate, Handler
<1>24. ASSUME NEW c \in Call, CompleteReward(c)
       PROVE  RecordedInv'
  BY <1>24, <1>quiet
     DEF CompleteReward, RequestReward, Goto, TypeInv, TypeOK, Order, Handler
<1>25. ASSUME SweepStart
       PROVE  RecordedInv'
  BY <1>25, <1>quiet DEF SweepStart, Expired, Goto, TypeInv, TypeOK, Order, Handler
<1>26. ASSUME NEW e \in sweep, SweepSelect(e)
       PROVE  RecordedInv'
  BY <1>26, <1>quiet
     DEF SweepSelect, SweepEntry, SweepingEntry, Goto, TypeInv, TypeOK, Order, Handler
<1>27. ASSUME NEW s \in sweeping, SweepUpdate(s)
       PROVE  RecordedInv'
  <2>0. PICK q \in Order : q = s.order
    BY DEF TypeInv, TypeOK, SweepingEntry
  <2>1. /\ q \in Order /\ q \in aged /\ s.row.tx_hash_ref = None
    BY <1>old, <2>0 DEF SweepAged, HashInv, SweepInv, Blank
  <2>2. /\ \A p \in Order : p # q => rows'[p] = rows[p]
        /\ rows'[q] = Updated(rows[q], s.row, s.base)
        /\ base' = base /\ rewarded' = rewarded /\ pc' = pc /\ aged' = aged
    BY <1>27, <2>0, <2>1 DEF SweepUpdate, TypeInv, TypeOK
  <2>3. rows'[q].tx_hash_ref \in {rows[q].tx_hash_ref, None}
    BY <2>1, <2>2, UpdatedColumns
  <2>4. ASSUME NEW h \in Handler
        PROVE  RecordedOf(h)'
    <3>1. (pc[h] = "reward" \/ h \in rewarded) /\ OrderOf(h) = q => Excused(h)'
      <4>1. OrderOf(h) = q => Excused(h)
        BY <2>1 DEF Excused, Muddled
      <4>2. pc[h] = "reward" \/ h \in rewarded => pc[h] \notin {"idle", "lookup"}
        BY <1>old DEF DeliveredLate
      <4> QED
        BY <1>old, <4>1, <4>2, HandlerKeeps
    <3>2. h # None
      BY NoneAssumption
    <3> QED
      BY <1>old, <2>1, <2>2, <2>3, <3>1, <3>2, RecordedWrite
  <2> QED
    BY <2>4 DEF RecordedInv
<1>28. ASSUME SweepAbort
       PROVE  RecordedInv'
  BY <1>28, <1>quiet DEF SweepAbort, Goto, TypeInv, TypeOK, Order, Handler
<1>29. ASSUME CacheExpires
       PROVE  RecordedInv'
  BY <1>29, <1>quiet DEF CacheExpires, Goto, TypeInv, TypeOK, Order, Handler
<1>30. ASSUME PriceFetched
       PROVE  RecordedInv'
  BY <1>30, <1>quiet DEF PriceFetched, Goto, TypeInv, TypeOK, Order, Handler
<1>31. ASSUME Crash
       PROVE  RecordedInv'
  BY <1>31, <1>quiet DEF Crash, Resting, Goto, TypeInv, TypeOK, Order, Handler
<1>32. CASE UNCHANGED vars
  BY <1>32, <1>quiet DEF vars, Goto, TypeInv, TypeOK, Order, Handler
<1>33. ASSUME NEW t \in Elsewhere, OtherPays(t)
      PROVE  RecordedInv'
  BY <1>33, <1>quiet DEF OtherPays, Goto, TypeInv, TypeOK, Order, Handler
<1> QED
  BY <1>1, <1>2, <1>3, <1>4, <1>5, <1>6, <1>7, <1>8, <1>9, <1>10, <1>11, <1>12,
     <1>13, <1>14, <1>15, <1>16, <1>17, <1>18, <1>19, <1>20, <1>21, <1>22,
     <1>23, <1>24, <1>25, <1>26, <1>27, <1>28, <1>29, <1>30, <1>31, <1>32, <1>33
     DEF Next, Create, InitWeb3, CompleteWeb3

\* Unless the sweep or the catch came by, a row that is written is not failed,
\* keeps naming a transfer, and names one when it is completed.
LEMMA QuietWrite ==
  ASSUME TypeInv, PaidInv, StatusInv, HashInv, RewardInv, [Next]_vars,
         NEW o \in Order, ~Muddled(o)
  PROVE  /\ rows'[o].status # "failed"
         /\ rows[o].tx_hash_ref # None => rows'[o].tx_hash_ref # None
         /\ rows'[o].status = "completed" => rows'[o].tx_hash_ref # None
<1>1. /\ rows[o].status # "failed"
      /\ rows[o].status = "completed" => rows[o].tx_hash_ref # None
      /\ \A h \in Handler :
           (pc[h] \in Updating /\ OrderOf(h) = o /\ base[h].tx_hash_ref # None)
             => rows[o].tx_hash_ref # None
  BY DEF RewardInv, QuietInv
<1>2. CASE rows'[o] = rows[o]
  BY <1>1, <1>2
<1>3. CASE rows[o].status = "none" /\ rows'[o] = PendingRow
  BY <1>3, WrittenStatus DEF HashInv, RowsInv, Decided, Blank
<1>4. ASSUME NEW h \in CustodialOrder \cup Call, pc[h] = "completeUpdate",
             OrderOf(h) = o, rows'[o] = Updated(rows[o], entity[h], base[h])
      PROVE  /\ rows'[o].status # "failed"
             /\ rows[o].tx_hash_ref # None => rows'[o].tx_hash_ref # None
             /\ rows'[o].status = "completed" => rows'[o].tx_hash_ref # None
  <2>1. h \in Handler /\ pc[h] \in Updating
    BY <1>4 DEF Handler, Order, Updating
  <2>2. /\ rows'[o].status = "failed" => rows[o].status = "failed"
        /\ rows[o].tx_hash_ref # None => rows'[o].tx_hash_ref # None
    BY <1>4, CompletingWrite
  <2>3. entity[h].tx_hash_ref = h /\ h # None
    BY <1>4, <2>1, CompletedColumns, NoneAssumption DEF StatusInv, Saving
  <2>4. rows'[o].tx_hash_ref # None
    BY <1>1, <1>4, <2>1, <2>2, <2>3, UpdatedColumns
  <2> QED
    BY <1>1, <2>2, <2>4
<1>5. ~(o \in CustodialOrder /\ pc[o] = "catchUpdate")
  BY DEF StatusInv, Saving, Muddled, Handler, Order
<1>6. \A s \in sweeping : s.order # o
  BY DEF RewardInv, SweepAged, Muddled
<1>7. o \in CustodialOrder => OrderOf(o) = o
  BY OrderOfValue
<1>8. \A c \in Call : target[c] = o => OrderOf(c) = o
  BY OrderOfValue
<1> QED
  BY <1>2, <1>3, <1>4, <1>5, <1>6, <1>7, <1>8, RowWriters DEF Updating

LEMMA NextQuietInv ==
  TypeInv /\ PaidInv /\ StatusInv /\ HashInv /\ RewardInv /\ [Next]_vars => QuietInv'
<1> SUFFICES ASSUME TypeInv, PaidInv, StatusInv, HashInv, RewardInv, [Next]_vars,
                    NEW o \in Order, ~Muddled(o)'
             PROVE  /\ rows'[o].status # "failed"
                    /\ rows'[o].status = "completed" => rows'[o].tx_hash_ref # None
                    /\ \A h \in Handler : (pc'[h] \in Updating /\ OrderOf(h)' = o) =>
                         /\ base'[h].status # "failed"
                         /\ base'[h].tx_hash_ref # None => rows'[o].tx_hash_ref # None
  BY DEF QuietInv, Updating
<1>1. ~Muddled(o)
  BY MuddledStays DEF RewardInv
<1>2. /\ rows[o].status # "failed"
      /\ \A h \in Handler : (pc[h] \in Updating /\ OrderOf(h) = o) =>
           /\ base[h].status # "failed"
           /\ base[h].tx_hash_ref # None => rows[o].tx_hash_ref # None
  BY <1>1 DEF RewardInv, QuietInv
<1>3. /\ rows'[o].status # "failed"
      /\ rows[o].tx_hash_ref # None => rows'[o].tx_hash_ref # None
      /\ rows'[o].status = "completed" => rows'[o].tx_hash_ref # None
  BY <1>1, QuietWrite
<1>4. ASSUME NEW h \in Handler, pc'[h] \in Updating, OrderOf(h)' = o
      PROVE  /\ base'[h].status # "failed"
             /\ base'[h].tx_hash_ref # None => rows'[o].tx_hash_ref # None
  <2>1. pc[h] # "idle" /\ OrderOf(h) = o
    BY <1>4, UpdatingFrom, OrderOfStable DEF Updating
  <2> QED
    BY <1>2, <1>3, <1>4, <2>1, UpdatingFrom
<1> QED
  BY <1>3, <1>4

LEMMA NextRewardInv ==
  TypeInv /\ PaidInv /\ StatusInv /\ HashInv /\ RewardInv /\ [Next]_vars => RewardInv'
BY NextDeliveredLate, NextRecordedInv, NextQuietInv, NextSweepAged DEF RewardInv

LEMMA InitRewardInv == Init => RewardInv
BY WrittenStatus
   DEF Init, RewardInv, DeliveredLate, RecordedInv, RecordedOf, SweepAged,
       QuietInv, Updating, Order, Handler

\* A reward is asked for by a handler that delivered and recorded it; what the
\* row says later is the sweep's, another deliverer's or the failed create's.
THEOREM RewardsFollow == Spec => []RewardFollowsCompletion
<1>1. TypeInv /\ RewardInv => RewardFollowsCompletion
  <2> SUFFICES ASSUME TypeInv, RewardInv, NEW h \in rewarded
               PROVE  /\ h \in delivered
                      /\ entity[h] = CompletedRow(h)
                      /\ rows[OrderOf(h)] # CompletedRow(h) =>
                           \/ OrderOf(h) \in aged
                           \/ \E g \in delivered \ {h} : OrderOf(g) = OrderOf(h)
                           \/ entity[OrderOf(h)].status = "failed"
    BY DEF RewardFollowsCompletion
  <2> QED
    BY DEF TypeInv, TypeOK, RewardInv, DeliveredLate, RecordedInv, RecordedOf,
           Excused, Muddled
<1> QED
  BY InitTypeInv, NextTypeInv, InitPaidInv, NextPaidInv, InitStatusInv, NextStatusInv,
     InitHashInv, NextHashInv, InitRewardInv, NextRewardInv, <1>1, PTL
     DEF Spec

-----------------------------------------------------------------------------
(* A completed row.                                                        *)

\* While no call has delivered its order, the create handler is in its catch
\* with a completed row only after the reward call threw, and then with the row
\* as it is and no SOL order.
CatchInv ==
  \A o \in CustodialOrder : (rows[o].status = "completed" /\ ~Contested(o)) =>
    /\ pc[o] \in {"catch", "catchUpdate"} => /\ entity[o].tx_hash_send = o
                                             /\ entity[o].tx_hash_ref = o
                                             /\ o \notin SolOrder
    /\ pc[o] = "catchUpdate" => base[o] = rows[o]

\* The sweep turns what it saves into something that is not completed.
LEMMA SweptRow ==
  ASSUME TypeInv, StatusInv, HashInv, NEW s \in sweeping, ~Contested(s.order)
  PROVE  Updated(rows[s.order], s.row, s.base).status # "completed"
<1>1. /\ s.row.status = "failed"
      /\ s.base.status = "failed" => rows[s.order].status = "failed"
  BY DEF StatusInv, Sweeping, HashInv, SweepInv
<1> QED
  BY <1>1, UpdatedColumns

\* A custodial row that no call delivered becomes completed by the save of its
\* create handler only.
LEMMA CustodialCompletes ==
  ASSUME TypeInv, PaidInv, StatusInv, HashInv, [Next]_vars,
         NEW o \in CustodialOrder, ~Contested(o),
         rows'[o].status = "completed", rows'[o] # rows[o]
  PROVE  pc[o] = "completeUpdate"
<1>1. o \in Order /\ o \in Handler /\ o \notin Web3Order
  BY OrdersAssumption DEF Order, Handler
<1>2. rows'[o] # PendingRow
  BY WrittenStatus
<1>3. ~ \E s \in sweeping : /\ s.order = o
                            /\ rows'[o] = Updated(rows[o], s.row, s.base)
  BY SweptRow
<1>4. ~ \E c \in Call : target[c] = o /\ pc[c] = "completeUpdate"
  BY <1>1, SavesDelivery, OrderOfValue DEF Handler
<1>5. pc[o] \in Updating /\ rows'[o] = Updated(rows[o], entity[o], base[o])
  BY <1>1, <1>2, <1>3, <1>4, RowWriters
<1>6. ASSUME pc[o] = "catchUpdate"
      PROVE  FALSE
  <2>1. entity[o].status = "failed"
    BY <1>1, <1>6 DEF StatusInv, Saving
  <2>2. base[o].status = "failed" => rows[o].status # "completed"
    BY <1>6 DEF HashInv, CustodialInv
  <2> QED
    BY <1>5, <2>1, <2>2, UpdatedColumns
<1> QED
  BY <1>5, <1>6 DEF Updating

LEMMA NextCatchInv ==
  /\ TypeInv /\ PaidInv /\ StatusInv /\ HashInv /\ PricedInSolHasCache /\ CatchInv
  /\ [Next]_vars
  => CatchInv'
<1> SUFFICES ASSUME TypeInv, PaidInv, StatusInv, HashInv, PricedInSolHasCache, CatchInv,
                    [Next]_vars, NEW o \in CustodialOrder, rows'[o].status = "completed",
                    ~Contested(o)'
             PROVE  /\ pc'[o] \in {"catch", "catchUpdate"} => /\ entity'[o].tx_hash_send = o
                                                              /\ entity'[o].tx_hash_ref = o
                                                              /\ o \notin SolOrder
                    /\ pc'[o] = "catchUpdate" => base'[o] = rows'[o]
  BY DEF CatchInv
<1>0. ~Contested(o)
  BY LedgerGrows DEF Order
<1>1. /\ o \in Order /\ o \in Handler /\ OrderOf(o) = o /\ Payment(o) = o
      /\ o \notin Call /\ o \notin Web3Order
  BY OrderOfValue, OrdersAssumption DEF Order, Handler, Payment
<1>2. CASE pc'[o] \notin {"catch", "catchUpdate"}
  BY <1>2
<1>3. CASE pc'[o] = pc[o] /\ base'[o] = base[o] /\ entity'[o] = entity[o]
  <2>1. CASE rows'[o] = rows[o]
    BY <1>0, <1>3, <2>1 DEF CatchInv
  <2>2. CASE rows'[o] # rows[o]
    BY <1>0, <1>3, <2>2, CustodialCompletes
  <2> QED
    BY <2>1, <2>2
<1>4. CASE CreatePay(o) \/ CreateDeliver(o) \/ CreateComplete(o)
  <2>1. rows' = rows /\ rows[o].status # "completed"
    BY <1>0, <1>4 DEF CreatePay, CreateDeliver, CreateComplete, HashInv, CustodialInv
  <2> QED
    BY <2>1
<1>5. CASE CreateReward(o)
  <2>1. pc[o] = "reward" /\ entity'[o] = CompletedRow(o)
    BY <1>1, <1>5 DEF CreateReward, StatusInv, Saving
  <2>2. pc'[o] # "catchUpdate" /\ (pc'[o] = "catch" => cache = "null")
    BY <1>1, <1>5 DEF CreateReward, RequestReward, Goto, TypeInv, TypeOK
  <2>3. cache = "null" => o \notin SolOrder
    BY <1>1, <2>1 DEF PricedInSolHasCache, Resting
  <2> QED
    BY <1>1, <2>1, <2>2, <2>3, CompletedColumns
<1>6. CASE CreateCatch(o)
  <2>1. /\ rows' = rows /\ pc[o] = "catch" /\ entity[o] \in Row
        /\ entity'[o] = Failed(entity[o])
        /\ pc'[o] = "catchUpdate" => base'[o] = rows[o]
    BY <1>1, <1>6 DEF CreateCatch, SaveSelect, Goto, TypeInv, TypeOK
  <2> QED
    BY <1>0, <2>1, FailedType DEF CatchInv
<1>7. \/ pc'[o] \notin {"catch", "catchUpdate"}
      \/ pc'[o] = pc[o] /\ base'[o] = base[o] /\ entity'[o] = entity[o]
      \/ CreatePay(o) \/ CreateDeliver(o) \/ CreateComplete(o) \/ CreateReward(o)
      \/ CreateCatch(o)
  <2>1. CASE Crash
    BY <1>1, <2>1 DEF Crash, Resting
  <2>2. CASE Create(o)
    BY <1>1, <2>2 DEF Create, CreateValidate, CreatePrice, CreateInsert,
       CreateTokenAccount, CreateCompleteUpdate, CreateCatchUpdate, CalculateUSDValue,
       SaveInsert, SaveUpdate, Goto, TypeInv, TypeOK
  <2>3. CASE InitWeb3(o)
    BY <1>1, <2>3 DEF InitWeb3, InitValidate, InitPrice, InitInsert, InitBuild
  <2> QED
    BY <1>1, <2>1, <2>2, <2>3, HandlerMoves
<1> QED
  BY <1>2, <1>3, <1>4, <1>5, <1>6, <1>7

LEMMA InitCatchInv == Init => CatchInv
BY WrittenStatus DEF Init, CatchInv, Order

\* What a completed row may become in one step.
CompletedStep ==
  \A o \in Order :
    (rows[o].status = "completed" /\ rows'[o] # rows[o]) =>
      \/ \E s \in sweeping : s.order = o
      \/ /\ o \in CustodialOrder \ SolOrder
         /\ rows'[o] = Failed(rows[o])
      \/ /\ \E c \in Call \cap delivered : target[c] = o
         /\ \/ rows'[o].status = "completed"
            \/ o \in CustodialOrder /\ pc[o] = "catchUpdate"

LEMMA NextCompletedStep ==
  ASSUME TypeInv, PaidInv, StatusInv, HashInv, CatchInv, [Next]_vars
  PROVE  CompletedStep
<1> SUFFICES ASSUME NEW o \in Order, rows[o].status = "completed", rows'[o] # rows[o],
                    ~ \E s \in sweeping : s.order = o
             PROVE  \/ /\ o \in CustodialOrder \ SolOrder
                       /\ rows'[o] = Failed(rows[o])
                    \/ /\ \E c \in Call \cap delivered : target[c] = o
                       /\ \/ rows'[o].status = "completed"
                          \/ o \in CustodialOrder /\ pc[o] = "catchUpdate"
  BY DEF CompletedStep
<1>1. ASSUME o \in CustodialOrder, pc[o] \in Updating, ~Contested(o),
             rows'[o] = Updated(rows[o], entity[o], base[o])
      PROVE  o \notin SolOrder /\ rows'[o] = Failed(rows[o])
  <2>1. pc[o] = "catchUpdate"
    BY <1>1 DEF HashInv, CustodialInv, Updating
  <2>2. /\ base[o] = rows[o] /\ entity[o].tx_hash_send = o /\ entity[o].tx_hash_ref = o
        /\ o \notin SolOrder
    BY <1>1, <2>1 DEF CatchInv
  <2>3. entity[o].status = "failed"
    BY <2>1 DEF StatusInv, Saving, Handler
  <2>4. /\ rows[o] \in Row
        /\ rows[o].tx_hash_send \in Payments(o) /\ rows[o].tx_hash_ref \in Deliverers(o)
    BY <1>1 DEF HashInv, RowsInv, Real, TypeInv, TypeOK
  <2>5. \A d \in Deliverers(o) : d = o
    <3>1. \A d \in Deliverers(o) : d \notin Call
      BY <1>1, OrderOfValue DEF Deliverers, Contested
    <3> QED
      BY <3>1, OrderOfValue DEF Deliverers, TypeInv, TypeOK, Handler
  <2>6. rows[o].tx_hash_send = o /\ rows[o].tx_hash_ref = o
    BY <2>4, <2>5 DEF Payments, Payment
  <2>7. rows'[o] = [status |-> "failed", tx_hash_send |-> o, tx_hash_ref |-> o]
    BY <1>1, <2>2, <2>3, <2>6 DEF Updated
  <2>8. Failed(rows[o]) = [status |-> "failed", tx_hash_send |-> o, tx_hash_ref |-> o]
    BY <2>4, <2>6 DEF Failed, Row
  <2> QED
    BY <2>2, <2>7, <2>8
<1>2. ASSUME NEW h \in Handler, pc[h] = "completeUpdate",
             rows'[o] = Updated(rows[o], entity[h], base[h])
      PROVE  rows'[o].status = "completed"
  <2>1. entity[h].status = "completed"
    BY <1>2, CompletedColumns DEF StatusInv, Saving
  <2> QED
    BY <1>2, <2>1, UpdatedColumns
<1>3. ASSUME NEW c \in Call, target[c] = o, pc[c] = "completeUpdate"
      PROVE  c \in delivered
  BY <1>3, SavesDelivery DEF Handler
<1>4. CASE /\ o \in CustodialOrder /\ pc[o] \in Updating
           /\ rows'[o] = Updated(rows[o], entity[o], base[o])
  <2>1. CASE Contested(o)
    BY <1>2, <1>4, <2>1 DEF Contested, Updating, Handler
  <2>2. CASE ~Contested(o)
    BY <1>1, <1>4, <2>2
  <2> QED
    BY <2>1, <2>2
<1>5. CASE \E c \in Call : /\ target[c] = o /\ pc[c] = "completeUpdate"
                           /\ rows'[o] = Updated(rows[o], entity[c], base[c])
  BY <1>2, <1>3, <1>5 DEF Handler
<1> QED
  BY <1>4, <1>5, RowWriters

\* No save rewrites a completed row but the sweep's, that of a create handler
\* whose reward call found no price, or one of several handlers that delivered:
\* for any orders, calls and faults, these writers are all there are.
THEOREM CompletedRowsStay == Spec => CompletedRowStays
<1>1. TypeInv /\ PaidInv /\ StatusInv /\ HashInv /\ CatchInv /\ [Next]_vars
        => CompletedStep
  BY NextCompletedStep
<1>2. Spec => [][CompletedStep]_vars
  BY InitTypeInv, NextTypeInv, InitPaidInv, NextPaidInv, InitStatusInv, NextStatusInv,
     InitHashInv, NextHashInv, InitHasCache, NextHasCache, InitCatchInv, NextCatchInv,
     <1>1, PTL DEF Spec
<1> QED
  BY <1>2 DEF CompletedStep, CompletedRowStays

-----------------------------------------------------------------------------
(* Without faults.                                                         *)

\* Only the step that sends the tokens makes a handler one that delivered.
LEMMA Delivers ==
  ASSUME [Next]_vars, NEW h \in Handler, h \in delivered', h \notin delivered
  PROVE  \/ h \in Order /\ CreateDeliver(h) /\ SendOutputTokens(h, "catch")
         \/ h \in Call /\ CompleteDeliver(h) /\ SendOutputTokens(h, "done")
<1>1. \/ \E o \in Order : CreateDeliver(o)
      \/ \E c \in Call : CompleteDeliver(c)
  BY DEF Next, vars, Create, InitWeb3, CompleteWeb3, CreateValidate, CreatePrice,
         CreateInsert, CreateTokenAccount, CreatePay, CreateComplete, CreateCompleteUpdate,
         CreateReward, CreateCatch, CreateCatchUpdate, InitValidate, InitPrice, InitInsert,
         InitBuild, ClientPay, OtherPays, OrderAges, CompleteLoad, Asks, CompleteLookup,
         CompletePrice, CompleteSave, CompleteUpdate, CompleteReward, SweepStart,
         SweepSelect, SweepUpdate, SweepAbort, CacheExpires, PriceFetched, Crash
<1>2. ASSUME NEW o \in Order, CreateDeliver(o)
      PROVE  h = o /\ SendOutputTokens(h, "catch")
  BY <1>2 DEF CreateDeliver, SendOutputTokens
<1>3. ASSUME NEW c \in Call, CompleteDeliver(c)
      PROVE  h = c /\ SendOutputTokens(h, "done")
  BY <1>3 DEF CompleteDeliver, SendOutputTokens
<1> QED
  BY <1>1, <1>2, <1>3

LEMMA NoRestart == ASSUME TypeInv, NoFaults PROVE ~Crash
BY FaultAssumption DEF TypeInv, TypeOK, NoFaults, Crash

\* Who waits for the answers calls for an order only when its own handler has
\* offered it or is done.
SerialInv ==
  SerialClients =>
    \A c \in Call : pc[c] # "idle" => pc[target[c]] \in {"offered", "done"}

LEMMA InitSerialInv == Init => SerialInv
BY DEF Init, SerialInv, Handler

LEMMA NextSerialInv == TypeInv /\ StatusInv /\ SerialInv /\ [Next]_vars => SerialInv'
<1> SUFFICES ASSUME TypeInv, StatusInv, SerialInv, [Next]_vars, SerialClients,
                    NEW c \in Call, pc'[c] # "idle"
             PROVE  pc'[target'[c]] \in {"offered", "done"}
  BY DEF SerialInv
<1>1. c \in Handler /\ c \notin Order /\ Order \subseteq Handler
  BY OrdersAssumption DEF Handler
<1>2. ASSUME NEW o \in Order, CompleteLoad(c, o)
      PROVE  pc'[target'[c]] \in {"offered", "done"}
  <2>1. /\ target'[c] = o /\ pc'[o] = pc[o] /\ pc[o] \in Resting
        /\ rows[o].status = "pending"
    BY <1>1, <1>2 DEF CompleteLoad, Asks, Goto, TypeInv, TypeOK
  <2>2. pc[o] # "idle"
    BY <2>1 DEF StatusInv, Opened
  <2> QED
    BY <2>1, <2>2 DEF Resting
<1>3. CASE ~ \E o \in Order : CompleteLoad(c, o)
  <2>1. pc[c] # "idle"
    BY <1>1, <1>3, HandlerMoves
       DEF CompleteWeb3, CompleteLookup, CompletePrice, CompleteDeliver,
           CompleteSave, CompleteUpdate, CompleteReward, Crash, Resting
  <2>2. OrderOf(c)' = OrderOf(c) /\ OrderOf(c) \in Order
    BY <1>1, <2>1, OrderOfStable, OrderOfType
  <2>3. PICK o \in Order : o = target[c] /\ o = target'[c]
    BY <1>1, <2>2 DEF OrderOf
  <2>4. pc[o] \in {"offered", "done"}
    BY <2>1, <2>3 DEF SerialInv
  <2>5. ~Create(o) /\ ~InitWeb3(o)
    BY <2>4 DEF Create, CreateValidate, CreatePrice, CreateInsert, CreateTokenAccount,
       CreatePay, CreateDeliver, CreateComplete, CreateCompleteUpdate, CreateReward,
       CreateCatch, CreateCatchUpdate, InitWeb3, InitValidate, InitPrice, InitInsert,
       InitBuild
  <2>6. o \in Handler /\ o \notin Call
    BY <1>1, OrdersAssumption
  <2>7. pc'[o] \in {"offered", "done"}
    BY <2>4, <2>5, <2>6, HandlerMoves DEF Crash, Resting
  <2> QED
    BY <2>3, <2>7
<1> QED
  BY <1>2, <1>3

\* A young SOL order, once completed, stays completed, if create and a call do not
\* both write its row.
LEMMA YoungStaysCompleted ==
  ASSUME TypeInv, PaidInv, SweepAged, SerialInv, CompletedStep, [Next]_vars,
         NEW o \in Order, o \in SolOrder, o \notin aged, rows[o].status = "completed",
         SerialClients \/ o \in Web3Order
  PROVE  rows'[o].status = "completed"
<1>1. ASSUME NEW c \in Call \cap delivered, target[c] = o, o \in CustodialOrder
      PROVE  pc[o] # "catchUpdate"
  <2>1. pc[c] # "idle" /\ SerialClients
    BY <1>1, OrdersAssumption DEF PaidInv, DeliveredStarted
  <2> QED
    BY <1>1, <2>1 DEF SerialInv
<1> QED
  BY <1>1 DEF SweepAged, CompletedStep

\* Without faults, who delivered for a young SOL order completes it.
CompletesOf(h) ==
  (/\ h \in delivered /\ OrderOf(h) \in SolOrder \ aged
   /\ SerialClients \/ OrderOf(h) \in Web3Order)
  =>
    /\ pc[h] \in {"complete", "completeUpdate", "reward", "done"}
    /\ pc[h] \in {"reward", "done"} => rows[OrderOf(h)].status = "completed"
    /\ (pc[h] = "completeUpdate" /\ base[h].status = "completed") =>
         rows[OrderOf(h)].status = "completed"

CompletesInv == NoFaults => \A h \in Handler : CompletesOf(h)

LEMMA InitCompletesInv == Init => CompletesInv
BY DEF Init, CompletesInv, CompletesOf

LEMMA NextCompletesInv ==
  /\ TypeInv /\ PaidInv /\ StatusInv /\ HashInv /\ PricedInSolHasCache /\ CatchInv
  /\ SweepAged /\ SerialInv /\ CompletesInv /\ [Next]_vars
  => CompletesInv'
<1> SUFFICES ASSUME TypeInv, PaidInv, StatusInv, HashInv, PricedInSolHasCache, CatchInv,
                    SweepAged, SerialInv, CompletesInv, [Next]_vars, NoFaults,
                    NEW h \in Handler, SerialClients \/ OrderOf(h)' \in Web3Order,
                    h \in delivered', OrderOf(h)' \in SolOrder, OrderOf(h)' \notin aged'
             PROVE  CompletesOf(h)'
  BY DEF CompletesInv, CompletesOf, NoFaults
<1>1. CASE h \notin delivered
  <2>1. pc'[h] = "complete"
    BY <1>1, Delivers DEF SendOutputTokens, NoFaults, Goto, TypeInv, TypeOK
  <2> QED
    BY <2>1 DEF CompletesOf
<1>2. CASE h \in delivered
  <2> DEFINE q == OrderOf(h)
  <2>1. /\ q \in Order /\ q' = q /\ q \in SolOrder /\ q \notin aged
        /\ SerialClients \/ q \in Web3Order
    BY <1>2, OrderOfType, OrderOfStable, NextMonotone DEF PaidInv, DeliveredStarted
  <2>2. /\ pc[h] \in {"complete", "completeUpdate", "reward", "done"}
        /\ pc[h] \in {"reward", "done"} => rows[q].status = "completed"
        /\ (pc[h] = "completeUpdate" /\ base[h].status = "completed") =>
             rows[q].status = "completed"
    BY <1>2, <2>1 DEF CompletesInv, CompletesOf
  <2>3. rows[q].status = "completed" => rows'[q].status = "completed"
    BY <2>1, NextCompletedStep, YoungStaysCompleted
  <2> SUFFICES /\ pc'[h] \in {"complete", "completeUpdate", "reward", "done"}
               /\ pc'[h] \in {"reward", "done"} => rows'[q].status = "completed"
               /\ (pc'[h] = "completeUpdate" /\ base'[h].status = "completed") =>
                    rows'[q].status = "completed"
    BY <2>1 DEF CompletesOf
  <2>4. CASE pc'[h] = pc[h] /\ base'[h] = base[h]
    BY <2>2, <2>3, <2>4
  <2>5. CASE CreateComplete(h) \/ CompleteSave(h)
    <3>1. pc'[h] = "completeUpdate" /\ base'[h] = rows[q]
      BY <2>5 DEF CreateComplete, CompleteSave, SaveSelect, NoFaults, Goto, TypeInv, TypeOK
    <3> QED
      BY <2>3, <3>1
  <2>6. CASE CreateCompleteUpdate(h) \/ CompleteUpdate(h)
    <3>1. pc[h] = "completeUpdate" /\ SaveUpdate(h, "reward")
      BY <2>6 DEF CreateCompleteUpdate, CompleteUpdate
    <3>2. pc'[h] = "reward" /\ rows'[q] = Updated(rows[q], entity[h], base[h])
      BY <3>1, SaveUpdateRow DEF TypeInv, TypeOK
    <3>3. entity[h].status = "completed"
      BY <3>1, CompletedColumns DEF StatusInv, Saving
    <3> QED
      BY <2>2, <3>1, <3>2, <3>3, UpdatedColumns
  <2>7. CASE CreateReward(h) \/ CompleteReward(h)
    <3>1. pc[h] = "reward" /\ pc'[h] = "done"
      BY <2>1, <2>7 DEF CreateReward, CompleteReward, RequestReward, PricedInSolHasCache,
                        Resting, Goto, TypeInv, TypeOK
    <3> QED
      BY <2>2, <2>3, <3>1
  <2>8. \/ pc'[h] = pc[h] /\ base'[h] = base[h]
        \/ CreateComplete(h) \/ CompleteSave(h)
        \/ CreateCompleteUpdate(h) \/ CompleteUpdate(h)
        \/ CreateReward(h) \/ CompleteReward(h)
    <3>1. CASE h \in Order /\ Create(h)
      BY <2>2, <3>1 DEF Create, CreateValidate, CreatePrice, CreateInsert,
         CreateTokenAccount, CreatePay, CreateDeliver, CreateCatch, CreateCatchUpdate
    <3>2. CASE h \in Order /\ InitWeb3(h)
      BY <2>2, <3>2 DEF InitWeb3, InitValidate, InitPrice, InitInsert, InitBuild
    <3>3. CASE h \in Call /\ CompleteWeb3(h)
      BY <2>2, <3>3 DEF CompleteWeb3, CompleteLookup, CompletePrice, CompleteDeliver
    <3>4. CASE h \in Call /\ \E o \in Order : CompleteLoad(h, o)
      BY <2>2, <3>4 DEF CompleteLoad, Asks
    <3> QED
      BY <3>1, <3>2, <3>3, <3>4, HandlerMoves, NoRestart
  <2> QED
    BY <2>4, <2>5, <2>6, <2>7, <2>8
<1> QED
  BY <1>1, <1>2

\* Tokens of a young SOL order do not leave without the order ending completed,
\* for any number of orders and calls; calls may overlap, but not with create.
THEOREM DeliveriesComplete == Spec => []DeliveredMeansCompleted
<1>1. TypeInv /\ CompletesInv => DeliveredMeansCompleted
  BY DEF TypeInv, TypeOK, CompletesInv, CompletesOf, DeliveredMeansCompleted
<1>2. RewardInv => SweepAged
  BY DEF RewardInv
<1> QED
  BY InitTypeInv, NextTypeInv, InitPaidInv, NextPaidInv, InitStatusInv, NextStatusInv,
     InitHashInv, NextHashInv, InitHasCache, NextHasCache, InitCatchInv, NextCatchInv,
     InitRewardInv, NextRewardInv, InitSerialInv, NextSerialInv, InitCompletesInv,
     NextCompletesInv, <1>1, <1>2, PTL DEF Spec

-----------------------------------------------------------------------------
(* Clients that wait for an answer.                                        *)

Deciding == {"lookup", "price", "deliver"}

\* Of the calls of one order only one is not done.
OneActive ==
  \A c, d \in Call :
    (pc[c] \notin {"idle", "done"} /\ target[c] = target[d] /\ c # d) => pc[d] = "done"

\* A handler that delivered has decided its order once it has saved it.
DeliveredDecides ==
  \A h \in delivered : pc[h] \notin {"complete", "completeUpdate"} =>
    Decided(rows[OrderOf(h)])

\* A call that may still deliver is the first call to.
FirstToDeliver ==
  \A c, d \in Call : (d \in delivered /\ target[c] = target[d]) =>
    /\ pc[c] \notin Deciding
    /\ c \in delivered => c = d

\* No call works on an order that its create handler has delivered.
NotAfterCreate == \A c \in Call : pc[c] # "idle" => target[c] \notin delivered

ServedInv ==
  (NoFaults /\ SerialClients) =>
    OneActive /\ DeliveredDecides /\ FirstToDeliver /\ NotAfterCreate

LEMMA InitServedInv == Init => ServedInv
BY DEF Init, ServedInv, OneActive, DeliveredDecides, FirstToDeliver, NotAfterCreate,
       Handler

\* Without faults a handler leaves its save with the order decided.
LEMMA NextDecides ==
  ASSUME TypeInv, PaidInv, StatusInv, HashInv, DeliveredLate, [Next]_vars, NoFaults,
         DeliveredDecides
  PROVE  DeliveredDecides'
<1> SUFFICES ASSUME NEW h \in delivered', pc'[h] \notin {"complete", "completeUpdate"}
             PROVE  Decided(rows'[OrderOf(h)'])
  BY DEF DeliveredDecides, Decided
<1>1. h \in Handler
  BY NextTypeInv DEF TypeInv, TypeOK
<1>2. h \in delivered
  BY <1>1, Delivers DEF SendOutputTokens, NoFaults, Goto, TypeInv, TypeOK
<1>3. PICK o \in Order : o = OrderOf(h) /\ o = OrderOf(h)'
  BY <1>1, <1>2, OrderOfType, OrderOfStable DEF PaidInv, DeliveredStarted
<1>4. Decided(rows[o]) => Decided(rows'[o])
  BY NextStatusStep DEF StatusStep, Decided
<1>5. CASE pc[h] \notin {"complete", "completeUpdate"}
  BY <1>2, <1>3, <1>4, <1>5 DEF DeliveredDecides
<1>6. CASE pc[h] \in {"complete", "completeUpdate"}
  <2>1. CreateCompleteUpdate(h) \/ CompleteUpdate(h)
    <3>1. ~Crash /\ pc'[h] # pc[h]
      BY <1>6, NoRestart
    <3>2. CASE h \in Order /\ Create(h)
      BY <1>6, <3>2 DEF Create, CreateValidate, CreatePrice, CreateInsert,
         CreateTokenAccount, CreatePay, CreateDeliver, CreateComplete, CreateReward,
         CreateCatch, CreateCatchUpdate, SaveSelect, NoFaults, Goto, TypeInv, TypeOK
    <3>3. CASE h \in Order /\ InitWeb3(h)
      BY <1>6, <3>3 DEF InitWeb3, InitValidate, InitPrice, InitInsert, InitBuild
    <3>4. CASE h \in Call /\ CompleteWeb3(h)
      BY <1>1, <1>6, <3>4 DEF CompleteWeb3, CompleteLookup, CompletePrice,
         CompleteDeliver, CompleteSave, CompleteReward, SaveSelect, NoFaults, Goto,
         TypeInv, TypeOK
    <3>5. CASE h \in Call /\ \E q \in Order : CompleteLoad(h, q)
      BY <1>6, <3>5 DEF CompleteLoad, Asks
    <3> QED
      BY <1>1, <3>1, <3>2, <3>3, <3>4, <3>5, HandlerMoves
  <2>2. /\ pc[h] = "completeUpdate" /\ SaveUpdate(h, "reward")
        /\ h \in CustodialOrder \cup Call
    BY <2>1 DEF CreateCompleteUpdate, CompleteUpdate
  <2>3. rows'[o] = Updated(rows[o], entity[h], base[h])
    BY <1>1, <1>3, <2>2, SaveUpdateRow
  <2> QED
    BY <1>3, <2>2, <2>3, CompletingWrite
<1> QED
  BY <1>5, <1>6

\* What the steps of everything else leave alone.
LEMMA CallFrame ==
  ASSUME TypeInv, [Next]_vars, ~Crash, NEW c \in Call,
         ~CompleteWeb3(c), ~ \E o \in Order : CompleteLoad(c, o)
  PROVE  pc'[c] = pc[c] /\ target'[c] = target[c] /\ (c \in delivered' <=> c \in delivered)
<1>1. c \in Handler /\ c \notin Order
  BY OrdersAssumption DEF Handler
<1>2. pc'[c] = pc[c]
  BY <1>1, HandlerMoves
<1>3. target'[c] = target[c]
  <2>1. ASSUME NEW d \in Call, NEW o \in Order, CompleteLoad(d, o)
        PROVE  target'[c] = target[c]
    BY <2>1 DEF CompleteLoad, Asks, TypeInv, TypeOK
  <2>2. \/ target' = target
        \/ \E d \in Call, o \in Order : CompleteLoad(d, o)
    BY DEF Next, vars, Create, InitWeb3, CompleteWeb3, CreateValidate,
         CreatePrice, CreateInsert, CreateTokenAccount, CreatePay,
         CreateDeliver, CreateComplete, CreateCompleteUpdate, CreateReward,
         CreateCatch, CreateCatchUpdate, InitValidate, InitPrice, InitInsert,
         InitBuild, ClientPay, OtherPays, OrderAges, CompleteLookup, CompletePrice,
         CompleteDeliver, CompleteSave, CompleteUpdate, CompleteReward,
         SweepStart, SweepSelect, SweepUpdate, SweepAbort, CacheExpires,
         PriceFetched
  <2> QED
    BY <2>1, <2>2
<1>4. c \in delivered' => c \in delivered
  BY <1>1, Delivers DEF CompleteWeb3
<1> QED
  BY <1>2, <1>3, <1>4, NextMonotone

\* How a call moves, when nothing fails.
LEMMA CallSteps ==
  ASSUME TypeInv, StatusInv, HashInv, PaidInv, DeliveredLate, [Next]_vars, NoFaults,
         NEW c \in Call, CompleteWeb3(c)
  PROVE  /\ pc[c] \notin {"idle", "done"} /\ target' = target
         /\ \A d \in Call \ {c} : pc'[d] = pc[d] /\ (d \in delivered' <=> d \in delivered)
         /\ pc'[c] # "idle"
         /\ pc'[c] \in Deciding => pc[c] \in Deciding /\ c \notin delivered'
         /\ c \in delivered' /\ c \notin delivered =>
              pc[c] \in Deciding /\ pc'[c] = "complete"
<1>0. c \in Handler /\ Call \subseteq Handler /\ (c \in delivered => pc[c] \notin Early)
  BY DEF Handler, DeliveredLate
<1> USE <1>0 DEF Early, Deciding, Goto, TypeInv, TypeOK, NoFaults
<1>1. ASSUME CompleteLookup(c) \/ CompletePrice(c)
      PROVE  /\ pc[c] \in {"lookup", "price"} /\ delivered' = delivered /\ target' = target
             /\ \A d \in Call \ {c} : pc'[d] = pc[d]
             /\ pc'[c] \in {"price", "deliver", "done"}
  BY <1>1 DEF CompleteLookup, CompletePrice, CalculateUSDValue
<1>2. ASSUME CompleteDeliver(c)
      PROVE  /\ pc[c] = "deliver" /\ target' = target
             /\ \A d \in Call \ {c} : pc'[d] = pc[d]
             /\ \/ pc'[c] = "complete" /\ delivered' = delivered \cup {c}
                \/ pc'[c] = "done" /\ delivered' = delivered
  BY <1>2 DEF CompleteDeliver, SendOutputTokens
<1>3. ASSUME CompleteSave(c)
      PROVE  /\ pc[c] = "complete" /\ delivered' = delivered /\ target' = target
             /\ \A d \in Call \ {c} : pc'[d] = pc[d]
             /\ pc'[c] = "completeUpdate"
  BY <1>3 DEF CompleteSave, SaveSelect
<1>4. ASSUME CompleteUpdate(c)
      PROVE  /\ pc[c] = "completeUpdate" /\ delivered' = delivered /\ target' = target
             /\ \A d \in Call \ {c} : pc'[d] = pc[d]
             /\ pc'[c] = "reward"
  BY <1>4 DEF CompleteUpdate, SaveUpdate
<1>5. ASSUME CompleteReward(c)
      PROVE  /\ pc[c] = "reward" /\ delivered' = delivered /\ target' = target
             /\ \A d \in Call \ {c} : pc'[d] = pc[d]
             /\ pc'[c] = "done"
  BY <1>5 DEF CompleteReward, RequestReward
<1> QED
  BY <1>1, <1>2, <1>3, <1>4, <1>5 DEF CompleteWeb3

LEMMA NextServedInv ==
  /\ TypeInv /\ PaidInv /\ StatusInv /\ HashInv /\ DeliveredLate /\ SerialInv /\ ServedInv
  /\ [Next]_vars
  => ServedInv'
<1> SUFFICES ASSUME TypeInv, PaidInv, StatusInv, HashInv, DeliveredLate, SerialInv,
                    [Next]_vars, NoFaults, SerialClients,
                    OneActive, DeliveredDecides, FirstToDeliver, NotAfterCreate
             PROVE  OneActive' /\ DeliveredDecides' /\ FirstToDeliver' /\ NotAfterCreate'
  BY DEF ServedInv, NoFaults
<1>0. ~Crash /\ DeliveredDecides'
  BY NoRestart, NextDecides
<1>1. \A c \in Call : c \in delivered => target[c] \in Order /\ pc[c] # "idle"
  BY DEF PaidInv, DeliveredStarted, TypeInv, Started, Order
<1>2. ASSUME NEW o \in Order, o \in delivered', o \notin delivered
      PROVE  /\ CreateDeliver(o) /\ pc[o] = "deliver"
             /\ \A c \in Call : /\ ~CompleteWeb3(c)
                                /\ ~ \E q \in Order : CompleteLoad(c, q)
  <2>1. CreateDeliver(o) /\ pc[o] = "deliver"
    BY <1>2, Delivers, OrdersAssumption DEF CreateDeliver, Handler
  <2>2. ASSUME NEW c \in Call, CompleteWeb3(c)
        PROVE  FALSE
    BY <1>2, <2>2, OrdersAssumption
       DEF CompleteWeb3, CompleteLookup, CompletePrice, CompleteDeliver, CompleteSave,
           CompleteUpdate, CompleteReward, SendOutputTokens
  <2>3. ASSUME NEW c \in Call, NEW q \in Order, CompleteLoad(c, q)
        PROVE  FALSE
    BY <1>2, <2>3 DEF CompleteLoad
  <2> QED
    BY <2>1, <2>2, <2>3
<1>3. ASSUME NEW c \in Call, CompleteWeb3(c)
      PROVE  OneActive' /\ FirstToDeliver' /\ NotAfterCreate'
  <2> USE CallSteps, <1>3
  <2>1. OneActive'
    BY DEF OneActive
  <2>2. NotAfterCreate'
    BY <1>2 DEF NotAfterCreate, TypeInv, Started
  <2>3. ASSUME NEW d \in Call, NEW e \in Call, e \in delivered', target'[d] = target'[e]
        PROVE  pc'[d] \notin Deciding /\ (d \in delivered' => d = e)
    <3>1. CASE e \in delivered
      BY <2>3, <3>1 DEF FirstToDeliver
    <3>2. CASE e \notin delivered
      <4>1. e = c /\ pc[c] \in Deciding /\ pc'[c] = "complete"
        BY <2>3, <3>2
      <4>2. d # c => pc[d] = "done" /\ pc'[d] = "done"
        BY <2>3, <4>1 DEF OneActive, Deciding
      <4>3. d # c => d \notin delivered'
        BY <2>3, <4>1, <4>2 DEF FirstToDeliver
      <4> QED
        BY <4>1, <4>2, <4>3 DEF Deciding
    <3> QED
      BY <3>1, <3>2
  <2> QED
    BY <2>1, <2>2, <2>3 DEF FirstToDeliver
<1>4. ASSUME NEW c \in Call, NEW o \in Order, CompleteLoad(c, o)
      PROVE  OneActive' /\ FirstToDeliver' /\ NotAfterCreate'
  <2>1. /\ pc[c] = "idle" /\ c \notin delivered /\ delivered' = delivered
        /\ target'[c] = o /\ pc'[c] = "lookup" /\ ~Decided(rows[o])
        /\ pc[o] \in Resting
        /\ \A d \in Call \ {c} : pc'[d] = pc[d] /\ target'[d] = target[d]
        /\ \A d \in Call : target[d] = o => pc[d] = "done"
    BY <1>1, <1>4 DEF CompleteLoad, Asks, Goto, Decided, TypeInv, TypeOK, Handler
  <2>2. OneActive'
    BY <2>1 DEF OneActive
  <2>3. o \notin delivered
    BY <2>1, OrderOfValue DEF DeliveredDecides, Resting
  <2>4. \A d \in Call \cap delivered : target[d] # o
    BY <2>1, OrderOfValue DEF DeliveredDecides
  <2>5. FirstToDeliver'
    BY <2>1, <2>4 DEF FirstToDeliver
  <2>6. NotAfterCreate'
    BY <2>1, <2>3 DEF NotAfterCreate
  <2> QED
    BY <2>2, <2>5, <2>6
<1>5. ASSUME \A c \in Call : ~CompleteWeb3(c) /\ ~ \E o \in Order : CompleteLoad(c, o)
      PROVE  OneActive' /\ FirstToDeliver' /\ NotAfterCreate'
  <2>1. \A c \in Call : /\ pc'[c] = pc[c] /\ target'[c] = target[c]
                        /\ c \in delivered' <=> c \in delivered
    BY <1>0, <1>5, CallFrame
  <2>2. OneActive' /\ FirstToDeliver'
    BY <2>1 DEF OneActive, FirstToDeliver, Deciding
  <2>3. \A c \in Call : pc[c] # "idle" => /\ target[c] \in Order
                                          /\ pc[target[c]] # "deliver"
    BY DEF SerialInv, TypeInv, Started
  <2>4. NotAfterCreate'
    BY <1>2, <2>1, <2>3 DEF NotAfterCreate
  <2> QED
    BY <2>2, <2>4
<1> QED
  BY <1>0, <1>3, <1>4, <1>5

\* If clients wait for the answer before they ask again and nothing fails, the
\* status check of completeWeb3Wallet is enough: no order is served twice, for any
\* number of orders, retries and sweeps, whatever the calls name.
THEOREM ServedOnce == Spec => []SerialClientsServedOnce
<1>1. TypeInv /\ PaidInv /\ DeliveredLate /\ ServedInv => SerialClientsServedOnce
  <2> SUFFICES ASSUME TypeInv, PaidInv, DeliveredLate, ServedInv, NoFaults, SerialClients,
                      NEW g \in delivered, NEW h \in delivered, OrderOf(g) = OrderOf(h)
               PROVE  g = h
    BY DEF SerialClientsServedOnce
  <2>1. ASSUME NEW x \in delivered
        PROVE  \/ x \in Order /\ OrderOf(x) = x
               \/ x \in Call /\ OrderOf(x) = target[x] /\ target[x] \notin delivered
    <3>1. x \in Order \/ x \in Call
      BY DEF TypeInv, TypeOK, Handler
    <3>2. pc[x] # "idle"
      BY DEF PaidInv, DeliveredStarted
    <3> QED
      BY <3>1, <3>2, OrderOfValue DEF ServedInv, NotAfterCreate
  <2> QED
    BY <2>1 DEF ServedInv, FirstToDeliver
<1>2. RewardInv => DeliveredLate
  BY DEF RewardInv
<1> QED
  BY InitTypeInv, NextTypeInv, InitPaidInv, NextPaidInv, InitStatusInv, NextStatusInv,
     InitHashInv, NextHashInv, InitRewardInv, NextRewardInv, InitSerialInv,
     NextSerialInv, InitServedInv, NextServedInv, <1>1, <1>2, PTL DEF Spec
=============================================================================
