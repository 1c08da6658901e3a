---------------------------- MODULE StakeProofs ----------------------------
(***************************************************************************)
(* Theorems about the stakes: of UserStakes, for any finite set of         *)
(* transactions, and of UserUnstakes, for any rows, whatever accounts      *)
(* their numbers name; both for any requests and any environments.  The    *)
(* second component is an instance, whose variables are its own.           *)
(***************************************************************************)
EXTENDS Staking, FiniteSetTheorems, TLAPS

LEMMA EnvironmentType ==
  ASSUME env \in Environments
  PROVE  /\ env.handlers \subseteq Handler
         /\ env.serial \in BOOLEAN
         /\ env.lostAnswers \in BOOLEAN
         /\ env.chainFaults \in BOOLEAN
         /\ env.dbFaults \in BOOLEAN
         /\ env.maxCrashes \in Nat
BY EnvironmentsAssumption

\* Numbers are natural numbers, and None is neither a number nor a transaction.
LEMMA NumberType ==
  /\ Cardinality(Tx) \in Nat
  /\ Number \subseteq Nat
  /\ 0 \in Number
  /\ None \notin Number
  /\ None \notin Tx
  /\ NoRow \notin Row
BY RequestsAssumption, FS_CardinalityType DEF Number, NoRow, Row

-----------------------------------------------------------------------------
(* The ledger, and the types.                                              *)

Opened == {t \in Tx : stakeOf[t] # None}

\* A transaction is in flight or executed; what opened a stake was executed, and
\* opened it with the number it names; a create request sends once.
LedgerInv ==
  /\ inFlight \cap executed = {}
  /\ \A t \in Tx : stakeOf[t] # None => /\ t \in executed
                                        /\ stakeOf[t] = built[t]
                                        /\ stakeOf[t] < counter
  /\ \A c \in Create : pc[c] \in {"idle", "send"} => c \notin inFlight \cup executed
  /\ counter = Cardinality(Opened)

CreateLabel  == {"idle", "send", "save", "done"}
ExecuteLabel == {"idle", "existing", "confirm", "refetch", "save", "done"}

\* What a handler has when it is suspended.
HandlerInv ==
  /\ \A c \in Create :
       /\ pc[c] \in CreateLabel
       /\ sig[c] \in {None, c}
       /\ pc[c] \in {"send", "save"} => sig[c] = c /\ number[c] = built[c]
  /\ \A e \in Execute :
       /\ pc[e] \in ExecuteLabel
       /\ sig[e] \in Signed \cup {None}
       /\ pc[e] \notin {"idle", "done"} => sig[e] # None
       /\ pc[e] = "idle" => sig[e] = None
  /\ \A h \in Handler : pc[h] = "save" => number[h] # None
  /\ \A c \in Create : pc[c] = "send" => built[c] # None

TypeInv == TypeOK /\ LedgerInv /\ HandlerInv

LEMMA InitTypeInv == Init => TypeInv
<1> SUFFICES ASSUME Init
             PROVE  TypeInv
  OBVIOUS
<1>1. Opened = {}
  BY DEF Init, Opened
<1>2. Cardinality({}) = 0
  BY FS_EmptySet
<1> QED
  BY <1>1, <1>2, NumberType, EnvironmentType
     DEF Init, TypeInv, TypeOK, LedgerInv, HandlerInv, CreateLabel, ExecuteLabel, Handler

\* A transaction that opens a stake makes one more, and there are no more stakes
\* than transactions.
LEMMA OneMoreOpened ==
  ASSUME TypeInv, NEW t \in Tx, stakeOf[t] = None,
         stakeOf' = [stakeOf EXCEPT ![t] = counter]
  PROVE  /\ Cardinality(Opened') = counter + 1
         /\ counter + 1 \in Number
<1>1. IsFiniteSet(Tx)
  BY RequestsAssumption
<1>2. Opened \subseteq Tx /\ Opened' \subseteq Tx
  BY DEF Opened
<1>3. Opened' = Opened \cup {t} /\ t \notin Opened
  BY NumberType DEF Opened, TypeInv, TypeOK
<1>4. IsFiniteSet(Opened) /\ IsFiniteSet(Opened')
  BY <1>1, <1>2, FS_Subset
<1>5. Cardinality(Opened') = Cardinality(Opened) + 1
  BY <1>3, <1>4, FS_AddElement
<1>6. Cardinality(Opened') <= Cardinality(Tx)
  BY <1>1, <1>2, FS_Subset
<1> QED
  BY <1>5, <1>6, NumberType DEF TypeInv, TypeOK, LedgerInv, Number

LEMMA OpenedSame == stakeOf' = stakeOf => Opened' = Opened
BY DEF Opened

LEMMA NextTypeInv == TypeInv /\ [Next]_vars => TypeInv'
<1> SUFFICES ASSUME TypeInv, [Next]_vars
             PROVE  TypeInv'
  OBVIOUS
<1>0. /\ env' = env
      /\ Create \cap Signed = {}
      /\ Create \cap Execute = {}
  BY RequestsAssumption DEF Next, vars
<1> USE <1>0, NumberType, OpenedSame
        DEF TypeInv, TypeOK, LedgerInv, HandlerInv, CreateLabel, ExecuteLabel, Goto,
            Handler, Tx
<1>1. ASSUME NEW c \in Create, CreateRead(c)
      PROVE  TypeInv'
  BY <1>1 DEF CreateRead
<1>2. ASSUME NEW c \in Create, CreateSend(c)
      PROVE  TypeInv'
  BY <1>2 DEF CreateSend
<1>3. ASSUME NEW c \in Create, CreateSave(c)
      PROVE  TypeInv'
  BY <1>3 DEF CreateSave, InsertRow, Row
<1>4. ASSUME NEW s \in Signed, PrepareStakeTransaction(s)
      PROVE  TypeInv'
  BY <1>4 DEF PrepareStakeTransaction
<1>5. ASSUME NEW e \in Execute, NEW s \in Signed, ExecuteSend(e, s)
      PROVE  TypeInv'
  BY <1>5 DEF ExecuteSend
<1>6. ASSUME NEW e \in Execute, ExecuteExisting(e)
      PROVE  TypeInv'
  BY <1>6 DEF ExecuteExisting
<1>7. ASSUME NEW e \in Execute, ExecuteConfirm(e)
      PROVE  TypeInv'
  BY <1>7 DEF ExecuteConfirm
<1>8. ASSUME NEW e \in Execute, ExecuteRefetch(e)
      PROVE  TypeInv'
  <2>1. counter > 0 => counter - 1 \in Number
    BY DEF Number
  <2> QED
    BY <1>8, <2>1 DEF ExecuteRefetch
<1>9. ASSUME NEW e \in Execute, ExecuteSave(e)
      PROVE  TypeInv'
  BY <1>9 DEF ExecuteSave, InsertRow, Row
<1>10. ASSUME NEW t \in Tx, Land(t)
       PROVE  TypeInv'
  <2>1. stakeOf[t] = None
    BY <1>10 DEF Land
  <2>2. CASE /\ built[t] = counter
             /\ stakeOf' = [stakeOf EXCEPT ![t] = counter]
             /\ counter' = counter + 1
    <3>1. /\ Cardinality(Opened') = counter'
          /\ counter' \in Number
      BY <2>1, <2>2, OneMoreOpened
    <3>2. /\ inFlight' \cap executed' = {}
          /\ \A c \in Create :
               pc'[c] \in {"idle", "send"} => c \notin inFlight' \cup executed'
      BY <1>10 DEF Land
    <3>3. ASSUME NEW u \in Tx, stakeOf'[u] # None
          PROVE  /\ u \in executed'
                 /\ stakeOf'[u] = built'[u]
                 /\ stakeOf'[u] < counter'
      <4>1. counter \in Nat /\ (u # t => stakeOf[u] \in Nat)
        BY <2>2, <3>3
      <4> QED
        BY <1>10, <2>2, <3>3, <4>1 DEF Land
    <3>4. TypeOK' /\ HandlerInv'
      BY <1>10, <2>2, <3>1 DEF Land
    <3> QED
      BY <3>1, <3>2, <3>3, <3>4
  <2>3. CASE UNCHANGED <<stakeOf, counter>>
    BY <1>10, <2>3 DEF Land
  <2> QED
    BY <1>10, <2>2, <2>3 DEF Land
<1>11. ASSUME NEW t \in Tx, Dropped(t)
       PROVE  TypeInv'
  BY <1>11 DEF Dropped
<1>12. ASSUME Crash
       PROVE  TypeInv'
  BY <1>12, EnvironmentType DEF Crash
<1>13. CASE UNCHANGED vars
  BY <1>13 DEF vars, moving
<1> QED
  BY <1>1, <1>2, <1>3, <1>4, <1>5, <1>6, <1>7, <1>8, <1>9, <1>10, <1>11, <1>12, <1>13
     DEF Next, CreateStake, ExecuteStakeTransaction

\* Every variable keeps its type; in particular the counter never passes the
\* number of transactions.
THEOREM TypeCorrect == Spec => []TypeOK
<1>1. TypeInv => TypeOK
  BY DEF TypeInv
<1> QED
  BY InitTypeInv, NextTypeInv, <1>1, PTL DEF Spec

-----------------------------------------------------------------------------
(* A row for every stake.                                                  *)

\* What a handler inserts it inserts last and for its own transaction, no two of
\* them for the same one; who confirmed its transaction knows it executed.
RowsInv ==
  /\ \A h \in Handler : rows[h] # NoRow => pc[h] = "done" /\ rows[h].sig = sig[h]
  /\ \A g, h \in Handler :
       (rows[g].sig = rows[h].sig /\ rows[g] # NoRow) => g = h
  /\ \A e \in Execute :
       pc[e] \in {"refetch", "save"} \/ rows[e] # NoRow => sig[e] \in executed

\* A request is still going to record t.
Carried(t) ==
  \E h \in Handler : sig[h] = t /\ pc[h] \in {"existing", "confirm", "refetch", "save"}

\* Without faults, what was sent has a row or will get one, or failed on chain.
KeptInv ==
  NoFaults =>
    \A t \in inFlight \cup executed :
      Recorded(t) \/ Carried(t) \/ (t \in executed /\ stakeOf[t] = None)

\* A save of t leaves every row in place and t with a row.
LEMMA InsertRowRecords ==
  ASSUME TypeInv, NEW h \in Handler, pc[h] = "save", rows[h] = NoRow, InsertRow(h)
  PROVE  /\ \A t : Recorded(t) /\ t # None => Recorded(t)'
         /\ ~DbFaults => \A t : t = sig[h] => Recorded(t)'
<1>1. rows \in [Handler -> Row \cup {NoRow}] /\ sig[h] \in Tx
  BY RequestsAssumption DEF TypeInv, TypeOK, HandlerInv, CreateLabel, Handler, Tx
<1>2. CASE rows' = [rows EXCEPT ![h] = [sig |-> sig[h], stake_id |-> number[h]]]
  <2>1. \A g \in Handler : g # h => rows'[g] = rows[g]
    BY <1>1, <1>2
  <2>2. rows'[h].sig = sig[h]
    BY <1>1, <1>2
  <2> QED
    BY <2>1, <2>2 DEF Recorded, NoRow, InsertRow, Goto
<1>3. CASE rows' = rows /\ (Recorded(sig[h]) \/ DbFaults)
  BY <1>3 DEF Recorded
<1> QED
  BY <1>2, <1>3 DEF InsertRow

LEMMA NextRowsInv == TypeInv /\ RowsInv /\ [Next]_vars => RowsInv'
<1> SUFFICES ASSUME TypeInv, RowsInv, [Next]_vars
             PROVE  RowsInv'
  OBVIOUS
<1>0. /\ Create \cap Signed = {}
      /\ Create \cap Execute = {}
      /\ None \notin Tx
  BY RequestsAssumption
<1> USE <1>0 DEF TypeInv, TypeOK, LedgerInv, HandlerInv, CreateLabel, ExecuteLabel, Goto,
                 Handler, Tx, RowsInv, NoRow
<1>1. ASSUME NEW c \in Create, CreateRead(c)
      PROVE  RowsInv'
  BY <1>1 DEF CreateRead
<1>2. ASSUME NEW c \in Create, CreateSend(c)
      PROVE  RowsInv'
  BY <1>2 DEF CreateSend
<1>3. ASSUME NEW h \in Handler, pc[h] = "save", InsertRow(h),
             UNCHANGED <<sig, executed>>
      PROVE  RowsInv'
  <2>1. sig[h] # None /\ rows[h] = NoRow
    BY <1>3
  <2>2. CASE rows' = [rows EXCEPT ![h] = [sig |-> sig[h], stake_id |-> number[h]]]
             /\ ~Recorded(sig[h])
    BY <1>3, <2>1, <2>2 DEF InsertRow, Recorded
  <2>3. CASE rows' = rows
    BY <1>3, <2>3 DEF InsertRow
  <2> QED
    BY <1>3, <2>2, <2>3 DEF InsertRow
<1>4. ASSUME NEW s \in Signed, PrepareStakeTransaction(s)
      PROVE  RowsInv'
  BY <1>4 DEF PrepareStakeTransaction
<1>5. ASSUME NEW e \in Execute, NEW s \in Signed, ExecuteSend(e, s)
      PROVE  RowsInv'
  BY <1>5 DEF ExecuteSend
<1>6. ASSUME NEW e \in Execute, ExecuteExisting(e)
      PROVE  RowsInv'
  BY <1>6 DEF ExecuteExisting
<1>7. ASSUME NEW e \in Execute, ExecuteConfirm(e)
      PROVE  RowsInv'
  BY <1>7 DEF ExecuteConfirm
<1>8. ASSUME NEW e \in Execute, ExecuteRefetch(e)
      PROVE  RowsInv'
  BY <1>8 DEF ExecuteRefetch
<1>9. ASSUME NEW t \in Tx, Land(t)
      PROVE  RowsInv'
  BY <1>9 DEF Land
<1>10. ASSUME NEW t \in Tx, Dropped(t)
       PROVE  RowsInv'
  BY <1>10 DEF Dropped
<1>11. ASSUME Crash
       PROVE  RowsInv'
  BY <1>11 DEF Crash
<1>12. CASE UNCHANGED vars
  BY <1>12 DEF vars, moving
<1> QED
  BY <1>1, <1>2, <1>3, <1>4, <1>5, <1>6, <1>7, <1>8, <1>9, <1>10, <1>11, <1>12
     DEF Next, CreateStake, ExecuteStakeTransaction, CreateSave, ExecuteSave

LEMMA NextKeptInv == TypeInv /\ RowsInv /\ KeptInv /\ [Next]_vars => KeptInv'
<1> SUFFICES ASSUME TypeInv, RowsInv, KeptInv, [Next]_vars, NoFaults
             PROVE  \A t \in inFlight' \cup executed' :
                      \/ Recorded(t)' \/ Carried(t)'
                      \/ t \in executed' /\ stakeOf'[t] = None
  BY DEF KeptInv, NoFaults, LostAnswers, ChainFaults, DbFaults, Next, vars
<1>0. /\ Create \cap Signed = {}
      /\ Create \cap Execute = {}
      /\ None \notin Tx
      /\ ~LostAnswers /\ ~ChainFaults /\ ~DbFaults
      /\ ~ (crashes < env.maxCrashes)
      /\ \A t \in inFlight \cup executed :
           Recorded(t) \/ Carried(t) \/ (t \in executed /\ stakeOf[t] = None)
  BY RequestsAssumption DEF NoFaults, KeptInv, TypeInv, TypeOK
<1> USE <1>0 DEF TypeInv, TypeOK, LedgerInv, HandlerInv, CreateLabel, ExecuteLabel, Goto,
                 Handler, Tx, RowsInv, Carried, NoRow
<1>1. ASSUME NEW c \in Create, CreateRead(c)
      PROVE  \A t \in inFlight' \cup executed' :
               \/ Recorded(t)' \/ Carried(t)'
               \/ t \in executed' /\ stakeOf'[t] = None
  BY <1>1 DEF CreateRead, Recorded
<1>2. ASSUME NEW c \in Create, CreateSend(c)
      PROVE  \A t \in inFlight' \cup executed' :
               \/ Recorded(t)' \/ Carried(t)'
               \/ t \in executed' /\ stakeOf'[t] = None
  BY <1>2 DEF CreateSend, Recorded
<1>3. ASSUME NEW h \in Handler, pc[h] = "save", InsertRow(h),
             UNCHANGED <<sig, executed, inFlight, stakeOf>>
      PROVE  \A t \in inFlight' \cup executed' :
               \/ Recorded(t)' \/ Carried(t)'
               \/ t \in executed' /\ stakeOf'[t] = None
  <2>1. rows[h] = NoRow
    BY <1>3
  <2>2. /\ \A t : Recorded(t) /\ t # None => Recorded(t)'
        /\ \A t : t = sig[h] => Recorded(t)'
    BY <1>3, <2>1, InsertRowRecords
  <2> QED
    BY <1>3, <2>2 DEF InsertRow
<1>4. ASSUME NEW s \in Signed, PrepareStakeTransaction(s)
      PROVE  \A t \in inFlight' \cup executed' :
               \/ Recorded(t)' \/ Carried(t)'
               \/ t \in executed' /\ stakeOf'[t] = None
  BY <1>4 DEF PrepareStakeTransaction, Recorded
<1>5. ASSUME NEW e \in Execute, NEW s \in Signed, ExecuteSend(e, s)
      PROVE  \A t \in inFlight' \cup executed' :
               \/ Recorded(t)' \/ Carried(t)'
               \/ t \in executed' /\ stakeOf'[t] = None
  BY <1>5 DEF ExecuteSend, Recorded
<1>6. ASSUME NEW e \in Execute, ExecuteExisting(e)
      PROVE  \A t \in inFlight' \cup executed' :
               \/ Recorded(t)' \/ Carried(t)'
               \/ t \in executed' /\ stakeOf'[t] = None
  BY <1>6 DEF ExecuteExisting, Recorded
<1>7. ASSUME NEW e \in Execute, ExecuteConfirm(e)
      PROVE  \A t \in inFlight' \cup executed' :
               \/ Recorded(t)' \/ Carried(t)'
               \/ t \in executed' /\ stakeOf'[t] = None
  BY <1>7 DEF ExecuteConfirm, Recorded
<1>8. ASSUME NEW e \in Execute, ExecuteRefetch(e)
      PROVE  \A t \in inFlight' \cup executed' :
               \/ Recorded(t)' \/ Carried(t)'
               \/ t \in executed' /\ stakeOf'[t] = None
  <2>1. CASE counter > 0
    BY <1>8, <2>1 DEF ExecuteRefetch, Recorded
  <2>2. CASE counter = 0
    <3>1. stakeOf[sig[e]] = None /\ sig[e] \in executed
      <4>1. sig[e] \in Tx /\ sig[e] \in executed
        BY <1>8 DEF ExecuteRefetch
      <4>2. stakeOf[sig[e]] # None => stakeOf[sig[e]] \in Nat /\ stakeOf[sig[e]] < 0
        <5>1. Number \subseteq Nat
          BY NumberType
        <5>2. stakeOf[sig[e]] # None => stakeOf[sig[e]] < 0
          BY <2>2, <4>1
        <5>3. stakeOf[sig[e]] # None => stakeOf[sig[e]] \in Number
          BY <4>1
        <5> QED
          BY <5>1, <5>2, <5>3
      <4> QED
        BY <4>1, <4>2
    <3> QED
      BY <1>8, <2>2, <3>1 DEF ExecuteRefetch, Recorded
  <2> QED
    BY <1>8, <2>1, <2>2 DEF ExecuteRefetch
<1>9. ASSUME NEW t \in Tx, Land(t)
      PROVE  \A u \in inFlight' \cup executed' :
               \/ Recorded(u)' \/ Carried(u)'
               \/ u \in executed' /\ stakeOf'[u] = None
  BY <1>9 DEF Land, Recorded
<1>10. ASSUME NEW t \in Tx, Dropped(t)
       PROVE  FALSE
  BY <1>10 DEF Dropped
<1>11. ~Crash
  BY DEF Crash
<1>12. CASE UNCHANGED vars
  BY <1>12 DEF vars, moving, Recorded
<1> QED
  BY <1>1, <1>2, <1>3, <1>4, <1>5, <1>6, <1>7, <1>8, <1>9, <1>10, <1>11, <1>12
     DEF Next, CreateStake, ExecuteStakeTransaction, CreateSave, ExecuteSave

\* A transaction has one row at most, and without faults a stake whose requests
\* have returned has one: the unique column of the signature sees to the first,
\* whatever requests look before they insert.
THEOREM RecordedOnceHolds == Spec => []RecordedOnce
<1>1. Init => RowsInv /\ KeptInv
  BY DEF Init, RowsInv, KeptInv, Handler, NoRow
<1>2. TypeInv /\ RowsInv /\ KeptInv => RecordedOnce
  BY DEF TypeInv, LedgerInv, RowsInv, KeptInv, RecordedOnce, Carried
<1> QED
  BY InitTypeInv, NextTypeInv, NextRowsInv, NextKeptInv, <1>1, <1>2, PTL DEF Spec

-----------------------------------------------------------------------------
(* The number in a row.                                                    *)

\* A number read once its transaction was executed is its stake's or a later one.
NumberInv ==
  /\ \A c \in Create : rows[c] # NoRow => rows[c].sig = c /\ rows[c].stake_id = built[c]
  /\ \A e \in Execute :
       (sig[e] # None /\ stakeOf[sig[e]] # None) =>
         /\ pc[e] = "save" => number[e] >= stakeOf[sig[e]]
         /\ rows[e] # NoRow => rows[e].stake_id >= stakeOf[sig[e]]

Active(h) == pc[h] \notin {"idle", "done"}

\* One at a time: while a handler is at work no other is, and nothing but its own
\* transaction is on its way; and a signed transaction was sent by a request.
AloneInv ==
  /\ Serial => \A g, h \in Handler : Active(g) /\ Active(h) => g = h
  /\ Serial => \A h \in Handler : Active(h) => inFlight \subseteq {sig[h]}
  /\ \A s \in Signed \cap (inFlight \cup executed) : \E e \in Execute : sig[e] = s

First(e) == \A d \in Execute \ {e} : sig[d] # sig[e]

\* The first to submit a transaction reads the counter its stake has left.
FirstInv ==
  Serial =>
    \A e \in Execute :
      (First(e) /\ sig[e] # None /\ stakeOf[sig[e]] # None) =>
        /\ pc[e] \in {"existing", "confirm", "refetch"} => counter = stakeOf[sig[e]] + 1
        /\ pc[e] = "save" => number[e] = stakeOf[sig[e]]
        /\ rows[e] # NoRow => rows[e].stake_id = stakeOf[sig[e]]

LEMMA NextNumberInv == TypeInv /\ RowsInv /\ NumberInv /\ [Next]_vars => NumberInv'
<1> SUFFICES ASSUME TypeInv, RowsInv, NumberInv, [Next]_vars
             PROVE  NumberInv'
  OBVIOUS
<1>0. /\ Create \cap Signed = {}
      /\ Create \cap Execute = {}
      /\ None \notin Tx
      /\ Number \subseteq Nat
      /\ None \notin Number
  BY RequestsAssumption, NumberType
<1> USE <1>0 DEF TypeInv, TypeOK, LedgerInv, HandlerInv, CreateLabel, ExecuteLabel, Goto,
                 Handler, Tx, RowsInv, NoRow, NumberInv
<1>1. ASSUME NEW c \in Create, CreateRead(c)
      PROVE  NumberInv'
  BY <1>1 DEF CreateRead
<1>2. ASSUME NEW c \in Create, CreateSend(c)
      PROVE  NumberInv'
  BY <1>2 DEF CreateSend
<1>3. ASSUME NEW c \in Create, CreateSave(c)
      PROVE  NumberInv'
  BY <1>3 DEF CreateSave, InsertRow
<1>4. ASSUME NEW s \in Signed, PrepareStakeTransaction(s)
      PROVE  NumberInv'
  BY <1>4 DEF PrepareStakeTransaction
<1>5. ASSUME NEW e \in Execute, NEW s \in Signed, ExecuteSend(e, s)
      PROVE  NumberInv'
  BY <1>5 DEF ExecuteSend
<1>6. ASSUME NEW e \in Execute, ExecuteExisting(e)
      PROVE  NumberInv'
  BY <1>6 DEF ExecuteExisting
<1>7. ASSUME NEW e \in Execute, ExecuteConfirm(e)
      PROVE  NumberInv'
  BY <1>7 DEF ExecuteConfirm
<1>8. ASSUME NEW e \in Execute, ExecuteRefetch(e)
      PROVE  NumberInv'
  <2>1. stakeOf[sig[e]] # None => counter - 1 >= stakeOf[sig[e]]
    <3>1. sig[e] \in Tx
      BY <1>8 DEF ExecuteRefetch
    <3>2. stakeOf[sig[e]] # None => /\ stakeOf[sig[e]] \in Number
                                    /\ stakeOf[sig[e]] < counter
      BY <3>1
    <3>3. counter \in Number
      OBVIOUS
    <3> QED
      BY <3>2, <3>3
  <2> QED
    BY <1>8, <2>1 DEF ExecuteRefetch
<1>9. ASSUME NEW e \in Execute, ExecuteSave(e)
      PROVE  NumberInv'
  BY <1>9 DEF ExecuteSave, InsertRow
<1>10. ASSUME NEW t \in Tx, Land(t)
       PROVE  NumberInv'
  BY <1>10 DEF Land
<1>11. ASSUME NEW t \in Tx, Dropped(t)
       PROVE  NumberInv'
  BY <1>11 DEF Dropped
<1>12. ASSUME Crash
       PROVE  NumberInv'
  BY <1>12 DEF Crash
<1>13. CASE UNCHANGED vars
  BY <1>13 DEF vars, moving
<1> QED
  BY <1>1, <1>2, <1>3, <1>4, <1>5, <1>6, <1>7, <1>8, <1>9, <1>10, <1>11, <1>12, <1>13
     DEF Next, CreateStake, ExecuteStakeTransaction

LEMMA NextAloneInv == TypeInv /\ AloneInv /\ [Next]_vars => AloneInv'
<1> SUFFICES ASSUME TypeInv, AloneInv, [Next]_vars
             PROVE  AloneInv'
  OBVIOUS
<1>0. /\ env' = env
      /\ Create \cap Signed = {}
      /\ Create \cap Execute = {}
      /\ None \notin Tx
  BY RequestsAssumption DEF Next, vars
<1> USE <1>0 DEF TypeInv, TypeOK, LedgerInv, HandlerInv, CreateLabel, ExecuteLabel, Goto,
                 Handler, Tx, AloneInv, Active, Serial
<1>1. ASSUME NEW c \in Create, CreateRead(c)
      PROVE  AloneInv'
  BY <1>1 DEF CreateRead, Underway
<1>2. ASSUME NEW c \in Create, CreateSend(c)
      PROVE  AloneInv'
  BY <1>2 DEF CreateSend
<1>3. ASSUME NEW c \in Create, CreateSave(c)
      PROVE  AloneInv'
  BY <1>3 DEF CreateSave, InsertRow
<1>4. ASSUME NEW s \in Signed, PrepareStakeTransaction(s)
      PROVE  AloneInv'
  BY <1>4 DEF PrepareStakeTransaction
<1>5. ASSUME NEW e \in Execute, NEW s \in Signed, ExecuteSend(e, s)
      PROVE  AloneInv'
  BY <1>5 DEF ExecuteSend, Underway
<1>6. ASSUME NEW e \in Execute, ExecuteExisting(e)
      PROVE  AloneInv'
  BY <1>6 DEF ExecuteExisting
<1>7. ASSUME NEW e \in Execute, ExecuteConfirm(e)
      PROVE  AloneInv'
  BY <1>7 DEF ExecuteConfirm
<1>8. ASSUME NEW e \in Execute, ExecuteRefetch(e)
      PROVE  AloneInv'
  BY <1>8 DEF ExecuteRefetch
<1>9. ASSUME NEW e \in Execute, ExecuteSave(e)
      PROVE  AloneInv'
  BY <1>9 DEF ExecuteSave, InsertRow
<1>10. ASSUME NEW t \in Tx, Land(t)
       PROVE  AloneInv'
  BY <1>10 DEF Land
<1>11. ASSUME NEW t \in Tx, Dropped(t)
       PROVE  AloneInv'
  BY <1>11 DEF Dropped
<1>12. ASSUME Crash
       PROVE  AloneInv'
  BY <1>12 DEF Crash
<1>13. CASE UNCHANGED vars
  BY <1>13 DEF vars, moving
<1> QED
  BY <1>1, <1>2, <1>3, <1>4, <1>5, <1>6, <1>7, <1>8, <1>9, <1>10, <1>11, <1>12, <1>13
     DEF Next, CreateStake, ExecuteStakeTransaction

LEMMA NextFirstInv == TypeInv /\ RowsInv /\ AloneInv /\ FirstInv /\ [Next]_vars => FirstInv'
<1> SUFFICES ASSUME TypeInv, RowsInv, AloneInv, FirstInv, Serial, [Next]_vars
             PROVE  FirstInv'
  BY DEF FirstInv, Serial, Next, vars
<1>0. /\ env' = env
      /\ Create \cap Signed = {}
      /\ Create \cap Execute = {}
      /\ None \notin Tx
      /\ Number \subseteq Nat
      /\ None \notin Number
      /\ env.serial
  BY RequestsAssumption, NumberType DEF Next, vars, Serial
<1> USE <1>0 DEF TypeInv, TypeOK, LedgerInv, HandlerInv, CreateLabel, ExecuteLabel, Goto,
                 Handler, Tx, RowsInv, AloneInv, Active, FirstInv, First, Serial, NoRow
<1>1. ASSUME NEW c \in Create, CreateRead(c)
      PROVE  FirstInv'
  BY <1>1 DEF CreateRead
<1>2. ASSUME NEW c \in Create, CreateSend(c)
      PROVE  FirstInv'
  BY <1>2 DEF CreateSend
<1>3. ASSUME NEW c \in Create, CreateSave(c)
      PROVE  FirstInv'
  BY <1>3 DEF CreateSave, InsertRow
<1>4. ASSUME NEW s \in Signed, PrepareStakeTransaction(s)
      PROVE  FirstInv'
  BY <1>4 DEF PrepareStakeTransaction
<1>5. ASSUME NEW e \in Execute, NEW s \in Signed, ExecuteSend(e, s)
      PROVE  FirstInv'
  <2>1. First(e)' => stakeOf[s] = None
    BY <1>5 DEF ExecuteSend
  <2> QED
    BY <1>5, <2>1 DEF ExecuteSend
<1>6. ASSUME NEW e \in Execute, ExecuteExisting(e)
      PROVE  FirstInv'
  BY <1>6 DEF ExecuteExisting
<1>7. ASSUME NEW e \in Execute, ExecuteConfirm(e)
      PROVE  FirstInv'
  BY <1>7 DEF ExecuteConfirm
<1>8. ASSUME NEW e \in Execute, ExecuteRefetch(e)
      PROVE  FirstInv'
  BY <1>8 DEF ExecuteRefetch
<1>9. ASSUME NEW e \in Execute, ExecuteSave(e)
      PROVE  FirstInv'
  BY <1>9 DEF ExecuteSave, InsertRow
<1>10. ASSUME NEW t \in Tx, Land(t)
       PROVE  FirstInv'
  <2>1. ASSUME NEW e \in Execute, Active(e)
        PROVE  sig[e] = t /\ pc[e] \in {"existing", "confirm"}
    BY <1>10, <2>1 DEF Land
  <2>2. \A e \in Execute : rows[e] # NoRow => sig[e] # t
    BY <1>10 DEF Land
  <2> QED
    BY <1>10, <2>1, <2>2 DEF Land
<1>11. ASSUME NEW t \in Tx, Dropped(t)
       PROVE  FirstInv'
  BY <1>11 DEF Dropped
<1>12. ASSUME Crash
       PROVE  FirstInv'
  BY <1>12 DEF Crash
<1>13. CASE UNCHANGED vars
  BY <1>13 DEF vars, moving
<1> QED
  BY <1>1, <1>2, <1>3, <1>4, <1>5, <1>6, <1>7, <1>8, <1>9, <1>10, <1>11, <1>12, <1>13
     DEF Next, CreateStake, ExecuteStakeTransaction

\* The number in a row is never that of an earlier stake than the row's own, and
\* is the stake's own in a custodial row, and for the first request to submit a
\* transaction when requests are served one at a time.
THEOREM StakeIdFitsHolds == Spec => []StakeIdFits
<1>1. Init => RowsInv /\ NumberInv /\ AloneInv /\ FirstInv
  BY DEF Init, RowsInv, NumberInv, AloneInv, FirstInv, Handler, NoRow, Active
<1>2. ASSUME TypeInv, RowsInv, NumberInv, FirstInv
      PROVE  StakeIdFits
  <2> SUFFICES ASSUME NEW h \in Handler, rows[h] # NoRow, stakeOf[rows[h].sig] # None
               PROVE  /\ rows[h].stake_id >= stakeOf[rows[h].sig]
                      /\ (h \in Create \/ (h \in Execute /\ Serial /\ First(h))) =>
                           rows[h].stake_id = stakeOf[rows[h].sig]
    BY DEF StakeIdFits, First
  <2>1. rows[h].sig = sig[h] /\ sig[h] \in Tx
    BY <1>2 DEF RowsInv, TypeInv, TypeOK, Row, NoRow
  <2>2. sig[h] # None
    BY <2>1, NumberType
  <2>3. CASE h \in Create
    <3>1. rows[h].sig = h /\ rows[h].stake_id = built[h]
      BY <1>2, <2>3 DEF NumberInv
    <3>2. stakeOf[h] = built[h] /\ stakeOf[h] \in Nat
      BY <1>2, <2>3, <3>1, NumberType DEF TypeInv, TypeOK, LedgerInv, Tx
    <3> QED
      BY <2>3, <3>1, <3>2
  <2>4. CASE h \in Execute
    <3>1. rows[h].stake_id >= stakeOf[rows[h].sig]
      BY <1>2, <2>1, <2>2, <2>4 DEF NumberInv
    <3>2. Serial /\ First(h) => rows[h].stake_id = stakeOf[rows[h].sig]
      BY <1>2, <2>1, <2>2, <2>4 DEF FirstInv
    <3>3. h \notin Create
      BY <2>4, RequestsAssumption
    <3> QED
      BY <3>1, <3>2, <3>3
  <2> QED
    BY <2>3, <2>4 DEF Handler
<1> QED
  BY InitTypeInv, NextTypeInv, NextRowsInv, NextNumberInv, NextAloneInv, NextFirstInv,
     <1>1, <1>2, PTL DEF Spec

-----------------------------------------------------------------------------
(* Unstaking.                                                              *)

\* A transaction is sent after it was built for a row, and where a request is
\* says what it knows of its transaction.
UnstakeSentInv ==
  /\ \A u \in Unstake :
       /\ unstakePc[u] \in {"idle", "send"} => u \notin unstakeInFlight \cup closed
       /\ unstakePc[u] \in {"send", "save"} =>
            unstakeSig[u] = u /\ unstakeRow[u] \in Stake /\ closes[u] = unstakeRow[u]
  /\ \A e \in ExecuteUnstake :
       /\ unstakePc[e] \in {"existing", "confirm", "save"} =>
            /\ unstakeSig[e] \in Unstakes!Tx /\ unstakeRow[e] \in Stake
            /\ Unstakes!OwnRows => /\ unstakeSig[e] \in SignedUnstake
                                  /\ closes[unstakeSig[e]] = unstakeRow[e]
       /\ unstakePc[e] = "save" => unstakeSig[e] \in closed
  /\ \A t \in unstakeInFlight \cup closed : t \notin OtherUnstake => closes[t] # None

UnstakeTypeInv == Unstakes!TypeOK /\ UnstakeSentInv

LEMMA UnstakeNames ==
  ASSUME UnstakeAssumptions, unstaking \in UnstakeEnvironments
  PROVE  /\ None \notin Unstakes!Tx /\ None \notin Stake /\ Unstake \cap ExecuteUnstake = {}
         /\ Unstake \cap SignedUnstake = {}
         /\ OtherUnstake \cap (Unstake \cup SignedUnstake) = {}
         /\ Unstake \subseteq Unstakes!Tx /\ SignedUnstake \subseteq Unstakes!Tx
         /\ Unstake \subseteq Unstakes!Handler /\ ExecuteUnstake \subseteq Unstakes!Handler
BY DEF UnstakeAssumptions, Unstakes!RequestsAssumption,
       Unstakes!EnvironmentsAssumption, Unstakes!Tx,
       Unstakes!Handler, Unstakes!Named

LEMMA UnstakeInitTypeInv ==
  ASSUME UnstakeAssumptions
  PROVE  Unstakes!Init => UnstakeTypeInv
BY DEF Unstakes!Init, UnstakeTypeInv, Unstakes!TypeOK, UnstakeSentInv, Unstakes!Row,
       Unstakes!Handler, Unstakes!OwnRows

LEMMA UnstakeNextTypeInv ==
  ASSUME UnstakeAssumptions
  PROVE  UnstakeTypeInv /\ [Unstakes!Next]_(Unstakes!vars) => UnstakeTypeInv'
<1> SUFFICES ASSUME UnstakeTypeInv, [Unstakes!Next]_(Unstakes!vars)
             PROVE  UnstakeTypeInv'
  OBVIOUS
<1>0. /\ None \notin Unstakes!Tx /\ None \notin Stake /\ Unstake \cap ExecuteUnstake = {}
      /\ Unstake \cap SignedUnstake = {}
      /\ OtherUnstake \cap (Unstake \cup SignedUnstake) = {}
      /\ Unstake \subseteq Unstakes!Tx /\ SignedUnstake \subseteq Unstakes!Tx
      /\ Unstake \subseteq Unstakes!Handler /\ ExecuteUnstake \subseteq Unstakes!Handler
      /\ Unstakes!TypeOK /\ UnstakeSentInv /\ unstaking' = unstaking
      /\ Unstakes!OwnRows' = Unstakes!OwnRows
  BY UnstakeNames DEF UnstakeTypeInv, Unstakes!TypeOK, Unstakes!Next, Unstakes!vars,
                      Unstakes!OwnRows
<1> USE <1>0 DEF UnstakeTypeInv, Unstakes!TypeOK, UnstakeSentInv, Unstakes!Goto
<1>1. ASSUME NEW u \in Unstake, Unstakes!UnstakeLoad(u)
      PROVE  UnstakeTypeInv'
  BY <1>1 DEF Unstakes!UnstakeLoad
<1>2. ASSUME NEW u \in Unstake, Unstakes!UnstakeSend(u)
      PROVE  UnstakeTypeInv'
  BY <1>2 DEF Unstakes!UnstakeSend
<1>3. ASSUME NEW h \in Unstakes!Handler, Unstakes!SaveCompleted(h)
      PROVE  UnstakeTypeInv'
  <2>1. unstakeSig[h] \in Unstakes!Tx /\ unstakeRow[h] \in Stake
    BY <1>3 DEF Unstakes!SaveCompleted, Unstakes!Handler
  <2>2. stakes' \in [Stake -> Unstakes!Row]
    BY <1>3, <2>1 DEF Unstakes!SaveCompleted, Unstakes!Row
  <2> QED
    BY <1>3, <2>2 DEF Unstakes!SaveCompleted
<1>4. ASSUME NEW x \in SignedUnstake, Unstakes!PrepareUnstakeTransaction(x)
      PROVE  UnstakeTypeInv'
  BY <1>4 DEF Unstakes!PrepareUnstakeTransaction
<1>5. ASSUME NEW e \in ExecuteUnstake, NEW s \in Stake, NEW x \in Unstakes!Tx,
             Unstakes!ExecuteSend(e, s, x)
      PROVE  UnstakeTypeInv'
  <2>1. x \notin OtherUnstake => closes[x] # None
    BY <1>5 DEF Unstakes!ExecuteSend, Unstakes!Exists
  <2>2. \A u \in Unstake : unstakePc[u] \in {"idle", "send"} => u # x
    BY <1>5 DEF Unstakes!ExecuteSend, Unstakes!Exists
  <2>3. \A u \in Unstake : u # e
    OBVIOUS
  <2>4. Unstakes!TypeOK'
    BY <1>5 DEF Unstakes!ExecuteSend
  <2>5. UnstakeSentInv'
    BY <1>5, <2>1, <2>2, <2>3 DEF Unstakes!ExecuteSend
  <2> QED
    BY <2>4, <2>5
<1>6. ASSUME NEW e \in ExecuteUnstake, Unstakes!ExecuteExisting(e)
      PROVE  UnstakeTypeInv'
  BY <1>6 DEF Unstakes!ExecuteExisting
<1>7. ASSUME NEW e \in ExecuteUnstake, Unstakes!ExecuteConfirm(e)
      PROVE  UnstakeTypeInv'
  BY <1>7 DEF Unstakes!ExecuteConfirm
<1>8. ASSUME NEW s \in Stake, Unstakes!Mature(s)
      PROVE  UnstakeTypeInv'
  BY <1>8 DEF Unstakes!Mature
<1>9. ASSUME NEW t \in Unstakes!Tx, Unstakes!Land(t)
      PROVE  UnstakeTypeInv'
  BY <1>9 DEF Unstakes!Land
<1>10. ASSUME NEW t \in Unstakes!Tx, Unstakes!Dropped(t)
       PROVE  UnstakeTypeInv'
  BY <1>10 DEF Unstakes!Dropped
<1>12. ASSUME NEW x \in Unstakes!Tx, Unstakes!ClientSend(x)
       PROVE  UnstakeTypeInv'
  BY <1>12 DEF Unstakes!ClientSend, Unstakes!Exists
<1>11. CASE UNCHANGED Unstakes!vars
  BY <1>11 DEF Unstakes!vars, Unstakes!moving
<1> QED
  BY <1>1, <1>2, <1>3, <1>4, <1>5, <1>6, <1>7, <1>8, <1>9, <1>10, <1>11, <1>12
     DEF Unstakes!Next, Unstakes!UnstakeStake, Unstakes!ExecuteUnstakeTransaction,
         Unstakes!UnstakeSave, Unstakes!ExecuteSave, Unstakes!Handler

\* Every variable keeps its type, whatever requests race and whatever fails.
THEOREM UnstakeTypeCorrect ==
  ASSUME UnstakeAssumptions
  PROVE  Unstakes!Spec => []Unstakes!TypeOK
<1>1. UnstakeTypeInv => Unstakes!TypeOK
  BY DEF UnstakeTypeInv
<1>2. Unstakes!Init => UnstakeTypeInv
  BY UnstakeInitTypeInv
<1>3. UnstakeTypeInv /\ [Unstakes!Next]_(Unstakes!vars) => UnstakeTypeInv'
  BY UnstakeNextTypeInv
<1> QED
  BY <1>1, <1>2, <1>3, PTL DEF Unstakes!Spec

\* Staking and unstaking at once: every variable of both keeps its type.
THEOREM StakingTypeCorrect ==
  ASSUME UnstakeAssumptions
  PROVE  StakingSpec => []StakesTypeOK
<1>1. TypeOK /\ Unstakes!TypeOK => StakesTypeOK
  BY DEF StakesTypeOK
<1> QED
  BY <1>1, TypeCorrect, UnstakeTypeCorrect, PTL DEF StakingSpec

-----------------------------------------------------------------------------
(* A COMPLETED row.                                                        *)

\* While the ledger does not fail, what was executed has closed its account, a
\* request that is about to save has sent its transaction, and a COMPLETED row
\* carries one that was sent: for the account of the row, with such clients.
ClosedInv ==
  /\ \A t \in closed : Unstakes!Account(t) \notin open
  /\ \A u \in Unstake : unstakePc[u] = "save" => u \in unstakeInFlight \cup closed
  /\ \A s \in Stake : stakes[s].status = "completed" =>
       /\ stakes[s].sig \in unstakeInFlight \cup closed
       /\ Unstakes!OwnRows => Unstakes!Account(stakes[s].sig) = Unstakes!Named[s]

\* Accounts are not opened, what was sent is not lost, and a transaction that was
\* sent keeps its account.
LEMMA LedgerSteps ==
  ASSUME UnstakeAssumptions, UnstakeTypeInv, ~Unstakes!ChainFaults,
         [Unstakes!Next]_(Unstakes!vars)
  PROVE  /\ open' \subseteq open
         /\ \A t \in unstakeInFlight \cup closed :
              /\ t \in unstakeInFlight' \cup closed'
              /\ Unstakes!Account(t)' = Unstakes!Account(t)
         /\ \A t \in closed' : t \in closed \/ Unstakes!Account(t)' \notin open'
<1>0. /\ None \notin Unstakes!Tx /\ None \notin Stake /\ Unstake \cap ExecuteUnstake = {}
      /\ Unstake \cap SignedUnstake = {}
      /\ Unstake \subseteq Unstakes!Tx /\ SignedUnstake \subseteq Unstakes!Tx
      /\ Unstakes!TypeOK /\ UnstakeSentInv
      /\ Unstakes!Named' = Unstakes!Named /\ unstaking' = unstaking
      /\ unstakeInFlight \subseteq Unstakes!Tx /\ closed \subseteq Unstakes!Tx
  BY UnstakeNames DEF UnstakeTypeInv, Unstakes!TypeOK, Unstakes!Next, Unstakes!vars,
                      Unstakes!Named
<1>1. CASE closes' = closes
  <2>1. \A t \in Unstakes!Tx : Unstakes!Account(t)' = Unstakes!Account(t)
    BY <1>0, <1>1 DEF Unstakes!Account
  <2>2. ASSUME NEW t \in Unstakes!Tx, Unstakes!Land(t)
        PROVE  /\ open' \subseteq open /\ Unstakes!Account(t) \notin open'
               /\ unstakeInFlight' = unstakeInFlight \ {t} /\ closed' = closed \cup {t}
    BY <2>2 DEF Unstakes!Land
  <2>3. \/ /\ open' = open /\ unstakeInFlight \subseteq unstakeInFlight' /\ closed' = closed
        \/ \E t \in Unstakes!Tx : Unstakes!Land(t)
    BY DEF Unstakes!Next, Unstakes!UnstakeStake, Unstakes!UnstakeLoad,
           Unstakes!UnstakeSend, Unstakes!UnstakeSave, Unstakes!SaveCompleted,
           Unstakes!PrepareUnstakeTransaction, Unstakes!ExecuteUnstakeTransaction,
           Unstakes!ExecuteSend, Unstakes!ExecuteExisting, Unstakes!ExecuteConfirm,
           Unstakes!ExecuteSave, Unstakes!Mature, Unstakes!ClientSend,
           Unstakes!Dropped, Unstakes!vars, Unstakes!moving
  <2> QED
    BY <1>0, <2>1, <2>2, <2>3
<1>2. CASE closes' # closes
  <2>1. /\ open' = open /\ unstakeInFlight' = unstakeInFlight /\ closed' = closed
        /\ \E t \in Unstakes!Tx : /\ t \notin unstakeInFlight \cup closed
                                  /\ \A x \in Unstakes!Tx \ {t} : closes'[x] = closes[x]
    <3>1. ASSUME NEW u \in Unstake, Unstakes!UnstakeLoad(u)
          PROVE  /\ u \notin unstakeInFlight \cup closed
                 /\ \A x \in Unstakes!Tx \ {u} : closes'[x] = closes[x]
      BY <1>0, <3>1 DEF Unstakes!UnstakeLoad, UnstakeSentInv, Unstakes!TypeOK
    <3>2. ASSUME NEW t \in SignedUnstake, Unstakes!PrepareUnstakeTransaction(t)
          PROVE  /\ t \notin unstakeInFlight \cup closed
                 /\ \A x \in Unstakes!Tx \ {t} : closes'[x] = closes[x]
      BY <1>0, <3>2, UnstakeNames
         DEF Unstakes!PrepareUnstakeTransaction, UnstakeSentInv, Unstakes!TypeOK
    <3>3. \/ \E u \in Unstake : Unstakes!UnstakeLoad(u)
          \/ \E t \in SignedUnstake : Unstakes!PrepareUnstakeTransaction(t)
      BY <1>2
         DEF Unstakes!Next, Unstakes!UnstakeStake, Unstakes!UnstakeSend,
             Unstakes!UnstakeSave, Unstakes!SaveCompleted,
             Unstakes!ExecuteUnstakeTransaction, Unstakes!ExecuteSend,
             Unstakes!ExecuteExisting, Unstakes!ExecuteConfirm, Unstakes!ExecuteSave,
             Unstakes!Mature, Unstakes!ClientSend, Unstakes!Land, Unstakes!Dropped,
             Unstakes!vars, Unstakes!moving
    <3> QED
      BY <1>0, <3>1, <3>2, <3>3
         DEF Unstakes!UnstakeLoad, Unstakes!PrepareUnstakeTransaction
  <2> QED
    BY <1>0, <2>1 DEF Unstakes!Account
<1> QED
  BY <1>1, <1>2

\* Who is about to save has a transaction that was sent, for the row it loaded.
LEMMA SavesSent ==
  ASSUME UnstakeAssumptions, UnstakeTypeInv, ClosedInv,
         NEW h \in Unstakes!Handler, unstakePc[h] = "save"
  PROVE  /\ unstakeRow[h] \in Stake
         /\ unstakeSig[h] \in unstakeInFlight \cup closed
         /\ Unstakes!OwnRows =>
              Unstakes!Account(unstakeSig[h]) = Unstakes!Named[unstakeRow[h]]
<1>1. CASE h \in Unstake
  <2>1. h \notin OtherUnstake /\ None \notin Stake
    BY <1>1, UnstakeNames DEF UnstakeTypeInv, Unstakes!TypeOK
  <2> QED
    BY <1>1, <2>1 DEF UnstakeTypeInv, UnstakeSentInv, ClosedInv, Unstakes!Account
<1>2. CASE h \in ExecuteUnstake
  <2>1. /\ OtherUnstake \cap SignedUnstake = {} /\ None \notin Stake
        /\ unstakeRow[h] \in Stake /\ unstakeSig[h] \in closed
        /\ Unstakes!OwnRows => /\ unstakeSig[h] \in SignedUnstake
                              /\ closes[unstakeSig[h]] = unstakeRow[h]
    BY <1>2, UnstakeNames DEF UnstakeTypeInv, UnstakeSentInv, Unstakes!TypeOK
  <2> QED
    BY <2>1 DEF Unstakes!Account
<1> QED
  BY <1>1, <1>2 DEF Unstakes!Handler

UnfailingClosed == ~Unstakes!ChainFaults => ClosedInv

LEMMA NextClosedInv ==
  ASSUME UnstakeAssumptions
  PROVE  UnstakeTypeInv /\ UnfailingClosed /\ [Unstakes!Next]_(Unstakes!vars)
           => UnfailingClosed'
<1> SUFFICES ASSUME UnstakeTypeInv, ~Unstakes!ChainFaults, ClosedInv,
                    [Unstakes!Next]_(Unstakes!vars)
             PROVE  ClosedInv'
  BY DEF UnfailingClosed, Unstakes!ChainFaults, Unstakes!Next, Unstakes!vars
<1>0. /\ Unstakes!TypeOK /\ Unstake \subseteq Unstakes!Handler
      /\ Unstakes!Named' = Unstakes!Named /\ Unstakes!OwnRows' = Unstakes!OwnRows
      /\ Unstake \cap ExecuteUnstake = {}
  BY UnstakeNames DEF UnstakeTypeInv, Unstakes!TypeOK, Unstakes!Next, Unstakes!vars,
                      Unstakes!Named, Unstakes!OwnRows
<1>1. /\ open' \subseteq open
      /\ \A t \in unstakeInFlight \cup closed :
           /\ t \in unstakeInFlight' \cup closed'
           /\ Unstakes!Account(t)' = Unstakes!Account(t)
      /\ \A t \in closed' : t \in closed \/ Unstakes!Account(t)' \notin open'
  BY LedgerSteps
<1>2. \A t \in closed' : Unstakes!Account(t)' \notin open'
  BY <1>1 DEF ClosedInv
<1>3. ASSUME NEW u \in Unstake, unstakePc'[u] = "save"
      PROVE  u \in unstakeInFlight' \cup closed'
  <2>1. CASE unstakePc[u] = "save"
    BY <1>1, <2>1 DEF ClosedInv
  <2>2. CASE unstakePc[u] # "save"
    BY <1>0, <1>3, <2>2
       DEF Unstakes!Next, Unstakes!UnstakeStake, Unstakes!UnstakeLoad,
           Unstakes!UnstakeSend, Unstakes!UnstakeSave, Unstakes!SaveCompleted,
           Unstakes!PrepareUnstakeTransaction, Unstakes!ExecuteUnstakeTransaction,
           Unstakes!ExecuteSend, Unstakes!ExecuteExisting, Unstakes!ExecuteConfirm,
           Unstakes!ExecuteSave, Unstakes!Mature, Unstakes!ClientSend, Unstakes!Land,
           Unstakes!Dropped, Unstakes!vars, Unstakes!moving, Unstakes!Goto,
           Unstakes!TypeOK
  <2> QED
    BY <2>1, <2>2
<1>4. ASSUME NEW s \in Stake, NEW t,
             t = stakes'[s].sig, stakes'[s].status = "completed"
      PROVE  /\ t \in unstakeInFlight' \cup closed'
             /\ Unstakes!OwnRows => Unstakes!Account(t)' = Unstakes!Named[s]
  <2>0. /\ t \in unstakeInFlight \cup closed
        /\ Unstakes!OwnRows => Unstakes!Account(t) = Unstakes!Named[s]
    <3>1. CASE stakes'[s] = stakes[s]
      <4>1. t = stakes[s].sig /\ stakes[s].status = "completed"
        BY <1>4, <3>1
      <4> QED
        BY <4>1 DEF ClosedInv
    <3>2. CASE stakes'[s] # stakes[s]
      <4>1. PICK h \in Unstakes!Handler : Unstakes!SaveCompleted(h)
        BY <3>2
           DEF Unstakes!Next, Unstakes!UnstakeStake, Unstakes!UnstakeLoad,
               Unstakes!UnstakeSend, Unstakes!UnstakeSave,
               Unstakes!PrepareUnstakeTransaction,
               Unstakes!ExecuteUnstakeTransaction, Unstakes!ExecuteSend,
               Unstakes!ExecuteExisting, Unstakes!ExecuteConfirm,
               Unstakes!ExecuteSave, Unstakes!Mature, Unstakes!ClientSend,
               Unstakes!Land, Unstakes!Dropped, Unstakes!vars, Unstakes!moving,
               Unstakes!Handler
      <4>2. unstakePc[h] = "save" /\ s = unstakeRow[h] /\ t = unstakeSig[h]
        BY <1>0, <1>4, <3>2, <4>1 DEF Unstakes!SaveCompleted, Unstakes!TypeOK
      <4> QED
        BY <4>2, SavesSent
    <3> QED
      BY <3>1, <3>2
  <2> QED
    BY <1>1, <2>0
<1> QED
  BY <1>0, <1>2, <1>3, <1>4 DEF ClosedInv

\* While the ledger executes what it takes, a COMPLETED row carries a transaction
\* that was sent, whose account is closed or will be: the account of the row, if
\* clients return what they were given.
THEOREM CompletedRowsAreClosed ==
  ASSUME UnstakeAssumptions
  PROVE  Unstakes!Spec => []CompletedIsClosed
<1>1. Unstakes!Init => UnstakeTypeInv /\ ClosedInv
  BY UnstakeInitTypeInv DEF Unstakes!Init, ClosedInv, Unstakes!Handler
<1>2. UnstakeTypeInv /\ [Unstakes!Next]_(Unstakes!vars) => UnstakeTypeInv'
  BY UnstakeNextTypeInv
<1>3. UnstakeTypeInv /\ UnfailingClosed /\ [Unstakes!Next]_(Unstakes!vars) => UnfailingClosed'
  BY NextClosedInv
<1>4. UnfailingClosed => CompletedIsClosed
  BY DEF UnfailingClosed, ClosedInv, CompletedIsClosed, Unstakes!CompletedIsClosed
<1>5. ClosedInv => UnfailingClosed
  BY DEF UnfailingClosed
<1> QED
  BY <1>1, <1>2, <1>3, <1>4, <1>5, PTL DEF Unstakes!Spec
=============================================================================
