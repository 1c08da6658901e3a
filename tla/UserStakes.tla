----------------------------- MODULE UserStakes -----------------------------
(***************************************************************************)
(* Opening a stake: UserStakeService.create, which signs for the user, and *)
(* prepareStakeTransaction / executeStakeTransaction, with which the       *)
(* client signs.  Clients are taken to submit what was prepared, and to    *)
(* send it by executeStakeTransaction only.                                *)
(*                                                                         *)
(* The staking program (external, known from the accounts and data the     *)
(* service passes and reads) numbers the stakes with one counter for all   *)
(* users: a transaction names the account derived from the counter it was  *)
(* built with, takes effect only if that is still the counter, and moves   *)
(* the counter on.  The row must carry that number, because unstaking      *)
(* finds the account by it.                                                *)
(***************************************************************************)
EXTENDS Naturals, FiniteSets

CONSTANTS
  Create,        \* create requests; each sends a transaction of its own
  Signed,        \* transactions of prepareStakeTransaction
  Execute,       \* executeStakeTransaction requests, repeats included
  Environments,  \* what may happen in a behaviour: one of these, throughout
  None           \* no transaction, no number

Tx      == Create \cup Signed
Handler == Create \cup Execute

ASSUME RequestsAssumption == /\ Create \cap Signed = {}
                             /\ Create \cap Execute = {}
                             /\ None \notin Tx
                             /\ None \notin Nat
                             /\ IsFiniteSet(Tx)
ASSUME EnvironmentsAssumption ==
  Environments \subseteq
    [handlers    : SUBSET Handler,  \* the requests that may start
     serial      : BOOLEAN,  \* does one start only when no other stake is on its way?
     lostAnswers : BOOLEAN,  \* may an RPC call time out although the transaction lands?
     chainFaults : BOOLEAN,  \* may a transaction be dropped, or fail on chain?
     dbFaults    : BOOLEAN,  \* may a repository call throw?
     maxCrashes  : Nat]      \* bound on the number of restarts of the process

VARIABLES
  env,       \* the environment of the behaviour
  counter,   \* stake_counter of the program
  stakeOf,   \* the number each transaction opened a stake with, or None
  executed,  \* transactions the ledger has executed, failed ones included
  inFlight,  \* transactions sent and not executed yet
  built,     \* the counter each transaction was built with
  pc,        \* where each handler is suspended
  sig,       \* the transaction of each handler
  number,    \* the stake_id each handler computed
  rows,      \* the user_stakes table, by the handler that inserted
  crashes    \* restarts so far

moving == <<counter, stakeOf, executed, inFlight, built, pc, sig, number, rows, crashes>>
vars   == <<env, moving>>

Serial      == env.serial
LostAnswers == env.lostAnswers
ChainFaults == env.chainFaults
DbFaults    == env.dbFaults
NoFaults    == ~LostAnswers /\ ~ChainFaults /\ ~DbFaults /\ env.maxCrashes = 0

Number == 0..Cardinality(Tx)

Row   == [sig : Tx, stake_id : Number]
NoRow == [sig |-> None, stake_id |-> None]

Init ==
  /\ env \in Environments
  /\ counter = 0
  /\ stakeOf = [t \in Tx |-> None]
  /\ executed = {}
  /\ inFlight = {}
  /\ built = [t \in Tx |-> None]
  /\ pc = [h \in Handler |-> "idle"]
  /\ sig = [h \in Handler |-> None]
  /\ number = [h \in Handler |-> None]
  /\ rows = [h \in Handler |-> NoRow]
  /\ crashes = 0

Goto(h, label) == pc' = [pc EXCEPT ![h] = label]

Underway == inFlight # {} \/ \E h \in Handler : pc[h] \notin {"idle", "done"}

Recorded(t) == \E h \in Handler : rows[h].sig = t

\* (seeded fault) the signature column is not unique
InsertRowNotUnique(h) ==
  /\ Goto(h, "done")
  /\ rows' = [rows EXCEPT ![h] = [sig |-> sig[h], stake_id |-> number[h]]]

\* save of a new entity: INSERT under the unique staking_tx_signature.
InsertRow(h) ==
  /\ Goto(h, "done")
  /\ \/ ~Recorded(sig[h]) /\ rows' = [rows EXCEPT ![h] = [sig      |-> sig[h],
                                                          stake_id |-> number[h]]]
     \/ (Recorded(sig[h]) \/ DbFaults) /\ UNCHANGED rows

-----------------------------------------------------------------------------
(* create: the server signs.                                               *)

\* The lookups, the counter and the balance check.
CreateRead(c) ==
  /\ c \in env.handlers
  /\ pc[c] = "idle"
  /\ Serial => ~Underway
  /\ \/ /\ built' = [built EXCEPT ![c] = counter]
        /\ number' = [number EXCEPT ![c] = counter]
        /\ sig' = [sig EXCEPT ![c] = c]
        /\ Goto(c, "send")
     \/ Goto(c, "done") /\ UNCHANGED <<built, number, sig>>
  /\ UNCHANGED <<counter, stakeOf, executed, inFlight, rows, crashes>>

\* sendTransaction simulates first and does not wait for a confirmation.
CreateSend(c) ==
  /\ pc[c] = "send"
  /\ \/ /\ built[c] = counter
        /\ inFlight' = inFlight \cup {c}
        /\ Goto(c, "save") \/ (LostAnswers /\ Goto(c, "done"))
     \/ /\ built[c] # counter \/ ChainFaults
        /\ Goto(c, "done")
        /\ UNCHANGED inFlight
  /\ UNCHANGED <<counter, stakeOf, executed, built, sig, number, rows, crashes>>

CreateSave(c) ==
  /\ c \in Create
  /\ pc[c] = "save"
  /\ InsertRow(c)
  /\ UNCHANGED <<counter, stakeOf, executed, inFlight, built, sig, number, crashes>>

-----------------------------------------------------------------------------
(* prepareStakeTransaction and executeStakeTransaction: the client signs.  *)

\* Nothing is stored: the client gets the transaction.
PrepareStakeTransaction(s) ==
  /\ built[s] = None
  /\ built' = [built EXCEPT ![s] = counter]
  /\ UNCHANGED <<counter, stakeOf, executed, inFlight, pc, sig, number, rows, crashes>>

\* The checks of the transaction, and sendRawTransaction without preflight.
\* Sending a transaction again that was executed changes nothing.
ExecuteSend(e, s) ==
  /\ e \in env.handlers
  /\ pc[e] = "idle"
  /\ built[s] # None
  /\ Serial => ~Underway
  /\ sig' = [sig EXCEPT ![e] = s]
  /\ \/ /\ inFlight' = inFlight \cup ({s} \ executed)
        /\ Goto(e, "existing") \/ (LostAnswers /\ Goto(e, "done"))
     \/ Goto(e, "done") /\ UNCHANGED inFlight
  /\ UNCHANGED <<counter, stakeOf, executed, built, number, rows, crashes>>

\* Has this signature already been processed?
ExecuteExisting(e) ==
  /\ pc[e] = "existing"
  /\ \/ ~Recorded(sig[e]) /\ Goto(e, "confirm")
     \/ (Recorded(sig[e]) \/ DbFaults) /\ Goto(e, "done")
  /\ UNCHANGED <<counter, stakeOf, executed, inFlight, built, sig, number, rows, crashes>>

\* (seeded fault) the counter is read before the transaction is executed
ExecuteConfirmEarly(e) ==
  /\ pc[e] = "confirm"
  /\ Goto(e, "refetch")
  /\ UNCHANGED <<counter, stakeOf, executed, inFlight, built, sig, number, rows, crashes>>

\* confirmTransaction returns when the transaction was executed, well or not,
\* and throws when it takes too long.
ExecuteConfirm(e) ==
  /\ pc[e] = "confirm"
  /\ \/ sig[e] \in executed /\ Goto(e, "refetch")
     \/ /\ LostAnswers \/ sig[e] \notin executed \cup inFlight
        /\ Goto(e, "done")
  /\ UNCHANGED <<counter, stakeOf, executed, inFlight, built, sig, number, rows, crashes>>

\* (seeded fault) nothing stops at 0
ExecuteRefetchUnsigned(e) ==
  /\ pc[e] = "refetch"
  /\ number' = [number EXCEPT ![e] = counter - 1]
  /\ Goto(e, "save")
  /\ UNCHANGED <<counter, stakeOf, executed, inFlight, built, sig, rows, crashes>>

\* The counter of now, less one; less one of 0 has no 64 bit encoding.
ExecuteRefetch(e) ==
  /\ pc[e] = "refetch"
  /\ \/ /\ counter > 0
        /\ number' = [number EXCEPT ![e] = counter - 1]
        /\ Goto(e, "save")
     \/ counter = 0 /\ Goto(e, "done") /\ UNCHANGED number
  /\ UNCHANGED <<counter, stakeOf, executed, inFlight, built, sig, rows, crashes>>

ExecuteSave(e) ==
  /\ e \in Execute
  /\ pc[e] = "save"
  /\ InsertRow(e)
  /\ UNCHANGED <<counter, stakeOf, executed, inFlight, built, sig, number, crashes>>

-----------------------------------------------------------------------------
(* The ledger and the process.                                             *)

Land(t) ==
  /\ t \in inFlight
  /\ inFlight' = inFlight \ {t}
  /\ executed' = executed \cup {t}
  /\ \/ /\ built[t] = counter
        /\ stakeOf' = [stakeOf EXCEPT ![t] = counter]
        /\ counter' = counter + 1
     \/ /\ built[t] # counter \/ ChainFaults
        /\ UNCHANGED <<stakeOf, counter>>
  /\ UNCHANGED <<built, pc, sig, number, rows, crashes>>

\* The transaction's blockhash expires before it is included.
Dropped(t) ==
  /\ ChainFaults
  /\ t \in inFlight
  /\ inFlight' = inFlight \ {t}
  /\ UNCHANGED <<counter, stakeOf, executed, built, pc, sig, number, rows, crashes>>

Crash ==
  /\ crashes < env.maxCrashes
  /\ crashes' = crashes + 1
  /\ pc' = [h \in Handler |-> IF pc[h] = "idle" THEN "idle" ELSE "done"]
  /\ UNCHANGED <<counter, stakeOf, executed, inFlight, built, sig, number, rows>>

CreateStake(c) == CreateRead(c) \/ CreateSend(c) \/ CreateSave(c)

ExecuteStakeTransaction(e) ==
  \/ \E s \in Signed : ExecuteSend(e, s)
  \/ ExecuteExisting(e) \/ ExecuteConfirm(e) \/ ExecuteRefetch(e) \/ ExecuteSave(e)

Next ==
  /\ UNCHANGED env
  /\ \/ \E c \in Create : CreateStake(c)
     \/ \E s \in Signed : PrepareStakeTransaction(s)
     \/ \E e \in Execute : ExecuteStakeTransaction(e)
     \/ \E t \in Tx : Land(t) \/ Dropped(t)
     \/ Crash

Spec == Init /\ [][Next]_vars

-----------------------------------------------------------------------------
(* Properties.                                                             *)

\* Every variable has its type.
TypeOK ==
  /\ env \in Environments
  /\ counter \in Number
  /\ stakeOf \in [Tx -> Number \cup {None}]
  /\ executed \subseteq Tx
  /\ inFlight \subseteq Tx
  /\ built \in [Tx -> Number \cup {None}]
  /\ pc \in [Handler -> {"idle", "send", "existing", "confirm", "refetch", "save", "done"}]
  /\ sig \in [Handler -> Tx \cup {None}]
  /\ number \in [Handler -> Number \cup {None}]
  /\ rows \in [Handler -> Row \cup {NoRow}]
  /\ crashes \in 0..env.maxCrashes

\* A transaction is recorded once, however many requests submit it at once:
\* the look for an existing row does not see to it, the unique column does.  And
\* without faults no stake is orphaned: once the requests that carry its
\* transaction have returned, a stake on the ledger has a row.
RecordedOnce ==
  /\ \A g, h \in Handler :
       (rows[g].sig = rows[h].sig /\ rows[g] # NoRow) => g = h
  /\ NoFaults =>
       \A t \in Tx :
         (stakeOf[t] # None /\ \E h \in Handler : sig[h] = t /\ pc[h] = "done") =>
           \/ Recorded(t)
           \/ \E h \in Handler : sig[h] = t /\ pc[h] # "done"

\* The number in a row is never that of an earlier stake than the row's own: a
\* custodial row has exactly its number, a row of executeStakeTransaction can
\* only have that of a stake opened since.  It has its own number when requests
\* are served one at a time and it is the first to submit its transaction; a
\* retry may come after other stakes were opened and reads a later counter.
StakeIdFits ==
  \A h \in Handler :
    (rows[h] # NoRow /\ stakeOf[rows[h].sig] # None) =>
      /\ rows[h].stake_id >= stakeOf[rows[h].sig]
      /\ \/ h \in Create
         \/ h \in Execute /\ Serial /\ \A e \in Execute \ {h} : sig[e] # sig[h]
         => rows[h].stake_id = stakeOf[rows[h].sig]

\* What the code says of itself and does not keep: the number in a row is the
\* one its transaction used (user-stake.service.ts, "Re-fetch stake_counter to
\* ensure we get the correct one that was used").
StakeIdIsTheOneUsed ==
  \A e \in Execute :
    (rows[e] # NoRow /\ stakeOf[rows[e].sig] # None)
      => rows[e].stake_id = stakeOf[rows[e].sig]
=============================================================================
