---------------------------- MODULE UserUnstakes ----------------------------
(***************************************************************************)
(* Closing a stake: UserStakeService.unstake, which signs for the user,    *)
(* and prepareUnstakeTransaction / executeUnstakeTransaction, with which   *)
(* the client signs.  The rows are those of one wallet that UserStakes     *)
(* leaves behind: the number in a row may name another stake's account or  *)
(* none (env.named).  executeUnstakeTransaction takes a row and a          *)
(* transaction, which the client may combine as it likes.  The staking     *)
(* program is external: a transaction closes the account it names once,    *)
(* and fails when there is none.                                           *)
(***************************************************************************)
EXTENDS Naturals, FiniteSets

CONSTANTS
  Stake,         \* rows of user_stakes
  Unstake,       \* unstake requests; each sends a transaction of its own
  Signed,        \* transactions of prepareUnstakeTransaction
  Other,         \* transactions the wallet signs that the server did not build
  Execute,       \* executeUnstakeTransaction requests, repeats included
  Environments,  \* what may happen in a behaviour: one of these, throughout
  None           \* a null column

Tx      == Unstake \cup Signed \cup Other
Handler == Unstake \cup Execute

RequestsAssumption == /\ Unstake \cap Signed = {}
                      /\ Other \cap (Unstake \cup Signed) = {}
                      /\ Unstake \cap Execute = {}
                      /\ None \notin Tx \cup Stake
EnvironmentsAssumption ==
  Environments \subseteq
    [named       : [Stake -> Stake \cup {None}],
                             \* the account the stake_id of each row names, or None;
                             \* the account opened for a row has the name of the row
     others      : [Other -> Stake \cup {None}],
                             \* the account each other transaction closes, or None
     ownRows     : BOOLEAN,  \* do clients return what was prepared, for its row?
     handlers    : SUBSET Handler,  \* the requests that may start
     lostAnswers : BOOLEAN,  \* may an RPC call time out although the transaction lands?
     chainFaults : BOOLEAN,  \* may one be dropped, or rejected by the program?
     dbFaults    : BOOLEAN]  \* may a repository call throw?

VARIABLES
  env,       \* the environment of the behaviour
  rows,      \* status and unstaking_tx_signature of the rows
  matured,   \* rows past their end_date
  open,      \* accounts open on the ledger
  executed,  \* transactions the ledger has executed, failed ones included
  inFlight,  \* transactions sent and not executed yet
  closes,    \* the row each transaction was built for, or None
  pc,        \* where each handler is suspended
  loaded,    \* the row each handler has loaded, or None
  sig        \* the transaction of each handler, or None

moving == <<rows, matured, open, executed, inFlight, closes, pc, loaded, sig>>
vars   == <<env, moving>>

Named       == env.named
OwnRows     == env.ownRows
LostAnswers == env.lostAnswers
ChainFaults == env.chainFaults
DbFaults    == env.dbFaults
NoFaults    == ~LostAnswers /\ ~ChainFaults /\ ~DbFaults

Row == [status : {"active", "completed"}, sig : Tx \cup {None}]

Init ==
  /\ env \in Environments
  /\ rows = [s \in Stake |-> [status |-> "active", sig |-> None]]
  /\ matured = {}
  /\ open = Stake
  /\ executed = {}
  /\ inFlight = {}
  /\ closes = [t \in Tx |-> None]
  /\ pc = [h \in Handler |-> "idle"]
  /\ loaded = [h \in Handler |-> None]
  /\ sig = [h \in Handler |-> None]

\* The account a transaction names, and whether there is such a transaction: one
\* of the server's is public once it was sent.
Account(t) == IF t \in Other THEN env.others[t]
              ELSE IF closes[t] = None THEN None ELSE Named[closes[t]]

Exists(t) == \/ t \in Other
             \/ t \in Signed /\ closes[t] # None
             \/ t \in executed \cup inFlight

Goto(h, label) == pc' = [pc EXCEPT ![h] = label]

\* The checks of unstake and prepareUnstakeTransaction.
MayUnstake(s) == rows[s].status = "active" /\ s \in matured

\* Both save COMPLETED and their own signature over the row they loaded, whatever
\* the transaction closes.  The signature is UNIQUE among the rows.
SaveCompleted(h) ==
  /\ pc[h] = "save"
  /\ Goto(h, "done")
  /\ LET taken == \E s \in Stake \ {loaded[h]} : rows[s].sig = sig[h]
     IN  \/ /\ ~taken
            /\ rows' = [rows EXCEPT ![loaded[h]] = [status |-> "completed",
                                                    sig    |-> sig[h]]]
         \/ (taken \/ DbFaults) /\ UNCHANGED rows
  /\ UNCHANGED <<matured, open, executed, inFlight, closes, loaded, sig>>

-----------------------------------------------------------------------------
(* unstake: the server signs.                                              *)

UnstakeLoad(u) ==
  /\ u \in env.handlers
  /\ pc[u] = "idle"
  /\ \E s \in Stake : /\ MayUnstake(s)
                      /\ closes' = [closes EXCEPT ![u] = s]
                      /\ loaded' = [loaded EXCEPT ![u] = s]
  /\ sig' = [sig EXCEPT ![u] = u]
  /\ Goto(u, "send")
  /\ UNCHANGED <<rows, matured, open, executed, inFlight>>

\* (seeded fault) an error of the send is logged and the row is saved
UnstakeSendSwallowed(u) ==
  /\ pc[u] = "send"
  /\ inFlight' \in {inFlight, inFlight \cup {u}}
  /\ Goto(u, "save")
  /\ UNCHANGED <<rows, matured, open, executed, closes, loaded, sig>>

\* sendTransaction simulates first and does not wait for a confirmation.
UnstakeSend(u) ==
  /\ pc[u] = "send"
  /\ \/ /\ Account(u) \in open
        /\ inFlight' = inFlight \cup {u}
        /\ Goto(u, "save") \/ (LostAnswers /\ Goto(u, "done"))
     \/ /\ Account(u) \notin open \/ ChainFaults
        /\ Goto(u, "done")
        /\ UNCHANGED inFlight
  /\ UNCHANGED <<rows, matured, open, executed, closes, loaded, sig>>

\* (seeded fault) the row is left as it was
UnstakeSaveForgotten(u) ==
  /\ u \in Unstake
  /\ pc[u] = "save"
  /\ Goto(u, "done")
  /\ UNCHANGED <<rows, matured, open, executed, inFlight, closes, loaded,
                 sig>>

UnstakeSave(u) == u \in Unstake /\ SaveCompleted(u)

-----------------------------------------------------------------------------
(* prepareUnstakeTransaction and executeUnstakeTransaction.                *)

PrepareUnstakeTransaction(x) ==
  /\ closes[x] = None
  /\ \E s \in Stake : /\ MayUnstake(s)
                      /\ closes' = [closes EXCEPT ![x] = s]
  /\ UNCHANGED <<rows, matured, open, executed, inFlight, pc, loaded, sig>>

\* The row must be the wallet's, and the transaction signed by it and addressed to
\* the program; neither the status of the row nor what the transaction does is
\* looked at.  It is sent without preflight.
ExecuteSend(e, s, x) ==
  /\ e \in env.handlers
  /\ pc[e] = "idle"
  /\ Exists(x)
  /\ OwnRows => x \in Signed /\ s = closes[x]
  /\ loaded' = [loaded EXCEPT ![e] = s]
  /\ sig' = [sig EXCEPT ![e] = x]
  /\ \/ /\ inFlight' = inFlight \cup ({x} \ executed)
        /\ Goto(e, "existing") \/ (LostAnswers /\ Goto(e, "done"))
     \/ Goto(e, "done") /\ UNCHANGED inFlight
  /\ UNCHANGED <<rows, matured, open, executed, closes>>

\* The anti-replay check.
ExecuteExisting(e) ==
  /\ pc[e] = "existing"
  /\ LET existing == \E s \in Stake : rows[s].sig = sig[e]
     IN  \/ ~existing /\ Goto(e, "confirm")
         \/ (existing \/ DbFaults) /\ Goto(e, "done")
  /\ UNCHANGED <<rows, matured, open, executed, inFlight, closes, loaded,
                 sig>>

\* confirmTransaction returns when the transaction was executed; its err is not
\* read.
ExecuteConfirm(e) ==
  /\ pc[e] = "confirm"
  /\ \/ sig[e] \in executed /\ Goto(e, "save")
     \/ /\ LostAnswers \/ sig[e] \notin executed \cup inFlight
        /\ Goto(e, "done")
  /\ UNCHANGED <<rows, matured, open, executed, inFlight, closes, loaded,
                 sig>>

ExecuteSave(e) == e \in Execute /\ SaveCompleted(e)

-----------------------------------------------------------------------------
(* Time, the client and the ledger.                                        *)

Mature(s) ==
  /\ s \notin matured
  /\ matured' = matured \cup {s}
  /\ UNCHANGED <<rows, open, executed, inFlight, closes, pc, loaded, sig>>

\* A client sends a transaction itself.
ClientSend(x) ==
  /\ ~OwnRows
  /\ x \in Signed \cup Other
  /\ Exists(x)
  /\ x \notin executed \cup inFlight
  /\ inFlight' = inFlight \cup {x}
  /\ UNCHANGED <<rows, matured, open, executed, closes, pc, loaded, sig>>

Land(t) ==
  /\ t \in inFlight
  /\ inFlight' = inFlight \ {t}
  /\ executed' = executed \cup {t}
  /\ \/ Account(t) \in open /\ open' = open \ {Account(t)}
     \/ (Account(t) \notin open \/ ChainFaults) /\ UNCHANGED open
  /\ UNCHANGED <<rows, matured, closes, pc, loaded, sig>>

Dropped(t) ==
  /\ ChainFaults
  /\ t \in inFlight
  /\ inFlight' = inFlight \ {t}
  /\ UNCHANGED <<rows, matured, open, executed, closes, pc, loaded, sig>>

UnstakeStake(u) == UnstakeLoad(u) \/ UnstakeSend(u) \/ UnstakeSave(u)

ExecuteUnstakeTransaction(e) ==
  \/ \E s \in Stake, x \in Tx : ExecuteSend(e, s, x)
  \/ ExecuteExisting(e) \/ ExecuteConfirm(e) \/ ExecuteSave(e)

Next ==
  /\ UNCHANGED env
  /\ \/ \E u \in Unstake : UnstakeStake(u)
     \/ \E x \in Signed : PrepareUnstakeTransaction(x)
     \/ \E e \in Execute : ExecuteUnstakeTransaction(e)
     \/ \E s \in Stake : Mature(s)
     \/ \E t \in Tx : ClientSend(t) \/ Land(t) \/ Dropped(t)

Spec == Init /\ [][Next]_vars

\* Started requests run on, and the ledger executes what it was sent.
Fairness ==
  /\ \A u \in Unstake : WF_moving(UnstakeSend(u) \/ UnstakeSave(u))
  /\ \A e \in Execute :
       WF_moving(ExecuteExisting(e) \/ ExecuteConfirm(e) \/ ExecuteSave(e))
  /\ \A t \in Tx : WF_moving(Land(t))

FairSpec == Spec /\ Fairness

-----------------------------------------------------------------------------
(* Properties.                                                             *)

\* Every variable has its type.
TypeOK ==
  /\ env \in Environments
  /\ rows \in [Stake -> Row]
  /\ matured \subseteq Stake
  /\ open \subseteq Stake
  /\ executed \subseteq Tx
  /\ inFlight \subseteq Tx
  /\ closes \in [Tx -> Stake \cup {None}]
  /\ pc \in [Handler -> {"idle", "send", "existing", "confirm", "save", "done"}]
  /\ loaded \in [Handler -> Stake \cup {None}]
  /\ sig \in [Handler -> Tx \cup {None}]

\* While the ledger executes what it takes, a COMPLETED row carries a transaction
\* that was sent, and the account which that transaction closes is closed or will
\* be: no row is completed on a send that failed, whichever of two racing requests
\* signed it last.  It is the account of the row if clients return the transaction
\* they were given for it; nothing else makes it so.
CompletedIsClosed ==
  ~ChainFaults =>
    \A s \in Stake : rows[s].status = "completed" =>
      LET t == rows[s].sig
      IN  /\ t \in inFlight \/ (t \in executed /\ Account(t) \notin open)
          /\ OwnRows => Account(t) = Named[s]

\* Without faults, and if clients return what they were given, the rows follow the
\* ledger: once an account is closed, a row that names it comes to say COMPLETED,
\* also when requests for it race.
ClosedIsCompleted ==
  \A a \in Stake :
    (NoFaults /\ OwnRows /\ a \notin open)
      ~> \E s \in Stake : Named[s] = a /\ rows[s].status = "completed"
=============================================================================
