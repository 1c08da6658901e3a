---------------------------- MODULE Withdrawals -----------------------------
(***************************************************************************)
(* DepositWithdrawService: withdrawals from one custodial wallet.  Each    *)
(* request inserts a PENDING row, prices the fee, reads the balance, sends *)
(* one transaction that carries the fee and the transfer, and saves the    *)
(* outcome.  Requests for the same wallet run at once.                     *)
(*                                                                         *)
(* Amounts are whole units; a dollar is DollarInSol units of SOL, which    *)
(* changes from call to call, or one unit of USDT.  The ledger is          *)
(* external: a transaction takes effect as a whole when the wallet covers  *)
(* it and keeps no SOL or at least the rent; the receivers' wallets exist. *)
(***************************************************************************)
EXTENDS Integers

CONSTANTS
  Withdraw,           \* the requests
  Symbol, Amount,     \* what each request asks for
  Opening,            \* the wallet's balance of each symbol at the start
  DollarInSol,        \* the prices getSolPriceUSD may return
  MIN_AMOUNT_USD, WITHDRAWAL_FEE_USD,
  TRANSACTION_FEE,    \* the service's allowance for the network fee
  Reserve,            \* the 0.001 SOL an adjusted withdrawal leaves
  NetworkFee,         \* what the ledger takes for a transaction
  Rent,               \* the least SOL an account may hold, and an ATA costs
  Environments        \* what may happen in a behaviour: one of these, throughout

Asset == {"SOL", "USDT", "MMP"}  \* USDC is as USDT, MPB as MMP

\* A deposit, and a withdrawal of another symbol, ask for "none" of them.
ASSUME RequestsAssumption == /\ Symbol \in [Withdraw -> Asset \cup {"none"}]
                             /\ Amount \in [Withdraw -> Nat \ {0}]
                             /\ Opening \in [Asset -> Nat]
ASSUME PricesAssumption == /\ DollarInSol \subseteq Nat \ {0}
                           /\ MIN_AMOUNT_USD \in Nat
                           /\ WITHDRAWAL_FEE_USD \in Nat \ {0}
ASSUME FeesAssumption == /\ {TRANSACTION_FEE, Reserve, NetworkFee, Rent} \subseteq Nat
                         /\ NetworkFee <= TRANSACTION_FEE
                         /\ Rent <= Reserve
ASSUME EnvironmentsAssumption ==
  Environments \subseteq
    [requests    : SUBSET Withdraw,  \* those that may be made
     serial      : BOOLEAN,  \* does one start only when no other is under way?
     lostAnswers : BOOLEAN,  \* may an RPC call time out although the transaction lands?
     chainFaults : BOOLEAN,  \* may an RPC call fail, or a transaction be dropped?
     dbFaults    : BOOLEAN,  \* may a repository call throw?
     maxCrashes  : Nat]      \* bound on the number of restarts of the process

VARIABLES
  env,       \* the environment of the behaviour
  bal,       \* the wallet on the ledger
  inFlight,  \* requests whose transaction is sent and not executed yet
  paid,      \* what each request's transaction moved, or Nothing
  pc,        \* where each request is suspended
  entity,    \* the entity each request holds
  cost,      \* the SOL and the fee its transaction takes besides the amount
  rows,      \* the deposit_withdraws table
  crashes    \* restarts so far

moving == <<bal, inFlight, paid, pc, entity, cost, rows, crashes>>
vars   == <<env, moving>>

Serial      == env.serial
LostAnswers == env.lostAnswers
ChainFaults == env.chainFaults
DbFaults    == env.dbFaults
NoFaults    == ~LostAnswers /\ ~ChainFaults /\ ~DbFaults /\ env.maxCrashes = 0

\* The columns that change: status, amount, fee_usd and whether tx_hash is set.
Row     == [status : {"none", "pending", "completed", "failed"},
            amount : Nat, fee : {0, WITHDRAWAL_FEE_USD}, hash : BOOLEAN]
NoRow   == [status |-> "none", amount |-> 0, fee |-> 0, hash |-> FALSE]
Nothing == [amount |-> 0, fee |-> 0]

Init ==
  /\ env \in Environments
  /\ bal = Opening
  /\ inFlight = {}
  /\ paid = [w \in Withdraw |-> Nothing]
  /\ pc = [w \in Withdraw |-> "idle"]
  /\ entity = [w \in Withdraw |-> NoRow]
  /\ cost = [w \in Withdraw |-> [fee |-> 0, sol |-> 0]]
  /\ rows = [w \in Withdraw |-> NoRow]
  /\ crashes = 0

Goto(w, label) == pc' = [pc EXCEPT ![w] = label]

Underway == inFlight # {} \/ \E w \in Withdraw : pc[w] \notin {"idle", "done"}

\* MMP and MPB are withdrawn without a fee.
HasFee(w) == Symbol[w] # "MMP"

\* What the transaction of w takes from each balance.
Takes(w) ==
  [a \in Asset |->
    (IF a = Symbol[w] THEN entity[w].amount + cost[w].fee ELSE 0)
      + (IF a = "SOL" THEN cost[w].sol ELSE 0)]

Covered(w) ==
  /\ \A a \in Asset : bal[a] >= Takes(w)[a]
  /\ LET left == bal["SOL"] - Takes(w)["SOL"] IN left = 0 \/ left >= Rent

-----------------------------------------------------------------------------
(* createDepositWithdraw.                                                  *)

\* The minimum in dollars, of SOL at the price of now, then the INSERT.
CreateInsert(w) ==
  /\ w \in env.requests
  /\ pc[w] = "idle"
  /\ Serial => ~Underway
  /\ LET row == [NoRow EXCEPT !.status = "pending", !.amount = Amount[w]]
         atLeast(dollar) == Amount[w] >= MIN_AMOUNT_USD * dollar
     IN  \/ /\ CASE Symbol[w] = "SOL"  -> \E d \in DollarInSol : atLeast(d)
                 [] Symbol[w] = "USDT" -> atLeast(1)
                 [] OTHER              -> TRUE
            /\ rows' = [rows EXCEPT ![w] = row]
            /\ entity' = [entity EXCEPT ![w] = row]
            /\ Goto(w, IF Symbol[w] \in Asset THEN "balance" ELSE "done")
         \/ /\ \/ DbFaults
               \/ Symbol[w] = "SOL" /\ \E d \in DollarInSol : ~atLeast(d)
               \/ Symbol[w] = "USDT" /\ ~atLeast(1)
            /\ Goto(w, "done")
            /\ UNCHANGED <<rows, entity>>
  /\ UNCHANGED <<bal, inFlight, paid, cost, crashes>>

\* The amount a SOL withdrawal is cut down to when the balance is short.
Adjusted(fee) == bal["SOL"] - fee - TRANSACTION_FEE - Reserve

\* processWithdrawalSOLWithFee up to its transaction.
BalanceSOL(w) ==
  /\ pc[w] = "balance"
  /\ Symbol[w] = "SOL"
  /\ \/ \E d \in DollarInSol :
          LET fee    == WITHDRAWAL_FEE_USD * d
              enough == bal["SOL"] >= entity[w].amount + fee + TRANSACTION_FEE
          IN  /\ cost' = [cost EXCEPT ![w] = [fee |-> fee, sol |-> NetworkFee]]
              /\ \/ enough /\ Goto(w, "send") /\ UNCHANGED entity
                 \/ /\ ~enough /\ Adjusted(fee) > 0
                    /\ entity' = [entity EXCEPT ![w].amount = Adjusted(fee)]
                    /\ Goto(w, "send")
                 \/ /\ ~enough /\ Adjusted(fee) <= 0
                    /\ Goto(w, "catch")
                    /\ UNCHANGED entity
     \/ ChainFaults /\ Goto(w, "catch") /\ UNCHANGED <<entity, cost>>
  /\ UNCHANGED <<bal, inFlight, paid, rows, crashes>>

\* processWithdrawalSPLWithFee and processWithdrawalSPL up to their transaction,
\* which may have to open the receiver's token account.
BalanceSPL(w) ==
  /\ pc[w] = "balance"
  /\ Symbol[w] # "SOL"
  /\ LET fee == IF HasFee(w) THEN WITHDRAWAL_FEE_USD ELSE 0
     IN  \/ /\ bal[Symbol[w]] >= entity[w].amount + fee
            /\ \E sol \in {NetworkFee, NetworkFee + Rent} :
                 cost' = [cost EXCEPT ![w] = [fee |-> fee, sol |-> sol]]
            /\ Goto(w, "send")
         \/ /\ bal[Symbol[w]] < entity[w].amount + fee \/ ChainFaults
            /\ Goto(w, "catch")
            /\ UNCHANGED cost
  /\ UNCHANGED <<bal, inFlight, paid, entity, rows, crashes>>

\* sendAndConfirmTransaction simulates the transaction and sends it ...
Send(w) ==
  /\ pc[w] = "send"
  /\ \/ Covered(w) /\ Goto(w, "confirm") /\ inFlight' = inFlight \cup {w}
     \/ (~Covered(w) \/ ChainFaults) /\ Goto(w, "catch") /\ UNCHANGED inFlight
  /\ UNCHANGED <<bal, paid, entity, cost, rows, crashes>>

\* (seeded fault) the signature of the send is taken for a confirmation
ConfirmUnread(w) ==
  /\ pc[w] = "confirm"
  /\ Goto(w, "save")
  /\ UNCHANGED <<bal, inFlight, paid, entity, cost, rows, crashes>>

\* (seeded fault) the first look that finds nothing counts as a failure
ConfirmGivesUp(w) ==
  /\ pc[w] = "confirm"
  /\ Goto(w, IF paid[w] # Nothing THEN "save" ELSE "catch")
  /\ UNCHANGED <<bal, inFlight, paid, entity, cost, rows, crashes>>

\* ... and waits: it throws when the transaction failed or takes too long.
Confirm(w) ==
  /\ pc[w] = "confirm"
  /\ \/ paid[w] # Nothing /\ Goto(w, "save")
     \/ /\ LostAnswers \/ (w \notin inFlight /\ paid[w] = Nothing)
        /\ Goto(w, "catch")
  /\ UNCHANGED <<bal, inFlight, paid, entity, cost, rows, crashes>>

\* (seeded fault) the outcome stays in memory
SaveForgotten(w) ==
  /\ pc[w] = "save"
  /\ Goto(w, "done")
  /\ UNCHANGED <<bal, inFlight, paid, entity, cost, rows, crashes>>

\* The entity takes the outcome before the save that may throw.
Save(w) ==
  /\ pc[w] = "save"
  /\ LET e == [entity[w] EXCEPT !.status = "completed", !.hash = TRUE,
                 !.fee = IF HasFee(w) THEN WITHDRAWAL_FEE_USD ELSE 0]
     IN  /\ entity' = [entity EXCEPT ![w] = e]
         /\ \/ rows' = [rows EXCEPT ![w] = e] /\ Goto(w, "done")
            \/ DbFaults /\ UNCHANGED rows /\ Goto(w, "catch")
  /\ UNCHANGED <<bal, inFlight, paid, cost, crashes>>

\* (seeded fault) the failed row is given another status
CatchRejected(w) ==
  /\ pc[w] = "catch"
  /\ rows' = [rows EXCEPT ![w].status = "rejected"]
  /\ Goto(w, "done")
  /\ UNCHANGED <<bal, inFlight, paid, entity, cost, crashes>>

\* Saves the entity as FAILED, with the fee that Save may have put in it.
Catch(w) ==
  /\ pc[w] = "catch"
  /\ LET e == [entity[w] EXCEPT !.status = "failed", !.hash = FALSE]
     IN  /\ entity' = [entity EXCEPT ![w] = e]
         /\ \/ rows' = [rows EXCEPT ![w] = e]
            \/ DbFaults /\ UNCHANGED rows
  /\ Goto(w, "done")
  /\ UNCHANGED <<bal, inFlight, paid, cost, crashes>>

-----------------------------------------------------------------------------
(* The ledger and the process.                                             *)

Land(w) ==
  /\ w \in inFlight
  /\ inFlight' = inFlight \ {w}
  /\ \/ /\ Covered(w)
        /\ bal' = [a \in Asset |-> bal[a] - Takes(w)[a]]
        /\ paid' = [paid EXCEPT ![w] = [amount |-> entity[w].amount,
                                        fee    |-> cost[w].fee]]
     \/ (~Covered(w) \/ ChainFaults) /\ UNCHANGED <<bal, paid>>
  /\ UNCHANGED <<pc, entity, cost, rows, crashes>>

Crash ==
  /\ crashes < env.maxCrashes
  /\ crashes' = crashes + 1
  /\ pc' = [w \in Withdraw |-> IF pc[w] = "idle" THEN "idle" ELSE "done"]
  /\ UNCHANGED <<bal, inFlight, paid, entity, cost, rows>>

Step(w) ==
  \/ BalanceSOL(w) \/ BalanceSPL(w)
  \/ Send(w) \/ Confirm(w) \/ Save(w) \/ Catch(w)

Next ==
  /\ UNCHANGED env
  /\ \/ \E w \in Withdraw : CreateInsert(w) \/ Step(w) \/ Land(w)
     \/ Crash

Spec == Init /\ [][Next]_vars

\* A started request runs on, and the ledger executes what it was sent.
Fairness == \A w \in Withdraw : WF_moving(Step(w)) /\ WF_moving(Land(w))

FairSpec == Spec /\ Fairness

-----------------------------------------------------------------------------
(* Properties.                                                             *)

\* Every variable has its type; the wallet is never overdrawn.
TypeOK ==
  /\ env \in Environments
  /\ bal \in [Asset -> Nat]
  /\ inFlight \subseteq Withdraw
  /\ paid \in [Withdraw -> [amount : Nat, fee : Nat]]
  /\ pc \in [Withdraw -> {"idle", "balance", "send", "confirm", "save", "catch", "done"}]
  /\ entity \in [Withdraw -> Row]
  /\ cost \in [Withdraw -> [fee : Nat, sol : Nat]]
  /\ rows \in [Withdraw -> Row]
  /\ crashes \in 0..env.maxCrashes

\* What findByWalletAddress shows: the COMPLETED rows.
History == {w \in Withdraw : rows[w].status = "completed"}

\* A withdrawal shown in the history left the wallet, with the amount it is shown
\* with, also when that amount was cut down after the row was inserted; and a row
\* that names a fee, be it FAILED, had its fee taken.
RecordedIsPaid ==
  \A w \in Withdraw :
    /\ w \in History => /\ paid[w] # Nothing
                        /\ rows[w].amount = paid[w].amount
    /\ rows[w].fee > 0 => paid[w].fee > 0

\* A FAILED withdrawal did not leave the wallet, now or later, as long as no
\* answer is lost and no save fails: the client may ask again.  And one that was
\* cut down to what the wallet has does not fail when nothing else moves the
\* wallet: the reserve covers the rent the ledger asks for.
FailedIsJustified ==
  \A w \in Withdraw :
    rows[w].status = "failed" =>
      /\ ~LostAnswers /\ ~DbFaults => paid[w] = Nothing /\ w \notin inFlight
      /\ Serial /\ NoFaults => rows[w].amount = Amount[w]

\* Without faults every withdrawal of a supported symbol is decided, and what left
\* the wallet comes to be shown.
IsDecided ==
  \A w \in Withdraw :
    (NoFaults /\ Symbol[w] \in Asset /\ rows[w].status = "pending") ~>
      (IF paid[w] # Nothing THEN w \in History ELSE rows[w].status = "failed")
=============================================================================
