-------------------------- MODULE AuthorityMonitor --------------------------
(***************************************************************************)
(* SolAuthorityMonitorService: it watches the wallet that pays the SOL     *)
(* rewards and, when its balance has risen, pays the rewards that wait for *)
(* funds.  Two listeners (onLogs, onAccountChange) are told of every       *)
(* change.  Their callbacks interleave and share previousBalance, which is *)
(* set to the balance a callback saw, after that callback has paid, and is *)
(* left alone when the balance falls.                                      *)
(*                                                                         *)
(* ReferralRewards has the payments in detail; here the send and the save  *)
(* of a reward are one step.  An RPC or database error loses what was      *)
(* being done: the notification, the rewards of the increase, or, at the   *)
(* start, the whole monitor.                                               *)
(***************************************************************************)
EXTENDS Naturals

CONSTANTS
  Callback,    \* callbacks that may run at a time
  Reward,      \* SOL rewards, each of another referrer
  Amount,      \* what each of them costs
  MaxBalance,  \* bound on the balance, and with it on the deposits
  MaxErrors    \* bound on the errors

MonitorAssumption == /\ Amount \in [Reward -> Nat \ {0}]
                     /\ MaxBalance \in Nat
                     /\ MaxErrors \in Nat

VARIABLES
  balance,          \* of the authority wallet, on the ledger
  previousBalance,  \* what the callbacks compare with
  errors,           \* errors that may still happen
  monitor,          \* startMonitoring: off, read, listening, or failed
  due,              \* notifications not handled yet, two for each change
  pc,               \* where each callback is suspended
  seen,             \* currentBalance of each callback
  found,            \* the rewards it has still to pay
  status,           \* of each reward
  covered           \* waiting rewards a deposit covered while being listened to

vars == <<balance, previousBalance, errors, monitor, due, pc, seen, found, status, covered>>

Waiting == {r \in Reward : status[r] = "wait_balance"}

Init ==
  /\ balance \in 0..MaxBalance
  /\ previousBalance = 0
  /\ errors \in 0..MaxErrors
  /\ monitor = "off"
  /\ due = 0
  /\ pc = [k \in Callback |-> "idle"]
  /\ seen = [k \in Callback |-> 0]
  /\ found = [k \in Callback |-> {}]
  /\ status = [r \in Reward |-> "none"]
  /\ covered = {}

Err == errors > 0 /\ errors' = errors - 1

Changed(new) ==
  /\ balance' = new
  /\ due' = IF monitor = "listening" THEN due + 2 ELSE due

-----------------------------------------------------------------------------
(* The wallet: deposits, and the payments of ReferralRewardService.        *)

TopUp ==
  /\ \E amount \in 1..(MaxBalance - balance) : Changed(balance + amount)
  /\ covered' = IF monitor = "listening"
                  THEN covered \cup {r \in Waiting : Amount[r] \in (balance + 1)..balance'}
                  ELSE covered
  /\ UNCHANGED <<previousBalance, errors, monitor, pc, seen, found, status>>

\* payAllPendingRewards: short of funds, the reward waits if the error says that
\* the rest would not pay the rent; after any other error it has FAILED.
PayReward(r) ==
  /\ status[r] = "none"
  /\ \/ /\ Amount[r] <= balance
        /\ Changed(balance - Amount[r])
        /\ status' = [status EXCEPT ![r] = "paid"]
        /\ UNCHANGED errors
     \/ /\ Amount[r] > balance
        /\ status' \in {[status EXCEPT ![r] = "wait_balance"],
                       [status EXCEPT ![r] = "failed"]}
        /\ UNCHANGED <<balance, due, errors>>
     \/ /\ Err
        /\ status' = [status EXCEPT ![r] = "failed"]
        /\ UNCHANGED <<balance, due>>
  /\ UNCHANGED <<previousBalance, monitor, pc, seen, found, covered>>

-----------------------------------------------------------------------------
(* The monitor.                                                            *)

StartRead ==
  /\ monitor = "off"
  /\ monitor' = "read"
  /\ previousBalance' = balance
  /\ UNCHANGED <<balance, errors, due, pc, seen, found, status, covered>>

\* The initial balance cannot be read: no listener is ever registered.
StartFails ==
  /\ monitor = "off"
  /\ monitor' = "failed"
  /\ Err
  /\ UNCHANGED <<balance, previousBalance, due, pc, seen, found, status, covered>>

StartListen ==
  /\ monitor = "read"
  /\ monitor' = "listening"
  /\ UNCHANGED <<balance, previousBalance, errors, due, pc, seen, found, status, covered>>

\* A callback waits for the slot to settle.
Notify(k) ==
  /\ pc[k] = "idle"
  /\ due > 0
  /\ due' = due - 1
  /\ pc' = [pc EXCEPT ![k] = "look"]
  /\ UNCHANGED <<balance, previousBalance, errors, monitor, seen, found, status, covered>>

\* (seeded fault) the comparison is the wrong way round
LookDown(k) ==
  /\ pc[k] = "look"
  /\ seen' = [seen EXCEPT ![k] = IF balance < previousBalance THEN balance ELSE 0]
  /\ pc' = [pc EXCEPT ![k] = IF balance < previousBalance THEN "find" ELSE "idle"]
  /\ UNCHANGED <<balance, previousBalance, errors, monitor, due, found, status, covered>>

\* getBalance, and the comparison.
Look(k) ==
  /\ pc[k] = "look"
  /\ seen' = [seen EXCEPT ![k] = IF balance > previousBalance THEN balance ELSE 0]
  /\ pc' = [pc EXCEPT ![k] = IF balance > previousBalance THEN "find" ELSE "idle"]
  /\ UNCHANGED <<balance, previousBalance, errors, monitor, due, found, status, covered>>

\* The balance cannot be read; the callback ends.
LookFails(k) ==
  /\ pc[k] = "look"
  /\ pc' = [pc EXCEPT ![k] = "idle"]
  /\ Err
  /\ UNCHANGED <<balance, previousBalance, monitor, due, seen, found, status, covered>>

Raise(k) ==
  /\ previousBalance' = seen[k]
  /\ pc' = [pc EXCEPT ![k] = "idle"]
  /\ seen' = [seen EXCEPT ![k] = 0]

\* processWAIT_BALANCERewards reads the waiting rewards once.
Find(k) ==
  /\ pc[k] = "find"
  /\ found' = [found EXCEPT ![k] = Waiting]
  /\ IF Waiting = {}
       THEN Raise(k)
       ELSE pc' = [pc EXCEPT ![k] = "pay"] /\ UNCHANGED <<previousBalance, seen>>
  /\ UNCHANGED <<balance, errors, monitor, due, status, covered>>

\* It catches the error of its query: the increase counts as handled.
FindFails(k) ==
  /\ pc[k] = "find"
  /\ Err
  /\ Raise(k)
  /\ UNCHANGED <<balance, monitor, due, found, status, covered>>

\* One turn of its loop: sent and PAID, or FAILED for want of funds or by an
\* error.
Pay(k) ==
  /\ pc[k] = "pay"
  /\ \E r \in found[k] :
       /\ found' = [found EXCEPT ![k] = @ \ {r}]
       /\ \/ /\ Amount[r] <= balance
             /\ Changed(balance - Amount[r])
             /\ status' = [status EXCEPT ![r] = "paid"]
             /\ UNCHANGED errors
          \/ /\ IF Amount[r] > balance THEN UNCHANGED errors ELSE Err
             /\ status' = [status EXCEPT ![r] = "failed"]
             /\ UNCHANGED <<balance, due>>
       /\ IF found[k] = {r} THEN Raise(k) ELSE UNCHANGED <<previousBalance, pc, seen>>
  /\ UNCHANGED <<monitor, covered>>

HandleBalanceChange(k) ==
  Notify(k) \/ Look(k) \/ LookFails(k) \/ Find(k) \/ FindFails(k) \/ Pay(k)

Next ==
  \/ TopUp
  \/ \E r \in Reward : PayReward(r)
  \/ StartRead \/ StartFails \/ StartListen
  \/ \E k \in Callback : HandleBalanceChange(k)

Spec == Init /\ [][Next]_vars

\* The service starts, unless that fails, and every notification is handled.
Fairness ==
  /\ WF_vars(StartRead) /\ WF_vars(StartListen)
  /\ WF_vars(\E k \in Callback : Notify(k))
  /\ \A k \in Callback : WF_vars(Look(k) \/ Find(k) \/ Pay(k))

FairSpec == Spec /\ Fairness

-----------------------------------------------------------------------------
(* Properties.                                                             *)

\* Every variable has its type.
TypeOK ==
  /\ balance \in 0..MaxBalance
  /\ previousBalance \in 0..MaxBalance
  /\ errors \in 0..MaxErrors
  /\ monitor \in {"off", "read", "listening", "failed"}
  /\ due \in Nat
  /\ pc \in [Callback -> {"idle", "look", "find", "pay"}]
  /\ seen \in [Callback -> 0..MaxBalance]
  /\ found \in [Callback -> SUBSET Reward]
  /\ status \in [Reward -> {"none", "wait_balance", "paid", "failed"}]
  /\ covered \subseteq Reward

\* A reward that waits while a notification is due and the balance is above
\* previousBalance is taken up, unless the increase is taken for handled first,
\* whatever has failed before: so a deposit that the listeners were registered
\* too late to be told of pays with the next change.
NoticedIncreaseIsPaid ==
  \A r \in Reward :
    (errors = 0 /\ status[r] = "wait_balance" /\ due > 0 /\ balance > previousBalance)
      ~> (status[r] # "wait_balance" \/ balance <= previousBalance)

\* What the code says of itself and does not keep: when the balance increases,
\* the waiting rewards are paid (sol-authority-monitor.service.ts, "if the
\* balance increases, pay the WAIT_BALANCE rewards").  A waiting reward that a
\* deposit covers while the listeners are registered is taken up.
DepositPaysWaiting ==
  \A r \in Reward :
    r \in covered ~> (status[r] # "wait_balance" \/ balance < Amount[r])
=============================================================================
