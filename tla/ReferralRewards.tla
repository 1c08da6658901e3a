-------------------------- MODULE ReferralRewards --------------------------
(***************************************************************************)
(* Referral rewards: ReferralRewardService.createReferralReward, which the *)
(* swap service calls without waiting for it, the payment of a referrer's  *)
(* pending rewards (payAllPendingRewards), and the retry of the rewards    *)
(* that wait for funds (SolAuthorityMonitorService).                       *)
(*                                                                         *)
(* One action is the code between two awaits.  A payer finds rewards,      *)
(* sends their sum in one transaction, then saves them one at a time; two  *)
(* payers never look at each other.  A save is a SELECT and an UPDATE of   *)
(* the columns in which the entity in memory differs from that SELECT.     *)
(*                                                                         *)
(* Left to SwapOrders: when a call is made.  Left open: whether the        *)
(* referrer has reached the threshold of 5000 MMP, and whether a balance   *)
(* notification finds an increase (AuthorityMonitor models that).          *)
(***************************************************************************)
EXTENDS Naturals, FiniteSets

CONSTANTS
  Call,         \* calls of createReferralReward
  Notice,       \* balance notifications that found an increase
  Swap,         \* completed swap orders
  Wallet,       \* wallets that refer others
  SwapOf,       \* the swap order of each call
  Referrer,     \* the wallet whose code the swapper's wallet carries, or None
  Environments, \* what happens in a behaviour and what may fail; see env
  None          \* a null column, and the absence of a referrer

Handler == Call \cup Notice
Token   == {"MMP", "SOL"}

ASSUME HandlersAssumption == Call \cap Notice = {}
ASSUME ReferrerAssumption == /\ SwapOf \in [Call -> Swap]
                             /\ Referrer \in [Swap -> Wallet \cup {None}]
                             /\ None \notin Wallet
ASSUME EnvironmentsAssumption ==
  Environments \subseteq [handlers    : SUBSET Handler,  \* those that run
                          serial      : BOOLEAN,  \* each referrer, and the monitor, one at a time
                          lostAnswers : BOOLEAN,  \* a landed transaction may be reported failed
                          chainErrors : BOOLEAN,  \* a transaction may fail after its preflight
                          dbFaults    : BOOLEAN,  \* a repository call may throw
                          maxCrashes  : Nat]      \* bound on the restarts of the process

\* A call creates at most one reward of each token; a reward is named by them.
Reward == Call \X Token

WalletOf(r) == Referrer[SwapOf[r[1]]]

\* A transaction: a call sends at most one of each token, a notification one
\* to each wallet.
Hash == [by : Handler, wallet : Wallet, token : Token]

ASSUME NoneAssumption == None \notin Hash

Status == {"none", "pending", "paid", "failed", "wait_balance"}

Row == [status : Status, tx_hash : Hash \cup {None}]

NoRow      == [status |-> "none", tx_hash |-> None]
PendingRow == [status |-> "pending", tx_hash |-> None]

VARIABLES
  env,      \* the environment of this behaviour; it does not change
  rows,     \* the referral_rewards table
  pc,       \* where each handler is suspended
  job,      \* the wallet and token each handler is paying
  held,     \* the entities each handler has in memory, NoRow for none
  left,     \* the rewards its loop has still to save
  saving,   \* the reward it is saving, with the row as that save read it
  rent,     \* calls whose last error was "insufficient funds for rent"
  ledger,   \* the transactions on the ledger, with the rewards each pays
  crashes   \* restarts so far

moving == <<rows, pc, job, held, left, saving, rent, ledger, crashes>>
vars == <<env, moving>>

Serial      == env.serial
LostAnswers == env.lostAnswers
ChainErrors == env.chainErrors
DbFaults    == env.dbFaults
MaxCrashes  == env.maxCrashes

Resting == {"idle", "done"}
Label   == Resting \cup {"exists", "insertOutput", "insertSol", "threshold",
                         "find", "send", "paid", "paidUpdate", "refind",
                         "mark", "markUpdate"}

Job == [wallet : Wallet \cup {None}, token : Token]

NoCopies == [r \in Reward |-> NoRow]

\* The entities a find returns.
Copies(S) == [r \in Reward |-> IF r \in S THEN rows[r] ELSE NoRow]

Init ==
  /\ env \in Environments
  /\ rows = NoCopies
  /\ pc = [h \in Handler |-> "idle"]
  /\ job = [h \in Handler |-> [wallet |-> None, token |-> "MMP"]]
  /\ held = [h \in Handler |-> NoCopies]
  /\ left = [h \in Handler |-> {}]
  /\ saving = [h \in Handler |-> {}]
  /\ rent = {}
  /\ ledger = {}
  /\ crashes = 0

-----------------------------------------------------------------------------
(* Steps the payers share.                                                 *)

Goto(h, label) == pc' = [pc EXCEPT ![h] = label]

\* The entities of the wallet and token the handler is paying.
Group(h) == {r \in Reward : /\ held[h][r].status # "none"
                            /\ WalletOf(r) = job[h].wallet
                            /\ r[2] = job[h].token}

\* The entities of the groups a notification has not come to.
Others(h) == [r \in Reward |-> IF r \in Group(h) THEN NoRow ELSE held[h][r]]

\* The group is dealt with: a call goes on from MMP to SOL, a notification to
\* the next wallet.
NextGroup(h) ==
  /\ held' = [held EXCEPT ![h] = Others(h)]
  /\ left' = [left EXCEPT ![h] = {}]
  /\ saving' = [saving EXCEPT ![h] = {}]
  /\ IF h \in Call
       THEN IF job[h].token = "MMP"
              THEN job' = [job EXCEPT ![h].token = "SOL"] /\ Goto(h, "find")
              ELSE UNCHANGED job /\ Goto(h, "done")
       ELSE /\ UNCHANGED job
            /\ IF Others(h) = NoCopies THEN Goto(h, "done") ELSE Goto(h, "send")

\* All the work of a handler ends, with whatever it held.
Abandon(h) ==
  /\ held' = [held EXCEPT ![h] = NoCopies]
  /\ left' = [left EXCEPT ![h] = {}]
  /\ saving' = [saving EXCEPT ![h] = {}]
  /\ Goto(h, "done")

\* The catch of a call finds the pending rewards again; that of a notification
\* marks the entities it holds.
Fail(h, isRent) ==
  /\ rent' = IF isRent THEN rent \cup {h} ELSE rent \ {h}
  /\ saving' = [saving EXCEPT ![h] = {}]
  /\ IF h \in Call
       THEN Goto(h, "refind") /\ UNCHANGED left
       ELSE Goto(h, "mark") /\ left' = [left EXCEPT ![h] = Group(h)]

\* (seeded fault) an error of the send is logged and the loop goes on
SendToReferrerSwallowed(h) ==
  /\ Goto(h, "paid")
  /\ left' = [left EXCEPT ![h] = Group(h)]
  /\ ledger' \in {ledger, ledger \cup {[hash |-> [by |-> h, wallet |-> job[h].wallet,
                                        token |-> job[h].token],
                               rewards |-> Group(h)]}}
  /\ UNCHANGED <<rows, job, held, saving, rent, crashes>>

\* sendMMPToReferrer and sendSOLToReferrer: sendTransaction, which simulates
\* first, then confirmTransaction, which does not look at the error a
\* confirmed transaction may carry.
SendToReferrer(h) ==
  /\ \/ /\ ledger' = ledger \cup {[hash |-> [by |-> h, wallet |-> job[h].wallet,
                                             token |-> job[h].token],
                                   rewards |-> Group(h)]}
        /\ \/ Goto(h, "paid") /\ left' = [left EXCEPT ![h] = Group(h)]
              /\ UNCHANGED <<rent, saving>>
           \/ LostAnswers /\ Fail(h, FALSE)
     \/ /\ Fail(h, FALSE)
        /\ UNCHANGED ledger
     \/ /\ job[h].token = "SOL"
        /\ Fail(h, TRUE)
        /\ UNCHANGED ledger
     \/ /\ ChainErrors
        /\ Goto(h, "paid")
        /\ left' = [left EXCEPT ![h] = Group(h)]
        /\ UNCHANGED <<ledger, rent, saving>>
  /\ UNCHANGED <<rows, job, held, crashes>>

\* One turn of the loop that marks the rewards PAID: SELECT, then UPDATE.
PaidSelect(h) ==
  /\ pc[h] = "paid"
  /\ \E r \in left[h] :
       /\ held' = [held EXCEPT ![h][r] =
                     [status  |-> "paid",
                      tx_hash |-> [by |-> h, wallet |-> job[h].wallet,
                                   token |-> job[h].token]]]
       /\ \/ /\ left' = [left EXCEPT ![h] = @ \ {r}]
             /\ saving' = [saving EXCEPT ![h] = {[reward |-> r, base |-> rows[r]]}]
             /\ Goto(h, "paidUpdate")
             /\ UNCHANGED rent
          \/ DbFaults /\ Fail(h, FALSE)
  /\ UNCHANGED <<rows, job, ledger, crashes>>

\* TypeORM's UPDATE writes the columns in which entity and SELECT differed.
Updated(row, new, old) ==
  [status  |-> IF new.status # old.status THEN new.status ELSE row.status,
   tx_hash |-> IF new.tx_hash # old.tx_hash THEN new.tx_hash ELSE row.tx_hash]

SaveUpdate(h, loop) ==
  /\ \E s \in saving[h] :
       rows' = [rows EXCEPT ![s.reward] =
                  Updated(rows[s.reward], held[h][s.reward], s.base)]
  /\ IF left[h] = {}
       THEN NextGroup(h)
       ELSE /\ Goto(h, loop)
            /\ saving' = [saving EXCEPT ![h] = {}]
            /\ UNCHANGED <<job, held, left>>
  /\ UNCHANGED <<rent, ledger, crashes>>

PaidUpdate(h) == pc[h] = "paidUpdate" /\ SaveUpdate(h, "paid")

\* (seeded fault) a status the column does not have
UnpaidStatusUnknown(h, r) == IF h \in rent THEN "unpaid" ELSE "failed"

\* What becomes of a reward whose payment failed.
UnpaidStatus(h, r) ==
  IF h \in Call /\ r[2] = "SOL" /\ h \in rent THEN "wait_balance" ELSE "failed"

\* One turn of the loop in the catch.  An error there ends the payment of this
\* token for a call, and everything for a notification.
MarkSelect(h) ==
  /\ pc[h] = "mark"
  /\ \/ \E r \in left[h] :
          /\ held' = [held EXCEPT ![h][r].status = UnpaidStatus(h, r)]
          /\ left' = [left EXCEPT ![h] = @ \ {r}]
          /\ saving' = [saving EXCEPT ![h] = {[reward |-> r, base |-> rows[r]]}]
          /\ Goto(h, "markUpdate")
          /\ UNCHANGED job
     \/ DbFaults /\ h \in Call /\ NextGroup(h)
     \/ DbFaults /\ h \in Notice /\ Abandon(h) /\ UNCHANGED job
  /\ UNCHANGED <<rows, rent, ledger, crashes>>

MarkUpdate(h) == pc[h] = "markUpdate" /\ SaveUpdate(h, "mark")

-----------------------------------------------------------------------------
(* createReferralReward, checkAndPayAllRewards, payAllPendingRewards.      *)

\* The wallets of swapper and referrer.
CreateLookup(c) ==
  /\ pc[c] = "idle"
  /\ c \in env.handlers
  /\ Serial => \A d \in Call : Referrer[SwapOf[d]] = Referrer[SwapOf[c]]
                                 => pc[d] \in Resting
  /\ \/ /\ Referrer[SwapOf[c]] # None
        /\ job' = [job EXCEPT ![c].wallet = Referrer[SwapOf[c]]]
        /\ Goto(c, "exists")
     \/ /\ Referrer[SwapOf[c]] = None \/ DbFaults
        /\ Goto(c, "done")
        /\ UNCHANGED job
  /\ UNCHANGED <<rows, held, left, saving, rent, ledger, crashes>>

\* (seeded fault) no look at the rewards there are
CreateExistsUnchecked(c) ==
  /\ pc[c] = "exists"
  /\ Goto(c, "insertOutput")
  /\ UNCHANGED <<rows, job, held, left, saving, rent, ledger, crashes>>

\* Is there a reward for this swap order already?
CreateExists(c) ==
  /\ pc[c] = "exists"
  /\ LET existing == {r \in Reward : /\ SwapOf[r[1]] = SwapOf[c]
                                     /\ rows[r].status # "none"}
     IN  \/ existing = {} /\ Goto(c, "insertOutput")
         \/ (existing # {} \/ DbFaults) /\ Goto(c, "done")
  /\ UNCHANGED <<rows, job, held, left, saving, rent, ledger, crashes>>

\* The MMP reward, then the SOL reward; an error in between keeps the first.
CreateInsert(c, label, token, next) ==
  /\ pc[c] = label
  /\ \/ /\ rows' = [rows EXCEPT ![<<c, token>>] = PendingRow]
        /\ Goto(c, next)
     \/ DbFaults /\ Goto(c, "done") /\ UNCHANGED rows
  /\ UNCHANGED <<job, held, left, saving, rent, ledger, crashes>>

CreateInsertOutput(c) == CreateInsert(c, "insertOutput", "MMP", "insertSol")
CreateInsertSol(c)    == CreateInsert(c, "insertSol", "SOL", "threshold")

\* checkAndPayAllRewards: the referrer's completed MMP swaps add up to 5000, or
\* they do not, or the query throws.
CheckThreshold(c) ==
  /\ pc[c] = "threshold"
  /\ Goto(c, "find") \/ Goto(c, "done")
  /\ UNCHANGED <<rows, job, held, left, saving, rent, ledger, crashes>>

\* The pending rewards of the wallet and token of the job.
PendingOf(c) == {r \in Reward : /\ rows[r].status = "pending"
                                /\ WalletOf(r) = job[c].wallet
                                /\ r[2] = job[c].token}

FindPending(c) ==
  /\ pc[c] = "find"
  /\ \/ /\ PendingOf(c) # {}
        /\ held' = [held EXCEPT ![c] = Copies(PendingOf(c))]
        /\ Goto(c, "send")
        /\ UNCHANGED <<job, left, saving, rent>>
     \/ /\ PendingOf(c) = {}
        /\ NextGroup(c)
        /\ UNCHANGED rent
     \/ /\ DbFaults
        /\ Fail(c, FALSE)
        /\ UNCHANGED <<job, held>>
  /\ UNCHANGED <<rows, ledger, crashes>>

PaySend(c) == c \in Call /\ pc[c] = "send" /\ SendToReferrer(c)

\* (seeded fault) the catch only logs
RefindSkipped(c) ==
  /\ pc[c] = "refind"
  /\ NextGroup(c)
  /\ UNCHANGED <<rows, rent, ledger, crashes>>

\* The catch finds what is pending by now, paid for in this attempt or not.
Refind(c) ==
  /\ pc[c] = "refind"
  /\ \/ /\ PendingOf(c) # {}
        /\ held' = [held EXCEPT ![c] = Copies(PendingOf(c))]
        /\ left' = [left EXCEPT ![c] = PendingOf(c)]
        /\ Goto(c, "mark")
        /\ UNCHANGED <<job, saving>>
     \/ (PendingOf(c) = {} \/ DbFaults) /\ NextGroup(c)
  /\ UNCHANGED <<rows, rent, ledger, crashes>>

-----------------------------------------------------------------------------
(* processWAIT_BALANCERewards.                                             *)

\* Only SOL rewards are ever set waiting, so the groups are the wallets.
Waiting == {r \in Reward : rows[r].status = "wait_balance"}

NoticeFind(n) ==
  /\ pc[n] = "idle"
  /\ n \in env.handlers
  /\ Serial => \A m \in Notice : pc[m] \in Resting
  /\ held' = [held EXCEPT ![n] = Copies(Waiting)]
  /\ job' = [job EXCEPT ![n].token = "SOL"]
  /\ IF Waiting = {} THEN Goto(n, "done") ELSE Goto(n, "send")
  /\ UNCHANGED <<rows, left, saving, rent, ledger, crashes>>

\* The next group; its entities were read when the notification came.
NoticeGroup(n) ==
  /\ pc[n] = "send"
  /\ Group(n) = {}
  /\ \E r \in Reward : /\ held[n][r].status # "none"
                       /\ job' = [job EXCEPT ![n].wallet = WalletOf(r)]
  /\ UNCHANGED <<rows, pc, held, left, saving, rent, ledger, crashes>>

NoticeSend(n) ==
  n \in Notice /\ pc[n] = "send" /\ Group(n) # {} /\ SendToReferrer(n)

\* The process restarts: the table and the ledger stay.
Crash ==
  /\ crashes < MaxCrashes
  /\ crashes' = crashes + 1
  /\ pc' = [h \in Handler |-> IF pc[h] = "idle" THEN "idle" ELSE "done"]
  /\ held' = [h \in Handler |-> NoCopies]
  /\ left' = [h \in Handler |-> {}]
  /\ saving' = [h \in Handler |-> {}]
  /\ UNCHANGED <<rows, job, rent, ledger>>

-----------------------------------------------------------------------------
SaveRewards(h) ==
  PaidSelect(h) \/ PaidUpdate(h) \/ MarkSelect(h) \/ MarkUpdate(h)

CreateReferralReward(c) ==
  \/ CreateLookup(c) \/ CreateExists(c) \/ CreateInsertOutput(c)
  \/ CreateInsertSol(c) \/ CheckThreshold(c)

PayAllPendingRewards(c) ==
  FindPending(c) \/ PaySend(c) \/ Refind(c) \/ SaveRewards(c)

ProcessWaitBalanceRewards(n) ==
  NoticeFind(n) \/ NoticeGroup(n) \/ NoticeSend(n) \/ SaveRewards(n)

Next ==
  /\ UNCHANGED env
  /\ \/ \E c \in Call : CreateReferralReward(c) \/ PayAllPendingRewards(c)
     \/ \E n \in Notice : ProcessWaitBalanceRewards(n)
     \/ Crash

Spec == Init /\ [][Next]_vars

\* Node keeps running the calls and notifications it has started.
Fairness ==
  /\ \A c \in Call : WF_moving(/\ pc[c] # "idle"
                               /\ CreateReferralReward(c) \/ PayAllPendingRewards(c))
  /\ \A n \in Notice : WF_moving(pc[n] # "idle" /\ ProcessWaitBalanceRewards(n))

FairSpec == Spec /\ Fairness

-----------------------------------------------------------------------------
(* Properties.                                                             *)

\* Every variable has its type.
TypeOK ==
  /\ env \in Environments
  /\ rows \in [Reward -> Row]
  /\ pc \in [Handler -> Label]
  /\ job \in [Handler -> Job]
  /\ held \in [Handler -> [Reward -> Row]]
  /\ left \in [Handler -> SUBSET Reward]
  /\ saving \in [Handler -> SUBSET [reward : Reward, base : Row]]
  /\ rent \subseteq Handler
  /\ ledger \subseteq [hash : Hash, rewards : SUBSET Reward]
  /\ crashes \in 0..MaxCrashes

PaidBy(hash, r) == \E p \in ledger : p.hash = hash /\ r \in p.rewards

\* A reward that is PAID was sent, and a hash in a row is that of a transaction on
\* the ledger that paid this very reward to its referrer, although payers overlap,
\* fail half way and write columns from old copies.  A PAID row has a hash when
\* referrers and notifications are served one at a time; of three payers of one
\* reward one can clear the hash in the row that another has just set PAID.
HashesPay ==
  ~ChainErrors =>
    \A r \in Reward :
      /\ rows[r].status = "paid" => \E p \in ledger : r \in p.rewards
      /\ (Serial /\ rows[r].status = "paid") => rows[r].tx_hash # None
      /\ rows[r].tx_hash # None => /\ PaidBy(rows[r].tx_hash, r)
                                   /\ rows[r].tx_hash.wallet = WalletOf(r)

NoLoss == ~DbFaults /\ MaxCrashes = 0

\* When referrers and notifications are served one at a time and neither the
\* database nor the process fails, no reward is sent twice, not even when a
\* transaction that landed was reported as failed; and a reward that waits for
\* funds has not been sent, but by the notification that is sending it.
SerialPaidOnce ==
  (Serial /\ NoLoss) =>
    /\ \A p, q \in ledger : p.rewards \cap q.rewards # {} => p = q
    /\ \A r \in Reward, p \in ledger :
         (rows[r].status = "wait_balance" /\ r \in p.rewards) =>
           /\ p.hash.by \in Notice
           /\ pc[p.hash.by] \in {"paid", "paidUpdate", "mark", "markUpdate"}

\* When a referrer's calls are served one at a time, a swap order has one
\* reward of each token however often it was completed and whatever failed.
SerialOneRewardPerSwap ==
  Serial => \A r, s \in Reward :
              /\ SwapOf[r[1]] = SwapOf[s[1]] /\ r[2] = s[2]
              /\ rows[r].status # "none" /\ rows[s].status # "none"
              => r = s

\* When the referrer has reached the threshold, the call decides its rewards:
\* paid, failed or waiting for funds.
RewardsAreDecided ==
  \A c \in Call :
    (NoLoss /\ pc[c] = "find") ~>
      \A t \in Token : rows[<<c, t>>].status # "pending"

\* What the code says of itself and does not keep:
\* payAllPendingRewards pays the rewards that are not paid yet
\* (referral-reward.service.ts, "pay all rewards not yet paid").
PaysOnlyUnpaid ==
  [][\A p \in ledger' \ ledger : p.hash.by \in Call =>
       \A r \in p.rewards, q \in ledger : r \notin q.rewards]_vars
=============================================================================
