------------------------------ MODULE Reports ------------------------------
(***************************************************************************)
(* The statistics that administrators and users read.  A report is not one *)
(* query but a sequence of them, each awaited, none in a transaction: rows *)
(* move from a status to another between two queries, so the parts of a    *)
(* report are of different times.                                          *)
(*                                                                         *)
(* A query shows, under a label, the rows of some set that are in some     *)
(* statuses; what it sums over them is left out, and so are the counts of  *)
(* this month and this week that follow a count of referrals.  The rows    *)
(* are the wallets referred by one referrer, the rewards of that referrer, *)
(* and orders and stakes; a wallet's status is what its user logs in with. *)
(***************************************************************************)
EXTENDS Naturals, Sequences

CONSTANTS
  Wallet, Reward, Order, Stake,  \* rows
  TokenOf,   \* of a reward
  FromOf,    \* the referred wallet whose swap earned a reward
  Scopes     \* what may be observed: a report, and the rows that may exist

Row == Wallet \cup Reward \cup Order \cup Stake

Names == {"getReferralRanking", "getReferralStatistics", "getWalletReferralStatistics",
          "getReferredWallets", "getOwnReferralStatistics", "getReferralsOfWallet",
          "getWalletDetailStatistics", "getWalletStatistics", "getSwapStatistics",
          "getStakeStatistics"}

\* The rows of four tables, so none is in two.
ReportsAssumption ==
  /\ Reward \cap (Order \cup Stake \cup Wallet) = {}
  /\ Order \cap (Stake \cup Wallet) = {}
  /\ Stake \cap Wallet = {}
  /\ Scopes \subseteq [report : Names, rows : SUBSET Row]
  /\ TokenOf \in [Reward -> {"SOL", "MMP"}]
  /\ FromOf \in [Reward -> Wallet]

VARIABLES
  scope,   \* the member of Scopes; it does not change
  status,  \* the status of each row, "none" until it is inserted
  begun,   \* the report has begun
  todo,    \* its queries that are to come
  turns,   \* the wallets its loop has still to visit after them
  known,   \* the rows that existed when it began
  moves,   \* the moves of rows since
  shown    \* what its queries returned, pairs of a label and a row

vars == <<scope, status, begun, todo, turns, known, moves, shown>>

Open == {"pending", "wait_balance", "paid"}
Joined == {"phantom", "telegram", "google", "both"}
OrderStatus == {"pending", "completed", "failed"}
StakeStatus == {"active", "completed", "cancelled"}

-----------------------------------------------------------------------------
(* Queries.                                                                *)

\* The rows of among that are in one of statuses, shown as label.
Query(label, among, statuses) ==
  [label |-> label, among |-> among, statuses |-> statuses, loops |-> FALSE, only |-> 0]

\* The last query of a report, over whose wallets it then loops.
Loop(label) == [Query(label, Wallet, Joined) EXCEPT !.loops = TRUE]

\* A query without which the next n are not made when it finds nothing.
Guard(label, n) == [Query(label, Wallet, Joined) EXCEPT !.only = n]

In(token) == {r \in Reward : TokenOf[r] = token}
From(w) == {r \in Reward : FromOf[r] = w}

\* A sum over the rewards in a token, and their value in USD.
ByToken(label, token, statuses) == Query(label, In(token), statuses)
InUSD(label, among, statuses) == Query(label, among \cap In("MMP"), statuses)

-----------------------------------------------------------------------------
(* The reports.                                                            *)

Referrals == Query("referrals", Wallet, Joined)
Paid(token) == ByToken("paid", token, {"paid"})
Pending(token) == ByToken("pending", token, {"pending"})
Waiting(token) == ByToken("wait_balance", token, {"wait_balance"})
Total(token) == ByToken("total", token, Open)

\* One row of the ranking, and the best of the ranking.
GetReferralRanking ==
  <<Referrals, Total("SOL"), Total("MMP"), InUSD("totalUSD", Reward, Open)>>

GetReferralStatistics ==
  <<Guard("referrals", 3), ByToken("top", "SOL", {"paid"}), ByToken("top", "MMP", {"paid"}),
    InUSD("topUSD", Reward, {"paid"}),
    Total("SOL"), Total("MMP"), InUSD("totalUSD", Reward, Open)>>

\* (seeded fault) what has been paid is summed last
PaidLast ==
  <<Referrals, Pending("SOL"), Pending("MMP"), Waiting("SOL"), Waiting("MMP"),
    Paid("SOL"), Paid("MMP"), InUSD("paidUSD", Reward, {"paid"})>>

GetWalletReferralStatistics ==
  <<Referrals, Paid("SOL"), Paid("MMP"), InUSD("paidUSD", Reward, {"paid"}),
    Pending("SOL"), Pending("MMP"), Waiting("SOL"), Waiting("MMP")>>

\* A page that holds all referred wallets, and the rewards that each has earned.
GetReferredWallets == <<Loop("referred")>>

GetReferredWallet(w) ==
  <<Query("paid", From(w), {"paid"}), InUSD("paidUSD", From(w), {"paid"}),
    Query("pending", From(w), {"pending"}), InUSD("pendingUSD", From(w), {"pending"}),
    Query("wait_balance", From(w), {"wait_balance"}),
    InUSD("wait_balanceUSD", From(w), {"wait_balance"})>>

\* What a referrer sees of its own rewards.
GetOwnReferralStatistics == <<Referrals, Loop("referred")>>

GetOwnReferredWallet(w) ==
  <<Query("paid", From(w), {"paid"}), Query("pending", From(w), {"pending"}),
    Query("wait_balance", From(w), {"wait_balance"})>>

\* The referrals of a wallet, and everything about a wallet.  Its orders and
\* its stakes are loaded once, and counted in memory.
GetReferralsOfWallet == <<Query("referred", Wallet, Joined)>>

GetWalletDetailStatistics ==
  <<Query("orders", Order, OrderStatus), Referrals,
    Paid("SOL"), Paid("MMP"), Pending("SOL"), Pending("MMP"), Waiting("SOL"), Waiting("MMP"),
    Total("SOL"), Total("MMP"), InUSD("paidUSD", Reward, {"paid"}),
    Query("stakes", Stake, StakeStatus)>>

GetWalletStatistics ==
  <<Query("wallets", Wallet, Joined),
    Query("telegram", Wallet, {"telegram", "both"}),
    Query("google", Wallet, {"google", "both"}),
    Query("phantom", Wallet, {"phantom"})>>

\* The sums by token are over the completed orders, like the last query.
GetSwapStatistics ==
  <<Query("orders", Order, OrderStatus),
    Query("pending", Order, {"pending"}),
    Query("completed", Order, {"completed"}),
    Query("failed", Order, {"failed"}),
    Query("received", Order, {"completed"})>>

GetStakeStatistics ==
  <<Query("stakes", Stake, StakeStatus),
    Query("active", Stake, {"active"}),
    Query("completed", Stake, {"completed"}),
    Query("cancelled", Stake, {"cancelled"}),
    Query("staked", Stake, StakeStatus),
    Query("staking", Stake, {"active"})>>

QueriesOf(report) ==
  CASE report = "getReferralRanking"          -> GetReferralRanking
    [] report = "getReferralStatistics"       -> GetReferralStatistics
    [] report = "getWalletReferralStatistics" -> GetWalletReferralStatistics
    [] report = "getReferredWallets"          -> GetReferredWallets
    [] report = "getOwnReferralStatistics"    -> GetOwnReferralStatistics
    [] report = "getReferralsOfWallet"        -> GetReferralsOfWallet
    [] report = "getWalletDetailStatistics"   -> GetWalletDetailStatistics
    [] report = "getWalletStatistics"         -> GetWalletStatistics
    [] report = "getSwapStatistics"           -> GetSwapStatistics
    [] report = "getStakeStatistics"          -> GetStakeStatistics

QueriesFor(report, w) ==
  IF report = "getReferredWallets" THEN GetReferredWallet(w) ELSE GetOwnReferredWallet(w)

-----------------------------------------------------------------------------
(* What moves the rows: the other components, one payer of rewards at a    *)
(* time.                                                                   *)

RewardMoves ==
  {<<"none", "pending">>, <<"pending", "paid">>, <<"pending", "wait_balance">>,
   <<"pending", "failed">>, <<"wait_balance", "paid">>, <<"wait_balance", "failed">>}

\* The sweep may fail an order that its handler then completes, and save its
\* old copy over an order that is completed.
OrderMoves ==
  {<<"none", "pending">>, <<"pending", "completed">>, <<"pending", "failed">>,
   <<"failed", "completed">>, <<"completed", "failed">>}

StakeMoves == {<<"none", "active">>, <<"active", "completed">>}

\* A user who logs in with Telegram may add an email.
WalletMoves == ({"none"} \X {"phantom", "telegram", "google"}) \cup {<<"telegram", "both">>}

MovesOf(r) ==
  CASE r \in Reward -> RewardMoves
    [] r \in Order  -> OrderMoves
    [] r \in Stake  -> StakeMoves
    [] r \in Wallet -> WalletMoves

Init ==
  /\ scope \in Scopes
  /\ status = [r \in Row |-> "none"]
  /\ begun = FALSE
  /\ todo = <<>>
  /\ turns = {}
  /\ known = {}
  /\ moves = {}
  /\ shown = {}

Answered == begun /\ todo = <<>> /\ turns = {}

Move(r) ==
  /\ r \in scope.rows
  /\ ~Answered
  /\ r \in Reward => status[FromOf[r]] # "none"
  /\ \E m \in MovesOf(r) :
       /\ m[1] = status[r]
       /\ status' = [status EXCEPT ![r] = m[2]]
       /\ moves' = IF begun THEN moves \cup {<<r, m[1], m[2]>>} ELSE moves
  /\ UNCHANGED <<scope, begun, todo, turns, known, shown>>

Begin ==
  /\ ~begun
  /\ begun' = TRUE
  /\ todo' = QueriesOf(scope.report)
  /\ known' = {r \in Row : status[r] # "none"}
  /\ UNCHANGED <<scope, status, turns, moves, shown>>

Ask ==
  /\ todo # <<>>
  /\ LET q == Head(todo)
         found == {r \in q.among : status[r] \in q.statuses}
         skipped == IF found = {} THEN q.only ELSE 0
     IN  /\ shown' = shown \cup ({q.label} \X found)
         /\ todo' = SubSeq(todo, 2 + skipped, Len(todo))
         /\ turns' = IF q.loops THEN found ELSE turns
  /\ UNCHANGED <<scope, status, begun, known, moves>>

\* The loop comes to its next wallet.
Turn(w) ==
  /\ todo = <<>>
  /\ w \in turns
  /\ todo' = QueriesFor(scope.report, w)
  /\ turns' = turns \ {w}
  /\ UNCHANGED <<scope, status, begun, known, moves, shown>>

Next == Begin \/ Ask \/ (\E w \in Wallet : Turn(w)) \/ (\E r \in Row : Move(r))

Spec == Init /\ [][Next]_vars

-----------------------------------------------------------------------------
(* Properties.                                                             *)

\* Every variable has its type.
TypeOK ==
  /\ scope \in Scopes
  /\ \A r \in Row : status[r] = "none" \/ \E m \in MovesOf(r) : status[r] = m[2]
  /\ begun \in BOOLEAN
  /\ \A i \in DOMAIN todo : todo[i].among \subseteq Row
  /\ turns \subseteq Wallet \cap scope.rows
  /\ known \subseteq scope.rows
  /\ \A m \in moves : m[1] \in scope.rows /\ <<m[2], m[3]>> \in MovesOf(m[1])
  /\ \A s \in shown : s[2] \in scope.rows

ShownAs(r) == {s[1] : s \in {t \in shown : t[2] = r}}

\* The reports that split the rewards of a referrer by status.
SplitRewards == {"getWalletReferralStatistics", "getReferredWallets",
                 "getOwnReferralStatistics", "getWalletDetailStatistics"}

\* A reward that a report shows as paid it does not show as waiting, too; and
\* one that the report misses was paid or failed while the report was made.
RewardsAreSplit ==
  \A r \in Reward :
    /\ "paid" \in ShownAs(r) => ShownAs(r) \cap {"pending", "wait_balance"} = {}
    /\ r \in known /\ ShownAs(r) \cap Open = {} =>
         \/ status[r] = "failed"
         \/ \E s \in Open : <<r, s, "paid">> \in moves

\* In the reports that sum them after the split, the value in USD and the total
\* leave out nothing that the split shows, but what has failed since.
SumsCoverTheSplit ==
  \A r \in Reward :
    /\ /\ TokenOf[r] = "MMP"
       /\ "paid" \in ShownAs(r)
       /\ scope.report # "getOwnReferralStatistics"
       => "paidUSD" \in ShownAs(r)
    /\ /\ scope.report = "getWalletDetailStatistics"
       /\ ShownAs(r) \cap Open # {}
       => "total" \in ShownAs(r) \/ status[r] = "failed"

\* An order is missed only if it was completed late, after it had failed; a
\* stake and a wallet are never missed.
CountsAreSplit ==
  /\ scope.report = "getSwapStatistics" =>
       \A o \in known \cap Order :
         \/ ShownAs(o) \cap OrderStatus # {}
         \/ <<o, "failed", "completed">> \in moves
  /\ scope.report = "getStakeStatistics" =>
       \A s \in known \cap Stake : ShownAs(s) \cap StakeStatus # {}
  /\ scope.report = "getWalletStatistics" =>
       \A w \in known \cap Wallet : ShownAs(w) \cap {"telegram", "google", "phantom"} # {}

\* However rows move while a report is made, it misses only those that
\* overtook it, and shows no reward both as paid and as still to be paid.
OnlyOvertakenRowsAreMissed ==
  Answered =>
    /\ scope.report \in SplitRewards => RewardsAreSplit /\ SumsCoverTheSplit
    /\ CountsAreSplit
=============================================================================
