---------------------------- MODULE Statistics -----------------------------
\* What is counted, stored and shown beside the orders, stakes and rewards: the
\* clicks on a referral code, the reports made of several queries, the lists read
\* page by page, and the balances stored in the row of a wallet, side by side.
\* They share no variable: the rows of each are its own.

CONSTANTS
  Click, FirstWeekday, MonthStarts, LastDay,  \* of ReferralClicks
  WalletRow, RewardRow, OrderRow, StakeRow,   \* of Reports
  TokenOf, FromOf, Scopes,
  Item, Limit, MaxMoves,                      \* of PagedLists
  Refresh, Choice, Coins, MaxHeight           \* of StoredWallets

VARIABLES
  serialClicks, day, click, clickPc, clickEntity, clickBase, clicked,
  scope, rowStatus, begun, todo, turns, known, moves, shown,
  list, listed, fresh, page, step, length, stable, shownRows, rowsLeft,
  height, wallet, walletPc, unread, walletEntity, walletBase, began, others,
  saver, chosen, overtaken

clickVars == <<serialClicks, day, click, clickPc, clickEntity, clickBase, clicked>>
reportVars == <<scope, rowStatus, begun, todo, turns, known, moves, shown>>
listVars == <<list, listed, fresh, page, step, length, stable, shownRows, rowsLeft>>
walletVars == <<height, wallet, walletPc, unread, walletEntity, walletBase, began, others,
                saver, chosen, overtaken>>

Clicks == INSTANCE ReferralClicks
            WITH serial <- serialClicks, row <- click, pc <- clickPc,
                 entity <- clickEntity, base <- clickBase, counted <- clicked

Report == INSTANCE Reports
            WITH Wallet <- WalletRow, Reward <- RewardRow, Order <- OrderRow,
                 Stake <- StakeRow, status <- rowStatus

Lists == INSTANCE PagedLists WITH seen <- shownRows, left <- rowsLeft

Stored == INSTANCE StoredWallets
            WITH row <- wallet, pc <- walletPc, entity <- walletEntity, base <- walletBase

StatisticsAssumptions ==
  /\ Clicks!CalendarAssumption
  /\ Report!ReportsAssumption
  /\ Lists!ListsAssumption
  /\ Stored!StoredWalletsAssumption

-----------------------------------------------------------------------------
(* All at once.                                                            *)

StatisticsSpec == Clicks!Spec /\ Report!Spec /\ Lists!Spec /\ Stored!Spec

\* Every variable of the four has its type.
StatisticsTypeOK ==
  /\ Clicks!TypeOK
  /\ Report!TypeOK
  /\ Lists!TypeOK
  /\ Stored!TypeOK

\* No report of clicks has more of them than there were, and where clicks are
\* served one at a time the reports are exact, but for the weeks in which somebody
\* clicks on a Sunday.
ShownClicksAreReal == Clicks!ShownClicksAreReal

\* A report that is made of several queries misses only rows that moved while it
\* was made, and shows no reward both as paid and as still to be paid.
OnlyOvertakenRowsAreMissed == Report!OnlyOvertakenRowsAreMissed

\* A reader of all pages misses no more rows than left their place meanwhile.
PagesSkipNothing == Lists!PagesSkipNothing

\* Stored balances are those of one refresh, read after it began, but for saves
\* of handlers that another had overtaken.
StoredWalletIsRecent == Stored!StoredWalletIsRecent
=============================================================================
