# MMP Marketing back end: a TLA+ verification

A model of the NestJS back end in `src/` that sells the MMP and MPB tokens on
Solana, pays referral rewards, stakes, withdraws and manages accounts. The
modules follow the code in `src/src/modules` and `src/src/shared`; the definition
of each module that models code is tied to its lines in `PROJECT.json` (`map`).

- [1. The system](#1-the-system)
- [2. How the code is modelled](#2-how-the-code-is-modelled)
- [3. Modules](#3-modules)
- [4. Runs](#4-runs)
- [5. Proofs](#5-proofs)
- [6. Where the code departs from what it says](#6-where-the-code-departs-from-what-it-says)
- [7. What is not modelled, and the plan](#7-what-is-not-modelled-and-the-plan)

## 1. The system

One Node process serves HTTP requests and websocket clients, keeps its data in a
SQL database through TypeORM, and talks to the Solana ledger by RPC. There are no
locks, no database transactions and no conditional updates: what makes requests
atomic is only that Node runs the code between two `await`s without interruption.

| component | state it keeps | operations that change it | talks to |
| --- | --- | --- | --- |
| swap orders (`swap-orders/swap-order.service.ts`) | table `swap_orders`; the SOL price cache (15 s) | `create` (the server signs the payment), `initWeb3Wallet` / `completeWeb3Wallet` (the client signs) | ledger, price API, referral rewards (called without `await`) |
| order sweep (`swap-order-cron.service.ts`) | the entities of one run | the hourly job that fails PENDING orders older than 3 minutes | `swap_orders` |
| referral rewards (`referral-rewards/referral-reward.service.ts`) | table `referral_rewards` | `createReferralReward`, `checkAndPayAllRewards`, `payAllPendingRewards` | ledger |
| authority monitor (`sol-authority-monitor.service.ts`) | `previousBalance`, two account listeners | the callbacks, which pay rewards in WAIT_BALANCE | ledger, rewards |
| user stakes (`user-stakes/user-stake.service.ts`) | table `user_stakes` | `create`, `unstake` (server signs); `prepare…`/`execute…` stake and unstake (client signs) | the staking program |
| withdrawals (`deposit-withdraws/deposit-withdraw.service.ts`) | table `deposit_withdraws` | `createDepositWithdraw` | ledger, price API |
| Telegram bot (`shared/telegram-bot`) | `lastUpdateId`; tables `users`, `wallets`, `verify_codes` | the polling loop, `/start` | Telegram |
| authentication (`auth/auth.service.ts`) | `users`, `wallets`, `verify_codes` | logins by Telegram, Google and wallet; the authenticator; the email | Google |
| balance gateway (`websocket/wallet-balance.gateway.ts`) | the maps `subscribedWallets`, `logSubscriptions`, `tokenAccountSubscriptions` | `subscribeBalance`, the callbacks of the listeners, disconnections | ledger, websocket clients |
| sale rounds (`admin/token-sale-rounds`, `token-sale-rounds`) | table `token_sale_rounds` | `create`, `update`, `remove`; summaries read rounds, orders and rewards | `swap_orders`, `referral_rewards` |
| wallets (`wallets/wallet.service.ts`), admin wallets (`admin/wallets`) | table `wallets` | `findOne`, which refreshes the stored balances; `updateWalletType` | ledger |
| referral clicks (`referral-clicks/referral-click.service.ts`) | table `referral_clicks` | `trackClick` | |
| admin users (`admin/user-admins/user-admin.service.ts`) | table `user_admins` | `createDefaultAdmin` at the start, `createUserAdmin`, `deleteUserAdmin`, `changePassword` | |
| rate limiter (`middleware/rate-limiter.middleware.ts`) | `requestMap`, in memory | every request | |
| admin statistics, lists (`admin/*`, `referral-rewards`) | none: sequences of queries over the tables above | | |

What is hard here, and what a test would hardly reach:

- **Interleavings at every `await`.** A request loads an entity, waits for the
  ledger for seconds or a minute, and saves. Two requests for one row, a request
  and the sweep, two listeners of one account all do this at once.
- **Stale entities.** `repository.save(entity)` selects the row and updates the
  columns in which the entity *in memory* differs from it. An entity loaded before
  another request's save writes the old values back.
- **Lost answers.** `sendAndConfirmTransaction` may throw although the transaction
  lands; the `catch` then records a failure of money that moved.
- **Partial failure.** Ledger, order row and reward rows are written one after
  another; each step may throw, and the process may stop between two.
- **Look, then insert** without a unique column, for rewards, users and emails.
- **Reports of several moments.** A statistic is up to a dozen queries, a list a query for
  the rows, another for their number, and a request of its own for every page; rows move
  in between.
- **Periods that nobody ends.** Click counters and windows of requests are reset by the
  next click or request, however late it comes.

The properties that make each component correct, as far as the code keeps them:

- swap orders: tokens leave the treasury only against a transfer on the ledger that passes
  the code's checks; hashes in a row are those of a handler that delivered the order;
  COMPLETED rows have both; no order stays PENDING for ever; a reward follows a completion;
- rewards: a hash in a row paid that very reward; one at a time, nothing is paid
  twice and a swap order gets one pair of rewards; everything is decided;
- stakes: one row for a transaction; a number that is the stake's own; a COMPLETED row
  carries a transaction that closes what it names, the stake of the row if the client returns
  what was prepared for it, and what such clients close becomes COMPLETED;
- withdrawals: the history shows what left the wallet; FAILED moved nothing;
- accounts: one wallet for a user; one user for an email; a code leads to a user
  with a wallet; no update is handled twice; no flag without its verification;
- balance gateway: a subscriber is served by one log listener, and is told the balance
  of now; who leaves takes its listeners along;
- sale rounds: rounds of one coin have no instant in common, so that a summary counts
  a sale once;
- wallets: stored balances are those of one refresh, and no older than its begin; the
  stored type is the one chosen last;
- clicks: a report shows the clicks of its day, week and month, and no more than there were;
- reports and lists: what a report or a reader misses are rows that overtook it;
- admin users: there is an administrator once there was one, and who was deleted stays so;
- rate limiter: how many requests get through in any stretch of time.

## 2. How the code is modelled

**One action is the code from one `await` to the next**, with its guards, early
returns and every assignment. Long runs of reads that only decide whether the
request goes on are one action where no other request can make a difference to
them that the properties see; the comment above the action says what it spans. A
handler is suspended at a label (`pc`); its local entity is a variable.

**Saves.** Where two handlers may hold the same row (swap orders, rewards,
settings, clicks, wallets), a save is two actions, the SELECT and the UPDATE of the columns that
differ (`Updated`). Elsewhere the row has one writer at a time, or a save that
writes all of its columns in every case, and one action is enough.

**The ledger is external.** A transaction that was sent lands or does not; `create`
and the reward payments wait for it inside the call, so that sending and landing
are one action with the outcomes *landed*, *rejected* and, with `LostAnswers`,
*landed and reported failed*. In `UserStakes`, `UserUnstakes` and `Withdrawals`,
where the code sends, goes on, and the order of landing matters, `Land` is an
action of its own.

**Data.** Order, call, user, wallet and transaction are model values; a
transaction's hash is the name of the handler that made it. Amounts are left out
but for `Withdrawals`, where they decide (small integers, prices that change from
call to call), and `AuthorityMonitor` (balances up to `MaxBalance`). `BalanceGateway` takes
the number of a balance's changes for the balance, `StoredWallets` the height of the chain at
which it was read; `SaleRounds` counts sales, where the code also adds their amounts, and its
times are `1..3`. `Reports` keeps which rows a query returns, under which label, and leaves
out what is summed over them. In `ReferralClicks` time is a day, and the calendar is the
weekday of day 0 and the first days of the months; the clock of `RateLimiter` ticks in units
of which a window has `WindowSize`.

**What clients may send.** Two methods take an identifier and a transaction that nothing ties
together, and the model lets the client combine them as it likes.

- `completeWeb3Wallet` finds any PENDING order by its number, one whose `create` is still at work
  included, and takes any signature. Of the transaction it only asks whether it succeeded and
  whether it transfers some of the mint of the order's token, from and to whomever, or, for SOL,
  whether the balance of `DESTINATION_WALLET` changed in it, in either direction. The comparison
  of the amount is commented out (lines 1084-1086), the payer is not compared with the order's
  wallet, and no other order is looked up by the signature. `Shows` says for each transaction, be
  it an order's payment or another, for which tokens it passes, and `Accepted(o)` which of them
  pass for an order. The tokens go to a signer of the transaction, which the model leaves out.
- `executeUnstakeTransaction` takes the number of a row of the wallet and a transaction that the
  wallet signed and one of whose instructions is addressed to the program. The row need not be
  ACTIVE or past its end, and the transaction need not close it: it may have been prepared for
  another row, signed by the server and executed already, or built by the client (`Other`). An
  environment says whether clients do this (`ownRows` is false) or return what was prepared.

**Assumptions about what is outside.** The receivers of withdrawals have wallets. There is one
server process. In `UserStakes` a client submits what `prepareStakeTransaction` made, and sends it
by `executeStakeTransaction` only. The code would take any transaction that the wallet signed and
that addresses the program; one that opens no stake gets a row all the same, as one does here
whose counter is no longer the program's, and one that was sent before is like a retry, to which
the exact number in `StakeIdFits` is not promised. Codes for a login and codes to
confirm an email share a table, and each request takes either: `TelegramBot` and
`AccountSettings` both have codes of the two kinds, of their own users.

**Environments.** In `SwapOrders` the faults and what the clients do are constants. Every other component
has a set `Environments` of records (who may start; whether answers may be lost,
repository calls throw, the ledger fail; how many restarts), and a rigid variable
`env` that is one of them throughout a behaviour. One run so explores several
scenarios, and a property names the ones it is about: `Serial => …` speaks of
requests that are served one at a time, `NoFaults => …` of behaviours without
failures. Each such property is exercised by an environment that makes the
hypothesis true, and its mutant is caught in that environment.

**Bounds.** `MaxCrashes`, `maxCrashes` and `MaxRestarts` bound restarts; `MaxBalance` the
authority's balance and `MaxErrors` the errors of its monitor; `MaxChanges` the changes of a
balance the gateway shows; `LastDay`, `MaxHeight` and `MaxTime` the time; `MaxMoves` the rows that
leave their place in a list. Requests are members of finite sets and start at most once; a retry is
another member.

## 3. Modules

| module | models | how state and actions correspond |
| --- | --- | --- |
| `SwapContract` | what the swap service promises of an order | abstract: `status`, `paid`, `served`; tokens leave only after some transfer that `Counts` for the order, COMPLETED only after they left; a transfer may count for several orders |
| `SwapOrders` | `SwapOrderService`, `SwapOrderCronService` | `rows` is the table, `entity`/`base` what a handler loaded and what its save selected; `Create*`, `Init*`, `Complete*` are the stretches of the three methods, `Sweep*` of the job; `target` and `signature` are `dto.orderId` and `dto.signature`, `paid` the transactions on the ledger; `cache` is `solPriceCache`; `aged` is `created_at` against the timeout; `Contract` is the refinement mapping to `SwapContract` |
| `ReferralRewards` | `ReferralRewardService`, and the payment of waiting rewards in `SolAuthorityMonitorService` | `Call` is a call of `createReferralReward` with the payment it goes on to, `Notice` a notification that found an increase; `held` are the entities of the group being paid, `left` those still to save |
| `AuthorityMonitor` | `SolAuthorityMonitorService`: the start, the two listeners, `previousBalance`, and the errors it catches | `due` counts the notifications of the ledger, `seen` is the balance a callback read, `found` the rewards it has still to pay; what one payment does is one step here and detailed in `ReferralRewards` |
| `ReferralClicks` | `trackClick` and the four reports that show its counters | `row` is the row of the wallet, `entity`/`base` as above; `counted` are the clicks whose save went through, with their days. Each report is an operator over the row and the day |
| `Reports` | the statistics of referrers and of administrators | a report is the sequence of its queries (`Get…`, in the code's order, early returns included), and `turns` the wallets that its loop has still to visit; `status` is each row's, moved as the other components move it, `shown` what the queries returned |
| `PagedLists` | the lists that are read page by page | `list` says how rows enter and leave; `step` is the query of a page that comes next |
| `StoredWallets` | `WalletService.findOne`, `updateWalletType` | `unread` are the balances a refresh has still to read; `others` who saved since a handler loaded the row |
| `UserStakes` | `create`, `prepareStakeTransaction`, `executeStakeTransaction` | `counter` is the program's `stake_counter`, `built` the counter a transaction names, `number` the `stake_id` a handler will insert |
| `UserUnstakes` | `unstake`, `prepareUnstakeTransaction`, `executeUnstakeTransaction` | starts from rows as `UserStakes` leaves them: `env.named` says which account the number of each row names, its own, another's or none. `loaded` is the row a request has loaded, `sig` its transaction, `closes` the row a transaction was built for, `Account` what it closes on the ledger; a request saves `loaded`, whatever `Account(sig)` is |
| `Withdrawals` | `createDepositWithdraw` and its three ways to pay | `entity` is what the handler holds, `cost` the fee and the SOL its transaction takes; `bal` and `Land` are the ledger |
| `BalanceGateway` | `WalletBalanceGateway` | the three maps by their names; `listeners` is what the library calls, `callbacks` the callbacks under way, `told` what each client saw last. `FirstListener` is the library's first number, 0, which the code's test for a listener takes for none |
| `SaleRounds` | the admin's and the public `TokenSaleRoundService` | `local` is what a request holds until it returns; a round is named by the request that made it; `counted` is what a summary has added up |
| `TelegramBot` | `TelegramBotService`, `generateCode`, `handleTelegramLogin` | `bot` is where the loop is suspended, `batch` what `getUpdates` returned, `forgotten` what Telegram has confirmed; `env.kinds` says what each update is, `by` who made a code |
| `AccountLogins` | `handleGoogleLogin`, `handlePhantomLogin`, `handleAddLinkEmailAuth` | looks and inserts are apart; a user is named by the request that made it |
| `AccountSettings` | the authenticator and the email of one user | every request loads, changes and saves the entity; `codes` are those of its own requests and those the bot makes (`LoginCode`) |
| `UserAdmins` | `UserAdminService`, `createDefaultAdmin`, the guard that looks an account up | `boot` is where the start of the service is, `user` whom the guard found, `target` the account that is being deleted |
| `RateLimiter` | `RateLimiterMiddleware`, for one address | `info` is its entry in `requestMap`; `served` is when the requests came that went through |
| `Statistics` | the clicks, the reports, the lists and the stored wallet side by side | composes `ReferralClicks` (`Clicks!`), `Reports` (`Report!`), `PagedLists` (`Lists!`) and `StoredWallets` (`Stored!`), each with variables of its own |
| `Rewards` | what pays and shows rewards | extends `ReferralRewards` and `Statistics`, with `AuthorityMonitor` as `Monitor!` |
| `Staking` | stakes and unstakes | extends `UserStakes`, with `UserUnstakes` as `Unstakes!` |
| `GatewayAndRounds`, `WalletsAndSale` | what clients are told of wallets and of the sale; the withdrawals beside it | `BalanceGateway` as `Gateway!`, `SaleRounds` as `Rounds!`; the second extends `Withdrawals` too |
| `Accounts` | everything about users and administrators | extends `AccountLogins`, with `TelegramBot` (`Telegram!`), `AccountSettings` (`Settings!`), `UserAdmins` (`Administrators!`) and `RateLimiter` (`Limiter!`) |
| `SwapOrdersProofs`, `ReferralRewardsProofs`, `StakeProofs`, `WithdrawalsProofs`, `TelegramBotProofs`, `AccountProofs`, `WalletProofs`, `ReportProofs` | theorems about all of the above | section 5 |

The components interact at three places. A completed swap order starts a reward
call: `SwapOrders` records that the call was made (`rewarded`), `ReferralRewards`
takes any set of calls, two of them for one order included, because two
completions of a web3 order make them. `AuthorityMonitor` decides when a
notification is an increase, `ReferralRewards` what a notification then does.
`UserStakes` shows that a row may carry another stake's number; `UserUnstakes`
takes rows that do. The rows that `Reports` reads are moved as `SwapOrders`,
`ReferralRewards`, `UserStakes` and the logins move them: an order may go from FAILED to
COMPLETED and back, because the sweep and a handler may both save it.

The compositions (`Statistics`, `Rewards`, `Staking`, `GatewayAndRounds`, `WalletsAndSale`,
`Accounts`) hold components that share no variable: their specification is the conjunction of
the components', and they give the properties of an instance the names under which the runs
check them and the theorems state them. Each `MC…` module extends one composition, or
`SwapOrders`, gives the constants their values and explores one component after the other: `part`
says which of them a behaviour runs, and the others stay in their initial states. This leaves out
no behaviour of a component, because none reads what another writes.

A definition marked *(seeded fault)* is a plausible bug of the definition below it, with which
the property named in `PROJECT.json` (`mutants`) fails.

## 4. Runs

| run | instance | shows |
| --- | --- | --- |
| `swap_faults` | one custodial order paid in a stablecoin, one web3 SOL order, two `completeWeb3Wallet` calls for either of them with either payment (that of the stablecoin passes for the one order, that of the SOL order for both), the sweep, one restart, lost answers, failing saves | `DeliveredAgainstTransfer`, `HashesAreReal`, `PricedInSolHasCache`, `RewardFollowsCompletion`, `CompletedRowStays` (who alone may touch a completed row), and that it implements `SwapContract` |
| `swap_serial` | both orders in SOL, a transaction of neither that passes for both tokens, three calls of clients that wait for an answer, no faults | `SerialClientsServedOnce`, `DeliveredMeansCompleted` |
| `swap_live` | fair scheduling, a restart, saves that may fail | `PendingIsDecided` |
| `rewards` | six environments: racing calls, a call beside two notifications, a transaction that fails on chain, everything one at a time with and without faults; the monitor, with an error; three clicks from a Thursday to the Saturday of the next week, over a Sunday and the first of a month; ten reports over up to three rows; lists of four rows, two on a page; two refreshes of a wallet and a choice of its type | `HashesPay` in every environment, under the conditions it names; `SerialPaidOnce`, `SerialOneRewardPerSwap`; `ShownClicksAreReal`; `OnlyOvertakenRowsAreMissed`; `PagesSkipNothing`; `StoredWalletIsRecent` |
| `rewards_live` | fair scheduling; a call beside another call or a notification; the monitor with two callbacks, two rewards and a balance up to 3 | `RewardsAreDecided`, `NoticedIncreaseIsPaid` |
| `stakes` | one custodial request, two signed transactions, up to three submissions; without faults, under all with a restart, one at a time. Unstaking: two rows, numbered right, sharing a number, or one with none; clients that return what was prepared, and clients that name any row with any transaction, one that the server did not build included | `RecordedOnce` (a transaction has one row, and without faults a stake is not orphaned), `StakeIdFits` (never the number of an earlier stake, and its own where requests are served one at a time); `CompletedIsClosed`, `ClosedIsCompleted` |
| `wallets_and_sale` | two SOL withdrawals that do not fit together, USDT, MMP, and a symbol that is not withdrawn; a SOL price of 1 or 2 units for a dollar at every read. Up to three subscriptions to a wallet with two token accounts, and one to another wallet; disconnections at every await. Two rounds, an update, a removal, and a summary that overlaps the writers or not | `RecordedIsPaid`, `FailedIsJustified`, `IsDecided`; `SubscriberIsServedOnce`, `SerialToldIsCurrent`; `SummaryCountsOnce` |
| `accounts` | three Google logins and two links of two emails, two wallet logins of one address; three updates of two persons, among them messages that are no `/start` or have no sender, two logins by code, a code for an email, up to two restarts; the requests for the settings of one user, and a code for the login; two creations, two deletions and a password change of administrators, a restart, a failing database; windows of two requests, a restart | `OneAccount` (wallets, addresses, and emails where requests are served one at a time); `CodeOwnerHasWallet`, `HandledAtMostOnce`, `StartIsAnswered`; `SerialActiveIsConfirmed`; `SerialAdminRemains`; `LimitHolds` |
| `rewards_paid_twice`, `monitor_ignored`, `stakes_number`, `logins_locked_out` | small instances without faults, or with one | expected violations, section 6 |

`TypeOK` of every component is checked as well (`RewardsTypeOK`, `StakesTypeOK`,
`WalletsTypeOK`, `AccountsTypeOK` join those of one composition).

**Why the bounds are enough to meet the interesting cases.** Every conflict in this
code is between two holders of one row, so two of each kind of request that may
conflict are there, and a third where the first two leave the row in a state in
which a later one behaves differently (a retry after a race, a stake opened after
a race). One restart is enough to abandon every handler at every label, and two
for the bot, whose offset depends on what the first restart forgot. The
withdrawals' amounts are chosen so that one SOL withdrawal fits, the second is
adjusted or refused depending on the price, and the token withdrawals compete for
the SOL of the network fee and the rent. Times `1..3` have rounds that are apart, that
share an instant, that overlap, and of which one lies inside the other or ends
before it starts. The clicks' ten days have a click before, on and after a Sunday and the
first of a month, with counters that are one or more periods old when they are shown. A report
needs no more than one row of each kind and two of the kind it loops over: its properties are
about one row at a time. Four rows on pages of two make rows cross the end of a page, at
both queries; six units of time hold three windows and the ends of two.

Two transfers that pass for one token, of which one passes for the other as well, are enough to let
an order be completed with its own payment, with another order's, and with one that has completed
an order before; a third, of no order, adds that nobody need have been offered it.

**Symmetry.** In `swap_faults` and `swap_serial` the calls are symmetric: they differ in their
names only, what they ask for is chosen when they start, and no property there is about liveness.

**Deadlock** is not checked: the requests are finite in number, and when all have
returned the model rightly stops.

**Fairness.** Node runs on what was started: weak fairness of the steps of a
started handler. That no request must come is why the first step of a handler is
never fair. The timers come back: the sweep starts again and again, the bot polls
after every poll. Time passes (`OrderAges`), the ledger executes what it was sent
(`Land`), and it notifies its listeners (`Notify`). The two saves of the sweep are
strongly fair in `swap_live`: each of them may fail, and what is assumed is that
the database does not fail for ever. The other liveness properties are about
environments in which repository calls work.

## 5. Proofs

TLC explores the instances above; the theorems hold for every value of the constants. They
prove every safety property and every action property that a passing run checks, and that
`SwapOrders` implements `SwapContract`. The theorems about an instance are stated of its own
specification (`Gateway!Spec => []SubscriberIsServedOnce`), and five theorems say that all
components of a composition together keep their types.

Which proof module is about what:

- `SwapOrdersProofs`: `SwapOrders` and its refinement of `SwapContract`;
- `WalletProofs`: `BalanceGateway` and `StoredWallets`;
- `ReportProofs`, on top of it: `SaleRounds`, `ReferralClicks`, `PagedLists`, `Reports`, and all of
  `Statistics`;
- `ReferralRewardsProofs` and `WithdrawalsProofs`, both on top of `ReportProofs`: `ReferralRewards`,
  `AuthorityMonitor` and all of `Rewards`; `Withdrawals` and all of `WalletsAndSale`;
- `StakeProofs`: `UserStakes`, `UserUnstakes`, and all of `Staking`;
- `TelegramBotProofs`, and `AccountProofs` on top of it: `TelegramBot`; the other components of
  `Accounts`, and all of it.

A theorem about a property speaks of its component's own `Spec`, with no bound on the number of
requests, rows, restarts or faults beyond what the constants say.

**Assumptions.** Each theorem rests on the named assumptions of its component and no others:
the kinds of requests are disjoint, tables from requests to orders, wallets and amounts have their
types, the null value is none of the values, an environment is a record of its type. Those of
substance are: the prices, fees and rent of `Withdrawals` are natural numbers and a dollar is worth
some SOL; the set of transactions of `UserStakes` is finite (the program counts them); so are the
rows of a list; a page has a row; every day of `ReferralClicks` lies in a month; a refresh of
`StoredWallets` reads some coins. TLC evaluates all of them in the runs.

**The shape of the proofs.** No property is inductive by itself. For each there is a
strengthening that says what is known *where a handler is suspended*, as a conjunction of named
parts, each with its own preservation lemma (`Next…Inv`), one step for each action; the theorem
joins them with temporal logic. TLC agreed with the strengthenings on small instances first.
Properties under a condition (`Serial => …`) have a strengthening under the same condition, of
which the first part is always that whoever is at work is alone (`AloneInv`).

| theorem | states | the inductive invariant, and why it is needed |
| --- | --- | --- |
| **`SwapOrdersProofs`** | | |
| `TypeCorrect` | `TypeOK` | a call's `target` is an order only once it has started |
| `DeliveriesArePaid` | `DeliveredAgainstTransfer` | `PaidInv`: a create handler past its payment has it on the ledger, a call past its look there has named a transfer that is on it and passes; who has delivered is past both |
| `SolOrdersHaveAPrice` | `PricedInSolHasCache` | inductive over the types |
| `DecidedStaysDecided` | no write brings a decided order back to PENDING | `StatusInv`: which statuses entity, base and the sweep's copies may have at each label; a save writes the status only where they differ, and none of these entities then says PENDING |
| `HashesReal` | `HashesAreReal` | `HashInv`: saves write column by column, so a row may be made of two handlers' entities, of which each has delivered this order (`Real`); where the status may come out COMPLETED both hashes are there, and who saves FAILED leaves the hashes alone, unless `create` and a call that delivered write the same row (`Contested`). The sweep's copies are blank and one for an order |
| `RewardsFollow` | `RewardFollowsCompletion` | `RewardInv`: a save that will not write all of its columns was overtaken by the sweep, by another handler that delivered the order, or follows a `catch`, which `Excused` remembers; nobody else finds a row FAILED (`QuietInv`) |
| `CompletedRowsStay` | `CompletedRowStays`, about steps | `HashInv` and `CatchInv`: a create handler meets its own completed row in its `catch` only after the reward call threw; it meets another's only if a call delivered the order |
| `DeliveriesComplete` | `DeliveredMeansCompleted` | `CompletesInv`, through every label after the delivery; `SerialInv`: who waits for answers calls for no order whose `create` is at work |
| `ServedOnce` | `SerialClientsServedOnce` | `ServedInv`: one call of an order is at work, one that has delivered has decided the order, and a call that may deliver is the first and not after its `create` |
| `ImplementsContract` | `ContractSpec` | a step writes one row at most (`NextWritesOneRow`) and moves the ledger for one order at most (`NextMovesLedger`); each is a step of the contract or a stutter; a delivery is one because of `PaidInv`, with the transfer the call named for the one that counts |
| **`ReferralRewardsProofs`** | | |
| `TypeCorrect` | `TypeOK` | what a handler holds exists, and is for a referrer |
| `HashesPayHolds` | `HashesPay` | `HashInv`: every hash, in rows and in memory, is of a transaction on the ledger that pays this reward; what is left to be saved was paid. `ClaimsInv`, one at a time: a row that says PAID has a hash |
| `OneRewardPerSwap` | `SerialOneRewardPerSwap` | `SerialInv`: a call past its look finds the look still true |
| `PaidOnce` | `SerialPaidOnce` | `ClaimsInv`, `SentInv`: what a handler has claimed nobody else is about to decide, and what it is about to send no transaction has paid |
| `MonitorTypeCorrect`, `RewardsTypeCorrect` | types of `AuthorityMonitor`, `RewardsTypeOK` | its payments raise `previousBalance` to what a callback saw, which is a balance; the second joins the types of all components of `Rewards` |
| **`StakeProofs`** | | |
| `TypeCorrect` | `TypeOK` | the program's counter is the number of the stakes it opened, so it stays within the transactions |
| `RecordedOnceHolds` | `RecordedOnce` | `RowsInv`: a handler inserts last, and no two rows share a transaction; `KeptInv`: without faults, what was sent has a row, or somebody who will insert it |
| `StakeIdFitsHolds` | `StakeIdFits` | `NumberInv`: a counter read after the confirmation is past the stake; `FirstInv`, one at a time: it is just past it for the first who submits |
| `UnstakeTypeCorrect`, `StakingTypeCorrect`, `CompletedRowsAreClosed` | types, `StakesTypeOK`, `CompletedIsClosed` | `UnstakeSentInv`: what was sent was built for a row or by the client, and a request about to save holds a row and a transaction, which belong together if clients return what they were given; `ClosedInv`: what was executed has closed its account, and a COMPLETED row carries what was sent |
| **`WithdrawalsProofs`** | | |
| `TypeCorrect`, `RecordedIsPaidHolds` | `TypeOK`, `RecordedIsPaid` | `PaidInv`: entity, row and ledger agree at each label; a fee is in a row only once it was taken |
| `FailedIsJustifiedHolds` | `FailedIsJustified` | `UnpaidInv`: in the `catch` nothing left, unless an answer was lost or a save failed; `CutInv`, one at a time: what was cut down to the balance is covered by it until it lands |
| `WalletsTypeCorrect` | `WalletsTypeOK` | joins the types of all components of `WalletsAndSale` |
| **`TelegramBotProofs`** | | |
| `BotTypeCorrect`, `OwnersHaveWallets` | types, `CodeOwnerHasWallet` | `OwnerInv`: who is sent a code was found to have a row and a wallet before |
| `HandledOnce` | `HandledAtMostOnce` | `TakenInv`: what was taken up is below `lastUpdateId` or forgotten by Telegram, and what waits in the loop is above both; a restart forgets the first, and asks Telegram before it polls |
| **`AccountProofs`** | | |
| `TypeCorrect`, `OneAccountHolds` | `TypeOK`, `OneAccount` | a wallet belongs to the request that made its user; while one is about to write an email nobody has it |
| `SettingsTypeCorrect`, `ActiveIsConfirmed` | types, `SerialActiveIsConfirmed` | `JustifiedInv`: the entity in hand is justified by what was verified, and its base is still the row |
| `AdminTypeCorrect`, `AdminRemains` | types, `SerialAdminRemains` | `AloneInv`: the request under way is made by an account that is there and deletes another; `RestoredInv`: who is back after its deletion has changed its password |
| `AccountsTypeCorrect` | `AccountsTypeOK` | joins the types of all components of `Accounts` |
| `LimiterTypeCorrect`, `LimitIsKept` | types, `LimitHolds` | `WindowInv`: a stretch of time that reaches into the present window has met one window before it, and one for each restart; `StretchInv` for stretches that are over |
| **`WalletProofs`** | | |
| `GatewayTypeCorrect`, `SubscribersAreServedOnce` | types, `SubscriberIsServedOnce` | `ListenersInv`: a wallet's log listeners are the one its entry names, and numbers are given once; `SubscribersInv`: past its balances, a subscriber's wallet has an entry |
| `ToldIsCurrent` | `SerialToldIsCurrent` | `CoveredInv`: a wallet with an entry has all of its listeners, or is the one forsaken by the number 0; `CurrentInv`: who was not told the balance of now awaits it |
| `StoredTypeCorrect`, `StoredIsRecent` | types, `StoredWalletIsRecent` | `ReadInv`: what was read is no older than the begin of the refresh; `HeldInv`: whom nobody has overtaken holds the row |
| **`ReportProofs`** | | |
| `RoundsTypeCorrect`, `RoundsStayApart` | types; rounds of one coin have no instant in common | `RoundsInv`: what a writer is about to write fits what is there, and what it loaded is there still. Shown under the condition that writers take turns and that a coin changes only with a time |
| `SalesCountOnce` | `SummaryCountsOnce` | `SumInv`: a summary has counted no more than the sales that fall into none of the rounds it has left; rests on `RoundsInv` |
| `ClickTypeCorrect`, `ClicksAreReal` | types, `ShownClicksAreReal` | `ExactInv`: one at a time, each counter is the number of clicks since the beginning, *at the last click*, of its day, week or month; `Periods` and `Weeks` say when that is today's. `TotalInv`: no entity has more clicks than were counted and its own |
| `ListTypeCorrect`, `PagesAreWhole` | types, `PagesSkipNothing` | `SkipInv`: of the rows before the end of the pages that were read there are unseen no more than left their place; an insertion moves rows only away from the top, a removal lets one across the end (`FirstInserted`, `FirstRemoved`) |
| `StatisticsTypeCorrect` | `StatisticsTypeOK` | joins the types of the four components of `Statistics` |
| `ReportTypeCorrect`, `MissedOnlyOvertaken` | types, `OnlyOvertakenRowsAreMissed` | `Rules`: who asks for a row in one status asks for it later in each status it may move to without an excuse, and for what is paid before what waits; it holds of the queries of each report and of what is left of them. `MissedInv`, `CountsInv`: what is not shown is still to be asked for in the status it has now, or when its wallet's turn comes; `SumsInv` the same of a sum |

Only model-checked are the liveness properties, `PendingIsDecided`, `RewardsAreDecided`,
`NoticedIncreaseIsPaid`, `ClosedIsCompleted`, `IsDecided` and `StartIsAnswered`: liveness under
fairness is out of the prover's reach.

## 6. Where the code departs from what it says

Runs that show it (`expect: violation`; `findings` quotes the lines):

- `rewards_paid_twice`: `payAllPendingRewards` finds the PENDING rewards of a
  referrer and saves them PAID only after the transfer; a second call of the same
  referrer finds and sends them again. One at a time they are paid once.
- `monitor_ignored`: `previousBalance` is raised and never lowered. After the balance
  has fallen, a deposit that stays under the old high is not taken for an increase
  and the rewards keep waiting.
- `stakes_number`: `executeStakeTransaction` reads the program's counter again after
  the confirmation and takes the counter less one for its stake's number; a stake
  opened in between makes the row name another stake's account.
- `logins_locked_out`: when the insert of the wallet fails after that of the user,
  every later Google login of that user fails.

Met while modelling and visible in the conditions of the properties that hold:

- two `completeWeb3Wallet` calls for one order both pass the PENDING check and both
  deliver (`SerialClientsServedOnce` needs clients that wait);
- nothing ties the transaction that completes an order to the order: it may be another's payment,
  of another amount, or one that has completed an order before, and `tx_hash_send` of several
  orders may be the same (`DeliveredAgainstTransfer` and `SwapContract` promise some transfer
  that passes, no more). A custodial order may be completed by a call while its `create` is at
  work; both deliver, and the row is made of both their columns (`Contested` in `HashesAreReal`,
  the third writer in `CompletedRowStays`);
- `executeUnstakeTransaction` completes the row it is told to, whatever the transaction closes,
  and does not read the error of its confirmation: a row may say COMPLETED while its stake is
  open, and a stake be closed while its row says ACTIVE (`CompletedIsClosed` promises the row's own
  account, and `ClosedIsCompleted` anything, only of clients that return what they were given);
- a code for the login confirms an email and one for an email logs in;
- a Telegram message without a sender is answered outside the `try`: if that fails, the rest of
  the batch waits for the next poll;
- the sweep saves the copy it took and may make a completed order FAILED
  (`CompletedRowStays` lists it, `DeliveredMeansCompleted` excepts aged orders);
- a stablecoin order before any SOL price was fetched: `this.solPriceCache!.price` throws
  after the completion was saved, and the `catch` saves FAILED (the second writer that
  `CompletedRowStays` lists; `PricedInSolHasCache` shows SOL orders are safe);
- `createReferralReward` looks for a reward and inserts it apart
  (`SerialOneRewardPerSwap` needs one at a time);
- both listeners of the monitor act on one deposit, and a transaction that is
  confirmed with an error is recorded PAID (`HashesPay` excepts it). Of three payers of one reward,
  one may write the hash of its failed transfer, none, into the row in which another has just saved
  PAID with a hash: a paid reward without a hash. `HashesPay` asks for the hash only where payers
  run one at a time, and for a paid reward that some transaction on the ledger paid it;
- an SOL withdrawal is cut down after the minimum was checked, and may fall below it;
- two logins with one code both get a session; a link and a login of one email
  both write it (`OneAccount`);
- a verification of the authenticator that overlaps a new secret activates the new one
  unverified (`SerialActiveIsConfirmed`), and a link that saves a stale entity may
  reset `is_verified_email`;
- the first listener of the process has the number 0, which `handleDisconnect` takes for
  none: it stays with its entry, and the wallet's next subscriber gets no listener for
  the token accounts (the exception in `SerialToldIsCurrent`). Of the token listeners only
  the last is removed, and a client that leaves during its subscription leaves
  listeners behind;
- two writers of rounds both see no overlap, an update of the coin alone is not
  compared, and an update that overlaps a removal inserts the round again
  (`SummaryCountsOnce` names the conditions);
- the counters of clicks have weeks that begin on Sunday, two of the four reports have weeks that
  begin on Monday: a click on Sunday resets the counter before the week of these two is over, and
  from Monday on they count it with the new week (`ShownClicksAreReal` leaves out behaviours with
  Sunday clicks there). Of clicks that overlap, all but one may be lost;
- the reports sum what is paid, pending and waiting one after the other: a reward that is paid in
  between is in none of the parts, although it was there all the time
  (`OnlyOvertakenRowsAreMissed`);
- a row that is removed from a list, or rises in it, shifts the pages after it, and a reader misses
  a row that was there all the time (`PagesSkipNothing` allows one for each);
- a refresh of balances saves the `wallet_type` it loaded, if an administrator chose another one
  meanwhile, and the choice saves balances it loaded (`StoredWalletIsRecent` excepts the savers
  who were overtaken). When a read fails, the comment says *Return wallet without updated
  balances*, and the entity that is returned, though not saved, has those that were read;
- two administrators who delete each other at once leave none, and while a member is left the
  start of the service makes no default one; a password change inserts an account that was
  deleted meanwhile (`SerialAdminRemains`);
- the rate limiter lets twice `MAX_REQUESTS` through within one window's length, around the end of a
  window, and as many again for every restart (`LimitHolds`);
- an error in the monitor's start leaves the process without listeners for good, and one in its
  query for waiting rewards raises `previousBalance` all the same: the increase counts as handled
  (`NoticedIncreaseIsPaid` promises no more than that the increase is paid or counts as handled).

## 7. What is not modelled, and the plan

Everything that changes a table or the memory of the process is modelled. What is left:

1. The amounts of an order: what is floored and what is recorded. `mpb_received` is saved
   without the floor that the transfer applies; the two differ by less than one unit of the
   token, and no component reads the column to decide anything.
2. `getTokenSaleStatistics` of the swap orders and `getStatistics` of the administrators' sale rounds:
   independent queries whose parts are not compared with each other.
3. `payReferralRewardSOL`, `sendMPBToReferrer`, `broadcastBalanceUpdate`, `verifyCode` and
   `getActiveCode`: nothing calls them.

A refinement worth stating is that `AuthorityMonitor` is what `ReferralRewards` shows to its
notifications.

Left out for good: what the statistics sum, and the services that only delegate;
`staking-plans` and `users`, one query each; Google, whose calls are outcomes in `AccountLogins`
and `AccountSettings`; guards and token strategies, which are stateless; the cache service, which
nothing uses; the application shell, logging and configuration. Of `AuthorityMonitor`, the
reconnection of the websocket is the library's. Out of the reach of this model: the precision of
amounts (`decimal(20,8)` against nine digits of lamports), the clock behind `end_date`, the random
draw of `generateReferralCode`, and what a transaction that a client names does beyond passing the
checks: its amount, its payer, and to whom `completeWeb3Wallet` therefore sends the tokens.
