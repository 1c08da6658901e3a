--------------------------- MODULE ReferralClicks ---------------------------
(***************************************************************************)
(* The clicks on the referral code of one wallet: trackClick, which loads  *)
(* the row of the wallet, counts the click and saves the row, and the      *)
(* reports that show the counters.  Nothing resets a counter when a day, a *)
(* week or a month ends: trackClick does so with the next click, and a     *)
(* report shows zero for a counter whose last click is too old.            *)
(*                                                                         *)
(* Time is a day, and last_click_at the day and the click that set it.     *)
(* Every call of the repository may fail, which loses the click.           *)
(***************************************************************************)
EXTENDS Integers, FiniteSets

CONSTANTS
  Click,         \* calls of trackClick
  FirstWeekday,  \* the day of the week of day 0, 0 for Sunday
  MonthStarts,   \* the first days of the months
  LastDay        \* bound on the time

CalendarAssumption ==
  /\ FirstWeekday \in 0..6
  /\ LastDay \in Nat
  /\ MonthStarts \subseteq Int
  /\ \A d \in 0..LastDay :  \* every day is in a month
       \E s \in MonthStarts : s <= d /\ \A t \in MonthStarts : t <= d => t <= s

VARIABLES
  serial,   \* clicks are served one at a time; it does not change
  day,      \* today
  row,      \* the row of the wallet in referral_clicks
  pc,       \* where each click is suspended
  entity,   \* the row it will save
  base,     \* the row its save selected
  counted   \* the clicks that were saved, with their days

vars == <<serial, day, row, pc, entity, base, counted>>

Resting == {"idle", "done"}
Row == [total_clicks : Nat, clicks_today : Nat, clicks_this_week : Nat,
        clicks_this_month : Nat, last_click_at : [day : Int, by : Click]]

\* No row, and no entity.
NoRow == [total_clicks |-> 0]

-----------------------------------------------------------------------------
(* The calendar.                                                           *)

Weekday(d) == (FirstWeekday + d) % 7

\* The start of the week of trackClick and of the click reports: its Sunday.
SundayOf(d) == d - Weekday(d)

\* The start of the week of the referral reports: its Monday.
MondayOf(d) == d - Weekday(d) + (IF Weekday(d) = 0 THEN -6 ELSE 1)

MonthOf(d) == CHOOSE s \in MonthStarts :
                /\ s <= d
                /\ \A t \in MonthStarts : t <= d => t <= s

-----------------------------------------------------------------------------
(* trackClick.                                                             *)

Init ==
  /\ serial \in BOOLEAN
  /\ day = 0
  /\ row = NoRow
  /\ pc = [c \in Click |-> "idle"]
  /\ entity = [c \in Click |-> NoRow]
  /\ base = [c \in Click |-> NoRow]
  /\ counted = {}

Goto(c, label) == pc' = [pc EXCEPT ![c] = label]

\* The request ends without a save.
Lost(c) ==
  /\ pc[c] # "idle"
  /\ pc[c] # "done"
  /\ Goto(c, "done")
  /\ UNCHANGED <<serial, day, row, entity, base, counted>>

\* The wallet of the code; there may be none.
FindWallet(c) ==
  /\ pc[c] = "idle"
  /\ serial => \A d \in Click : pc[d] \in Resting
  /\ Goto(c, "find")
  /\ UNCHANGED <<serial, day, row, entity, base, counted>>

\* A counter of a period that began on day start.
CountedSince(start, last, counter) == IF last < start THEN 1 ELSE counter + 1

\* (seeded fault) the week is taken to begin today
CountedWeekToday(stats, c) ==
  IF stats = NoRow
    THEN [total_clicks |-> 1, clicks_today |-> 1, clicks_this_week |-> 1,
          clicks_this_month |-> 1, last_click_at |-> [day |-> day, by |-> c]]
    ELSE LET last == stats.last_click_at.day
         IN  [total_clicks      |-> stats.total_clicks + 1,
              clicks_today      |-> CountedSince(day, last, stats.clicks_today),
              clicks_this_week  |-> CountedSince(day, last, stats.clicks_this_week),
              clicks_this_month |-> CountedSince(MonthOf(day), last, stats.clicks_this_month),
              last_click_at     |-> [day |-> day, by |-> c]]

\* The row with one more click, today.
Counted(stats, c) ==
  IF stats = NoRow
    THEN [total_clicks |-> 1, clicks_today |-> 1, clicks_this_week |-> 1,
          clicks_this_month |-> 1, last_click_at |-> [day |-> day, by |-> c]]
    ELSE LET last == stats.last_click_at.day
         IN  [total_clicks      |-> stats.total_clicks + 1,
              clicks_today      |-> CountedSince(day, last, stats.clicks_today),
              clicks_this_week  |-> CountedSince(SundayOf(day), last, stats.clicks_this_week),
              clicks_this_month |-> CountedSince(MonthOf(day), last, stats.clicks_this_month),
              last_click_at     |-> [day |-> day, by |-> c]]

\* The row is loaded, and the click counted in memory.
FindStats(c) ==
  /\ pc[c] = "find"
  /\ entity' = [entity EXCEPT ![c] = Counted(row, c)]
  /\ Goto(c, IF row = NoRow THEN "insert" ELSE "select")
  /\ UNCHANGED <<serial, day, row, base, counted>>

Save(c, saved) ==
  /\ row' = saved
  /\ counted' = counted \cup {entity[c].last_click_at}
  /\ Goto(c, "done")
  /\ UNCHANGED <<serial, day, entity, base>>

\* The save of a new entity; wallet_id is unique.
Insert(c) == pc[c] = "insert" /\ row = NoRow /\ Save(c, entity[c])

\* The save of a loaded entity: a SELECT, and an UPDATE of the columns in which
\* the entity differs from it.
SaveSelect(c) ==
  /\ pc[c] = "select"
  /\ base' = [base EXCEPT ![c] = row]
  /\ Goto(c, "update")
  /\ UNCHANGED <<serial, day, row, entity, counted>>

Updated(old, new, stored) ==
  [column \in DOMAIN stored |->
     IF new[column] # old[column] THEN new[column] ELSE stored[column]]

SaveUpdate(c) == pc[c] = "update" /\ Save(c, Updated(base[c], entity[c], row))

TrackClick(c) ==
  FindWallet(c) \/ FindStats(c) \/ Insert(c) \/ SaveSelect(c) \/ SaveUpdate(c) \/ Lost(c)

\* The bound of the model: LastDay.
Tomorrow ==
  /\ day < LastDay
  /\ day' = day + 1
  /\ UNCHANGED <<serial, row, pc, entity, base, counted>>

Next == Tomorrow \/ \E c \in Click : TrackClick(c)

Spec == Init /\ [][Next]_vars

-----------------------------------------------------------------------------
(* The reports, as they would answer now.                                  *)

ShownSince(start, counter) ==
  IF row # NoRow /\ row.last_click_at.day >= start THEN row[counter] ELSE 0

Shown(weekStart) ==
  [total |-> row.total_clicks,
   today |-> ShownSince(day, "clicks_today"),
   week  |-> ShownSince(weekStart, "clicks_this_week"),
   month |-> ShownSince(MonthOf(day), "clicks_this_month")]

\* What the administrators see of the clicks, of all wallets and of one.
GetClickStatistics       == Shown(SundayOf(day))
GetWalletClickStatistics == Shown(SundayOf(day))

\* The clicks in the two reports about the referrals of a wallet.
GetWalletReferralStatistics == Shown(MondayOf(day))
GetWalletDetailStatistics   == Shown(MondayOf(day))

-----------------------------------------------------------------------------
(* Properties.                                                             *)

\* Every variable has its type.
TypeOK ==
  /\ serial \in BOOLEAN
  /\ day \in 0..LastDay
  /\ row \in Row \cup {NoRow}
  /\ pc \in [Click -> Resting \cup {"find", "insert", "select", "update"}]
  /\ entity \in [Click -> Row \cup {NoRow}]
  /\ base \in [Click -> Row \cup {NoRow}]
  /\ counted \subseteq [day : 0..LastDay, by : Click]

Since(start) == Cardinality({k \in counted : k.day >= start})

Real(weekStart) ==
  [total |-> Cardinality(counted), today |-> Since(day),
   week |-> Since(weekStart), month |-> Since(MonthOf(day))]

\* However clicks overlap and fail, no report has more clicks in all than were
\* tracked.  Clicks that are served one at a time are reported exactly, whatever
\* days, weeks and months have passed since the counters were written; in the
\* reports whose week begins on Monday, as long as nobody clicked on a Sunday.
ShownClicksAreReal ==
  /\ row.total_clicks <= Cardinality(counted)
  /\ serial =>
       /\ GetClickStatistics = Real(SundayOf(day))
       /\ GetWalletClickStatistics = Real(SundayOf(day))
       /\ (\A k \in counted : Weekday(k.day) # 0) =>
            /\ GetWalletReferralStatistics = Real(MondayOf(day))
            /\ GetWalletDetailStatistics = Real(MondayOf(day))
=============================================================================
