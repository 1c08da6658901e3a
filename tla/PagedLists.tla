----------------------------- MODULE PagedLists -----------------------------
(***************************************************************************)
(* The lists that are read page by page: rows in some order, by default    *)
(* the newest first, of which a request returns a window and the number of *)
(* all.  A page is two queries, the rows and then their number, and the    *)
(* pages of one reader are requests of their own: rows are inserted, and   *)
(* enter and leave the list by their status, in between.                   *)
(***************************************************************************)
EXTENDS Naturals, Sequences, FiniteSets, SequencesExt

CONSTANTS
  Item,    \* rows of the table
  Limit,   \* rows of a page
  MaxMoves \* bound on the rows that leave or change their place

ListsAssumption == IsFiniteSet(Item) /\ Limit \in Nat \ {0} /\ MaxMoves \in Nat

VARIABLES
  list,    \* the list that is read; it does not change
  listed,  \* the rows that are in it, in its order
  fresh,   \* the rows that are not inserted yet
  page,    \* the page the reader asks for
  step,    \* the query of that page that comes next, or "end"
  length,  \* the number of rows the last query found
  stable,  \* rows that have been in the list since the first query
  seen,    \* rows the reader was shown
  left     \* how often a row left its place for one nearer the top, or the list

vars == <<list, listed, fresh, page, step, length, stable, seen, left>>

-----------------------------------------------------------------------------
(* The lists.  A row of "top" enters at the top, when it is inserted; one  *)
(* of "anywhere" enters later, when its status comes to pass the filter,   *)
(* or because another order is asked for; "leaves" says whether a listed   *)
(* row may be deleted or cease to pass, and "sorted" whether the order is  *)
(* that of a sum which changes.                                            *)

Listing(enters, leaves, sorted) == [enters |-> enters, leaves |-> leaves, sorted |-> sorted]

Newest       == Listing("top", FALSE, FALSE)
UntilItFails == Listing("top", TRUE, FALSE)
OnceItPasses == Listing("anywhere", FALSE, FALSE)
WhileItPasses == Listing("anywhere", TRUE, FALSE)

\* Administrators' lists, with their filters.
GetSwapOrderHistory == {Newest, UntilItFails, WhileItPasses}
FindAllStakes       == {Newest, UntilItFails, OnceItPasses}
FindAllWallets      == {Newest, OnceItPasses, WhileItPasses, Listing("anywhere", FALSE, TRUE)}
FindAllAdmins       == {UntilItFails}
FindAllSaleRounds   == {UntilItFails, WhileItPasses}
GetReferredWallets  == {Newest}

\* Rewards that have not failed, of a referrer or of one of its referrals.
GetReferralRewardHistory         == {UntilItFails}
FindByWalletId                   == {UntilItFails}
FindByWalletAddress              == {UntilItFails}
FindByReferrerAndReferredAddress == {UntilItFails}

\* A wallet's deposits and withdrawals that are completed.
GetDepositWithdrawHistory == {OnceItPasses}

AllLists ==
  UNION {GetSwapOrderHistory, FindAllStakes, FindAllWallets, FindAllAdmins, FindAllSaleRounds,
         GetReferredWallets, GetReferralRewardHistory, FindByWalletId, FindByWalletAddress,
         FindByReferrerAndReferredAddress, GetDepositWithdrawHistory}

-----------------------------------------------------------------------------
(* The table.                                                              *)

\* The list when the reader begins.
Init ==
  /\ list \in AllLists
  /\ fresh \in SUBSET Item
  /\ listed \in SetToSeqs(Item \ fresh)
  /\ page = 1
  /\ step = "rows"
  /\ length = 0
  /\ stable = Item \ fresh
  /\ seen = {}
  /\ left = 0

Reading == step # "end"

Enter(i) ==
  /\ Reading
  /\ i \in fresh
  /\ fresh' = fresh \ {i}
  /\ \E at \in IF list.enters = "top" THEN {1} ELSE 1..(Len(listed) + 1) :
       listed' = InsertAt(listed, at, i)
  /\ UNCHANGED <<list, page, step, length, stable, seen, left>>

\* Row i leaves its place; the bound of the model: MaxMoves.
Leaves(i) ==
  /\ Reading
  /\ i \in Range(listed)
  /\ left < MaxMoves
  /\ left' = left + 1
  /\ stable' = stable \ {i}
  /\ UNCHANGED <<list, fresh, page, step, length, seen>>

Without(i) == RemoveAt(listed, CHOOSE n \in DOMAIN listed : listed[n] = i)

Leave(i) == list.leaves /\ Leaves(i) /\ listed' = Without(i)

\* Its sum changes, and its place with it.
Shift(i) ==
  /\ list.sorted
  /\ Leaves(i)
  /\ \E at \in DOMAIN listed : listed' = InsertAt(Without(i), at, i)

-----------------------------------------------------------------------------
(* A reader.                                                               *)

Before(p) == (p - 1) * Limit

\* The window of a page: skip, and take.
Window(p) == {listed[n] : n \in DOMAIN listed \cap (Before(p) + 1)..(Before(p) + Limit)}

\* (seeded fault) totalPages is rounded down
TurnFloor(total) ==
  IF (page + 1) * Limit <= total
    THEN page' = page + 1 /\ step' = "rows"
    ELSE UNCHANGED page /\ step' = "end"

\* The reader turns the page until totalPages, Math.ceil(total / limit).
Turn(total) ==
  IF page * Limit < total
    THEN page' = page + 1 /\ step' = "rows"
    ELSE UNCHANGED page /\ step' = "end"

Rows ==
  /\ step = "rows"
  /\ seen' = seen \cup Window(page)
  /\ length' = Cardinality(Window(page))
  /\ step' = "count"
  /\ UNCHANGED <<list, listed, fresh, page, stable, left>>

\* The number of rows is another query; getManyAndCount may save it when the
\* window was not full.
Count ==
  /\ step = "count"
  /\ \/ Turn(Len(listed))
     \/ length < Limit /\ Turn(Before(page) + length)
  /\ UNCHANGED <<list, listed, fresh, length, stable, seen, left>>

Next == Rows \/ Count \/ \E i \in Item : Enter(i) \/ Leave(i) \/ Shift(i)

Spec == Init /\ [][Next]_vars

-----------------------------------------------------------------------------
(* Properties.                                                             *)

\* Every variable has its type.
TypeOK ==
  /\ list \in AllLists
  /\ Range(listed) \subseteq Item \ fresh
  /\ Cardinality(Range(listed)) = Len(listed)
  /\ page \in 1..(Cardinality(Item) + 1)
  /\ step \in {"rows", "count", "end"}
  /\ length \in 0..Limit
  /\ stable \subseteq Range(listed)
  /\ seen \subseteq Item
  /\ left \in 0..MaxMoves

\* A reader who reads to the last page misses of the rows that kept their place
\* no more than left theirs meanwhile: the rows that are inserted between two
\* pages, or between the two queries of one, push none out of sight.
PagesSkipNothing ==
  step = "end" => Cardinality(stable \ seen) <= left
=============================================================================
