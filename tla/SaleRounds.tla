----------------------------- MODULE SaleRounds -----------------------------
(***************************************************************************)
(* The token sale rounds: the admin's TokenSaleRoundService creates,       *)
(* changes and removes them, and both it and the public service of that    *)
(* name sum up what was sold in them.  A writer looks at the other rounds  *)
(* of the coin and writes afterwards; a summary asks the database round    *)
(* by round while rounds and sales change.                                 *)
(*                                                                         *)
(* Times are small numbers.  A sale is a completed swap order or a paid    *)
(* reward; a summary counts sales where the code also adds their amounts.  *)
(* A call of the repository that throws ends the request with nothing      *)
(* changed, as one that never returns does, and is left out.               *)
(***************************************************************************)
EXTENDS Integers, FiniteSets

CONSTANTS
  Create, Update, Remove, \* the admin's requests; a round is named by its Create
  Overview,               \* summaries of the admin
  Public,                 \* summaries of the public service
  Sale,                   \* [id, coin, kind, at]: what is sold, and created when
  Coin, Time, None,
  Environments            \* what may happen in a behaviour: one of these, throughout

Summary == Overview \cup Public
Writer  == Create \cup Update \cup Remove
Request == Writer \cup Summary
Kind    == {"order", "reward"}

TimeAssumption == Time \subseteq Nat \ {0} /\ None \notin Coin
SaleAssumption == \A s \in Sale : s.coin \in Coin /\ s.kind \in Kind /\ s.at \in Time
EnvironmentsAssumption ==
  Environments \subseteq
    [requests : SUBSET Request,              \* those that may be made
     coins    : SUBSET Coin,                 \* the coins they name
     serial   : {"none", "writers", "all"},  \* which of them wait for each other
     recoin   : BOOLEAN]  \* may an update change a coin and leave the times alone?

VARIABLES
  env,      \* the environment of the behaviour
  sold,     \* the sales that are completed or paid
  rounds,   \* the token_sale_rounds table
  pc,       \* where each request is suspended
  local,    \* what each request holds until it returns
  counted   \* the sales a summary has counted, by coin

moving == <<sold, rounds, pc, local, counted>>
vars   == <<env, moving>>

\* The columns that matter, 0 and None where an update gives none.
Row   == [coin : Coin \cup {None}, start : Time \cup {0}, end : Time \cup {0}]
NoRow == [coin |-> None, start |-> 0, end |-> 0]

\* The round a request is about, the columns an update gives, the entity in hand,
\* the row the SELECT of a save found, and the rounds a summary has yet to count.
NoLocals == [target |-> None, dto |-> NoRow, entity |-> NoRow, base |-> NoRow,
             left |-> <<>>]

Existing == {r \in Create : rounds[r] # NoRow}

Init ==
  /\ env \in Environments
  /\ sold = {}
  /\ rounds = [r \in Create |-> NoRow]
  /\ pc = [q \in Request |-> "idle"]
  /\ local = [q \in Request |-> NoLocals]
  /\ counted = [s \in Summary |-> [c \in Coin |-> 0]]

\* A request suspends itself with what it holds, or returns.
Suspend(q, label, locals) ==
  /\ pc' = [pc EXCEPT ![q] = label]
  /\ local' = [local EXCEPT ![q] = locals]

Return(q) == Suspend(q, "done", NoLocals)

Underway(requests) == \E q \in requests : pc[q] \notin {"idle", "done"}

Start(q) ==
  /\ q \in env.requests
  /\ pc[q] = "idle"
  /\ env.serial = "all" => ~Underway(Request)
  /\ env.serial = "writers" /\ q \in Writer => ~Underway(Writer)

-----------------------------------------------------------------------------
(* The writers.                                                            *)

\* (seeded fault) rounds that share only an instant do not overlap
OverlapsStrict(new, old) ==
  \/ old.start <= new.start /\ new.start < old.end
  \/ old.start < new.end /\ new.end <= old.end
  \/ new.start <= old.start /\ old.end <= new.end

\* The three comparisons of create and update.  No check asks that a round
\* starts before it ends.
Overlaps(new, old) ==
  \/ old.start <= new.start /\ new.start <= old.end
  \/ old.start <= new.end /\ new.end <= old.end
  \/ new.start <= old.start /\ old.end <= new.end

\* The rounds of its coin that new would overlap, itself not counted.
Conflicts(new, self) ==
  {r \in Existing \ {self} : rounds[r].coin = new.coin /\ Overlaps(new, rounds[r])}

\* create finds the rounds of the coin and compares ...
CreateFind(c) ==
  /\ Start(c)
  /\ \E coin \in env.coins, start, end \in Time :
       LET new == [coin |-> coin, start |-> start, end |-> end]
       IN  \/ Conflicts(new, c) = {} /\ Suspend(c, "insert", [NoLocals EXCEPT !.entity = new])
           \/ Conflicts(new, c) # {} /\ Return(c)
  /\ UNCHANGED <<sold, rounds, counted>>

\* ... and inserts.
CreateInsert(c) ==
  /\ pc[c] = "insert"
  /\ rounds' = [rounds EXCEPT ![c] = local[c].entity]
  /\ Return(c)
  /\ UNCHANGED <<sold, counted>>

\* The row with the columns of the dto that are given.
Given(row, d) ==
  [coin  |-> IF d.coin = None THEN row.coin ELSE d.coin,
   start |-> IF d.start = 0 THEN row.start ELSE d.start,
   end   |-> IF d.end = 0 THEN row.end ELSE d.end]

\* update loads the round; it compares only when a time is given.
UpdateLoad(u) ==
  /\ Start(u)
  /\ \E r \in Create, d \in Row :
       LET timed == d.start # 0 \/ d.end # 0
           held  == [NoLocals EXCEPT !.target = r, !.dto = d, !.entity = rounds[r]]
       IN  /\ d.coin \in env.coins \cup {None}
           /\ timed \/ d.coin = None \/ env.recoin
           /\ \/ r \notin Existing /\ Return(u)
              \/ r \in Existing /\ timed /\ Suspend(u, "others", held)
              \/ r \in Existing /\ ~timed /\ Suspend(u, "select", held)
  /\ UNCHANGED <<sold, rounds, counted>>

\* The comparison with the other rounds of the coin, old or new.
UpdateOthers(u) ==
  /\ pc[u] = "others"
  /\ LET conflicts == Conflicts(Given(local[u].entity, local[u].dto), local[u].target)
     IN  \/ conflicts = {} /\ Suspend(u, "select", local[u])
         \/ conflicts # {} /\ Return(u)
  /\ UNCHANGED <<sold, rounds, counted>>

\* The columns are assigned; the save selects the row ...
UpdateSelect(u) ==
  /\ pc[u] = "select"
  /\ Suspend(u, "save", [local[u] EXCEPT !.entity = Given(@, local[u].dto),
                                         !.base = rounds[local[u].target]])
  /\ UNCHANGED <<sold, rounds, counted>>

\* What an UPDATE of the columns in which the entity differs from the base makes
\* of a row.
Updated(row, e, b) ==
  [coin  |-> IF e.coin # b.coin THEN e.coin ELSE row.coin,
   start |-> IF e.start # b.start THEN e.start ELSE row.start,
   end   |-> IF e.end # b.end THEN e.end ELSE row.end]

\* ... and updates it, if it is still there, or inserts it again when the SELECT
\* no longer found it and nobody else has.
UpdateSave(u) ==
  /\ pc[u] = "save"
  /\ LET r    == local[u].target
         e    == local[u].entity
         base == local[u].base
     IN  IF (base = NoRow) = (r \in Existing)
           THEN UNCHANGED rounds
           ELSE rounds' = [rounds EXCEPT ![r] = IF base = NoRow THEN e ELSE Updated(@, e, base)]
  /\ Return(u)
  /\ UNCHANGED <<sold, counted>>

\* remove loads the round, and throws when there is none ...
RemoveFind(d) ==
  /\ Start(d)
  /\ \E r \in Create :
       \/ r \in Existing /\ Suspend(d, "delete", [NoLocals EXCEPT !.target = r])
       \/ r \notin Existing /\ Return(d)
  /\ UNCHANGED <<sold, rounds, counted>>

\* ... and deletes it.
RemoveDelete(d) ==
  /\ pc[d] = "delete"
  /\ rounds' = [rounds EXCEPT ![local[d].target] = NoRow]
  /\ Return(d)
  /\ UNCHANGED <<sold, counted>>

-----------------------------------------------------------------------------
(* The summaries.                                                          *)

\* The status of a round, which no column keeps.
Status(row, now) == CASE now < row.start -> "upcoming"
                      [] row.start <= now /\ now <= row.end -> "ongoing"
                      [] OTHER -> "ended"

\* The next round to count: the admin's summary takes it as it read it at the
\* start, the public one reads it again.  In which order does not matter.
NextRound(s, left) ==
  \/ left = <<>> /\ Return(s)
  \/ \E r \in DOMAIN left :
       Suspend(s, IF s \in Overview THEN "order" ELSE "load",
               [NoLocals EXCEPT !.target = r, !.entity = left[r], !.left = left])

\* All rounds are read; the public service keeps those of the status it is asked
\* for, if any, at the time of its clock.
SummaryFind(s) ==
  /\ Start(s)
  /\ \/ NextRound(s, [r \in Existing |-> rounds[r]])
     \/ /\ s \in Public
        /\ \E wanted \in {"upcoming", "ongoing", "ended"}, now \in Time :
             NextRound(s, [r \in {r \in Existing : Status(rounds[r], now) = wanted} |-> rounds[r]])
  /\ UNCHANGED <<sold, rounds, counted>>

\* getTokenSaleStatistics finds the round again, and throws when it is gone.
SummaryLoad(s) ==
  /\ pc[s] = "load"
  /\ LET r == local[s].target
     IN  \/ r \in Existing /\ Suspend(s, "order", [local[s] EXCEPT !.entity = rounds[r]])
         \/ r \notin Existing /\ Return(s)
  /\ UNCHANGED <<sold, rounds, counted>>

\* The sales of one kind that the query for a round counts.
Counts(row, kind) ==
  {s \in sold : s.kind = kind /\ s.coin = row.coin /\ row.start <= s.at /\ s.at <= row.end}

\* Two queries for each round, one for each kind of sale.
SummaryCount(s, kind) ==
  LET row  == local[s].entity
      left == local[s].left
  IN  /\ pc[s] = kind
      /\ counted' = [counted EXCEPT ![s][row.coin] = @ + Cardinality(Counts(row, kind))]
      /\ \/ kind = "order" /\ Suspend(s, "reward", local[s])
         \/ /\ kind = "reward"
            /\ NextRound(s, [r \in DOMAIN left \ {local[s].target} |-> left[r]])
      /\ UNCHANGED <<sold, rounds>>

-----------------------------------------------------------------------------
(* The sales, and everything together.                                     *)

\* A swap order is completed, or a reward paid, some time after its creation.
Sell(s) ==
  /\ s \in Sale \ sold
  /\ sold' = sold \cup {s}
  /\ UNCHANGED <<rounds, pc, local, counted>>

Next ==
  /\ UNCHANGED env
  /\ \/ \E c \in Create : CreateFind(c) \/ CreateInsert(c)
     \/ \E u \in Update : UpdateLoad(u) \/ UpdateOthers(u) \/ UpdateSelect(u) \/ UpdateSave(u)
     \/ \E d \in Remove : RemoveFind(d) \/ RemoveDelete(d)
     \/ \E s \in Summary : SummaryFind(s) \/ SummaryLoad(s)
     \/ \E s \in Summary, kind \in Kind : SummaryCount(s, kind)
     \/ \E s \in Sale : Sell(s)

Spec == Init /\ [][Next]_vars

-----------------------------------------------------------------------------
(* Properties.                                                             *)

\* Every variable has its type.
TypeOK ==
  /\ env \in Environments
  /\ sold \subseteq Sale
  /\ rounds \in [Create -> Row]
  /\ pc \in [Request -> {"idle", "insert", "others", "select", "save", "delete",
                         "load", "order", "reward", "done"}]
  /\ \A q \in Request :
       /\ local[q].target \in Create \cup {None}
       /\ {local[q].dto, local[q].entity, local[q].base} \subseteq Row
       /\ DOMAIN local[q].left \subseteq Create
  /\ counted \in [Summary -> [Coin -> Nat]]

\* A sale is counted at most once by a summary, because rounds of one coin have
\* no instant in common: as long as rounds are written one at a time and a coin
\* is only changed together with a time.  The admin's summary may overlap the
\* writes, for it reads all rounds at once; the public one reads each round
\* again, and may not.
SummaryCountsOnce ==
  \A s \in Summary :
    /\ ~env.recoin
    /\ env.serial = "all" \/ (env.serial = "writers" /\ s \in Overview)
    => \A c \in Coin :
         counted[s][c] <= Cardinality({x \in sold : x.coin = c})
=============================================================================
