----------------------- MODULE ReferralRewardsProofs -----------------------
(***************************************************************************)
(* Theorems about ReferralRewards for any sets of calls, notifications and *)
(* wallets, and any environment; and about AuthorityMonitor, for any       *)
(* callbacks and rewards.  The second component is an instance, whose      *)
(* variables are its own; Rewards joins the types of both with those of    *)
(* Statistics.                                                             *)
(***************************************************************************)
EXTENDS Rewards, ReportProofs

Loop == {"paid", "paidUpdate", "mark", "markUpdate"}

\* A reward that exists is for a referrer, and what a handler has in memory exists.
Existing ==
  /\ \A r \in Reward : rows[r].status # "none" => WalletOf(r) \in Wallet
  /\ \A h \in Handler, r \in Reward : held[h][r].status # "none" => rows[r].status # "none"

\* Where a handler is says which wallet and token it pays and whether it is saving.
PlacedOf(h) ==
  /\ h \in Notice => /\ pc[h] \in Resting \cup {"send"} \cup Loop
                     /\ pc[h] # "idle" => job[h].token = "SOL"
  /\ (h \in Call /\ pc[h] \notin Resting) => job[h].wallet = Referrer[SwapOf[h]]
  /\ (pc[h] \in Loop \/ (h \in Call /\ pc[h] \notin Resting)) => job[h].wallet \in Wallet
  /\ left[h] # {} => pc[h] \in Loop \cup {"refind"}
  /\ saving[h] # {} => pc[h] \in {"paidUpdate", "markUpdate"}
  /\ left[h] \subseteq Group(h)
  /\ \A s \in saving[h] : s.reward \in Group(h) /\ s.reward \notin left[h]
  /\ \A s, t \in saving[h] : s = t

Placed == \A h \in Handler : PlacedOf(h)

TypeInv == TypeOK /\ Existing /\ Placed

LEMMA RewardParts ==
  /\ \A r \in Reward : r[1] \in Call /\ r[2] \in Token /\ WalletOf(r) \in Wallet \cup {None}
  /\ \A c \in Call, t \in Token : /\ <<c, t>> \in Reward
                                  /\ WalletOf(<<c, t>>) = Referrer[SwapOf[c]]
  /\ \A r, s \in Reward : r[1] = s[1] /\ r[2] = s[2] => r = s
  /\ \A c \in Call : Referrer[SwapOf[c]] \in Wallet \cup {None}
BY ReferrerAssumption DEF Reward, WalletOf

LEMMA RowTypes ==
  /\ NoRow \in Row /\ NoRow.status = "none" /\ NoRow.tx_hash = None
  /\ PendingRow \in Row /\ PendingRow.status = "pending" /\ PendingRow.tx_hash = None
BY DEF NoRow, PendingRow, Row, Status

LEMMA NoCopiesType ==
  /\ NoCopies \in [Reward -> Row]
  /\ \A r \in Reward : NoCopies[r] = NoRow
BY RowTypes DEF NoCopies

\* What a find takes into memory.
LEMMA CopiesType ==
  ASSUME TypeOK, NEW S
  PROVE  /\ Copies(S) \in [Reward -> Row]
         /\ \A r \in Reward : Copies(S)[r] = IF r \in S THEN rows[r] ELSE NoRow
BY RowTypes DEF Copies, TypeOK

\* What stays in memory when a group is dealt with.
LEMMA OthersType ==
  ASSUME TypeOK, NEW h \in Handler
  PROVE  /\ Others(h) \in [Reward -> Row]
         /\ \A r \in Reward : Others(h)[r] = IF r \in Group(h) THEN NoRow ELSE held[h][r]
BY RowTypes DEF Others, TypeOK

\* What an UPDATE leaves in the row, column by column.
LEMMA UpdatedColumns ==
  ASSUME NEW r, NEW n, NEW b
  PROVE  /\ Updated(r, n, b).status = IF n.status # b.status THEN n.status ELSE r.status
         /\ Updated(r, n, b).tx_hash = IF n.tx_hash # b.tx_hash THEN n.tx_hash ELSE r.tx_hash
         /\ r \in Row /\ n \in Row => Updated(r, n, b) \in Row
         /\ r \in Row /\ n \in Row /\ r = b => Updated(r, n, b) = n
BY DEF Updated, Row

-----------------------------------------------------------------------------
(* What each step does, handler by handler.                                *)

\* The step is one of h: the other handlers stay as they are.
OnlyOf(h) ==
  \A g \in Handler \ {h} :
    /\ pc'[g] = pc[g] /\ job'[g] = job[g] /\ held'[g] = held[g]
    /\ left'[g] = left[g] /\ saving'[g] = saving[g]
    /\ g \in rent' <=> g \in rent

\* The table, the ledger and the restarts stay.
Outside == rows' = rows /\ ledger' = ledger /\ crashes' = crashes

\* The handler has dropped its group, or everything, and is not saving.
Dropped(h) ==
  /\ left'[h] = {} /\ saving'[h] = {}
  /\ job'[h].wallet = job[h].wallet
  /\ \/ h \in Call /\ job[h].token = "MMP" /\ job'[h].token = "SOL" /\ pc'[h] = "find"
     \/ job'[h].token = job[h].token /\ pc'[h] = "done"
     \/ h \in Notice /\ job'[h].token = job[h].token /\ pc'[h] = "send"
  /\ \A r \in Reward : \/ held'[h][r] = NoRow
                       \/ r \notin Group(h) /\ held'[h][r] = held[h][r]

LEMMA NextGroupSteps ==
  ASSUME TypeOK, NEW h \in Handler, NextGroup(h)
  PROVE  /\ \A g \in Handler \ {h} :
              /\ pc'[g] = pc[g] /\ job'[g] = job[g] /\ held'[g] = held[g]
              /\ left'[g] = left[g] /\ saving'[g] = saving[g]
         /\ Dropped(h)
         /\ pc' \in [Handler -> Label] /\ job' \in [Handler -> Job]
         /\ held' \in [Handler -> [Reward -> Row]]
         /\ left' \in [Handler -> SUBSET Reward]
         /\ saving' \in [Handler -> SUBSET [reward : Reward, base : Row]]
<1> USE OthersType, HandlersAssumption DEF NextGroup, TypeOK, Goto
<1>1. /\ held' = [held EXCEPT ![h] = Others(h)] /\ held' \in [Handler -> [Reward -> Row]]
      /\ left' = [left EXCEPT ![h] = {}] /\ left' \in [Handler -> SUBSET Reward]
      /\ saving' = [saving EXCEPT ![h] = {}]
      /\ saving' \in [Handler -> SUBSET [reward : Reward, base : Row]]
  OBVIOUS
<1>2. /\ pc' \in [Handler -> Label]
      /\ \A g \in Handler \ {h} : pc'[g] = pc[g]
  BY DEF Label, Resting
<1>3. ASSUME h \in Call, job[h].token = "MMP"
      PROVE  /\ job' \in [Handler -> Job] /\ \A g \in Handler \ {h} : job'[g] = job[g]
             /\ job'[h].wallet = job[h].wallet /\ job'[h].token = "SOL" /\ pc'[h] = "find"
  BY <1>3 DEF Job, Token
<1>4. ASSUME ~(h \in Call /\ job[h].token = "MMP")
      PROVE  job' = job /\ (pc'[h] = "done" \/ (h \in Notice /\ pc'[h] = "send"))
  BY <1>4 DEF Handler
<1> QED
  BY <1>1, <1>2, <1>3, <1>4 DEF Dropped

\* The entities and loops of all handlers, and the errors, stay.
Memory == held' = held /\ left' = left /\ saving' = saving /\ rent' = rent

LEMMA LookupSteps ==
  ASSUME TypeOK, NEW c \in Call, CreateLookup(c)
  PROVE  /\ OnlyOf(c) /\ Outside /\ Memory /\ pc[c] = "idle"
         /\ Serial => \A d \in Call : Referrer[SwapOf[d]] = Referrer[SwapOf[c]]
                                        => pc[d] \in Resting
         /\ \/ /\ Referrer[SwapOf[c]] # None /\ job'[c].wallet = Referrer[SwapOf[c]]
               /\ job'[c].token = job[c].token /\ pc'[c] = "exists"
            \/ job'[c] = job[c] /\ pc'[c] = "done"
BY DEF CreateLookup, OnlyOf, Outside, Memory, Goto, TypeOK, Job, Handler

LEMMA ExistsSteps ==
  ASSUME TypeOK, NEW c \in Call, CreateExists(c)
  PROVE  /\ OnlyOf(c) /\ Outside /\ Memory /\ job' = job /\ pc[c] = "exists"
         /\ \/ /\ pc'[c] = "insertOutput"
               /\ \A r \in Reward : SwapOf[r[1]] = SwapOf[c] => rows[r].status = "none"
            \/ pc'[c] = "done"
BY DEF CreateExists, OnlyOf, Outside, Memory, Goto, TypeOK, Handler

LEMMA InsertSteps ==
  ASSUME TypeOK, NEW c \in Call, NEW label, NEW token \in Token, NEW next,
         CreateInsert(c, label, token, next)
  PROVE  /\ OnlyOf(c) /\ Memory /\ job' = job /\ ledger' = ledger /\ pc[c] = label
         /\ \/ pc'[c] = next /\ rows' = [rows EXCEPT ![<<c, token>>] = PendingRow]
            \/ pc'[c] = "done" /\ rows' = rows
BY DEF CreateInsert, OnlyOf, Memory, Goto, TypeOK, Handler

LEMMA ThresholdSteps ==
  ASSUME TypeOK, NEW c \in Call, CheckThreshold(c)
  PROVE  /\ OnlyOf(c) /\ Outside /\ Memory /\ job' = job /\ pc[c] = "threshold"
         /\ pc'[c] \in {"find", "done"}
BY DEF CheckThreshold, OnlyOf, Outside, Memory, Goto, TypeOK, Handler

\* An error: a call finds again, a notification marks its group.
Failed(h) ==
  /\ saving'[h] = {}
  /\ \/ h \in Call /\ pc'[h] = "refind" /\ left'[h] = left[h]
     \/ h \in Notice /\ pc'[h] = "mark" /\ left'[h] = Group(h)

LEMMA FailSteps ==
  ASSUME TypeOK, NEW h \in Handler, NEW b \in BOOLEAN, Fail(h, b)
  PROVE  /\ Failed(h) /\ (h \in rent' <=> b)
         /\ \A g \in Handler \ {h} :
              /\ pc'[g] = pc[g] /\ left'[g] = left[g] /\ saving'[g] = saving[g]
              /\ g \in rent' <=> g \in rent
         /\ pc' \in [Handler -> Label] /\ left' \in [Handler -> SUBSET Reward]
         /\ saving' \in [Handler -> SUBSET [reward : Reward, base : Row]]
         /\ rent' \subseteq Handler
<1>1. /\ saving'[h] = {} /\ (h \in rent' <=> b) /\ rent' \subseteq Handler
      /\ saving' \in [Handler -> SUBSET [reward : Reward, base : Row]]
      /\ \A g \in Handler \ {h} : saving'[g] = saving[g] /\ (g \in rent' <=> g \in rent)
  BY DEF Fail, TypeOK
<1>2. CASE h \in Call
  BY <1>1, <1>2 DEF Fail, Failed, Goto, TypeOK, Label, Resting
<1>3. CASE h \notin Call
  <2>1. h \in Notice /\ Group(h) \subseteq Reward
    BY <1>3 DEF Handler, Group
  <2> QED
    BY <1>1, <1>3, <2>1 DEF Fail, Failed, Goto, TypeOK, Label, Resting
<1> QED
  BY <1>2, <1>3

\* The pending rewards are taken into memory.
TakesPending(c) ==
  /\ held'[c] \in [Reward -> Row] /\ saving'[c] = saving[c] /\ job'[c] = job[c]
  /\ \A r \in Reward : held'[c][r] = IF r \in PendingOf(c) THEN rows[r] ELSE NoRow

LEMMA FindSteps ==
  ASSUME TypeOK, NEW c \in Call, FindPending(c)
  PROVE  /\ OnlyOf(c) /\ Outside /\ pc[c] = "find"
         /\ \/ TakesPending(c) /\ left'[c] = left[c] /\ pc'[c] = "send" /\ rent' = rent
            \/ Dropped(c) /\ rent' = rent
            \/ DbFaults /\ Failed(c) /\ held'[c] = held[c] /\ job'[c] = job[c]
<1>0. c \in Handler
  BY DEF Handler
<1>1. CASE /\ PendingOf(c) # {}
           /\ held' = [held EXCEPT ![c] = Copies(PendingOf(c))]
           /\ Goto(c, "send")
           /\ UNCHANGED <<job, left, saving, rent>>
  BY <1>0, <1>1, CopiesType DEF FindPending, OnlyOf, Outside, TakesPending, Goto, TypeOK
<1>2. CASE NextGroup(c) /\ UNCHANGED rent
  BY <1>0, <1>2, NextGroupSteps DEF FindPending, OnlyOf, Outside
<1>3. CASE DbFaults /\ Fail(c, FALSE) /\ UNCHANGED <<job, held>>
  BY <1>0, <1>3, FailSteps DEF FindPending, OnlyOf, Outside
<1> QED
  BY <1>1, <1>2, <1>3 DEF FindPending

LEMMA RefindSteps ==
  ASSUME TypeOK, NEW c \in Call, Refind(c)
  PROVE  /\ OnlyOf(c) /\ Outside /\ rent' = rent /\ pc[c] = "refind"
         /\ \/ TakesPending(c) /\ left'[c] = PendingOf(c) /\ pc'[c] = "mark"
            \/ Dropped(c) /\ (PendingOf(c) = {} \/ DbFaults)
<1>0. c \in Handler
  BY DEF Handler
<1>1. CASE /\ PendingOf(c) # {}
           /\ held' = [held EXCEPT ![c] = Copies(PendingOf(c))]
           /\ left' = [left EXCEPT ![c] = PendingOf(c)]
           /\ Goto(c, "mark")
           /\ UNCHANGED <<job, saving>>
  BY <1>0, <1>1, CopiesType DEF Refind, OnlyOf, Outside, TakesPending, Goto, TypeOK
<1>2. CASE (PendingOf(c) = {} \/ DbFaults) /\ NextGroup(c)
  BY <1>0, <1>2, NextGroupSteps DEF Refind, OnlyOf, Outside
<1> QED
  BY <1>1, <1>2 DEF Refind

HashOf(h) == [by |-> h, wallet |-> job[h].wallet, token |-> job[h].token]

LEMMA SendSteps ==
  ASSUME TypeOK, NEW h \in Handler, SendToReferrer(h)
  PROVE  /\ OnlyOf(h) /\ rows' = rows /\ crashes' = crashes /\ job' = job /\ held' = held
         /\ \/ ledger' = ledger \cup {[hash |-> HashOf(h), rewards |-> Group(h)]}
            \/ ledger' = ledger /\ (Failed(h) \/ ChainErrors)
         /\ \/ /\ pc'[h] = "paid" /\ left'[h] = Group(h)
               /\ saving'[h] = saving[h] /\ rent' = rent
            \/ Failed(h) /\ (h \notin rent' \/ ledger' = ledger)
<1>0. Group(h) \subseteq Reward
  BY DEF Group
<1> DEFINE Sends == ledger' = ledger \cup {[hash |-> HashOf(h), rewards |-> Group(h)]}
<1>1. CASE /\ Sends \/ (ChainErrors /\ ledger' = ledger)
           /\ Goto(h, "paid") /\ left' = [left EXCEPT ![h] = Group(h)]
           /\ UNCHANGED <<rent, saving>>
  BY <1>0, <1>1 DEF SendToReferrer, OnlyOf, Goto, TypeOK
<1>2. CASE Sends /\ Fail(h, FALSE)
  BY <1>2, FailSteps DEF SendToReferrer, OnlyOf
<1>3. ASSUME NEW b \in BOOLEAN, Fail(h, b), ledger' = ledger
      PROVE  /\ OnlyOf(h) /\ Failed(h)
  BY <1>3, FailSteps DEF SendToReferrer, OnlyOf
<1>4. rows' = rows /\ crashes' = crashes /\ job' = job /\ held' = held
  BY DEF SendToReferrer
<1>5. \/ /\ Sends \/ (ChainErrors /\ ledger' = ledger)
         /\ Goto(h, "paid") /\ left' = [left EXCEPT ![h] = Group(h)]
         /\ UNCHANGED <<rent, saving>>
      \/ Sends /\ Fail(h, FALSE)
      \/ \E b \in BOOLEAN : Fail(h, b) /\ ledger' = ledger
  BY DEF SendToReferrer, HashOf
<1> QED
  BY <1>1, <1>2, <1>3, <1>4, <1>5

\* The entity of r in memory is changed to x.
Changes(h, r, x) ==
  /\ held'[h] \in [Reward -> Row] /\ held'[h][r] = x
  /\ \A q \in Reward \ {r} : held'[h][q] = held[h][q]

\* r is the reward h goes on to save.
Selects(h, r) ==
  /\ left'[h] = left[h] \ {r} /\ job'[h] = job[h]
  /\ saving'[h] = {[reward |-> r, base |-> rows[r]]}
  /\ h \in rent' <=> h \in rent

LEMMA PaidSelectSteps ==
  ASSUME TypeInv, NEW h \in Handler, PaidSelect(h)
  PROVE  /\ OnlyOf(h) /\ Outside /\ job' = job /\ pc[h] = "paid"
         /\ HashOf(h) \in Hash
         /\ \E r \in left[h] :
              /\ r \in Reward
              /\ Changes(h, r, [status |-> "paid", tx_hash |-> HashOf(h)])
              /\ \/ Selects(h, r) /\ pc'[h] = "paidUpdate"
                 \/ DbFaults /\ Failed(h) /\ h \notin rent'
<1>1. pc[h] = "paid" /\ Outside /\ job' = job
  BY DEF PaidSelect, Outside
<1>2. HashOf(h) \in Hash
  BY <1>1 DEF HashOf, Hash, TypeInv, Placed, PlacedOf, Loop, TypeOK, Job
<1>3. PICK r \in left[h] :
        /\ held' = [held EXCEPT ![h][r] = [status |-> "paid", tx_hash |-> HashOf(h)]]
        /\ \/ /\ left' = [left EXCEPT ![h] = @ \ {r}]
              /\ saving' = [saving EXCEPT ![h] = {[reward |-> r, base |-> rows[r]]}]
              /\ Goto(h, "paidUpdate")
              /\ UNCHANGED rent
           \/ DbFaults /\ Fail(h, FALSE)
  BY DEF PaidSelect, HashOf
<1>4. r \in Reward /\ TypeOK
  BY DEF TypeInv, TypeOK
<1>5. [status |-> "paid", tx_hash |-> HashOf(h)] \in Row
  BY <1>2 DEF Row, Status
<1>6. /\ Changes(h, r, [status |-> "paid", tx_hash |-> HashOf(h)])
      /\ \A g \in Handler \ {h} : held'[g] = held[g]
  BY <1>3, <1>4, <1>5 DEF Changes, TypeOK
<1>7. CASE /\ left' = [left EXCEPT ![h] = @ \ {r}]
           /\ saving' = [saving EXCEPT ![h] = {[reward |-> r, base |-> rows[r]]}]
           /\ Goto(h, "paidUpdate")
           /\ UNCHANGED rent
  BY <1>1, <1>2, <1>4, <1>6, <1>7 DEF Selects, OnlyOf, Goto, TypeOK
<1>8. CASE DbFaults /\ Fail(h, FALSE)
  BY <1>1, <1>2, <1>4, <1>6, <1>8, FailSteps DEF OnlyOf
<1> QED
  BY <1>3, <1>7, <1>8

\* Nothing is left in memory.
Abandoned(h) ==
  /\ left'[h] = {} /\ saving'[h] = {} /\ pc'[h] = "done" /\ job'[h] = job[h]
  /\ held'[h] \in [Reward -> Row] /\ \A r \in Reward : held'[h][r] = NoRow

LEMMA MarkSelectSteps ==
  ASSUME TypeInv, NEW h \in Handler, MarkSelect(h)
  PROVE  /\ OnlyOf(h) /\ Outside /\ rent' = rent /\ pc[h] = "mark"
         /\ \/ \E r \in left[h] :
                 /\ r \in Reward
                 /\ Changes(h, r, [held[h][r] EXCEPT !.status = UnpaidStatus(h, r)])
                 /\ Selects(h, r) /\ pc'[h] = "markUpdate"
            \/ DbFaults /\ Dropped(h)
            \/ DbFaults /\ Abandoned(h)
<1>0. pc[h] = "mark" /\ Outside /\ rent' = rent /\ TypeOK
  BY DEF MarkSelect, Outside, TypeInv
<1>1. ASSUME NEW r \in left[h],
             held' = [held EXCEPT ![h][r].status = UnpaidStatus(h, r)],
             left' = [left EXCEPT ![h] = @ \ {r}],
             saving' = [saving EXCEPT ![h] = {[reward |-> r, base |-> rows[r]]}],
             Goto(h, "markUpdate"), UNCHANGED job
      PROVE  /\ OnlyOf(h) /\ r \in Reward
             /\ Changes(h, r, [held[h][r] EXCEPT !.status = UnpaidStatus(h, r)])
             /\ Selects(h, r) /\ pc'[h] = "markUpdate"
  <2>1. r \in Reward /\ held[h] \in [Reward -> Row] /\ held[h][r] \in Row
    BY <1>0 DEF TypeOK
  <2>2. [held[h][r] EXCEPT !.status = UnpaidStatus(h, r)] \in Row
    BY <2>1 DEF UnpaidStatus, Row, Status
  <2>3. held' = [held EXCEPT ![h] = [held[h] EXCEPT ![r] =
                   [held[h][r] EXCEPT !.status = UnpaidStatus(h, r)]]]
    BY <1>1
  <2>4. /\ Changes(h, r, [held[h][r] EXCEPT !.status = UnpaidStatus(h, r)])
        /\ \A g \in Handler \ {h} : held'[g] = held[g]
    BY <1>0, <2>1, <2>2, <2>3 DEF Changes, TypeOK
  <2> QED
    BY <1>0, <1>1, <2>1, <2>4 DEF Selects, OnlyOf, Goto, TypeOK
<1>2. CASE DbFaults /\ NextGroup(h)
  BY <1>0, <1>2, NextGroupSteps DEF OnlyOf
<1>3. CASE DbFaults /\ Abandon(h) /\ UNCHANGED job
  BY <1>0, <1>3, NoCopiesType DEF Abandon, Abandoned, OnlyOf, Goto, TypeOK
<1> QED
  BY <1>0, <1>1, <1>2, <1>3 DEF MarkSelect

\* The row of r is updated from the copy of h.
Writes(h, s) ==
  /\ rows' \in [Reward -> Row]
  /\ rows'[s.reward] = Updated(rows[s.reward], held[h][s.reward], s.base)
  /\ \A r \in Reward \ {s.reward} : rows'[r] = rows[r]

LEMMA SaveUpdateSteps ==
  ASSUME TypeInv, NEW h \in Handler, NEW loop, SaveUpdate(h, loop)
  PROVE  /\ OnlyOf(h) /\ ledger' = ledger /\ crashes' = crashes /\ rent' = rent
         /\ \E s \in saving[h] : s.reward \in Reward /\ s.base \in Row /\ Writes(h, s)
         /\ \/ Dropped(h) /\ left[h] = {}
            \/ /\ pc'[h] = loop /\ saving'[h] = {} /\ left'[h] = left[h]
               /\ job'[h] = job[h] /\ held'[h] = held[h]
<1>0. TypeOK /\ ledger' = ledger /\ crashes' = crashes /\ rent' = rent
  BY DEF SaveUpdate, TypeInv
<1>1. PICK s \in saving[h] :
        rows' = [rows EXCEPT ![s.reward] = Updated(rows[s.reward], held[h][s.reward], s.base)]
  BY DEF SaveUpdate
<1>2. s.reward \in Reward /\ s.base \in Row /\ rows[s.reward] \in Row /\ held[h][s.reward] \in Row
  BY <1>0 DEF TypeOK
<1>3. Writes(h, s)
  BY <1>0, <1>1, <1>2, UpdatedColumns DEF Writes, TypeOK
<1>4. CASE left[h] = {} /\ NextGroup(h)
  BY <1>0, <1>2, <1>3, <1>4, NextGroupSteps DEF OnlyOf
<1>5. CASE /\ Goto(h, loop)
           /\ saving' = [saving EXCEPT ![h] = {}]
           /\ UNCHANGED <<job, held, left>>
  BY <1>0, <1>2, <1>3, <1>5 DEF OnlyOf, Goto, TypeOK
<1> QED
  BY <1>4, <1>5 DEF SaveUpdate

LEMMA NoticeFindSteps ==
  ASSUME TypeOK, NEW n \in Notice, NoticeFind(n)
  PROVE  /\ OnlyOf(n) /\ Outside /\ rent' = rent /\ pc[n] = "idle"
         /\ left' = left /\ saving' = saving
         /\ Serial => \A m \in Notice : pc[m] \in Resting
         /\ held'[n] \in [Reward -> Row]
         /\ \A r \in Reward : held'[n][r] = IF r \in Waiting THEN rows[r] ELSE NoRow
         /\ job'[n].token = "SOL" /\ pc'[n] \in {"send", "done"}
BY CopiesType DEF NoticeFind, OnlyOf, Outside, Goto, TypeOK, Handler, Job

LEMMA NoticeGroupSteps ==
  ASSUME TypeOK, NEW n \in Notice, NoticeGroup(n)
  PROVE  /\ OnlyOf(n) /\ Outside /\ Memory /\ pc' = pc /\ pc[n] = "send"
         /\ \E r \in Reward : held[n][r].status # "none" /\ job'[n].wallet = WalletOf(r)
         /\ job'[n].token = job[n].token
<1>1. PICK r \in Reward : held[n][r].status # "none"
                          /\ job' = [job EXCEPT ![n].wallet = WalletOf(r)]
  BY DEF NoticeGroup
<1> QED
  BY <1>1 DEF NoticeGroup, OnlyOf, Outside, Memory, TypeOK, Handler, Job

LEMMA CrashSteps ==
  ASSUME TypeOK, Crash
  PROVE  /\ rows' = rows /\ job' = job /\ rent' = rent /\ ledger' = ledger
         /\ crashes < MaxCrashes
         /\ \A h \in Handler : /\ pc'[h] = IF pc[h] = "idle" THEN "idle" ELSE "done"
                               /\ left'[h] = {} /\ saving'[h] = {}
                               /\ \A r \in Reward : held'[h][r] = NoRow
BY NoCopiesType DEF Crash, TypeOK

-----------------------------------------------------------------------------
(* Types.                                                                  *)

LEMMA SendType ==
  ASSUME TypeOK, env' = env, NEW h \in Handler, SendToReferrer(h), job[h].wallet \in Wallet
  PROVE  TypeOK'
<1> DEFINE Sends == ledger' = ledger \cup {[hash |-> HashOf(h), rewards |-> Group(h)]}
<1>0. Group(h) \subseteq Reward /\ HashOf(h) \in Hash
  BY DEF Group, HashOf, Hash, TypeOK, Job
<1>1. ledger' \subseteq [hash : Hash, rewards : SUBSET Reward]
  <2>1. [hash |-> HashOf(h), rewards |-> Group(h)] \in [hash : Hash, rewards : SUBSET Reward]
    BY <1>0
  <2>2. ledger' = ledger \/ Sends
    BY DEF SendToReferrer, HashOf
  <2> QED
    BY <2>1, <2>2 DEF TypeOK
<1>2. UNCHANGED <<rows, job, held, crashes>>
  BY DEF SendToReferrer
<1>3. CASE \E b \in BOOLEAN : Fail(h, b)
  BY <1>1, <1>2, <1>3, FailSteps DEF TypeOK, MaxCrashes
<1>4. CASE /\ Goto(h, "paid") /\ left' = [left EXCEPT ![h] = Group(h)]
           /\ UNCHANGED <<rent, saving>>
  BY <1>0, <1>1, <1>2, <1>4 DEF TypeOK, MaxCrashes, Goto, Label, Resting
<1> QED
  BY <1>3, <1>4 DEF SendToReferrer

LEMMA SaveUpdateType ==
  ASSUME TypeInv, env' = env, NEW h \in Handler, NEW loop \in Label, SaveUpdate(h, loop)
  PROVE  TypeOK'
<1> USE DEF TypeInv
<1>1. rows' \in [Reward -> Row] /\ UNCHANGED <<rent, ledger, crashes>>
  BY SaveUpdateSteps DEF SaveUpdate, Writes
<1>2. CASE NextGroup(h)
  BY <1>1, <1>2, NextGroupSteps DEF TypeOK, MaxCrashes
<1>3. CASE /\ Goto(h, loop) /\ saving' = [saving EXCEPT ![h] = {}]
           /\ UNCHANGED <<job, held, left>>
  BY <1>1, <1>3 DEF TypeOK, MaxCrashes, Goto
<1> QED
  BY <1>2, <1>3 DEF SaveUpdate

LEMMA PaidSelectType ==
  ASSUME TypeInv, env' = env, NEW h \in Handler, PaidSelect(h)
  PROVE  TypeOK'
<1>0. TypeOK /\ MaxCrashes' = MaxCrashes /\ UNCHANGED <<rows, job, ledger, crashes>>
  BY DEF TypeInv, MaxCrashes, PaidSelect
<1>1. HashOf(h) \in Hash
  BY PaidSelectSteps
<1>2. [status |-> "paid", tx_hash |-> HashOf(h)] \in Row
  BY <1>1 DEF Row, Status
<1>3. PICK r \in left[h] :
        /\ held' = [held EXCEPT ![h][r] = [status |-> "paid", tx_hash |-> HashOf(h)]]
        /\ \/ /\ left' = [left EXCEPT ![h] = @ \ {r}]
              /\ saving' = [saving EXCEPT ![h] = {[reward |-> r, base |-> rows[r]]}]
              /\ Goto(h, "paidUpdate")
              /\ UNCHANGED rent
           \/ DbFaults /\ Fail(h, FALSE)
  BY DEF PaidSelect, HashOf
<1>4. held' \in [Handler -> [Reward -> Row]]
  BY <1>0, <1>2, <1>3 DEF TypeOK
<1>5. CASE Fail(h, FALSE)
  BY <1>0, <1>4, <1>5, FailSteps DEF TypeOK
<1>6. CASE /\ left' = [left EXCEPT ![h] = @ \ {r}]
           /\ saving' = [saving EXCEPT ![h] = {[reward |-> r, base |-> rows[r]]}]
           /\ Goto(h, "paidUpdate")
           /\ UNCHANGED rent
  <2>1. r \in Reward /\ rows[r] \in Row
    BY <1>0 DEF TypeOK
  <2> QED
    BY <1>0, <1>4, <1>6, <2>1 DEF TypeOK, Goto, Label
<1> QED
  BY <1>3, <1>5, <1>6

LEMMA MarkSelectType ==
  ASSUME TypeInv, env' = env, NEW h \in Handler, MarkSelect(h)
  PROVE  TypeOK'
<1>0. TypeOK /\ MaxCrashes' = MaxCrashes /\ UNCHANGED <<rows, rent, ledger, crashes>>
  BY DEF TypeInv, MaxCrashes, MarkSelect
<1>1. CASE NextGroup(h)
  BY <1>0, <1>1, NextGroupSteps DEF TypeOK
<1>2. CASE Abandon(h) /\ UNCHANGED job
  BY <1>0, <1>2, NoCopiesType DEF Abandon, TypeOK, Goto, Label, Resting
<1>3. ASSUME NEW r \in left[h],
             held' = [held EXCEPT ![h][r].status = UnpaidStatus(h, r)],
             left' = [left EXCEPT ![h] = @ \ {r}],
             saving' = [saving EXCEPT ![h] = {[reward |-> r, base |-> rows[r]]}],
             Goto(h, "markUpdate"), UNCHANGED job
      PROVE  TypeOK'
  <2>1. r \in Reward /\ held[h] \in [Reward -> Row] /\ held[h][r] \in Row /\ rows[r] \in Row
    BY <1>0 DEF TypeOK
  <2>2. [held[h][r] EXCEPT !.status = UnpaidStatus(h, r)] \in Row
    BY <2>1 DEF UnpaidStatus, Row, Status
  <2>3. held' = [held EXCEPT ![h] = [held[h] EXCEPT ![r] =
                   [held[h][r] EXCEPT !.status = UnpaidStatus(h, r)]]]
    BY <1>3
  <2>4. held' \in [Handler -> [Reward -> Row]]
    BY <1>0, <2>1, <2>2, <2>3 DEF TypeOK
  <2> QED
    BY <1>0, <1>3, <2>1, <2>4 DEF TypeOK, Goto, Label
<1> QED
  BY <1>1, <1>2, <1>3 DEF MarkSelect

LEMMA NextTypeOK == TypeInv /\ [Next]_vars => TypeOK'
<1> SUFFICES ASSUME TypeInv, [Next]_vars
             PROVE  TypeOK'
  OBVIOUS
<1>0. TypeOK /\ env' = env
  BY DEF TypeInv, Next, vars
<1>h. (\A c \in Call : c \in Handler) /\ (\A n \in Notice : n \in Handler)
  BY DEF Handler
<1>l. {"idle", "done", "exists", "insertOutput", "insertSol", "threshold", "find", "send",
       "paid", "paidUpdate", "refind", "mark", "markUpdate"} \subseteq Label
  BY DEF Label, Resting
<1> USE <1>0, <1>h, <1>l DEF TypeOK, Goto, MaxCrashes
<1>1. ASSUME NEW c \in Call, CreateLookup(c)
      PROVE  TypeOK'
  <2>1. job' \in [Handler -> Job]
    <3>1. \A w \in Wallet \cup {None} : [job[c] EXCEPT !.wallet = w] \in Job
      BY <1>1 DEF Job
    <3> QED
      BY <1>1, <3>1, RewardParts DEF CreateLookup
  <2> QED
    BY <1>1, <2>1 DEF CreateLookup
<1>2. ASSUME NEW c \in Call, CreateExists(c)
      PROVE  TypeOK'
  BY <1>2 DEF CreateExists
<1>3. ASSUME NEW c \in Call, CreateInsertOutput(c)
      PROVE  TypeOK'
  <2>1. <<c, "MMP">> \in Reward
    BY <1>3, RewardParts DEF Token
  <2> QED
    BY <1>3, <2>1, RowTypes DEF CreateInsertOutput, CreateInsert
<1>4. ASSUME NEW c \in Call, CreateInsertSol(c)
      PROVE  TypeOK'
  <2>1. <<c, "SOL">> \in Reward
    BY <1>4, RewardParts DEF Token
  <2> QED
    BY <1>4, <2>1, RowTypes DEF CreateInsertSol, CreateInsert
<1>5. ASSUME NEW c \in Call, CheckThreshold(c)
      PROVE  TypeOK'
  BY <1>5 DEF CheckThreshold
<1>6. ASSUME NEW c \in Call, FindPending(c)
      PROVE  TypeOK'
  <2>1. CASE NextGroup(c) /\ UNCHANGED rent
    BY <1>6, <2>1, NextGroupSteps DEF FindPending
  <2>2. CASE Fail(c, FALSE) /\ UNCHANGED <<job, held>>
    BY <1>6, <2>2, FailSteps DEF FindPending
  <2>3. CASE /\ held' = [held EXCEPT ![c] = Copies(PendingOf(c))]
             /\ Goto(c, "send") /\ UNCHANGED <<job, left, saving, rent>>
    BY <1>6, <2>3, CopiesType DEF FindPending
  <2> QED
    BY <1>6, <2>1, <2>2, <2>3 DEF FindPending
<1>7. ASSUME NEW c \in Call, PaySend(c)
      PROVE  TypeOK'
  <2>1. SendToReferrer(c) /\ pc[c] = "send" /\ job[c].wallet \in Wallet
    BY <1>7 DEF PaySend, TypeInv, Placed, PlacedOf, Resting
  <2> QED
    BY <2>1, SendType
<1>8. ASSUME NEW c \in Call, Refind(c)
      PROVE  TypeOK'
  <2>1. CASE NextGroup(c)
    BY <1>8, <2>1, NextGroupSteps DEF Refind
  <2>2. CASE /\ held' = [held EXCEPT ![c] = Copies(PendingOf(c))]
             /\ left' = [left EXCEPT ![c] = PendingOf(c)]
             /\ Goto(c, "mark") /\ UNCHANGED <<job, saving>>
    <3>1. PendingOf(c) \subseteq Reward
      BY DEF PendingOf
    <3> QED
      BY <1>8, <2>2, <3>1, CopiesType DEF Refind
  <2> QED
    BY <1>8, <2>1, <2>2 DEF Refind
<1>9. ASSUME NEW h \in Handler, PaidSelect(h)
      PROVE  TypeOK'
  BY <1>9, PaidSelectType
<1>10. ASSUME NEW h \in Handler, PaidUpdate(h)
       PROVE  TypeOK'
  BY <1>10, SaveUpdateType DEF PaidUpdate
<1>11. ASSUME NEW h \in Handler, MarkSelect(h)
       PROVE  TypeOK'
  BY <1>11, MarkSelectType
<1>12. ASSUME NEW h \in Handler, MarkUpdate(h)
       PROVE  TypeOK'
  BY <1>12, SaveUpdateType DEF MarkUpdate
<1>13. ASSUME NEW n \in Notice, NoticeFind(n)
       PROVE  TypeOK'
  <2>1. job' \in [Handler -> Job]
    <3>1. [job[n] EXCEPT !.token = "SOL"] \in Job
      BY <1>13 DEF Job, Token
    <3> QED
      BY <1>13, <3>1 DEF NoticeFind
  <2>2. Copies(Waiting) \in [Reward -> Row]
    BY CopiesType
  <2>3. held' \in [Handler -> [Reward -> Row]] /\ pc' \in [Handler -> Label]
    BY <1>13, <2>2 DEF NoticeFind
  <2> QED
    BY <1>13, <2>1, <2>3 DEF NoticeFind
<1>14. ASSUME NEW n \in Notice, NoticeGroup(n)
       PROVE  TypeOK'
  BY <1>14, RewardParts DEF NoticeGroup, Job
<1>15. ASSUME NEW n \in Notice, NoticeSend(n)
       PROVE  TypeOK'
  <2>1. /\ SendToReferrer(n)
        /\ \E r \in Reward : held[n][r].status # "none" /\ WalletOf(r) = job[n].wallet
    BY <1>15 DEF NoticeSend, Group
  <2> QED
    BY <2>1, SendType DEF TypeInv, Existing
<1>16. CASE Crash
  <2>1. crashes' \in 0..MaxCrashes'
    BY <1>16, EnvironmentsAssumption DEF Crash, MaxCrashes
  <2> QED
    BY <1>16, <2>1, NoCopiesType DEF Crash, MaxCrashes
<1>17. CASE UNCHANGED vars
  BY <1>17 DEF vars, moving, MaxCrashes
<1> QED
  BY <1>1, <1>2, <1>3, <1>4, <1>5, <1>6, <1>7, <1>8, <1>9, <1>10, <1>11, <1>12,
     <1>13, <1>14, <1>15, <1>16, <1>17
     DEF Next, CreateReferralReward, PayAllPendingRewards, ProcessWaitBalanceRewards,
         SaveRewards, Handler

LEMMA SaveUpdateExisting ==
  ASSUME TypeInv, NEW h \in Handler, NEW loop, SaveUpdate(h, loop)
  PROVE  Existing'
<1>1. PICK s \in saving[h] : s.reward \in Reward /\ s.base \in Row /\ Writes(h, s)
  BY SaveUpdateSteps
<1>2. held[h][s.reward].status # "none" /\ rows[s.reward].status # "none"
  BY <1>1 DEF TypeInv, Placed, PlacedOf, Group, Existing
<1>3. \A r \in Reward : rows'[r].status # "none" <=> rows[r].status # "none"
  BY <1>1, <1>2, UpdatedColumns DEF Writes
<1>4. \A g \in Handler, r \in Reward :
        held'[g][r].status # "none" => held[g][r].status # "none"
  BY SaveUpdateSteps, RowTypes DEF OnlyOf, Dropped
<1> QED
  BY <1>3, <1>4 DEF TypeInv, Existing

LEMMA NextExisting == TypeInv /\ [Next]_vars => Existing'
<1> SUFFICES ASSUME TypeInv, [Next]_vars
             PROVE  Existing'
  OBVIOUS
<1>0. TypeOK /\ Existing /\ Placed
  BY DEF TypeInv
<1>h. (\A c \in Call : c \in Handler) /\ (\A n \in Notice : n \in Handler)
  BY DEF Handler
<1> USE <1>0, <1>h
<1>1. ASSUME NEW c \in Call, CreateLookup(c)
      PROVE  Existing'
  BY <1>1, LookupSteps DEF Outside, Memory, Existing
<1>2. ASSUME NEW c \in Call, CreateExists(c)
      PROVE  Existing'
  BY <1>2, ExistsSteps DEF Outside, Memory, Existing
<1>3. ASSUME NEW c \in Call, CreateInsertOutput(c)
      PROVE  Existing'
  <2>1. /\ held' = held /\ pc[c] = "insertOutput"
        /\ rows' = rows \/ rows' = [rows EXCEPT ![<<c, "MMP">>] = PendingRow]
    BY <1>3, InsertSteps DEF CreateInsertOutput, Memory, Token
  <2>2. WalletOf(<<c, "MMP">>) \in Wallet /\ <<c, "MMP">> \in Reward
    <3>1. job[c].wallet = Referrer[SwapOf[c]] /\ job[c].wallet \in Wallet
      BY <2>1 DEF Placed, PlacedOf, Resting
    <3>2. "MMP" \in Token /\ "SOL" \in Token
      BY DEF Token
    <3> QED
      BY <3>1, <3>2, RewardParts
  <2> QED
    BY <2>1, <2>2, RowTypes DEF Existing, TypeOK
<1>4. ASSUME NEW c \in Call, CreateInsertSol(c)
      PROVE  Existing'
  <2>1. /\ held' = held /\ pc[c] = "insertSol"
        /\ rows' = rows \/ rows' = [rows EXCEPT ![<<c, "SOL">>] = PendingRow]
    BY <1>4, InsertSteps DEF CreateInsertSol, Memory, Token
  <2>2. WalletOf(<<c, "SOL">>) \in Wallet /\ <<c, "SOL">> \in Reward
    <3>1. job[c].wallet = Referrer[SwapOf[c]] /\ job[c].wallet \in Wallet
      BY <2>1 DEF Placed, PlacedOf, Resting
    <3>2. "MMP" \in Token /\ "SOL" \in Token
      BY DEF Token
    <3> QED
      BY <3>1, <3>2, RewardParts
  <2> QED
    BY <2>1, <2>2, RowTypes DEF Existing, TypeOK
<1>5. ASSUME NEW c \in Call, CheckThreshold(c)
      PROVE  Existing'
  BY <1>5, ThresholdSteps DEF Outside, Memory, Existing
<1>6. ASSUME NEW c \in Call, FindPending(c)
      PROVE  Existing'
  BY <1>6, FindSteps, RowTypes
     DEF OnlyOf, Outside, Dropped, TakesPending, PendingOf, Existing
<1>7. ASSUME NEW c \in Call, PaySend(c)
      PROVE  Existing'
  BY <1>7, SendSteps DEF PaySend, Existing
<1>8. ASSUME NEW c \in Call, Refind(c)
      PROVE  Existing'
  BY <1>8, RefindSteps, RowTypes
     DEF OnlyOf, Outside, Dropped, TakesPending, PendingOf, Existing
<1>9. ASSUME NEW h \in Handler, PaidSelect(h)
      PROVE  Existing'
  <2>1. PICK r \in left[h] : /\ r \in Reward
                             /\ Changes(h, r, [status |-> "paid", tx_hash |-> HashOf(h)])
    BY <1>9, PaidSelectSteps
  <2>2. held[h][r].status # "none"
    BY <2>1 DEF Placed, PlacedOf, Group
  <2> QED
    BY <1>9, <2>1, <2>2, PaidSelectSteps DEF OnlyOf, Outside, Changes, Existing
<1>10. ASSUME NEW h \in Handler, PaidUpdate(h)
       PROVE  Existing'
  BY <1>10, SaveUpdateExisting DEF PaidUpdate
<1>11. ASSUME NEW h \in Handler, MarkSelect(h)
       PROVE  Existing'
  <2>1. ASSUME NEW r \in left[h], r \in Reward,
               Changes(h, r, [held[h][r] EXCEPT !.status = UnpaidStatus(h, r)])
        PROVE  Existing'
    <3>1. held[h][r].status # "none"
      BY <2>1 DEF Placed, PlacedOf, Group
    <3> QED
      BY <1>11, <2>1, <3>1, MarkSelectSteps DEF OnlyOf, Outside, Changes, Existing
  <2>2. CASE Dropped(h) \/ Abandoned(h)
    BY <1>11, <2>2, MarkSelectSteps, RowTypes
       DEF OnlyOf, Outside, Dropped, Abandoned, Existing
  <2> QED
    BY <1>11, <2>1, <2>2, MarkSelectSteps
<1>12. ASSUME NEW h \in Handler, MarkUpdate(h)
       PROVE  Existing'
  BY <1>12, SaveUpdateExisting DEF MarkUpdate
<1>13. ASSUME NEW n \in Notice, NoticeFind(n)
       PROVE  Existing'
  BY <1>13, NoticeFindSteps, RowTypes DEF OnlyOf, Outside, Waiting, Existing
<1>14. ASSUME NEW n \in Notice, NoticeGroup(n)
       PROVE  Existing'
  BY <1>14, NoticeGroupSteps DEF Outside, Memory, Existing
<1>15. ASSUME NEW n \in Notice, NoticeSend(n)
       PROVE  Existing'
  BY <1>15, SendSteps DEF NoticeSend, Existing
<1>16. CASE Crash
  BY <1>16, CrashSteps, RowTypes DEF Existing
<1>17. CASE UNCHANGED vars
  BY <1>17 DEF vars, moving, Existing
<1> QED
  BY <1>1, <1>2, <1>3, <1>4, <1>5, <1>6, <1>7, <1>8, <1>9, <1>10, <1>11, <1>12,
     <1>13, <1>14, <1>15, <1>16, <1>17
     DEF Next, CreateReferralReward, PayAllPendingRewards, ProcessWaitBalanceRewards,
         SaveRewards, Handler

\* A step of another handler leaves a handler where it is.
LEMMA PlacedFrame ==
  ASSUME Placed, NEW h \in Handler, OnlyOf(h), PlacedOf(h)'
  PROVE  Placed'
<1> SUFFICES ASSUME NEW g \in Handler, g # h
             PROVE  PlacedOf(g)'
  BY DEF Placed
<1>1. PlacedOf(g) /\ Group(g)' = Group(g)
  BY DEF Placed, OnlyOf, Group, WalletOf
<1> QED
  BY <1>1 DEF OnlyOf, PlacedOf

LEMMA NextPlaced == TypeInv /\ [Next]_vars => Placed'
<1> SUFFICES ASSUME TypeInv, [Next]_vars
             PROVE  Placed'
  OBVIOUS
<1>0. TypeOK /\ Existing /\ Placed
  BY DEF TypeInv
<1>h. (\A c \in Call : c \in Handler) /\ (\A n \in Notice : n \in Handler)
  BY DEF Handler
<1> USE <1>0, <1>h
<1>1. ASSUME NEW c \in Call, CreateLookup(c)
      PROVE  Placed'
  <2>1. PlacedOf(c)'
    BY <1>1, LookupSteps, RewardParts, HandlersAssumption
       DEF Placed, PlacedOf, Outside, Memory, Group, Resting, Loop, TypeOK
  <2> QED
    BY <1>1, <2>1, LookupSteps, PlacedFrame
<1>2. ASSUME NEW c \in Call, CreateExists(c)
      PROVE  Placed'
  <2>1. PlacedOf(c)'
    BY <1>2, ExistsSteps, HandlersAssumption
       DEF Placed, PlacedOf, Memory, Group, Resting, Loop, Token
  <2> QED
    BY <1>2, <2>1, ExistsSteps, PlacedFrame DEF Token
<1>3. ASSUME NEW c \in Call, CreateInsertOutput(c)
      PROVE  Placed'
  <2>0. /\ OnlyOf(c) /\ Memory /\ job' = job /\ pc[c] = "insertOutput"
        /\ pc'[c] \in {"insertSol", "done"}
    BY <1>3, InsertSteps DEF CreateInsertOutput, Token
  <2>1. PlacedOf(c)'
    BY <2>0, HandlersAssumption DEF Placed, PlacedOf, Memory, Group, WalletOf, Resting, Loop
  <2> QED
    BY <2>0, <2>1, PlacedFrame
<1>4. ASSUME NEW c \in Call, CreateInsertSol(c)
      PROVE  Placed'
  <2>0. /\ OnlyOf(c) /\ Memory /\ job' = job /\ pc[c] = "insertSol"
        /\ pc'[c] \in {"threshold", "done"}
    BY <1>4, InsertSteps DEF CreateInsertSol, Token
  <2>1. PlacedOf(c)'
    BY <2>0, HandlersAssumption DEF Placed, PlacedOf, Memory, Group, WalletOf, Resting, Loop
  <2> QED
    BY <2>0, <2>1, PlacedFrame
<1>5. ASSUME NEW c \in Call, CheckThreshold(c)
      PROVE  Placed'
  <2>1. PlacedOf(c)'
    BY <1>5, ThresholdSteps, HandlersAssumption
       DEF Placed, PlacedOf, Memory, Group, Resting, Loop, Token
  <2> QED
    BY <1>5, <2>1, ThresholdSteps, PlacedFrame DEF Token
<1>6. ASSUME NEW c \in Call, FindPending(c)
      PROVE  Placed'
  <2>0. OnlyOf(c)
    BY <1>6, FindSteps
  <2>1. PlacedOf(c)'
    <3>0. /\ pc[c] = "find" /\ left[c] = {} /\ saving[c] = {} /\ c \notin Notice
          /\ job[c].wallet \in Wallet /\ job[c].wallet = Referrer[SwapOf[c]]
      BY <1>6, FindSteps, HandlersAssumption DEF Placed, PlacedOf, Resting, Loop
    <3>1. CASE TakesPending(c) /\ left'[c] = left[c] /\ pc'[c] = "send"
      BY <3>0, <3>1 DEF TakesPending, PlacedOf, Loop
    <3>2. CASE Dropped(c)
      BY <3>0, <3>2 DEF Dropped, PlacedOf
    <3>3. CASE Failed(c) /\ held'[c] = held[c] /\ job'[c] = job[c]
      BY <3>0, <3>3 DEF Failed, PlacedOf
    <3> QED
      BY <1>6, <3>1, <3>2, <3>3, FindSteps
  <2> QED
    BY <2>0, <2>1, PlacedFrame
<1>7. ASSUME NEW c \in Call, PaySend(c)
      PROVE  Placed'
  <2>0. OnlyOf(c)
    BY <1>7, SendSteps DEF PaySend
  <2>1. PlacedOf(c)'
    <3>0. /\ pc[c] = "send" /\ left[c] = {} /\ saving[c] = {} /\ job[c].wallet \in Wallet
          /\ SendToReferrer(c)
      BY <1>7 DEF PaySend, Placed, PlacedOf, Resting, Loop
    <3>1. job' = job /\ held' = held /\ Group(c)' = Group(c)
      BY <3>0, SendSteps DEF Group, WalletOf
    <3>2. \/ pc'[c] = "paid" /\ left'[c] = Group(c) /\ saving'[c] = saving[c]
          \/ Failed(c)
      BY <3>0, SendSteps
    <3> QED
      BY <3>0, <3>1, <3>2, HandlersAssumption
         DEF Failed, Placed, PlacedOf, Loop, Resting
  <2> QED
    BY <2>0, <2>1, PlacedFrame
<1>8. ASSUME NEW c \in Call, Refind(c)
      PROVE  Placed'
  <2>0. OnlyOf(c)
    BY <1>8, RefindSteps
  <2>1. PlacedOf(c)'
    <3>0. /\ pc[c] = "refind" /\ saving[c] = {} /\ c \notin Notice
          /\ job[c].wallet \in Wallet /\ job[c].wallet = Referrer[SwapOf[c]]
      BY <1>8, RefindSteps, HandlersAssumption DEF Placed, PlacedOf, Resting, Loop
    <3>1. CASE TakesPending(c) /\ left'[c] = PendingOf(c) /\ pc'[c] = "mark"
      <4>1. \A r \in PendingOf(c) : /\ r \in Reward /\ held'[c][r].status = "pending"
                                    /\ WalletOf(r) = job'[c].wallet /\ r[2] = job'[c].token
        BY <3>1 DEF TakesPending, PendingOf
      <4>2. left'[c] \subseteq Group(c)'
        BY <3>1, <4>1 DEF Group, WalletOf
      <4> QED
        BY <3>0, <3>1, <4>2 DEF TakesPending, PlacedOf, Loop
    <3>2. CASE Dropped(c)
      BY <3>0, <3>2 DEF Dropped, PlacedOf
    <3> QED
      BY <1>8, <3>1, <3>2, RefindSteps
  <2> QED
    BY <2>0, <2>1, PlacedFrame
<1>9. ASSUME NEW h \in Handler, PaidSelect(h)
      PROVE  Placed'
  <2>0. OnlyOf(h)
    BY <1>9, PaidSelectSteps
  <2>1. PlacedOf(h)'
    <3>0. pc[h] = "paid" /\ job' = job /\ PlacedOf(h) /\ saving[h] = {}
      BY <1>9, PaidSelectSteps DEF Placed, PlacedOf
    <3>1. PICK r \in left[h] :
            /\ r \in Reward
            /\ Changes(h, r, [status |-> "paid", tx_hash |-> HashOf(h)])
            /\ (Selects(h, r) /\ pc'[h] = "paidUpdate") \/ Failed(h)
      BY <1>9, PaidSelectSteps
    <3>2. Group(h)' = Group(h)
      <4>1. r \in Group(h)
        BY <3>0 DEF PlacedOf
      <4> QED
        BY <3>0, <3>1, <4>1 DEF Group, WalletOf, Changes
    <3> QED
      BY <3>0, <3>1, <3>2, HandlersAssumption
         DEF PlacedOf, Selects, Failed, Loop, Resting, Handler
  <2> QED
    BY <2>0, <2>1, PlacedFrame
<1>10. ASSUME NEW h \in Handler, PaidUpdate(h)
       PROVE  Placed'
  <2>0. OnlyOf(h)
    BY <1>10, SaveUpdateSteps DEF PaidUpdate
  <2>1. PlacedOf(h)'
    <3>0. pc[h] = "paidUpdate" /\ PlacedOf(h) /\ SaveUpdate(h, "paid")
      BY <1>10 DEF PaidUpdate, Placed
    <3>1. CASE Dropped(h)
      BY <3>0, <3>1, HandlersAssumption DEF Dropped, PlacedOf, Loop, Resting
    <3>2. CASE /\ pc'[h] = "paid" /\ saving'[h] = {} /\ left'[h] = left[h]
               /\ job'[h] = job[h] /\ held'[h] = held[h]
      <4>1. Group(h)' = Group(h)
        BY <3>2 DEF Group, WalletOf
      <4> QED
        BY <3>0, <3>2, <4>1 DEF PlacedOf, Loop, Resting
    <3> QED
      BY <3>0, <3>1, <3>2, SaveUpdateSteps
  <2> QED
    BY <2>0, <2>1, PlacedFrame
<1>11. ASSUME NEW h \in Handler, MarkSelect(h)
       PROVE  Placed'
  <2>0. OnlyOf(h)
    BY <1>11, MarkSelectSteps
  <2>1. PlacedOf(h)'
    <3>0. pc[h] = "mark" /\ PlacedOf(h) /\ saving[h] = {}
      BY <1>11, MarkSelectSteps DEF Placed, PlacedOf
    <3>1. ASSUME NEW r \in left[h], r \in Reward,
                 Changes(h, r, [held[h][r] EXCEPT !.status = UnpaidStatus(h, r)]),
                 Selects(h, r), pc'[h] = "markUpdate"
          PROVE  PlacedOf(h)'
      <4>1. r \in Group(h) /\ held'[h][r].status # "none"
        BY <3>0, <3>1 DEF PlacedOf, Changes, UnpaidStatus, TypeOK, Row
      <4>2. Group(h)' = Group(h)
        BY <3>1, <4>1 DEF Group, WalletOf, Changes, Selects
      <4> QED
        BY <3>0, <3>1, <4>2 DEF PlacedOf, Selects, Loop, Resting
    <3>2. CASE Dropped(h)
      BY <3>0, <3>2, HandlersAssumption DEF Dropped, PlacedOf, Loop, Resting
    <3>3. CASE Abandoned(h)
      BY <3>0, <3>3, HandlersAssumption DEF Abandoned, PlacedOf, Loop, Resting
    <3> QED
      BY <1>11, <3>1, <3>2, <3>3, MarkSelectSteps
  <2> QED
    BY <2>0, <2>1, PlacedFrame
<1>12. ASSUME NEW h \in Handler, MarkUpdate(h)
       PROVE  Placed'
  <2>0. OnlyOf(h)
    BY <1>12, SaveUpdateSteps DEF MarkUpdate
  <2>1. PlacedOf(h)'
    <3>0. pc[h] = "markUpdate" /\ PlacedOf(h) /\ SaveUpdate(h, "mark")
      BY <1>12 DEF MarkUpdate, Placed
    <3>1. CASE Dropped(h)
      BY <3>0, <3>1, HandlersAssumption DEF Dropped, PlacedOf, Loop, Resting
    <3>2. CASE /\ pc'[h] = "mark" /\ saving'[h] = {} /\ left'[h] = left[h]
               /\ job'[h] = job[h] /\ held'[h] = held[h]
      <4>1. Group(h)' = Group(h)
        BY <3>2 DEF Group, WalletOf
      <4> QED
        BY <3>0, <3>2, <4>1 DEF PlacedOf, Loop, Resting
    <3> QED
      BY <3>0, <3>1, <3>2, SaveUpdateSteps
  <2> QED
    BY <2>0, <2>1, PlacedFrame
<1>13. ASSUME NEW n \in Notice, NoticeFind(n)
       PROVE  Placed'
  <2>0. OnlyOf(n)
    BY <1>13, NoticeFindSteps
  <2>1. PlacedOf(n)'
    BY <1>13, NoticeFindSteps, HandlersAssumption DEF Placed, PlacedOf, Loop, Resting
  <2> QED
    BY <2>0, <2>1, PlacedFrame
<1>14. ASSUME NEW n \in Notice, NoticeGroup(n)
       PROVE  Placed'
  <2>0. OnlyOf(n)
    BY <1>14, NoticeGroupSteps
  <2>1. PlacedOf(n)'
    BY <1>14, NoticeGroupSteps, HandlersAssumption
       DEF Memory, Placed, PlacedOf, Loop, Resting
  <2> QED
    BY <2>0, <2>1, PlacedFrame
<1>15. ASSUME NEW n \in Notice, NoticeSend(n)
       PROVE  Placed'
  <2>0. OnlyOf(n)
    BY <1>15, SendSteps DEF NoticeSend
  <2>1. PlacedOf(n)'
    <3>0. /\ pc[n] = "send" /\ left[n] = {} /\ saving[n] = {} /\ job[n].wallet \in Wallet
          /\ SendToReferrer(n)
      BY <1>15 DEF NoticeSend, Group, Existing, Placed, PlacedOf, Resting, Loop
    <3>1. job' = job /\ held' = held /\ Group(n)' = Group(n)
      BY <3>0, SendSteps DEF Group, WalletOf
    <3>2. \/ pc'[n] = "paid" /\ left'[n] = Group(n) /\ saving'[n] = saving[n]
          \/ Failed(n)
      BY <3>0, SendSteps
    <3> QED
      BY <3>0, <3>1, <3>2, HandlersAssumption
         DEF Failed, Placed, PlacedOf, Loop, Resting
  <2> QED
    BY <2>0, <2>1, PlacedFrame
<1>16. CASE Crash
  BY <1>16, CrashSteps, HandlersAssumption DEF Placed, PlacedOf, Loop, Resting
<1>17. CASE UNCHANGED vars
  BY <1>17 DEF vars, moving, Placed, PlacedOf, Group, WalletOf
<1> QED
  BY <1>1, <1>2, <1>3, <1>4, <1>5, <1>6, <1>7, <1>8, <1>9, <1>10, <1>11, <1>12,
     <1>13, <1>14, <1>15, <1>16, <1>17
     DEF Next, CreateReferralReward, PayAllPendingRewards, ProcessWaitBalanceRewards,
         SaveRewards, Handler

LEMMA InitTypeInv == Init => TypeInv
<1> SUFFICES ASSUME Init
             PROVE  TypeInv
  OBVIOUS
<1>1. \A h \in Handler : Group(h) = {}
  BY RowTypes, NoCopiesType DEF Init, Group
<1>2. [wallet |-> None, token |-> "MMP"] \in Job
  BY DEF Job, Token
<1>3. TypeOK
  BY <1>2, NoCopiesType, EnvironmentsAssumption
     DEF Init, TypeOK, Label, Resting, MaxCrashes
<1>4. Existing
  BY RowTypes, NoCopiesType DEF Init, Existing
<1>5. Placed
  BY <1>1 DEF Init, Placed, PlacedOf, Resting, Loop
<1> QED
  BY <1>3, <1>4, <1>5 DEF TypeInv

LEMMA NextTypeInv == TypeInv /\ [Next]_vars => TypeInv'
BY NextTypeOK, NextExisting, NextPlaced DEF TypeInv

\* Every variable keeps its type, whatever payers overlap and whatever fails.
THEOREM TypeCorrect == Spec => []TypeOK
<1>1. TypeInv => TypeOK
  BY DEF TypeInv
<1> QED
  BY InitTypeInv, NextTypeInv, <1>1, PTL DEF Spec

-----------------------------------------------------------------------------
(* Hashes.                                                                 *)

Sent(r) == \E p \in ledger : r \in p.rewards

\* A row, or a copy of one, that tells no lie about the payment of r.
RealIn(x, r) ==
  /\ x.status = "paid" => Sent(r)
  /\ x.tx_hash # None => PaidBy(x.tx_hash, r) /\ x.tx_hash.wallet = WalletOf(r)

RealRows == \A r \in Reward : RealIn(rows[r], r)

\* So are the copies in memory; and what is left to be set PAID has been paid.
HeldReal(h) ==
  /\ \A r \in Reward : RealIn(held[h][r], r)
  /\ pc[h] \in {"paid", "paidUpdate"} => \A r \in left[h] : PaidBy(HashOf(h), r)

Real == \A h \in Handler : HeldReal(h)

HashInv == ~ChainErrors => RealRows /\ Real

LEMMA RealFrame ==
  ASSUME Real, NEW h \in Handler, OnlyOf(h), HeldReal(h)', ledger \subseteq ledger'
  PROVE  Real'
<1> SUFFICES ASSUME NEW g \in Handler, g # h
             PROVE  HeldReal(g)'
  BY DEF Real
<1>1. HeldReal(g) /\ HashOf(g)' = HashOf(g)
  BY DEF Real, OnlyOf, HashOf
<1> QED
  BY <1>1 DEF OnlyOf, HeldReal, RealIn, PaidBy, Sent, WalletOf

LEMMA SaveUpdateReal ==
  ASSUME TypeInv, RealRows, Real, NEW h \in Handler, NEW loop, SaveUpdate(h, loop),
         loop = "paid" => pc[h] = "paidUpdate", loop \in {"paid", "mark"}
  PROVE  RealRows' /\ Real'
<1>1. PICK s \in saving[h] : s.reward \in Reward /\ s.base \in Row /\ Writes(h, s)
  BY SaveUpdateSteps
<1>2. OnlyOf(h) /\ ledger' = ledger
  BY SaveUpdateSteps
<1>3. \/ rows'[s.reward].status = rows[s.reward].status
      \/ rows'[s.reward].status = held[h][s.reward].status
  BY <1>1, UpdatedColumns DEF Writes
<1>4. \/ rows'[s.reward].tx_hash = rows[s.reward].tx_hash
      \/ rows'[s.reward].tx_hash = held[h][s.reward].tx_hash
  BY <1>1, UpdatedColumns DEF Writes
<1>5. RealRows'
  <2> SUFFICES ASSUME NEW r \in Reward
               PROVE  RealIn(rows[r], r)'
    BY DEF RealRows
  <2>1. RealIn(rows[r], r) /\ RealIn(held[h][r], r)
    BY DEF RealRows, Real, HeldReal
  <2>2. r # s.reward => rows'[r] = rows[r]
    BY <1>1 DEF Writes
  <2> QED
    BY <1>2, <1>3, <1>4, <2>1, <2>2 DEF RealIn, PaidBy, Sent, WalletOf
<1>6. HeldReal(h)'
  <2>1. CASE Dropped(h)
    BY <1>2, <2>1, RowTypes DEF Dropped, Real, HeldReal, RealIn, PaidBy, Sent, WalletOf
  <2>2. CASE /\ pc'[h] = loop /\ left'[h] = left[h]
             /\ job'[h] = job[h] /\ held'[h] = held[h]
    <3>1. HashOf(h)' = HashOf(h)
      BY <2>2 DEF HashOf
    <3> QED
      BY <1>2, <2>2, <3>1 DEF Real, HeldReal, RealIn, PaidBy, Sent, WalletOf
  <2> QED
    BY <2>1, <2>2, SaveUpdateSteps
<1> QED
  BY <1>2, <1>5, <1>6, RealFrame

LEMMA InitHashInv == Init => HashInv
BY RowTypes, NoCopiesType DEF Init, HashInv, RealRows, Real, HeldReal, RealIn, Handler

LEMMA NextHashInv == TypeInv /\ HashInv /\ [Next]_vars => HashInv'
<1> SUFFICES ASSUME TypeInv, RealRows, Real, ~ChainErrors, [Next]_vars
             PROVE  RealRows' /\ Real'
  BY DEF HashInv, ChainErrors, Next, vars
<1>0. TypeOK /\ Existing /\ Placed
  BY DEF TypeInv
<1>h. (\A c \in Call : c \in Handler) /\ (\A n \in Notice : n \in Handler)
  BY DEF Handler
<1> USE <1>0, <1>h
<1>1. ASSUME NEW c \in Call, CreateLookup(c)
      PROVE  RealRows' /\ Real'
  <2>1. OnlyOf(c) /\ Outside /\ Memory /\ pc'[c] \notin {"paid", "paidUpdate"}
    BY <1>1, LookupSteps
  <2>2. HeldReal(c)'
    BY <2>1 DEF Outside, Memory, Real, HeldReal, RealIn, PaidBy, Sent, WalletOf
  <2> QED
    BY <2>1, <2>2, RealFrame DEF Outside, RealRows, RealIn, PaidBy, Sent, WalletOf
<1>2. ASSUME NEW c \in Call, CreateExists(c)
      PROVE  RealRows' /\ Real'
  <2>1. OnlyOf(c) /\ Outside /\ Memory /\ pc'[c] \notin {"paid", "paidUpdate"}
    BY <1>2, ExistsSteps
  <2>2. HeldReal(c)'
    BY <2>1 DEF Outside, Memory, Real, HeldReal, RealIn, PaidBy, Sent, WalletOf
  <2> QED
    BY <2>1, <2>2, RealFrame DEF Outside, RealRows, RealIn, PaidBy, Sent, WalletOf
<1>3. ASSUME NEW c \in Call, CreateInsertOutput(c)
      PROVE  RealRows' /\ Real'
  <2>0. "MMP" \in Token
    BY DEF Token
  <2>1. /\ OnlyOf(c) /\ Memory /\ job' = job /\ ledger' = ledger /\ pc[c] = "insertOutput"
        /\ \/ pc'[c] = "insertSol" /\ rows' = [rows EXCEPT ![<<c, "MMP">>] = PendingRow]
           \/ pc'[c] = "done" /\ rows' = rows
    BY <1>3, <2>0, InsertSteps DEF CreateInsertOutput
  <2>2. HeldReal(c)'
    BY <2>1 DEF Memory, Real, HeldReal, RealIn, PaidBy, Sent, WalletOf
  <2>3. RealRows'
    BY <2>1, RowTypes DEF RealRows, RealIn, PaidBy, Sent, TypeOK, WalletOf
  <2> QED
    BY <2>1, <2>2, <2>3, RealFrame
<1>4. ASSUME NEW c \in Call, CreateInsertSol(c)
      PROVE  RealRows' /\ Real'
  <2>0. "SOL" \in Token
    BY DEF Token
  <2>1. /\ OnlyOf(c) /\ Memory /\ job' = job /\ ledger' = ledger /\ pc[c] = "insertSol"
        /\ \/ pc'[c] = "threshold" /\ rows' = [rows EXCEPT ![<<c, "SOL">>] = PendingRow]
           \/ pc'[c] = "done" /\ rows' = rows
    BY <1>4, <2>0, InsertSteps DEF CreateInsertSol
  <2>2. HeldReal(c)'
    BY <2>1 DEF Memory, Real, HeldReal, RealIn, PaidBy, Sent, WalletOf
  <2>3. RealRows'
    BY <2>1, RowTypes DEF RealRows, RealIn, PaidBy, Sent, TypeOK, WalletOf
  <2> QED
    BY <2>1, <2>2, <2>3, RealFrame
<1>5. ASSUME NEW c \in Call, CheckThreshold(c)
      PROVE  RealRows' /\ Real'
  <2>1. OnlyOf(c) /\ Outside /\ Memory /\ pc'[c] \notin {"paid", "paidUpdate"}
    BY <1>5, ThresholdSteps
  <2>2. HeldReal(c)'
    BY <2>1 DEF Outside, Memory, Real, HeldReal, RealIn, PaidBy, Sent, WalletOf
  <2> QED
    BY <2>1, <2>2, RealFrame DEF Outside, RealRows, RealIn, PaidBy, Sent, WalletOf
<1>6. ASSUME NEW c \in Call, FindPending(c)
      PROVE  RealRows' /\ Real'
  <2>1. OnlyOf(c) /\ Outside /\ pc'[c] \notin {"paid", "paidUpdate"}
    BY <1>6, FindSteps, HandlersAssumption DEF Dropped, Failed
  <2>2. \A r \in Reward : \/ held'[c][r] = rows[r] \/ held'[c][r] = NoRow
                          \/ held'[c][r] = held[c][r]
    BY <1>6, FindSteps DEF Dropped, TakesPending
  <2>3. HeldReal(c)'
    BY <2>1, <2>2, RowTypes
       DEF Outside, Real, RealRows, HeldReal, RealIn, PaidBy, Sent, WalletOf
  <2> QED
    BY <2>1, <2>3, RealFrame DEF Outside, RealRows, RealIn, PaidBy, Sent, WalletOf
<1>7. ASSUME NEW c \in Call, PaySend(c)
      PROVE  RealRows' /\ Real'
  <2>1. SendToReferrer(c)
    BY <1>7 DEF PaySend
  <2>2. /\ OnlyOf(c) /\ rows' = rows /\ job' = job /\ held' = held /\ ledger \subseteq ledger'
        /\ \/ /\ pc'[c] = "paid" /\ left'[c] = Group(c)
              /\ [hash |-> HashOf(c), rewards |-> Group(c)] \in ledger'
           \/ pc'[c] \notin {"paid", "paidUpdate"}
    BY <2>1, SendSteps, HandlersAssumption DEF Failed
  <2>3. HashOf(c)' = HashOf(c)
    BY <2>2 DEF HashOf
  <2>4. HeldReal(c)'
    BY <2>2, <2>3 DEF Real, HeldReal, RealIn, PaidBy, Sent, WalletOf
  <2>5. RealRows'
    BY <2>2 DEF RealRows, RealIn, PaidBy, Sent, WalletOf
  <2> QED
    BY <2>2, <2>4, <2>5, RealFrame
<1>8. ASSUME NEW c \in Call, Refind(c)
      PROVE  RealRows' /\ Real'
  <2>1. OnlyOf(c) /\ Outside /\ pc'[c] \notin {"paid", "paidUpdate"}
    BY <1>8, RefindSteps DEF Dropped
  <2>2. \A r \in Reward : \/ held'[c][r] = rows[r] \/ held'[c][r] = NoRow
                          \/ held'[c][r] = held[c][r]
    BY <1>8, RefindSteps DEF Dropped, TakesPending
  <2>3. HeldReal(c)'
    BY <2>1, <2>2, RowTypes
       DEF Outside, Real, RealRows, HeldReal, RealIn, PaidBy, Sent, WalletOf
  <2> QED
    BY <2>1, <2>3, RealFrame DEF Outside, RealRows, RealIn, PaidBy, Sent, WalletOf
<1>9. ASSUME NEW h \in Handler, PaidSelect(h)
      PROVE  RealRows' /\ Real'
  <2>1. OnlyOf(h) /\ Outside /\ job' = job /\ pc[h] = "paid" /\ HashOf(h)' = HashOf(h)
    BY <1>9, PaidSelectSteps DEF HashOf
  <2>2. PICK r \in left[h] :
          /\ r \in Reward
          /\ Changes(h, r, [status |-> "paid", tx_hash |-> HashOf(h)])
          /\ Selects(h, r) \/ (Failed(h) /\ pc'[h] \notin {"paid", "paidUpdate"})
    BY <1>9, PaidSelectSteps DEF Failed
  <2>3. PaidBy(HashOf(h), r) /\ HashOf(h).wallet = WalletOf(r)
    BY <2>1 DEF Real, HeldReal, Placed, PlacedOf, Group, HashOf
  <2>4. HeldReal(h)'
    BY <2>1, <2>2, <2>3
       DEF Outside, Changes, Selects, Real, HeldReal, RealIn, PaidBy, Sent, WalletOf
  <2> QED
    BY <2>1, <2>4, RealFrame DEF Outside, RealRows, RealIn, PaidBy, Sent, WalletOf
<1>10. ASSUME NEW h \in Handler, PaidUpdate(h)
       PROVE  RealRows' /\ Real'
  <2>1. SaveUpdate(h, "paid") /\ pc[h] = "paidUpdate"
    BY <1>10 DEF PaidUpdate
  <2> QED
    BY <2>1, SaveUpdateReal
<1>11. ASSUME NEW h \in Handler, MarkSelect(h)
       PROVE  RealRows' /\ Real'
  <2>1. OnlyOf(h) /\ Outside /\ pc'[h] \notin {"paid", "paidUpdate"}
    BY <1>11, MarkSelectSteps DEF Dropped, Abandoned
  <2>2. \A r \in Reward : \/ held'[h][r] = NoRow \/ held'[h][r] = held[h][r]
                          \/ /\ held'[h][r].status # "paid"
                             /\ held'[h][r].tx_hash = held[h][r].tx_hash
    <3>1. ASSUME NEW r \in Reward,
                 Changes(h, r, [held[h][r] EXCEPT !.status = UnpaidStatus(h, r)])
          PROVE  /\ held'[h][r].status # "paid" /\ held'[h][r].tx_hash = held[h][r].tx_hash
                 /\ \A x \in Reward : x # r => held'[h][x] = held[h][x]
      BY <3>1 DEF Changes, UnpaidStatus, TypeOK, Row
    <3> QED
      BY <1>11, <3>1, MarkSelectSteps DEF Dropped, Abandoned
  <2>3. HeldReal(h)'
    BY <2>1, <2>2, RowTypes
       DEF Outside, Real, HeldReal, RealIn, PaidBy, Sent, WalletOf
  <2> QED
    BY <2>1, <2>3, RealFrame DEF Outside, RealRows, RealIn, PaidBy, Sent, WalletOf
<1>12. ASSUME NEW h \in Handler, MarkUpdate(h)
       PROVE  RealRows' /\ Real'
  <2>1. SaveUpdate(h, "mark") /\ pc[h] = "markUpdate"
    BY <1>12 DEF MarkUpdate
  <2> QED
    BY <2>1, SaveUpdateReal
<1>13. ASSUME NEW n \in Notice, NoticeFind(n)
       PROVE  RealRows' /\ Real'
  <2>1. OnlyOf(n) /\ Outside /\ pc'[n] \notin {"paid", "paidUpdate"}
    BY <1>13, NoticeFindSteps
  <2>2. \A r \in Reward : \/ held'[n][r] = rows[r] \/ held'[n][r] = NoRow
                          \/ held'[n][r] = held[n][r]
    BY <1>13, NoticeFindSteps DEF Dropped, TakesPending
  <2>3. HeldReal(n)'
    BY <2>1, <2>2, RowTypes
       DEF Outside, Real, RealRows, HeldReal, RealIn, PaidBy, Sent, WalletOf
  <2> QED
    BY <2>1, <2>3, RealFrame DEF Outside, RealRows, RealIn, PaidBy, Sent, WalletOf
<1>14. ASSUME NEW n \in Notice, NoticeGroup(n)
       PROVE  RealRows' /\ Real'
  <2>1. OnlyOf(n) /\ Outside /\ Memory /\ pc'[n] \notin {"paid", "paidUpdate"}
    BY <1>14, NoticeGroupSteps
  <2>2. HeldReal(n)'
    BY <2>1 DEF Outside, Memory, Real, HeldReal, RealIn, PaidBy, Sent, WalletOf
  <2> QED
    BY <2>1, <2>2, RealFrame DEF Outside, RealRows, RealIn, PaidBy, Sent, WalletOf
<1>15. ASSUME NEW n \in Notice, NoticeSend(n)
       PROVE  RealRows' /\ Real'
  <2>1. SendToReferrer(n)
    BY <1>15 DEF NoticeSend
  <2>2. /\ OnlyOf(n) /\ rows' = rows /\ job' = job /\ held' = held /\ ledger \subseteq ledger'
        /\ \/ /\ pc'[n] = "paid" /\ left'[n] = Group(n)
              /\ [hash |-> HashOf(n), rewards |-> Group(n)] \in ledger'
           \/ pc'[n] \notin {"paid", "paidUpdate"}
    BY <2>1, SendSteps, HandlersAssumption DEF Failed
  <2>3. HashOf(n)' = HashOf(n)
    BY <2>2 DEF HashOf
  <2>4. HeldReal(n)'
    BY <2>2, <2>3 DEF Real, HeldReal, RealIn, PaidBy, Sent, WalletOf
  <2>5. RealRows'
    BY <2>2 DEF RealRows, RealIn, PaidBy, Sent, WalletOf
  <2> QED
    BY <2>2, <2>4, <2>5, RealFrame
<1>16. CASE Crash
  BY <1>16, CrashSteps, RowTypes
     DEF RealRows, Real, HeldReal, RealIn, PaidBy, Sent, WalletOf
<1>17. CASE UNCHANGED vars
  BY <1>17
     DEF vars, moving, RealRows, Real, HeldReal, RealIn, PaidBy, Sent, HashOf, WalletOf
<1> QED
  BY <1>1, <1>2, <1>3, <1>4, <1>5, <1>6, <1>7, <1>8, <1>9, <1>10, <1>11, <1>12,
     <1>13, <1>14, <1>15, <1>16, <1>17
     DEF Next, CreateReferralReward, PayAllPendingRewards, ProcessWaitBalanceRewards,
         SaveRewards, Handler

-----------------------------------------------------------------------------
(* Who is at work, and which rewards are new.                              *)

Paying == {"threshold", "find", "send", "refind"} \cup Loop

\* A step of a call until its rewards exist.
CreatesBy(c) ==
  /\ OnlyOf(c)
  /\ \/ /\ pc[c] = "idle" /\ rows' = rows /\ pc'[c] \in {"exists", "done"}
        /\ Serial => \A d \in Call : Referrer[SwapOf[d]] = Referrer[SwapOf[c]]
                                       => pc[d] \in Resting
     \/ /\ pc[c] = "exists" /\ rows' = rows
        /\ \/ /\ pc'[c] = "insertOutput"
              /\ \A r \in Reward : SwapOf[r[1]] = SwapOf[c] => rows[r].status = "none"
           \/ pc'[c] = "done"
     \/ /\ pc[c] = "insertOutput"
        /\ \/ pc'[c] = "insertSol" /\ rows' = [rows EXCEPT ![<<c, "MMP">>] = PendingRow]
           \/ pc'[c] = "done" /\ rows' = rows
     \/ /\ pc[c] = "insertSol"
        /\ \/ pc'[c] = "threshold" /\ rows' = [rows EXCEPT ![<<c, "SOL">>] = PendingRow]
           \/ pc'[c] = "done" /\ rows' = rows

Creates == \E c \in Call : CreatesBy(c)

\* A step of a payer, which writes a row from its copy or none.
PaysBy(h) ==
  /\ OnlyOf(h)
  /\ pc[h] \in Paying /\ pc'[h] \in Paying \cup {"done"}
  /\ rows' = rows \/ \E s \in saving[h] : s.reward \in Reward /\ Writes(h, s)

Pays == \E h \in Handler : PaysBy(h)

\* The first step of a notification.
Starts ==
  \E n \in Notice :
    /\ OnlyOf(n) /\ rows' = rows
    /\ pc[n] = "idle" /\ pc'[n] \in {"send", "done"}
    /\ Serial => \A m \in Notice : pc[m] \in Resting

\* A restart, or nothing.
Stops == rows' = rows /\ \A h \in Handler : pc'[h] = pc[h] \/ pc'[h] = "done"

LEMMA StepKinds == TypeInv /\ [Next]_vars => Creates \/ Pays \/ Starts \/ Stops
<1> SUFFICES ASSUME TypeInv, [Next]_vars
             PROVE  Creates \/ Pays \/ Starts \/ Stops
  OBVIOUS
<1>0. TypeOK /\ Existing /\ Placed
  BY DEF TypeInv
<1>h. (\A c \in Call : c \in Handler) /\ (\A n \in Notice : n \in Handler)
  BY DEF Handler
<1>p. {"threshold", "find", "send", "refind", "paid", "paidUpdate", "mark", "markUpdate"}
        \subseteq Paying
  BY DEF Paying, Loop
<1> USE <1>0, <1>h, <1>p
<1>1. ASSUME NEW c \in Call, CreateLookup(c)
      PROVE  Creates \/ Pays \/ Starts \/ Stops
  BY <1>1, LookupSteps DEF Creates, CreatesBy, Outside, Resting
<1>2. ASSUME NEW c \in Call, CreateExists(c)
      PROVE  Creates \/ Pays \/ Starts \/ Stops
  BY <1>2, ExistsSteps DEF Creates, CreatesBy, Outside, Resting
<1>3. ASSUME NEW c \in Call, CreateInsertOutput(c)
      PROVE  Creates \/ Pays \/ Starts \/ Stops
  <2>0. "MMP" \in Token
    BY DEF Token
  <2>1. CreatesBy(c)
    BY <1>3, <2>0, InsertSteps DEF CreateInsertOutput, CreatesBy, Resting
  <2> QED
    BY <2>1 DEF Creates
<1>4. ASSUME NEW c \in Call, CreateInsertSol(c)
      PROVE  Creates \/ Pays \/ Starts \/ Stops
  <2>0. "SOL" \in Token
    BY DEF Token
  <2>1. CreatesBy(c)
    BY <1>4, <2>0, InsertSteps DEF CreateInsertSol, CreatesBy, Resting
  <2> QED
    BY <2>1 DEF Creates
<1>5. ASSUME NEW c \in Call, CheckThreshold(c)
      PROVE  Creates \/ Pays \/ Starts \/ Stops
  <2>1. PaysBy(c)
    BY <1>5, ThresholdSteps DEF PaysBy, Outside, Paying, Resting
  <2> QED
    BY <2>1 DEF Pays
<1>6. ASSUME NEW c \in Call, FindPending(c)
      PROVE  Creates \/ Pays \/ Starts \/ Stops
  <2>1. PaysBy(c)
    BY <1>6, FindSteps, HandlersAssumption
       DEF PaysBy, Outside, Paying, Dropped, Failed, Resting
  <2> QED
    BY <2>1 DEF Pays
<1>7. ASSUME NEW c \in Call, PaySend(c)
      PROVE  Creates \/ Pays \/ Starts \/ Stops
  <2>1. SendToReferrer(c) /\ pc[c] = "send"
    BY <1>7 DEF PaySend
  <2>2. PaysBy(c)
    BY <2>1, SendSteps, HandlersAssumption DEF PaysBy, Paying, Failed, Resting
  <2> QED
    BY <2>2 DEF Pays
<1>8. ASSUME NEW c \in Call, Refind(c)
      PROVE  Creates \/ Pays \/ Starts \/ Stops
  <2>1. PaysBy(c)
    BY <1>8, RefindSteps, HandlersAssumption
       DEF PaysBy, Outside, Paying, Dropped, Failed, Resting
  <2> QED
    BY <2>1 DEF Pays
<1>9. ASSUME NEW h \in Handler, PaidSelect(h)
      PROVE  Creates \/ Pays \/ Starts \/ Stops
  <2>1. PaysBy(h)
    BY <1>9, PaidSelectSteps, HandlersAssumption
       DEF PaysBy, Outside, Paying, Failed, Resting
  <2> QED
    BY <2>1 DEF Pays
<1>10. ASSUME NEW h \in Handler, PaidUpdate(h)
       PROVE  Creates \/ Pays \/ Starts \/ Stops
  <2>1. SaveUpdate(h, "paid") /\ pc[h] = "paidUpdate"
    BY <1>10 DEF PaidUpdate
  <2>2. PaysBy(h)
    BY <2>1, SaveUpdateSteps, HandlersAssumption DEF PaysBy, Paying, Dropped, Resting
  <2> QED
    BY <2>2 DEF Pays
<1>11. ASSUME NEW h \in Handler, MarkSelect(h)
       PROVE  Creates \/ Pays \/ Starts \/ Stops
  <2>1. PaysBy(h)
    BY <1>11, MarkSelectSteps, HandlersAssumption
       DEF PaysBy, Outside, Paying, Dropped, Abandoned, Resting
  <2> QED
    BY <2>1 DEF Pays
<1>12. ASSUME NEW h \in Handler, MarkUpdate(h)
       PROVE  Creates \/ Pays \/ Starts \/ Stops
  <2>1. SaveUpdate(h, "mark") /\ pc[h] = "markUpdate"
    BY <1>12 DEF MarkUpdate
  <2>2. PaysBy(h)
    BY <2>1, SaveUpdateSteps, HandlersAssumption DEF PaysBy, Paying, Dropped, Resting
  <2> QED
    BY <2>2 DEF Pays
<1>13. ASSUME NEW n \in Notice, NoticeFind(n)
       PROVE  Creates \/ Pays \/ Starts \/ Stops
  BY <1>13, NoticeFindSteps DEF Starts, Outside, Resting
<1>14. ASSUME NEW n \in Notice, NoticeGroup(n)
       PROVE  Creates \/ Pays \/ Starts \/ Stops
  <2>1. PaysBy(n)
    BY <1>14, NoticeGroupSteps DEF PaysBy, Outside, Paying, Resting
  <2> QED
    BY <2>1 DEF Pays
<1>15. ASSUME NEW n \in Notice, NoticeSend(n)
       PROVE  Creates \/ Pays \/ Starts \/ Stops
  <2>1. SendToReferrer(n) /\ pc[n] = "send"
    BY <1>15 DEF NoticeSend
  <2>2. PaysBy(n)
    BY <2>1, SendSteps, HandlersAssumption DEF PaysBy, Paying, Failed, Resting
  <2> QED
    BY <2>2 DEF Pays
<1>16. CASE Crash
  BY <1>16, CrashSteps DEF Stops
<1>17. CASE UNCHANGED vars
  BY <1>17 DEF vars, moving, Stops
<1> QED
  BY <1>1, <1>2, <1>3, <1>4, <1>5, <1>6, <1>7, <1>8, <1>9, <1>10, <1>11, <1>12,
     <1>13, <1>14, <1>15, <1>16, <1>17
     DEF Next, CreateReferralReward, PayAllPendingRewards, ProcessWaitBalanceRewards,
         SaveRewards, Handler

\* Only the inserts of its own call make a reward, and no step unmakes one.
LEMMA Births ==
  ASSUME TypeInv, [Next]_vars, NEW r \in Reward
  PROVE  /\ rows[r].status # "none" => rows'[r].status # "none"
         /\ rows[r].status = "none" /\ rows'[r].status # "none" =>
              /\ CreatesBy(r[1])
              /\ pc[r[1]] = IF r[2] = "MMP" THEN "insertOutput" ELSE "insertSol"
              /\ \A q \in Reward \ {r} : rows'[q] = rows[q]
<1>0. TypeOK /\ Existing /\ Placed
  BY DEF TypeInv
<1>1. CASE rows' = rows
  BY <1>1
<1>2. ASSUME NEW h \in Handler, NEW s \in saving[h], s.reward \in Reward, Writes(h, s)
      PROVE  rows[r].status = "none" <=> rows'[r].status = "none"
  <2>1. rows[s.reward].status # "none" /\ held[h][s.reward].status # "none"
    BY <1>0, <1>2 DEF Existing, Placed, PlacedOf, Group
  <2>2. rows'[s.reward].status # "none"
    BY <1>2, <2>1, UpdatedColumns DEF Writes
  <2> QED
    BY <1>2, <2>1, <2>2 DEF Writes
<1>3. ASSUME NEW c \in Call, NEW t \in Token, CreatesBy(c),
             rows' = [rows EXCEPT ![<<c, t>>] = PendingRow],
             pc[c] = IF t = "MMP" THEN "insertOutput" ELSE "insertSol"
      PROVE  /\ rows[r].status # "none" => rows'[r].status # "none"
             /\ rows[r].status = "none" /\ rows'[r].status # "none" =>
                  /\ CreatesBy(r[1])
                  /\ pc[r[1]] = IF r[2] = "MMP" THEN "insertOutput" ELSE "insertSol"
                  /\ \A q \in Reward \ {r} : rows'[q] = rows[q]
  <2>1. <<c, t>> \in Reward /\ rows'[<<c, t>>] = PendingRow
    BY <1>0, <1>3, RewardParts DEF TypeOK
  <2>2. \A q \in Reward \ {<<c, t>>} : rows'[q] = rows[q]
    BY <1>0, <1>3 DEF TypeOK
  <2> QED
    BY <1>3, <2>1, <2>2, RowTypes
<1>4. CASE Creates
  <2>1. PICK c \in Call : CreatesBy(c)
    BY <1>4 DEF Creates
  <2>2. "MMP" \in Token /\ "SOL" \in Token
    BY DEF Token
  <2>3. \/ rows' = rows
        \/ pc[c] = "insertOutput" /\ rows' = [rows EXCEPT ![<<c, "MMP">>] = PendingRow]
        \/ pc[c] = "insertSol" /\ rows' = [rows EXCEPT ![<<c, "SOL">>] = PendingRow]
    BY <2>1 DEF CreatesBy
  <2> QED
    BY <1>1, <1>3, <2>1, <2>2, <2>3
<1> QED
  BY <1>1, <1>2, <1>4, StepKinds DEF Pays, PaysBy, Starts, Stops

\* The rewards a call has not come to do not exist.
Unborn(c) ==
  /\ pc[c] \in {"idle", "exists", "insertOutput"} =>
       \A t \in Token : rows[<<c, t>>].status = "none"
  /\ pc[c] = "insertSol" => rows[<<c, "SOL">>].status = "none"

UnbornInv == \A c \in Call : Unborn(c)

LEMMA InitUnborn == Init => UnbornInv
<1>1. "SOL" \in Token
  BY DEF Token
<1>2. ASSUME Init, NEW c \in Call, NEW t \in Token
      PROVE  rows[<<c, t>>].status = "none"
  <2>1. \A r \in Reward : rows[r].status = "none"
    BY <1>2, NoCopiesType, RowTypes DEF Init
  <2> QED
    BY <2>1, RewardParts
<1> QED
  BY <1>1, <1>2 DEF UnbornInv, Unborn

\* How a call comes to where it makes its rewards.
LEMMA Arrives ==
  ASSUME TypeInv, [Next]_vars, NEW c \in Call
  PROVE  /\ pc'[c] \in {"idle", "exists", "insertOutput"} =>
              pc[c] \in {"idle", "exists", "insertOutput"}
         /\ pc'[c] = "insertOutput" =>
              \/ pc[c] = "insertOutput"
              \/ /\ pc[c] = "exists" /\ rows' = rows
                 /\ \A r \in Reward : SwapOf[r[1]] = SwapOf[c] => rows[r].status = "none"
         /\ pc'[c] = "insertSol" =>
              \/ pc[c] = "insertSol"
              \/ /\ pc[c] = "insertOutput"
                 /\ rows' = [rows EXCEPT ![<<c, "MMP">>] = PendingRow]
         /\ CreatesBy(c) /\ pc[c] \in {"insertOutput", "insertSol"} => pc'[c] # pc[c]
         /\ pc[c] \in Resting /\ pc'[c] \notin Resting /\ Serial =>
              /\ OnlyOf(c)
              /\ \A d \in Call : Referrer[SwapOf[d]] = Referrer[SwapOf[c]] => pc[d] \in Resting
<1>0. c \in Handler /\ (\A n \in Notice : n \in Handler /\ n # c)
  BY HandlersAssumption DEF Handler
<1>1. \A d \in Call : CreatesBy(d) => d \in Handler
  BY DEF Handler
<1> QED
  BY <1>0, <1>1, StepKinds
     DEF Creates, Pays, Starts, Stops, CreatesBy, PaysBy, OnlyOf, Paying, Loop, Resting

LEMMA NextUnborn == TypeInv /\ UnbornInv /\ [Next]_vars => UnbornInv'
<1> SUFFICES ASSUME TypeInv, UnbornInv, [Next]_vars, NEW c \in Call
             PROVE  Unborn(c)'
  BY DEF UnbornInv
<1>0. "MMP" \in Token /\ "SOL" \in Token /\ (\A t \in Token : t \in {"MMP", "SOL"})
  BY DEF Token
<1>1. \A t \in Token : <<c, t>> \in Reward /\ <<c, t>>[1] = c /\ <<c, t>>[2] = t
  BY RewardParts
<1>2. ASSUME pc'[c] \in {"idle", "exists", "insertOutput"}, NEW t \in Token
      PROVE  rows'[<<c, t>>].status = "none"
  <2>1. rows[<<c, t>>].status = "none"
    BY <1>2, Arrives DEF UnbornInv, Unborn
  <2>2. SUFFICES ASSUME rows'[<<c, t>>].status # "none"
                 PROVE  FALSE
    OBVIOUS
  <2>3. CreatesBy(c) /\ pc[c] \in {"insertOutput", "insertSol"}
    BY <1>1, <2>1, <2>2, Births
  <2> QED
    BY <1>2, <2>3, Arrives DEF CreatesBy
<1>3. ASSUME pc'[c] = "insertSol"
      PROVE  rows'[<<c, "SOL">>].status = "none"
  <2>1. rows[<<c, "SOL">>].status = "none"
    BY <1>0, <1>3, Arrives DEF UnbornInv, Unborn
  <2>2. SUFFICES ASSUME rows'[<<c, "SOL">>].status # "none"
                 PROVE  FALSE
    OBVIOUS
  <2>3. CreatesBy(c) /\ pc[c] = "insertSol"
    BY <1>0, <1>1, <2>1, <2>2, Births
  <2> QED
    BY <1>3, <2>3, Arrives
<1> QED
  BY <1>2, <1>3 DEF Unborn

-----------------------------------------------------------------------------
(* One reward of each token for a swap order.                              *)

\* A referrer's calls are alone, and so is a notification.
Alone ==
  /\ \A c, d \in Call : /\ pc[c] \notin Resting /\ pc[d] \notin Resting
                        /\ Referrer[SwapOf[c]] = Referrer[SwapOf[d]]
                        => c = d
  /\ \A m, n \in Notice : pc[m] \notin Resting /\ pc[n] \notin Resting => m = n

\* What a call has found not to be there is not there.
FirstOf(c) ==
  /\ pc[c] = "insertOutput" =>
       \A r \in Reward : SwapOf[r[1]] = SwapOf[c] => rows[r].status = "none"
  /\ pc[c] = "insertSol" =>
       \A r \in Reward : SwapOf[r[1]] = SwapOf[c] /\ r[2] = "SOL" => rows[r].status = "none"

OneEach == \A r, s \in Reward : /\ SwapOf[r[1]] = SwapOf[s[1]] /\ r[2] = s[2]
                                /\ rows[r].status # "none" /\ rows[s].status # "none"
                                => r = s

SerialInv == Serial => Alone /\ (\A c \in Call : FirstOf(c)) /\ OneEach

LEMMA NextAlone ==
  ASSUME TypeInv, Serial, Alone, [Next]_vars
  PROVE  Alone'
<1>h. (\A c \in Call : c \in Handler) /\ (\A n \in Notice : n \in Handler)
  BY DEF Handler
<1>1. ASSUME NEW c \in Call, NEW d \in Call, c # d,
             pc'[c] \notin Resting, pc'[d] \notin Resting,
             Referrer[SwapOf[c]] = Referrer[SwapOf[d]]
      PROVE  FALSE
  <2>1. pc[c] \in Resting => pc[d] \in Resting /\ pc'[d] = pc[d]
    BY <1>h, <1>1, Arrives DEF OnlyOf
  <2>2. pc[d] \in Resting => pc[c] \in Resting /\ pc'[c] = pc[c]
    BY <1>h, <1>1, Arrives DEF OnlyOf
  <2> QED
    BY <1>1, <2>1, <2>2 DEF Alone
<1>2. ASSUME NEW n \in Notice, pc[n] \in Resting, pc'[n] \notin Resting
      PROVE  OnlyOf(n) /\ \A m \in Notice : pc[m] \in Resting
  <2>1. \A c \in Call : c # n
    BY HandlersAssumption
  <2> QED
    BY <1>h, <1>2, <2>1, StepKinds
       DEF Creates, Pays, Starts, Stops, CreatesBy, PaysBy, OnlyOf, Paying, Loop, Resting
<1>3. ASSUME NEW m \in Notice, NEW n \in Notice, m # n,
             pc'[m] \notin Resting, pc'[n] \notin Resting
      PROVE  FALSE
  <2>1. pc[m] \in Resting => pc[n] \in Resting /\ pc'[n] = pc[n]
    BY <1>h, <1>2, <1>3 DEF OnlyOf
  <2>2. pc[n] \in Resting => pc[m] \in Resting /\ pc'[m] = pc[m]
    BY <1>h, <1>2, <1>3 DEF OnlyOf
  <2> QED
    BY <1>3, <2>1, <2>2 DEF Alone
<1> QED
  BY <1>1, <1>3 DEF Alone

LEMMA NextSerialInv == TypeInv /\ SerialInv /\ [Next]_vars => SerialInv'
<1> SUFFICES ASSUME TypeInv, Serial, SerialInv, [Next]_vars
             PROVE  Alone' /\ (\A c \in Call : FirstOf(c)') /\ OneEach'
  BY DEF SerialInv, Serial, Next, vars
<1>0. Alone /\ (\A c \in Call : FirstOf(c)) /\ OneEach
  BY DEF SerialInv
<1>p. \A r \in Reward : r[1] \in Call /\ r[2] \in {"MMP", "SOL"}
  BY RewardParts DEF Token
\* Where a reward of the swap order of c is made, it is c that makes it.
<1>1. ASSUME NEW c \in Call, NEW r \in Reward, pc[c] \in {"insertOutput", "insertSol"},
             SwapOf[r[1]] = SwapOf[c],
             rows[r].status = "none", rows'[r].status # "none"
      PROVE  r[1] = c
  <2>1. pc[r[1]] \in {"insertOutput", "insertSol"}
    BY <1>1, Births
  <2> QED
    BY <1>0, <1>p, <1>1, <2>1 DEF Alone, Resting
<1>2. ASSUME NEW c \in Call
      PROVE  FirstOf(c)'
  <2>1. ASSUME pc'[c] = "insertOutput", NEW r \in Reward, SwapOf[r[1]] = SwapOf[c]
        PROVE  rows'[r].status = "none"
    <3>1. rows[r].status = "none"
      BY <1>0, <2>1, Arrives DEF FirstOf
    <3>2. CASE rows'[r].status # "none" /\ pc[c] = "insertOutput"
      <4>1. r[1] = c
        BY <1>1, <2>1, <3>1, <3>2
      <4>2. CreatesBy(c)
        BY <3>1, <3>2, <4>1, Births
      <4> QED
        BY <2>1, <3>2, <4>2, Arrives
    <3> QED
      BY <2>1, <3>1, <3>2, Arrives
  <2>2. ASSUME pc'[c] = "insertSol", NEW r \in Reward, SwapOf[r[1]] = SwapOf[c], r[2] = "SOL"
        PROVE  rows'[r].status = "none"
    <3>1. rows[r].status = "none" /\ pc[c] \in {"insertOutput", "insertSol"}
      BY <1>0, <2>2, Arrives DEF FirstOf
    <3>2. SUFFICES ASSUME rows'[r].status # "none"
                   PROVE  FALSE
      OBVIOUS
    <3>3. r[1] = c
      BY <1>1, <2>2, <3>1, <3>2
    <3>4. CreatesBy(c) /\ pc[c] = "insertSol"
      BY <2>2, <3>1, <3>2, <3>3, Births
    <3> QED
      BY <2>2, <3>4, Arrives
  <2> QED
    BY <2>1, <2>2 DEF FirstOf
<1>3. ASSUME NEW r \in Reward, NEW s \in Reward, SwapOf[r[1]] = SwapOf[s[1]], r[2] = s[2],
             rows[r].status = "none", rows'[r].status # "none", rows'[s].status # "none"
      PROVE  r = s
  <2>1. CASE rows[s].status = "none"
    BY <1>3, <2>1, Births
  <2>2. CASE rows[s].status # "none"
    <3>1. r[1] \in Call /\ FirstOf(r[1])
      BY <1>0, <1>p
    <3>2. pc[r[1]] = IF r[2] = "MMP" THEN "insertOutput" ELSE "insertSol"
      BY <1>3, Births
    <3> QED
      BY <1>3, <1>p, <2>2, <3>1, <3>2 DEF FirstOf
  <2> QED
    BY <2>1, <2>2
<1>4. OneEach'
  BY <1>0, <1>3 DEF OneEach
<1> QED
  BY <1>0, <1>2, <1>4, NextAlone

\* When a referrer's calls are served one at a time, a swap order has one reward
\* of each token however often it was completed and whatever failed.
THEOREM OneRewardPerSwap == Spec => []SerialOneRewardPerSwap
<1>1. Init => SerialInv
  BY RewardParts, NoCopiesType, RowTypes
     DEF Init, SerialInv, Alone, FirstOf, OneEach, Resting, Handler
<1>2. SerialInv => SerialOneRewardPerSwap
  BY DEF SerialInv, OneEach, SerialOneRewardPerSwap
<1> QED
  BY InitTypeInv, NextTypeInv, NextSerialInv, <1>1, <1>2, PTL DEF Spec

-----------------------------------------------------------------------------
(* One at a time, a payer writes rows that nobody else is about to write.  *)

\* What h still has to save.
Open(h, r) == r \in left[h] \/ \E s \in saving[h] : s.reward = r

\* A call pays and saves pending rewards of its referrer.
CallClaims(c) ==
  \A r \in Reward :
    Open(c, r) \/ (pc[c] = "send" /\ held[c][r].status # "none") =>
      rows[r].status = "pending" /\ WalletOf(r) = Referrer[SwapOf[c]]

\* A notification has rewards that are no longer pending; those it has still to
\* save wait for funds, unless the database failed half way.
NoticeClaims(n) ==
  \A r \in Reward :
    held[n][r].status # "none" =>
      /\ held[n][r].status # "pending" /\ rows[r].status \notin {"none", "pending"}
      /\ (~DbFaults /\ (pc[n] = "send" \/ r \notin Group(n) \/ Open(n, r))) =>
           rows[r].status = "wait_balance"

\* The row has not changed since the save read it.
Saves(h) ==
  \A s \in saving[h] :
    /\ rows[s.reward] = s.base
    /\ pc[h] = "paidUpdate" => held[h][s.reward].status = "paid"
    /\ pc[h] = "markUpdate" => held[h][s.reward].status = UnpaidStatus(h, s.reward)

ClaimsOf(h) ==
  /\ h \in Call => CallClaims(h)
  /\ (h \in Notice /\ pc[h] \notin Resting) => NoticeClaims(h)
  /\ Saves(h)
  /\ \A r \in Reward : held[h][r].status = "paid" => held[h][r].tx_hash # None

Claims == \A h \in Handler : ClaimsOf(h)

RowPaid == \A r \in Reward : rows[r].status = "paid" => rows[r].tx_hash # None

ClaimsInv == Serial => RowPaid /\ Claims

\* The rows that ClaimsOf(h) is about.
Claimed(h, r) ==
  \/ Open(h, r)
  \/ held[h][r].status # "none" /\ (pc[h] = "send" \/ (h \in Notice /\ pc[h] \notin Resting))

LEMMA ClaimedExists ==
  ASSUME TypeInv, NEW h \in Handler, NEW r \in Reward, Claimed(h, r)
  PROVE  held[h][r].status # "none" /\ rows[r].status # "none" /\ pc[h] \notin Resting
BY DEF TypeInv, Existing, Placed, PlacedOf, Group, Claimed, Open, Loop, Resting

LEMMA Exclusive ==
  ASSUME TypeInv, Alone, Claims, NEW g \in Handler, NEW h \in Handler, NEW r \in Reward,
         Claimed(g, r), Claimed(h, r)
  PROVE  g = h
<1>1. /\ held[g][r].status # "none" /\ pc[g] \notin Resting
      /\ held[h][r].status # "none" /\ pc[h] \notin Resting
  BY ClaimedExists
<1>2. \A x \in Handler : Claimed(x, r) =>
        /\ x \in Call => rows[r].status = "pending" /\ WalletOf(r) = Referrer[SwapOf[x]]
        /\ x \in Notice => rows[r].status # "pending"
  <2>1. SUFFICES ASSUME NEW x \in Handler, Claimed(x, r)
                 PROVE  /\ x \in Call => /\ rows[r].status = "pending"
                                         /\ WalletOf(r) = Referrer[SwapOf[x]]
                        /\ x \in Notice => rows[r].status # "pending"
    OBVIOUS
  <2>2. held[x][r].status # "none" /\ pc[x] \notin Resting
    BY <2>1, ClaimedExists
  <2> QED
    BY <2>1, <2>2, HandlersAssumption
       DEF Claims, ClaimsOf, CallClaims, NoticeClaims, Claimed
<1> QED
  BY <1>1, <1>2 DEF Alone, Handler

LEMMA ClaimsFrame ==
  ASSUME TypeInv, Claims, env' = env, NEW h \in Handler, OnlyOf(h), ClaimsOf(h)',
         \A g \in Handler \ {h}, r \in Reward : Claimed(g, r) => rows'[r] = rows[r]
  PROVE  Claims'
<1> SUFFICES ASSUME NEW g \in Handler, g # h
             PROVE  ClaimsOf(g)'
  BY DEF Claims
<1>1. ClaimsOf(g) /\ Group(g)' = Group(g) /\ DbFaults' = DbFaults
  BY DEF Claims, OnlyOf, Group, WalletOf, DbFaults
<1>2. \A r \in Reward : (Open(g, r)' <=> Open(g, r)) /\ UnpaidStatus(g, r)' = UnpaidStatus(g, r)
  BY DEF OnlyOf, Open, UnpaidStatus
<1>3. /\ pc'[g] = pc[g] /\ held'[g] = held[g] /\ saving'[g] = saving[g]
      /\ \A r \in Reward : WalletOf(r)' = WalletOf(r)
  BY DEF OnlyOf, WalletOf
<1>4. \A s \in saving[g] : s.reward \in Reward /\ Claimed(g, s.reward)
  BY DEF Claimed, Open, TypeInv, TypeOK
<1>5. CallClaims(g) => CallClaims(g)'
  BY <1>2, <1>3 DEF CallClaims, Claimed
<1>6. g \in Notice /\ pc[g] \notin Resting /\ NoticeClaims(g) => NoticeClaims(g)'
  BY <1>1, <1>2, <1>3 DEF NoticeClaims, Claimed
<1>7. Saves(g)'
  BY <1>1, <1>2, <1>3, <1>4 DEF ClaimsOf, Saves
<1> QED
  BY <1>1, <1>3, <1>5, <1>6, <1>7 DEF ClaimsOf

\* A call with nothing to save claims nothing.
LEMMA EmptyHanded ==
  ASSUME Claims, NEW c \in Call, left'[c] = {}, saving'[c] = {}, pc'[c] # "send",
         \A r \in Reward : held'[c][r] = held[c][r] \/ held'[c][r] = NoRow
  PROVE  ClaimsOf(c)'
<1>1. c \in Handler /\ c \notin Notice
  BY HandlersAssumption DEF Handler
<1> QED
  BY <1>1, RowTypes DEF Claims, ClaimsOf, CallClaims, Saves, Open

LEMMA ResterClaims ==
  ASSUME TypeInv, Claims, NEW c \in Call, held' = held, left' = left, saving' = saving,
         pc[c] \in {"idle", "exists", "insertOutput", "insertSol", "threshold"},
         pc'[c] # "send"
  PROVE  ClaimsOf(c)'
<1>1. left[c] = {} /\ saving[c] = {}
  BY DEF TypeInv, Placed, PlacedOf, Loop, Handler
<1> QED
  BY <1>1, EmptyHanded

\* The reward to be saved was one of the open ones.
LEMMA SelectsClaims ==
  ASSUME TypeInv, Claims, env' = env, NEW h \in Handler, OnlyOf(h), rows' = rows,
         pc[h] \in {"paid", "mark"}, NEW r \in left[h], r \in Reward, NEW x,
         Changes(h, r, x), Selects(h, r),
         held[h][r].status # "none", x.status \notin {"none", "pending"},
         x.status = "paid" => x.tx_hash # None,
         \/ pc'[h] = "paidUpdate" /\ x.status = "paid"
         \/ pc'[h] = "markUpdate" /\ x.status = UnpaidStatus(h, r)'
  PROVE  ClaimsOf(h)'
<1>1. Group(h)' = Group(h)
  BY DEF Group, Changes, Selects, WalletOf
<1>2. \A q \in Reward : Open(h, q)' => Open(h, q)
  BY DEF Open, Selects
<1>3. CallClaims(h) => CallClaims(h)'
  BY <1>2 DEF CallClaims, WalletOf
<1>4. DbFaults' = DbFaults
  BY DEF DbFaults
<1>5. ASSUME h \in Notice
      PROVE  NoticeClaims(h)'
  <2>1. NoticeClaims(h)
    BY <1>5 DEF Claims, ClaimsOf, Resting
  <2> QED
    BY <1>1, <1>2, <1>4, <2>1 DEF NoticeClaims, Changes
<1>6. Saves(h)'
  BY DEF Saves, Selects, Changes
<1> QED
  BY <1>3, <1>5, <1>6 DEF Claims, ClaimsOf, Changes

LEMMA SendClaims ==
  ASSUME TypeInv, RowPaid, Claims, env' = env, NEW h \in Handler,
         SendToReferrer(h), pc[h] = "send"
  PROVE  RowPaid' /\ Claims'
<1>0. TypeOK /\ Placed
  BY DEF TypeInv
<1>1. OnlyOf(h) /\ rows' = rows /\ job' = job /\ held' = held /\ left[h] = {} /\ saving[h] = {}
  BY <1>0, SendSteps DEF Placed, PlacedOf, Loop
<1>2. /\ saving'[h] = {} /\ pc'[h] \in {"paid", "mark", "refind"}
      /\ left'[h] = Group(h) \/ (h \in Call /\ left'[h] = {})
  BY <1>0, <1>1, SendSteps DEF Failed
<1>3. Group(h)' = Group(h) /\ DbFaults' = DbFaults
  BY <1>1 DEF Group, WalletOf, DbFaults
<1>4. ASSUME h \in Call
      PROVE  CallClaims(h)'
  <2>1. CallClaims(h)
    BY <1>4 DEF Claims, ClaimsOf
  <2> QED
    BY <1>1, <1>2, <2>1 DEF CallClaims, Open, Group, WalletOf
<1>5. ASSUME h \in Notice
      PROVE  NoticeClaims(h)'
  <2>1. NoticeClaims(h)
    BY <1>1, <1>5 DEF Claims, ClaimsOf, Resting
  <2> QED
    BY <1>1, <1>3, <2>1 DEF NoticeClaims
<1>6. ClaimsOf(h)'
  BY <1>1, <1>2, <1>4, <1>5 DEF Claims, ClaimsOf, Saves
<1> QED
  BY <1>1, <1>6, ClaimsFrame DEF RowPaid

LEMMA SaveUpdateClaims ==
  ASSUME TypeInv, Alone, RowPaid, Claims, env' = env, NEW h \in Handler,
         NEW loop \in {"paid", "mark"}, SaveUpdate(h, loop),
         pc[h] \in {"paidUpdate", "markUpdate"}
  PROVE  RowPaid' /\ Claims'
<1>0. TypeOK /\ Placed
  BY DEF TypeInv
<1>1. PICK s \in saving[h] : s.reward \in Reward /\ s.base \in Row /\ Writes(h, s)
  BY SaveUpdateSteps
<1>2. OnlyOf(h)
  BY SaveUpdateSteps
<1>3. Claimed(h, s.reward) /\ s.reward \in Group(h) /\ s.reward \notin left[h]
  BY <1>0 DEF Claimed, Open, Placed, PlacedOf
<1>4. rows'[s.reward] = held[h][s.reward]
  <2>1. rows[s.reward] = s.base /\ held[h][s.reward] \in Row
    BY <1>0, <1>1 DEF Claims, ClaimsOf, Saves, TypeOK
  <2> QED
    BY <1>1, <2>1, UpdatedColumns DEF Writes
<1>5. RowPaid'
  BY <1>1, <1>4 DEF RowPaid, Claims, ClaimsOf, Writes
<1>6. \A g \in Handler \ {h}, r \in Reward : Claimed(g, r) => rows'[r] = rows[r]
  BY <1>1, <1>3, Exclusive DEF Writes
<1>7. ASSUME Dropped(h)
      PROVE  ClaimsOf(h)'
  <2>1. CASE h \in Call
    <3>1. /\ left'[h] = {} /\ saving'[h] = {} /\ pc'[h] # "send"
          /\ \A r \in Reward : held'[h][r] = held[h][r] \/ held'[h][r] = NoRow
      BY <1>7, <2>1, HandlersAssumption DEF Dropped
    <3> QED
      BY <2>1, <3>1, EmptyHanded
  <2>2. CASE h \in Notice
    <3>1. NoticeClaims(h) /\ DbFaults' = DbFaults
      BY <2>2 DEF Claims, ClaimsOf, Resting, DbFaults
    <3>2. \A r \in Reward : held'[h][r].status # "none" =>
            r \notin Group(h) /\ held'[h][r] = held[h][r] /\ rows'[r] = rows[r]
      BY <1>1, <1>3, <1>7, RowTypes DEF Dropped, Writes
    <3>3. NoticeClaims(h)'
      BY <3>1, <3>2 DEF NoticeClaims
    <3> QED
      BY <1>7, <2>2, <3>3, RowTypes, HandlersAssumption DEF Dropped, Claims, ClaimsOf, Saves
  <2> QED
    BY <2>1, <2>2 DEF Handler
<1>8. ASSUME pc'[h] = loop, saving'[h] = {}, left'[h] = left[h],
             job'[h] = job[h], held'[h] = held[h]
      PROVE  ClaimsOf(h)'
  <2>1. Group(h)' = Group(h) /\ DbFaults' = DbFaults
    BY <1>8 DEF Group, WalletOf, DbFaults
  <2>2. \A r \in Reward : Open(h, r)' => Open(h, r) /\ r # s.reward
    BY <1>3, <1>8 DEF Open
  <2>3. ASSUME h \in Call
        PROVE  CallClaims(h)'
    <3>1. CallClaims(h)
      BY <2>3 DEF Claims, ClaimsOf
    <3> QED
      BY <1>1, <1>8, <2>2, <3>1 DEF CallClaims, Writes, WalletOf
  <2>4. ASSUME h \in Notice
        PROVE  NoticeClaims(h)'
    <3>1. NoticeClaims(h)
      BY <2>4 DEF Claims, ClaimsOf, Resting
    <3> QED
      BY <1>1, <1>3, <1>4, <1>8, <2>1, <2>2, <3>1 DEF NoticeClaims, Writes
  <2> QED
    BY <1>8, <2>3, <2>4 DEF Claims, ClaimsOf, Saves
<1>9. ClaimsOf(h)'
  BY <1>7, <1>8, SaveUpdateSteps
<1> QED
  BY <1>2, <1>5, <1>6, <1>9, ClaimsFrame

LEMMA InitClaims == Init => ClaimsInv
BY RowTypes, NoCopiesType
   DEF Init, ClaimsInv, RowPaid, Claims, ClaimsOf, CallClaims, Saves, Open, Resting, Handler

LEMMA NextClaims ==
  TypeInv /\ UnbornInv /\ SerialInv /\ ClaimsInv /\ [Next]_vars => ClaimsInv'
<1> SUFFICES ASSUME TypeInv, UnbornInv, Alone, RowPaid, Claims, [Next]_vars
             PROVE  RowPaid' /\ Claims'
  BY DEF SerialInv, ClaimsInv, Serial, Next, vars
<1>0. TypeOK /\ Existing /\ Placed /\ env' = env
  BY DEF TypeInv, Next, vars
<1>h. (\A c \in Call : c \in Handler) /\ (\A n \in Notice : n \in Handler)
  BY DEF Handler
<1> USE <1>0, <1>h
<1>1. ASSUME NEW c \in Call, CreateLookup(c)
      PROVE  RowPaid' /\ Claims'
  <2>1. /\ OnlyOf(c) /\ Outside /\ Memory /\ pc[c] = "idle"
        /\ pc'[c] \in {"exists", "insertOutput", "find", "done"}
    BY <1>1, LookupSteps
  <2>2. ClaimsOf(c)'
    BY <2>1, ResterClaims DEF Memory
  <2> QED
    BY <2>1, <2>2, ClaimsFrame DEF Outside, RowPaid
<1>2. ASSUME NEW c \in Call, CreateExists(c)
      PROVE  RowPaid' /\ Claims'
  <2>1. /\ OnlyOf(c) /\ Outside /\ Memory /\ pc[c] = "exists"
        /\ pc'[c] \in {"exists", "insertOutput", "find", "done"}
    BY <1>2, ExistsSteps
  <2>2. ClaimsOf(c)'
    BY <2>1, ResterClaims DEF Memory
  <2> QED
    BY <2>1, <2>2, ClaimsFrame DEF Outside, RowPaid
<1>3. ASSUME NEW c \in Call, CreateInsertOutput(c)
      PROVE  RowPaid' /\ Claims'
  <2>0. "MMP" \in Token
    BY DEF Token
  <2>1. /\ OnlyOf(c) /\ Memory /\ pc[c] = "insertOutput" /\ pc'[c] \in {"insertSol", "done"}
        /\ rows' = rows \/ rows' = [rows EXCEPT ![<<c, "MMP">>] = PendingRow]
    BY <1>3, <2>0, InsertSteps DEF CreateInsertOutput
  <2>2. /\ <<c, "MMP">> \in Reward /\ rows[<<c, "MMP">>].status = "none"
        /\ \A r \in Reward : rows'[r] = rows[r] \/ (r = <<c, "MMP">> /\ rows'[r] = PendingRow)
    BY <2>0, <2>1, RewardParts DEF UnbornInv, Unborn, TypeOK
  <2>3. ClaimsOf(c)'
    BY <2>1, ResterClaims DEF Memory
  <2>4. \A g \in Handler, r \in Reward : Claimed(g, r) => rows'[r] = rows[r]
    BY <2>2, ClaimedExists
  <2>5. RowPaid'
    BY <2>2, RowTypes DEF RowPaid
  <2> QED
    BY <2>1, <2>3, <2>4, <2>5, ClaimsFrame
<1>4. ASSUME NEW c \in Call, CreateInsertSol(c)
      PROVE  RowPaid' /\ Claims'
  <2>0. "SOL" \in Token
    BY DEF Token
  <2>1. /\ OnlyOf(c) /\ Memory /\ pc[c] = "insertSol" /\ pc'[c] \in {"threshold", "done"}
        /\ rows' = rows \/ rows' = [rows EXCEPT ![<<c, "SOL">>] = PendingRow]
    BY <1>4, <2>0, InsertSteps DEF CreateInsertSol
  <2>2. /\ <<c, "SOL">> \in Reward /\ rows[<<c, "SOL">>].status = "none"
        /\ \A r \in Reward : rows'[r] = rows[r] \/ (r = <<c, "SOL">> /\ rows'[r] = PendingRow)
    BY <2>0, <2>1, RewardParts DEF UnbornInv, Unborn, TypeOK
  <2>3. ClaimsOf(c)'
    BY <2>1, ResterClaims DEF Memory
  <2>4. \A g \in Handler, r \in Reward : Claimed(g, r) => rows'[r] = rows[r]
    BY <2>2, ClaimedExists
  <2>5. RowPaid'
    BY <2>2, RowTypes DEF RowPaid
  <2> QED
    BY <2>1, <2>3, <2>4, <2>5, ClaimsFrame
<1>5. ASSUME NEW c \in Call, CheckThreshold(c)
      PROVE  RowPaid' /\ Claims'
  <2>1. /\ OnlyOf(c) /\ Outside /\ Memory /\ pc[c] = "threshold"
        /\ pc'[c] \in {"exists", "insertOutput", "find", "done"}
    BY <1>5, ThresholdSteps
  <2>2. ClaimsOf(c)'
    BY <2>1, ResterClaims DEF Memory
  <2> QED
    BY <2>1, <2>2, ClaimsFrame DEF Outside, RowPaid
<1>6. ASSUME NEW c \in Call, FindPending(c)
      PROVE  RowPaid' /\ Claims'
  <2>1. OnlyOf(c) /\ Outside /\ pc[c] = "find" /\ left[c] = {} /\ saving[c] = {}
    BY <1>6, FindSteps DEF Placed, PlacedOf, Loop
  <2>2. ASSUME TakesPending(c) /\ left'[c] = left[c] /\ pc'[c] = "send" /\ rent' = rent
        PROVE  ClaimsOf(c)'
    <3>1. \A r \in Reward : held'[c][r].status # "none" =>
            /\ rows[r].status = "pending" /\ held'[c][r] = rows[r]
            /\ WalletOf(r) = Referrer[SwapOf[c]]
      BY <2>1, <2>2, RowTypes DEF TakesPending, PendingOf, Placed, PlacedOf, Resting
    <3> QED
      BY <2>1, <2>2, <3>1, HandlersAssumption
         DEF TakesPending, Outside, ClaimsOf, CallClaims, Saves, Open, WalletOf
  <2>3. ASSUME Dropped(c)
        PROVE  ClaimsOf(c)'
    <3>1. /\ left'[c] = {} /\ saving'[c] = {} /\ pc'[c] # "send"
          /\ \A r \in Reward : held'[c][r] = held[c][r] \/ held'[c][r] = NoRow
      BY <2>3, HandlersAssumption DEF Dropped
    <3> QED
      BY <3>1, EmptyHanded
  <2>4. ASSUME Failed(c) /\ held'[c] = held[c]
        PROVE  ClaimsOf(c)'
    <3>1. left'[c] = {} /\ saving'[c] = {} /\ pc'[c] # "send"
      BY <2>1, <2>4, HandlersAssumption DEF Failed
    <3> QED
      BY <2>4, <3>1, EmptyHanded
  <2>5. ClaimsOf(c)'
    BY <1>6, <2>2, <2>3, <2>4, FindSteps
  <2> QED
    BY <2>1, <2>5, ClaimsFrame DEF Outside, RowPaid
<1>7. ASSUME NEW c \in Call, PaySend(c)
      PROVE  RowPaid' /\ Claims'
  <2>1. SendToReferrer(c) /\ pc[c] = "send"
    BY <1>7 DEF PaySend
  <2> QED
    BY <2>1, SendClaims
<1>8. ASSUME NEW c \in Call, Refind(c)
      PROVE  RowPaid' /\ Claims'
  <2>1. OnlyOf(c) /\ Outside /\ pc[c] = "refind" /\ saving[c] = {}
    BY <1>8, RefindSteps DEF Placed, PlacedOf
  <2>2. ASSUME TakesPending(c) /\ left'[c] = PendingOf(c) /\ pc'[c] = "mark"
        PROVE  ClaimsOf(c)'
    <3>1. /\ \A r \in Reward : held'[c][r].status # "paid"
          /\ \A r \in left'[c] : rows[r].status = "pending" /\ WalletOf(r) = Referrer[SwapOf[c]]
      BY <2>1, <2>2, RowTypes DEF TakesPending, PendingOf, Placed, PlacedOf, Resting
    <3> QED
      BY <2>1, <2>2, <3>1, HandlersAssumption
         DEF TakesPending, Outside, ClaimsOf, CallClaims, Saves, Open, WalletOf
  <2>3. ASSUME Dropped(c)
        PROVE  ClaimsOf(c)'
    <3>1. /\ left'[c] = {} /\ saving'[c] = {} /\ pc'[c] # "send"
          /\ \A r \in Reward : held'[c][r] = held[c][r] \/ held'[c][r] = NoRow
      BY <2>3, HandlersAssumption DEF Dropped
    <3> QED
      BY <3>1, EmptyHanded
  <2>4. ClaimsOf(c)'
    BY <1>8, <2>2, <2>3, RefindSteps
  <2> QED
    BY <2>1, <2>4, ClaimsFrame DEF Outside, RowPaid
<1>9. ASSUME NEW h \in Handler, PaidSelect(h)
      PROVE  RowPaid' /\ Claims'
  <2>1. OnlyOf(h) /\ Outside /\ job' = job /\ pc[h] = "paid" /\ HashOf(h) \in Hash
    BY <1>9, PaidSelectSteps
  <2>2. PICK r \in left[h] :
          /\ r \in Reward
          /\ Changes(h, r, [status |-> "paid", tx_hash |-> HashOf(h)])
          /\ \/ Selects(h, r) /\ pc'[h] = "paidUpdate"
             \/ DbFaults /\ Failed(h)
    BY <1>9, PaidSelectSteps
  <2>3. held[h][r].status # "none" /\ held'[h][r].status = "paid" /\ held'[h][r].tx_hash # None
    BY <2>1, <2>2, NoneAssumption DEF Changes, Placed, PlacedOf, Group
  <2>4. ASSUME Selects(h, r) /\ pc'[h] = "paidUpdate"
        PROVE  ClaimsOf(h)'
    BY <2>1, <2>2, <2>3, <2>4, SelectsClaims DEF Outside, Changes
  <2>5. ASSUME DbFaults /\ Failed(h)
        PROVE  ClaimsOf(h)'
    <3>1. ASSUME h \in Call
          PROVE  ClaimsOf(h)'
      BY <2>1, <2>2, <2>3, <2>5, <3>1, HandlersAssumption
         DEF Failed, Changes, Outside, Claims, ClaimsOf, CallClaims, Saves, Open, WalletOf
    <3>2. ASSUME h \in Notice
          PROVE  ClaimsOf(h)'
      BY <2>1, <2>2, <2>3, <2>5, <3>2, HandlersAssumption
         DEF Failed, Changes, Outside, Claims, ClaimsOf, NoticeClaims, Saves, DbFaults,
             Resting
    <3> QED
      BY <3>1, <3>2 DEF Handler
  <2>6. ClaimsOf(h)'
    BY <2>2, <2>4, <2>5
  <2> QED
    BY <2>1, <2>6, ClaimsFrame DEF Outside, RowPaid
<1>10. ASSUME NEW h \in Handler, PaidUpdate(h)
       PROVE  RowPaid' /\ Claims'
  <2>1. SaveUpdate(h, "paid") /\ pc[h] = "paidUpdate"
    BY <1>10 DEF PaidUpdate
  <2> QED
    BY <2>1, SaveUpdateClaims
<1>11. ASSUME NEW h \in Handler, MarkSelect(h)
       PROVE  RowPaid' /\ Claims'
  <2>1. OnlyOf(h) /\ Outside /\ rent' = rent /\ pc[h] = "mark"
    BY <1>11, MarkSelectSteps
  <2>2. ASSUME NEW r \in left[h], r \in Reward,
               Changes(h, r, [held[h][r] EXCEPT !.status = UnpaidStatus(h, r)]),
               Selects(h, r), pc'[h] = "markUpdate"
        PROVE  ClaimsOf(h)'
    <3>1. /\ held[h][r].status # "none" /\ held'[h][r].status = UnpaidStatus(h, r)
          /\ UnpaidStatus(h, r) \in {"wait_balance", "failed"}
      BY <2>2 DEF Changes, Placed, PlacedOf, Group, TypeOK, Row, UnpaidStatus
    <3>2. UnpaidStatus(h, r)' = UnpaidStatus(h, r)
      BY <2>1 DEF UnpaidStatus
    <3> QED
      BY <2>1, <2>2, <3>1, <3>2, SelectsClaims DEF Outside, Changes
  <2>3. ASSUME DbFaults /\ (Dropped(h) \/ Abandoned(h))
        PROVE  ClaimsOf(h)'
    <3>1. /\ left'[h] = {} /\ saving'[h] = {} /\ pc'[h] \in {"find", "send", "done"}
          /\ pc'[h] = "send" => h \in Notice
          /\ \A r \in Reward : held'[h][r] = held[h][r] \/ held'[h][r] = NoRow
      BY <2>3 DEF Dropped, Abandoned
    <3>2. ASSUME h \in Call
          PROVE  ClaimsOf(h)'
      BY <3>1, <3>2, EmptyHanded, HandlersAssumption
    <3>3. ASSUME h \in Notice
          PROVE  ClaimsOf(h)'
      BY <2>1, <2>3, <3>1, <3>3, HandlersAssumption, RowTypes
         DEF Outside, Claims, ClaimsOf, NoticeClaims, Saves, DbFaults, Resting
    <3> QED
      BY <3>2, <3>3 DEF Handler
  <2>4. ClaimsOf(h)'
    BY <1>11, <2>2, <2>3, MarkSelectSteps
  <2> QED
    BY <2>1, <2>4, ClaimsFrame DEF Outside, RowPaid
<1>12. ASSUME NEW h \in Handler, MarkUpdate(h)
       PROVE  RowPaid' /\ Claims'
  <2>1. SaveUpdate(h, "mark") /\ pc[h] = "markUpdate"
    BY <1>12 DEF MarkUpdate
  <2> QED
    BY <2>1, SaveUpdateClaims
<1>13. ASSUME NEW n \in Notice, NoticeFind(n)
       PROVE  RowPaid' /\ Claims'
  <2>1. /\ OnlyOf(n) /\ Outside /\ pc'[n] \in {"send", "done"}
        /\ left[n] = {} /\ saving[n] = {} /\ left' = left /\ saving' = saving
    BY <1>13, NoticeFindSteps DEF Placed, PlacedOf, Loop
  <2>2. \A r \in Reward : \/ held'[n][r] = NoRow
                          \/ held'[n][r] = rows[r] /\ rows[r].status = "wait_balance"
    BY <1>13, NoticeFindSteps DEF Waiting
  <2>3. ClaimsOf(n)'
    BY <2>1, <2>2, RowTypes, HandlersAssumption
       DEF Outside, ClaimsOf, NoticeClaims, Saves
  <2> QED
    BY <2>1, <2>3, ClaimsFrame DEF Outside, RowPaid
<1>14. ASSUME NEW n \in Notice, NoticeGroup(n)
       PROVE  RowPaid' /\ Claims'
  <2>1. /\ OnlyOf(n) /\ Outside /\ Memory /\ pc' = pc /\ pc[n] = "send"
        /\ saving[n] = {}
    BY <1>14, NoticeGroupSteps DEF Placed, PlacedOf
  <2>2. ClaimsOf(n)'
    BY <2>1, HandlersAssumption
       DEF Outside, Memory, Claims, ClaimsOf, NoticeClaims, Saves, Resting, DbFaults
  <2> QED
    BY <2>1, <2>2, ClaimsFrame DEF Outside, RowPaid
<1>15. ASSUME NEW n \in Notice, NoticeSend(n)
       PROVE  RowPaid' /\ Claims'
  <2>1. SendToReferrer(n) /\ pc[n] = "send"
    BY <1>15 DEF NoticeSend
  <2> QED
    BY <2>1, SendClaims
<1>16. CASE Crash
  <2>1. /\ rows' = rows
        /\ \A h \in Handler : /\ pc'[h] \in Resting /\ left'[h] = {} /\ saving'[h] = {}
                              /\ \A r \in Reward : held'[h][r] = NoRow
    BY <1>16, CrashSteps DEF Resting
  <2> QED
    BY <2>1, RowTypes DEF RowPaid, Claims, ClaimsOf, CallClaims, Saves, Open, Resting
<1>17. CASE UNCHANGED vars
  BY <1>17
     DEF vars, moving, RowPaid, Claims, ClaimsOf, CallClaims, NoticeClaims, Saves, Open,
         Group, UnpaidStatus, DbFaults, WalletOf
<1> QED
  BY <1>1, <1>2, <1>3, <1>4, <1>5, <1>6, <1>7, <1>8, <1>9, <1>10, <1>11, <1>12,
     <1>13, <1>14, <1>15, <1>16, <1>17
     DEF Next, CreateReferralReward, PayAllPendingRewards, ProcessWaitBalanceRewards,
         SaveRewards, Handler

\* A reward that is PAID was sent, a hash in a row is that of a transaction that
\* paid this reward to its referrer, and one at a time a PAID row has a hash.
THEOREM HashesPayHolds == Spec => []HashesPay
<1>1. HashInv /\ ClaimsInv => HashesPay
  BY DEF HashInv, RealRows, RealIn, Sent, ClaimsInv, RowPaid, HashesPay
<1>2. Init => SerialInv
  BY RewardParts, NoCopiesType, RowTypes
     DEF Init, SerialInv, Alone, FirstOf, OneEach, Resting, Handler
<1> QED
  BY InitTypeInv, NextTypeInv, InitHashInv, NextHashInv, InitUnborn, NextUnborn,
     <1>2, NextSerialInv, InitClaims, NextClaims, <1>1, PTL DEF Spec

-----------------------------------------------------------------------------
(* One at a time and without a loss, no reward is sent twice.              *)

\* What was sent is not decided yet, but its sender goes on to decide it.
Undecided(h, r) ==
  /\ \/ Open(h, r) /\ pc[h] \in Loop
     \/ /\ h \in Call /\ pc[h] = "refind" /\ rows[r].status = "pending"
        /\ WalletOf(r) = job[h].wallet /\ r[2] = job[h].token
  /\ h \in Call /\ pc[h] \in {"refind", "mark", "markUpdate"} => h \notin rent

DecidedBy(h) ==
  \A p \in ledger : p.hash.by = h =>
    \A r \in p.rewards : rows[r].status \in {"paid", "failed"} \/ Undecided(h, r)

Decides == \A h \in Handler : DecidedBy(h)

OnceOnly == \A p, q \in ledger : p.rewards \cap q.rewards # {} => p = q

SentInv == Serial /\ NoLoss => OnceOnly /\ Decides

\* What h has claimed nobody else is about to decide.
LEMMA ClaimedUndecided ==
  ASSUME TypeInv, Alone, Claims, NEW g \in Handler, NEW h \in Handler, NEW r \in Reward,
         Undecided(g, r), Claimed(h, r)
  PROVE  g = h
<1>1. CASE Open(g, r)
  BY <1>1, Exclusive DEF Claimed
<1>2. CASE /\ g \in Call /\ pc[g] = "refind" /\ rows[r].status = "pending"
           /\ WalletOf(r) = job[g].wallet
  <2>1. WalletOf(r) = Referrer[SwapOf[g]] /\ pc[g] \notin Resting /\ pc[h] \notin Resting
    BY <1>2, ClaimedExists DEF TypeInv, Placed, PlacedOf, Resting
  <2>2. held[h][r].status # "none"
    BY ClaimedExists
  <2>3. h \in Call /\ WalletOf(r) = Referrer[SwapOf[h]]
    BY <1>2, <2>1, <2>2 DEF Claims, ClaimsOf, CallClaims, NoticeClaims, Claimed, Handler
  <2> QED
    BY <1>2, <2>1, <2>3 DEF Alone
<1> QED
  BY <1>1, <1>2 DEF Undecided

LEMMA DecidesFrame ==
  ASSUME TypeInv, Alone, Claims, Decides, OnceOnly, NEW h \in Handler, OnlyOf(h),
         ledger' = ledger, DecidedBy(h)',
         \A r \in Reward : \/ rows'[r] = rows[r] \/ rows[r].status = "none"
                           \/ Claimed(h, r) /\ rows[r].status \in {"pending", "wait_balance"}
  PROVE  OnceOnly' /\ Decides'
<1>1. OnceOnly'
  BY DEF OnceOnly
<1>2. SUFFICES ASSUME NEW g \in Handler, g # h
               PROVE  DecidedBy(g)'
  BY <1>1 DEF Decides
<1>3. ASSUME NEW p \in ledger, p.hash.by = g, NEW r \in p.rewards,
             rows'[r].status \notin {"paid", "failed"}
      PROVE  Undecided(g, r)'
  <2>1. r \in Reward
    BY DEF TypeInv, TypeOK
  <2>2. rows[r].status \in {"paid", "failed"} \/ Undecided(g, r)
    BY <1>3 DEF Decides, DecidedBy
  <2>3. Undecided(g, r) /\ ~Claimed(h, r)
    <3>1. CASE Claimed(h, r) /\ rows[r].status \in {"pending", "wait_balance"}
      BY <1>2, <2>1, <2>2, <3>1, ClaimedUndecided
    <3>2. CASE rows'[r] = rows[r] \/ rows[r].status = "none"
      BY <1>2, <1>3, <2>1, <2>2, <3>2, ClaimedUndecided
    <3> QED
      BY <2>1, <3>1, <3>2
  <2>4. rows[r].status = "pending" => rows'[r] = rows[r]
    BY <2>1, <2>3
  <2>5. Open(g, r)' <=> Open(g, r)
    BY <1>2 DEF OnlyOf, Open
  <2>6. /\ pc'[g] = pc[g] /\ job'[g] = job[g] /\ (g \in rent' <=> g \in rent)
        /\ WalletOf(r)' = WalletOf(r)
    BY <1>2 DEF OnlyOf, WalletOf
  <2> QED
    BY <2>3, <2>4, <2>5, <2>6 DEF Undecided
<1> QED
  BY <1>3 DEF DecidedBy

\* A handler that is not saving has decided all it sent.
LEMMA Settled ==
  ASSUME TypeInv, Decides, NEW h \in Handler, pc[h] \notin Loop \cup {"refind"},
         ledger' = ledger,
         \A r \in Reward : rows'[r] = rows[r] \/ rows[r].status = "none"
  PROVE  DecidedBy(h)'
<1>1. \A r \in Reward : ~Undecided(h, r)
  BY DEF Undecided
<1> QED
  BY <1>1 DEF Decides, DecidedBy, TypeInv, TypeOK

\* What is about to be sent has not been sent.
LEMMA Fresh ==
  ASSUME TypeInv, Alone, Claims, Decides, ~DbFaults, NEW h \in Handler, pc[h] = "send",
         NEW r \in Group(h)
  PROVE  /\ rows[r].status \in {"pending", "wait_balance"}
         /\ h \in Call => rows[r].status = "pending"
         /\ \A p \in ledger : r \notin p.rewards
<1>1. r \in Reward /\ Claimed(h, r) /\ held[h][r].status # "none"
  BY DEF Group, Claimed
<1>2. /\ rows[r].status \in {"pending", "wait_balance"}
      /\ h \in Call => rows[r].status = "pending"
  <2>1. CASE h \in Call
    BY <1>1, <2>1 DEF Claims, ClaimsOf, CallClaims
  <2>2. CASE h \in Notice
    BY <1>1, <2>2, HandlersAssumption DEF Claims, ClaimsOf, NoticeClaims, Resting
  <2> QED
    BY <2>1, <2>2 DEF Handler
<1>3. ASSUME NEW p \in ledger, r \in p.rewards
      PROVE  FALSE
  <2>1. p.hash.by \in Handler
    BY DEF TypeInv, TypeOK, Hash
  <2>2. Undecided(p.hash.by, r)
    BY <1>2, <1>3, <2>1 DEF Decides, DecidedBy
  <2>3. p.hash.by = h
    BY <1>1, <2>1, <2>2, ClaimedUndecided
  <2> QED
    BY <2>2, <2>3 DEF Undecided, Loop
<1> QED
  BY <1>2, <1>3

LEMMA SendDecides ==
  ASSUME TypeInv, Alone, Claims, Decides, OnceOnly, ~DbFaults, NEW h \in Handler,
         SendToReferrer(h), pc[h] = "send"
  PROVE  OnceOnly' /\ Decides'
<1>0. TypeOK /\ Placed
  BY DEF TypeInv
<1> DEFINE e == [hash |-> HashOf(h), rewards |-> Group(h)]
<1>1. /\ OnlyOf(h) /\ rows' = rows /\ job' = job
      /\ ledger' = ledger \/ ledger' = ledger \cup {e}
  BY <1>0, SendSteps
<1>2. OnceOnly'
  <2>1. \A p \in ledger : p.rewards \cap e.rewards = {}
    BY Fresh
  <2> QED
    BY <1>1, <2>1 DEF OnceOnly
<1>3. \A r \in Group(h) : ledger' # ledger => Undecided(h, r)'
  <2>1. SUFFICES ASSUME NEW r \in Group(h), ledger' # ledger
                 PROVE  Undecided(h, r)'
    OBVIOUS
  <2>2. /\ rows[r].status = "pending" \/ h \notin Call
        /\ WalletOf(r) = job[h].wallet /\ r[2] = job[h].token
    BY Fresh DEF Group
  <2>3. \/ pc'[h] = "paid" /\ left'[h] = Group(h)
        \/ Failed(h) /\ h \notin rent'
    BY <1>0, <2>1, SendSteps
  <2> QED
    BY <1>1, <2>2, <2>3, HandlersAssumption DEF Failed, Undecided, Open, Loop, WalletOf
<1>4. \A p \in ledger : p.hash.by = h => \A r \in p.rewards : rows[r].status \in {"paid", "failed"}
  <2>1. \A r \in Reward : ~Undecided(h, r)
    BY DEF Undecided, Loop
  <2> QED
    BY <1>0, <2>1 DEF Decides, DecidedBy, TypeOK
<1>5. DecidedBy(h)'
  BY <1>1, <1>3, <1>4 DEF DecidedBy
<1>6. ASSUME NEW g \in Handler, g # h
      PROVE  DecidedBy(g)'
  <2>1. DecidedBy(g)
    BY DEF Decides
  <2>2. e.hash.by = h
    BY DEF HashOf
  <2>3. \A r \in Reward : Undecided(g, r) => Undecided(g, r)'
    BY <1>1, <1>6 DEF OnlyOf, Undecided, Open, WalletOf
  <2> QED
    BY <1>0, <1>1, <1>6, <2>1, <2>2, <2>3 DEF DecidedBy, TypeOK
<1> QED
  BY <1>2, <1>5, <1>6 DEF Decides

LEMMA SaveUpdateDecides ==
  ASSUME TypeInv, Alone, Claims, Decides, OnceOnly, ~DbFaults, NEW h \in Handler,
         NEW loop, SaveUpdate(h, loop),
         \/ loop = "paid" /\ pc[h] = "paidUpdate"
         \/ loop = "mark" /\ pc[h] = "markUpdate"
  PROVE  OnceOnly' /\ Decides'
<1>0. TypeOK /\ Placed
  BY DEF TypeInv
<1>1. PICK s \in saving[h] : s.reward \in Reward /\ s.base \in Row /\ Writes(h, s)
  BY SaveUpdateSteps
<1>2. OnlyOf(h) /\ ledger' = ledger /\ rent' = rent
  BY SaveUpdateSteps
<1>3. /\ Claimed(h, s.reward) /\ Open(h, s.reward)
      /\ s.reward \in Group(h) /\ s.reward \notin left[h]
  BY <1>0 DEF Claimed, Open, Placed, PlacedOf
<1>4. rows'[s.reward] = held[h][s.reward]
  <2>1. rows[s.reward] = s.base /\ held[h][s.reward] \in Row
    BY <1>0, <1>1 DEF Claims, ClaimsOf, Saves, TypeOK
  <2> QED
    BY <1>1, <2>1, UpdatedColumns DEF Writes
<1>5. rows[s.reward].status \in {"pending", "wait_balance"}
  <2>1. CASE h \in Call
    BY <1>1, <1>3, <2>1 DEF Claims, ClaimsOf, CallClaims
  <2>2. CASE h \in Notice
    <3>1. NoticeClaims(h) /\ held[h][s.reward].status # "none"
      BY <1>3, <2>2 DEF Claims, ClaimsOf, Resting, Group
    <3> QED
      BY <1>1, <1>3, <3>1 DEF NoticeClaims
  <2> QED
    BY <2>1, <2>2 DEF Handler
<1>6. ASSUME Undecided(h, s.reward)
      PROVE  rows'[s.reward].status \in {"paid", "failed"}
  <2>1. CASE pc[h] = "paidUpdate"
    BY <1>4, <2>1 DEF Claims, ClaimsOf, Saves
  <2>2. CASE pc[h] = "markUpdate"
    <3>1. held[h][s.reward].status = UnpaidStatus(h, s.reward)
      BY <2>2 DEF Claims, ClaimsOf, Saves
    <3> QED
      BY <1>4, <1>6, <2>2, <3>1 DEF Undecided, UnpaidStatus
  <2> QED
    BY <2>1, <2>2
<1>7. ASSUME NEW r \in Reward, r # s.reward, Undecided(h, r)
      PROVE  Undecided(h, r)'
  <2>1. r \in left[h] /\ \A t \in saving[h] : t = s
    BY <1>0, <1>7 DEF Undecided, Open, Placed, PlacedOf
  <2>2. pc'[h] = loop /\ left'[h] = left[h]
    BY <2>1, SaveUpdateSteps
  <2> QED
    BY <1>2, <1>7, <2>1, <2>2 DEF Undecided, Open, Loop
<1>8. DecidedBy(h)'
  <2>1. \A r \in Reward : r # s.reward => rows'[r] = rows[r]
    BY <1>1 DEF Writes
  <2> QED
    BY <1>0, <1>1, <1>2, <1>5, <1>6, <1>7, <2>1 DEF Decides, DecidedBy, TypeOK
<1>9. \A r \in Reward : \/ rows'[r] = rows[r]
                        \/ Claimed(h, r) /\ rows[r].status \in {"pending", "wait_balance"}
  BY <1>1, <1>3, <1>5 DEF Writes
<1> QED
  BY <1>2, <1>8, <1>9, DecidesFrame

LEMMA NextSentInv ==
  TypeInv /\ UnbornInv /\ SerialInv /\ ClaimsInv /\ SentInv /\ [Next]_vars => SentInv'
<1> SUFFICES ASSUME TypeInv, UnbornInv, Alone, Claims, OnceOnly, Decides, NoLoss, [Next]_vars
             PROVE  OnceOnly' /\ Decides'
  BY DEF SerialInv, ClaimsInv, SentInv, Serial, NoLoss, DbFaults, MaxCrashes, Next, vars
<1>0. TypeOK /\ Existing /\ Placed /\ ~DbFaults
  BY DEF TypeInv, NoLoss
<1>h. (\A c \in Call : c \in Handler) /\ (\A n \in Notice : n \in Handler)
  BY DEF Handler
<1>l. \A l \in {"idle", "exists", "insertOutput", "insertSol", "threshold", "find", "send"} :
        l \notin Loop \cup {"refind"}
  BY DEF Loop
<1> USE <1>0, <1>h
<1>1. ASSUME NEW c \in Call, CreateLookup(c)
      PROVE  OnceOnly' /\ Decides'
  <2>1. /\ OnlyOf(c) /\ rows' = rows /\ ledger' = ledger /\ pc[c] = "idle"
    BY <1>1, LookupSteps DEF Outside
  <2>2. DecidedBy(c)'
    BY <1>l, <2>1, Settled
  <2> QED
    BY <2>1, <2>2, DecidesFrame
<1>2. ASSUME NEW c \in Call, CreateExists(c)
      PROVE  OnceOnly' /\ Decides'
  <2>1. /\ OnlyOf(c) /\ rows' = rows /\ ledger' = ledger /\ pc[c] = "exists"
    BY <1>2, ExistsSteps DEF Outside
  <2>2. DecidedBy(c)'
    BY <1>l, <2>1, Settled
  <2> QED
    BY <2>1, <2>2, DecidesFrame
<1>3. ASSUME NEW c \in Call, CreateInsertOutput(c)
      PROVE  OnceOnly' /\ Decides'
  <2>0. "MMP" \in Token
    BY DEF Token
  <2>1. /\ OnlyOf(c) /\ ledger' = ledger /\ pc[c] = "insertOutput"
        /\ rows' = rows \/ rows' = [rows EXCEPT ![<<c, "MMP">>] = PendingRow]
    BY <1>3, <2>0, InsertSteps DEF CreateInsertOutput
  <2>2. /\ rows[<<c, "MMP">>].status = "none"
        /\ \A r \in Reward : rows'[r] = rows[r] \/ r = <<c, "MMP">>
    BY <2>0, <2>1, RewardParts DEF UnbornInv, Unborn, TypeOK
  <2>3. DecidedBy(c)'
    BY <1>l, <2>1, <2>2, Settled
  <2> QED
    BY <2>1, <2>2, <2>3, DecidesFrame
<1>4. ASSUME NEW c \in Call, CreateInsertSol(c)
      PROVE  OnceOnly' /\ Decides'
  <2>0. "SOL" \in Token
    BY DEF Token
  <2>1. /\ OnlyOf(c) /\ ledger' = ledger /\ pc[c] = "insertSol"
        /\ rows' = rows \/ rows' = [rows EXCEPT ![<<c, "SOL">>] = PendingRow]
    BY <1>4, <2>0, InsertSteps DEF CreateInsertSol
  <2>2. /\ rows[<<c, "SOL">>].status = "none"
        /\ \A r \in Reward : rows'[r] = rows[r] \/ r = <<c, "SOL">>
    BY <2>0, <2>1, RewardParts DEF UnbornInv, Unborn, TypeOK
  <2>3. DecidedBy(c)'
    BY <1>l, <2>1, <2>2, Settled
  <2> QED
    BY <2>1, <2>2, <2>3, DecidesFrame
<1>5. ASSUME NEW c \in Call, CheckThreshold(c)
      PROVE  OnceOnly' /\ Decides'
  <2>1. /\ OnlyOf(c) /\ rows' = rows /\ ledger' = ledger /\ pc[c] = "threshold"
    BY <1>5, ThresholdSteps DEF Outside
  <2>2. DecidedBy(c)'
    BY <1>l, <2>1, Settled
  <2> QED
    BY <2>1, <2>2, DecidesFrame
<1>6. ASSUME NEW c \in Call, FindPending(c)
      PROVE  OnceOnly' /\ Decides'
  <2>1. /\ OnlyOf(c) /\ rows' = rows /\ ledger' = ledger /\ pc[c] = "find"
    BY <1>6, FindSteps DEF Outside
  <2>2. DecidedBy(c)'
    BY <1>l, <2>1, Settled
  <2> QED
    BY <2>1, <2>2, DecidesFrame
<1>7. ASSUME NEW c \in Call, PaySend(c)
      PROVE  OnceOnly' /\ Decides'
  <2>1. SendToReferrer(c) /\ pc[c] = "send"
    BY <1>7 DEF PaySend
  <2> QED
    BY <2>1, SendDecides
<1>8. ASSUME NEW c \in Call, Refind(c)
      PROVE  OnceOnly' /\ Decides'
  <2>1. OnlyOf(c) /\ Outside /\ rent' = rent /\ pc[c] = "refind"
    BY <1>8, RefindSteps
  <2>2. \A r \in Reward : Undecided(c, r) => r \in PendingOf(c) /\ c \notin rent
    BY <2>1 DEF Undecided, PendingOf, Loop
  <2>3. \/ left'[c] = PendingOf(c) /\ pc'[c] = "mark"
        \/ PendingOf(c) = {}
    BY <1>8, RefindSteps
  <2>4. \A r \in Reward : Undecided(c, r) => Undecided(c, r)'
    BY <2>1, <2>2, <2>3 DEF Undecided, Open, Loop
  <2>5. DecidedBy(c)'
    BY <2>1, <2>4 DEF Outside, Decides, DecidedBy, TypeOK
  <2> QED
    BY <2>1, <2>5, DecidesFrame DEF Outside
<1>9. ASSUME NEW h \in Handler, PaidSelect(h)
      PROVE  OnceOnly' /\ Decides'
  <2>1. OnlyOf(h) /\ Outside /\ pc[h] = "paid"
    BY <1>9, PaidSelectSteps
  <2>2. PICK r \in left[h] : r \in Reward /\ Selects(h, r) /\ pc'[h] = "paidUpdate"
    BY <1>9, PaidSelectSteps
  <2>3. saving[h] = {}
    BY <2>1 DEF Placed, PlacedOf
  <2>4. \A x \in Reward : Undecided(h, x) => Undecided(h, x)'
    BY <2>1, <2>2, <2>3 DEF Undecided, Open, Selects, Loop
  <2>5. DecidedBy(h)'
    BY <2>1, <2>4 DEF Outside, Decides, DecidedBy, TypeOK
  <2> QED
    BY <2>1, <2>5, DecidesFrame DEF Outside
<1>10. ASSUME NEW h \in Handler, PaidUpdate(h)
       PROVE  OnceOnly' /\ Decides'
  <2>1. SaveUpdate(h, "paid") /\ pc[h] = "paidUpdate"
    BY <1>10 DEF PaidUpdate
  <2> QED
    BY <2>1, SaveUpdateDecides
<1>11. ASSUME NEW h \in Handler, MarkSelect(h)
       PROVE  OnceOnly' /\ Decides'
  <2>1. OnlyOf(h) /\ Outside /\ pc[h] = "mark"
    BY <1>11, MarkSelectSteps
  <2>2. PICK r \in left[h] : r \in Reward /\ Selects(h, r) /\ pc'[h] = "markUpdate"
    BY <1>11, MarkSelectSteps
  <2>3. saving[h] = {}
    BY <2>1 DEF Placed, PlacedOf
  <2>4. \A x \in Reward : Undecided(h, x) => Undecided(h, x)'
    BY <2>1, <2>2, <2>3 DEF Undecided, Open, Selects, Loop
  <2>5. DecidedBy(h)'
    BY <2>1, <2>4 DEF Outside, Decides, DecidedBy, TypeOK
  <2> QED
    BY <2>1, <2>5, DecidesFrame DEF Outside
<1>12. ASSUME NEW h \in Handler, MarkUpdate(h)
       PROVE  OnceOnly' /\ Decides'
  <2>1. SaveUpdate(h, "mark") /\ pc[h] = "markUpdate"
    BY <1>12 DEF MarkUpdate
  <2> QED
    BY <2>1, SaveUpdateDecides
<1>13. ASSUME NEW n \in Notice, NoticeFind(n)
       PROVE  OnceOnly' /\ Decides'
  <2>1. /\ OnlyOf(n) /\ rows' = rows /\ ledger' = ledger /\ pc[n] = "idle"
    BY <1>13, NoticeFindSteps DEF Outside
  <2>2. DecidedBy(n)'
    BY <1>l, <2>1, Settled
  <2> QED
    BY <2>1, <2>2, DecidesFrame
<1>14. ASSUME NEW n \in Notice, NoticeGroup(n)
       PROVE  OnceOnly' /\ Decides'
  <2>1. /\ OnlyOf(n) /\ rows' = rows /\ ledger' = ledger /\ pc[n] = "send"
    BY <1>14, NoticeGroupSteps DEF Outside
  <2>2. DecidedBy(n)'
    BY <1>l, <2>1, Settled
  <2> QED
    BY <2>1, <2>2, DecidesFrame
<1>15. ASSUME NEW n \in Notice, NoticeSend(n)
       PROVE  OnceOnly' /\ Decides'
  <2>1. SendToReferrer(n) /\ pc[n] = "send"
    BY <1>15 DEF NoticeSend
  <2> QED
    BY <2>1, SendDecides
<1>16. CASE Crash
  BY <1>16, CrashSteps DEF NoLoss, TypeOK, MaxCrashes
<1>17. CASE UNCHANGED vars
  BY <1>17 DEF vars, moving, OnceOnly, Decides, DecidedBy, Undecided, Open, WalletOf
<1> QED
  BY <1>1, <1>2, <1>3, <1>4, <1>5, <1>6, <1>7, <1>8, <1>9, <1>10, <1>11, <1>12,
     <1>13, <1>14, <1>15, <1>16, <1>17
     DEF Next, CreateReferralReward, PayAllPendingRewards, ProcessWaitBalanceRewards,
         SaveRewards, Handler

\* When referrers and notifications are served one at a time and neither the
\* database nor the process fails, no reward is sent twice, and one that waits for
\* funds has been sent by nobody but the notification that is deciding it.
THEOREM PaidOnce == Spec => []SerialPaidOnce
<1>1. Init => SerialInv /\ SentInv
  BY RewardParts, NoCopiesType, RowTypes
     DEF Init, SerialInv, Alone, FirstOf, OneEach, Resting, Handler,
         SentInv, OnceOnly, Decides, DecidedBy
<1>2. TypeInv /\ SerialInv /\ ClaimsInv /\ SentInv => SerialPaidOnce
  <2> SUFFICES ASSUME TypeInv, Alone, Claims, OnceOnly, Decides,
                      NEW r \in Reward, NEW p \in ledger,
                      rows[r].status = "wait_balance", r \in p.rewards
               PROVE  p.hash.by \in Notice /\ pc[p.hash.by] \in Loop
    BY DEF SerialInv, ClaimsInv, SentInv, OnceOnly, SerialPaidOnce, Loop
  <2>1. p.hash.by \in Handler
    BY DEF TypeInv, TypeOK, Hash
  <2>2. Undecided(p.hash.by, r)
    BY <2>1 DEF Decides, DecidedBy
  <2>3. Open(p.hash.by, r) /\ pc[p.hash.by] \in Loop
    BY <2>2 DEF Undecided
  <2>4. p.hash.by \notin Call
    BY <2>1, <2>3 DEF Claims, ClaimsOf, CallClaims
  <2> QED
    BY <2>1, <2>3, <2>4 DEF Handler
<1> QED
  BY InitTypeInv, NextTypeInv, InitUnborn, NextUnborn, NextSerialInv, InitClaims,
     NextClaims, NextSentInv, <1>1, <1>2, PTL
     DEF Spec

-----------------------------------------------------------------------------
(* The monitor of the authority wallet, for any callbacks, and rewards of  *)
(* any amounts.  Its payments are single steps.                            *)

LEMMA BalanceType ==
  ASSUME Monitor!MonitorAssumption, authority \in 0..MaxBalance
  PROVE  /\ MaxBalance \in Nat /\ MaxErrors \in Nat /\ 0 \in 0..MaxBalance
         /\ \A amount \in 1..(MaxBalance - authority) : authority + amount \in 0..MaxBalance
         /\ \A r \in Owed : Cost[r] <= authority => authority - Cost[r] \in 0..MaxBalance
<1>1. Cost \in [Owed -> Nat \ {0}] /\ MaxBalance \in Nat /\ MaxErrors \in Nat
  BY DEF Monitor!MonitorAssumption
<1>2. ASSUME NEW r \in Owed
      PROVE  Cost[r] \in Nat
  BY <1>1
<1> QED
  BY <1>1, <1>2

LEMMA NextMonitorType ==
  ASSUME Monitor!MonitorAssumption, Monitor!TypeOK, [Monitor!Next]_(Monitor!vars)
  PROVE  Monitor!TypeOK'
<1>0. /\ authority \in 0..MaxBalance /\ due \in Nat /\ errors \in 0..MaxErrors
      /\ currentBalance \in [Callback -> 0..MaxBalance]
      /\ monitorPc \in [Callback -> {"idle", "look", "find", "pay"}]
      /\ found \in [Callback -> SUBSET Owed] /\ Monitor!Waiting \subseteq Owed
  BY DEF Monitor!TypeOK, Monitor!Waiting
<1>1. ASSUME NEW b \in 0..MaxBalance, Monitor!Changed(b)
      PROVE  authority' \in 0..MaxBalance /\ due' \in Nat
  BY <1>0, <1>1 DEF Monitor!Changed
<1>2. ASSUME Monitor!Err
      PROVE  errors' \in 0..MaxErrors
  BY <1>0, <1>2, BalanceType DEF Monitor!Err
<1>3. ASSUME NEW k \in Callback, Monitor!Raise(k)
      PROVE  /\ previousBalance' \in 0..MaxBalance
             /\ monitorPc' \in [Callback -> {"idle", "look", "find", "pay"}]
             /\ currentBalance' \in [Callback -> 0..MaxBalance]
  BY <1>0, <1>3, BalanceType DEF Monitor!Raise
<1>4. CASE Monitor!TopUp
  <2>1. authority' \in 0..MaxBalance /\ due' \in Nat
    BY <1>0, <1>1, <1>4, BalanceType DEF Monitor!TopUp
  <2> QED
    BY <1>0, <1>4, <2>1 DEF Monitor!TopUp, Monitor!TypeOK
<1>5. ASSUME NEW r \in Owed, Monitor!PayReward(r)
      PROVE  Monitor!TypeOK'
  <2>1. authority' \in 0..MaxBalance /\ due' \in Nat /\ errors' \in 0..MaxErrors
    BY <1>0, <1>1, <1>2, <1>5, BalanceType DEF Monitor!PayReward
  <2> QED
    BY <1>5, <2>1 DEF Monitor!PayReward, Monitor!TypeOK
<1>6. CASE Monitor!StartRead \/ Monitor!StartFails \/ Monitor!StartListen
  BY <1>2, <1>6
     DEF Monitor!StartRead, Monitor!StartFails, Monitor!StartListen, Monitor!TypeOK
<1>7. ASSUME NEW k \in Callback, Monitor!Notify(k) \/ Monitor!Look(k) \/ Monitor!LookFails(k)
      PROVE  Monitor!TypeOK'
  <2>1. CASE Monitor!Notify(k)
    <3>1. due' \in Nat
      BY <1>0, <2>1 DEF Monitor!Notify
    <3> QED
      BY <2>1, <3>1 DEF Monitor!Notify, Monitor!TypeOK
  <2>2. CASE Monitor!Look(k)
    BY <2>2, BalanceType DEF Monitor!Look, Monitor!TypeOK
  <2>3. CASE Monitor!LookFails(k)
    BY <1>2, <2>3 DEF Monitor!LookFails, Monitor!TypeOK
  <2> QED
    BY <1>7, <2>1, <2>2, <2>3
<1>8. ASSUME NEW k \in Callback, Monitor!Find(k) \/ Monitor!FindFails(k)
      PROVE  Monitor!TypeOK'
  <2>1. CASE Monitor!Find(k)
    <3>1. found' \in [Callback -> SUBSET Owed]
      BY <1>0, <2>1 DEF Monitor!Find
    <3>2. CASE Monitor!Waiting = {}
      BY <1>3, <2>1, <3>1, <3>2 DEF Monitor!Find, Monitor!TypeOK
    <3>3. CASE Monitor!Waiting # {}
      BY <2>1, <3>1, <3>3 DEF Monitor!Find, Monitor!TypeOK
    <3> QED
      BY <3>2, <3>3
  <2>2. CASE Monitor!FindFails(k)
    BY <1>2, <1>3, <2>2 DEF Monitor!FindFails, Monitor!TypeOK
  <2> QED
    BY <1>8, <2>1, <2>2
<1>9. ASSUME NEW k \in Callback, Monitor!Pay(k)
      PROVE  Monitor!TypeOK'
  <2>1. PICK r \in found[k] :
          /\ found' = [found EXCEPT ![k] = @ \ {r}]
          /\ \/ /\ Cost[r] <= authority
                /\ Monitor!Changed(authority - Cost[r])
                /\ status' = [status EXCEPT ![r] = "paid"]
                /\ UNCHANGED errors
             \/ /\ IF Cost[r] > authority THEN UNCHANGED errors ELSE Monitor!Err
                /\ status' = [status EXCEPT ![r] = "failed"]
                /\ UNCHANGED <<authority, due>>
          /\ IF found[k] = {r} THEN Monitor!Raise(k)
                               ELSE UNCHANGED <<previousBalance, monitorPc, currentBalance>>
    BY <1>9 DEF Monitor!Pay
  <2>2. r \in Owed
    BY <1>0
  <2>3. authority' \in 0..MaxBalance /\ due' \in Nat /\ errors' \in 0..MaxErrors
    BY <1>0, <1>1, <1>2, <2>1, <2>2, BalanceType
  <2>4. /\ previousBalance' \in 0..MaxBalance
        /\ monitorPc' \in [Callback -> {"idle", "look", "find", "pay"}]
        /\ currentBalance' \in [Callback -> 0..MaxBalance]
    BY <1>0, <1>3, <2>1 DEF Monitor!TypeOK
  <2>5. /\ found' \in [Callback -> SUBSET Owed]
        /\ status' \in [Owed -> {"none", "wait_balance", "paid", "failed"}]
    BY <1>0, <2>1, <2>2 DEF Monitor!TypeOK
  <2> QED
    BY <1>9, <2>3, <2>4, <2>5 DEF Monitor!Pay, Monitor!TypeOK
<1>10. CASE UNCHANGED Monitor!vars
  BY <1>10 DEF Monitor!vars, Monitor!TypeOK
<1> QED
  BY <1>4, <1>5, <1>6, <1>7, <1>8, <1>9, <1>10 DEF Monitor!Next, Monitor!HandleBalanceChange

\* Every variable of the monitor keeps its type: what it compares with is always
\* a balance the wallet may have, however the callbacks interleave.
THEOREM MonitorTypeCorrect ==
  ASSUME Monitor!MonitorAssumption
  PROVE  Monitor!Spec => []Monitor!TypeOK
<1>1. Monitor!Init => Monitor!TypeOK
  BY DEF Monitor!Init, Monitor!TypeOK, Monitor!MonitorAssumption
<1> QED
  BY <1>1, NextMonitorType, PTL DEF Monitor!Spec

-----------------------------------------------------------------------------
(* All of Rewards.                                                         *)

\* Rewards, monitor and statistics at once: every variable keeps its type.
THEOREM RewardsTypeCorrect ==
  ASSUME Monitor!MonitorAssumption, StatisticsAssumptions
  PROVE  RewardsSpec => []RewardsTypeOK
<1>1. TypeOK /\ Monitor!TypeOK /\ StatisticsTypeOK => RewardsTypeOK
  BY DEF RewardsTypeOK
<1> QED
  BY <1>1, TypeCorrect, MonitorTypeCorrect, StatisticsTypeCorrect, PTL DEF RewardsSpec
=============================================================================
