---------------------------- MODULE ReportProofs ----------------------------
(***************************************************************************)
(* Theorems about what is read in several steps: of SaleRounds, for any    *)
(* requests, coins and times, any sales, and any environments; of          *)
(* ReferralClicks, for any clicks and any calendar; of PagedLists, for any *)
(* rows and pages of any size; and of Reports, for any rows.  All are      *)
(* instances, whose variables are their own.                               *)
(***************************************************************************)
EXTENDS WalletProofs, FiniteSetTheorems

-----------------------------------------------------------------------------
(* The types of the rounds.                                                *)

\* The instance counts as this module does.
LEMMA SameSaleCount ==
  \A S : Rounds!Cardinality(S) = Cardinality(S) /\ (Rounds!IsFiniteSet(S) <=> IsFiniteSet(S))
BY DEF Rounds!Cardinality, Cardinality, Rounds!IsFiniteSet, IsFiniteSet

RoundLabel == {"idle", "insert", "others", "select", "save", "delete",
               "load", "order", "reward", "done"}

\* Rounds to count, as a function from their names.
RoundSets == UNION {[S -> Rounds!Row] : S \in SUBSET Create}

Locals == [target : Create \cup {Null}, dto : Rounds!Row, entity : Rounds!Row,
           base : Rounds!Row, left : RoundSets]

Holding == {"others", "select", "save", "delete", "load", "order", "reward"}

\* A request that has found its round knows its name.
Targets == \A q \in Rounds!Request : salePc[q] \in Holding => local[q].target \in Create

RoundsTypeInv ==
  /\ admin \in SaleEnvironments
  /\ sold \subseteq Sale
  /\ IsFiniteSet(sold)
  /\ rounds \in [Create -> Rounds!Row]
  /\ salePc \in [Rounds!Request -> RoundLabel]
  /\ local \in [Rounds!Request -> Locals]
  /\ counted \in [Rounds!Summary -> [Coin -> Nat]]
  /\ Targets

LEMMA RoundsType ==
  ASSUME NEW left \in RoundSets
  PROVE  DOMAIN left \subseteq Create /\ \A r \in DOMAIN left : left[r] \in Rounds!Row
BY DEF RoundSets

LEMMA SomeRounds ==
  ASSUME NEW S \in SUBSET Create, NEW f, \A r \in S : f[r] \in Rounds!Row
  PROVE  [r \in S |-> f[r]] \in RoundSets
<1>1. [r \in S |-> f[r]] \in [S -> Rounds!Row]
  OBVIOUS
<1> QED
  BY <1>1 DEF RoundSets

LEMMA NoRounds == <<>> \in RoundSets
<1>1. <<>> \in [{} -> Rounds!Row]
  OBVIOUS
<1> QED
  BY <1>1 DEF RoundSets

LEMMA NoneType == Rounds!NoRow \in Rounds!Row /\ Rounds!NoLocals \in Locals
BY NoRounds DEF Rounds!NoRow, Rounds!Row, Rounds!NoLocals, Locals

\* What a step of a request leaves of the places of all.
PlacedRound == /\ salePc' \in [Rounds!Request -> RoundLabel]
               /\ local' \in [Rounds!Request -> Locals]
               /\ Targets'

LEMMA SuspendType ==
  ASSUME RoundsTypeInv, NEW q \in Rounds!Request, NEW label \in RoundLabel, NEW l \in Locals,
         label \in Holding => l.target \in Create,
         Rounds!Suspend(q, label, l)
  PROVE  PlacedRound
BY DEF RoundsTypeInv, Targets, PlacedRound, Rounds!Suspend

LEMMA ReturnType ==
  ASSUME RoundsTypeInv, NEW q \in Rounds!Request, Rounds!Return(q)
  PROVE  PlacedRound
BY NoneType, SuspendType DEF Rounds!Return, RoundLabel, Holding

LEMMA GivenType ==
  ASSUME NEW row \in Rounds!Row, NEW d \in Rounds!Row
  PROVE  Rounds!Given(row, d) \in Rounds!Row
BY DEF Rounds!Given, Rounds!Row

LEMMA UpdatedRowType ==
  ASSUME NEW row \in Rounds!Row, NEW e \in Rounds!Row, NEW b \in Rounds!Row
  PROVE  Rounds!Updated(row, e, b) \in Rounds!Row /\ Rounds!Updated(b, e, b) = e
BY DEF Rounds!Updated, Rounds!Row

LEMMA NextRoundType ==
  ASSUME RoundsTypeInv, NEW s \in Rounds!Request, NEW left \in RoundSets,
         Rounds!NextRound(s, left)
  PROVE  PlacedRound
<1>1. CASE Rounds!Return(s)
  BY <1>1, ReturnType
<1>2. ASSUME NEW r \in DOMAIN left, NEW label \in {"order", "load"},
             Rounds!Suspend(s, label,
                            [Rounds!NoLocals EXCEPT !.target = r, !.entity = left[r],
                             !.left = left])
      PROVE  PlacedRound
  <2> DEFINE l == [Rounds!NoLocals EXCEPT !.target = r, !.entity = left[r], !.left = left]
  <2>1. l \in Locals /\ l.target = r /\ r \in Create
    BY NoneType, RoundsType DEF Locals
  <2> QED
    BY <1>2, <2>1, SuspendType DEF RoundLabel
<1> QED
  BY <1>1, <1>2 DEF Rounds!NextRound

LEMMA InitRoundsTypeInv ==
  ASSUME RoundsAssumptions
  PROVE  Rounds!Init => RoundsTypeInv
BY NoneType, FS_EmptySet DEF Rounds!Init, RoundsTypeInv, RoundLabel, Targets, Holding

LEMMA CountsType ==
  ASSUME RoundsTypeInv, NEW row, NEW kind
  PROVE  /\ IsFiniteSet(Rounds!Counts(row, kind))
         /\ Cardinality(Rounds!Counts(row, kind)) \in Nat
<1>1. Rounds!Counts(row, kind) \in SUBSET sold
  BY DEF Rounds!Counts
<1> QED
  BY <1>1, FS_Subset, FS_CardinalityType DEF RoundsTypeInv

LEMMA NextRoundsTypeInv ==
  ASSUME RoundsAssumptions
  PROVE  RoundsTypeInv /\ [Rounds!Next]_(Rounds!vars) => RoundsTypeInv'
<1> SUFFICES ASSUME RoundsTypeInv, [Rounds!Next]_(Rounds!vars)
             PROVE  RoundsTypeInv'
  OBVIOUS
<1>0. admin' = admin
  BY DEF Rounds!Next, Rounds!vars
<1>a. /\ Create \subseteq Rounds!Request /\ Update \subseteq Rounds!Request
      /\ Remove \subseteq Rounds!Request /\ Rounds!Summary \subseteq Rounds!Request
  BY DEF Rounds!Request, Rounds!Writer
<1> USE <1>0, <1>a
<1>1. ASSUME NEW c \in Create, Rounds!CreateFind(c)
      PROVE  RoundsTypeInv'
  <2>1. PICK coin \in admin.coins, start \in Time, end \in Time :
          LET new == [coin |-> coin, start |-> start, end |-> end]
          IN  \/ Rounds!Suspend(c, "insert", [Rounds!NoLocals EXCEPT !.entity = new])
              \/ Rounds!Return(c)
    BY <1>1 DEF Rounds!CreateFind
  <2> DEFINE new == [coin |-> coin, start |-> start, end |-> end]
  <2>2. coin \in Coin
    BY DEF RoundsAssumptions, Rounds!EnvironmentsAssumption, RoundsTypeInv
  <2>3. new \in Rounds!Row
    BY <2>2 DEF Rounds!Row
  <2>4. [Rounds!NoLocals EXCEPT !.entity = new] \in Locals
    BY <2>3, NoneType DEF Locals
  <2>5. PlacedRound
    BY <2>1, <2>4, SuspendType, ReturnType DEF RoundLabel, Holding
  <2> QED
    BY <1>1, <2>5 DEF Rounds!CreateFind, RoundsTypeInv, PlacedRound
<1>2. ASSUME NEW c \in Create, Rounds!CreateInsert(c)
      PROVE  RoundsTypeInv'
  <2>1. local[c].entity \in Rounds!Row
    BY DEF RoundsTypeInv, Locals
  <2>2. PlacedRound
    BY <1>2, ReturnType DEF Rounds!CreateInsert
  <2> QED
    BY <1>2, <2>1, <2>2 DEF Rounds!CreateInsert, RoundsTypeInv, PlacedRound
<1>3. ASSUME NEW u \in Update, Rounds!UpdateLoad(u)
      PROVE  RoundsTypeInv'
  <2>1. PICK r \in Create, d \in Rounds!Row :
          LET held == [Rounds!NoLocals EXCEPT !.target = r, !.dto = d, !.entity = rounds[r]]
          IN  \/ Rounds!Return(u)
              \/ Rounds!Suspend(u, "others", held)
              \/ Rounds!Suspend(u, "select", held)
    BY <1>3 DEF Rounds!UpdateLoad
  <2> DEFINE held == [Rounds!NoLocals EXCEPT !.target = r, !.dto = d, !.entity = rounds[r]]
  <2>2. held \in Locals /\ held.target = r
    BY NoneType DEF Locals, RoundsTypeInv
  <2>3. PlacedRound
    BY <2>1, <2>2, SuspendType, ReturnType DEF RoundLabel
  <2> QED
    BY <1>3, <2>3 DEF Rounds!UpdateLoad, RoundsTypeInv, PlacedRound
<1>4. ASSUME NEW u \in Update, Rounds!UpdateOthers(u)
      PROVE  RoundsTypeInv'
  <2>1. Rounds!Suspend(u, "select", local[u]) \/ Rounds!Return(u)
    BY <1>4 DEF Rounds!UpdateOthers
  <2>2. local[u] \in Locals /\ local[u].target \in Create
    BY <1>4 DEF Rounds!UpdateOthers, RoundsTypeInv, Targets, Holding
  <2>3. PlacedRound
    BY <2>1, <2>2, SuspendType, ReturnType DEF RoundLabel
  <2> QED
    BY <1>4, <2>3 DEF Rounds!UpdateOthers, RoundsTypeInv, PlacedRound
<1>5. ASSUME NEW u \in Update, Rounds!UpdateSelect(u)
      PROVE  RoundsTypeInv'
  <2> DEFINE l == [local[u] EXCEPT !.entity = Rounds!Given(@, local[u].dto),
                                   !.base = rounds[local[u].target]]
  <2>1. local[u] \in Locals /\ local[u].target \in Create
    BY <1>5 DEF Rounds!UpdateSelect, RoundsTypeInv, Targets, Holding
  <2>2. /\ Rounds!Given(local[u].entity, local[u].dto) \in Rounds!Row
        /\ rounds[local[u].target] \in Rounds!Row
    BY <2>1, GivenType DEF RoundsTypeInv, Locals
  <2>3. l \in Locals /\ l.target = local[u].target
    BY <2>1, <2>2 DEF Locals
  <2>4. PlacedRound
    BY <1>5, <2>1, <2>3, SuspendType DEF Rounds!UpdateSelect, RoundLabel
  <2> QED
    BY <1>5, <2>4 DEF Rounds!UpdateSelect, RoundsTypeInv, PlacedRound
<1>6. ASSUME NEW u \in Update, Rounds!UpdateSave(u)
      PROVE  RoundsTypeInv'
  <2>1. /\ local[u].target \in Create
        /\ {local[u].entity, local[u].base} \subseteq Rounds!Row
    BY <1>6 DEF Rounds!UpdateSave, RoundsTypeInv, Targets, Holding, Locals
  <2>2. Rounds!Updated(rounds[local[u].target], local[u].entity, local[u].base)
          \in Rounds!Row
    BY <2>1, UpdatedRowType DEF RoundsTypeInv
  <2>3. PlacedRound
    BY <1>6, ReturnType DEF Rounds!UpdateSave
  <2> QED
    BY <1>6, <2>1, <2>2, <2>3 DEF Rounds!UpdateSave, RoundsTypeInv, PlacedRound
<1>7. ASSUME NEW d \in Remove, Rounds!RemoveFind(d)
      PROVE  RoundsTypeInv'
  <2>1. PICK r \in Create :
          \/ Rounds!Suspend(d, "delete", [Rounds!NoLocals EXCEPT !.target = r])
          \/ Rounds!Return(d)
    BY <1>7 DEF Rounds!RemoveFind
  <2> DEFINE l == [Rounds!NoLocals EXCEPT !.target = r]
  <2>2. l \in Locals /\ l.target = r
    BY NoneType DEF Locals
  <2>3. PlacedRound
    BY <2>1, <2>2, SuspendType, ReturnType DEF RoundLabel
  <2> QED
    BY <1>7, <2>3 DEF Rounds!RemoveFind, RoundsTypeInv, PlacedRound
<1>8. ASSUME NEW d \in Remove, Rounds!RemoveDelete(d)
      PROVE  RoundsTypeInv'
  <2>1. PlacedRound
    BY <1>8, ReturnType DEF Rounds!RemoveDelete
  <2> QED
    BY <1>8, <2>1, NoneType DEF Rounds!RemoveDelete, RoundsTypeInv, PlacedRound
<1>9. ASSUME NEW s \in Rounds!Summary, Rounds!SummaryFind(s)
      PROVE  RoundsTypeInv'
  <2>1. PICK S \in SUBSET Create : Rounds!NextRound(s, [r \in S |-> rounds[r]])
    <3>1. /\ Rounds!Existing \in SUBSET Create
          /\ \A wanted, now :
               {r \in Rounds!Existing : Rounds!Status(rounds[r], now) = wanted}
                 \in SUBSET Create
      BY DEF Rounds!Existing
    <3> QED
      BY <1>9, <3>1 DEF Rounds!SummaryFind
  <2>2. [r \in S |-> rounds[r]] \in RoundSets
    BY SomeRounds DEF RoundsTypeInv
  <2>3. PlacedRound
    BY <2>1, <2>2, NextRoundType
  <2> QED
    BY <1>9, <2>3 DEF Rounds!SummaryFind, RoundsTypeInv, PlacedRound
<1>10. ASSUME NEW s \in Rounds!Summary, Rounds!SummaryLoad(s)
       PROVE  RoundsTypeInv'
  <2> DEFINE l == [local[s] EXCEPT !.entity = rounds[local[s].target]]
  <2>1. local[s].target \in Create /\ l \in Locals /\ l.target = local[s].target
    BY <1>10 DEF Rounds!SummaryLoad, RoundsTypeInv, Targets, Holding, Locals
  <2>2. PlacedRound
    BY <1>10, <2>1, SuspendType, ReturnType DEF Rounds!SummaryLoad, RoundLabel
  <2> QED
    BY <1>10, <2>2 DEF Rounds!SummaryLoad, RoundsTypeInv, PlacedRound
<1>11. ASSUME NEW s \in Rounds!Summary, NEW kind \in Rounds!Kind,
              Rounds!SummaryCount(s, kind)
       PROVE  RoundsTypeInv'
  <2> DEFINE row == local[s].entity
             left == local[s].left
             n == Cardinality(Rounds!Counts(row, kind))
  <2>1. /\ local[s] \in Locals
        /\ local[s].target \in Create
        /\ left \in RoundSets
        /\ n \in Nat
    BY <1>11, CountsType
       DEF Rounds!SummaryCount, Rounds!Kind, RoundsTypeInv, Targets, Holding, Locals
  <2>2. [r \in DOMAIN left \ {local[s].target} |-> left[r]] \in RoundSets
    BY <2>1, RoundsType, SomeRounds
  <2>3. PlacedRound
    BY <1>11, <2>1, <2>2, SuspendType, NextRoundType DEF Rounds!SummaryCount, RoundLabel
  <2>4. counted' = [counted EXCEPT ![s][row.coin] = @ + n]
    BY <1>11, SameSaleCount DEF Rounds!SummaryCount
  <2>5. counted' \in [Rounds!Summary -> [Coin -> Nat]]
    <3> DEFINE f == [counted[s] EXCEPT ![row.coin] = counted[s][row.coin] + n]
    <3>1. counted[s] \in [Coin -> Nat]
      BY DEF RoundsTypeInv
    <3>2. f \in [Coin -> Nat]
      <4>1. CASE row.coin \in Coin
        BY <2>1, <3>1, <4>1
      <4>2. CASE row.coin \notin Coin
        BY <3>1, <4>2
      <4> QED
        BY <4>1, <4>2
    <3>3. counted' = [counted EXCEPT ![s] = f]
      BY <2>4
    <3> QED
      BY <3>2, <3>3 DEF RoundsTypeInv
  <2> QED
    BY <1>11, <2>3, <2>5 DEF Rounds!SummaryCount, RoundsTypeInv, PlacedRound
<1>12. ASSUME NEW s \in Sale, Rounds!Sell(s)
       PROVE  RoundsTypeInv'
  <2>1. IsFiniteSet(sold \cup {s})
    BY FS_AddElement DEF RoundsTypeInv
  <2> QED
    BY <1>12, <2>1 DEF Rounds!Sell, RoundsTypeInv, Targets
<1>13. CASE UNCHANGED Rounds!vars
  BY <1>13 DEF Rounds!vars, Rounds!moving, RoundsTypeInv, Targets
<1> QED
  BY <1>1, <1>2, <1>3, <1>4, <1>5, <1>6, <1>7, <1>8, <1>9, <1>10, <1>11, <1>12, <1>13
     DEF Rounds!Next

\* Every variable of the rounds keeps its type.
THEOREM RoundsTypeCorrect ==
  ASSUME RoundsAssumptions
  PROVE  Rounds!Spec => []Rounds!TypeOK
<1>1. RoundsTypeInv => Rounds!TypeOK
  BY RoundsType DEF RoundsTypeInv, Rounds!TypeOK, RoundLabel, Locals
<1>2. Rounds!Init => RoundsTypeInv
  BY InitRoundsTypeInv
<1>3. RoundsTypeInv /\ [Rounds!Next]_(Rounds!vars) => RoundsTypeInv'
  BY NextRoundsTypeInv
<1> QED
  BY <1>1, <1>2, <1>3, PTL DEF Rounds!Spec

-----------------------------------------------------------------------------
(* Rounds of one coin have no instant in common.                           *)

Within(t, row) == row.start <= t /\ t <= row.end

Apart(a, b) == a.coin = b.coin => \A t \in Time : ~(Within(t, a) /\ Within(t, b))

\* The row has no instant in common with a round of its coin other than r.
Fits(row, r) == \A o \in Rounds!Existing \ {r} : Apart(row, rounds[o])

Busy(q) == salePc[q] \notin {"idle", "done"}

TakesTurnsInv ==
  /\ \A p, q \in Rounds!Writer : Busy(p) /\ Busy(q) => p = q
  /\ admin.serial = "all" => \A p, q \in Rounds!Request : Busy(p) /\ Busy(q) => p = q

ApartInv == \A r \in Rounds!Existing : Fits(rounds[r], r)

\* What a writer is about to write fits; what it loaded is still there.
WriteInv ==
  \A q \in Rounds!Writer :
    /\ salePc[q] = "insert" => Fits(local[q].entity, q)
    /\ salePc[q] \in {"others", "select"} =>
             /\ local[q].target \in Rounds!Existing
             /\ local[q].entity = rounds[local[q].target]
    /\ salePc[q] = "select"
         => Fits(Rounds!Given(local[q].entity, local[q].dto), local[q].target)
    /\ salePc[q] = "save" =>
             /\ local[q].target \in Rounds!Existing
             /\ local[q].base = rounds[local[q].target]
             /\ Fits(local[q].entity, local[q].target)

\* Writers take turns, and change a coin only together with a time.
Orderly == ~admin.recoin /\ admin.serial \in {"all", "writers"}

RoundsInv == Orderly => TakesTurnsInv /\ ApartInv /\ WriteInv

\* The three comparisons of the code find every instant in common, although none
\* asks whether a round begins before it ends.
LEMMA OverlapsFinds ==
  ASSUME Rounds!TimeAssumption, NEW a \in Rounds!Row, NEW b \in Rounds!Row,
         ~Rounds!Overlaps(a, b), NEW t \in Time
  PROVE  ~(Within(t, a) /\ Within(t, b))
<1>1. Time \cup {0} \subseteq Nat
  BY DEF Rounds!TimeAssumption
<1>2. /\ {a.start, a.end, b.start, b.end} \subseteq Time \cup {0}
      /\ t \in Time
  BY DEF Rounds!Row
<1>3. /\ a.start \in Nat /\ a.end \in Nat
      /\ b.start \in Nat /\ b.end \in Nat
      /\ t \in Nat
  BY <1>1, <1>2
<1> QED
  BY <1>3 DEF Rounds!Overlaps, Within

LEMMA NoConflictsFits ==
  ASSUME Rounds!TimeAssumption, RoundsTypeInv, NEW row \in Rounds!Row, NEW r,
         Rounds!Conflicts(row, r) = {}
  PROVE  Fits(row, r)
<1> SUFFICES ASSUME NEW o \in Rounds!Existing \ {r}, row.coin = rounds[o].coin,
                    NEW t \in Time
             PROVE  ~(Within(t, row) /\ Within(t, rounds[o]))
  BY DEF Fits, Apart
<1>1. ~Rounds!Overlaps(row, rounds[o]) /\ rounds[o] \in Rounds!Row
  BY DEF Rounds!Conflicts, RoundsTypeInv, Rounds!Existing
<1> QED
  BY <1>1, OverlapsFinds

\* A step is of one request, which starts or is under way, or of none.
LEMMA StepOfOne ==
  ASSUME RoundsTypeInv, [Rounds!Next]_(Rounds!vars)
  PROVE  \/ UNCHANGED <<rounds, salePc, local, counted>>
         \/ \E q \in Rounds!Request : /\ Rounds!Start(q) \/ Busy(q)
                                      /\ \A p \in Rounds!Request \ {q} :
                                           salePc'[p] = salePc[p] /\ local'[p] = local[p]
<1> DEFINE Of(q) == /\ Rounds!Start(q) \/ Busy(q)
                    /\ \A p \in Rounds!Request \ {q} :
                         salePc'[p] = salePc[p] /\ local'[p] = local[p]
<1>1. ASSUME NEW q \in Rounds!Request, NEW label, NEW l, Rounds!Suspend(q, label, l),
             Rounds!Start(q) \/ Busy(q)
      PROVE  Of(q)
  BY <1>1 DEF Rounds!Suspend, RoundsTypeInv
<1>2. ASSUME NEW q \in Rounds!Request, Rounds!Return(q), Rounds!Start(q) \/ Busy(q)
      PROVE  Of(q)
  BY <1>1, <1>2 DEF Rounds!Return
<1>3. ASSUME NEW q \in Rounds!Request, NEW left, Rounds!NextRound(q, left),
             Rounds!Start(q) \/ Busy(q)
      PROVE  Of(q)
  BY <1>1, <1>2, <1>3 DEF Rounds!NextRound
<1>4. ASSUME NEW c \in Create, Rounds!CreateFind(c) \/ Rounds!CreateInsert(c)
      PROVE  c \in Rounds!Request /\ Of(c)
  BY <1>1, <1>2, <1>4
     DEF Rounds!CreateFind, Rounds!CreateInsert, Busy, Rounds!Request, Rounds!Writer
<1>5. ASSUME NEW u \in Update,
             \/ Rounds!UpdateLoad(u)
             \/ Rounds!UpdateOthers(u)
             \/ Rounds!UpdateSelect(u)
             \/ Rounds!UpdateSave(u)
      PROVE  u \in Rounds!Request /\ Of(u)
  BY <1>1, <1>2, <1>5
     DEF Rounds!UpdateLoad, Rounds!UpdateOthers, Rounds!UpdateSelect, Rounds!UpdateSave,
         Busy, Rounds!Request, Rounds!Writer
<1>6. ASSUME NEW d \in Remove, Rounds!RemoveFind(d) \/ Rounds!RemoveDelete(d)
      PROVE  d \in Rounds!Request /\ Of(d)
  BY <1>1, <1>2, <1>6
     DEF Rounds!RemoveFind, Rounds!RemoveDelete, Busy, Rounds!Request, Rounds!Writer
<1>7. ASSUME NEW s \in Rounds!Summary,
             \/ Rounds!SummaryFind(s)
             \/ Rounds!SummaryLoad(s)
             \/ \E kind \in Rounds!Kind : Rounds!SummaryCount(s, kind)
      PROVE  s \in Rounds!Request /\ Of(s)
  <2>1. CASE Rounds!SummaryFind(s)
    BY <1>3, <2>1 DEF Rounds!SummaryFind, Rounds!Request
  <2>2. CASE Rounds!SummaryLoad(s)
    BY <1>1, <1>2, <2>2 DEF Rounds!SummaryLoad, Busy, Rounds!Request
  <2>3. CASE \E kind \in Rounds!Kind : Rounds!SummaryCount(s, kind)
    BY <1>1, <1>3, <2>3 DEF Rounds!SummaryCount, Rounds!Kind, Busy, Rounds!Request
  <2> QED
    BY <1>7, <2>1, <2>2, <2>3
<1> QED
  BY <1>4, <1>5, <1>6, <1>7 DEF Rounds!Next, Rounds!Sell, Rounds!vars, Rounds!moving

LEMMA NextTakesTurnsInv ==
  ASSUME RoundsTypeInv, Orderly, TakesTurnsInv, [Rounds!Next]_(Rounds!vars)
  PROVE  TakesTurnsInv'
<1>0. admin' = admin
  BY DEF Rounds!Next, Rounds!vars
<1>1. CASE UNCHANGED <<rounds, salePc, local, counted>>
  BY <1>0, <1>1 DEF TakesTurnsInv, Busy
<1>2. ASSUME NEW q \in Rounds!Request, Rounds!Start(q) \/ Busy(q),
             \A p \in Rounds!Request \ {q} : salePc'[p] = salePc[p] /\ local'[p] = local[p]
      PROVE  TakesTurnsInv'
  BY <1>0, <1>2
     DEF Orderly, TakesTurnsInv, Busy, Rounds!Start, Rounds!Underway, Rounds!Request,
         Rounds!Writer
<1> QED
  BY <1>1, <1>2, StepOfOne

\* A step that writes no round leaves the request that takes it something that
\* fits, and the others what they have.
LEMMA WriteInvStep ==
  ASSUME RoundsTypeInv, WriteInv, rounds' = rounds, NEW q \in Rounds!Writer,
         \A p \in Rounds!Request \ {q} : salePc'[p] = salePc[p] /\ local'[p] = local[p],
         /\ salePc'[q] = "insert" => Fits(local'[q].entity, q)
         /\ salePc'[q] \in {"others", "select"} =>
                  /\ local'[q].target \in Rounds!Existing
                  /\ local'[q].entity = rounds[local'[q].target]
         /\ salePc'[q] = "select"
              => Fits(Rounds!Given(local'[q].entity, local'[q].dto), local'[q].target)
         /\ salePc'[q] = "save" =>
                  /\ local'[q].target \in Rounds!Existing
                  /\ local'[q].base = rounds[local'[q].target]
                  /\ Fits(local'[q].entity, local'[q].target)
  PROVE  WriteInv'
<1>1. Rounds!Existing' = Rounds!Existing /\ \A row, r : Fits(row, r)' = Fits(row, r)
  BY DEF Rounds!Existing, Fits, Apart, Within
<1> QED
  BY <1>1 DEF WriteInv, Rounds!Request, Rounds!Given

\* What a request holds when it is suspended.
LEMMA Suspended ==
  ASSUME RoundsTypeInv, NEW q \in Rounds!Request, NEW label, NEW l,
         Rounds!Suspend(q, label, l)
  PROVE  /\ salePc'[q] = label /\ local'[q] = l
         /\ \A p \in Rounds!Request \ {q} : salePc'[p] = salePc[p] /\ local'[p] = local[p]
BY DEF RoundsTypeInv, Rounds!Suspend

LEMMA Returned ==
  ASSUME RoundsTypeInv, NEW q \in Rounds!Request, Rounds!Return(q)
  PROVE  /\ salePc'[q] = "done"
         /\ \A p \in Rounds!Request \ {q} : salePc'[p] = salePc[p] /\ local'[p] = local[p]
BY Suspended DEF Rounds!Return

\* A request is suspended with something that fits.
LEMMA SuspendWrite ==
  ASSUME RoundsTypeInv, WriteInv, rounds' = rounds, NEW q \in Rounds!Writer, NEW label,
         NEW l,
         Rounds!Suspend(q, label, l),
         label = "insert" => Fits(l.entity, q),
         label \in {"others", "select"} =>
           l.target \in Rounds!Existing /\ l.entity = rounds[l.target],
         label = "select" => Fits(Rounds!Given(l.entity, l.dto), l.target),
         label = "save" =>
           /\ l.target \in Rounds!Existing /\ l.base = rounds[l.target]
           /\ Fits(l.entity, l.target)
  PROVE  WriteInv'
<1>1. q \in Rounds!Request
  BY DEF Rounds!Request
<1>2. /\ salePc'[q] = label /\ local'[q] = l
      /\ \A p \in Rounds!Request \ {q} : salePc'[p] = salePc[p] /\ local'[p] = local[p]
  BY <1>1, Suspended
<1> QED
  BY <1>2, WriteInvStep

\* Who writes a round is the only writer, and done.
LEMMA WriterDone ==
  ASSUME RoundsTypeInv, Orderly, TakesTurnsInv, NEW q \in Rounds!Writer, Busy(q),
         Rounds!Return(q)
  PROVE  WriteInv'
<1>1. \A p \in Rounds!Writer : salePc'[p] \in {"idle", "done"}
  BY Returned DEF TakesTurnsInv, Busy, Rounds!Request
<1> QED
  BY <1>1 DEF WriteInv

\* The rounds stay apart when the one that is written fits.
LEMMA WriteApart ==
  ASSUME RoundsTypeInv, ApartInv, NEW r \in Create, NEW row \in Rounds!Row, Fits(row, r),
         rounds' = [rounds EXCEPT ![r] = row]
  PROVE  ApartInv'
<1>1. Rounds!Existing' \subseteq Rounds!Existing \cup {r}
  BY DEF Rounds!Existing, RoundsTypeInv
<1>2. ASSUME NEW a \in Rounds!Existing', NEW b \in Rounds!Existing' \ {a}
      PROVE  Apart(rounds'[a], rounds'[b])
  <2>1. CASE a = r
    BY <1>1, <1>2, <2>1 DEF Fits, RoundsTypeInv
  <2>2. CASE b = r
    BY <1>1, <1>2, <2>2 DEF Fits, Apart, RoundsTypeInv, Rounds!Existing
  <2>3. CASE a # r /\ b # r
    BY <1>1, <1>2, <2>3 DEF ApartInv, Fits, RoundsTypeInv, Rounds!Existing
  <2> QED
    BY <2>1, <2>2, <2>3
<1> QED
  BY <1>2 DEF ApartInv, Fits, Apart, Within

LEMMA NextRoundsInv ==
  ASSUME RoundsAssumptions
  PROVE  RoundsTypeInv /\ RoundsInv /\ [Rounds!Next]_(Rounds!vars) => RoundsInv'
<1> SUFFICES ASSUME RoundsTypeInv, Orderly, TakesTurnsInv, ApartInv, WriteInv,
                    [Rounds!Next]_(Rounds!vars)
             PROVE  (ApartInv /\ WriteInv)'
  BY NextTakesTurnsInv DEF RoundsInv, Orderly, Rounds!Next, Rounds!vars
<1>a. /\ Create \subseteq Rounds!Writer /\ Update \subseteq Rounds!Writer
      /\ Remove \subseteq Rounds!Writer /\ Rounds!Writer \subseteq Rounds!Request
      /\ Rounds!TimeAssumption
  BY DEF Rounds!Request, Rounds!Writer, RoundsAssumptions
<1> USE <1>a
<1>s. ASSUME rounds' = rounds
      PROVE  ApartInv'
  BY <1>s DEF ApartInv, Rounds!Existing, Fits, Apart, Within
<1>r. ASSUME NEW q \in Rounds!Writer, Rounds!Return(q), rounds' = rounds
      PROVE  WriteInv'
  BY <1>r, Returned, WriteInvStep
<1>1. ASSUME NEW c \in Create, Rounds!CreateFind(c)
      PROVE  (ApartInv /\ WriteInv)'
  <2>1. PICK coin \in admin.coins, start \in Time, end \in Time :
          LET new == [coin |-> coin, start |-> start, end |-> end]
          IN  \/ /\ Rounds!Conflicts(new, c) = {}
                 /\ Rounds!Suspend(c, "insert", [Rounds!NoLocals EXCEPT !.entity = new])
              \/ Rounds!Return(c)
    BY <1>1 DEF Rounds!CreateFind
  <2> DEFINE new == [coin |-> coin, start |-> start, end |-> end]
             l == [Rounds!NoLocals EXCEPT !.entity = new]
  <2>2. CASE Rounds!Conflicts(new, c) = {} /\ Rounds!Suspend(c, "insert", l)
    <3>1. coin \in Coin
      BY DEF RoundsAssumptions, Rounds!EnvironmentsAssumption, RoundsTypeInv
    <3>2. new \in Rounds!Row
      BY <3>1 DEF Rounds!Row
    <3>3. Fits(new, c) /\ l.entity = new
      BY <2>2, <3>2, NoConflictsFits DEF Rounds!NoLocals
    <3> QED
      <4> HIDE DEF l
      <4>1. WriteInv'
        BY <1>1, <2>2, <3>3, SuspendWrite DEF Rounds!CreateFind
      <4> QED
        BY <1>1, <1>s, <4>1 DEF Rounds!CreateFind
  <2> QED
    BY <1>1, <1>r, <1>s, <2>1, <2>2 DEF Rounds!CreateFind
<1>2. ASSUME NEW c \in Create, Rounds!CreateInsert(c)
      PROVE  (ApartInv /\ WriteInv)'
  <2>1. Fits(local[c].entity, c) /\ local[c].entity \in Rounds!Row
    BY <1>2 DEF Rounds!CreateInsert, WriteInv, RoundsTypeInv, Locals
  <2> QED
    BY <1>2, <2>1, WriteApart, WriterDone DEF Rounds!CreateInsert, Busy
<1>3. ASSUME NEW u \in Update, Rounds!UpdateLoad(u)
      PROVE  (ApartInv /\ WriteInv)'
  <2>1. PICK r \in Create, d \in Rounds!Row :
          LET timed == d.start # 0 \/ d.end # 0
              held  == [Rounds!NoLocals EXCEPT !.target = r, !.dto = d,
                        !.entity = rounds[r]]
          IN  /\ timed \/ d.coin = Null \/ admin.recoin
              /\ \/ Rounds!Return(u)
                 \/ r \in Rounds!Existing /\ timed /\ Rounds!Suspend(u, "others", held)
                 \/ r \in Rounds!Existing /\ ~timed /\ Rounds!Suspend(u, "select", held)
    BY <1>3 DEF Rounds!UpdateLoad
  <2> DEFINE timed == d.start # 0 \/ d.end # 0
             held == [Rounds!NoLocals EXCEPT !.target = r, !.dto = d, !.entity = rounds[r]]
  <2>2. held.target = r /\ held.dto = d /\ held.entity = rounds[r]
    BY DEF Rounds!NoLocals
  <2>3. CASE r \in Rounds!Existing /\ timed /\ Rounds!Suspend(u, "others", held)
    <3> HIDE DEF held
    <3>1. WriteInv'
      BY <1>3, <2>2, <2>3, SuspendWrite DEF Rounds!UpdateLoad
    <3> QED
      BY <1>3, <1>s, <3>1 DEF Rounds!UpdateLoad
  <2>4. CASE r \in Rounds!Existing /\ ~timed /\ Rounds!Suspend(u, "select", held)
    <3>1. d.coin = Null /\ d.start = 0 /\ d.end = 0
      BY <2>1, <2>4 DEF Orderly
    <3>2. Rounds!Given(rounds[r], d) = rounds[r]
      BY <3>1 DEF Rounds!Given, RoundsTypeInv, Rounds!Row
    <3>3. Fits(rounds[r], r)
      BY <2>4 DEF ApartInv
    <3> QED
      <4> HIDE DEF held
      <4>1. WriteInv'
        BY <1>3, <2>2, <2>4, <3>2, <3>3, SuspendWrite DEF Rounds!UpdateLoad
      <4> QED
        BY <1>3, <1>s, <4>1 DEF Rounds!UpdateLoad
  <2> QED
    BY <1>3, <1>r, <1>s, <2>1, <2>3, <2>4 DEF Rounds!UpdateLoad
<1>4. ASSUME NEW u \in Update, Rounds!UpdateOthers(u)
      PROVE  (ApartInv /\ WriteInv)'
  <2> DEFINE row == Rounds!Given(local[u].entity, local[u].dto)
  <2>1. row \in Rounds!Row
    BY GivenType DEF RoundsTypeInv, Locals
  <2>2. CASE /\ Rounds!Conflicts(row, local[u].target) = {}
             /\ Rounds!Suspend(u, "select", local[u])
    <3>1. Fits(row, local[u].target)
      BY <2>1, <2>2, NoConflictsFits
    <3>2. local[u].target \in Rounds!Existing /\ local[u].entity = rounds[local[u].target]
      BY <1>4 DEF Rounds!UpdateOthers, WriteInv
    <3> QED
      BY <1>4, <1>s, <2>2, <3>1, <3>2, Suspended, WriteInvStep DEF Rounds!UpdateOthers
  <2> QED
    BY <1>4, <1>r, <1>s, <2>2 DEF Rounds!UpdateOthers
<1>5. ASSUME NEW u \in Update, Rounds!UpdateSelect(u)
      PROVE  (ApartInv /\ WriteInv)'
  <2> DEFINE row == Rounds!Given(local[u].entity, local[u].dto)
             l == [local[u] EXCEPT !.entity = Rounds!Given(@, local[u].dto),
                                   !.base = rounds[local[u].target]]
  <2>1. Fits(row, local[u].target) /\ local[u].target \in Rounds!Existing
    BY <1>5 DEF Rounds!UpdateSelect, WriteInv
  <2>2. /\ l.target = local[u].target /\ l.entity = row
        /\ l.base = rounds[local[u].target]
    BY DEF RoundsTypeInv, Locals
  <2>3. Rounds!Suspend(u, "save", l) /\ rounds' = rounds
    BY <1>5 DEF Rounds!UpdateSelect
  <2> HIDE DEF l
  <2>4. WriteInv'
    BY <2>1, <2>2, <2>3, SuspendWrite
  <2> QED
    BY <1>s, <2>3, <2>4
<1>6. ASSUME NEW u \in Update, Rounds!UpdateSave(u)
      PROVE  (ApartInv /\ WriteInv)'
  <2> DEFINE r == local[u].target
             e == local[u].entity
             b == local[u].base
  <2>1. /\ r \in Rounds!Existing
        /\ b = rounds[r]
        /\ Fits(e, r)
        /\ e \in Rounds!Row
        /\ b \in Rounds!Row
    BY <1>6 DEF Rounds!UpdateSave, WriteInv, RoundsTypeInv, Locals
  <2>2. r \in Create /\ b # Rounds!NoRow
    BY <2>1 DEF Rounds!Existing
  <2>3. rounds' = [rounds EXCEPT ![r] = e]
    BY <1>6, <2>1, <2>2, UpdatedRowType DEF Rounds!UpdateSave
  <2> QED
    BY <1>6, <2>1, <2>2, <2>3, WriteApart, WriterDone DEF Rounds!UpdateSave, Busy
<1>7. ASSUME NEW d \in Remove, Rounds!RemoveFind(d)
      PROVE  (ApartInv /\ WriteInv)'
  <2>1. \/ Rounds!Return(d)
        \/ \E r \in Create :
             Rounds!Suspend(d, "delete", [Rounds!NoLocals EXCEPT !.target = r])
    BY <1>7 DEF Rounds!RemoveFind
  <2>2. ASSUME NEW l, Rounds!Suspend(d, "delete", l)
        PROVE  WriteInv'
    BY <1>7, <2>2, Suspended, WriteInvStep DEF Rounds!RemoveFind
  <2> QED
    BY <1>7, <1>r, <1>s, <2>1, <2>2 DEF Rounds!RemoveFind
<1>8. ASSUME NEW d \in Remove, Rounds!RemoveDelete(d)
      PROVE  (ApartInv /\ WriteInv)'
  <2>1. /\ Rounds!Existing' \subseteq Rounds!Existing
        /\ \A r \in Rounds!Existing' : rounds'[r] = rounds[r]
    BY <1>8 DEF Rounds!RemoveDelete, Rounds!Existing, RoundsTypeInv
  <2>2. ApartInv'
    BY <2>1 DEF ApartInv, Fits, Apart, Within
  <2> QED
    BY <1>8, <2>2, WriterDone DEF Rounds!RemoveDelete, Busy
<1>9. ASSUME NEW s \in Rounds!Summary, rounds' = rounds,
             \A p \in Rounds!Request \ {s} : salePc'[p] = salePc[p] /\ local'[p] = local[p],
             salePc'[s] \in {"load", "order", "reward", "done"}
      PROVE  (ApartInv /\ WriteInv)'
  <2>1. CASE s \in Rounds!Writer
    BY <1>9, <1>s, <2>1, WriteInvStep
  <2>2. CASE s \notin Rounds!Writer
    BY <1>9, <1>s, <2>2 DEF WriteInv, Rounds!Existing, Fits, Apart, Within, Rounds!Given
  <2> QED
    BY <2>1, <2>2
<1>n. ASSUME NEW s \in Rounds!Summary, NEW left, Rounds!NextRound(s, left)
      PROVE  /\ \A p \in Rounds!Request \ {s} :
                  salePc'[p] = salePc[p] /\ local'[p] = local[p]
             /\ salePc'[s] \in {"load", "order", "reward", "done"}
  BY <1>n, Suspended, Returned DEF Rounds!NextRound, Rounds!Request
<1>10. ASSUME NEW s \in Rounds!Summary, Rounds!SummaryFind(s)
       PROVE  (ApartInv /\ WriteInv)'
  BY <1>9, <1>10, <1>n DEF Rounds!SummaryFind
<1>11. ASSUME NEW s \in Rounds!Summary, Rounds!SummaryLoad(s)
       PROVE  (ApartInv /\ WriteInv)'
  BY <1>9, <1>11, Suspended, Returned DEF Rounds!SummaryLoad, Rounds!Request
<1>12. ASSUME NEW s \in Rounds!Summary, NEW kind \in Rounds!Kind,
              Rounds!SummaryCount(s, kind)
       PROVE  (ApartInv /\ WriteInv)'
  BY <1>9, <1>12, <1>n, Suspended DEF Rounds!SummaryCount, Rounds!Request
<1>13. CASE UNCHANGED <<rounds, salePc, local>>
  BY <1>13, <1>s DEF WriteInv, Rounds!Existing, Fits, Apart, Within, Rounds!Given
<1> QED
  BY <1>1, <1>2, <1>3, <1>4, <1>5, <1>6, <1>7, <1>8, <1>10, <1>11, <1>12, <1>13
     DEF Rounds!Next, Rounds!Sell, Rounds!vars, Rounds!moving

LEMMA InitRoundsInv == Rounds!Init => RoundsInv
BY DEF Rounds!Init, RoundsInv, TakesTurnsInv, ApartInv, WriteInv, Busy, Rounds!Existing,
       Rounds!Request, Rounds!Writer

\* What the comparisons of create and update are for: two rounds of one coin never
\* have an instant in common, when writers take turns and change a coin only
\* together with a time.
THEOREM RoundsStayApart ==
  ASSUME RoundsAssumptions
  PROVE  Rounds!Spec => [](Orderly => ApartInv)
<1>1. RoundsInv => (Orderly => ApartInv)
  BY DEF RoundsInv
<1> QED
  BY <1>1, InitRoundsTypeInv, NextRoundsTypeInv, InitRoundsInv, NextRoundsInv, PTL
     DEF Rounds!Spec

-----------------------------------------------------------------------------
(* What a summary has counted.                                             *)

Counting(s) == salePc[s] \in {"load", "order", "reward"}

\* The summaries of which SummaryCountsOnce speaks.
Trusted(s) ==
  /\ ~admin.recoin
  /\ admin.serial = "all" \/ (admin.serial = "writers" /\ s \in Overview)

\* The rounds to count have no instant in common; one at a time they are those
\* of the table.  The admin's summary never reads one again.
Readable(left) ==
  /\ \A a, b \in DOMAIN left : a # b => Apart(left[a], left[b])
  /\ admin.serial = "all"
       => \A r \in DOMAIN left : r \in Rounds!Existing /\ left[r] = rounds[r]

LeftInv(s) ==
  Counting(s) => /\ Readable(local[s].left)
                 /\ local[s].target \in DOMAIN local[s].left
                 /\ local[s].entity = local[s].left[local[s].target]
                 /\ salePc[s] = "load" => s \notin Overview

Falls(x, row) == row.coin = x.coin /\ Within(x.at, row)

\* The sales of a coin that none of the rounds to count will find, and those the
\* summary has no query left for: the orders of the round whose rewards are next.
Free(left, c) == {x \in sold : x.coin = c /\ \A r \in DOMAIN left : ~Falls(x, left[r])}

Spent(s, c) ==
  {x \in sold :
     /\ x.coin = c
     /\ Counting(s) =>
          \A r \in DOMAIN local[s].left :
            Falls(x, local[s].left[r]) =>
              r = local[s].target /\ salePc[s] = "reward" /\ x.kind = "order"}

\* A summary has counted no more than the sales it will not look for again.
CountInv(s) ==
  /\ salePc[s] = "idle" => \A c \in Coin : counted[s][c] = 0
  /\ \A c \in Coin : counted[s][c] <= Cardinality(Spent(s, c))

SumInv == \A s \in Rounds!Summary : Trusted(s) => LeftInv(s) /\ CountInv(s)

LEMMA SoldSubset ==
  ASSUME RoundsTypeInv, NEW A, NEW B \in SUBSET sold, A \subseteq B
  PROVE  /\ IsFiniteSet(A) /\ Cardinality(A) \in Nat
         /\ IsFiniteSet(B) /\ Cardinality(B) \in Nat
         /\ Cardinality(A) <= Cardinality(B)
<1>1. IsFiniteSet(B)
  BY FS_Subset DEF RoundsTypeInv
<1> QED
  BY <1>1, FS_Subset, FS_CardinalityType

LEMMA SoldUnion ==
  ASSUME RoundsTypeInv, NEW A \in SUBSET sold, NEW B \in SUBSET sold, NEW C \in SUBSET sold,
         A \cap B = {}, A \cup B \subseteq C
  PROVE  Cardinality(A) + Cardinality(B) <= Cardinality(C)
<1>1. /\ IsFiniteSet(A) /\ IsFiniteSet(B)
      /\ Cardinality(A) \in Nat /\ Cardinality(B) \in Nat
  BY SoldSubset
<1>2. Cardinality(A \cap B) = 0
  BY FS_EmptySet
<1>3. Cardinality(A \cup B) = Cardinality(A) + Cardinality(B)
  <2>1. Cardinality(A \cup B) = Cardinality(A) + Cardinality(B) - Cardinality(A \cap B)
    BY <1>1, FS_Union
  <2> QED
    BY <1>1, <1>2, <2>1
<1>4. Cardinality(A \cup B) <= Cardinality(C)
  BY SoldSubset
<1> QED
  BY <1>3, <1>4

\* A step that is not of the summary leaves it what it has, or takes it, should
\* it also be a writer, to a place where it counts nothing.
LEMMA StepOfOther ==
  ASSUME RoundsTypeInv, [Rounds!Next]_(Rounds!vars), NEW s \in Rounds!Summary
  PROVE  \/ Rounds!SummaryFind(s)
         \/ Rounds!SummaryLoad(s)
         \/ \E kind \in Rounds!Kind : Rounds!SummaryCount(s, kind)
         \/ /\ counted'[s] = counted[s] /\ sold \subseteq sold'
            /\ \/ salePc'[s] = salePc[s] /\ local'[s] = local[s]
               \/ salePc'[s] \notin {"idle", "load", "order", "reward"}
<1> DEFINE Same == salePc'[s] = salePc[s] /\ local'[s] = local[s]
           Off == salePc'[s] \notin {"idle", "load", "order", "reward"}
<1>a. s \in Rounds!Request
  BY DEF Rounds!Request
<1>b. ASSUME NEW q \in Rounds!Request, q # s, NEW label, NEW l, Rounds!Suspend(q, label, l)
      PROVE  Same
  BY <1>a, <1>b, Suspended
<1>1. ASSUME NEW q \in Rounds!Request, NEW l,
             NEW label \in {"insert", "others", "select", "save", "delete", "done"},
             Rounds!Suspend(q, label, l)
      PROVE  Same \/ Off
  BY <1>1, <1>a, <1>b, Suspended
<1>2. ASSUME NEW q \in Rounds!Request, Rounds!Return(q)
      PROVE  Same \/ Off
  BY <1>1, <1>2 DEF Rounds!Return
<1>3. ASSUME NEW q \in Rounds!Request, q # s, NEW left, Rounds!NextRound(q, left)
      PROVE  Same
  BY <1>b, <1>3 DEF Rounds!NextRound, Rounds!Return
<1>4. ASSUME NEW c \in Create, Rounds!CreateFind(c) \/ Rounds!CreateInsert(c)
      PROVE  counted' = counted /\ sold' = sold /\ (Same \/ Off)
  BY <1>1, <1>2, <1>4
     DEF Rounds!CreateFind, Rounds!CreateInsert, Rounds!Request, Rounds!Writer
<1>5. ASSUME NEW u \in Update,
             \/ Rounds!UpdateLoad(u)
             \/ Rounds!UpdateOthers(u)
             \/ Rounds!UpdateSelect(u)
             \/ Rounds!UpdateSave(u)
      PROVE  counted' = counted /\ sold' = sold /\ (Same \/ Off)
  BY <1>1, <1>2, <1>5
     DEF Rounds!UpdateLoad, Rounds!UpdateOthers, Rounds!UpdateSelect, Rounds!UpdateSave,
         Rounds!Request, Rounds!Writer
<1>6. ASSUME NEW d \in Remove, Rounds!RemoveFind(d) \/ Rounds!RemoveDelete(d)
      PROVE  counted' = counted /\ sold' = sold /\ (Same \/ Off)
  BY <1>1, <1>2, <1>6
     DEF Rounds!RemoveFind, Rounds!RemoveDelete, Rounds!Request, Rounds!Writer
<1>7. ASSUME NEW q \in Rounds!Summary, q # s, Rounds!SummaryFind(q) \/ Rounds!SummaryLoad(q)
      PROVE  counted' = counted /\ sold' = sold /\ (Same \/ Off)
  BY <1>b, <1>3, <1>7
     DEF Rounds!SummaryFind, Rounds!SummaryLoad, Rounds!Return, Rounds!Request
<1>8. ASSUME NEW q \in Rounds!Summary, q # s, NEW kind \in Rounds!Kind,
             Rounds!SummaryCount(q, kind)
      PROVE  counted'[s] = counted[s] /\ sold' = sold /\ (Same \/ Off)
  <2>1. Same \/ Off
    BY <1>b, <1>3, <1>8 DEF Rounds!SummaryCount, Rounds!Request
  <2>2. counted'[s] = counted[s]
    BY <1>8 DEF Rounds!SummaryCount, RoundsTypeInv
  <2> QED
    BY <1>8, <2>1, <2>2 DEF Rounds!SummaryCount
<1>9. ASSUME NEW x \in Sale, Rounds!Sell(x)
      PROVE  counted' = counted /\ sold \subseteq sold' /\ Same
  BY <1>9 DEF Rounds!Sell
<1>10. CASE UNCHANGED Rounds!vars
  BY <1>10 DEF Rounds!vars, Rounds!moving
<1> QED
  BY <1>4, <1>5, <1>6, <1>7, <1>8, <1>9, <1>10 DEF Rounds!Next

\* While one request at a time is served, the rounds stand still under a summary.
LEMMA RoundsStand ==
  ASSUME RoundsTypeInv, TakesTurnsInv, [Rounds!Next]_(Rounds!vars), admin.serial = "all",
         NEW s \in Rounds!Summary, Counting(s)
  PROVE  rounds' = rounds
<1>1. ASSUME NEW q \in Rounds!Request, Busy(q)
      PROVE  salePc[q] \in {"load", "order", "reward"}
  BY <1>1 DEF TakesTurnsInv, Busy, Counting, Rounds!Request
<1>2. \A q \in Rounds!Writer :
        q \in Rounds!Request /\ salePc[q] \notin {"insert", "save", "delete"}
  BY <1>1 DEF Busy, Rounds!Request
<1> QED
  BY <1>2
     DEF Rounds!Next, Rounds!vars, Rounds!moving, Rounds!CreateFind, Rounds!CreateInsert,
         Rounds!UpdateLoad, Rounds!UpdateOthers, Rounds!UpdateSelect, Rounds!UpdateSave,
         Rounds!RemoveFind, Rounds!RemoveDelete, Rounds!SummaryFind, Rounds!SummaryLoad,
         Rounds!SummaryCount, Rounds!Sell, Rounds!Writer

LEMMA StepElsewhere ==
  ASSUME RoundsTypeInv, RoundsTypeInv', admin' = admin, NEW s \in Rounds!Summary,
         LeftInv(s), CountInv(s),
         counted'[s] = counted[s], sold \subseteq sold',
         \/ salePc'[s] = salePc[s] /\ local'[s] = local[s]
         \/ salePc'[s] \notin {"idle", "load", "order", "reward"},
         admin.serial = "all" /\ Counting(s) => rounds' = rounds
  PROVE  (LeftInv(s) /\ CountInv(s))'
<1>1. LeftInv(s)'
  BY DEF LeftInv, Counting, Readable, Apart, Within, Rounds!Existing
<1>2. ASSUME NEW c \in Coin
      PROVE  counted'[s][c] <= Cardinality(Spent(s, c)')
  <2>1. Spent(s, c) \subseteq Spent(s, c)'
    BY DEF Spent, Counting, Falls, Within
  <2>2. Spent(s, c)' \in SUBSET sold' /\ Spent(s, c) \in SUBSET sold
    BY DEF Spent
  <2>3. Cardinality(Spent(s, c)) <= Cardinality(Spent(s, c)')
    <3>1. IsFiniteSet(Spent(s, c)')
      BY <2>2, FS_Subset DEF RoundsTypeInv
    <3> QED
      BY <2>1, <3>1, FS_Subset
  <2>4. /\ Cardinality(Spent(s, c)) \in Nat /\ Cardinality(Spent(s, c)') \in Nat
        /\ counted[s][c] \in Nat
    <3>1. IsFiniteSet(Spent(s, c)') /\ IsFiniteSet(Spent(s, c))
      BY <2>2, FS_Subset DEF RoundsTypeInv
    <3> QED
      BY <3>1, FS_CardinalityType DEF RoundsTypeInv
  <2> QED
    BY <2>3, <2>4 DEF CountInv
<1>3. salePc'[s] = "idle" => \A c \in Coin : counted'[s][c] = 0
  BY DEF CountInv
<1> QED
  BY <1>1, <1>2, <1>3 DEF CountInv

\* What a summary has counted when it turns to the rounds that are left.
LEMMA NextRoundSum ==
  ASSUME RoundsTypeInv, RoundsTypeInv', admin' = admin, rounds' = rounds, sold' = sold,
         NEW s \in Rounds!Summary, NEW left \in RoundSets, Rounds!NextRound(s, left),
         Readable(left),
         \A c \in Coin : counted'[s][c] <= Cardinality(Free(left, c))
  PROVE  (LeftInv(s) /\ CountInv(s))'
<1>0. s \in Rounds!Request
  BY DEF Rounds!Request
<1>1. \/ salePc'[s] = "done"
      \/ \E r \in DOMAIN left :
           /\ salePc'[s] \in {"order", "load"} /\ (salePc'[s] = "load" => s \notin Overview)
           /\ local'[s].target = r /\ local'[s].entity = left[r] /\ local'[s].left = left
  <2>1. ASSUME NEW r \in DOMAIN left, NEW label \in {"order", "load"},
               Rounds!Suspend(s, label,
                              [Rounds!NoLocals EXCEPT !.target = r, !.entity = left[r],
                               !.left = left])
        PROVE  /\ salePc'[s] = label
               /\ local'[s].target = r
               /\ local'[s].entity = left[r]
               /\ local'[s].left = left
    <3> DEFINE l == [Rounds!NoLocals EXCEPT !.target = r, !.entity = left[r], !.left = left]
    <3>1. l.target = r /\ l.entity = left[r] /\ l.left = left
      BY DEF Rounds!NoLocals
    <3>2. Rounds!Suspend(s, label, l)
      BY <2>1
    <3> HIDE DEF l
    <3>3. salePc'[s] = label /\ local'[s] = l
      BY <1>0, <3>2, Suspended
    <3> QED
      BY <3>1, <3>3
  <2> QED
    BY <1>0, <2>1, Returned DEF Rounds!NextRound
<1>2. Readable(left)'
  BY DEF Readable, Apart, Within, Rounds!Existing
<1>3. LeftInv(s)'
  BY <1>1, <1>2 DEF LeftInv, Counting, Readable, Apart, Within, Rounds!Existing
<1>4. ASSUME NEW c \in Coin
      PROVE  counted'[s][c] <= Cardinality(Spent(s, c)')
  <2>1. Free(left, c) \subseteq Spent(s, c)'
    BY <1>1 DEF Free, Spent, Counting, Falls, Within
  <2>2. Spent(s, c)' \in SUBSET sold
    BY DEF Spent
  <2>3. /\ Cardinality(Free(left, c)) \in Nat /\ Cardinality(Spent(s, c)') \in Nat
        /\ Cardinality(Free(left, c)) <= Cardinality(Spent(s, c)')
    BY <2>1, <2>2, SoldSubset
  <2>4. counted'[s][c] \in Nat
    BY DEF RoundsTypeInv
  <2> QED
    BY <2>3, <2>4
<1> QED
  BY <1>1, <1>3, <1>4 DEF CountInv

\* The rounds a summary finds are rounds of the table, and no sale is counted yet.
LEMMA FindSum ==
  ASSUME RoundsTypeInv, RoundsTypeInv', admin' = admin, ApartInv,
         NEW s \in Rounds!Summary, CountInv(s), Rounds!SummaryFind(s)
  PROVE  (LeftInv(s) /\ CountInv(s))'
<1>1. PICK S \in SUBSET Rounds!Existing : Rounds!NextRound(s, [r \in S |-> rounds[r]])
  <2>1. \A wanted, now :
          {r \in Rounds!Existing : Rounds!Status(rounds[r], now) = wanted}
            \in SUBSET Rounds!Existing
    OBVIOUS
  <2> QED
    BY <2>1 DEF Rounds!SummaryFind
<1> DEFINE left == [r \in S |-> rounds[r]]
<1>2. left \in RoundSets
  <2>1. S \in SUBSET Create /\ \A r \in S : rounds[r] \in Rounds!Row
    BY DEF Rounds!Existing, RoundsTypeInv
  <2> QED
    BY <2>1, SomeRounds
<1>3. Readable(left)
  BY DEF Readable, ApartInv, Fits
<1>4. /\ rounds' = rounds /\ sold' = sold /\ counted' = counted
      /\ salePc[s] = "idle"
  BY DEF Rounds!SummaryFind, Rounds!Start
<1>5. ASSUME NEW c \in Coin
      PROVE  counted'[s][c] <= Cardinality(Free(left, c))
  <2>1. Free(left, c) \in SUBSET sold
    BY DEF Free
  <2>2. Cardinality(Free(left, c)) \in Nat
    BY <2>1, SoldSubset
  <2>3. counted'[s][c] = 0
    BY <1>4 DEF CountInv
  <2> QED
    BY <2>2, <2>3
<1> HIDE DEF left
<1> QED
  BY <1>1, <1>2, <1>3, <1>4, <1>5, NextRoundSum DEF left

\* Reading a round again finds what was found first, one request at a time.
LEMMA LoadSum ==
  ASSUME RoundsTypeInv, RoundsTypeInv', admin' = admin, NEW s \in Rounds!Summary,
         Trusted(s), LeftInv(s), CountInv(s), Rounds!SummaryLoad(s)
  PROVE  (LeftInv(s) /\ CountInv(s))'
<1>1. /\ salePc[s] = "load" /\ s \in Rounds!Request
      /\ rounds' = rounds /\ sold' = sold /\ counted' = counted
  BY DEF Rounds!SummaryLoad, Rounds!Request
<1> DEFINE r == local[s].target
           l == [local[s] EXCEPT !.entity = rounds[r]]
<1>2. /\ l.target = r /\ l.left = local[s].left /\ l.entity = rounds[r]
      /\ local[s] \in Locals
  BY <1>1 DEF RoundsTypeInv, Locals
<1>3. Rounds!Suspend(s, "order", l) \/ Rounds!Return(s)
  BY DEF Rounds!SummaryLoad
<1>4. CASE Rounds!Return(s)
  <2>1. salePc'[s] = "done"
    BY <1>1, <1>4, Returned
  <2> QED
    BY <1>1, <2>1, StepElsewhere
<1>5. CASE Rounds!Suspend(s, "order", l)
  <2>1. /\ rounds[r] = local[s].left[r]
        /\ r \in DOMAIN local[s].left
        /\ Readable(local[s].left)
    BY <1>1 DEF LeftInv, Counting, Readable, Trusted
  <2>2. /\ salePc'[s] = "order"
        /\ local'[s].target = r /\ local'[s].left = local[s].left
        /\ local'[s].entity = local[s].left[r]
    <3> HIDE DEF l
    <3>1. salePc'[s] = "order" /\ local'[s] = l
      BY <1>1, <1>5, Suspended
    <3> QED
      BY <1>2, <2>1, <3>1
  <2>3. LeftInv(s)'
    BY <1>1, <2>1, <2>2 DEF LeftInv, Readable, Rounds!Existing, Apart, Within
  <2>4. \A c \in Coin : Spent(s, c)' = Spent(s, c)
    BY <1>1, <2>2 DEF Spent, Counting, Falls, Within
  <2>5. CountInv(s)'
    BY <1>1, <2>2, <2>4 DEF CountInv
  <2> QED
    BY <2>3, <2>5
<1> QED
  BY <1>3, <1>4, <1>5

LEMMA CountingStep ==
  ASSUME RoundsTypeInv, NEW s \in Rounds!Summary, NEW kind \in Rounds!Kind,
         Rounds!SummaryCount(s, kind), NEW c \in Coin
  PROVE  counted'[s][c] = counted[s][c]
           + (IF c = local[s].entity.coin
                THEN Cardinality(Rounds!Counts(local[s].entity, kind))
                ELSE 0)
<1> DEFINE row == local[s].entity
           n == Cardinality(Rounds!Counts(row, kind))
<1>1. counted' = [counted EXCEPT ![s][row.coin] = @ + n]
  BY SameSaleCount DEF Rounds!SummaryCount
<1>2. counted[s] \in [Coin -> Nat] /\ counted \in [Rounds!Summary -> [Coin -> Nat]]
  BY DEF RoundsTypeInv
<1>3. counted'[s] = [counted[s] EXCEPT ![row.coin] = @ + n]
  BY <1>1, <1>2
<1>4. CASE c = row.coin
  BY <1>2, <1>3, <1>4
<1>5. CASE c # row.coin
  <2>1. counted'[s][c] = counted[s][c]
    BY <1>2, <1>3, <1>5
  <2> QED
    BY <1>2, <1>5, <2>1
<1> QED
  BY <1>4, <1>5

\* The sales a query counts are none of those that were counted before.
LEMMA CountedApart ==
  ASSUME RoundsTypeInv, NEW s \in Rounds!Summary, NEW kind \in Rounds!Kind, LeftInv(s),
         salePc[s] = kind,
         NEW c \in Coin, c = local[s].entity.coin
  PROVE  Spent(s, c) \cap Rounds!Counts(local[s].entity, kind) = {}
BY DEF LeftInv, Counting, Rounds!Kind, Spent, Rounds!Counts, Falls, Within

\* The orders of a round first ...
LEMMA CountOrdersSum ==
  ASSUME RoundsAssumptions, RoundsTypeInv, RoundsTypeInv', admin' = admin,
         NEW s \in Rounds!Summary,
         LeftInv(s), CountInv(s), Rounds!SummaryCount(s, "order")
  PROVE  (LeftInv(s) /\ CountInv(s))'
<1> DEFINE row == local[s].entity
           left == local[s].left
           new == Rounds!Counts(row, "order")
<1>1. /\ salePc[s] = "order" /\ s \in Rounds!Request /\ "order" \in Rounds!Kind
      /\ rounds' = rounds /\ sold' = sold
  BY DEF Rounds!SummaryCount, Rounds!Request, Rounds!Kind
<1>2. salePc'[s] = "reward" /\ local'[s] = local[s]
  <2>1. Rounds!Suspend(s, "reward", local[s])
    BY DEF Rounds!SummaryCount
  <2> QED
    BY <1>1, <2>1, Suspended
<1>3. LeftInv(s)'
  BY <1>1, <1>2 DEF LeftInv, Counting, Readable, Rounds!Existing, Apart, Within
<1>4. ASSUME NEW c \in Coin
      PROVE  counted'[s][c] <= Cardinality(Spent(s, c)')
  <2>1. Spent(s, c) \subseteq Spent(s, c)'
    BY <1>1, <1>2 DEF Spent, Counting, Falls, Within
  <2>2. /\ Spent(s, c) \in SUBSET sold /\ Spent(s, c)' \in SUBSET sold
        /\ new \in SUBSET sold
    BY <1>1 DEF Spent, Rounds!Counts
  <2>3. /\ Cardinality(Spent(s, c)) <= Cardinality(Spent(s, c)')
        /\ Cardinality(Spent(s, c)) \in Nat /\ Cardinality(Spent(s, c)') \in Nat
        /\ Cardinality(new) \in Nat
    BY <2>1, <2>2, SoldSubset
  <2>4. counted[s][c] \in Nat /\ counted[s][c] <= Cardinality(Spent(s, c))
    BY DEF RoundsTypeInv, CountInv
  <2>5. CASE c # row.coin
    <3>1. counted'[s][c] = counted[s][c]
      BY <1>1, <2>4, <2>5, CountingStep
    <3> QED
      BY <2>3, <2>4, <3>1
  <2>6. CASE c = row.coin
    <3>1. new \subseteq Spent(s, c)'
      <4> SUFFICES ASSUME NEW x \in new
                   PROVE  x \in Spent(s, c)'
        OBVIOUS
      <4>1. /\ x \in sold /\ x.kind = "order" /\ x.coin = c /\ Falls(x, row)
            /\ x.at \in Time
        BY <2>6
           DEF Rounds!Counts, Falls, Within, RoundsTypeInv, RoundsAssumptions,
               Rounds!SaleAssumption
      <4>2. row = left[local[s].target] /\ Readable(left) /\ local[s].target \in DOMAIN left
        BY <1>1 DEF LeftInv, Counting
      <4>3. \A r \in DOMAIN left : Falls(x, left[r]) => r = local[s].target
        BY <4>1, <4>2 DEF Readable, Apart, Falls
      <4> QED
        BY <1>1, <1>2, <4>1, <4>3 DEF Spent, Falls, Within
    <3>2. Spent(s, c) \cap new = {}
      BY <1>1, <2>6, CountedApart
    <3>3. Cardinality(Spent(s, c)) + Cardinality(new) <= Cardinality(Spent(s, c)')
      BY <2>1, <2>2, <3>1, <3>2, SoldUnion
    <3>4. counted'[s][c] = counted[s][c] + Cardinality(new)
      BY <1>1, <2>6, CountingStep
    <3> QED
      BY <2>3, <2>4, <3>3, <3>4
  <2> QED
    BY <2>5, <2>6
<1> QED
  BY <1>2, <1>3, <1>4 DEF CountInv

\* ... then the rewards, and on to the next round.
LEMMA CountRewardsSum ==
  ASSUME RoundsAssumptions, RoundsTypeInv, RoundsTypeInv', admin' = admin,
         NEW s \in Rounds!Summary,
         LeftInv(s), CountInv(s), Rounds!SummaryCount(s, "reward")
  PROVE  (LeftInv(s) /\ CountInv(s))'
<1> DEFINE row == local[s].entity
           left == local[s].left
           rest == [r \in DOMAIN left \ {local[s].target} |-> left[r]]
           new == Rounds!Counts(row, "reward")
<1>1. /\ salePc[s] = "reward" /\ s \in Rounds!Request /\ "reward" \in Rounds!Kind
      /\ rounds' = rounds /\ sold' = sold
      /\ Rounds!NextRound(s, rest)
  BY DEF Rounds!SummaryCount, Rounds!Request, Rounds!Kind
<1>2. /\ row = left[local[s].target] /\ Readable(left) /\ local[s].target \in DOMAIN left
      /\ left \in RoundSets
  BY <1>1 DEF LeftInv, Counting, RoundsTypeInv, Locals
<1>3. rest \in RoundSets
  BY <1>2, RoundsType, SomeRounds
<1>4. Readable(rest)
  BY <1>2 DEF Readable
<1>5. ASSUME NEW c \in Coin
      PROVE  counted'[s][c] <= Cardinality(Free(rest, c))
  <2>1. Spent(s, c) \subseteq Free(rest, c)
    BY <1>1 DEF Spent, Free, Counting
  <2>2. /\ Spent(s, c) \in SUBSET sold /\ Free(rest, c) \in SUBSET sold
        /\ new \in SUBSET sold
    BY DEF Spent, Free, Rounds!Counts
  <2>3. /\ Cardinality(Spent(s, c)) <= Cardinality(Free(rest, c))
        /\ Cardinality(Spent(s, c)) \in Nat /\ Cardinality(Free(rest, c)) \in Nat
        /\ Cardinality(new) \in Nat
    BY <2>1, <2>2, SoldSubset
  <2>4. counted[s][c] \in Nat /\ counted[s][c] <= Cardinality(Spent(s, c))
    BY DEF RoundsTypeInv, CountInv
  <2>5. CASE c # row.coin
    <3>1. counted'[s][c] = counted[s][c]
      BY <1>1, <2>4, <2>5, CountingStep
    <3> QED
      BY <2>3, <2>4, <3>1
  <2>6. CASE c = row.coin
    <3>1. new \subseteq Free(rest, c)
      <4> SUFFICES ASSUME NEW x \in new
                   PROVE  x \in Free(rest, c)
        OBVIOUS
      <4>1. x \in sold /\ x.coin = c /\ Falls(x, row) /\ x.at \in Time
        BY <2>6
           DEF Rounds!Counts, Falls, Within, RoundsTypeInv, RoundsAssumptions,
               Rounds!SaleAssumption
      <4>2. \A r \in DOMAIN left : Falls(x, left[r]) => r = local[s].target
        BY <1>2, <4>1 DEF Readable, Apart, Falls
      <4> QED
        BY <4>1, <4>2 DEF Free
    <3>2. Spent(s, c) \cap new = {}
      BY <1>1, <2>6, CountedApart
    <3>3. Cardinality(Spent(s, c)) + Cardinality(new) <= Cardinality(Free(rest, c))
      BY <2>1, <2>2, <3>1, <3>2, SoldUnion
    <3>4. counted'[s][c] = counted[s][c] + Cardinality(new)
      BY <1>1, <2>6, CountingStep
    <3> QED
      BY <2>3, <2>4, <3>3, <3>4
  <2> QED
    BY <2>5, <2>6
<1> HIDE DEF rest
<1> QED
  BY <1>1, <1>3, <1>4, <1>5, NextRoundSum

LEMMA NextSumInv ==
  ASSUME RoundsAssumptions
  PROVE  RoundsTypeInv /\ RoundsInv /\ SumInv /\ [Rounds!Next]_(Rounds!vars) => SumInv'
<1> SUFFICES ASSUME RoundsTypeInv, RoundsInv, SumInv, [Rounds!Next]_(Rounds!vars),
                    NEW s \in Rounds!Summary, Trusted(s)
             PROVE  (LeftInv(s) /\ CountInv(s))'
  BY DEF SumInv, Trusted, Rounds!Next, Rounds!vars
<1>1. /\ RoundsTypeInv' /\ admin' = admin
      /\ TakesTurnsInv /\ ApartInv
      /\ LeftInv(s) /\ CountInv(s)
  BY NextRoundsTypeInv DEF RoundsInv, SumInv, Trusted, Orderly, Rounds!Next, Rounds!vars
<1>2. CASE Rounds!SummaryFind(s)
  BY <1>1, <1>2, FindSum
<1>3. CASE Rounds!SummaryLoad(s)
  BY <1>1, <1>3, LoadSum
<1>4. ASSUME NEW kind \in Rounds!Kind, Rounds!SummaryCount(s, kind)
      PROVE  (LeftInv(s) /\ CountInv(s))'
  BY <1>1, <1>4, CountOrdersSum, CountRewardsSum DEF Rounds!Kind
<1>5. CASE /\ counted'[s] = counted[s] /\ sold \subseteq sold'
           /\ \/ salePc'[s] = salePc[s] /\ local'[s] = local[s]
              \/ salePc'[s] \notin {"idle", "load", "order", "reward"}
  <2>1. admin.serial = "all" /\ Counting(s) => rounds' = rounds
    BY <1>1, RoundsStand
  <2> QED
    BY <1>1, <1>5, <2>1, StepElsewhere
<1> QED
  BY <1>2, <1>3, <1>4, <1>5, StepOfOther

\* A summary counts no sale twice, in the admin's service nor in the public one:
\* rounds of one coin have no instant in common, whatever creates, updates and
\* removes there are, when writers take turns.
THEOREM SalesCountOnce ==
  ASSUME RoundsAssumptions
  PROVE  Rounds!Spec => []SummaryCountsOnce
<1>1. Rounds!Init => SumInv
  <2> SUFFICES ASSUME Rounds!Init, NEW s \in Rounds!Summary
               PROVE  LeftInv(s) /\ CountInv(s)
    BY DEF SumInv
  <2>1. RoundsTypeInv /\ salePc[s] = "idle" /\ \A c \in Coin : counted[s][c] = 0
    BY InitRoundsTypeInv DEF Rounds!Init, Rounds!Request
  <2>2. ASSUME NEW c \in Coin
        PROVE  Cardinality(Spent(s, c)) \in Nat
    <3>1. Spent(s, c) \in SUBSET sold
      BY DEF Spent
    <3> QED
      BY <2>1, <3>1, SoldSubset
  <2> QED
    BY <2>1, <2>2 DEF LeftInv, CountInv, Counting
<1>2. RoundsTypeInv /\ SumInv => SummaryCountsOnce
  <2> SUFFICES ASSUME RoundsTypeInv, SumInv, NEW s \in Rounds!Summary, Trusted(s),
                      NEW c \in Coin
               PROVE  counted[s][c] <= Cardinality({x \in sold : x.coin = c})
    BY SameSaleCount DEF SummaryCountsOnce, Rounds!SummaryCountsOnce, Trusted
  <2> DEFINE all == {x \in sold : x.coin = c}
  <2>1. Spent(s, c) \subseteq all /\ all \in SUBSET sold
    BY DEF Spent
  <2>2. /\ Cardinality(Spent(s, c)) \in Nat /\ Cardinality(all) \in Nat
        /\ Cardinality(Spent(s, c)) <= Cardinality(all)
    BY <2>1, SoldSubset
  <2>3. counted[s][c] \in Nat /\ counted[s][c] <= Cardinality(Spent(s, c))
    BY DEF RoundsTypeInv, SumInv, CountInv
  <2> QED
    BY <2>2, <2>3
<1> QED
  BY <1>1, <1>2, InitRoundsTypeInv, NextRoundsTypeInv, InitRoundsInv, NextRoundsInv,
     NextSumInv, PTL
     DEF Rounds!Spec

-----------------------------------------------------------------------------
(* The clicks on a referral code.                                          *)

\* The instance counts as this module does.
LEMMA SameClickCount == \A S : Clicks!Cardinality(S) = Cardinality(S)
BY DEF Clicks!Cardinality, Cardinality, Clicks!IsFiniteSet, IsFiniteSet

Saving == {"insert", "select", "update"}

\* An entity to be saved is that of its click; a click that is counted is over.
ClickTypeInv ==
  /\ Clicks!TypeOK
  /\ \A c \in Click : clickPc[c] \in Saving =>
       /\ clickEntity[c] \in Clicks!Row
       /\ clickEntity[c].last_click_at \in [day : 0..day, by : {c}]
  /\ \A c \in Click : clickPc[c] \in {"select", "update"} => click \in Clicks!Row
  /\ \A c \in Click : clickPc[c] = "update" => clickBase[c] \in Clicks!Row
  /\ IsFiniteSet(clicked)
  /\ \A k \in clicked : k.day <= day /\ clickPc[k.by] = "done"

LEMMA RowIsNotNone == \A r \in Clicks!Row : r # Clicks!NoRow
<1> SUFFICES ASSUME NEW r \in Clicks!Row, r = Clicks!NoRow
             PROVE  FALSE
  OBVIOUS
<1>1. "clicks_today" \in DOMAIN r
  BY DEF Clicks!Row
<1>2. DOMAIN Clicks!NoRow = {"total_clicks"}
  BY DEF Clicks!NoRow
<1> QED
  BY <1>1, <1>2

LEMMA CountedType ==
  ASSUME ClickTypeInv, NEW c \in Click
  PROVE  /\ Clicks!Counted(click, c) \in Clicks!Row
         /\ Clicks!Counted(click, c).last_click_at = [day |-> day, by |-> c]
         /\ Clicks!Counted(click, c).total_clicks = click.total_clicks + 1
<1>1. day \in Int /\ click \in Clicks!Row \cup {Clicks!NoRow}
  BY DEF ClickTypeInv, Clicks!TypeOK
<1>2. CASE click = Clicks!NoRow
  BY <1>1, <1>2 DEF Clicks!Counted, Clicks!Row, Clicks!NoRow
<1>3. CASE click \in Clicks!Row
  <2>1. click # Clicks!NoRow
    BY <1>3, RowIsNotNone
  <2>2. \A a, b : \A n \in Nat : Clicks!CountedSince(a, b, n) \in Nat
    BY DEF Clicks!CountedSince
  <2>3. /\ click.total_clicks \in Nat /\ click.clicks_today \in Nat
        /\ click.clicks_this_week \in Nat /\ click.clicks_this_month \in Nat
    BY <1>3 DEF Clicks!Row
  <2> QED
    BY <1>1, <2>1, <2>2, <2>3 DEF Clicks!Counted, Clicks!Row
<1> QED
  BY <1>1, <1>2, <1>3

\* A save leaves, of each column, what it has or what was there.
LEMMA SavedClickType ==
  ASSUME NEW old \in Clicks!Row, NEW new \in Clicks!Row, NEW stored \in Clicks!Row
  PROVE  /\ Clicks!Updated(old, new, stored) \in Clicks!Row
         /\ Clicks!Updated(old, new, stored).total_clicks
              \in {new.total_clicks, stored.total_clicks}
         /\ old = stored => Clicks!Updated(old, new, stored) = new
<1> DEFINE u == Clicks!Updated(old, new, stored)
<1>1. DOMAIN stored = {"total_clicks", "clicks_today", "clicks_this_week",
                       "clicks_this_month", "last_click_at"}
  BY DEF Clicks!Row
<1>2. /\ DOMAIN u = DOMAIN stored
      /\ \A f \in DOMAIN stored : u[f] \in {new[f], stored[f]}
      /\ old = stored => \A f \in DOMAIN stored : u[f] = new[f]
      /\ u = [f \in DOMAIN stored |-> u[f]]
  BY DEF Clicks!Updated
<1>3. u = [total_clicks |-> u.total_clicks, clicks_today |-> u.clicks_today,
           clicks_this_week |-> u.clicks_this_week,
           clicks_this_month |-> u.clicks_this_month, last_click_at |-> u.last_click_at]
  BY <1>1, <1>2
<1>4. /\ u.total_clicks \in {new.total_clicks, stored.total_clicks}
      /\ u.clicks_today \in {new.clicks_today, stored.clicks_today}
      /\ u.clicks_this_week \in {new.clicks_this_week, stored.clicks_this_week}
      /\ u.clicks_this_month \in {new.clicks_this_month, stored.clicks_this_month}
      /\ u.last_click_at \in {new.last_click_at, stored.last_click_at}
  BY <1>1, <1>2
<1>5. ASSUME old = stored
      PROVE  u = new
  <2>1. /\ u.total_clicks = new.total_clicks /\ u.clicks_today = new.clicks_today
        /\ u.clicks_this_week = new.clicks_this_week
        /\ u.clicks_this_month = new.clicks_this_month
        /\ u.last_click_at = new.last_click_at
    BY <1>1, <1>2, <1>5
  <2>2. new = [total_clicks |-> new.total_clicks, clicks_today |-> new.clicks_today,
               clicks_this_week |-> new.clicks_this_week,
               clicks_this_month |-> new.clicks_this_month,
               last_click_at |-> new.last_click_at]
    BY DEF Clicks!Row
  <2> HIDE DEF u
  <2> QED
    BY <1>3, <2>1, <2>2
<1> HIDE DEF u
<1>6. u \in Clicks!Row
  <2>1. /\ u.total_clicks \in Nat /\ u.clicks_today \in Nat /\ u.clicks_this_week \in Nat
        /\ u.clicks_this_month \in Nat /\ u.last_click_at \in [day : Int, by : Click]
    BY <1>4 DEF Clicks!Row
  <2> QED
    BY <1>3, <2>1 DEF Clicks!Row
<1> QED
  BY <1>4, <1>5, <1>6 DEF u

LEMMA InitClickTypeInv ==
  ASSUME Clicks!CalendarAssumption
  PROVE  Clicks!Init => ClickTypeInv
<1> SUFFICES ASSUME Clicks!Init
             PROVE  ClickTypeInv
  OBVIOUS
<1>1. 0 \in 0..LastDay
  BY DEF Clicks!CalendarAssumption
<1> QED
  BY <1>1, FS_EmptySet DEF Clicks!Init, ClickTypeInv, Clicks!TypeOK, Clicks!Resting, Saving

\* What the save of a click leaves.
LEMMA SaveSteps ==
  ASSUME ClickTypeInv, NEW c \in Click, Clicks!Insert(c) \/ Clicks!SaveUpdate(c)
  PROVE  /\ clickPc[c] \in Saving /\ clickPc' = [clickPc EXCEPT ![c] = "done"]
         /\ click' \in Clicks!Row
         /\ click'.total_clicks \in {clickEntity[c].total_clicks, click.total_clicks}
         /\ clicked' = clicked \cup {clickEntity[c].last_click_at}
         /\ clickEntity[c].last_click_at \notin clicked
         /\ IsFiniteSet(clicked') /\ Cardinality(clicked') = Cardinality(clicked) + 1
         /\ UNCHANGED <<serialClicks, day, clickEntity, clickBase>>
<1>1. clickPc[c] \in Saving /\ clickPc[c] # "done"
  BY DEF Clicks!Insert, Clicks!SaveUpdate, Saving
<1>2. clicked' = clicked \cup {clickEntity[c].last_click_at}
  BY DEF Clicks!Insert, Clicks!SaveUpdate, Clicks!Save
<1>3. clickEntity[c].last_click_at \notin clicked
  <2>1. clickEntity[c].last_click_at.by = c
    BY <1>1 DEF ClickTypeInv
  <2> QED
    BY <1>1, <2>1 DEF ClickTypeInv
<1>4. IsFiniteSet(clicked') /\ Cardinality(clicked') = Cardinality(clicked) + 1
  BY <1>2, <1>3, FS_AddElement DEF ClickTypeInv
<1>5. /\ click' \in Clicks!Row
      /\ click'.total_clicks \in {clickEntity[c].total_clicks, click.total_clicks}
  <2>1. CASE Clicks!Insert(c)
    BY <1>1, <2>1 DEF Clicks!Insert, Clicks!Save, ClickTypeInv
  <2>2. CASE Clicks!SaveUpdate(c)
    <3>1. /\ clickBase[c] \in Clicks!Row
          /\ clickEntity[c] \in Clicks!Row
          /\ click \in Clicks!Row
      BY <1>1, <2>2 DEF Clicks!SaveUpdate, ClickTypeInv
    <3> QED
      BY <2>2, <3>1, SavedClickType DEF Clicks!SaveUpdate, Clicks!Save
  <2> QED
    BY <2>1, <2>2
<1> QED
  BY <1>1, <1>2, <1>3, <1>4, <1>5
     DEF Clicks!Insert, Clicks!SaveUpdate, Clicks!Save, Clicks!Goto

LEMMA NextClickTypeInv ==
  ASSUME Clicks!CalendarAssumption
  PROVE  ClickTypeInv /\ [Clicks!Next]_(Clicks!vars) => ClickTypeInv'
<1> SUFFICES ASSUME ClickTypeInv, [Clicks!Next]_(Clicks!vars)
             PROVE  ClickTypeInv'
  OBVIOUS
<1>0. /\ LastDay \in Nat /\ day \in 0..LastDay
      /\ clicked \subseteq [day : 0..LastDay, by : Click]
  BY DEF Clicks!CalendarAssumption, ClickTypeInv, Clicks!TypeOK
<1>1. CASE Clicks!Tomorrow
  <2>1. day' \in 0..LastDay /\ day' = day + 1
    BY <1>0, <1>1 DEF Clicks!Tomorrow
  <2>2. \A k \in clicked : k.day <= day'
    BY <1>0, <2>1 DEF ClickTypeInv
  <2>3. \A c \in Click :
          \A k : k \in [day : 0..day, by : {c}] => k \in [day : 0..day', by : {c}]
    BY <1>0, <2>1
  <2> QED
    BY <1>1, <2>1, <2>2, <2>3 DEF Clicks!Tomorrow, ClickTypeInv, Clicks!TypeOK
<1>2. ASSUME NEW c \in Click, Clicks!FindWallet(c)
      PROVE  ClickTypeInv'
  BY <1>2 DEF Clicks!FindWallet, Clicks!Goto, ClickTypeInv, Clicks!TypeOK, Saving
<1>3. ASSUME NEW c \in Click, Clicks!FindStats(c)
      PROVE  ClickTypeInv'
  <2>1. /\ Clicks!Counted(click, c) \in Clicks!Row
        /\ Clicks!Counted(click, c).last_click_at \in [day : 0..day, by : {c}]
    <3>1. day \in 0..day
      BY <1>0
    <3>2. [day |-> day, by |-> c] \in [day : 0..day, by : {c}]
      BY <3>1
    <3> QED
      BY <3>2, CountedType
  <2>2. click # Clicks!NoRow => click \in Clicks!Row
    BY DEF ClickTypeInv, Clicks!TypeOK
  <2> QED
    BY <1>3, <2>1, <2>2
       DEF Clicks!FindStats, Clicks!Goto, ClickTypeInv, Clicks!TypeOK, Saving
<1>4. ASSUME NEW c \in Click, Clicks!Insert(c) \/ Clicks!SaveUpdate(c)
      PROVE  ClickTypeInv'
  <2>1. /\ clickEntity[c].last_click_at \in [day : 0..LastDay, by : Click]
        /\ clickEntity[c].last_click_at.day <= day /\ clickEntity[c].last_click_at.by = c
    BY <1>0, <1>4, SaveSteps DEF ClickTypeInv
  <2> QED
    BY <1>4, <2>1, SaveSteps DEF ClickTypeInv, Clicks!TypeOK, Saving, Clicks!Resting
<1>5. ASSUME NEW c \in Click, Clicks!SaveSelect(c)
      PROVE  ClickTypeInv'
  BY <1>5 DEF Clicks!SaveSelect, Clicks!Goto, ClickTypeInv, Clicks!TypeOK, Saving
<1>6. ASSUME NEW c \in Click, Clicks!Lost(c)
      PROVE  ClickTypeInv'
  BY <1>6 DEF Clicks!Lost, Clicks!Goto, ClickTypeInv, Clicks!TypeOK, Saving, Clicks!Resting
<1>7. CASE UNCHANGED Clicks!vars
  BY <1>7 DEF Clicks!vars, ClickTypeInv, Clicks!TypeOK
<1> QED
  BY <1>1, <1>2, <1>3, <1>4, <1>5, <1>6, <1>7 DEF Clicks!Next, Clicks!TrackClick

\* Every variable of the clicks keeps its type.
THEOREM ClickTypeCorrect ==
  ASSUME Clicks!CalendarAssumption
  PROVE  Clicks!Spec => []Clicks!TypeOK
<1>1. ClickTypeInv => Clicks!TypeOK
  BY DEF ClickTypeInv
<1> QED
  BY <1>1, InitClickTypeInv, NextClickTypeInv, PTL DEF Clicks!Spec
-----------------------------------------------------------------------------
(* The calendar.                                                           *)

\* The first day of today's period is that of the period of every day since.
LEMMA Periods ==
  ASSUME Clicks!CalendarAssumption, NEW d \in 0..LastDay, NEW e \in 0..LastDay, e <= d
  PROVE  /\ Clicks!SundayOf(d) \in Int /\ Clicks!SundayOf(d) <= d
         /\ Clicks!SundayOf(d) <= e => Clicks!SundayOf(e) = Clicks!SundayOf(d)
         /\ Clicks!MonthOf(d) \in Int /\ Clicks!MonthOf(d) <= d
         /\ Clicks!MonthOf(d) <= e => Clicks!MonthOf(e) = Clicks!MonthOf(d)
<1>1. FirstWeekday \in 0..6 /\ d \in Nat /\ e \in Nat /\ e <= d /\ MonthStarts \subseteq Int
  BY DEF Clicks!CalendarAssumption
<1>2. /\ Clicks!SundayOf(d) \in Int /\ Clicks!SundayOf(d) <= d
      /\ Clicks!SundayOf(d) <= e => Clicks!SundayOf(e) = Clicks!SundayOf(d)
  BY <1>1 DEF Clicks!SundayOf, Clicks!Weekday
<1>3. ASSUME NEW x \in 0..LastDay
      PROVE  /\ Clicks!MonthOf(x) \in MonthStarts /\ Clicks!MonthOf(x) <= x
             /\ \A t \in MonthStarts : t <= x => t <= Clicks!MonthOf(x)
  <2>1. \E s \in MonthStarts : s <= x /\ \A t \in MonthStarts : t <= x => t <= s
    BY DEF Clicks!CalendarAssumption
  <2> QED
    BY <2>1 DEF Clicks!MonthOf
<1> DEFINE m == Clicks!MonthOf(d)
           n == Clicks!MonthOf(e)
<1>4. m \in MonthStarts /\ m <= d /\ n \in MonthStarts /\ n <= e
  BY <1>3
<1>5. m \in Int /\ n \in Int
  BY <1>1, <1>4
<1>6. m <= e => m <= n
  BY <1>3, <1>4
<1>7. n <= d
  BY <1>1, <1>4, <1>5
<1>8. n <= m
  BY <1>3, <1>4, <1>7
<1> HIDE DEF m, n
<1>9. m <= e => n = m
  BY <1>5, <1>6, <1>8
<1> QED
  BY <1>2, <1>4, <1>5, <1>9 DEF m, n

\* Weeks that begin on Sunday and on Monday differ by the Sunday.
LEMMA Weeks ==
  ASSUME Clicks!CalendarAssumption, NEW d \in 0..LastDay, NEW e \in 0..LastDay, e <= d,
         Clicks!Weekday(e) # 0
  PROVE  /\ Clicks!MondayOf(d) \in Int /\ Clicks!MondayOf(d) <= d
         /\ Clicks!MondayOf(d) <= e => Clicks!SundayOf(e) = Clicks!MondayOf(d) - 1
         /\ Clicks!Weekday(Clicks!MondayOf(d) - 1) = 0
<1>1. FirstWeekday \in 0..6 /\ d \in Nat /\ e \in Nat
  BY DEF Clicks!CalendarAssumption
<1> QED
  BY <1>1 DEF Clicks!MondayOf, Clicks!SundayOf, Clicks!Weekday

-----------------------------------------------------------------------------
(* The counters.                                                           *)

\* The clicks of a set since a day.
ClicksSince(S, start) == Cardinality({k \in S : k.day >= start})

\* A click on or after the start is one more; if the last click before it was too
\* old, it is the first.
LEMMA OneMoreClick ==
  ASSUME NEW S, IsFiniteSet(S), NEW k, k \notin S, NEW start \in Int, k.day >= start,
         NEW last \in Int, \A x \in S : x.day \in Int /\ x.day <= last,
         NEW since, last >= start => since = start
  PROVE  Clicks!CountedSince(start, last, ClicksSince(S, since))
           = ClicksSince(S \cup {k}, start)
<1> DEFINE Of == {x \in S : x.day >= start}
<1>1. {x \in S \cup {k} : x.day >= start} = Of \cup {k}
  OBVIOUS
<1>2. IsFiniteSet(Of) /\ k \notin Of
  <2>1. Of \in SUBSET S
    OBVIOUS
  <2> QED
    BY <2>1, FS_Subset
<1>3. Cardinality(Of \cup {k}) = Cardinality(Of) + 1
  BY <1>2, FS_AddElement
<1>4. CASE last < start
  <2>1. Of = {}
    BY <1>4
  <2>2. Cardinality(Of) = 0
    BY <2>1, FS_EmptySet
  <2> QED
    BY <1>1, <1>3, <1>4, <2>2 DEF Clicks!CountedSince, ClicksSince
<1>5. CASE last >= start
  <2>1. since = start /\ ~(last < start)
    BY <1>5
  <2> QED
    BY <1>1, <1>3, <2>1 DEF Clicks!CountedSince, ClicksSince
<1> QED
  BY <1>4, <1>5

\* A row or an entity has the counts of a set of clicks, as of its last.
Exact(r, S) ==
  /\ r \in Clicks!Row
  /\ r.last_click_at \in S
  /\ \A k \in S : k.day <= r.last_click_at.day
  /\ r.total_clicks = Cardinality(S)
  /\ r.clicks_today = ClicksSince(S, r.last_click_at.day)
  /\ r.clicks_this_week = ClicksSince(S, Clicks!SundayOf(r.last_click_at.day))
  /\ r.clicks_this_month = ClicksSince(S, Clicks!MonthOf(r.last_click_at.day))

\* A click makes exact counters exact, and the first ones.
LEMMA CountedExact ==
  ASSUME Clicks!CalendarAssumption, ClickTypeInv, NEW c \in Click, clickPc[c] # "done",
         click = Clicks!NoRow => clicked = {},
         click # Clicks!NoRow => Exact(click, clicked)
  PROVE  Exact(Clicks!Counted(click, c), clicked \cup {[day |-> day, by |-> c]})
<1> DEFINE k == [day |-> day, by |-> c]
           S == clicked \cup {k}
           new == Clicks!Counted(click, c)
<1>0. /\ LastDay \in Nat /\ day \in 0..LastDay /\ day \in Int
      /\ IsFiniteSet(clicked)
      /\ \A x \in clicked : x.day \in 0..LastDay /\ x.day \in Int /\ x.day <= day
  BY DEF Clicks!CalendarAssumption, ClickTypeInv, Clicks!TypeOK
<1>1. new \in Clicks!Row /\ new.last_click_at = k
  BY CountedType
<1>2. k \in S /\ k.day = day /\ \A x \in S : x.day <= k.day
  BY <1>0
<1>3. k \notin clicked
  BY DEF ClickTypeInv
<1>4. Cardinality(S) = Cardinality(clicked) + 1
  BY <1>0, <1>3, FS_AddElement
<1>5. /\ Clicks!SundayOf(day) \in Int /\ Clicks!SundayOf(day) <= day
      /\ Clicks!MonthOf(day) \in Int /\ Clicks!MonthOf(day) <= day
  BY <1>0, Periods
<1>6. ASSUME click = Clicks!NoRow
      PROVE  Exact(new, S)
  <2>1. Cardinality(S) = 1
    BY <1>4, <1>6, FS_EmptySet
  <2>2. \A a \in Int : a <= day => ClicksSince(S, a) = 1
    <3>1. \A a \in Int : a <= day => {x \in S : x.day >= a} = S
      BY <1>0, <1>6
    <3> QED
      BY <2>1, <3>1 DEF ClicksSince
  <2>3. /\ new.total_clicks = 1 /\ new.clicks_today = 1
        /\ new.clicks_this_week = 1 /\ new.clicks_this_month = 1
    BY <1>6 DEF Clicks!Counted
  <2>4. new.last_click_at = k /\ k.day = day
    BY <1>1
  <2> HIDE DEF new, S, k
  <2> QED
    BY <1>0, <1>1, <1>2, <1>5, <2>1, <2>2, <2>3, <2>4 DEF Exact
<1>7. ASSUME click # Clicks!NoRow
      PROVE  Exact(new, S)
  <2> DEFINE last == click.last_click_at.day
  <2>1. Exact(click, clicked)
    BY <1>7
  <2>2. /\ last \in 0..LastDay
        /\ last \in Int
        /\ last <= day
        /\ \A x \in clicked : x.day <= last
    BY <1>0, <2>1 DEF Exact
  <2>3. /\ new.total_clicks = click.total_clicks + 1
        /\ new.clicks_today = Clicks!CountedSince(day, last, click.clicks_today)
        /\ new.clicks_this_week
             = Clicks!CountedSince(Clicks!SundayOf(day), last, click.clicks_this_week)
        /\ new.clicks_this_month
             = Clicks!CountedSince(Clicks!MonthOf(day), last, click.clicks_this_month)
    BY <1>7 DEF Clicks!Counted
  <2>4. /\ click.total_clicks = Cardinality(clicked)
        /\ click.clicks_today = ClicksSince(clicked, last)
        /\ click.clicks_this_week = ClicksSince(clicked, Clicks!SundayOf(last))
        /\ click.clicks_this_month = ClicksSince(clicked, Clicks!MonthOf(last))
    BY <2>1 DEF Exact
  <2>5. /\ last >= day => last = day
        /\ last >= Clicks!SundayOf(day) => Clicks!SundayOf(last) = Clicks!SundayOf(day)
        /\ last >= Clicks!MonthOf(day) => Clicks!MonthOf(last) = Clicks!MonthOf(day)
    BY <1>0, <1>5, <2>2, Periods
  <2> HIDE DEF k, last
  <2>6. ASSUME NEW start \in Int, start <= day, NEW since, last >= start => since = start
        PROVE  Clicks!CountedSince(start, last, ClicksSince(clicked, since))
                 = ClicksSince(S, start)
    <3>1. k.day >= start
      BY <1>0, <1>2, <2>6
    <3>2. \A x \in clicked : x.day \in Int /\ x.day <= last
      BY <1>0, <2>2
    <3>3. IsFiniteSet(clicked) /\ k \notin clicked /\ last \in Int
      BY <1>0, <1>3, <2>2
    <3>4. Clicks!CountedSince(start, last, ClicksSince(clicked, since))
            = ClicksSince(clicked \cup {k}, start)
      BY <2>6, <3>1, <3>2, <3>3, OneMoreClick
    <3> QED
      BY <3>4
  <2>7. /\ new.clicks_today = ClicksSince(S, day)
        /\ new.clicks_this_week = ClicksSince(S, Clicks!SundayOf(day))
        /\ new.clicks_this_month = ClicksSince(S, Clicks!MonthOf(day))
    <3> HIDE DEF S, new
    <3> QED
      BY <1>0, <1>5, <2>3, <2>4, <2>5, <2>6
  <2>8. new.total_clicks = Cardinality(S)
    BY <1>4, <2>3, <2>4
  <2> HIDE DEF S, new
  <2> QED
    BY <1>1, <1>2, <2>7, <2>8 DEF Exact
<1> QED
  BY <1>6, <1>7

-----------------------------------------------------------------------------
(* What is shown.                                                          *)

\* No row and no entity has counted more clicks than there are with its own.
TotalInv ==
  /\ click.total_clicks <= Cardinality(clicked)
  /\ \A c \in Click :
       clickPc[c] \in Saving => clickEntity[c].total_clicks <= Cardinality(clicked) + 1

\* One at a time, the row is exact, and so is an entity with its click.
ExactInv ==
  serialClicks =>
    /\ \A c, d \in Click :
         clickPc[c] \notin Clicks!Resting /\ clickPc[d] \notin Clicks!Resting => c = d
    /\ click = Clicks!NoRow => clicked = {}
    /\ click # Clicks!NoRow => Exact(click, clicked)
    /\ \A c \in Click : clickPc[c] \in Saving =>
         Exact(clickEntity[c], clicked \cup {clickEntity[c].last_click_at})
    /\ \A c \in Click : clickPc[c] = "insert" => click = Clicks!NoRow
    /\ \A c \in Click : clickPc[c] = "update" => clickBase[c] = click

LEMMA NextTotalInv ==
  ASSUME Clicks!CalendarAssumption, ClickTypeInv, TotalInv, [Clicks!Next]_(Clicks!vars)
  PROVE  TotalInv'
<1>0. /\ Cardinality(clicked) \in Nat /\ click.total_clicks \in Nat
      /\ \A c \in Click : clickPc[c] \in Saving => clickEntity[c].total_clicks \in Nat
  <2>1. Cardinality(clicked) \in Nat
    BY FS_CardinalityType DEF ClickTypeInv
  <2>2. click.total_clicks \in Nat
    <3>1. click \in Clicks!Row \/ click = Clicks!NoRow
      BY DEF ClickTypeInv, Clicks!TypeOK
    <3> QED
      BY <3>1 DEF Clicks!Row, Clicks!NoRow
  <2>3. \A c \in Click : clickPc[c] \in Saving => clickEntity[c].total_clicks \in Nat
    BY DEF ClickTypeInv, Clicks!Row
  <2> QED
    BY <2>1, <2>2, <2>3
<1>1. ASSUME NEW c \in Click, Clicks!FindStats(c)
      PROVE  TotalInv'
  <2>1. Clicks!Counted(click, c).total_clicks <= Cardinality(clicked) + 1
    <3>1. Clicks!Counted(click, c).total_clicks = click.total_clicks + 1
      BY CountedType
    <3>2. click.total_clicks <= Cardinality(clicked)
      BY DEF TotalInv
    <3> QED
      BY <1>0, <3>1, <3>2
  <2> QED
    BY <1>1, <2>1
       DEF Clicks!FindStats, Clicks!Goto, TotalInv, ClickTypeInv, Clicks!TypeOK, Saving
<1>2. ASSUME NEW c \in Click, Clicks!Insert(c) \/ Clicks!SaveUpdate(c)
      PROVE  TotalInv'
  <2>1. /\ clickPc[c] \in Saving /\ clickPc' = [clickPc EXCEPT ![c] = "done"]
        /\ clickEntity' = clickEntity
        /\ Cardinality(clicked') = Cardinality(clicked) + 1
        /\ click'.total_clicks \in {clickEntity[c].total_clicks, click.total_clicks}
    BY <1>2, SaveSteps
  <2>2. click'.total_clicks <= Cardinality(clicked')
    BY <1>0, <2>1 DEF TotalInv
  <2>3. ASSUME NEW d \in Click, clickPc'[d] \in Saving
        PROVE  clickEntity'[d].total_clicks <= Cardinality(clicked') + 1
    <3>1. clickPc[d] \in Saving
      BY <2>1, <2>3 DEF ClickTypeInv, Clicks!TypeOK, Saving
    <3>2. clickEntity[d].total_clicks <= Cardinality(clicked) + 1
      BY <3>1 DEF TotalInv
    <3> QED
      BY <1>0, <2>1, <3>1, <3>2
  <2> QED
    BY <2>2, <2>3 DEF TotalInv
<1>3. ASSUME NEW c \in Click, Clicks!FindWallet(c) \/ Clicks!SaveSelect(c) \/ Clicks!Lost(c)
      PROVE  TotalInv'
  BY <1>3
     DEF Clicks!FindWallet, Clicks!SaveSelect, Clicks!Lost, Clicks!Goto, TotalInv,
         ClickTypeInv, Clicks!TypeOK, Saving
<1>4. CASE Clicks!Tomorrow \/ UNCHANGED Clicks!vars
  BY <1>4 DEF Clicks!Tomorrow, Clicks!vars, TotalInv
<1> QED
  BY <1>1, <1>2, <1>3, <1>4 DEF Clicks!Next, Clicks!TrackClick

LEMMA NextExactInv ==
  ASSUME Clicks!CalendarAssumption, ClickTypeInv, ExactInv, [Clicks!Next]_(Clicks!vars)
  PROVE  ExactInv'
<1> SUFFICES ASSUME serialClicks, serialClicks' = serialClicks
             PROVE  ExactInv'
  <2>1. serialClicks' = serialClicks
    BY DEF Clicks!Next, Clicks!TrackClick, Clicks!Tomorrow, Clicks!FindWallet,
           Clicks!FindStats, Clicks!Insert, Clicks!SaveSelect, Clicks!SaveUpdate,
           Clicks!Save, Clicks!Lost, Clicks!vars
  <2> QED
    BY <2>1 DEF ExactInv
<1>a. /\ \A c, d \in Click :
           clickPc[c] \notin Clicks!Resting /\ clickPc[d] \notin Clicks!Resting => c = d
      /\ click = Clicks!NoRow => clicked = {}
      /\ click # Clicks!NoRow => Exact(click, clicked)
      /\ \A c \in Click : clickPc[c] \in Saving =>
           Exact(clickEntity[c], clicked \cup {clickEntity[c].last_click_at})
      /\ \A c \in Click : clickPc[c] = "insert" => click = Clicks!NoRow
      /\ \A c \in Click : clickPc[c] = "update" => clickBase[c] = click
  BY DEF ExactInv
<1>b. Clicks!Resting = {"idle", "done"} /\ Saving = {"insert", "select", "update"}
  BY DEF Clicks!Resting, Saving
<1>c. clickPc \in [Click -> {"idle", "done", "find", "insert", "select", "update"}]
  BY DEF ClickTypeInv, Clicks!TypeOK, Clicks!Resting
<1>1. ASSUME NEW c \in Click, Clicks!FindWallet(c)
      PROVE  ExactInv'
  <2>1. /\ \A d \in Click : clickPc[d] \in Clicks!Resting
        /\ clickPc' = [clickPc EXCEPT ![c] = "find"]
        /\ UNCHANGED <<click, clickEntity, clickBase, clicked>>
    BY <1>1 DEF Clicks!FindWallet, Clicks!Goto
  <2> QED
    BY <1>a, <1>b, <1>c, <2>1 DEF ExactInv
<1>2. ASSUME NEW c \in Click, Clicks!FindStats(c)
      PROVE  ExactInv'
  <2>1. /\ clickPc[c] = "find"
        /\ clickPc' = [clickPc EXCEPT ![c] =
                         IF click = Clicks!NoRow THEN "insert" ELSE "select"]
        /\ clickEntity' = [clickEntity EXCEPT ![c] = Clicks!Counted(click, c)]
        /\ UNCHANGED <<click, clickBase, clicked>>
    BY <1>2 DEF Clicks!FindStats, Clicks!Goto
  <2>2. /\ Exact(Clicks!Counted(click, c), clicked \cup {[day |-> day, by |-> c]})
        /\ Clicks!Counted(click, c).last_click_at = [day |-> day, by |-> c]
    BY <1>a, <2>1, CountedExact, CountedType
  <2>3. /\ clickEntity'[c] = Clicks!Counted(click, c)
        /\ \A d \in Click \ {c} : clickEntity'[d] = clickEntity[d]
    BY <2>1 DEF ClickTypeInv, Clicks!TypeOK
  <2>4. Exact(clickEntity'[c], clicked \cup {clickEntity'[c].last_click_at})
    BY <2>2, <2>3
  <2>5. \A d \in Click : clickPc'[d] \notin Clicks!Resting => d = c
    BY <1>a, <1>b, <1>c, <2>1
  <2>6. clickPc'[c] = "insert" => click = Clicks!NoRow
    BY <1>c, <2>1
  <2>7. clickPc'[c] # "update"
    BY <1>c, <2>1
  <2> QED
    BY <1>a, <1>b, <2>1, <2>4, <2>5, <2>6, <2>7 DEF ExactInv
<1>3. ASSUME NEW c \in Click, Clicks!Insert(c) \/ Clicks!SaveUpdate(c)
      PROVE  ExactInv'
  <2>1. /\ clickPc[c] \in Saving /\ clickPc' = [clickPc EXCEPT ![c] = "done"]
        /\ clicked' = clicked \cup {clickEntity[c].last_click_at}
        /\ click' \in Clicks!Row /\ click' # Clicks!NoRow
    BY <1>3, SaveSteps, RowIsNotNone
  <2>2. click' = clickEntity[c]
    <3>1. CASE Clicks!Insert(c)
      BY <3>1 DEF Clicks!Insert, Clicks!Save
    <3>2. CASE Clicks!SaveUpdate(c)
      <4>1. /\ clickBase[c] = click /\ clickBase[c] \in Clicks!Row
            /\ clickEntity[c] \in Clicks!Row /\ click \in Clicks!Row
        BY <1>a, <1>b, <3>2 DEF Clicks!SaveUpdate, ClickTypeInv
      <4> QED
        BY <3>2, <4>1, SavedClickType DEF Clicks!SaveUpdate, Clicks!Save
    <3> QED
      BY <1>3, <3>1, <3>2
  <2>3. Exact(click', clicked')
    BY <1>a, <2>1, <2>2
  <2>4. \A d \in Click : clickPc'[d] \in Clicks!Resting
    BY <1>a, <1>b, <1>c, <2>1
  <2> QED
    BY <1>b, <2>1, <2>3, <2>4 DEF ExactInv
<1>4. ASSUME NEW c \in Click, Clicks!SaveSelect(c)
      PROVE  ExactInv'
  <2>1. /\ clickPc[c] = "select" /\ clickPc' = [clickPc EXCEPT ![c] = "update"]
        /\ clickBase' = [clickBase EXCEPT ![c] = click]
        /\ UNCHANGED <<click, clickEntity, clicked>>
    BY <1>4 DEF Clicks!SaveSelect, Clicks!Goto
  <2>2. clickBase'[c] = click /\ \A d \in Click \ {c} : clickBase'[d] = clickBase[d]
    BY <2>1 DEF ClickTypeInv, Clicks!TypeOK
  <2> QED
    BY <1>a, <1>b, <1>c, <2>1, <2>2 DEF ExactInv
<1>5. ASSUME NEW c \in Click, Clicks!Lost(c)
      PROVE  ExactInv'
  <2>1. /\ clickPc' = [clickPc EXCEPT ![c] = "done"]
        /\ UNCHANGED <<click, clickEntity, clickBase, clicked>>
    BY <1>5 DEF Clicks!Lost, Clicks!Goto
  <2> QED
    BY <1>a, <1>b, <1>c, <2>1 DEF ExactInv
<1>6. CASE Clicks!Tomorrow \/ UNCHANGED Clicks!vars
  BY <1>6 DEF Clicks!Tomorrow, Clicks!vars, ExactInv
<1> QED
  BY <1>1, <1>2, <1>3, <1>4, <1>5, <1>6 DEF Clicks!Next, Clicks!TrackClick

\* What is shown of a counter that is exact as of the last click.
LEMMA ShownExact ==
  ASSUME IsFiniteSet(clicked), NEW start \in Int, NEW counter, click # Clicks!NoRow,
         click.last_click_at.day \in Int,
         \A k \in clicked : k.day \in Int /\ k.day <= click.last_click_at.day,
         click.last_click_at.day >= start => click[counter] = ClicksSince(clicked, start)
  PROVE  Clicks!ShownSince(start, counter) = Clicks!Since(start)
<1>1. CASE click.last_click_at.day >= start
  BY <1>1, SameClickCount DEF Clicks!ShownSince, Clicks!Since, ClicksSince
<1>2. CASE ~(click.last_click_at.day >= start)
  <2>1. {k \in clicked : k.day >= start} = {}
    BY <1>2
  <2> QED
    BY <1>2, <2>1, FS_EmptySet, SameClickCount DEF Clicks!ShownSince, Clicks!Since
<1> QED
  BY <1>1, <1>2

LEMMA ExactIsShown ==
  ASSUME Clicks!CalendarAssumption, ClickTypeInv, click # Clicks!NoRow,
         Exact(click, clicked)
  PROVE  /\ Clicks!Shown(Clicks!SundayOf(day)) = Clicks!Real(Clicks!SundayOf(day))
         /\ (\A k \in clicked : Clicks!Weekday(k.day) # 0) =>
              Clicks!Shown(Clicks!MondayOf(day)) = Clicks!Real(Clicks!MondayOf(day))
<1> DEFINE last == click.last_click_at.day
<1>0. /\ day \in 0..LastDay /\ day \in Int /\ IsFiniteSet(clicked)
      /\ \A k \in clicked : k.day \in 0..LastDay /\ k.day \in Int /\ k.day <= last
      /\ last \in 0..LastDay /\ last \in Int /\ last <= day
  BY DEF Clicks!CalendarAssumption, ClickTypeInv, Clicks!TypeOK, Exact
<1>1. /\ Clicks!SundayOf(day) \in Int /\ Clicks!MonthOf(day) \in Int
      /\ last >= day => last = day
      /\ last >= Clicks!SundayOf(day) => Clicks!SundayOf(last) = Clicks!SundayOf(day)
      /\ last >= Clicks!MonthOf(day) => Clicks!MonthOf(last) = Clicks!MonthOf(day)
  BY <1>0, Periods
<1>2. /\ click["total_clicks"] = Cardinality(clicked)
      /\ click["clicks_today"] = ClicksSince(clicked, last)
      /\ click["clicks_this_week"] = ClicksSince(clicked, Clicks!SundayOf(last))
      /\ click["clicks_this_month"] = ClicksSince(clicked, Clicks!MonthOf(last))
  BY DEF Exact
<1>3. /\ Clicks!ShownSince(day, "clicks_today") = Clicks!Since(day)
      /\ Clicks!ShownSince(Clicks!SundayOf(day), "clicks_this_week")
           = Clicks!Since(Clicks!SundayOf(day))
      /\ Clicks!ShownSince(Clicks!MonthOf(day), "clicks_this_month")
           = Clicks!Since(Clicks!MonthOf(day))
  BY <1>0, <1>1, <1>2, ShownExact
<1>4. ASSUME \A k \in clicked : Clicks!Weekday(k.day) # 0
      PROVE  Clicks!ShownSince(Clicks!MondayOf(day), "clicks_this_week")
               = Clicks!Since(Clicks!MondayOf(day))
  <2>1. Clicks!Weekday(last) # 0
    BY <1>4 DEF Exact
  <2>2. /\ Clicks!MondayOf(day) \in Int
        /\ last >= Clicks!MondayOf(day) => Clicks!SundayOf(last) = Clicks!MondayOf(day) - 1
        /\ Clicks!Weekday(Clicks!MondayOf(day) - 1) = 0
    BY <1>0, <2>1, Weeks
  <2>3. {k \in clicked : k.day >= Clicks!MondayOf(day) - 1}
          = {k \in clicked : k.day >= Clicks!MondayOf(day)}
    BY <1>0, <1>4, <2>2
  <2>4. last >= Clicks!MondayOf(day) =>
          click["clicks_this_week"] = ClicksSince(clicked, Clicks!MondayOf(day))
    BY <1>2, <2>2, <2>3 DEF ClicksSince
  <2> QED
    BY <1>0, <2>2, <2>4, ShownExact
<1> QED
  BY <1>2, <1>3, <1>4, SameClickCount DEF Clicks!Shown, Clicks!Real

\* However clicks overlap, no report has more clicks in all than were tracked; and
\* clicks that are served one at a time are reported exactly, for any calendar.
THEOREM ClicksAreReal ==
  ASSUME Clicks!CalendarAssumption
  PROVE  Clicks!Spec => []ShownClicksAreReal
<1>1. ASSUME Clicks!Init
      PROVE  TotalInv /\ ExactInv
  BY <1>1, FS_EmptySet
     DEF Clicks!Init, TotalInv, ExactInv, Clicks!NoRow, Clicks!Resting, Saving
<1>2. ClickTypeInv /\ TotalInv /\ ExactInv /\ [Clicks!Next]_(Clicks!vars)
        => TotalInv' /\ ExactInv'
  BY NextTotalInv, NextExactInv
<1>3. ClickTypeInv /\ TotalInv /\ ExactInv => ShownClicksAreReal
  <2> SUFFICES ASSUME ClickTypeInv, TotalInv, ExactInv
               PROVE  Clicks!ShownClicksAreReal
    BY DEF ShownClicksAreReal
  <2>1. CASE click = Clicks!NoRow
    <3>1. serialClicks => clicked = {}
      BY <2>1 DEF ExactInv
    <3>2. ASSUME clicked = {}
          PROVE  \A w : Clicks!Shown(w) = Clicks!Real(w)
      <4>1. \A a : {k \in clicked : k.day >= a} = {}
        BY <3>2
      <4>2. click.total_clicks = 0
        BY <2>1 DEF Clicks!NoRow
      <4> QED
        BY <2>1, <3>2, <4>1, <4>2, FS_EmptySet, SameClickCount
           DEF Clicks!Shown, Clicks!Real, Clicks!ShownSince, Clicks!Since
    <3> QED
      BY <3>1, <3>2, SameClickCount
         DEF TotalInv, Clicks!ShownClicksAreReal, Clicks!GetClickStatistics,
             Clicks!GetWalletClickStatistics, Clicks!GetWalletReferralStatistics,
             Clicks!GetWalletDetailStatistics
  <2>2. CASE click # Clicks!NoRow
    <3>1. serialClicks => Exact(click, clicked)
      BY <2>2 DEF ExactInv
    <3> QED
      BY <2>2, <3>1, ExactIsShown, SameClickCount
         DEF TotalInv, Clicks!ShownClicksAreReal, Clicks!GetClickStatistics,
             Clicks!GetWalletClickStatistics, Clicks!GetWalletReferralStatistics,
             Clicks!GetWalletDetailStatistics
  <2> QED
    BY <2>1, <2>2
<1> QED
  BY <1>1, <1>2, <1>3, InitClickTypeInv, NextClickTypeInv, PTL DEF Clicks!Spec

-----------------------------------------------------------------------------
(* The lists that are read page by page.                                   *)

\* The instance counts as this module does.
LEMMA SameListCount ==
  \A S : Lists!Cardinality(S) = Cardinality(S) /\ (Lists!IsFiniteSet(S) <=> IsFiniteSet(S))
BY DEF Lists!Cardinality, Cardinality, Lists!IsFiniteSet, IsFiniteSet

-----------------------------------------------------------------------------
(* Rows in their order.                                                    *)

\* What is where in a sequence with an element more, and in one with one less.
IsInserted(t, s, at, e) ==
  /\ Len(t) = Len(s) + 1
  /\ \A m \in 1..(Len(s) + 1) :
       t[m] = IF m < at THEN s[m] ELSE IF m = at THEN e ELSE s[m - 1]

IsRemoved(t, s, n) ==
  /\ Len(t) = Len(s) - 1
  /\ \A m \in 1..(Len(s) - 1) : t[m] = IF m < n THEN s[m] ELSE s[m + 1]

LEMMA Inserted ==
  ASSUME NEW T, NEW s \in Seq(T), NEW at \in 1..(Len(s) + 1), NEW e \in T
  PROVE  /\ Lists!InsertAt(s, at, e) \in Seq(T)
         /\ IsInserted(Lists!InsertAt(s, at, e), s, at, e)
<1> DEFINE l == Len(s)
           a == SubSeq(s, 1, at - 1)
           b == SubSeq(s, at, l)
           c == a \o <<e>>
           r == c \o b
<1>1. l \in Nat /\ at \in 1..(l + 1) /\ \A m \in 1..l : s[m] \in T
  OBVIOUS
<1>2. Lists!InsertAt(s, at, e) = r
  BY DEF Lists!InsertAt
<1>3. a \in Seq(T) /\ Len(a) = at - 1 /\ \A m \in 1..(at - 1) : a[m] = s[m]
  OBVIOUS
<1>4. /\ b \in Seq(T) /\ Len(b) = l + 1 - at
      /\ \A m \in 1..(l + 1 - at) : b[m] = s[at - 1 + m]
  OBVIOUS
<1> HIDE DEF a, b, l
<1>5. c \in Seq(T) /\ Len(c) = at /\ \A m \in 1..at : c[m] = IF m < at THEN s[m] ELSE e
  BY <1>1, <1>3
<1> HIDE DEF c
<1>6. /\ r \in Seq(T) /\ Len(r) = Len(c) + Len(b)
      /\ \A m \in 1..(Len(c) + Len(b)) : r[m] = IF m <= Len(c) THEN c[m] ELSE b[m - Len(c)]
  BY <1>4, <1>5, ConcatProperties
<1> HIDE DEF r
<1>7. Len(r) = l + 1
  BY <1>1, <1>4, <1>5, <1>6
<1>8. ASSUME NEW m \in 1..(l + 1)
      PROVE  r[m] = IF m < at THEN s[m] ELSE IF m = at THEN e ELSE s[m - 1]
  <2>1. m \in 1..(Len(c) + Len(b))
    BY <1>1, <1>4, <1>5
  <2>2. CASE m <= at
    BY <1>1, <1>5, <1>6, <2>1, <2>2
  <2>3. CASE ~(m <= at)
    <3>1. /\ m - at \in 1..(l + 1 - at) /\ at - 1 + (m - at) = m - 1
          /\ ~(m < at) /\ m # at
      BY <1>1, <2>3
    <3>2. b[m - at] = s[m - 1]
      BY <1>4, <3>1
    <3>3. r[m] = b[m - at]
      BY <1>5, <1>6, <2>1, <2>3
    <3> QED
      BY <3>1, <3>2, <3>3
  <2> QED
    BY <2>2, <2>3
<1>9. IsInserted(r, s, at, e)
  BY <1>7, <1>8 DEF IsInserted, l
<1> QED
  BY <1>2, <1>6, <1>9

LEMMA Removed ==
  ASSUME NEW T, NEW s \in Seq(T), NEW n \in 1..Len(s)
  PROVE  /\ Lists!RemoveAt(s, n) \in Seq(T)
         /\ Len(Lists!RemoveAt(s, n)) = Len(s) - 1
         /\ IsRemoved(Lists!RemoveAt(s, n), s, n)
<1> DEFINE l == Len(s)
           a == SubSeq(s, 1, n - 1)
           b == SubSeq(s, n + 1, l)
           r == a \o b
<1>1. l \in Nat /\ n \in 1..l
  OBVIOUS
<1>2. Lists!RemoveAt(s, n) = r
  BY DEF Lists!RemoveAt
<1>3. a \in Seq(T) /\ Len(a) = n - 1 /\ \A m \in 1..(n - 1) : a[m] = s[m]
  OBVIOUS
<1>4. b \in Seq(T) /\ Len(b) = l - n /\ \A m \in 1..(l - n) : b[m] = s[n + m]
  OBVIOUS
<1> HIDE DEF a, b, l
<1>5. /\ r \in Seq(T) /\ Len(r) = Len(a) + Len(b)
      /\ \A m \in 1..(Len(a) + Len(b)) : r[m] = IF m <= Len(a) THEN a[m] ELSE b[m - Len(a)]
  BY <1>3, <1>4, ConcatProperties
<1> HIDE DEF r
<1>6. Len(r) = l - 1
  BY <1>1, <1>3, <1>4, <1>5
<1>7. ASSUME NEW m \in 1..(l - 1)
      PROVE  r[m] = IF m < n THEN s[m] ELSE s[m + 1]
  <2>1. m \in 1..(Len(a) + Len(b)) /\ (m <= Len(a) <=> m < n)
    BY <1>1, <1>3, <1>4
  <2>2. CASE m < n
    <3>1. m \in 1..(n - 1)
      BY <1>1, <2>2
    <3> QED
      BY <1>3, <1>5, <2>1, <2>2, <3>1
  <2>3. CASE ~(m < n)
    <3>1. m - Len(a) \in 1..(l - n) /\ n + (m - Len(a)) = m + 1
      BY <1>1, <1>3, <2>3
    <3>2. b[m - Len(a)] = s[m + 1]
      BY <1>4, <3>1
    <3> QED
      BY <1>5, <2>1, <2>3, <3>2
  <2> QED
    BY <2>2, <2>3
<1>8. Len(r) = Len(s) - 1 /\ IsRemoved(r, s, n)
  BY <1>6, <1>7 DEF IsRemoved, l
<1> QED
  BY <1>2, <1>5, <1>8

\* No row is twice in a list.
Distinct(s) == \A m, n \in 1..Len(s) : s[m] = s[n] => m = n

LEMMA DistinctInserted ==
  ASSUME NEW T, NEW s \in Seq(T), NEW at \in 1..(Len(s) + 1), NEW e \in T,
         Distinct(s), \A m \in 1..Len(s) : s[m] # e
  PROVE  /\ Distinct(Lists!InsertAt(s, at, e))
         /\ \A m \in 1..Len(s) : \E k \in 1..Len(Lists!InsertAt(s, at, e)) :
              Lists!InsertAt(s, at, e)[k] = s[m]
<1> DEFINE t == Lists!InsertAt(s, at, e)
<1>0. Len(s) \in Nat
  OBVIOUS
<1>1. /\ Len(t) = Len(s) + 1
      /\ \A m \in 1..(Len(s) + 1) :
           t[m] = IF m < at THEN s[m] ELSE IF m = at THEN e ELSE s[m - 1]
  <2>1. IsInserted(t, s, at, e)
    BY Inserted
  <2> QED
    BY <2>1 DEF IsInserted
<1> HIDE DEF t
<1>2. ASSUME NEW m \in 1..Len(t), NEW n \in 1..Len(t), t[m] = t[n]
      PROVE  m = n
  <2> DEFINE At(k, a) == t[k] = s[a] /\ ((k < at /\ a = k) \/ (k > at /\ a = k - 1))
  <2>1. \A k \in 1..Len(t) : (k = at /\ t[k] = e) \/ \E a \in 1..Len(s) : At(k, a)
    <3> SUFFICES ASSUME NEW k \in 1..Len(t), k # at
                 PROVE  \E a \in 1..Len(s) : At(k, a)
      BY <1>0, <1>1
    <3>1. CASE k < at
      <4>1. k \in 1..Len(s) /\ At(k, k)
        BY <1>0, <1>1, <3>1
      <4> QED
        BY <4>1
    <3>2. CASE k > at
      <4>1. k - 1 \in 1..Len(s) /\ At(k, k - 1)
        BY <1>0, <1>1, <3>2
      <4> QED
        BY <4>1
    <3> QED
      BY <3>1, <3>2
  <2>2. \A k \in 1..Len(t), a \in 1..Len(s) : At(k, a) => t[k] # e /\ k # at
    BY <1>0, <1>1
  <2>3. \A a, b \in 1..Len(s) : At(m, a) /\ At(n, b) => m = n
    <3> SUFFICES ASSUME NEW a \in 1..Len(s), NEW b \in 1..Len(s), At(m, a), At(n, b)
                 PROVE  m = n
      OBVIOUS
    <3>1. a = b
      BY <1>2 DEF Distinct
    <3> QED
      BY <1>0, <1>1, <3>1
  <2> HIDE DEF At
  <2> QED
    BY <1>2, <2>1, <2>2, <2>3
<1>3. ASSUME NEW m \in 1..Len(s)
      PROVE  \E k \in 1..Len(t) : t[k] = s[m]
  <2>1. CASE m < at
    <3>1. m \in 1..Len(t) /\ t[m] = s[m]
      BY <1>0, <1>1, <2>1
    <3> QED
      BY <3>1
  <2>2. CASE m >= at
    <3>1. m + 1 \in 1..Len(t) /\ t[m + 1] = s[m]
      BY <1>0, <1>1, <2>2
    <3> QED
      BY <3>1
  <2> QED
    BY <2>1, <2>2
<1> QED
  BY <1>2, <1>3 DEF Distinct, t

LEMMA DistinctRemoved ==
  ASSUME NEW T, NEW s \in Seq(T), NEW n \in 1..Len(s), Distinct(s)
  PROVE  /\ Distinct(Lists!RemoveAt(s, n))
         /\ \A m \in 1..Len(Lists!RemoveAt(s, n)) : Lists!RemoveAt(s, n)[m] # s[n]
         /\ \A m \in 1..Len(s) : m # n =>
              \E k \in 1..Len(Lists!RemoveAt(s, n)) : Lists!RemoveAt(s, n)[k] = s[m]
<1> DEFINE t == Lists!RemoveAt(s, n)
<1>0. Len(s) \in Nat
  OBVIOUS
<1>1. /\ Len(t) = Len(s) - 1
      /\ \A m \in 1..(Len(s) - 1) : t[m] = IF m < n THEN s[m] ELSE s[m + 1]
  <2>1. IsRemoved(t, s, n)
    BY Removed
  <2> QED
    BY <2>1 DEF IsRemoved
<1> HIDE DEF t
<1>2. \A k \in 1..Len(t) : \/ k < n /\ k \in 1..Len(s) /\ t[k] = s[k]
                           \/ k >= n /\ k + 1 \in 1..Len(s) /\ t[k] = s[k + 1]
  BY <1>0, <1>1
<1>3. ASSUME NEW a \in 1..Len(t), NEW b \in 1..Len(t), t[a] = t[b]
      PROVE  a = b
  BY <1>0, <1>1, <1>2, <1>3 DEF Distinct
<1>4. ASSUME NEW a \in 1..Len(t), t[a] = s[n]
      PROVE  FALSE
  BY <1>0, <1>1, <1>2, <1>4 DEF Distinct
<1>5. ASSUME NEW m \in 1..Len(s), m # n
      PROVE  \E k \in 1..Len(t) : t[k] = s[m]
  <2>1. CASE m < n
    <3>1. m \in 1..Len(t) /\ t[m] = s[m]
      BY <1>0, <1>1, <2>1
    <3> QED
      BY <3>1
  <2>2. CASE m > n
    <3>1. m - 1 \in 1..Len(t) /\ t[m - 1] = s[m]
      BY <1>0, <1>1, <2>2
    <3> QED
      BY <3>1
  <2> QED
    BY <1>5, <2>1, <2>2
<1> QED
  BY <1>3, <1>4, <1>5 DEF Distinct, t

-----------------------------------------------------------------------------
(* The first rows of a list.                                               *)

\* The rows of a set that are among the first n.
First(s, U, n) == {i \in U : \E m \in 1..Len(s) : m <= n /\ s[m] = i}

\* An inserted row pushes rows out of the first, and none among them.
LEMMA FirstInserted ==
  ASSUME NEW T, NEW s \in Seq(T), NEW at \in 1..(Len(s) + 1), NEW e \in T,
         NEW U, e \notin U, NEW n \in Nat
  PROVE  First(Lists!InsertAt(s, at, e), U, n) \subseteq First(s, U, n)
<1> DEFINE t == Lists!InsertAt(s, at, e)
<1>1. /\ Len(t) = Len(s) + 1 /\ Len(s) \in Nat
      /\ \A m \in 1..(Len(s) + 1) :
           t[m] = IF m < at THEN s[m] ELSE IF m = at THEN e ELSE s[m - 1]
  <2>1. IsInserted(t, s, at, e)
    BY Inserted
  <2> QED
    BY <2>1 DEF IsInserted
<1> HIDE DEF t
<1>2. ASSUME NEW i \in U, NEW m \in 1..Len(t), m <= n, t[m] = i
      PROVE  \E k \in 1..Len(s) : k <= n /\ s[k] = i
  <2>1. CASE m < at
    BY <1>1, <1>2, <2>1
  <2>2. CASE m > at
    <3>1. m - 1 \in 1..Len(s) /\ m - 1 <= n /\ s[m - 1] = i
      BY <1>1, <1>2, <2>2
    <3> QED
      BY <3>1
  <2>3. m # at
    BY <1>1, <1>2
  <2> QED
    BY <2>1, <2>2, <2>3
<1> QED
  BY <1>2 DEF First, t

\* A row that is removed lets one among the first, at most.
LEMMA FirstRemoved ==
  ASSUME NEW T, NEW s \in Seq(T), NEW p \in 1..Len(s), NEW U, NEW n \in Nat
  PROVE  First(Lists!RemoveAt(s, p), U, n) \subseteq First(s, U, n) \cup {s[n + 1]}
<1> DEFINE t == Lists!RemoveAt(s, p)
<1>1. /\ Len(t) = Len(s) - 1 /\ Len(s) \in Nat
      /\ \A m \in 1..(Len(s) - 1) : t[m] = IF m < p THEN s[m] ELSE s[m + 1]
  <2>1. IsRemoved(t, s, p)
    BY Removed
  <2> QED
    BY <2>1 DEF IsRemoved
<1> HIDE DEF t
<1>2. ASSUME NEW i \in U, NEW m \in 1..Len(t), m <= n, t[m] = i
      PROVE  \/ i = s[n + 1]
             \/ \E k \in 1..Len(s) : k <= n /\ s[k] = i
  <2>1. CASE m < p
    BY <1>1, <1>2, <2>1
  <2>2. CASE m >= p
    <3>1. m + 1 \in 1..Len(s) /\ s[m + 1] = i
      BY <1>1, <1>2, <2>2
    <3>2. m + 1 <= n \/ m + 1 = n + 1
      BY <1>2
    <3> QED
      BY <3>1, <3>2
  <2> QED
    BY <2>1, <2>2
<1> QED
  BY <1>2 DEF First, t

-----------------------------------------------------------------------------
(* The lists.                                                              *)

\* The rows of the list, once each; the rows that kept their place are in it.
ListTypeInv ==
  /\ list \in Lists!AllLists
  /\ fresh \subseteq Item
  /\ listed \in Seq(Item \ fresh) /\ Distinct(listed)
  /\ page \in Nat \ {0} /\ page <= Cardinality(Item) + 1
  /\ step \in {"rows", "count", "end"}
  /\ length \in 0..Limit
  /\ stable \subseteq Item /\ \A i \in stable : \E m \in 1..Len(listed) : listed[m] = i
  /\ shownRows \subseteq Item
  /\ rowsLeft \in 0..MaxMoves

\* A list has no more rows than there are.
LEMMA ListLength ==
  ASSUME NEW T, IsFiniteSet(T), NEW s \in Seq(T), Distinct(s)
  PROVE  /\ Cardinality(Lists!Range(s)) = Len(s) /\ Lists!Range(s) \subseteq T
         /\ Len(s) <= Cardinality(T)
<1> DEFINE R == Lists!Range(s)
<1>1. DOMAIN s = 1..Len(s) /\ Len(s) \in Nat /\ \A m \in 1..Len(s) : s[m] \in T
  OBVIOUS
<1>2. R = {s[m] : m \in 1..Len(s)}
  BY <1>1 DEF Lists!Range
<1>3. R \in SUBSET T
  BY <1>1, <1>2
<1>4. s \in Bijection(1..Len(s), R)
  <2>1. s \in [1..Len(s) -> R]
    BY <1>1, <1>2
  <2>2. \A r \in R : \E m \in 1..Len(s) : s[m] = r
    BY <1>2
  <2> QED
    BY <2>1, <2>2 DEF Distinct, Bijection, Injection, Surjection, IsInjective
<1>5. ExistsBijection(1..Len(s), R)
  BY <1>4 DEF ExistsBijection
<1> HIDE DEF R
<1>6. Cardinality(R) = Len(s)
  BY <1>1, <1>5, FS_CountingElements
<1>7. Cardinality(R) <= Cardinality(T)
  BY <1>3, FS_Subset
<1> QED
  BY <1>3, <1>6, <1>7 DEF R

\* The rows of a page: as many as it takes, if there are.
LEMMA PageLength ==
  ASSUME Lists!ListsAssumption, ListTypeInv, NEW p \in Nat, Lists!Before(p) \in Nat
  PROVE  /\ Cardinality(Lists!Window(p)) \in 0..Limit
         /\ Len(listed) >= Lists!Before(p) + Limit => Cardinality(Lists!Window(p)) = Limit
<1> DEFINE a == Lists!Before(p) + 1
           b == Lists!Before(p) + Limit
           D == DOMAIN listed \cap a..b
<1>1. /\ DOMAIN listed = 1..Len(listed) /\ Len(listed) \in Nat /\ Limit \in Nat
      /\ a \in Int /\ b \in Int /\ a >= 1 /\ b - a + 1 = Limit /\ ~(a > b)
  BY SameListCount DEF ListTypeInv, Lists!ListsAssumption
<1>2. Lists!Window(p) = {listed[n] : n \in D}
  BY DEF Lists!Window
<1>3. IsFiniteSet(a..b) /\ Cardinality(a..b) = Limit
  <2> HIDE DEF a, b
  <2> QED
    BY <1>1, FS_Interval
<1>4. IsFiniteSet(D) /\ Cardinality(D) <= Limit
  <2>1. D \in SUBSET (a..b)
    OBVIOUS
  <2> HIDE DEF a, b, D
  <2> QED
    BY <1>3, <2>1, FS_Subset
<1> DEFINE f == [n \in D |-> listed[n]]
<1>5. f \in Bijection(D, Lists!Window(p))
  <2>1. f \in [D -> Lists!Window(p)] /\ \A r \in Lists!Window(p) : \E n \in D : f[n] = r
    BY <1>2
  <2>2. \A m, n \in D : f[m] = f[n] => m = n
    BY <1>1 DEF ListTypeInv, Distinct
  <2> HIDE DEF f, D
  <2> QED
    BY <2>1, <2>2 DEF Bijection, Injection, Surjection, IsInjective
<1>6. IsFiniteSet(Lists!Window(p)) /\ Cardinality(Lists!Window(p)) = Cardinality(D)
  <2>1. ExistsBijection(D, Lists!Window(p))
    BY <1>5 DEF ExistsBijection
  <2> HIDE DEF D
  <2> QED
    BY <1>4, <2>1, FS_Bijection
<1>7. Cardinality(Lists!Window(p)) \in Nat
  BY <1>6, FS_CardinalityType
<1>8. ASSUME Len(listed) >= Lists!Before(p) + Limit
      PROVE  D = a..b
  <2>1. Len(listed) >= b
    BY <1>8
  <2> HIDE DEF a, b
  <2>2. a..b \subseteq 1..Len(listed)
    BY <1>1, <2>1
  <2> QED
    BY <1>1, <2>2
<1> HIDE DEF a, b, D
<1> QED
  BY <1>1, <1>3, <1>4, <1>6, <1>7, <1>8

LEMMA Pages ==
  ASSUME Lists!ListsAssumption, NEW p \in Nat \ {0}
  PROVE  /\ Lists!Before(p) \in Nat /\ p * Limit = Lists!Before(p) + Limit
         /\ Lists!Before(p + 1) = Lists!Before(p) + Limit /\ p * Limit \in Nat
         /\ p <= p * Limit /\ Lists!Before(1) = 0
<1>1. Limit \in Nat /\ Limit >= 1 /\ p \in Nat /\ p - 1 \in Nat
  BY SameListCount DEF Lists!ListsAssumption
<1>2. (p - 1) * Limit \in Nat /\ p * Limit \in Nat
  BY <1>1
<1>3. p * Limit = (p - 1) * Limit + Limit /\ (p + 1) - 1 = p
  BY <1>1
<1>4. p <= p * Limit
  <2>1. Limit - 1 \in Nat
    BY <1>1
  <2>2. p * Limit = p + p * (Limit - 1) /\ p * (Limit - 1) \in Nat
    BY <1>1, <2>1
  <2> QED
    BY <1>1, <2>2
<1>5. Lists!Before(1) = 0
  BY <1>1 DEF Lists!Before
<1> QED
  BY <1>2, <1>3, <1>4, <1>5 DEF Lists!Before

\* What a row that leaves its place leaves.
LEMMA WithoutRow ==
  ASSUME ListTypeInv, NEW i \in Lists!Range(listed)
  PROVE  \E n \in 1..Len(listed) :
           listed[n] = i /\ Lists!Without(i) = Lists!RemoveAt(listed, n)
<1>1. DOMAIN listed = 1..Len(listed)
  BY DEF ListTypeInv
<1>2. \E n \in DOMAIN listed : listed[n] = i
  BY DEF Lists!Range
<1> QED
  BY <1>1, <1>2 DEF Lists!Without

LEMMA EnterSteps ==
  ASSUME ListTypeInv, NEW i \in Item, Lists!Enter(i)
  PROVE  \E at \in 1..(Len(listed) + 1) : listed' = Lists!InsertAt(listed, at, i)
<1>1. 1 \in 1..(Len(listed) + 1)
  BY DEF ListTypeInv
<1> QED
  BY <1>1 DEF Lists!Enter

\* A move removes a row that was in its place, and may insert it in another.
LEMMA MoveSteps ==
  ASSUME ListTypeInv, NEW i \in Item, Lists!Leave(i) \/ Lists!Shift(i)
  PROVE  /\ Lists!Reading
         /\ rowsLeft < MaxMoves
         /\ rowsLeft' = rowsLeft + 1
         /\ stable' = stable \ {i}
         /\ UNCHANGED <<list, fresh, page, step, length, shownRows>>
         /\ \E n \in 1..Len(listed) :
              /\ listed[n] = i
              /\ \/ listed' = Lists!RemoveAt(listed, n)
                 \/ \E at \in 1..Len(listed) :
                      listed' = Lists!InsertAt(Lists!RemoveAt(listed, n), at, i)
<1>1. Lists!Leaves(i)
  BY DEF Lists!Leave, Lists!Shift
<1>2. PICK n \in 1..Len(listed) :
        listed[n] = i /\ Lists!Without(i) = Lists!RemoveAt(listed, n)
  BY <1>1, WithoutRow DEF Lists!Leaves
<1>3. DOMAIN listed = 1..Len(listed)
  BY DEF ListTypeInv
<1> QED
  BY <1>1, <1>2, <1>3 DEF Lists!Leave, Lists!Shift, Lists!Leaves

\* What the next page can be.
LEMMA CountSteps ==
  ASSUME Lists!ListsAssumption, ListTypeInv, Lists!Count
  PROVE  /\ step = "count"
         /\ UNCHANGED <<list, listed, fresh, length, stable, shownRows, rowsLeft>>
         /\ \/ /\ page * Limit < Len(listed) /\ page' = page + 1 /\ step' = "rows"
            \/ /\ page * Limit >= Len(listed) \/ length < Limit
               /\ page' = page /\ step' = "end"
<1>1. /\ Limit \in Nat
      /\ length \in Nat
      /\ Lists!Before(page) \in Nat
      /\ Len(listed) \in Nat
      /\ page * Limit = Lists!Before(page) + Limit
  <2>1. Lists!Before(page) \in Nat /\ page * Limit = Lists!Before(page) + Limit
    BY Pages DEF ListTypeInv
  <2> QED
    BY <2>1, SameListCount DEF ListTypeInv, Lists!ListsAssumption
<1>2. length < Limit => ~(page * Limit < Lists!Before(page) + length)
  BY <1>1
<1>3. page * Limit < Len(listed) \/ page * Limit >= Len(listed)
  BY <1>1
<1> QED
  BY <1>2, <1>3 DEF Lists!Count, Lists!Turn

LEMMA InitListTypeInv ==
  ASSUME Lists!ListsAssumption
  PROVE  Lists!Init => ListTypeInv
<1> SUFFICES ASSUME Lists!Init
             PROVE  ListTypeInv
  OBVIOUS
<1> DEFINE S == Item \ fresh
           D == 1..Cardinality(S)
<1>1. IsFiniteSet(S) /\ Cardinality(S) \in Nat /\ Cardinality(Item) \in Nat
  <2>1. S \in SUBSET Item
    OBVIOUS
  <2> HIDE DEF S
  <2> QED
    BY <2>1, FS_Subset, FS_CardinalityType, SameListCount DEF Lists!ListsAssumption
<1>2. listed \in [D -> S] /\ \A i, j \in D : i # j => listed[i] # listed[j]
  BY SameListCount DEF Lists!Init, Lists!SetToSeqs
<1>3. listed \in Seq(S) /\ Len(listed) = Cardinality(S)
  <2> HIDE DEF S
  <2> QED
    BY <1>1, <1>2
<1>4. Distinct(listed)
  BY <1>2, <1>3 DEF Distinct
<1>5. \A i \in S : \E m \in 1..Len(listed) : listed[m] = i
  <2>1. listed \in Injection(D, S)
    BY <1>2 DEF Injection, IsInjective
  <2>2. Cardinality(D) = Cardinality(S)
    <3> HIDE DEF S
    <3> QED
      BY <1>1, FS_Interval
  <2>3. listed \in Surjection(D, S)
    <3> HIDE DEF S, D
    <3> QED
      BY <1>1, <2>1, <2>2, FS_Injection
  <2> QED
    BY <1>3, <2>3 DEF Surjection
<1>6. /\ list \in Lists!AllLists /\ fresh \subseteq Item
      /\ page = 1 /\ step = "rows" /\ length = 0
      /\ stable = S /\ shownRows = {} /\ rowsLeft = 0
  BY DEF Lists!Init
<1>7. 0 \in 0..Limit /\ 0 \in 0..MaxMoves
  BY SameListCount DEF Lists!ListsAssumption
<1>8. page \in Nat \ {0} /\ page <= Cardinality(Item) + 1
  BY <1>1, <1>6
<1>9. stable \subseteq Item /\ \A i \in stable : \E m \in 1..Len(listed) : listed[m] = i
  BY <1>5, <1>6
<1> QED
  BY <1>3, <1>4, <1>6, <1>7, <1>8, <1>9 DEF ListTypeInv

LEMMA NextListTypeInv ==
  ASSUME Lists!ListsAssumption
  PROVE  ListTypeInv /\ [Lists!Next]_(Lists!vars) => ListTypeInv'
<1> SUFFICES ASSUME ListTypeInv, [Lists!Next]_(Lists!vars)
             PROVE  ListTypeInv'
  OBVIOUS
<1>0. /\ listed \in Seq(Item \ fresh)
      /\ Distinct(listed)
      /\ Limit \in Nat
      /\ MaxMoves \in Nat
      /\ \A m \in 1..Len(listed) : listed[m] \in Item \ fresh
      /\ Len(listed) \in Nat
  BY SameListCount DEF ListTypeInv, Lists!ListsAssumption
<1>1. ASSUME NEW i \in Item, Lists!Enter(i)
      PROVE  ListTypeInv'
  <2>1. PICK at \in 1..(Len(listed) + 1) : listed' = Lists!InsertAt(listed, at, i)
    BY <1>1, EnterSteps
  <2>2. /\ i \in fresh /\ fresh' = fresh \ {i}
        /\ UNCHANGED <<list, page, step, length, stable, shownRows, rowsLeft>>
    BY <1>1 DEF Lists!Enter
  <2> DEFINE T == Item \ (fresh \ {i})
  <2>3. listed \in Seq(T) /\ i \in T /\ \A m \in 1..Len(listed) : listed[m] # i
    <3>1. Item \ fresh \subseteq T
      OBVIOUS
    <3>2. listed \in Seq(T)
      <4> HIDE DEF T
      <4> QED
        BY <1>0, <3>1, SeqMonotonic
    <3> QED
      BY <1>0, <2>2, <3>2
  <2> HIDE DEF T
  <2>4. /\ listed' \in Seq(T) /\ Distinct(listed')
        /\ \A m \in 1..Len(listed) : \E k \in 1..Len(listed') : listed'[k] = listed[m]
    <3>1. Distinct(listed)
      BY <1>0
    <3>2. listed' \in Seq(T)
      BY <2>1, <2>3, Inserted
    <3> QED
      BY <2>1, <2>3, <3>1, <3>2, DistinctInserted
  <2>5. \A j \in stable : \E m \in 1..Len(listed') : listed'[m] = j
    BY <2>4 DEF ListTypeInv
  <2> QED
    BY <2>2, <2>4, <2>5 DEF ListTypeInv, T
<1>2. ASSUME NEW i \in Item, Lists!Leave(i) \/ Lists!Shift(i)
      PROVE  ListTypeInv'
  <2>1. PICK n \in 1..Len(listed) :
          /\ listed[n] = i
          /\ \/ listed' = Lists!RemoveAt(listed, n)
             \/ \E at \in 1..Len(listed) :
                  listed' = Lists!InsertAt(Lists!RemoveAt(listed, n), at, i)
    BY <1>2, MoveSteps
  <2> DEFINE t == Lists!RemoveAt(listed, n)
  <2>2. /\ t \in Seq(Item \ fresh) /\ Len(t) = Len(listed) - 1 /\ Distinct(t)
        /\ \A m \in 1..Len(t) : t[m] # i
        /\ \A m \in 1..Len(listed) : m # n => \E k \in 1..Len(t) : t[k] = listed[m]
    BY <1>0, <2>1, Removed, DistinctRemoved
  <2>3. \A m \in 1..Len(listed) : listed[m] # i => \E k \in 1..Len(t) : t[k] = listed[m]
    BY <2>1, <2>2
  <2> HIDE DEF t
  <2>4. /\ listed' \in Seq(Item \ fresh) /\ Distinct(listed')
        /\ \A m \in 1..Len(t) : \E k \in 1..Len(listed') : listed'[k] = t[m]
    <3>1. CASE listed' = t
      BY <2>2, <3>1
    <3>2. ASSUME NEW at \in 1..Len(listed), listed' = Lists!InsertAt(t, at, i)
          PROVE  /\ listed' \in Seq(Item \ fresh) /\ Distinct(listed')
                 /\ \A m \in 1..Len(t) : \E k \in 1..Len(listed') : listed'[k] = t[m]
      <4> DEFINE T == Item \ fresh
      <4>1. at \in 1..(Len(t) + 1) /\ i \in T
        BY <1>0, <2>1, <2>2
      <4>2. t \in Seq(T) /\ Distinct(t) /\ \A m \in 1..Len(t) : t[m] # i
        BY <2>2
      <4> HIDE DEF T
      <4>3. Lists!InsertAt(t, at, i) \in Seq(T)
        BY <4>1, <4>2, Inserted
      <4>4. /\ Distinct(Lists!InsertAt(t, at, i))
            /\ \A m \in 1..Len(t) : \E k \in 1..Len(Lists!InsertAt(t, at, i)) :
                 Lists!InsertAt(t, at, i)[k] = t[m]
        BY <4>1, <4>2, DistinctInserted
      <4> QED
        BY <3>2, <4>3, <4>4 DEF T
    <3> QED
      BY <2>1, <3>1, <3>2 DEF t
  <2>5. \A j \in stable \ {i} : \E m \in 1..Len(listed') : listed'[m] = j
    <3> SUFFICES ASSUME NEW j \in stable, j # i
                 PROVE  \E m \in 1..Len(listed') : listed'[m] = j
      OBVIOUS
    <3>1. PICK m \in 1..Len(listed) : listed[m] = j
      BY DEF ListTypeInv
    <3>2. PICK k \in 1..Len(t) : t[k] = j
      BY <2>3, <3>1
    <3> QED
      BY <2>4, <3>2
  <2>6. rowsLeft' \in 0..MaxMoves
    BY <1>0, <1>2, MoveSteps DEF ListTypeInv
  <2> QED
    BY <1>2, <2>4, <2>5, <2>6, MoveSteps DEF ListTypeInv
<1>3. CASE Lists!Rows
  <2>1. Cardinality(Lists!Window(page)) \in 0..Limit
    BY Pages, PageLength DEF ListTypeInv
  <2>2. Lists!Window(page) \subseteq Item
    BY <1>0 DEF Lists!Window
  <2> QED
    BY <1>3, <2>1, <2>2, SameListCount DEF Lists!Rows, ListTypeInv
<1>4. CASE Lists!Count
  <2>1. CASE page * Limit < Len(listed) /\ page' = page + 1 /\ step' = "rows"
    <3>1. IsFiniteSet(Item \ fresh) /\ Cardinality(Item \ fresh) <= Cardinality(Item)
          /\ Cardinality(Item) \in Nat /\ Cardinality(Item \ fresh) \in Nat
      <4>1. (Item \ fresh) \in SUBSET Item
        OBVIOUS
      <4> QED
        BY <4>1, FS_Subset, FS_CardinalityType, SameListCount DEF Lists!ListsAssumption
    <3>2. Len(listed) <= Cardinality(Item \ fresh)
      BY <1>0, <3>1, ListLength
    <3>3. page <= page * Limit /\ page * Limit \in Nat /\ page \in Nat
      BY Pages DEF ListTypeInv
    <3>4. page' \in Nat \ {0} /\ page' <= Cardinality(Item) + 1
      BY <1>0, <2>1, <3>1, <3>2, <3>3
    <3> QED
      BY <1>4, <2>1, <3>4, CountSteps DEF ListTypeInv
  <2>2. CASE page' = page /\ step' = "end"
    BY <1>4, <2>2, CountSteps DEF ListTypeInv
  <2> QED
    BY <1>4, <2>1, <2>2, CountSteps
<1>5. CASE UNCHANGED Lists!vars
  BY <1>5 DEF Lists!vars, ListTypeInv
<1> QED
  BY <1>1, <1>2, <1>3, <1>4, <1>5 DEF Lists!Next

\* Every variable of the lists keeps its type.
THEOREM ListTypeCorrect ==
  ASSUME Lists!ListsAssumption
  PROVE  Lists!Spec => []Lists!TypeOK
<1>1. ListTypeInv => Lists!TypeOK
  <2> SUFFICES ASSUME ListTypeInv
               PROVE  Lists!TypeOK
    OBVIOUS
  <2>1. IsFiniteSet(Item \ fresh)
    <3>1. (Item \ fresh) \in SUBSET Item
      OBVIOUS
    <3> QED
      BY <3>1, FS_Subset, SameListCount DEF Lists!ListsAssumption
  <2>2. /\ Cardinality(Lists!Range(listed)) = Len(listed)
        /\ Lists!Range(listed) \subseteq Item \ fresh
    BY <2>1, ListLength DEF ListTypeInv
  <2>3. stable \subseteq Lists!Range(listed)
    <3>1. DOMAIN listed = 1..Len(listed)
      BY DEF ListTypeInv
    <3> QED
      BY <3>1 DEF ListTypeInv, Lists!Range
  <2>4. page \in 1..(Cardinality(Item) + 1)
    <3>1. Cardinality(Item) \in Nat
      BY FS_CardinalityType, SameListCount DEF Lists!ListsAssumption
    <3> QED
      BY <3>1 DEF ListTypeInv
  <2> QED
    BY <2>2, <2>3, <2>4, SameListCount DEF ListTypeInv, Lists!TypeOK
<1>2. Lists!Init => ListTypeInv
  BY InitListTypeInv
<1> QED
  BY <1>1, <1>2, NextListTypeInv, PTL DEF Lists!Spec

-----------------------------------------------------------------------------
(* What is skipped.                                                        *)

Unseen == stable \ shownRows

\* Of the rows in the pages that were read there are unseen no more than left
\* their place; a window that was not full was the last.
SkipInv ==
  /\ step = "rows" => Cardinality(First(listed, Unseen, Lists!Before(page))) <= rowsLeft
  /\ step = "count" =>
       /\ Cardinality(First(listed, Unseen, Lists!Before(page) + Limit)) <= rowsLeft
       /\ length < Limit => Cardinality(Unseen) <= rowsLeft
  /\ step = "end" => Cardinality(Unseen) <= rowsLeft

LEMMA Fewer ==
  ASSUME NEW U, IsFiniteSet(U), NEW V, V \subseteq U
  PROVE  /\ IsFiniteSet(V) /\ Cardinality(V) \in Nat /\ Cardinality(U) \in Nat
         /\ Cardinality(V) <= Cardinality(U)
<1>1. V \in SUBSET U
  OBVIOUS
<1> QED
  BY <1>1, FS_Subset, FS_CardinalityType

LEMMA OneMoreAtMost ==
  ASSUME NEW V, IsFiniteSet(V), NEW x
  PROVE  IsFiniteSet(V \cup {x}) /\ Cardinality(V \cup {x}) <= Cardinality(V) + 1
<1>1. /\ IsFiniteSet(V \cup {x})
      /\ Cardinality(V \cup {x}) = IF x \in V THEN Cardinality(V) ELSE Cardinality(V) + 1
  BY FS_AddElement
<1>2. Cardinality(V) \in Nat
  BY FS_CardinalityType
<1> QED
  BY <1>1, <1>2

LEMMA NextSkipInv ==
  ASSUME Lists!ListsAssumption, ListTypeInv, ListTypeInv', SkipInv,
         [Lists!Next]_(Lists!vars)
  PROVE  SkipInv'
<1>0. /\ listed \in Seq(Item) /\ Limit \in Nat /\ rowsLeft \in Nat /\ Len(listed) \in Nat
      /\ IsFiniteSet(Unseen) /\ \A n : IsFiniteSet(First(listed, Unseen, n))
      /\ Lists!Before(page) \in Nat /\ Lists!Before(page) + Limit \in Nat
      /\ page * Limit = Lists!Before(page) + Limit
      /\ Lists!Before(page + 1) = Lists!Before(page) + Limit
  <2>1. listed \in Seq(Item)
    <3>1. listed \in Seq(Item \ fresh) /\ Item \ fresh \subseteq Item
      BY DEF ListTypeInv
    <3> QED
      BY <3>1, SeqMonotonic
  <2>2. IsFiniteSet(Unseen)
    <3>1. Unseen \subseteq Item
      BY DEF ListTypeInv, Unseen
    <3> QED
      BY <3>1, Fewer, SameListCount DEF Lists!ListsAssumption
  <2>3. \A n : First(listed, Unseen, n) \subseteq Unseen
    BY DEF First
  <2>4. \A n : IsFiniteSet(First(listed, Unseen, n))
    BY <2>2, <2>3, Fewer
  <2>5. /\ Lists!Before(page) \in Nat /\ page * Limit = Lists!Before(page) + Limit
        /\ Lists!Before(page + 1) = Lists!Before(page) + Limit
    BY Pages DEF ListTypeInv
  <2> QED
    BY <2>1, <2>2, <2>4, <2>5, SameListCount DEF ListTypeInv, Lists!ListsAssumption
<1>1. ASSUME NEW i \in Item, Lists!Enter(i)
      PROVE  SkipInv'
  <2>1. PICK at \in 1..(Len(listed) + 1) : listed' = Lists!InsertAt(listed, at, i)
    BY <1>1, EnterSteps
  <2>2. i \in fresh /\ UNCHANGED <<page, step, length, stable, shownRows, rowsLeft>>
    BY <1>1 DEF Lists!Enter
  <2>3. i \notin Unseen /\ Unseen' = Unseen
    BY <2>2 DEF ListTypeInv, Unseen
  <2>4. ASSUME NEW n \in Nat
        PROVE  /\ Cardinality(First(listed', Unseen, n))
                    <= Cardinality(First(listed, Unseen, n))
               /\ Cardinality(First(listed', Unseen, n)) \in Nat
               /\ Cardinality(First(listed, Unseen, n)) \in Nat
    <3>1. First(listed', Unseen, n) \subseteq First(listed, Unseen, n)
      BY <1>0, <2>1, <2>3, FirstInserted
    <3> QED
      BY <1>0, <3>1, Fewer
  <2>5. Lists!Before(page)' = Lists!Before(page)
    BY <2>2 DEF Lists!Before
  <2>6. ASSUME step = "rows"
        PROVE  Cardinality(First(listed', Unseen, Lists!Before(page))) <= rowsLeft
    <3>1. Cardinality(First(listed, Unseen, Lists!Before(page))) <= rowsLeft
      BY <2>6 DEF SkipInv
    <3> DEFINE b == Lists!Before(page)
    <3>2. b \in Nat
      BY <1>0
    <3> HIDE DEF b
    <3>3. /\ Cardinality(First(listed', Unseen, b)) <= Cardinality(First(listed, Unseen, b))
          /\ Cardinality(First(listed', Unseen, b)) \in Nat
          /\ Cardinality(First(listed, Unseen, b)) \in Nat
      BY <2>4, <3>2
    <3> QED
      BY <1>0, <3>1, <3>3 DEF b
  <2>7. ASSUME step = "count"
        PROVE  Cardinality(First(listed', Unseen, Lists!Before(page) + Limit)) <= rowsLeft
    <3>1. Cardinality(First(listed, Unseen, Lists!Before(page) + Limit)) <= rowsLeft
      BY <2>7 DEF SkipInv
    <3> DEFINE b == Lists!Before(page) + Limit
    <3>2. b \in Nat
      BY <1>0
    <3> HIDE DEF b
    <3>3. /\ Cardinality(First(listed', Unseen, b)) <= Cardinality(First(listed, Unseen, b))
          /\ Cardinality(First(listed', Unseen, b)) \in Nat
          /\ Cardinality(First(listed, Unseen, b)) \in Nat
      BY <2>4, <3>2
    <3> QED
      BY <1>0, <3>1, <3>3 DEF b
  <2> QED
    BY <2>2, <2>3, <2>5, <2>6, <2>7 DEF SkipInv
<1>2. ASSUME NEW i \in Item, Lists!Leave(i) \/ Lists!Shift(i)
      PROVE  SkipInv'
  <2>1. PICK p \in 1..Len(listed) :
          /\ listed[p] = i
          /\ \/ listed' = Lists!RemoveAt(listed, p)
             \/ \E at \in 1..Len(listed) :
                  listed' = Lists!InsertAt(Lists!RemoveAt(listed, p), at, i)
    BY <1>2, MoveSteps
  <2>2. /\ rowsLeft' = rowsLeft + 1
        /\ UNCHANGED <<page, step, length, shownRows>>
        /\ stable' = stable \ {i}
        /\ step # "end"
    BY <1>2, MoveSteps DEF Lists!Reading
  <2> DEFINE U == stable' \ shownRows'
  <2>3. U \subseteq Unseen /\ i \notin U /\ Unseen' = U
    BY <2>2 DEF Unseen
  <2> HIDE DEF U
  <2>4. ASSUME NEW n \in Nat
        PROVE  /\ Cardinality(First(listed', U, n))
                    <= Cardinality(First(listed, Unseen, n)) + 1
               /\ Cardinality(First(listed', U, n)) \in Nat
               /\ Cardinality(First(listed, Unseen, n)) \in Nat
    <3> DEFINE V == First(listed, Unseen, n)
    <3>1. First(Lists!RemoveAt(listed, p), U, n)
            \subseteq First(listed, U, n) \cup {listed[n + 1]}
      BY <1>0, FirstRemoved
    <3>2. First(listed', U, n) \subseteq First(Lists!RemoveAt(listed, p), U, n)
      <4>1. Lists!RemoveAt(listed, p) \in Seq(Item)
            /\ Len(Lists!RemoveAt(listed, p)) = Len(listed) - 1
        BY <1>0, Removed
      <4>2. ASSUME NEW at \in 1..Len(listed),
                   listed' = Lists!InsertAt(Lists!RemoveAt(listed, p), at, i)
            PROVE  First(listed', U, n) \subseteq First(Lists!RemoveAt(listed, p), U, n)
        <5>1. at \in 1..(Len(Lists!RemoveAt(listed, p)) + 1)
          BY <1>0, <4>1
        <5> QED
          BY <2>3, <4>1, <4>2, <5>1, FirstInserted
      <4> QED
        BY <2>1, <4>2
    <3>3. First(listed, U, n) \subseteq V
      BY <2>3 DEF First
    <3>4. First(listed', U, n) \subseteq V \cup {listed[n + 1]}
      BY <3>1, <3>2, <3>3
    <3>5. IsFiniteSet(V) /\ Cardinality(V) \in Nat
      BY <1>0, FS_CardinalityType
    <3> HIDE DEF V
    <3>6. /\ IsFiniteSet(V \cup {listed[n + 1]})
          /\ Cardinality(V \cup {listed[n + 1]}) <= Cardinality(V) + 1
      BY <3>5, OneMoreAtMost
    <3>7. /\ Cardinality(First(listed', U, n)) \in Nat
          /\ Cardinality(V \cup {listed[n + 1]}) \in Nat
          /\ Cardinality(First(listed', U, n)) <= Cardinality(V \cup {listed[n + 1]})
      BY <3>4, <3>6, Fewer
    <3> QED
      BY <3>5, <3>6, <3>7 DEF V
  <2>5. /\ Cardinality(U) \in Nat /\ Cardinality(Unseen) \in Nat
        /\ Cardinality(U) <= Cardinality(Unseen)
    BY <1>0, <2>3, Fewer
  <2>6. Lists!Before(page)' = Lists!Before(page)
    BY <2>2 DEF Lists!Before
  <2>7. ASSUME step = "rows"
        PROVE  Cardinality(First(listed', U, Lists!Before(page))) <= rowsLeft'
    <3>1. Cardinality(First(listed, Unseen, Lists!Before(page))) <= rowsLeft
      BY <2>7 DEF SkipInv
    <3> DEFINE b == Lists!Before(page)
    <3>2. b \in Nat
      BY <1>0
    <3> HIDE DEF b
    <3>3. /\ Cardinality(First(listed', U, b)) <= Cardinality(First(listed, Unseen, b)) + 1
          /\ Cardinality(First(listed', U, b)) \in Nat
          /\ Cardinality(First(listed, Unseen, b)) \in Nat
      BY <2>4, <3>2
    <3> QED
      BY <1>0, <2>2, <3>1, <3>3 DEF b
  <2>8. ASSUME step = "count"
        PROVE  /\ Cardinality(First(listed', U, Lists!Before(page) + Limit)) <= rowsLeft'
               /\ length < Limit => Cardinality(U) <= rowsLeft'
    <3>1. /\ Cardinality(First(listed, Unseen, Lists!Before(page) + Limit)) <= rowsLeft
          /\ length < Limit => Cardinality(Unseen) <= rowsLeft
      BY <2>8 DEF SkipInv
    <3> DEFINE b == Lists!Before(page) + Limit
    <3>2. b \in Nat
      BY <1>0
    <3> HIDE DEF b
    <3>3. /\ Cardinality(First(listed', U, b)) <= Cardinality(First(listed, Unseen, b)) + 1
          /\ Cardinality(First(listed', U, b)) \in Nat
          /\ Cardinality(First(listed, Unseen, b)) \in Nat
      BY <2>4, <3>2
    <3> QED
      BY <1>0, <2>2, <2>5, <3>1, <3>3 DEF b
  <2> QED
    BY <2>2, <2>3, <2>6, <2>7, <2>8 DEF SkipInv
<1>3. CASE Lists!Rows
  <2>1. /\ step = "rows" /\ shownRows' = shownRows \cup Lists!Window(page)
        /\ length' = Cardinality(Lists!Window(page)) /\ step' = "count"
        /\ UNCHANGED <<listed, page, stable, rowsLeft>>
    BY <1>3, SameListCount DEF Lists!Rows
  <2> DEFINE b == Lists!Before(page)
             U == Unseen \ Lists!Window(page)
  <2>2. Unseen' = U
    BY <2>1 DEF Unseen
  <2>3. DOMAIN listed = 1..Len(listed)
    BY <1>0
  <2>4. First(listed, U, b + Limit) \subseteq First(listed, Unseen, b)
    <3> SUFFICES ASSUME NEW i \in U, NEW m \in 1..Len(listed), m <= b + Limit, listed[m] = i
                 PROVE  m <= b
      BY DEF First
    <3>1. ASSUME ~(m <= b)
          PROVE  FALSE
      <4>1. m \in DOMAIN listed \cap (b + 1)..(b + Limit)
        BY <1>0, <2>3, <3>1
      <4>2. i \in Lists!Window(page)
        BY <4>1 DEF Lists!Window
      <4> QED
        BY <4>2
    <3> QED
      BY <3>1
  <2>5. /\ Cardinality(First(listed, U, b + Limit)) \in Nat
        /\ Cardinality(First(listed, Unseen, b)) \in Nat
        /\ Cardinality(First(listed, U, b + Limit)) <= Cardinality(First(listed, Unseen, b))
    BY <1>0, <2>4, Fewer
  <2>6. Cardinality(First(listed, U, b + Limit)) <= rowsLeft
    BY <1>0, <2>1, <2>5 DEF SkipInv
  <2>7. ASSUME length' < Limit
        PROVE  U = First(listed, U, b + Limit)
    <3>1. ~(Len(listed) >= b + Limit)
      BY <1>0, <2>1, <2>7, PageLength DEF ListTypeInv
    <3>2. \A i \in U : \E m \in 1..Len(listed) : listed[m] = i
      BY DEF Unseen, ListTypeInv
    <3>3. \A m \in 1..Len(listed) : m <= b + Limit
      BY <1>0, <3>1
    <3> HIDE DEF U, b
    <3> QED
      BY <3>2, <3>3 DEF First
  <2>8. Lists!Before(page)' = b
    BY <2>1 DEF Lists!Before
  <2> HIDE DEF U, b
  <2> QED
    BY <2>1, <2>2, <2>6, <2>7, <2>8 DEF SkipInv
<1>4. CASE Lists!Count
  <2>1. /\ step = "count"
        /\ UNCHANGED <<listed, length, stable, shownRows, rowsLeft>>
        /\ Unseen' = Unseen
    BY <1>4, CountSteps DEF Unseen
  <2>2. CASE page' = page + 1 /\ step' = "rows"
    <3>1. Lists!Before(page)' = Lists!Before(page) + Limit
      BY <1>0, <2>2 DEF Lists!Before
    <3> QED
      BY <2>1, <2>2, <3>1 DEF SkipInv
  <2>3. CASE /\ (page * Limit >= Len(listed) \/ length < Limit)
             /\ page' = page
             /\ step' = "end"
    <3>1. ASSUME page * Limit >= Len(listed)
          PROVE  Unseen = First(listed, Unseen, Lists!Before(page) + Limit)
      <4>1. \A i \in Unseen : \E m \in 1..Len(listed) : listed[m] = i
        BY DEF Unseen, ListTypeInv
      <4>2. \A m \in 1..Len(listed) : m <= Lists!Before(page) + Limit
        BY <1>0, <3>1
      <4> QED
        BY <4>1, <4>2 DEF First
    <3>2. Cardinality(Unseen) <= rowsLeft
      BY <2>1, <2>3, <3>1 DEF SkipInv
    <3> QED
      BY <2>1, <2>3, <3>2 DEF SkipInv
  <2> QED
    BY <1>4, <2>2, <2>3, CountSteps
<1>5. CASE UNCHANGED Lists!vars
  BY <1>5 DEF Lists!vars, SkipInv, Unseen, Lists!Before
<1> QED
  BY <1>1, <1>2, <1>3, <1>4, <1>5 DEF Lists!Next

\* A reader who reads to the last page misses no more of the rows that kept their
\* place than left theirs meanwhile, for any list and pages of any size.
THEOREM PagesAreWhole ==
  ASSUME Lists!ListsAssumption
  PROVE  Lists!Spec => []PagesSkipNothing
<1>1. ASSUME Lists!Init
      PROVE  SkipInv
  <2>1. Lists!Before(page) = 0 /\ page = 1 /\ step = "rows" /\ rowsLeft = 0
    <3>1. Lists!Before(1) = 0
      BY Pages
    <3> QED
      BY <1>1, <3>1 DEF Lists!Init
  <2>2. First(listed, Unseen, 0) = {}
    BY DEF First
  <2> QED
    BY <2>1, <2>2, FS_EmptySet DEF SkipInv
<1>2. Lists!Init => ListTypeInv
  BY InitListTypeInv
<1>3. SkipInv => PagesSkipNothing
  BY SameListCount DEF SkipInv, PagesSkipNothing, Lists!PagesSkipNothing, Unseen
<1>4. ListTypeInv /\ ListTypeInv' /\ SkipInv /\ [Lists!Next]_(Lists!vars) => SkipInv'
  BY NextSkipInv
<1> QED
  BY <1>1, <1>2, <1>3, <1>4, NextListTypeInv, PTL DEF Lists!Spec

-----------------------------------------------------------------------------
(* The reports that are made of several queries.                           *)

Titles == {"referrals", "referred", "total", "totalUSD", "top", "topUSD", "paid", "paidUSD",
           "pending", "pendingUSD", "wait_balance", "wait_balanceUSD", "orders", "stakes",
           "wallets", "telegram", "google", "phantom", "completed", "failed", "received",
           "active", "cancelled", "staked", "staking"}

Standing == {"pending", "wait_balance", "paid", "failed", "completed", "active",
             "cancelled", "phantom", "telegram", "google", "both"}

QueryType == [label : Titles, among : SUBSET Report!Row, statuses : SUBSET Standing,
              loops : BOOLEAN, only : Nat]

Looping == \E i \in 1..Len(todo) : todo[i].loops

LoopReports == {"getReferredWallets", "getOwnReferralStatistics"}

\* A loop is over wallets, and comes last.
Loops(s) ==
  \A i \in 1..Len(s) :
    s[i].loops => s[i].among = WalletRow /\ s[i].statuses = Report!Joined /\ i = Len(s)

ReportTypeInv ==
  /\ scope \in Scopes
  /\ rowStatus \in [Report!Row -> Standing \cup {"none"}]
  /\ \A r \in Report!Row :
       rowStatus[r] = "none" \/ \E m \in Report!MovesOf(r) : rowStatus[r] = m[2]
  /\ \A r \in Report!Row : rowStatus[r] # "none" => r \in scope.rows
  /\ \A r \in RewardRow : rowStatus[r] # "none" => rowStatus[FromOf[r]] # "none"
  /\ begun \in BOOLEAN
  /\ todo \in Seq(QueryType)
  /\ Loops(todo)
  /\ turns \subseteq {w \in WalletRow : rowStatus[w] # "none"}
  /\ Looping \/ turns # {} => scope.report \in LoopReports
  /\ known \subseteq {r \in Report!Row : rowStatus[r] # "none"}
  /\ moves \subseteq {m \in Report!Row \X (Standing \cup {"none"}) \X Standing :
                        rowStatus[m[1]] # "none" /\ <<m[2], m[3]>> \in Report!MovesOf(m[1])}
  /\ shown \subseteq {s \in Titles \X Report!Row : rowStatus[s[2]] # "none"}
  /\ ~begun => todo = <<>> /\ turns = {} /\ known = {} /\ moves = {} /\ shown = {}

\* What moves a row, by the table the row is in.
LEMMA RowMoves ==
  ASSUME Report!ReportsAssumption, NEW r \in Report!Row
  PROVE  /\ r \in RewardRow => Report!MovesOf(r) = Report!RewardMoves
         /\ r \in OrderRow => Report!MovesOf(r) = Report!OrderMoves
         /\ r \in StakeRow => Report!MovesOf(r) = Report!StakeMoves
         /\ r \in WalletRow => Report!MovesOf(r) = Report!WalletMoves
BY DEF Report!ReportsAssumption, Report!MovesOf, Report!Row

LEMMA MoveTypes ==
  ASSUME Report!ReportsAssumption, NEW r \in Report!Row, NEW m \in Report!MovesOf(r)
  PROVE  /\ m[1] \in Standing \cup {"none"}
         /\ m[2] \in Standing
         /\ m = <<m[1], m[2]>>
<1>1. CASE r \in RewardRow
  BY <1>1, RowMoves DEF Report!RewardMoves, Standing
<1>2. CASE r \in OrderRow
  BY <1>2, RowMoves DEF Report!OrderMoves, Standing
<1>3. CASE r \in StakeRow
  BY <1>3, RowMoves DEF Report!StakeMoves, Standing
<1>4. CASE r \in WalletRow
  BY <1>4, RowMoves DEF Report!WalletMoves, Standing
<1> QED
  BY <1>1, <1>2, <1>3, <1>4 DEF Report!Row

\* Queries after which the report goes on.
Plain == {q \in QueryType : ~q.loops}

LEMMA StatusSets ==
  /\ Report!Open \subseteq Standing
  /\ Report!Joined \subseteq Standing
  /\ Report!OrderStatus \subseteq Standing
  /\ Report!StakeStatus \subseteq Standing
  /\ \A v \in {"pending", "wait_balance", "paid", "failed", "completed", "active",
               "cancelled", "phantom"} : {v} \subseteq Standing
  /\ {"telegram", "both"} \subseteq Standing
  /\ {"google", "both"} \subseteq Standing
BY DEF Report!Open, Report!Joined, Report!OrderStatus, Report!StakeStatus, Standing

LEMMA QueryTypes ==
  ASSUME NEW label \in Titles, NEW among, among \subseteq Report!Row,
         NEW statuses, statuses \subseteq Standing
  PROVE  /\ Report!Query(label, among, statuses) \in Plain
         /\ Report!Query(label, among \cap Report!In("MMP"), statuses) \in Plain
BY DEF Report!Query, QueryType, Plain

LEMMA PartTypes ==
  /\ Report!Referrals \in Plain
  /\ \A t : /\ Report!Paid(t) \in Plain /\ Report!Pending(t) \in Plain
           /\ Report!Waiting(t) \in Plain
           /\ Report!Total(t) \in Plain /\ Report!ByToken("top", t, {"paid"}) \in Plain
  /\ Report!Guard("referrals", 3) \in Plain
  /\ Report!Loop("referred") \in QueryType
  /\ Report!Loop("referred").among = WalletRow
  /\ Report!Loop("referred").statuses = Report!Joined
<1>1. \A t : Report!In(t) \subseteq Report!Row
  BY DEF Report!In, Report!Row
<1>2. WalletRow \subseteq Report!Row
  BY DEF Report!Row
<1>3. Report!Referrals \in Plain
  <2>1. "referrals" \in Titles
    BY DEF Titles
  <2> QED
    BY <2>1, <1>2, QueryTypes, StatusSets DEF Report!Referrals
<1>4. ASSUME NEW t
      PROVE  /\ Report!Paid(t) \in Plain /\ Report!Pending(t) \in Plain
             /\ Report!Waiting(t) \in Plain
             /\ Report!Total(t) \in Plain /\ Report!ByToken("top", t, {"paid"}) \in Plain
  <2>1. \A l \in {"paid", "pending", "wait_balance", "total", "top"} : l \in Titles
    BY DEF Titles
  <2>2. \A v \in {"paid", "pending", "wait_balance"} : {v} \subseteq Standing
    BY StatusSets
  <2>3. Report!Paid(t) \in Plain /\ Report!ByToken("top", t, {"paid"}) \in Plain
    BY <1>1, <2>1, <2>2, QueryTypes DEF Report!Paid, Report!ByToken
  <2>4. Report!Pending(t) \in Plain
    BY <1>1, <2>1, <2>2, QueryTypes DEF Report!Pending, Report!ByToken
  <2>5. Report!Waiting(t) \in Plain
    BY <1>1, <2>1, <2>2, QueryTypes DEF Report!Waiting, Report!ByToken
  <2>6. Report!Total(t) \in Plain
    BY <1>1, <2>1, StatusSets, QueryTypes DEF Report!Total, Report!ByToken
  <2> QED
    BY <2>3, <2>4, <2>5, <2>6
<1>5. Report!Guard("referrals", 3) \in Plain
  BY <1>2, StatusSets DEF Report!Guard, Report!Query, QueryType, Plain, Titles
<1>6. /\ Report!Loop("referred") \in QueryType /\ Report!Loop("referred").among = WalletRow
      /\ Report!Loop("referred").statuses = Report!Joined
  BY <1>2, StatusSets DEF Report!Loop, Report!Query, QueryType, Titles
<1> QED
  BY <1>3, <1>4, <1>5, <1>6

LEMMA PlainPlans ==
  ASSUME NEW s \in Seq(Plain)
  PROVE  s \in Seq(QueryType) /\ Loops(s) /\ \A i \in 1..Len(s) : ~s[i].loops
BY DEF Plain, Loops

LEMMA LoopPlans ==
  ASSUME NEW p \in Plain, NEW q \in QueryType,
         q.among = WalletRow, q.statuses = Report!Joined
  PROVE  /\ <<q>> \in Seq(QueryType) /\ Loops(<<q>>)
         /\ <<p, q>> \in Seq(QueryType) /\ Loops(<<p, q>>)
BY DEF Plain, Loops

LEMMA PlanTypes ==
  ASSUME Report!ReportsAssumption, NEW report \in Report!Names
  PROVE  /\ Report!QueriesOf(report) \in Seq(QueryType)
         /\ Loops(Report!QueriesOf(report))
         /\ report \notin LoopReports =>
              \A i \in 1..Len(Report!QueriesOf(report)) : ~Report!QueriesOf(report)[i].loops
<1>0. /\ RewardRow \subseteq Report!Row /\ WalletRow \subseteq Report!Row
      /\ OrderRow \subseteq Report!Row /\ StakeRow \subseteq Report!Row
  BY DEF Report!Row
<1>1. \A l \in {"topUSD", "paidUSD"} : Report!InUSD(l, RewardRow, {"paid"}) \in Plain
  BY <1>0, QueryTypes, StatusSets DEF Report!InUSD, Titles
<1>2. Report!InUSD("totalUSD", RewardRow, Report!Open) \in Plain
  BY <1>0, QueryTypes, StatusSets DEF Report!InUSD, Titles
<1>3. CASE report = "getReferralRanking"
  <2>1. Report!QueriesOf(report) = Report!GetReferralRanking
    BY <1>3 DEF Report!QueriesOf
  <2>3. Report!GetReferralRanking \in Seq(Plain)
    BY <1>1, <1>2, PartTypes DEF Report!GetReferralRanking
  <2> QED
    BY <2>1, <2>3, PlainPlans
<1>4. CASE report = "getReferralStatistics"
  <2>1. Report!QueriesOf(report) = Report!GetReferralStatistics
    BY <1>4 DEF Report!QueriesOf
  <2>3. Report!GetReferralStatistics \in Seq(Plain)
    BY <1>1, <1>2, PartTypes DEF Report!GetReferralStatistics
  <2> QED
    BY <2>1, <2>3, PlainPlans
<1>5. CASE report = "getWalletReferralStatistics"
  <2>1. Report!QueriesOf(report) = Report!GetWalletReferralStatistics
    BY <1>5 DEF Report!QueriesOf
  <2>3. Report!GetWalletReferralStatistics \in Seq(Plain)
    BY <1>1, <1>2, PartTypes DEF Report!GetWalletReferralStatistics
  <2> QED
    BY <2>1, <2>3, PlainPlans
<1>6. CASE report = "getReferredWallets"
  <2>1. Report!QueriesOf(report) = Report!GetReferredWallets
    BY <1>6 DEF Report!QueriesOf
  <2> QED
    BY <1>6, <2>1, PartTypes, LoopPlans DEF Report!GetReferredWallets, LoopReports
<1>7. CASE report = "getOwnReferralStatistics"
  <2>1. Report!QueriesOf(report) = Report!GetOwnReferralStatistics
    BY <1>7 DEF Report!QueriesOf
  <2> QED
    BY <1>7, <2>1, PartTypes, LoopPlans DEF Report!GetOwnReferralStatistics, LoopReports
<1>8. CASE report = "getReferralsOfWallet"
  <2>1. Report!QueriesOf(report) = Report!GetReferralsOfWallet
    BY <1>8 DEF Report!QueriesOf
  <2>2. /\ Report!Query("referred", WalletRow, Report!Joined) \in Plain
    BY <1>0, QueryTypes, StatusSets DEF Titles
  <2>3. Report!GetReferralsOfWallet \in Seq(Plain)
    BY <1>1, <1>2, <2>2, PartTypes DEF Report!GetReferralsOfWallet
  <2> QED
    BY <2>1, <2>3, PlainPlans
<1>9. CASE report = "getWalletDetailStatistics"
  <2>1. Report!QueriesOf(report) = Report!GetWalletDetailStatistics
    BY <1>9 DEF Report!QueriesOf
  <2>2. /\ Report!Query("orders", OrderRow, Report!OrderStatus) \in Plain
        /\ Report!Query("stakes", StakeRow, Report!StakeStatus) \in Plain
    BY <1>0, QueryTypes, StatusSets DEF Titles
  <2>3. Report!GetWalletDetailStatistics \in Seq(Plain)
    BY <1>1, <1>2, <2>2, PartTypes DEF Report!GetWalletDetailStatistics
  <2> QED
    BY <2>1, <2>3, PlainPlans
<1>10. CASE report = "getWalletStatistics"
  <2>1. Report!QueriesOf(report) = Report!GetWalletStatistics
    BY <1>10 DEF Report!QueriesOf
  <2>2. /\ Report!Query("wallets", WalletRow, Report!Joined) \in Plain
        /\ Report!Query("telegram", WalletRow, {"telegram", "both"}) \in Plain
        /\ Report!Query("google", WalletRow, {"google", "both"}) \in Plain
        /\ Report!Query("phantom", WalletRow, {"phantom"}) \in Plain
    BY <1>0, QueryTypes, StatusSets DEF Titles
  <2>3. Report!GetWalletStatistics \in Seq(Plain)
    BY <1>1, <1>2, <2>2, PartTypes DEF Report!GetWalletStatistics
  <2> QED
    BY <2>1, <2>3, PlainPlans
<1>11. CASE report = "getSwapStatistics"
  <2>1. Report!QueriesOf(report) = Report!GetSwapStatistics
    BY <1>11 DEF Report!QueriesOf
  <2>2. /\ Report!Query("orders", OrderRow, Report!OrderStatus) \in Plain
        /\ Report!Query("pending", OrderRow, {"pending"}) \in Plain
        /\ Report!Query("completed", OrderRow, {"completed"}) \in Plain
        /\ Report!Query("failed", OrderRow, {"failed"}) \in Plain
        /\ Report!Query("received", OrderRow, {"completed"}) \in Plain
    BY <1>0, QueryTypes, StatusSets DEF Titles
  <2>3. Report!GetSwapStatistics \in Seq(Plain)
    BY <1>1, <1>2, <2>2, PartTypes DEF Report!GetSwapStatistics
  <2> QED
    BY <2>1, <2>3, PlainPlans
<1>12. CASE report = "getStakeStatistics"
  <2>1. Report!QueriesOf(report) = Report!GetStakeStatistics
    BY <1>12 DEF Report!QueriesOf
  <2>2. /\ Report!Query("stakes", StakeRow, Report!StakeStatus) \in Plain
        /\ Report!Query("active", StakeRow, {"active"}) \in Plain
        /\ Report!Query("completed", StakeRow, {"completed"}) \in Plain
        /\ Report!Query("cancelled", StakeRow, {"cancelled"}) \in Plain
        /\ Report!Query("staked", StakeRow, Report!StakeStatus) \in Plain
        /\ Report!Query("staking", StakeRow, {"active"}) \in Plain
    BY <1>0, QueryTypes, StatusSets DEF Titles
  <2>3. Report!GetStakeStatistics \in Seq(Plain)
    BY <1>1, <1>2, <2>2, PartTypes DEF Report!GetStakeStatistics
  <2> QED
    BY <2>1, <2>3, PlainPlans
<1> QED
  BY <1>3, <1>4, <1>5, <1>6, <1>7, <1>8, <1>9, <1>10, <1>11, <1>12 DEF Report!Names

LEMMA TurnTypes ==
  ASSUME NEW report, NEW w \in WalletRow
  PROVE  Report!QueriesFor(report, w) \in Seq(Plain)
<1>1. Report!From(w) \subseteq Report!Row
  BY DEF Report!From, Report!Row
<1>2. \A v \in {"paid", "pending", "wait_balance"} :
        Report!Query(v, Report!From(w), {v}) \in Plain
  BY <1>1, QueryTypes, StatusSets DEF Titles
<1>3. /\ Report!InUSD("paidUSD", Report!From(w), {"paid"}) \in Plain
      /\ Report!InUSD("pendingUSD", Report!From(w), {"pending"}) \in Plain
      /\ Report!InUSD("wait_balanceUSD", Report!From(w), {"wait_balance"}) \in Plain
  BY <1>1, QueryTypes, StatusSets DEF Report!InUSD, Titles
<1>4. Report!GetReferredWallet(w) \in Seq(Plain)
  BY <1>2, <1>3 DEF Report!GetReferredWallet
<1>5. Report!GetOwnReferredWallet(w) \in Seq(Plain)
  BY <1>2 DEF Report!GetOwnReferredWallet
<1> QED
  BY <1>4, <1>5 DEF Report!QueriesFor

-----------------------------------------------------------------------------
\* What the steps do to the queries that are to come.
LEMMA RestOf ==
  ASSUME NEW s \in Seq(QueryType), NEW n \in Nat, s # <<>>
  PROVE  /\ SubSeq(s, 2 + n, Len(s)) \in Seq(QueryType)
         /\ Loops(s) => Loops(SubSeq(s, 2 + n, Len(s)))
         /\ \A i \in 1..Len(SubSeq(s, 2 + n, Len(s))) :
              1 + n + i \in 1..Len(s) /\ SubSeq(s, 2 + n, Len(s))[i] = s[1 + n + i]
         /\ n = 0 => Len(SubSeq(s, 2 + n, Len(s))) = Len(s) - 1
<1> DEFINE t == SubSeq(s, 2 + n, Len(s))
<1>1. Len(s) \in Nat /\ Len(s) >= 1
  OBVIOUS
<1>2. \A i \in (2 + n)..Len(s) : i \in 1..Len(s)
  BY <1>1
<1>3. t \in Seq(QueryType)
  BY <1>1, <1>2, SubSeqProperties
<1>4. /\ Len(t) = IF 2 + n <= Len(s) THEN Len(s) - (2 + n) + 1 ELSE 0
      /\ \A i \in 1..(Len(s) - (2 + n) + 1) : t[i] = s[2 + n + i - 1]
  BY <1>1, <1>2, SubSeqProperties
<1>5. \A i \in 1..Len(t) : 1 + n + i \in 1..Len(s) /\ t[i] = s[1 + n + i]
  BY <1>1, <1>4
<1>6. ASSUME Loops(s) PROVE Loops(t)
  <2>0. t \in Seq(QueryType)
    BY <1>3
  <2> HIDE DEF t
  <2> SUFFICES ASSUME NEW i \in 1..Len(t), t[i].loops
               PROVE  t[i].among = WalletRow /\ t[i].statuses = Report!Joined /\ i = Len(t)
    BY DEF Loops
  <2>1. /\ s[1 + n + i].among = WalletRow /\ s[1 + n + i].statuses = Report!Joined
        /\ 1 + n + i = Len(s)
    BY <1>5, <1>6 DEF Loops
  <2>2. i \in Nat /\ i >= 1
    OBVIOUS
  <2>3. Len(t) = Len(s) - (2 + n) + 1
    BY <2>1, <2>2, <1>1, <1>4 DEF t
  <2>4. i = Len(t)
    <3>1. \A k, m, l \in Nat : 1 + n + k = m /\ l = m - (2 + n) + 1 => k = l
      OBVIOUS
    <3>2. Len(t) \in Nat
      BY <1>3
    <3> QED
      BY <2>1, <2>2, <2>3, <3>1, <3>2, <1>1
  <2>5. t[i] = s[1 + n + i]
    BY <1>5
  <2> QED
    BY <2>1, <2>4, <2>5
<1>7. n = 0 => Len(t) = Len(s) - 1
  <2>1. Len(t) = IF 2 + n <= Len(s) THEN Len(s) - (2 + n) + 1 ELSE 0
    BY <1>4
  <2>2. \A k, l \in Nat :
          n = 0 /\ k >= 1 /\ l = (IF 2 + n <= k THEN k - (2 + n) + 1 ELSE 0) => l = k - 1
    OBVIOUS
  <2>3. Len(t) \in Nat
    BY <1>3
  <2> HIDE DEF t
  <2> QED
    BY <1>1, <2>1, <2>2, <2>3
<1> QED
  BY <1>3, <1>5, <1>6, <1>7

\* A query finds rows that are there.
LEMMA Found ==
  ASSUME ReportTypeInv, todo # <<>>
  PROVE  /\ Head(todo) = todo[1]
         /\ 1 \in 1..Len(todo)
         /\ Head(todo) \in QueryType
         /\ \A r : rowStatus[r] \in Head(todo).statuses => rowStatus[r] # "none"
<1>1. todo \in Seq(QueryType)
  BY DEF ReportTypeInv
<1>2. Head(todo) = todo[1] /\ Head(todo) \in QueryType /\ 1 \in 1..Len(todo)
  BY <1>1
<1> QED
  BY <1>2 DEF QueryType, Standing

LEMMA InitReportTypeInv ==
  ASSUME Report!ReportsAssumption, Report!Init
  PROVE  ReportTypeInv
<1>1. todo = <<>> /\ todo \in Seq(QueryType) /\ Len(todo) = 0
  BY DEF Report!Init
<1>2. ~Looping /\ Loops(todo)
  BY <1>1 DEF Looping, Loops
<1>3. /\ rowStatus \in [Report!Row -> Standing \cup {"none"}]
      /\ \A r \in Report!Row : rowStatus[r] = "none"
  BY DEF Report!Init
<1>4. RewardRow \subseteq Report!Row
  BY DEF Report!Row
<1> QED
  BY <1>1, <1>2, <1>3, <1>4 DEF Report!Init, ReportTypeInv

\* A row enters with its first move, and stays.
LEMMA Moved ==
  ASSUME Report!ReportsAssumption, ReportTypeInv, NEW r \in Report!Row, Report!Move(r)
  PROVE  /\ r \in scope.rows
         /\ <<rowStatus[r], rowStatus'[r]>> \in Report!MovesOf(r)
         /\ rowStatus'[r] \in Standing
         /\ rowStatus' \in [Report!Row -> Standing \cup {"none"}]
         /\ \A o \in Report!Row \ {r} : rowStatus'[o] = rowStatus[o]
         /\ \A o \in Report!Row : rowStatus[o] # "none" => rowStatus'[o] # "none"
         /\ moves' = IF begun THEN moves \cup {<<r, rowStatus[r], rowStatus'[r]>>}
                       ELSE moves
         /\ r \in RewardRow => rowStatus[FromOf[r]] # "none"
         /\ UNCHANGED <<scope, begun, todo, turns, known, shown>>
<1>1. PICK m \in Report!MovesOf(r) :
        /\ m[1] = rowStatus[r]
        /\ rowStatus' = [rowStatus EXCEPT ![r] = m[2]]
        /\ moves' = IF begun THEN moves \cup {<<r, m[1], m[2]>>} ELSE moves
  BY DEF Report!Move
<1>2. m[1] \in Standing \cup {"none"} /\ m[2] \in Standing /\ m = <<m[1], m[2]>>
  BY MoveTypes
<1>3. rowStatus \in [Report!Row -> Standing \cup {"none"}]
  BY DEF ReportTypeInv
<1>4. rowStatus'[r] = m[2] /\ \A o \in Report!Row \ {r} : rowStatus'[o] = rowStatus[o]
  BY <1>1, <1>3
<1>5. "none" \notin Standing
  BY DEF Standing
<1> QED
  BY <1>1, <1>2, <1>3, <1>4, <1>5 DEF Report!Move

LEMMA NextReportTypeInv ==
  ASSUME Report!ReportsAssumption, ReportTypeInv, [Report!Next]_(Report!vars)
  PROVE  ReportTypeInv'
<1>1. CASE Report!Begin
  <2>1. scope.report \in Report!Names
    BY DEF ReportTypeInv, Report!ReportsAssumption
  <2>2. /\ todo' \in Seq(QueryType) /\ Loops(todo')
        /\ (\E i \in 1..Len(todo') : todo'[i].loops) => scope.report \in LoopReports
    BY <1>1, <2>1, PlanTypes DEF Report!Begin
  <2> QED
    BY <1>1, <2>2 DEF Report!Begin, ReportTypeInv, Loops, Looping
<1>2. CASE Report!Ask
  <2> DEFINE q == Head(todo)
             found == {r \in q.among : rowStatus[r] \in q.statuses}
             skipped == IF found = {} THEN q.only ELSE 0
             t == SubSeq(todo, 2 + skipped, Len(todo))
  <2>1. /\ todo # <<>>
        /\ shown' = shown \cup ({q.label} \X found)
        /\ todo' = t
        /\ turns' = IF q.loops THEN found ELSE turns
        /\ UNCHANGED <<scope, rowStatus, begun, known, moves>>
    BY <1>2 DEF Report!Ask
  <2>2. /\ q = todo[1] /\ 1 \in 1..Len(todo) /\ q \in QueryType
        /\ \A r \in found : r \in Report!Row /\ rowStatus[r] # "none"
    BY <2>1, Found DEF QueryType
  <2>3. skipped \in Nat
    BY <2>2 DEF QueryType
  <2> HIDE DEF skipped
  <2>4. todo \in Seq(QueryType) /\ Loops(todo)
    BY DEF ReportTypeInv
  <2>5. /\ t \in Seq(QueryType) /\ Loops(t)
        /\ \A i \in 1..Len(t) :
             1 + skipped + i \in 1..Len(todo) /\ t[i] = todo[1 + skipped + i]
    BY <2>1, <2>3, <2>4, RestOf
  <2> HIDE DEF t, q
  <2>6. (\E i \in 1..Len(todo') : todo'[i].loops) => Looping
    BY <2>1, <2>5 DEF Looping
  <2>7. q.loops => Looping /\ found \subseteq WalletRow
    BY <2>2, <2>4 DEF Looping, Loops
  <2>8. q.label \in Titles
    BY <2>2 DEF QueryType
  <2>9. /\ Looping' \/ turns' # {} => scope'.report \in LoopReports
    <3>1. Looping' \/ turns' # {} => Looping \/ turns # {}
      BY <2>1, <2>6, <2>7 DEF Looping
    <3> QED
      BY <2>1, <3>1 DEF ReportTypeInv
  <2>10. turns' \subseteq {w \in WalletRow : rowStatus'[w] # "none"}
    BY <2>1, <2>2, <2>7 DEF ReportTypeInv
  <2>11. shown' \subseteq {s \in Titles \X Report!Row : rowStatus'[s[2]] # "none"}
    BY <2>1, <2>2, <2>8 DEF ReportTypeInv
  <2>12. begun
    BY <2>1 DEF ReportTypeInv
  <2> QED
    BY <2>1, <2>5, <2>9, <2>10, <2>11, <2>12 DEF ReportTypeInv
<1>3. ASSUME NEW w \in WalletRow, Report!Turn(w) PROVE ReportTypeInv'
  <2>1. /\ todo = <<>> /\ w \in turns /\ turns' = turns \ {w}
        /\ todo' = Report!QueriesFor(scope.report, w)
        /\ UNCHANGED <<scope, rowStatus, begun, known, moves, shown>>
    BY <1>3 DEF Report!Turn
  <2>2. todo' \in Seq(QueryType) /\ Loops(todo') /\ \A i \in 1..Len(todo') : ~todo'[i].loops
    BY <2>1, TurnTypes, PlainPlans
  <2>3. begun
    BY <2>1 DEF ReportTypeInv
  <2> QED
    BY <2>1, <2>2, <2>3 DEF ReportTypeInv, Looping
<1>4. ASSUME NEW r \in Report!Row, Report!Move(r) PROVE ReportTypeInv'
  <2>1. /\ r \in scope.rows
        /\ <<rowStatus[r], rowStatus'[r]>> \in Report!MovesOf(r)
        /\ rowStatus'[r] \in Standing
        /\ rowStatus' \in [Report!Row -> Standing \cup {"none"}]
        /\ \A o \in Report!Row \ {r} : rowStatus'[o] = rowStatus[o]
        /\ \A o \in Report!Row : rowStatus[o] # "none" => rowStatus'[o] # "none"
        /\ moves' = IF begun THEN moves \cup {<<r, rowStatus[r], rowStatus'[r]>>} ELSE moves
        /\ r \in RewardRow => rowStatus[FromOf[r]] # "none"
        /\ UNCHANGED <<scope, begun, todo, turns, known, shown>>
    BY <1>4, Moved
  <2>2. "none" \notin Standing
    BY DEF Standing
  <2>3. \A o \in Report!Row :
          rowStatus'[o] = "none" \/ \E m \in Report!MovesOf(o) : rowStatus'[o] = m[2]
    BY <2>1 DEF ReportTypeInv
  <2>4. \A o \in Report!Row : rowStatus'[o] # "none" => o \in scope.rows
    BY <2>1 DEF ReportTypeInv
  <2>5. \A o \in RewardRow : rowStatus'[o] # "none" => rowStatus'[FromOf[o]] # "none"
    <3> TAKE o \in RewardRow
    <3>1. o \in Report!Row /\ FromOf[o] \in Report!Row
      BY DEF Report!ReportsAssumption, Report!Row
    <3> QED
      BY <2>1, <3>1 DEF ReportTypeInv
  <2>6. moves' \subseteq {m \in Report!Row \X (Standing \cup {"none"}) \X Standing :
                            rowStatus'[m[1]] # "none"
                              /\ <<m[2], m[3]>> \in Report!MovesOf(m[1])}
    <3> DEFINE M == Report!Row \X (Standing \cup {"none"}) \X Standing
    <3>1. rowStatus[r] \in Standing \cup {"none"}
      BY DEF ReportTypeInv
    <3>2. \A m \in moves : /\ m \in M /\ rowStatus'[m[1]] # "none"
                          /\ <<m[2], m[3]>> \in Report!MovesOf(m[1])
      BY <2>1 DEF ReportTypeInv
    <3>3. LET m == <<r, rowStatus[r], rowStatus'[r]>>
          IN  /\ m \in M /\ rowStatus'[m[1]] # "none"
              /\ <<m[2], m[3]>> \in Report!MovesOf(m[1])
      BY <2>1, <2>2, <3>1
    <3> QED
      BY <2>1, <3>2, <3>3
  <2>7. shown \subseteq {s \in Titles \X Report!Row : rowStatus'[s[2]] # "none"}
    BY <2>1 DEF ReportTypeInv
  <2>8. /\ turns \subseteq {w \in WalletRow : rowStatus'[w] # "none"}
        /\ known \subseteq {o \in Report!Row : rowStatus'[o] # "none"}
    BY <2>1 DEF ReportTypeInv, Report!Row
  <2>9. Looping' <=> Looping
    BY <2>1 DEF Looping
  <2> QED
    BY <2>1, <2>3, <2>4, <2>5, <2>6, <2>7, <2>8, <2>9 DEF ReportTypeInv
<1>5. CASE UNCHANGED Report!vars
  BY <1>5 DEF Report!vars, ReportTypeInv, Looping
<1> QED
  BY <1>1, <1>2, <1>3, <1>4, <1>5 DEF Report!Next

\* Every variable of a report has its type.
THEOREM ReportTypeCorrect ==
  ASSUME Report!ReportsAssumption
  PROVE  Report!Spec => []Report!TypeOK
<1>1. Report!Init => ReportTypeInv
  BY InitReportTypeInv
<1>2. ReportTypeInv /\ [Report!Next]_(Report!vars) => ReportTypeInv'
  BY NextReportTypeInv
<1>3. ReportTypeInv => Report!TypeOK
  <2> SUFFICES ASSUME ReportTypeInv PROVE Report!TypeOK
    OBVIOUS
  <2>1. \A i \in DOMAIN todo : todo[i].among \subseteq Report!Row
    <3>1. todo \in Seq(QueryType)
      BY DEF ReportTypeInv
    <3>2. \A i \in DOMAIN todo : todo[i] \in QueryType
      BY <3>1
    <3> QED
      BY <3>2 DEF QueryType
  <2>2. turns \subseteq WalletRow \cap scope.rows /\ known \subseteq scope.rows
    BY DEF ReportTypeInv, Report!Row
  <2>3. \A m \in moves : m[1] \in scope.rows /\ <<m[2], m[3]>> \in Report!MovesOf(m[1])
    BY DEF ReportTypeInv
  <2>4. \A s \in shown : s[2] \in scope.rows
    BY DEF ReportTypeInv
  <2> QED
    BY <2>1, <2>2, <2>3, <2>4 DEF ReportTypeInv, Report!TypeOK
<1> QED
  BY <1>1, <1>2, <1>3, PTL DEF Report!Spec

-----------------------------------------------------------------------------
(* What the queries that are to come will find.                            *)

\* Query q shows row r, if it is then in status v, under one of labels.
Covers(q, r, v, labels) == r \in q.among /\ v \in q.statuses /\ q.label \in labels

Asked(s, r, v, labels) == \E i \in 1..Len(s) : Covers(s[i], r, v, labels)

\* Who asks for r in status v asks for it in status u, at once or later.
Follows(s, r, v, labels, u, thereafter) ==
  \A i \in 1..Len(s) :
    Covers(s[i], r, v, labels) => \E j \in i..Len(s) : Covers(s[j], r, u, thereafter)

IsRest(t, s) ==
  /\ s \in Seq(QueryType) /\ t \in Seq(QueryType)
  /\ Len(s) \in Nat /\ Len(s) >= 1 /\ Len(t) \in Nat /\ Len(t) = Len(s) - 1
  /\ \A i \in 1..Len(t) : 1 + i \in 1..Len(s) /\ t[i] = s[1 + i]
  /\ \A i \in 2..Len(s) : i - 1 \in 1..Len(t) /\ s[i] = t[i - 1]

LEMMA RestIsRest ==
  ASSUME NEW s \in Seq(QueryType), s # <<>>
  PROVE  IsRest(SubSeq(s, 2, Len(s)), s)
<1> DEFINE t == SubSeq(s, 2 + 0, Len(s))
<1>1. /\ t \in Seq(QueryType) /\ Len(t) = Len(s) - 1
      /\ \A i \in 1..Len(t) : 1 + 0 + i \in 1..Len(s) /\ t[i] = s[1 + 0 + i]
  BY RestOf
<1>2. t = SubSeq(s, 2, Len(s))
  OBVIOUS
<1> HIDE DEF t
<1>3. Len(s) \in Nat /\ Len(s) >= 1 /\ Len(t) \in Nat
  BY <1>1
<1>4. \A i \in 1..Len(t) : 1 + 0 + i = 1 + i
  BY <1>3
<1>5. \A i \in 1..Len(t) : 1 + i \in 1..Len(s) /\ t[i] = s[1 + i]
  BY <1>1, <1>4
<1>6. \A i \in 2..Len(s) : i - 1 \in 1..Len(t) /\ 1 + (i - 1) = i
  BY <1>1, <1>3
<1>7. \A i \in 2..Len(s) : s[i] = t[i - 1]
  BY <1>5, <1>6
<1> QED
  BY <1>1, <1>2, <1>3, <1>5, <1>6, <1>7 DEF IsRest

LEMMA RestAsked ==
  ASSUME NEW s, NEW t, IsRest(t, s), NEW r, NEW v, NEW labels
  PROVE  Asked(s, r, v, labels) <=> Covers(s[1], r, v, labels) \/ Asked(t, r, v, labels)
<1>1. ASSUME Asked(s, r, v, labels), ~Covers(s[1], r, v, labels)
      PROVE  Asked(t, r, v, labels)
  <2>1. PICK i \in 1..Len(s) : Covers(s[i], r, v, labels)
    BY <1>1 DEF Asked
  <2>2. i \in 2..Len(s)
    BY <1>1, <2>1
  <2> QED
    BY <2>1, <2>2 DEF Asked, IsRest
<1>2. ASSUME Asked(t, r, v, labels) PROVE Asked(s, r, v, labels)
  BY <1>2 DEF Asked, IsRest
<1>3. 1 \in 1..Len(s)
  BY DEF IsRest
<1> QED
  BY <1>1, <1>2, <1>3 DEF Asked

LEMMA RestFollows ==
  ASSUME NEW s, NEW t, IsRest(t, s), NEW r, NEW v, NEW labels, NEW u, NEW thereafter,
         Follows(s, r, v, labels, u, thereafter)
  PROVE  Follows(t, r, v, labels, u, thereafter)
<1> SUFFICES ASSUME NEW i \in 1..Len(t), Covers(t[i], r, v, labels)
             PROVE  \E j \in i..Len(t) : Covers(t[j], r, u, thereafter)
  BY DEF Follows
<1>1. 1 + i \in 1..Len(s) /\ Covers(s[1 + i], r, v, labels)
  BY DEF IsRest
<1>2. PICK j \in (1 + i)..Len(s) : Covers(s[j], r, u, thereafter)
  BY <1>1 DEF Follows
<1>3. j \in 2..Len(s) /\ j - 1 \in i..Len(t)
  BY DEF IsRest
<1> QED
  BY <1>2, <1>3 DEF IsRest

LEMMA FollowsAsked ==
  ASSUME NEW s, NEW r, NEW v, NEW labels, NEW u, NEW thereafter,
         Follows(s, r, v, labels, u, thereafter), Asked(s, r, v, labels)
  PROVE  Asked(s, r, u, thereafter)
BY DEF Follows, Asked

-----------------------------------------------------------------------------
(* The order of the queries.                                               *)

Wait == {"pending", "wait_balance"}

\* Which of the rows that move an order of queries does not lose.
RewardRules(report, s) ==
  \A r \in RewardRow :
    /\ Follows(s, r, "pending", Report!Open, "wait_balance", Report!Open)
    /\ \A i, j \in 1..Len(s) : \A v \in Wait :
         i <= j /\ Covers(s[i], r, v, Report!Open) => ~Covers(s[j], r, "paid", {"paid"})
    /\ \A i \in 1..Len(s) :
         r \in s[i].among /\ s[i].label \in Report!Open => s[i].statuses = {s[i].label}
    /\ r \in Report!In("MMP") /\ report # "getOwnReferralStatistics" =>
         Follows(s, r, "paid", {"paid"}, "paid", {"paidUSD"})
    /\ report = "getWalletDetailStatistics" => \A v, u \in Report!Open :
         /\ Follows(s, r, v, Report!Open, u, {"total"})
         /\ Follows(s, r, v, {"total"}, u, {"total"})

OrderRules(s) ==
  \A o \in OrderRow :
    /\ Follows(s, o, "pending", Report!OrderStatus, "completed", Report!OrderStatus)
    /\ Follows(s, o, "pending", Report!OrderStatus, "failed", Report!OrderStatus)
    /\ Follows(s, o, "completed", Report!OrderStatus, "failed", Report!OrderStatus)

StakeRules(s) ==
  \A k \in StakeRow :
    Follows(s, k, "active", Report!StakeStatus, "completed", Report!StakeStatus)

Logins == {"telegram", "google", "phantom"}

WalletRules(s) == \A w \in WalletRow : Follows(s, w, "telegram", Logins, "both", Logins)

Observable ==
  Report!SplitRewards
    \cup {"getSwapStatistics", "getStakeStatistics", "getWalletStatistics"}

Rules(report, s) ==
  /\ report \in Observable => \A i \in 1..Len(s) : s[i].only = 0
  /\ report \in Report!SplitRewards => RewardRules(report, s)
  /\ report = "getSwapStatistics" => OrderRules(s)
  /\ report = "getStakeStatistics" => StakeRules(s)
  /\ report = "getWalletStatistics" => WalletRules(s)

LEMMA RestRules ==
  ASSUME NEW s, NEW t, IsRest(t, s), NEW report, Rules(report, s)
  PROVE  Rules(report, t)
<1>1. ASSUME report \in Observable PROVE \A i \in 1..Len(t) : t[i].only = 0
  BY <1>1 DEF Rules, IsRest
<1>2. ASSUME report \in Report!SplitRewards PROVE RewardRules(report, t)
  <2> SUFFICES ASSUME NEW r \in RewardRow
               PROVE  RewardRules(report, t)!(r)
    BY DEF RewardRules
  <2>1. Follows(t, r, "pending", Report!Open, "wait_balance", Report!Open)
    BY <1>2, RestFollows DEF Rules, RewardRules
  <2>2. ASSUME NEW i \in 1..Len(t), NEW j \in 1..Len(t), NEW v \in Wait, i <= j,
               Covers(t[i], r, v, Report!Open)
        PROVE  ~Covers(t[j], r, "paid", {"paid"})
    <3>1. /\ 1 + i \in 1..Len(s) /\ t[i] = s[1 + i]
          /\ 1 + j \in 1..Len(s) /\ t[j] = s[1 + j]
      BY DEF IsRest
    <3>2. 1 + i <= 1 + j
      BY <2>2 DEF IsRest
    <3> QED
      BY <1>2, <2>2, <3>1, <3>2 DEF Rules, RewardRules
  <2>3. ASSUME NEW i \in 1..Len(t), r \in t[i].among, t[i].label \in Report!Open
        PROVE  t[i].statuses = {t[i].label}
    BY <1>2, <2>3 DEF Rules, RewardRules, IsRest
  <2>4. ASSUME r \in Report!In("MMP"), report # "getOwnReferralStatistics"
        PROVE  Follows(t, r, "paid", {"paid"}, "paid", {"paidUSD"})
    BY <1>2, <2>4, RestFollows DEF Rules, RewardRules
  <2>5. ASSUME report = "getWalletDetailStatistics", NEW v \in Report!Open,
               NEW u \in Report!Open
        PROVE  /\ Follows(t, r, v, Report!Open, u, {"total"})
               /\ Follows(t, r, v, {"total"}, u, {"total"})
    BY <1>2, <2>5, RestFollows DEF Rules, RewardRules
  <2> QED
    BY <2>1, <2>2, <2>3, <2>4, <2>5
<1>3. ASSUME report = "getSwapStatistics" PROVE OrderRules(t)
  BY <1>3, RestFollows DEF Rules, OrderRules
<1>4. ASSUME report = "getStakeStatistics" PROVE StakeRules(t)
  BY <1>4, RestFollows DEF Rules, StakeRules
<1>5. ASSUME report = "getWalletStatistics" PROVE WalletRules(t)
  BY <1>5, RestFollows DEF Rules, WalletRules
<1> QED
  BY <1>1, <1>2, <1>3, <1>4, <1>5 DEF Rules

\* What the queries of a report ask for when it begins.
Complete(report, s) ==
  /\ report \in LoopReports =>
       /\ \E i \in 1..Len(s) : s[i].loops
       /\ \A i \in 1..Len(s) : s[i].among \cap RewardRow = {}
  /\ report \in Report!SplitRewards \ LoopReports =>
       \A r \in RewardRow : \A v \in Report!Open : Asked(s, r, v, Report!Open)
  /\ report = "getSwapStatistics" =>
       \A o \in OrderRow : \A v \in Report!OrderStatus : Asked(s, o, v, Report!OrderStatus)
  /\ report = "getStakeStatistics" =>
       \A k \in StakeRow : \A v \in Report!StakeStatus : Asked(s, k, v, Report!StakeStatus)
  /\ report = "getWalletStatistics" =>
       \A w \in WalletRow : \A v \in Report!Joined : Asked(s, w, v, Logins)

\* A query, by its parts.
Shows(q, label, among, statuses) ==
  q.label = label /\ q.among = among /\ q.statuses = statuses /\ q.only = 0

LEMMA QueryShows ==
  /\ \A label, among, statuses :
       Shows(Report!Query(label, among, statuses), label, among, statuses)
  /\ Shows(Report!Loop("referred"), "referred", WalletRow, Report!Joined)
  /\ Report!Loop("referred").loops
BY DEF Report!Query, Report!Loop, Shows

LEMMA Tokens ==
  ASSUME Report!ReportsAssumption
  PROVE  \A r \in RewardRow : r \in Report!In("SOL") \/ r \in Report!In("MMP")
BY DEF Report!ReportsAssumption, Report!In

LEMMA StartWalletReferral ==
  ASSUME Report!ReportsAssumption
  PROVE  LET s == Report!GetWalletReferralStatistics
         IN  /\ Rules("getWalletReferralStatistics", s)
             /\ Complete("getWalletReferralStatistics", s)
<1> DEFINE s == Report!GetWalletReferralStatistics
<1>1. /\ Len(s) = 8
      /\ Shows(s[1], "referrals", WalletRow, Report!Joined)
      /\ Shows(s[2], "paid", Report!In("SOL"), {"paid"})
      /\ Shows(s[3], "paid", Report!In("MMP"), {"paid"})
      /\ Shows(s[4], "paidUSD", RewardRow \cap Report!In("MMP"), {"paid"})
      /\ Shows(s[5], "pending", Report!In("SOL"), {"pending"})
      /\ Shows(s[6], "pending", Report!In("MMP"), {"pending"})
      /\ Shows(s[7], "wait_balance", Report!In("SOL"), {"wait_balance"})
      /\ Shows(s[8], "wait_balance", Report!In("MMP"), {"wait_balance"})
  BY QueryShows
     DEF Report!GetWalletReferralStatistics, Report!Referrals, Report!Paid, Report!Pending,
         Report!Waiting, Report!ByToken, Report!InUSD
<1> HIDE DEF s
<1>2. \A i \in 1..8 : i \in {1, 2, 3, 4, 5, 6, 7, 8}
  OBVIOUS
<1>3. \A i \in 1..Len(s) : s[i].only = 0
  BY <1>1, <1>2 DEF Shows
<1>4. RewardRules("getWalletReferralStatistics", s)
  <2> SUFFICES ASSUME NEW r \in RewardRow
               PROVE  RewardRules("getWalletReferralStatistics", s)!(r)
    BY DEF RewardRules
  <2>1. Follows(s, r, "pending", Report!Open, "wait_balance", Report!Open)
    BY <1>1, <1>2 DEF Follows, Covers, Shows, Report!Open
  <2>2. \A i, j \in 1..Len(s) : \A v \in Wait :
          i <= j /\ Covers(s[i], r, v, Report!Open) => ~Covers(s[j], r, "paid", {"paid"})
    BY <1>1, <1>2 DEF Covers, Shows, Report!Open, Wait
  <2>3. \A i \in 1..Len(s) :
          r \in s[i].among /\ s[i].label \in Report!Open => s[i].statuses = {s[i].label}
    BY <1>1, <1>2 DEF Shows, Report!Open
  <2>4. r \in Report!In("MMP") => Follows(s, r, "paid", {"paid"}, "paid", {"paidUSD"})
    BY <1>1, <1>2 DEF Follows, Covers, Shows
  <2> QED
    BY <2>1, <2>2, <2>3, <2>4
<1>5. \A r \in RewardRow : \A v \in Report!Open : Asked(s, r, v, Report!Open)
  BY <1>1, Tokens DEF Asked, Covers, Shows, Report!Open
<1> QED
  BY <1>3, <1>4, <1>5 DEF s, Rules, Complete, LoopReports

LEMMA StartWalletDetail ==
  ASSUME Report!ReportsAssumption
  PROVE  LET s == Report!GetWalletDetailStatistics
         IN  /\ Rules("getWalletDetailStatistics", s)
             /\ Complete("getWalletDetailStatistics", s)
<1> DEFINE s == Report!GetWalletDetailStatistics
<1>1. /\ Len(s) = 12
      /\ Shows(s[1], "orders", OrderRow, Report!OrderStatus)
      /\ Shows(s[2], "referrals", WalletRow, Report!Joined)
      /\ Shows(s[3], "paid", Report!In("SOL"), {"paid"})
      /\ Shows(s[4], "paid", Report!In("MMP"), {"paid"})
      /\ Shows(s[5], "pending", Report!In("SOL"), {"pending"})
      /\ Shows(s[6], "pending", Report!In("MMP"), {"pending"})
      /\ Shows(s[7], "wait_balance", Report!In("SOL"), {"wait_balance"})
      /\ Shows(s[8], "wait_balance", Report!In("MMP"), {"wait_balance"})
      /\ Shows(s[9], "total", Report!In("SOL"), Report!Open)
      /\ Shows(s[10], "total", Report!In("MMP"), Report!Open)
      /\ Shows(s[11], "paidUSD", RewardRow \cap Report!In("MMP"), {"paid"})
      /\ Shows(s[12], "stakes", StakeRow, Report!StakeStatus)
  BY QueryShows
     DEF Report!GetWalletDetailStatistics, Report!Referrals, Report!Paid, Report!Pending,
         Report!Waiting, Report!Total, Report!ByToken, Report!InUSD
<1> HIDE DEF s
<1>2. \A i \in 1..12 : i \in {1, 2, 3, 4, 5, 6, 7, 8, 9, 10, 11, 12}
  OBVIOUS
<1>3. \A i \in 1..Len(s) : s[i].only = 0
  BY <1>1, <1>2 DEF Shows
<1>4. RewardRules("getWalletDetailStatistics", s)
  <2> SUFFICES ASSUME NEW r \in RewardRow
               PROVE  RewardRules("getWalletDetailStatistics", s)!(r)
    BY DEF RewardRules
  <2>1. Follows(s, r, "pending", Report!Open, "wait_balance", Report!Open)
    BY <1>1, <1>2 DEF Follows, Covers, Shows, Report!Open
  <2>2. \A i, j \in 1..Len(s) : \A v \in Wait :
          i <= j /\ Covers(s[i], r, v, Report!Open) => ~Covers(s[j], r, "paid", {"paid"})
    BY <1>1, <1>2 DEF Covers, Shows, Report!Open, Wait
  <2>3. \A i \in 1..Len(s) :
          r \in s[i].among /\ s[i].label \in Report!Open => s[i].statuses = {s[i].label}
    BY <1>1, <1>2 DEF Shows, Report!Open
  <2>4. r \in Report!In("MMP") => Follows(s, r, "paid", {"paid"}, "paid", {"paidUSD"})
    BY <1>1, <1>2 DEF Follows, Covers, Shows
  <2>5. \A v, u \in Report!Open :
          /\ Follows(s, r, v, Report!Open, u, {"total"})
          /\ Follows(s, r, v, {"total"}, u, {"total"})
    BY <1>1, <1>2, Tokens DEF Follows, Covers, Shows, Report!Open
  <2> QED
    BY <2>1, <2>2, <2>3, <2>4, <2>5
<1>5. \A r \in RewardRow : \A v \in Report!Open : Asked(s, r, v, Report!Open)
  BY <1>1, Tokens DEF Asked, Covers, Shows, Report!Open
<1> QED
  BY <1>3, <1>4, <1>5 DEF s, Rules, Complete, LoopReports, Report!SplitRewards

LEMMA TurnReferredWallet ==
  ASSUME Report!ReportsAssumption, NEW w \in WalletRow
  PROVE  LET s == Report!GetReferredWallet(w)
         IN  /\ Rules("getReferredWallets", s)
             /\ \A r \in Report!From(w) : \A v \in Report!Open : Asked(s, r, v, Report!Open)
             /\ \A i \in 1..Len(s) : s[i].among \subseteq Report!From(w)
<1> DEFINE s == Report!GetReferredWallet(w)
<1>1. /\ Len(s) = 6
      /\ Shows(s[1], "paid", Report!From(w), {"paid"})
      /\ Shows(s[2], "paidUSD", Report!From(w) \cap Report!In("MMP"), {"paid"})
      /\ Shows(s[3], "pending", Report!From(w), {"pending"})
      /\ Shows(s[4], "pendingUSD", Report!From(w) \cap Report!In("MMP"), {"pending"})
      /\ Shows(s[5], "wait_balance", Report!From(w), {"wait_balance"})
      /\ Shows(s[6], "wait_balanceUSD", Report!From(w) \cap Report!In("MMP"),
               {"wait_balance"})
  BY QueryShows DEF Report!GetReferredWallet, Report!InUSD
<1> HIDE DEF s
<1>2. \A i \in 1..6 : i \in {1, 2, 3, 4, 5, 6}
  OBVIOUS
<1>3. \A i \in 1..Len(s) : s[i].only = 0
  BY <1>1, <1>2 DEF Shows
<1>4. RewardRules("getReferredWallets", s)
  <2> SUFFICES ASSUME NEW r \in RewardRow
               PROVE  RewardRules("getReferredWallets", s)!(r)
    BY DEF RewardRules
  <2>1. Follows(s, r, "pending", Report!Open, "wait_balance", Report!Open)
    BY <1>1, <1>2 DEF Follows, Covers, Shows, Report!Open
  <2>2. \A i, j \in 1..Len(s) : \A v \in Wait :
          i <= j /\ Covers(s[i], r, v, Report!Open) => ~Covers(s[j], r, "paid", {"paid"})
    BY <1>1, <1>2 DEF Covers, Shows, Report!Open, Wait
  <2>3. \A i \in 1..Len(s) :
          r \in s[i].among /\ s[i].label \in Report!Open => s[i].statuses = {s[i].label}
    BY <1>1, <1>2 DEF Shows, Report!Open
  <2>4. r \in Report!In("MMP") => Follows(s, r, "paid", {"paid"}, "paid", {"paidUSD"})
    BY <1>1, <1>2 DEF Follows, Covers, Shows
  <2> QED
    BY <2>1, <2>2, <2>3, <2>4
<1>5. \A r \in Report!From(w) : \A v \in Report!Open : Asked(s, r, v, Report!Open)
  BY <1>1 DEF Asked, Covers, Shows, Report!Open
<1>6. \A i \in 1..Len(s) : s[i].among \subseteq Report!From(w)
  BY <1>1, <1>2 DEF Shows
<1> QED
  BY <1>3, <1>4, <1>5, <1>6 DEF s, Rules, Report!SplitRewards

LEMMA TurnOwnReferredWallet ==
  ASSUME Report!ReportsAssumption, NEW w \in WalletRow
  PROVE  LET s == Report!GetOwnReferredWallet(w)
         IN  /\ Rules("getOwnReferralStatistics", s)
             /\ \A r \in Report!From(w) : \A v \in Report!Open : Asked(s, r, v, Report!Open)
             /\ \A i \in 1..Len(s) : s[i].among \subseteq Report!From(w)
<1> DEFINE s == Report!GetOwnReferredWallet(w)
<1>1. /\ Len(s) = 3
      /\ Shows(s[1], "paid", Report!From(w), {"paid"})
      /\ Shows(s[2], "pending", Report!From(w), {"pending"})
      /\ Shows(s[3], "wait_balance", Report!From(w), {"wait_balance"})
  BY QueryShows DEF Report!GetOwnReferredWallet
<1> HIDE DEF s
<1>2. \A i \in 1..3 : i \in {1, 2, 3}
  OBVIOUS
<1>3. \A i \in 1..Len(s) : s[i].only = 0
  BY <1>1, <1>2 DEF Shows
<1>4. RewardRules("getOwnReferralStatistics", s)
  <2> SUFFICES ASSUME NEW r \in RewardRow
               PROVE  RewardRules("getOwnReferralStatistics", s)!(r)
    BY DEF RewardRules
  <2>1. Follows(s, r, "pending", Report!Open, "wait_balance", Report!Open)
    BY <1>1, <1>2 DEF Follows, Covers, Shows, Report!Open
  <2>2. \A i, j \in 1..Len(s) : \A v \in Wait :
          i <= j /\ Covers(s[i], r, v, Report!Open) => ~Covers(s[j], r, "paid", {"paid"})
    BY <1>1, <1>2 DEF Covers, Shows, Report!Open, Wait
  <2>3. \A i \in 1..Len(s) :
          r \in s[i].among /\ s[i].label \in Report!Open => s[i].statuses = {s[i].label}
    BY <1>1, <1>2 DEF Shows, Report!Open
  <2> QED
    BY <2>1, <2>2, <2>3
<1>5. \A r \in Report!From(w) : \A v \in Report!Open : Asked(s, r, v, Report!Open)
  BY <1>1 DEF Asked, Covers, Shows, Report!Open
<1>6. \A i \in 1..Len(s) : s[i].among \subseteq Report!From(w)
  BY <1>1, <1>2 DEF Shows
<1> QED
  BY <1>3, <1>4, <1>5, <1>6 DEF s, Rules, Report!SplitRewards

LEMMA StartReferredWallets ==
  ASSUME Report!ReportsAssumption
  PROVE  LET s == Report!GetReferredWallets
         IN  Rules("getReferredWallets", s) /\ Complete("getReferredWallets", s)
<1> DEFINE s == Report!GetReferredWallets
<1>1. /\ Len(s) = 1
      /\ Shows(s[1], "referred", WalletRow, Report!Joined)
      /\ s[1].loops
  BY QueryShows DEF Report!GetReferredWallets
<1> HIDE DEF s
<1>2. \A i \in 1..1 : i \in {1}
  OBVIOUS
<1>3. \A i \in 1..Len(s) : s[i].only = 0
  BY <1>1, <1>2 DEF Shows
<1>4. RewardRules("getReferredWallets", s)
  <2> SUFFICES ASSUME NEW r \in RewardRow
               PROVE  RewardRules("getReferredWallets", s)!(r)
    BY DEF RewardRules
  <2>1. Follows(s, r, "pending", Report!Open, "wait_balance", Report!Open)
    BY <1>1, <1>2 DEF Follows, Covers, Shows, Report!Open
  <2>2. \A i, j \in 1..Len(s) : \A v \in Wait :
          i <= j /\ Covers(s[i], r, v, Report!Open) => ~Covers(s[j], r, "paid", {"paid"})
    BY <1>1, <1>2 DEF Covers, Shows, Report!Open, Wait
  <2>3. \A i \in 1..Len(s) :
          r \in s[i].among /\ s[i].label \in Report!Open => s[i].statuses = {s[i].label}
    BY <1>1, <1>2 DEF Shows, Report!Open
  <2>4. r \in Report!In("MMP") => Follows(s, r, "paid", {"paid"}, "paid", {"paidUSD"})
    BY <1>1, <1>2 DEF Follows, Covers, Shows
  <2> QED
    BY <2>1, <2>2, <2>3, <2>4
<1>5. \E i \in 1..Len(s) : s[i].loops
  BY <1>1
<1>6. \A i \in 1..Len(s) : s[i].among \cap RewardRow = {}
  BY <1>1, <1>2 DEF Shows, Report!ReportsAssumption
<1> QED
  BY <1>3, <1>4, <1>5, <1>6 DEF s, Rules, Complete, LoopReports, Report!SplitRewards

LEMMA StartOwnReferral ==
  ASSUME Report!ReportsAssumption
  PROVE  LET s == Report!GetOwnReferralStatistics
         IN  Rules("getOwnReferralStatistics", s) /\ Complete("getOwnReferralStatistics", s)
<1> DEFINE s == Report!GetOwnReferralStatistics
<1>1. /\ Len(s) = 2
      /\ Shows(s[1], "referrals", WalletRow, Report!Joined)
      /\ Shows(s[2], "referred", WalletRow, Report!Joined)
      /\ s[2].loops
  BY QueryShows DEF Report!GetOwnReferralStatistics, Report!Referrals
<1> HIDE DEF s
<1>2. \A i \in 1..2 : i \in {1, 2}
  OBVIOUS
<1>3. \A i \in 1..Len(s) : s[i].only = 0
  BY <1>1, <1>2 DEF Shows
<1>4. RewardRules("getOwnReferralStatistics", s)
  <2> SUFFICES ASSUME NEW r \in RewardRow
               PROVE  RewardRules("getOwnReferralStatistics", s)!(r)
    BY DEF RewardRules
  <2>1. Follows(s, r, "pending", Report!Open, "wait_balance", Report!Open)
    BY <1>1, <1>2 DEF Follows, Covers, Shows, Report!Open
  <2>2. \A i, j \in 1..Len(s) : \A v \in Wait :
          i <= j /\ Covers(s[i], r, v, Report!Open) => ~Covers(s[j], r, "paid", {"paid"})
    BY <1>1, <1>2 DEF Covers, Shows, Report!Open, Wait
  <2>3. \A i \in 1..Len(s) :
          r \in s[i].among /\ s[i].label \in Report!Open => s[i].statuses = {s[i].label}
    BY <1>1, <1>2 DEF Shows, Report!Open
  <2> QED
    BY <2>1, <2>2, <2>3
<1>5. \E i \in 1..Len(s) : s[i].loops
  BY <1>1
<1>6. \A i \in 1..Len(s) : s[i].among \cap RewardRow = {}
  BY <1>1, <1>2 DEF Shows, Report!ReportsAssumption
<1> QED
  BY <1>3, <1>4, <1>5, <1>6 DEF s, Rules, Complete, LoopReports, Report!SplitRewards

LEMMA StartSwap ==
  ASSUME Report!ReportsAssumption
  PROVE  LET s == Report!GetSwapStatistics
         IN  Rules("getSwapStatistics", s) /\ Complete("getSwapStatistics", s)
<1> DEFINE s == Report!GetSwapStatistics
<1>1. /\ Len(s) = 5
      /\ Shows(s[1], "orders", OrderRow, Report!OrderStatus)
      /\ Shows(s[2], "pending", OrderRow, {"pending"})
      /\ Shows(s[3], "completed", OrderRow, {"completed"})
      /\ Shows(s[4], "failed", OrderRow, {"failed"})
      /\ Shows(s[5], "received", OrderRow, {"completed"})
  BY QueryShows DEF Report!GetSwapStatistics
<1> HIDE DEF s
<1>2. \A i \in 1..5 : i \in {1, 2, 3, 4, 5}
  OBVIOUS
<1>3. \A i \in 1..Len(s) : s[i].only = 0
  BY <1>1, <1>2 DEF Shows
<1>4. OrderRules(s)
  BY <1>1, <1>2 DEF OrderRules, Follows, Covers, Shows, Report!OrderStatus
<1>5. \A o \in OrderRow : \A v \in Report!OrderStatus : Asked(s, o, v, Report!OrderStatus)
  BY <1>1 DEF Asked, Covers, Shows, Report!OrderStatus
<1> QED
  BY <1>3, <1>4, <1>5 DEF s, Rules, Complete, LoopReports, Report!SplitRewards

LEMMA StartStakes ==
  ASSUME Report!ReportsAssumption
  PROVE  LET s == Report!GetStakeStatistics
         IN  Rules("getStakeStatistics", s) /\ Complete("getStakeStatistics", s)
<1> DEFINE s == Report!GetStakeStatistics
<1>1. /\ Len(s) = 6
      /\ Shows(s[1], "stakes", StakeRow, Report!StakeStatus)
      /\ Shows(s[2], "active", StakeRow, {"active"})
      /\ Shows(s[3], "completed", StakeRow, {"completed"})
      /\ Shows(s[4], "cancelled", StakeRow, {"cancelled"})
      /\ Shows(s[5], "staked", StakeRow, Report!StakeStatus)
      /\ Shows(s[6], "staking", StakeRow, {"active"})
  BY QueryShows DEF Report!GetStakeStatistics
<1> HIDE DEF s
<1>2. \A i \in 1..6 : i \in {1, 2, 3, 4, 5, 6}
  OBVIOUS
<1>3. \A i \in 1..Len(s) : s[i].only = 0
  BY <1>1, <1>2 DEF Shows
<1>4. StakeRules(s)
  BY <1>1, <1>2 DEF StakeRules, Follows, Covers, Shows, Report!StakeStatus
<1>5. \A k \in StakeRow : \A v \in Report!StakeStatus : Asked(s, k, v, Report!StakeStatus)
  BY <1>1 DEF Asked, Covers, Shows, Report!StakeStatus
<1> QED
  BY <1>3, <1>4, <1>5 DEF s, Rules, Complete, LoopReports, Report!SplitRewards

LEMMA StartWallets ==
  ASSUME Report!ReportsAssumption
  PROVE  LET s == Report!GetWalletStatistics
         IN  Rules("getWalletStatistics", s) /\ Complete("getWalletStatistics", s)
<1> DEFINE s == Report!GetWalletStatistics
<1>1. /\ Len(s) = 4
      /\ Shows(s[1], "wallets", WalletRow, Report!Joined)
      /\ Shows(s[2], "telegram", WalletRow, {"telegram", "both"})
      /\ Shows(s[3], "google", WalletRow, {"google", "both"})
      /\ Shows(s[4], "phantom", WalletRow, {"phantom"})
  BY QueryShows DEF Report!GetWalletStatistics
<1> HIDE DEF s
<1>2. \A i \in 1..4 : i \in {1, 2, 3, 4}
  OBVIOUS
<1>3. \A i \in 1..Len(s) : s[i].only = 0
  BY <1>1, <1>2 DEF Shows
<1>4. WalletRules(s)
  BY <1>1, <1>2 DEF WalletRules, Follows, Covers, Shows, Logins
<1>5. \A w \in WalletRow : \A v \in Report!Joined : Asked(s, w, v, Logins)
  BY <1>1 DEF Asked, Covers, Shows, Report!Joined, Logins
<1> QED
  BY <1>3, <1>4, <1>5 DEF s, Rules, Complete, LoopReports, Report!SplitRewards

\* A report begins with queries in order.
LEMMA StartRules ==
  ASSUME Report!ReportsAssumption, NEW report \in Report!Names
  PROVE  /\ Rules(report, Report!QueriesOf(report))
         /\ Complete(report, Report!QueriesOf(report))
<1>1. CASE report = "getWalletReferralStatistics"
  BY <1>1, StartWalletReferral DEF Report!QueriesOf
<1>2. CASE report = "getWalletDetailStatistics"
  BY <1>2, StartWalletDetail DEF Report!QueriesOf
<1>3. CASE report = "getReferredWallets"
  BY <1>3, StartReferredWallets DEF Report!QueriesOf
<1>4. CASE report = "getOwnReferralStatistics"
  BY <1>4, StartOwnReferral DEF Report!QueriesOf
<1>5. CASE report = "getSwapStatistics"
  BY <1>5, StartSwap DEF Report!QueriesOf
<1>6. CASE report = "getStakeStatistics"
  BY <1>6, StartStakes DEF Report!QueriesOf
<1>7. CASE report = "getWalletStatistics"
  BY <1>7, StartWallets DEF Report!QueriesOf
<1>8. CASE report \notin Observable
  BY <1>8 DEF Rules, Complete, Observable, Report!SplitRewards, LoopReports
<1> QED
  BY <1>1, <1>2, <1>3, <1>4, <1>5, <1>6, <1>7, <1>8 DEF Observable, Report!SplitRewards

\* So does each turn of its loop.
LEMMA TurnRules ==
  ASSUME Report!ReportsAssumption, NEW report \in LoopReports, NEW w \in WalletRow
  PROVE  LET s == Report!QueriesFor(report, w)
         IN  /\ Rules(report, s)
             /\ \A r \in Report!From(w) : \A v \in Report!Open : Asked(s, r, v, Report!Open)
             /\ \A i \in 1..Len(s) : s[i].among \subseteq Report!From(w)
<1>1. CASE report = "getReferredWallets"
  BY <1>1, TurnReferredWallet DEF Report!QueriesFor
<1>2. CASE report = "getOwnReferralStatistics"
  BY <1>2, TurnOwnReferredWallet DEF Report!QueriesFor
<1> QED
  BY <1>1, <1>2 DEF LoopReports

-----------------------------------------------------------------------------
(* What is not shown yet is still to be asked for.                         *)

Seen(r, l) == <<l, r>> \in shown

\* A wallet that the loop has still to visit has shown none of its rewards, and
\* the queries that are to come before its turn ask for none of them.
TurnsInv ==
  \A r \in RewardRow :
    /\ \A i \in 1..Len(todo) : r \in todo[i].among => FromOf[r] \notin turns /\ ~Looping
    /\ FromOf[r] \in turns \/ Looping => \A l \in Titles : ~Seen(r, l)

\* Of a reward that is shown, what the rest of the report may show of it.
SplitInv(r) ==
  /\ Seen(r, "paid") => rowStatus[r] = "paid"
  /\ \A l \in Report!Open : Seen(r, l) => rowStatus[r] \in Report!Open \cup {"failed"}
  /\ \A l \in Wait : Seen(r, l) => ~Seen(r, "paid") /\ ~Asked(todo, r, "paid", {"paid"})

SumsInv(r) ==
  /\ r \in Report!In("MMP") /\ scope.report # "getOwnReferralStatistics"
     /\ Seen(r, "paid") =>
       Seen(r, "paidUSD") \/ Asked(todo, r, "paid", {"paidUSD"})
  /\ scope.report = "getWalletDetailStatistics" => \A l \in Report!Open : Seen(r, l) =>
       \/ Seen(r, "total")
       \/ rowStatus[r] = "failed"
       \/ Asked(todo, r, rowStatus[r], {"total"})

\* A reward that was known and is not shown is still to be asked for.
MissedInv(r) ==
  r \in known =>
    \/ \E l \in Report!Open : Seen(r, l)
    \/ rowStatus[r] = "failed"
    \/ \E v \in Report!Open : <<r, v, "paid">> \in moves
    \/ Asked(todo, r, rowStatus[r], Report!Open)
    \/ FromOf[r] \in turns
    \/ Looping

CountsInv ==
  /\ scope.report = "getSwapStatistics" => \A o \in known \cap OrderRow :
       \/ \E l \in Report!OrderStatus : Seen(o, l)
       \/ <<o, "failed", "completed">> \in moves
       \/ Asked(todo, o, rowStatus[o], Report!OrderStatus)
  /\ scope.report = "getStakeStatistics" => \A k \in known \cap StakeRow :
       (\E l \in Report!StakeStatus : Seen(k, l))
       \/ Asked(todo, k, rowStatus[k], Report!StakeStatus)
  /\ scope.report = "getWalletStatistics" => \A w \in known \cap WalletRow :
       (\E l \in Logins : Seen(w, l)) \/ Asked(todo, w, rowStatus[w], Logins)

ReportInv ==
  scope.report \in Observable =>
    /\ Rules(scope.report, todo)
    /\ TurnsInv
    /\ scope.report \in Report!SplitRewards =>
         \A r \in RewardRow : SplitInv(r) /\ SumsInv(r) /\ MissedInv(r)
    /\ CountsInv

\* A row that is there is in a status of its table.
LEMMA StatusOf ==
  ASSUME Report!ReportsAssumption, ReportTypeInv, NEW r \in Report!Row,
         rowStatus[r] # "none"
  PROVE  /\ r \in RewardRow => rowStatus[r] \in Report!Open \cup {"failed"}
         /\ r \in OrderRow => rowStatus[r] \in Report!OrderStatus
         /\ r \in StakeRow => rowStatus[r] \in Report!StakeStatus
         /\ r \in WalletRow => rowStatus[r] \in Report!Joined
<1>1. PICK m \in Report!MovesOf(r) : rowStatus[r] = m[2]
  BY DEF ReportTypeInv
<1>2. \A n \in Report!RewardMoves : n[2] \in Report!Open \cup {"failed"}
  BY DEF Report!RewardMoves, Report!Open
<1>3. \A n \in Report!OrderMoves : n[2] \in Report!OrderStatus
  BY DEF Report!OrderMoves, Report!OrderStatus
<1>4. \A n \in Report!StakeMoves : n[2] \in Report!StakeStatus
  BY DEF Report!StakeMoves, Report!StakeStatus
<1>5. \A n \in Report!WalletMoves : n[2] \in Report!Joined
  BY DEF Report!WalletMoves, Report!Joined
<1> QED
  BY <1>1, <1>2, <1>3, <1>4, <1>5, RowMoves

\* What a query does, in a report of which nothing is skipped.
Answers(q, r) == r \in q.among /\ rowStatus[r] \in q.statuses

IsAsk ==
  /\ IsRest(todo', todo)
  /\ todo[1] \in QueryType
  /\ \A r \in Report!Row : \A l \in Titles :
       Seen(r, l)' <=> Seen(r, l) \/ (l = todo[1].label /\ Answers(todo[1], r))
  /\ ~todo[1].loops => turns' = turns
  /\ todo[1].loops
       => Looping /\ ~Looping' /\ turns' = {w \in WalletRow : rowStatus[w] # "none"}
  /\ ~todo[1].loops => (Looping' <=> Looping)
  /\ UNCHANGED <<scope, rowStatus, begun, known, moves>>

LEMMA AskSteps ==
  ASSUME Report!ReportsAssumption, ReportTypeInv, Report!Ask, scope.report \in Observable,
         Rules(scope.report, todo)
  PROVE  IsAsk
<1> DEFINE q == Head(todo)
           found == {r \in q.among : rowStatus[r] \in q.statuses}
           skipped == IF found = {} THEN q.only ELSE 0
<1>1. /\ todo # <<>>
      /\ shown' = shown \cup ({q.label} \X found)
      /\ todo' = SubSeq(todo, 2 + skipped, Len(todo))
      /\ turns' = IF q.loops THEN found ELSE turns
      /\ UNCHANGED <<scope, rowStatus, begun, known, moves>>
  BY DEF Report!Ask
<1>2. q = todo[1] /\ 1 \in 1..Len(todo) /\ q \in QueryType /\ todo \in Seq(QueryType)
  BY <1>1, Found DEF ReportTypeInv
<1>3. skipped = 0
  BY <1>2 DEF Rules
<1>4. IsRest(todo', todo)
  <2>1. todo' = SubSeq(todo, 2, Len(todo))
    BY <1>1, <1>3
  <2> QED
    BY <1>1, <1>2, <2>1, RestIsRest
<1>5. /\ Len(todo') = Len(todo) - 1
      /\ \A i \in 1..Len(todo') : 1 + i \in 1..Len(todo) /\ todo'[i] = todo[1 + i]
  BY <1>4 DEF IsRest
<1>6. Len(todo) \in Nat /\ Len(todo) >= 1 /\ Len(todo') \in Nat
  BY <1>4 DEF IsRest
<1>7. \A i \in 2..Len(todo) : i - 1 \in 1..Len(todo') /\ todo[i] = todo'[i - 1]
  BY <1>4 DEF IsRest
<1>8. ASSUME NEW r \in Report!Row, NEW l \in Titles
      PROVE  Seen(r, l)' <=> Seen(r, l) \/ (l = todo[1].label /\ Answers(todo[1], r))
  BY <1>1, <1>2 DEF Seen, Answers
<1>9. ASSUME todo[1].loops
      PROVE  Looping /\ ~Looping' /\ turns' = {w \in WalletRow : rowStatus[w] # "none"}
  <2>1. Loops(todo)
    BY DEF ReportTypeInv
  <2>2. /\ Looping
        /\ todo[1].among = WalletRow
        /\ todo[1].statuses = Report!Joined
        /\ Len(todo) = 1
    BY <1>2, <1>9, <2>1 DEF Looping, Loops
  <2>3. Len(todo') = 0
    BY <1>5, <2>2
  <2>4. ~Looping'
    BY <2>3 DEF Looping
  <2>5. \A w \in WalletRow :
          w \in Report!Row /\ (rowStatus[w] \in Report!Joined <=> rowStatus[w] # "none")
    <3>1. "none" \notin Report!Joined
      BY DEF Report!Joined
    <3> QED
      BY <3>1, StatusOf DEF Report!Row
  <2> QED
    BY <1>1, <1>2, <1>9, <2>2, <2>4, <2>5
<1>10. ASSUME ~todo[1].loops PROVE turns' = turns /\ (Looping' <=> Looping)
  <2>1. ASSUME Looping PROVE Looping'
    <3>1. PICK i \in 1..Len(todo) : todo[i].loops
      BY <2>1 DEF Looping
    <3>2. i \in 2..Len(todo)
      BY <1>6, <1>10, <3>1
    <3> QED
      BY <1>7, <3>1, <3>2 DEF Looping
  <2>2. ASSUME Looping' PROVE Looping
    BY <1>5, <2>2 DEF Looping
  <2> QED
    BY <1>1, <1>2, <1>10, <2>1, <2>2
<1> HIDE DEF q
<1> QED
  BY <1>1, <1>2, <1>4, <1>8, <1>9, <1>10 DEF IsAsk

LEMMA AskTurnsInv ==
  ASSUME Report!ReportsAssumption, ReportTypeInv, TurnsInv, IsAsk
  PROVE  TurnsInv'
<1> SUFFICES ASSUME NEW r \in RewardRow PROVE TurnsInv!(r)'
  BY DEF TurnsInv
<1>0. r \in Report!Row /\ FromOf[r] \in WalletRow
  BY DEF Report!ReportsAssumption, Report!Row
<1>1. ASSUME NEW i \in 1..Len(todo'), r \in todo'[i].among
      PROVE  FromOf[r] \notin turns' /\ ~Looping'
  <2>1. 1 + i \in 1..Len(todo) /\ r \in todo[1 + i].among
    BY <1>1 DEF IsAsk, IsRest
  <2>2. FromOf[r] \notin turns /\ ~Looping
    BY <2>1 DEF TurnsInv
  <2> QED
    BY <2>2 DEF IsAsk
<1>2. ASSUME FromOf[r] \in turns' \/ Looping', NEW l \in Titles
      PROVE  ~Seen(r, l)'
  <2>1. FromOf[r] \in turns \/ Looping
    BY <1>2 DEF IsAsk
  <2>2. ~Seen(r, l) /\ 1 \in 1..Len(todo)
    BY <2>1 DEF TurnsInv, IsAsk, IsRest
  <2>3. r \notin todo[1].among
    BY <2>1, <2>2 DEF TurnsInv
  <2> QED
    BY <1>0, <2>2, <2>3 DEF IsAsk, Answers
<1> QED
  BY <1>1, <1>2

\* What was still to be asked for is shown or still to be asked for.
LEMMA AskedNext ==
  ASSUME IsAsk, NEW r \in Report!Row, NEW labels, labels \subseteq Titles,
         Asked(todo, r, rowStatus[r], labels)
  PROVE  (\E l \in labels : Seen(r, l)') \/ Asked(todo', r, rowStatus[r], labels)
<1>1. CASE Covers(todo[1], r, rowStatus[r], labels)
  BY <1>1 DEF IsAsk, Covers, Answers
<1>2. CASE ~Covers(todo[1], r, rowStatus[r], labels)
  BY <1>2, RestAsked DEF IsAsk
<1> QED
  BY <1>1, <1>2

LEMMA AskRewardInv ==
  ASSUME Report!ReportsAssumption, ReportTypeInv, IsAsk, TurnsInv, NEW r \in RewardRow,
         RewardRules(scope.report, todo), SplitInv(r), SumsInv(r), MissedInv(r)
  PROVE  SplitInv(r)' /\ SumsInv(r)' /\ MissedInv(r)'
<1> DEFINE q == todo[1]
<1>0. /\ r \in Report!Row /\ FromOf[r] \in WalletRow /\ FromOf[r] \in Report!Row
      /\ UNCHANGED <<scope, rowStatus, begun, known, moves>>
      /\ 1 \in 1..Len(todo)
      /\ IsRest(todo', todo)
  BY DEF Report!ReportsAssumption, Report!Row, IsAsk, IsRest
<1>1. /\ Report!Open \subseteq Titles /\ "paidUSD" \in Titles /\ "total" \in Titles
      /\ Wait \subseteq Report!Open /\ "paid" \in Report!Open /\ "paid" \notin Wait
      /\ "paidUSD" \notin Report!Open /\ "total" \notin Report!Open
  BY DEF Report!Open, Titles, Wait
<1>2. \A l \in Titles : Seen(r, l)' <=> Seen(r, l) \/ (l = q.label /\ Answers(q, r))
  BY <1>0 DEF IsAsk
<1>3. q.label \in Report!Open /\ Answers(q, r) => rowStatus[r] = q.label
  BY <1>0 DEF RewardRules, Answers
<1> HIDE DEF q
<1>4. SplitInv(r)'
  <2>1. Seen(r, "paid")' => rowStatus[r] = "paid"
    BY <1>1, <1>2, <1>3 DEF SplitInv
  <2>2. \A l \in Report!Open : Seen(r, l)' => rowStatus[r] \in Report!Open \cup {"failed"}
    BY <1>1, <1>2, <1>3 DEF SplitInv
  <2>3. ASSUME NEW l \in Wait, Seen(r, l)'
        PROVE  ~Seen(r, "paid")' /\ ~Asked(todo', r, "paid", {"paid"})
    <3>1. CASE Seen(r, l)
      <4>1. ~Seen(r, "paid") /\ ~Asked(todo, r, "paid", {"paid"})
        BY <3>1, <2>3 DEF SplitInv
      <4>2. ~Asked(todo', r, "paid", {"paid"}) /\ ~Covers(q, r, "paid", {"paid"})
        BY <4>1, <1>0, RestAsked DEF q
      <4>3. ~(q.label = "paid" /\ Answers(q, r))
        BY <1>1, <1>3, <4>2 DEF Covers, Answers
      <4> QED
        BY <1>1, <1>2, <4>1, <4>2, <4>3
    <3>2. CASE ~Seen(r, l)
      <4>1. l = q.label /\ Answers(q, r) /\ rowStatus[r] = l
        BY <1>1, <1>2, <1>3, <2>3, <3>2
      <4>2. ~Seen(r, "paid")'
        BY <1>1, <2>1, <4>1
      <4>3. Covers(q, r, l, Report!Open)
        BY <1>1, <4>1 DEF Covers, Answers
      <4>4. \A j \in 1..Len(todo) : 1 <= j => ~Covers(todo[j], r, "paid", {"paid"})
        BY <1>0, <4>3 DEF RewardRules, q
      <4>5. ~Asked(todo, r, "paid", {"paid"})
        BY <4>4 DEF Asked
      <4> QED
        BY <1>0, <4>2, <4>5, RestAsked
    <3> QED
      BY <3>1, <3>2
  <2> QED
    BY <1>0, <2>1, <2>2, <2>3 DEF SplitInv
<1>5. SumsInv(r)'
  <2>1. ASSUME r \in Report!In("MMP"), scope.report # "getOwnReferralStatistics",
               Seen(r, "paid")'
        PROVE  Seen(r, "paidUSD")' \/ Asked(todo', r, "paid", {"paidUSD"})
    <3>1. rowStatus[r] = "paid"
      BY <2>1, <1>0, <1>4 DEF SplitInv
    <3>2. Seen(r, "paidUSD") \/ Asked(todo, r, "paid", {"paidUSD"})
      <4>1. CASE Seen(r, "paid")
        BY <2>1, <4>1 DEF SumsInv
      <4>2. CASE ~Seen(r, "paid")
        <5>1. q.label = "paid" /\ Answers(q, r)
          BY <1>1, <1>2, <2>1, <4>2
        <5>2. Asked(todo, r, "paid", {"paid"})
          BY <1>0, <3>1, <5>1 DEF Asked, Covers, Answers, q
        <5> QED
          BY <2>1, <5>2, FollowsAsked DEF RewardRules
      <4> QED
        BY <4>1, <4>2
    <3> QED
      BY <1>0, <1>1, <1>2, <3>1, <3>2, AskedNext
  <2>2. ASSUME scope.report = "getWalletDetailStatistics", NEW l \in Report!Open,
               Seen(r, l)',
               rowStatus[r] # "failed"
        PROVE  Seen(r, "total")' \/ Asked(todo', r, rowStatus[r], {"total"})
    <3>1. Seen(r, "total") \/ Asked(todo, r, rowStatus[r], {"total"})
      <4>1. CASE Seen(r, l)
        BY <2>2, <4>1 DEF SumsInv
      <4>2. CASE ~Seen(r, l)
        <5>1. q.label = l /\ Answers(q, r) /\ rowStatus[r] = l
          BY <1>1, <1>2, <1>3, <2>2, <4>2
        <5>2. Asked(todo, r, l, Report!Open)
          BY <1>0, <5>1 DEF Asked, Covers, Answers, q
        <5>3. Follows(todo, r, l, Report!Open, l, {"total"})
          BY <2>2 DEF RewardRules
        <5> QED
          BY <5>1, <5>2, <5>3, FollowsAsked
      <4> QED
        BY <4>1, <4>2
    <3> QED
      BY <1>0, <1>1, <1>2, <3>1, AskedNext
  <2> QED
    BY <1>0, <2>1, <2>2 DEF SumsInv
<1>6. MissedInv(r)'
  <2> SUFFICES ASSUME r \in known,
                      ~\E l \in Report!Open : Seen(r, l)',
                      rowStatus[r] # "failed",
                      ~\E v \in Report!Open : <<r, v, "paid">> \in moves
               PROVE  \/ Asked(todo', r, rowStatus[r], Report!Open)
                      \/ FromOf[r] \in turns'
                      \/ Looping'
    BY <1>0 DEF MissedInv
  <2>1. ~\E l \in Report!Open : Seen(r, l)
    BY <1>1, <1>2
  <2>2. CASE Asked(todo, r, rowStatus[r], Report!Open)
    BY <1>0, <1>1, <2>2, AskedNext
  <2>3. CASE FromOf[r] \in turns \/ Looping
    <3>1. rowStatus[FromOf[r]] # "none"
      BY DEF ReportTypeInv
    <3> QED
      BY <1>0, <2>3, <3>1 DEF IsAsk
  <2> QED
    BY <2>1, <2>2, <2>3 DEF MissedInv
<1> QED
  BY <1>4, <1>5, <1>6

LEMMA AskCountsInv ==
  ASSUME Report!ReportsAssumption, IsAsk, CountsInv
  PROVE  CountsInv'
<1>1. /\ Report!OrderStatus \subseteq Titles /\ Report!StakeStatus \subseteq Titles
      /\ Logins \subseteq Titles
      /\ OrderRow \subseteq Report!Row
      /\ StakeRow \subseteq Report!Row
      /\ WalletRow \subseteq Report!Row
  BY DEF Report!OrderStatus, Report!StakeStatus, Logins, Titles, Report!Row
<1>2. /\ UNCHANGED <<scope, rowStatus, known, moves>>
      /\ \A r \in Report!Row : \A l \in Titles : Seen(r, l) => Seen(r, l)'
  BY DEF IsAsk
<1>3. ASSUME scope.report = "getSwapStatistics", NEW o \in known \cap OrderRow
      PROVE  \/ \E l \in Report!OrderStatus : Seen(o, l)'
             \/ <<o, "failed", "completed">> \in moves
             \/ Asked(todo', o, rowStatus[o], Report!OrderStatus)
  BY <1>1, <1>2, <1>3, AskedNext DEF CountsInv
<1>4. ASSUME scope.report = "getStakeStatistics", NEW k \in known \cap StakeRow
      PROVE  \/ \E l \in Report!StakeStatus : Seen(k, l)'
             \/ Asked(todo', k, rowStatus[k], Report!StakeStatus)
  BY <1>1, <1>2, <1>4, AskedNext DEF CountsInv
<1>5. ASSUME scope.report = "getWalletStatistics", NEW w \in known \cap WalletRow
      PROVE  (\E l \in Logins : Seen(w, l)') \/ Asked(todo', w, rowStatus[w], Logins)
  BY <1>1, <1>2, <1>5, AskedNext DEF CountsInv
<1> QED
  BY <1>2, <1>3, <1>4, <1>5 DEF CountsInv

LEMMA AskReportInv ==
  ASSUME Report!ReportsAssumption, ReportTypeInv, ReportInv, Report!Ask
  PROVE  ReportInv'
<1>1. scope' = scope
  BY DEF Report!Ask
<1> SUFFICES ASSUME scope.report \in Observable
             PROVE  ReportInv!2'
  BY <1>1 DEF ReportInv
<1>2. Rules(scope.report, todo) /\ TurnsInv /\ CountsInv
  BY DEF ReportInv
<1>3. IsAsk
  BY <1>2, AskSteps
<1>4. Rules(scope.report, todo')
  BY <1>2, <1>3, RestRules DEF IsAsk
<1>5. ASSUME scope.report \in Report!SplitRewards, NEW r \in RewardRow
      PROVE  SplitInv(r)' /\ SumsInv(r)' /\ MissedInv(r)'
  BY <1>2, <1>3, <1>5, AskRewardInv DEF ReportInv, Rules
<1> QED
  BY <1>1, <1>2, <1>3, <1>4, <1>5, AskTurnsInv, AskCountsInv

LEMMA BeginReportInv ==
  ASSUME Report!ReportsAssumption, ReportTypeInv, Report!Begin
  PROVE  ReportInv'
<1>1. /\ begun' = TRUE
      /\ todo' = Report!QueriesOf(scope.report)
      /\ known' = {r \in Report!Row : rowStatus[r] # "none"}
      /\ shown = {} /\ turns = {}
      /\ UNCHANGED <<scope, rowStatus, turns, moves, shown>>
  BY DEF Report!Begin, ReportTypeInv
<1>2. scope.report \in Report!Names
  BY DEF ReportTypeInv, Report!ReportsAssumption
<1>3. Rules(scope.report, todo') /\ Complete(scope.report, todo')
  BY <1>1, <1>2, StartRules
<1>4. Looping' => scope.report \in LoopReports
  BY <1>1, <1>2, PlanTypes DEF Looping
<1>5. \A r, l : ~Seen(r, l)'
  BY <1>1 DEF Seen
<1>6. TurnsInv'
  <2>1. \A r \in RewardRow : \A i \in 1..Len(todo') : r \in todo'[i].among => ~Looping'
    BY <1>3, <1>4 DEF Complete
  <2> QED
    BY <1>1, <1>5, <2>1 DEF TurnsInv
<1>7. ASSUME scope.report \in Report!SplitRewards, NEW r \in RewardRow
      PROVE  SplitInv(r)' /\ SumsInv(r)' /\ MissedInv(r)'
  <2>1. SplitInv(r)' /\ SumsInv(r)'
    BY <1>5 DEF SplitInv, SumsInv
  <2>2. ASSUME r \in known', rowStatus[r] # "failed"
        PROVE  Asked(todo', r, rowStatus[r], Report!Open) \/ Looping'
    <3>1. r \in Report!Row /\ rowStatus[r] \in Report!Open
      BY <1>1, <2>2, StatusOf DEF Report!Row
    <3> QED
      BY <1>3, <1>7, <3>1 DEF Complete, Looping
  <2>3. MissedInv(r)'
    BY <1>1, <2>2 DEF MissedInv
  <2> QED
    BY <2>1, <2>3
<1>8. CountsInv'
  <2>1. ASSUME NEW r \in known'
        PROVE  /\ r \in OrderRow => rowStatus[r] \in Report!OrderStatus
               /\ r \in StakeRow => rowStatus[r] \in Report!StakeStatus
               /\ r \in WalletRow => rowStatus[r] \in Report!Joined
    BY <1>1, <2>1, StatusOf
  <2> QED
    BY <1>1, <1>3, <2>1 DEF CountsInv, Complete
<1> QED
  BY <1>1, <1>3, <1>6, <1>7, <1>8 DEF ReportInv

LEMMA TurnReportInv ==
  ASSUME Report!ReportsAssumption, ReportTypeInv, ReportInv, NEW w \in WalletRow,
         Report!Turn(w)
  PROVE  ReportInv'
<1>1. /\ todo = <<>> /\ w \in turns /\ turns' = turns \ {w}
      /\ todo' = Report!QueriesFor(scope.report, w)
      /\ UNCHANGED <<scope, rowStatus, begun, known, moves, shown>>
  BY DEF Report!Turn
<1> SUFFICES ASSUME scope.report \in Observable
             PROVE  ReportInv!2'
  BY <1>1 DEF ReportInv
<1>2. scope.report \in LoopReports
  BY <1>1 DEF ReportTypeInv
<1>3. /\ Rules(scope.report, todo')
      /\ \A r \in Report!From(w) : \A v \in Report!Open : Asked(todo', r, v, Report!Open)
      /\ \A i \in 1..Len(todo') : todo'[i].among \subseteq Report!From(w)
  BY <1>1, <1>2, TurnRules
<1>4. ~Looping /\ ~Looping' /\ \A r, v, labels : ~Asked(todo, r, v, labels)
  <2>1. \A i \in 1..Len(todo') : ~todo'[i].loops
    BY <1>1, TurnTypes, PlainPlans
  <2>2. Len(todo) = 0
    BY <1>1
  <2> QED
    BY <2>1, <2>2 DEF Looping, Asked
<1>5. \A r, l : Seen(r, l)' <=> Seen(r, l)
  BY <1>1 DEF Seen
<1>6. TurnsInv'
  <2>1. \A r \in Report!From(w) : FromOf[r] = w
    BY DEF Report!From
  <2>2. \A r \in RewardRow : FromOf[r] \in turns => \A l \in Titles : ~Seen(r, l)
    BY DEF ReportInv, TurnsInv
  <2> QED
    BY <1>1, <1>3, <1>4, <1>5, <2>1, <2>2 DEF TurnsInv
<1>7. ASSUME scope.report \in Report!SplitRewards, NEW r \in RewardRow
      PROVE  SplitInv(r)' /\ SumsInv(r)' /\ MissedInv(r)'
  <2>0. SplitInv(r) /\ SumsInv(r) /\ MissedInv(r) /\ TurnsInv
    BY <1>7 DEF ReportInv
  <2>1. CASE r \in Report!From(w)
    <3>1. \A l \in Titles : ~Seen(r, l)
      BY <1>1, <2>0, <2>1 DEF TurnsInv, Report!From
    <3>2. Report!Open \subseteq Titles /\ Wait \subseteq Titles /\ "paid" \in Titles
      BY DEF Report!Open, Wait, Titles
    <3>3. SplitInv(r)' /\ SumsInv(r)'
      BY <1>5, <3>1, <3>2 DEF SplitInv, SumsInv
    <3>4. ASSUME r \in known, rowStatus[r] # "failed"
          PROVE  Asked(todo', r, rowStatus[r], Report!Open)
      <4>1. r \in Report!Row /\ rowStatus[r] # "none"
        BY <3>4 DEF Report!Row, ReportTypeInv
      <4>2. rowStatus[r] \in Report!Open
        BY <3>4, <4>1, StatusOf
      <4> QED
        BY <1>3, <2>1, <4>2
    <3>5. MissedInv(r)'
      BY <1>1, <3>4 DEF MissedInv
    <3> QED
      BY <3>3, <3>5
  <2>2. CASE r \notin Report!From(w)
    <3>1. \A v, labels : ~Asked(todo', r, v, labels)
      BY <1>3, <2>2 DEF Asked, Covers
    <3>2. FromOf[r] # w
      BY <2>2 DEF Report!From
    <3>3. SplitInv(r)'
      BY <1>1, <1>5, <2>0, <3>1 DEF SplitInv
    <3>4. SumsInv(r)'
      BY <1>1, <1>4, <1>5, <2>0, <3>1 DEF SumsInv
    <3>5. MissedInv(r)'
      BY <1>1, <1>4, <1>5, <2>0, <3>2 DEF MissedInv
    <3> QED
      BY <3>3, <3>4, <3>5
  <2> QED
    BY <2>1, <2>2
<1>8. CountsInv'
  BY <1>1, <1>2 DEF CountsInv, LoopReports
<1> QED
  BY <1>1, <1>3, <1>6, <1>7, <1>8

LEMMA MoveRewardInv ==
  ASSUME Report!ReportsAssumption, ReportTypeInv, NEW o \in Report!Row, Report!Move(o),
         NEW r \in RewardRow, RewardRules(scope.report, todo), SplitInv(r), SumsInv(r),
         MissedInv(r)
  PROVE  SplitInv(r)' /\ SumsInv(r)' /\ MissedInv(r)'
<1>0. r \in Report!Row
  BY DEF Report!Row
<1>1. /\ moves \subseteq moves'
      /\ r # o => rowStatus'[r] = rowStatus[r]
      /\ UNCHANGED <<scope, begun, todo, turns, known, shown>>
  BY <1>0, Moved
<1>2. (Looping' <=> Looping) /\ \A l : Seen(r, l)' <=> Seen(r, l)
  BY <1>1 DEF Looping, Seen
<1>3. CASE r # o
  <2>1. SplitInv(r)'
    BY <1>1, <1>2, <1>3 DEF SplitInv
  <2>2. SumsInv(r)'
    BY <1>1, <1>2, <1>3 DEF SumsInv
  <2>3. MissedInv(r)'
    BY <1>1, <1>2, <1>3 DEF MissedInv
  <2> QED
    BY <2>1, <2>2, <2>3
<1>4. CASE r = o
  <2>1. <<rowStatus[r], rowStatus'[r]>> \in Report!RewardMoves
    BY <1>0, <1>4, Moved, RowMoves
  <2>2. /\ rowStatus[r] # "paid" /\ rowStatus[r] # "failed" /\ rowStatus'[r] # "none"
        /\ rowStatus[r] \in Report!Open \cup {"failed"}
             => rowStatus'[r] \in Report!Open \cup {"failed"}
        /\ rowStatus[r] # "none" /\ rowStatus'[r] # "failed" /\ rowStatus'[r] # "paid" =>
             rowStatus[r] = "pending" /\ rowStatus'[r] = "wait_balance"
        /\ rowStatus[r] # "none" => rowStatus[r] \in Report!Open
    BY <2>1 DEF Report!RewardMoves, Report!Open
  <2>3. SplitInv(r)'
    BY <1>1, <1>2, <2>2 DEF SplitInv
  <2>4. SumsInv(r)'
    <3>1. ASSUME scope.report = "getWalletDetailStatistics", NEW l \in Report!Open,
                 Seen(r, l),
                 rowStatus'[r] # "failed", ~Seen(r, "total")
          PROVE  Asked(todo, r, rowStatus'[r], {"total"})
      <4>1. rowStatus[r] \in Report!Open /\ rowStatus'[r] \in Report!Open
        BY <2>2, <3>1 DEF SplitInv
      <4>2. Asked(todo, r, rowStatus[r], {"total"})
        BY <2>2, <3>1 DEF SumsInv
      <4>3. Follows(todo, r, rowStatus[r], {"total"}, rowStatus'[r], {"total"})
        BY <3>1, <4>1 DEF RewardRules
      <4> QED
        BY <4>2, <4>3, FollowsAsked
    <3> QED
      BY <1>1, <1>2, <2>2, <3>1 DEF SumsInv, SplitInv
  <2>5. MissedInv(r)'
    <3>1. ASSUME r \in known, ~\E l \in Report!Open : Seen(r, l), rowStatus'[r] # "failed",
                 ~\E v \in Report!Open : <<r, v, "paid">> \in moves',
                 FromOf[r] \notin turns, ~Looping
          PROVE  Asked(todo, r, rowStatus'[r], Report!Open)
      <4>1. begun /\ rowStatus[r] # "none"
        BY <3>1 DEF ReportTypeInv
      <4>2. <<r, rowStatus[r], rowStatus'[r]>> \in moves'
        BY <1>4, <4>1, Moved
      <4>3. rowStatus[r] = "pending" /\ rowStatus'[r] = "wait_balance"
        BY <2>2, <3>1, <4>1, <4>2
      <4>4. Asked(todo, r, rowStatus[r], Report!Open)
        BY <1>1, <2>2, <3>1 DEF MissedInv
      <4> QED
        BY <4>3, <4>4, FollowsAsked DEF RewardRules
    <3> QED
      BY <1>1, <1>2, <3>1 DEF MissedInv
  <2> QED
    BY <2>3, <2>4, <2>5
<1> QED
  BY <1>3, <1>4

LEMMA MoveCountsInv ==
  ASSUME Report!ReportsAssumption, ReportTypeInv, NEW r \in Report!Row, Report!Move(r),
         Rules(scope.report, todo), CountsInv
  PROVE  CountsInv'
<1>1. /\ moves \subseteq moves'
      /\ \A o \in Report!Row \ {r} : rowStatus'[o] = rowStatus[o]
      /\ <<rowStatus[r], rowStatus'[r]>> \in Report!MovesOf(r)
      /\ UNCHANGED <<scope, begun, todo, turns, known, shown>>
      /\ r \in known => <<r, rowStatus[r], rowStatus'[r]>> \in moves'
  BY Moved DEF ReportTypeInv
<1>2. known \subseteq Report!Row /\ \A o \in known : rowStatus[o] # "none"
  BY DEF ReportTypeInv
<1>3. \A o, l : Seen(o, l)' <=> Seen(o, l)
  BY <1>1 DEF Seen
<1>4. ASSUME scope.report = "getSwapStatistics", NEW o \in known \cap OrderRow,
             ~\E l \in Report!OrderStatus : Seen(o, l),
             <<o, "failed", "completed">> \notin moves'
      PROVE  Asked(todo, o, rowStatus'[o], Report!OrderStatus)
  <2>1. Asked(todo, o, rowStatus[o], Report!OrderStatus)
    BY <1>1, <1>4 DEF CountsInv
  <2>2. CASE o = r
    <3>1. <<rowStatus[o], rowStatus'[o]>> \in Report!OrderMoves
      BY <1>1, <2>2, RowMoves
    <3>2. <<rowStatus[o], rowStatus'[o]>> \in
            {<<"pending", "completed">>, <<"pending", "failed">>, <<"completed", "failed">>}
      BY <1>1, <1>2, <1>4, <2>2, <3>1 DEF Report!OrderMoves
    <3>3. Follows(todo, o, rowStatus[o], Report!OrderStatus, rowStatus'[o],
                  Report!OrderStatus)
      BY <1>4, <3>2 DEF Rules, OrderRules
    <3> QED
      BY <2>1, <3>3, FollowsAsked
  <2>3. CASE o # r
    BY <1>1, <1>2, <2>1, <2>3
  <2> QED
    BY <2>2, <2>3
<1>5. ASSUME scope.report = "getStakeStatistics", NEW k \in known \cap StakeRow,
             ~\E l \in Report!StakeStatus : Seen(k, l)
      PROVE  Asked(todo, k, rowStatus'[k], Report!StakeStatus)
  <2>1. Asked(todo, k, rowStatus[k], Report!StakeStatus)
    BY <1>5 DEF CountsInv
  <2>2. CASE k = r
    <3>1. <<rowStatus[k], rowStatus'[k]>> \in Report!StakeMoves
      BY <1>1, <2>2, RowMoves
    <3>2. rowStatus[k] = "active" /\ rowStatus'[k] = "completed"
      BY <1>2, <3>1 DEF Report!StakeMoves
    <3>3. Follows(todo, k, rowStatus[k], Report!StakeStatus, rowStatus'[k],
                  Report!StakeStatus)
      BY <1>5, <3>2 DEF Rules, StakeRules
    <3> QED
      BY <2>1, <3>3, FollowsAsked
  <2>3. CASE k # r
    BY <1>1, <1>2, <2>1, <2>3
  <2> QED
    BY <2>2, <2>3
<1>6. ASSUME scope.report = "getWalletStatistics", NEW w \in known \cap WalletRow,
             ~\E l \in Logins : Seen(w, l)
      PROVE  Asked(todo, w, rowStatus'[w], Logins)
  <2>1. Asked(todo, w, rowStatus[w], Logins)
    BY <1>6 DEF CountsInv
  <2>2. CASE w = r
    <3>1. <<rowStatus[w], rowStatus'[w]>> \in Report!WalletMoves
      BY <1>1, <2>2, RowMoves
    <3>2. rowStatus[w] = "telegram" /\ rowStatus'[w] = "both"
      BY <1>2, <3>1 DEF Report!WalletMoves
    <3>3. Follows(todo, w, rowStatus[w], Logins, rowStatus'[w], Logins)
      BY <1>6, <3>2 DEF Rules, WalletRules
    <3> QED
      BY <2>1, <3>3, FollowsAsked
  <2>3. CASE w # r
    BY <1>1, <1>2, <2>1, <2>3
  <2> QED
    BY <2>2, <2>3
<1> QED
  BY <1>1, <1>3, <1>4, <1>5, <1>6 DEF CountsInv

LEMMA MoveReportInv ==
  ASSUME Report!ReportsAssumption, ReportTypeInv, ReportInv, NEW r \in Report!Row,
         Report!Move(r)
  PROVE  ReportInv'
<1>1. UNCHANGED <<scope, begun, todo, turns, known, shown>>
  BY Moved
<1> SUFFICES ASSUME scope.report \in Observable
             PROVE  ReportInv!2'
  BY <1>1 DEF ReportInv
<1>2. Rules(scope.report, todo) /\ TurnsInv /\ CountsInv
  BY DEF ReportInv
<1>3. TurnsInv'
  BY <1>1, <1>2 DEF TurnsInv, Looping, Seen
<1>4. ASSUME scope.report \in Report!SplitRewards, NEW o \in RewardRow
      PROVE  SplitInv(o)' /\ SumsInv(o)' /\ MissedInv(o)'
  BY <1>2, <1>4, MoveRewardInv DEF ReportInv, Rules
<1> QED
  BY <1>1, <1>2, <1>3, <1>4, MoveCountsInv

LEMMA InitReportInv ==
  ASSUME Report!Init
  PROVE  ReportInv
<1>1. Len(todo) = 0 /\ turns = {} /\ known = {} /\ shown = {}
  BY DEF Report!Init
<1>2. ~Looping /\ \A r, l : ~Seen(r, l)
  BY <1>1 DEF Looping, Seen
<1>3. Rules(scope.report, todo)
  BY <1>1 DEF Rules, RewardRules, OrderRules, StakeRules, WalletRules, Follows
<1>4. TurnsInv
  BY <1>1, <1>2 DEF TurnsInv
<1>5. \A r \in RewardRow : SplitInv(r) /\ SumsInv(r) /\ MissedInv(r)
  BY <1>1, <1>2 DEF SplitInv, SumsInv, MissedInv
<1>6. CountsInv
  BY <1>1 DEF CountsInv
<1> QED
  BY <1>3, <1>4, <1>5, <1>6 DEF ReportInv

LEMMA NextReportInv ==
  ASSUME Report!ReportsAssumption, ReportTypeInv, ReportInv, [Report!Next]_(Report!vars)
  PROVE  ReportInv'
<1>1. CASE Report!Begin
  BY <1>1, BeginReportInv
<1>2. CASE Report!Ask
  BY <1>2, AskReportInv
<1>3. ASSUME NEW w \in WalletRow, Report!Turn(w) PROVE ReportInv'
  BY <1>3, TurnReportInv
<1>4. ASSUME NEW r \in Report!Row, Report!Move(r) PROVE ReportInv'
  BY <1>4, MoveReportInv
<1>5. CASE UNCHANGED Report!vars
  BY <1>5
     DEF Report!vars, ReportInv, TurnsInv, Looping, Seen, SplitInv, SumsInv, MissedInv,
         CountsInv
<1> QED
  BY <1>1, <1>2, <1>3, <1>4, <1>5 DEF Report!Next

LEMMA ShownLabels ==
  ASSUME NEW r, NEW l
  PROVE  ReportTypeInv => (l \in Report!ShownAs(r) <=> Seen(r, l))
BY DEF ReportTypeInv, Report!ShownAs, Seen

\* However rows move while a report is made, when it is answered it has missed only
\* those that overtook it, and has shown no reward both as paid and as still to be paid.
THEOREM MissedOnlyOvertaken ==
  ASSUME Report!ReportsAssumption
  PROVE  Report!Spec => []OnlyOvertakenRowsAreMissed
<1>1. Report!Init => ReportTypeInv /\ ReportInv
  BY InitReportTypeInv, InitReportInv
<1>2. ReportTypeInv /\ ReportInv /\ [Report!Next]_(Report!vars)
        => ReportTypeInv' /\ ReportInv'
  BY NextReportTypeInv, NextReportInv
<1>3. ReportTypeInv /\ ReportInv => OnlyOvertakenRowsAreMissed
  <2> SUFFICES ASSUME ReportTypeInv, ReportInv, Report!Answered
               PROVE  /\ scope.report \in Report!SplitRewards =>
                           Report!RewardsAreSplit /\ Report!SumsCoverTheSplit
                      /\ Report!CountsAreSplit
    BY DEF OnlyOvertakenRowsAreMissed, Report!OnlyOvertakenRowsAreMissed
  <2>1. \A r, l : l \in Report!ShownAs(r) <=> Seen(r, l)
    BY ShownLabels
  <2>2. turns = {} /\ ~Looping /\ \A r, v, labels : ~Asked(todo, r, v, labels)
    BY DEF Report!Answered, Looping, Asked
  <2>3. ASSUME scope.report \in Report!SplitRewards, NEW r \in RewardRow
        PROVE  SplitInv(r) /\ SumsInv(r) /\ MissedInv(r)
    BY <2>3 DEF ReportInv, Observable
  <2>4. ASSUME scope.report \in Report!SplitRewards PROVE Report!RewardsAreSplit
    <3> SUFFICES ASSUME NEW r \in RewardRow PROVE Report!RewardsAreSplit!(r)
      BY DEF Report!RewardsAreSplit
    <3>1. "paid" \in Report!ShownAs(r)
            => Report!ShownAs(r) \cap {"pending", "wait_balance"} = {}
      BY <2>1, <2>3, <2>4 DEF SplitInv, Wait
    <3>2. ASSUME r \in known, Report!ShownAs(r) \cap Report!Open = {},
                 rowStatus[r] # "failed"
          PROVE  \E s \in Report!Open : <<r, s, "paid">> \in moves
      BY <2>1, <2>2, <2>3, <2>4, <3>2 DEF MissedInv
    <3> QED
      BY <3>1, <3>2
  <2>5. ASSUME scope.report \in Report!SplitRewards PROVE Report!SumsCoverTheSplit
    <3> SUFFICES ASSUME NEW r \in RewardRow PROVE Report!SumsCoverTheSplit!(r)
      BY DEF Report!SumsCoverTheSplit
    <3>1. TokenOf[r] = "MMP" => r \in Report!In("MMP")
      BY DEF Report!In
    <3> QED
      BY <2>1, <2>2, <2>3, <2>5, <3>1 DEF SumsInv
  <2>6. Report!CountsAreSplit
    <3>1. CASE scope.report = "getSwapStatistics"
      BY <2>1, <2>2, <3>1 DEF ReportInv, Observable, CountsInv, Report!CountsAreSplit
    <3>2. CASE scope.report = "getStakeStatistics"
      BY <2>1, <2>2, <3>2 DEF ReportInv, Observable, CountsInv, Report!CountsAreSplit
    <3>3. CASE scope.report = "getWalletStatistics"
      BY <2>1, <2>2, <3>3
         DEF ReportInv, Observable, CountsInv, Report!CountsAreSplit, Logins
    <3> QED
      BY <3>1, <3>2, <3>3 DEF Report!CountsAreSplit
  <2> QED
    BY <2>4, <2>5, <2>6
<1> QED
  BY <1>1, <1>2, <1>3, PTL DEF Report!Spec

-----------------------------------------------------------------------------
(* All of Statistics.                                                      *)

\* Clicks, reports, lists and stored balances at once: every variable keeps its
\* type.
THEOREM StatisticsTypeCorrect ==
  ASSUME StatisticsAssumptions
  PROVE  StatisticsSpec => []StatisticsTypeOK
<1>1. Clicks!TypeOK /\ Report!TypeOK /\ Lists!TypeOK /\ Stored!TypeOK => StatisticsTypeOK
  BY DEF StatisticsTypeOK
<1>2. /\ Clicks!CalendarAssumption /\ Report!ReportsAssumption
      /\ Lists!ListsAssumption /\ Stored!StoredWalletsAssumption
  BY DEF StatisticsAssumptions
<1>3. Clicks!Spec => []Clicks!TypeOK
  BY <1>2, ClickTypeCorrect
<1>4. Report!Spec => []Report!TypeOK
  BY <1>2, ReportTypeCorrect
<1>5. Lists!Spec => []Lists!TypeOK
  BY <1>2, ListTypeCorrect
<1>6. Stored!Spec => []Stored!TypeOK
  BY <1>2, StoredTypeCorrect
<1> QED
  BY <1>1, <1>3, <1>4, <1>5, <1>6, PTL DEF StatisticsSpec
=============================================================================
