--------------------------- MODULE StoredWallets ---------------------------
(***************************************************************************)
(* The row of one wallet in the wallets table, which two services load,    *)
(* change and save: findOne, which reads the balances of the wallet from   *)
(* the chain one after the other and stores them, and updateWalletType of  *)
(* the administrators.                                                     *)
(*                                                                         *)
(* A balance stands for the moment at which it was read, the height of the *)
(* chain.  A save is a SELECT and an UPDATE of the columns that differ;    *)
(* the balances a findOne has read are numbers and those of a row are      *)
(* strings, so that they always differ.                                    *)
(***************************************************************************)
EXTENDS Naturals, Sequences, FiniteSets

CONSTANTS
  Refresh,    \* calls of findOne
  Choice,     \* calls of updateWalletType
  Coins,      \* the balances, in the order in which they are read
  MaxHeight   \* bound on the time

Handler == Refresh \cup Choice
Coin == {Coins[i] : i \in DOMAIN Coins}
Type == {"normal", "bj"}

StoredWalletsAssumption ==
  /\ Refresh \cap Choice = {}
  /\ Coins \in Seq(Coin) /\ Coins # <<>>
  /\ MaxHeight \in Nat

VARIABLES
  height,   \* of the chain
  row,      \* the row of the wallet
  pc,       \* where each handler is suspended
  unread,   \* the balances each findOne has still to read
  entity,   \* the wallet in the memory of each handler
  base,     \* the row its save selected
  began,    \* the height at which it loaded the wallet
  others,   \* the handlers that saved since
  saver,    \* the refresh that saved last
  chosen,   \* the type that was chosen last
  overtaken \* what a handler saved last that another had overtaken

vars == <<height, row, pc, unread, entity, base, began, others, saver, chosen, overtaken>>

Resting == {"idle", "done"}
Row == [type : Type, balance : [Coin -> 0..MaxHeight]]
NewRow == [type |-> "normal", balance |-> [c \in Coin |-> 0]]

Init ==
  /\ height = 0
  /\ row = NewRow
  /\ pc = [h \in Handler |-> "idle"]
  /\ unread = [r \in Refresh |-> <<>>]
  /\ entity = [h \in Handler |-> NewRow]
  /\ base = [h \in Handler |-> NewRow]
  /\ began = [h \in Handler |-> 0]
  /\ others = [h \in Handler |-> {}]
  /\ saver = {}
  /\ chosen = "normal"
  /\ overtaken = {}

Goto(h, label) == pc' = [pc EXCEPT ![h] = label]

\* The chain goes on; the bound of the model: MaxHeight.
Tick ==
  /\ height < MaxHeight
  /\ height' = height + 1
  /\ UNCHANGED <<row, pc, unread, entity, base, began, others, saver, chosen, overtaken>>

-----------------------------------------------------------------------------
(* The two handlers.                                                       *)

\* The wallet is loaded; a choice is made in memory at once.
Load(h) ==
  /\ pc[h] = "idle"
  /\ began' = [began EXCEPT ![h] = height]
  /\ others' = [others EXCEPT ![h] = {}]
  /\ IF h \in Refresh
       THEN /\ entity' = [entity EXCEPT ![h] = row]
            /\ unread' = [unread EXCEPT ![h] = Coins]
            /\ Goto(h, "read")
       ELSE /\ \E t \in Type : entity' = [entity EXCEPT ![h] = [row EXCEPT !.type = t]]
            /\ Goto(h, "select")
            /\ UNCHANGED unread
  /\ UNCHANGED <<height, row, base, saver, chosen, overtaken>>

\* A balance is read, into the entity.
Read(r) ==
  /\ pc[r] = "read"
  /\ entity' = [entity EXCEPT ![r].balance[Head(unread[r])] = height]
  /\ unread' = [unread EXCEPT ![r] = Tail(@)]
  /\ Goto(r, IF Tail(unread[r]) = <<>> THEN "select" ELSE "read")
  /\ UNCHANGED <<height, row, base, began, others, saver, chosen, overtaken>>

\* (seeded fault) what was read before the failure is saved
ReadFailsSaves(r) ==
  /\ pc[r] = "read"
  /\ Goto(r, "select")
  /\ UNCHANGED <<height, row, unread, entity, base, began, others, saver, chosen, overtaken>>

\* It is not, and the wallet is answered without being saved.
ReadFails(r) ==
  /\ pc[r] = "read"
  /\ Goto(r, "done")
  /\ UNCHANGED <<height, row, unread, entity, base, began, others, saver, chosen, overtaken>>

SaveSelect(h) ==
  /\ pc[h] = "select"
  /\ base' = [base EXCEPT ![h] = row]
  /\ Goto(h, "update")
  /\ UNCHANGED <<height, row, unread, entity, began, others, saver, chosen, overtaken>>

Updated(h) ==
  [type    |-> IF entity[h].type # base[h].type THEN entity[h].type ELSE row.type,
   balance |-> [c \in Coin |->
                  IF h \in Refresh \/ entity[h].balance[c] # base[h].balance[c]
                    THEN entity[h].balance[c]
                    ELSE row.balance[c]]]

SaveUpdate(h) ==
  /\ pc[h] = "update"
  /\ row' = Updated(h)
  /\ others' = [g \in Handler |-> others[g] \cup {h}]
  /\ saver' = IF h \in Refresh THEN {h} ELSE saver
  /\ chosen' = IF h \in Choice THEN entity[h].type ELSE chosen
  /\ overtaken' =
       (overtaken \ (IF h \in Refresh THEN {"balance"} ELSE {"type"}))
         \cup {c \in {"balance"} : h \in Choice /\ others[h] \cap Refresh # {}}
         \cup {c \in {"type"} : others[h] \cap (IF h \in Choice THEN Handler ELSE Choice) # {}}
  /\ Goto(h, "done")
  /\ UNCHANGED <<height, unread, entity, base, began>>

\* A query of the database fails, and the request with it.
QueryFails(h) ==
  /\ pc[h] \in {"select", "update"}
  /\ Goto(h, "done")
  /\ UNCHANGED <<height, row, unread, entity, base, began, others, saver, chosen, overtaken>>

FindOne(r) == Load(r) \/ Read(r) \/ ReadFails(r) \/ SaveSelect(r) \/ SaveUpdate(r) \/ QueryFails(r)

UpdateWalletType(h) == Load(h) \/ SaveSelect(h) \/ SaveUpdate(h) \/ QueryFails(h)

Next ==
  \/ Tick
  \/ \E r \in Refresh : FindOne(r)
  \/ \E h \in Choice : UpdateWalletType(h)

Spec == Init /\ [][Next]_vars

-----------------------------------------------------------------------------
(* Properties.                                                             *)

\* Every variable has its type.
TypeOK ==
  /\ height \in 0..MaxHeight
  /\ row \in Row
  /\ pc \in [Handler -> Resting \cup {"read", "select", "update"}]
  /\ unread \in [Refresh -> Seq(Coin)]
  /\ entity \in [Handler -> Row]
  /\ base \in [Handler -> Row]
  /\ began \in [Handler -> 0..MaxHeight]
  /\ others \in [Handler -> SUBSET Handler]
  /\ saver \subseteq Refresh
  /\ chosen \in Type
  /\ overtaken \subseteq {"balance", "type"}

\* Stored balances are those of one refresh, read after it began, although
\* reads fail half way and refreshes overlap; and the stored type is the one
\* that was chosen last.  Only a save of a handler that had loaded the row
\* before another saved may undo either.
StoredWalletIsRecent ==
  /\ "balance" \notin overtaken =>
       \A r \in saver, c \in Coin : row.balance[c] >= began[r]
  /\ "type" \notin overtaken => row.type = chosen
=============================================================================
