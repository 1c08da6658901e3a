----------------------------- MODULE SwapOrders -----------------------------
(***************************************************************************)
(* Swap orders: SwapOrderService (create, initWeb3Wallet,                  *)
(* completeWeb3Wallet), the SOL price cache they share, and the hourly     *)
(* sweep of SwapOrderCronService.                                          *)
(*                                                                         *)
(* The server is one Node process: the code between two awaits is atomic   *)
(* and every await is a point where another request, the sweep or a crash  *)
(* may come in.  One action below is the code from one await to the next.  *)
(* No row is locked and no update is conditional: findOne copies the row   *)
(* into an entity, and save reads the row again, then updates the columns  *)
(* in which entity and row differed, whatever the row is by then.          *)
(*                                                                         *)
(* The ledger (Solana) is external.  A transaction that was sent is        *)
(* confirmed, or is rejected, or lands although the caller is told it did  *)
(* not (a confirmation timeout); the last case needs LostAnswers.  Others  *)
(* use the ledger too, and completeWeb3Wallet takes an order and a         *)
(* signature that the client may combine as it likes.                      *)
(***************************************************************************)
EXTENDS Naturals, FiniteSets

CONSTANTS
  CustodialOrder,  \* orders placed with create: the server signs the payment
  Web3Order,       \* orders placed with initWeb3Wallet: the client signs it
  Call,            \* completeWeb3Wallet requests, retries included
  Elsewhere,       \* transactions that belong to no order
  InputToken,      \* the input_token of each order
  SOL,             \* the token that needs a price
  Shows,           \* the tokens as whose payment a transaction is taken
  LostAnswers,     \* may a landed transaction be reported as failed?
  DbFaults,        \* may repository.save throw?
  SerialClients,   \* does a client wait for an answer before it retries?
  MaxCrashes,      \* bound on the number of restarts of the process
  None             \* a null column

Order == CustodialOrder \cup Web3Order

\* A handler is one running request; create and initWeb3Wallet make one order
\* each, so their handlers carry the name of that order.
Handler == Order \cup Call

\* The transactions a client may name: the payment of an order goes by the
\* name of that order.
Transfer == Order \cup Elsewhere

SolOrder == {o \in Order : InputToken[o] = SOL}

ASSUME OrdersAssumption == /\ CustodialOrder \cap Web3Order = {}
                           /\ Order \cap Call = {}
ASSUME TransferAssumption == Elsewhere \cap Handler = {}
ASSUME NoneAssumption == None \notin Handler \cup Transfer
ASSUME FaultAssumption == /\ LostAnswers \in BOOLEAN
                          /\ DbFaults \in BOOLEAN
                          /\ SerialClients \in BOOLEAN
                          /\ MaxCrashes \in Nat

VARIABLES
  rows,       \* the swap_orders table, by order
  pc,         \* where each handler is suspended
  entity,     \* the in-memory copy of the row each handler works on
  base,       \* the row as the handler's save last read it
  target,     \* dto.orderId of each completeWeb3Wallet call
  signature,  \* dto.signature of the call, from its lookup on
  cache,      \* solPriceCache: null, within its 15 s, or older
  paid,       \* the transfers that are on the ledger
  delivered,  \* handlers whose transfer of output tokens is on the ledger
  rewarded,   \* handlers that called createReferralReward
  aged,       \* orders created more than ORDER_TIMEOUT ago
  sweep,      \* entities the running sweep has still to save
  sweeping,   \* the one it is saving, with the row as that save read it
  crashes     \* restarts so far

vars == <<rows, pc, entity, base, target, signature, cache, paid, delivered,
          rewarded, aged, sweep, sweeping, crashes>>

Status == {"none", "pending", "completed", "failed"}

\* The columns the handlers write.  mmp_received and mpb_received are written
\* in the same stretch as the two hashes and are not kept apart from them.
Row == [status       : Status,
        tx_hash_send : Transfer \cup {None},
        tx_hash_ref  : Handler \cup {None}]

NoRow      == [status |-> "none", tx_hash_send |-> None, tx_hash_ref |-> None]
PendingRow == [NoRow EXCEPT !.status = "pending"]

\* (seeded fault) the sweep and the catch write a status the enum lacks
FailedExpired(row) == [row EXCEPT !.status = "expired"]

Failed(row) == [row EXCEPT !.status = "failed"]

OrderOf(h) == IF h \in Order THEN h ELSE target[h]

\* What the handler stores as the payment: create the transaction it sent,
\* completeWeb3Wallet the signature it was given.
Payment(h) == IF h \in Order THEN h ELSE signature[h]

\* The entity after the output tokens were sent by handler h.
CompletedRow(h) == [status |-> "completed", tx_hash_send |-> Payment(h),
                    tx_hash_ref |-> h]

Resting == {"idle", "offered", "done"}
Label   == Resting \cup {"price", "insert", "ata", "pay", "build", "lookup",
                         "deliver", "complete", "completeUpdate", "reward",
                         "catch", "catchUpdate"}

SweepEntry   == [order : Order, row : Row]
SweepingEntry == [order : Order, row : Row, base : Row]

Init ==
  /\ rows = [o \in Order |-> NoRow]
  /\ pc = [h \in Handler |-> "idle"]
  /\ entity = [h \in Handler |-> NoRow]
  /\ base = [h \in Handler |-> NoRow]
  /\ target = [c \in Call |-> None]
  /\ signature = [c \in Call |-> None]
  /\ cache = "null"
  /\ paid = {}
  /\ delivered = {}
  /\ rewarded = {}
  /\ aged = {}
  /\ sweep = {}
  /\ sweeping = {}
  /\ crashes = 0

-----------------------------------------------------------------------------
(* Steps the handlers share.                                               *)

Goto(h, label) == pc' = [pc EXCEPT ![h] = label]

\* calculateUSDValue: a stablecoin is worth its amount and never touches the
\* cache; SOL needs a price, and a failed fetch falls back on an old one.
CalculateUSDValue(h, next) ==
  \/ /\ OrderOf(h) \notin SolOrder
     /\ Goto(h, next)
     /\ UNCHANGED cache
  \/ /\ OrderOf(h) \in SolOrder
     /\ \/ /\ cache' = "valid"          \* cached, or fetched and cached
           /\ Goto(h, next)
        \/ /\ cache = "stale"           \* the fetch failed
           /\ UNCHANGED cache
           /\ Goto(h, next)
        \/ /\ cache = "null"            \* the fetch failed with no fallback
           /\ UNCHANGED cache
           /\ Goto(h, "done")

\* (seeded fault) a transfer that throws is logged and taken for sent
SendOutputTokensSwallowed(h, failure) ==
  /\ delivered' \in {delivered, delivered \cup {h}}
  /\ entity' = [entity EXCEPT ![h] = CompletedRow(h)]
  /\ Goto(h, "complete")

\* sendMMP01Tokens and sendMPBTokens: any failed check before the transfer
\* (amount, token accounts, authority balance) throws with nothing sent.
SendOutputTokens(h, failure) ==
  \/ /\ delivered' = delivered \cup {h}
     /\ entity' = [entity EXCEPT ![h] = CompletedRow(h)]
     /\ Goto(h, "complete")
  \/ /\ Goto(h, failure)
     /\ UNCHANGED <<delivered, entity>>
  \/ /\ LostAnswers
     /\ delivered' = delivered \cup {h}
     /\ Goto(h, failure)
     /\ UNCHANGED entity

\* TypeORM's save of a row that exists is a SELECT and then an UPDATE of the
\* columns in which the entity differs from what the SELECT returned.
Updated(row, new, old) ==
  [status       |-> IF new.status # old.status
                      THEN new.status ELSE row.status,
   tx_hash_send |-> IF new.tx_hash_send # old.tx_hash_send
                      THEN new.tx_hash_send ELSE row.tx_hash_send,
   tx_hash_ref  |-> IF new.tx_hash_ref # old.tx_hash_ref
                      THEN new.tx_hash_ref ELSE row.tx_hash_ref]

\* A save that throws has written nothing, wherever it failed.
SaveSelect(h, success, failure) ==
  \/ /\ base' = [base EXCEPT ![h] = rows[OrderOf(h)]]
     /\ Goto(h, success)
  \/ /\ DbFaults
     /\ Goto(h, failure)
     /\ UNCHANGED base

\* The row that was read is forgotten with the UPDATE.
SaveUpdate(h, next) ==
  /\ rows' = [rows EXCEPT ![OrderOf(h)] =
                Updated(rows[OrderOf(h)], entity[h], base[h])]
  /\ base' = [base EXCEPT ![h] = NoRow]
  /\ Goto(h, next)

\* save of a new entity is one INSERT.
SaveInsert(h, success) ==
  /\ entity' = [entity EXCEPT ![h] = PendingRow]
  /\ \/ /\ rows' = [rows EXCEPT ![h] = PendingRow]
        /\ Goto(h, success)
     \/ /\ DbFaults
        /\ Goto(h, "done")
        /\ UNCHANGED rows

\* createReferralReward is called without await, but its argument
\* solPriceCache.price is evaluated first and throws while the cache is null.
RequestReward(h, failure) ==
  \/ /\ cache # "null"
     /\ rewarded' = rewarded \cup {h}
     /\ Goto(h, "done")
  \/ /\ cache = "null"
     /\ Goto(h, failure)
     /\ UNCHANGED rewarded

-----------------------------------------------------------------------------
(* create: the custodial swap.                                             *)

\* The input, keypair and balance checks; any of them ends the request.
CreateValidate(o) ==
  /\ o \in CustodialOrder
  /\ pc[o] = "idle"
  /\ Goto(o, "price") \/ Goto(o, "done")
  /\ UNCHANGED <<rows, entity, base, target, signature, cache, paid,
                 delivered, rewarded, aged, sweep, sweeping, crashes>>

CreatePrice(o) ==
  /\ o \in CustodialOrder
  /\ pc[o] = "price"
  /\ CalculateUSDValue(o, "insert")
  /\ UNCHANGED <<rows, entity, base, target, signature, paid, delivered,
                 rewarded, aged, sweep, sweeping, crashes>>

CreateInsert(o) ==
  /\ o \in CustodialOrder
  /\ pc[o] = "insert"
  /\ SaveInsert(o, "ata")
  /\ UNCHANGED <<base, target, signature, cache, paid, delivered, rewarded,
                 aged, sweep, sweeping, crashes>>

\* The user's token account is found or created.  A failure is outside the
\* inner try: the request ends and the row stays PENDING.
CreateTokenAccount(o) ==
  /\ o \in CustodialOrder
  /\ pc[o] = "ata"
  /\ Goto(o, "pay") \/ Goto(o, "done")
  /\ UNCHANGED <<rows, entity, base, target, signature, cache, paid,
                 delivered, rewarded, aged, sweep, sweeping, crashes>>

\* (seeded fault) the tokens are sent whether or not the payment went through
CreatePayUnconfirmed(o) ==
  /\ o \in CustodialOrder
  /\ pc[o] = "pay"
  /\ paid' \in {paid, paid \cup {o}}
  /\ Goto(o, "deliver")
  /\ UNCHANGED <<rows, entity, base, target, signature, cache, delivered,
                 rewarded, aged, sweep, sweeping, crashes>>

CreatePay(o) ==
  /\ o \in CustodialOrder
  /\ pc[o] = "pay"
  /\ \/ /\ paid' = paid \cup {o}
        /\ Goto(o, "deliver")
     \/ /\ Goto(o, "catch")
        /\ UNCHANGED paid
     \/ /\ LostAnswers
        /\ paid' = paid \cup {o}
        /\ Goto(o, "catch")
  /\ UNCHANGED <<rows, entity, base, target, signature, cache, delivered,
                 rewarded, aged, sweep, sweeping, crashes>>

CreateDeliver(o) ==
  /\ o \in CustodialOrder
  /\ pc[o] = "deliver"
  /\ SendOutputTokens(o, "catch")
  /\ UNCHANGED <<rows, base, target, signature, cache, paid, rewarded, aged,
                 sweep, sweeping, crashes>>

\* (seeded fault) an error of the save is logged and the reward goes out
CreateCompleteSwallowed(o) ==
  /\ o \in CustodialOrder
  /\ pc[o] = "complete"
  /\ SaveSelect(o, "completeUpdate", "reward")
  /\ UNCHANGED <<rows, entity, target, signature, cache, paid, delivered,
                 rewarded, aged, sweep, sweeping, crashes>>

\* (seeded fault) the entity is set COMPLETED and never saved
CreateCompleteForgotten(o) ==
  /\ o \in CustodialOrder
  /\ pc[o] = "complete"
  /\ Goto(o, "reward")
  /\ UNCHANGED <<rows, entity, base, target, signature, cache, paid,
                 delivered, rewarded, aged, sweep, sweeping, crashes>>

CreateComplete(o) ==
  /\ o \in CustodialOrder
  /\ pc[o] = "complete"
  /\ SaveSelect(o, "completeUpdate", "catch")
  /\ UNCHANGED <<rows, entity, target, signature, cache, paid, delivered,
                 rewarded, aged, sweep, sweeping, crashes>>

CreateCompleteUpdate(o) ==
  /\ o \in CustodialOrder
  /\ pc[o] = "completeUpdate"
  /\ SaveUpdate(o, "reward")
  /\ UNCHANGED <<entity, target, signature, cache, paid, delivered,
                 rewarded, aged, sweep, sweeping, crashes>>

CreateReward(o) ==
  /\ o \in CustodialOrder
  /\ pc[o] = "reward"
  /\ RequestReward(o, "catch")
  /\ UNCHANGED <<rows, entity, base, target, signature, cache, paid,
                 delivered, aged, sweep, sweeping, crashes>>

\* The inner catch: the entity, with whatever hashes it got, is saved FAILED.
CreateCatch(o) ==
  /\ o \in CustodialOrder
  /\ pc[o] = "catch"
  /\ entity' = [entity EXCEPT ![o] = Failed(entity[o])]
  /\ SaveSelect(o, "catchUpdate", "done")
  /\ UNCHANGED <<rows, target, signature, cache, paid, delivered, rewarded,
                 aged, sweep, sweeping, crashes>>

\* (seeded fault) the catch clears the hashes of the order
CreateCatchUpdateBlank(o) ==
  /\ o \in CustodialOrder
  /\ pc[o] = "catchUpdate"
  /\ rows' = [rows EXCEPT ![o] = Failed(PendingRow)]
  /\ Goto(o, "done")
  /\ UNCHANGED <<entity, base, target, signature, cache, paid, delivered,
                 rewarded, aged, sweep, sweeping, crashes>>

CreateCatchUpdate(o) ==
  /\ o \in CustodialOrder
  /\ pc[o] = "catchUpdate"
  /\ SaveUpdate(o, "done")
  /\ UNCHANGED <<entity, target, signature, cache, paid, delivered,
                 rewarded, aged, sweep, sweeping, crashes>>

-----------------------------------------------------------------------------
(* initWeb3Wallet, and the client that pays with the transaction it got.   *)

InitValidate(o) ==
  /\ o \in Web3Order
  /\ pc[o] = "idle"
  /\ Goto(o, "price") \/ Goto(o, "done")
  /\ UNCHANGED <<rows, entity, base, target, signature, cache, paid,
                 delivered, rewarded, aged, sweep, sweeping, crashes>>

InitPrice(o) ==
  /\ o \in Web3Order
  /\ pc[o] = "price"
  /\ CalculateUSDValue(o, "insert")
  /\ UNCHANGED <<rows, entity, base, target, signature, paid, delivered,
                 rewarded, aged, sweep, sweeping, crashes>>

InitInsert(o) ==
  /\ o \in Web3Order
  /\ pc[o] = "insert"
  /\ SaveInsert(o, "build")
  /\ UNCHANGED <<base, target, signature, cache, paid, delivered, rewarded,
                 aged, sweep, sweeping, crashes>>

\* The unsigned payment is built and returned with the order's id; a failure
\* ends the request and the row stays PENDING.
InitBuild(o) ==
  /\ o \in Web3Order
  /\ pc[o] = "build"
  /\ Goto(o, "offered") \/ Goto(o, "done")
  /\ UNCHANGED <<rows, entity, base, target, signature, cache, paid,
                 delivered, rewarded, aged, sweep, sweeping, crashes>>

\* The client signs and sends the payment it was offered; the transaction is
\* fixed, so it lands at most once.
ClientPay(o) ==
  /\ o \in Web3Order
  /\ pc[o] = "offered"
  /\ o \notin paid
  /\ paid' = paid \cup {o}
  /\ UNCHANGED <<rows, pc, entity, base, target, signature, cache, delivered,
                 rewarded, aged, sweep, sweeping, crashes>>

\* Somebody sends a transaction that is no order's payment.
OtherPays(t) ==
  /\ t \in Elsewhere \ paid
  /\ paid' = paid \cup {t}
  /\ UNCHANGED <<rows, pc, entity, base, target, signature, cache, delivered,
                 rewarded, aged, sweep, sweeping, crashes>>

-----------------------------------------------------------------------------
(* completeWeb3Wallet: the client reports a signature as that of its       *)
(* payment.                                                                *)

\* A client that waits has the answer of the order's own request and of its
\* earlier calls before it asks again.
Asks(c, o) ==
  /\ pc[c] = "idle"
  /\ SerialClients => /\ pc[o] \in Resting
                      /\ \A d \in Call : target[d] = o => pc[d] = "done"
  /\ target' = [target EXCEPT ![c] = o]

\* (seeded fault) no status check
CompleteLoadUnchecked(c, o) ==
  /\ Asks(c, o)
  /\ rows[o].status # "none"
  /\ entity' = [entity EXCEPT ![c] = rows[o]]
  /\ Goto(c, "lookup")
  /\ UNCHANGED <<rows, base, signature, cache, paid, delivered, rewarded,
                 aged, sweep, sweeping, crashes>>

\* findOne and the status check, of any order: a custodial one, or one its own
\* handler is still at work on, is as good as one that was offered.  A request
\* for an order that is not there or not PENDING is refused and changes nothing.
CompleteLoad(c, o) ==
  /\ Asks(c, o)
  /\ rows[o].status = "pending"
  /\ entity' = [entity EXCEPT ![c] = rows[o]]
  /\ Goto(c, "lookup")
  /\ UNCHANGED <<rows, base, signature, cache, paid, delivered, rewarded,
                 aged, sweep, sweeping, crashes>>

\* The transactions the checks let pass for an order: one that transfers some of
\* the mint of its token, from and to whomever, and for SOL also one in which the
\* balance of DESTINATION_WALLET changed.  Neither the amount nor the payer is
\* compared with the order's, and no other use of the signature is looked for.
Accepted(o) == {t \in Transfer : InputToken[o] \in Shows[t]}

\* (seeded fault) a transaction that is not found passes like one that is
CompleteLookupUnchecked(c) ==
  /\ pc[c] = "lookup"
  /\ \/ \E t \in Accepted(target[c]) :
          /\ signature' = [signature EXCEPT ![c] = t]
          /\ Goto(c, "price")
     \/ /\ Goto(c, "done")
        /\ UNCHANGED signature
  /\ UNCHANGED <<rows, entity, base, target, cache, paid, delivered, rewarded,
                 aged, sweep, sweeping, crashes>>

\* getTransaction of dto.signature, retried while it finds nothing, and the
\* checks of what it finds.  The client may have named any transaction; it can
\* be given up although it lands later.
CompleteLookup(c) ==
  /\ pc[c] = "lookup"
  /\ \/ \E t \in paid \cap Accepted(target[c]) :
          /\ signature' = [signature EXCEPT ![c] = t]
          /\ Goto(c, "price")
     \/ /\ Goto(c, "done")
        /\ UNCHANGED signature
  /\ UNCHANGED <<rows, entity, base, target, cache, paid, delivered, rewarded,
                 aged, sweep, sweeping, crashes>>

CompletePrice(c) ==
  /\ c \in Call
  /\ pc[c] = "price"
  /\ CalculateUSDValue(c, "deliver")
  /\ UNCHANGED <<rows, entity, base, target, signature, paid, delivered,
                 rewarded, aged, sweep, sweeping, crashes>>

CompleteDeliver(c) ==
  /\ c \in Call
  /\ pc[c] = "deliver"
  /\ SendOutputTokens(c, "done")
  /\ UNCHANGED <<rows, base, target, signature, cache, paid, rewarded, aged,
                 sweep, sweeping, crashes>>

CompleteSave(c) ==
  /\ c \in Call
  /\ pc[c] = "complete"
  /\ SaveSelect(c, "completeUpdate", "done")
  /\ UNCHANGED <<rows, entity, target, signature, cache, paid, delivered,
                 rewarded, aged, sweep, sweeping, crashes>>

CompleteUpdate(c) ==
  /\ c \in Call
  /\ pc[c] = "completeUpdate"
  /\ SaveUpdate(c, "reward")
  /\ UNCHANGED <<entity, target, signature, cache, paid, delivered,
                 rewarded, aged, sweep, sweeping, crashes>>

CompleteReward(c) ==
  /\ c \in Call
  /\ pc[c] = "reward"
  /\ RequestReward(c, "done")
  /\ UNCHANGED <<rows, entity, base, target, signature, cache, paid,
                 delivered, aged, sweep, sweeping, crashes>>

-----------------------------------------------------------------------------
(* SwapOrderCronService.handleExpiredOrders, time and restarts.            *)

\* (seeded fault) the comparison with the threshold is the wrong way round
ExpiredFresh == {o \in Order \ aged : rows[o].status = "pending"}

Expired == {o \in aged : rows[o].status = "pending"}

\* find: the sweep takes a copy of every expired PENDING order.
SweepStart ==
  /\ sweep = {} /\ sweeping = {}
  /\ Expired # {}
  /\ sweep' = {[order |-> o, row |-> rows[o]] : o \in Expired}
  /\ UNCHANGED <<rows, pc, entity, base, target, signature, cache, paid,
                 delivered, rewarded, aged, sweeping, crashes>>

\* One iteration: the copy, made FAILED, is saved over the row of now.
SweepSelect(e) ==
  /\ sweeping = {}
  /\ sweep' = sweep \ {e}
  /\ sweeping' = {[order |-> e.order,
                   row   |-> Failed(e.row),
                   base  |-> rows[e.order]]}
  /\ UNCHANGED <<rows, pc, entity, base, target, signature, cache, paid,
                 delivered, rewarded, aged, crashes>>

SweepUpdate(s) ==
  /\ rows' = [rows EXCEPT ![s.order] = Updated(rows[s.order], s.row, s.base)]
  /\ sweeping' = {}
  /\ UNCHANGED <<pc, entity, base, target, signature, cache, paid, delivered,
                 rewarded, aged, sweep, crashes>>

\* An error ends the sweep; what is left waits for the next hour.
SweepAbort ==
  /\ DbFaults
  /\ sweep \cup sweeping # {}
  /\ sweep' = {}
  /\ sweeping' = {}
  /\ UNCHANGED <<rows, pc, entity, base, target, signature, cache, paid,
                 delivered, rewarded, aged, crashes>>

\* An order becomes older than ORDER_TIMEOUT.
OrderAges(o) ==
  /\ o \notin aged
  /\ rows[o].status # "none"
  /\ aged' = aged \cup {o}
  /\ UNCHANGED <<rows, pc, entity, base, target, signature, cache, paid,
                 delivered, rewarded, sweep, sweeping, crashes>>

\* (seeded fault) an expired price is dropped
CacheExpiresCleared ==
  /\ cache = "valid"
  /\ cache' = "null"
  /\ UNCHANGED <<rows, pc, entity, base, target, signature, paid, delivered,
                 rewarded, aged, sweep, sweeping, crashes>>

\* The cached price becomes older than CACHE_DURATION.
CacheExpires ==
  /\ cache = "valid"
  /\ cache' = "stale"
  /\ UNCHANGED <<rows, pc, entity, base, target, signature, paid, delivered,
                 rewarded, aged, sweep, sweeping, crashes>>

\* getSolPriceUSD for someone else (the price endpoint, a withdrawal) fetches a
\* price and caches it.
PriceFetched ==
  /\ cache # "valid"
  /\ cache' = "valid"
  /\ UNCHANGED <<rows, pc, entity, base, target, signature, paid, delivered,
                 rewarded, aged, sweep, sweeping, crashes>>

\* The process restarts: requests, sweep and cache are gone, the table and the
\* ledger stay.
Crash ==
  /\ crashes < MaxCrashes
  /\ crashes' = crashes + 1
  /\ pc' = [h \in Handler |-> IF pc[h] \in Resting THEN pc[h] ELSE "done"]
  /\ base' = [h \in Handler |-> NoRow]
  /\ cache' = "null"
  /\ sweep' = {}
  /\ sweeping' = {}
  /\ UNCHANGED <<rows, entity, target, signature, paid, delivered,
                 rewarded, aged>>

-----------------------------------------------------------------------------
Create(o) ==
  \/ CreateValidate(o) \/ CreatePrice(o) \/ CreateInsert(o)
  \/ CreateTokenAccount(o) \/ CreatePay(o) \/ CreateDeliver(o)
  \/ CreateComplete(o) \/ CreateCompleteUpdate(o) \/ CreateReward(o)
  \/ CreateCatch(o) \/ CreateCatchUpdate(o)

InitWeb3(o) ==
  InitValidate(o) \/ InitPrice(o) \/ InitInsert(o) \/ InitBuild(o)

CompleteWeb3(c) ==
  \/ CompleteLookup(c) \/ CompletePrice(c) \/ CompleteDeliver(c)
  \/ CompleteSave(c) \/ CompleteUpdate(c) \/ CompleteReward(c)

Next ==
  \/ \E o \in Order : Create(o) \/ InitWeb3(o) \/ ClientPay(o) \/ OrderAges(o)
  \/ \E t \in Elsewhere : OtherPays(t)
  \/ \E c \in Call : CompleteWeb3(c) \/ \E o \in Order : CompleteLoad(c, o)
  \/ SweepStart
  \/ \E e \in sweep : SweepSelect(e)
  \/ \E s \in sweeping : SweepUpdate(s)
  \/ SweepAbort
  \/ CacheExpires
  \/ PriceFetched
  \/ Crash

Spec == Init /\ [][Next]_vars

\* Node keeps running the handlers it has started, the cron timer fires again
\* and again, time passes, and the database does not fail for ever.
Fairness ==
  /\ \A o \in Order : /\ WF_vars(pc[o] # "idle" /\ (Create(o) \/ InitWeb3(o)))
                      /\ WF_vars(OrderAges(o))
  /\ \A c \in Call : WF_vars(CompleteWeb3(c))
  /\ WF_vars(SweepStart)
  /\ SF_vars(\E e \in sweep : SweepSelect(e))
  /\ SF_vars(\E s \in sweeping : SweepUpdate(s))

FairSpec == Spec /\ Fairness

-----------------------------------------------------------------------------
(* Properties.                                                             *)

\* Every variable has its type.
TypeOK ==
  /\ rows \in [Order -> Row]
  /\ pc \in [Handler -> Label]
  /\ entity \in [Handler -> Row]
  /\ base \in [Handler -> Row]
  /\ target \in [Call -> Order \cup {None}]
  /\ signature \in [Call -> Transfer \cup {None}]
  /\ cache \in {"null", "valid", "stale"}
  /\ paid \subseteq Transfer
  /\ delivered \subseteq Handler
  /\ rewarded \subseteq Handler
  /\ aged \subseteq Order
  /\ sweep \subseteq SweepEntry
  /\ sweeping \subseteq SweepingEntry
  /\ crashes \in 0..MaxCrashes

\* Output tokens leave the treasury only against a transfer that is on the
\* ledger already: in create the order's own payment, in completeWeb3Wallet the
\* transaction that was named, and then one that passes for the order's token.
\* No interleaving of calls, restarts and lost answers lets sendMMP01Tokens run
\* ahead of it.  It need not be the order's payment, nor serve one order only.
DeliveredAgainstTransfer ==
  \A h \in delivered :
    /\ Payment(h) \in paid
    /\ h \in Call => signature[h] \in Accepted(target[h])

\* A completeWeb3Wallet call has delivered a custodial order.  Then that call
\* and create write the same row.
Contested(o) ==
  o \in CustodialOrder /\ \E c \in Call \cap delivered : target[c] = o

\* Every hash in a row is that of a transaction on the ledger, and a handler
\* that delivered this very order put it there: tx_hash_send is the payment it
\* went by, tx_hash_ref the transfer it made.  A completed row carries both,
\* although several handlers and the sweep update it column by column from
\* copies that may be out of date, unless create and a call write the same row.
HashesAreReal ==
  \A o \in Order :
    /\ rows[o].tx_hash_send # None =>
         /\ rows[o].tx_hash_send \in paid
         /\ \E h \in delivered : /\ OrderOf(h) = o
                                 /\ rows[o].tx_hash_send = Payment(h)
    /\ rows[o].tx_hash_ref # None => /\ rows[o].tx_hash_ref \in delivered
                                     /\ OrderOf(rows[o].tx_hash_ref) = o
    /\ (rows[o].status = "completed" /\ ~Contested(o)) =>
         rows[o].tx_hash_send # None /\ rows[o].tx_hash_ref # None

\* A handler that was given a SOL price runs with a price in the cache until it
\* ends, because a restart clears both: the null dereference at the reward call
\* is out of reach of orders paid in SOL.
PricedInSolHasCache ==
  \A h \in Handler :
    (OrderOf(h) \in SolOrder /\ pc[h] \notin Resting \cup {"price", "lookup"})
      => cache # "null"

\* A reward is requested only by a handler that delivered and whose order it
\* had recorded completed with its own hashes; if the row says anything else
\* now, a later save said it: of the sweep, of another handler that delivered
\* the order, or of the create handler that failed to.
RewardFollowsCompletion ==
  \A h \in rewarded :
    /\ h \in delivered
    /\ entity[h] = CompletedRow(h)
    /\ rows[OrderOf(h)] # CompletedRow(h) =>
         \/ OrderOf(h) \in aged
         \/ \E g \in delivered \ {h} : OrderOf(g) = OrderOf(h)
         \/ entity[OrderOf(h)].status = "failed"

NoFaults == ~LostAnswers /\ ~DbFaults /\ MaxCrashes = 0

\* When clients wait for an answer before they ask again and nothing fails
\* under the server, the PENDING check at the head of completeWeb3Wallet is
\* enough: one order never costs the treasury two transfers, sweep or no sweep,
\* whatever transactions are named.
SerialClientsServedOnce ==
  (NoFaults /\ SerialClients) =>
    \A g, h \in delivered : OrderOf(g) = OrderOf(h) => g = h

\* Without faults a SOL order that is younger than the order timeout cannot
\* end up anything but completed once its tokens have left and its handlers
\* have returned; a custodial one if no call races its create.
DeliveredMeansCompleted ==
  NoFaults =>
    \A h \in delivered :
      (/\ pc[h] = "done"
       /\ OrderOf(h) \in SolOrder \ aged
       /\ SerialClients \/ OrderOf(h) \in Web3Order)
        => rows[OrderOf(h)].status = "completed"

\* A completed row is final but for three writers: the sweep, saving the copy
\* it took while the row was PENDING; the create handler that finds the price
\* cache null after it completed the order; and, if a completeWeb3Wallet call
\* delivered the order, another handler of it, which leaves it completed unless
\* it is a create handler that failed.
CompletedRowStays ==
  [][\A o \in Order :
       (rows[o].status = "completed" /\ rows'[o] # rows[o]) =>
         \/ \E s \in sweeping : s.order = o
         \/ /\ o \in CustodialOrder \ SolOrder
            /\ rows'[o] = Failed(rows[o])
         \/ /\ \E c \in Call \cap delivered : target[c] = o
            /\ \/ rows'[o].status = "completed"
               \/ o \in CustodialOrder /\ pc[o] = "catchUpdate"]_vars

\* Once an order has left PENDING it never comes back to it, so the status check
\* of completeWeb3Wallet and the query of the sweep only ever lose candidates.
NeverPendingAgain ==
  [][\A o \in Order : rows'[o].status = "pending"
       => rows[o].status \in {"none", "pending"}]_vars

\* Every PENDING order is eventually decided: by its handler, or by the sweep,
\* which comes back after crashes and failed saves.
PendingIsDecided ==
  \A o \in Order : rows[o].status = "pending" ~> rows[o].status # "pending"

\* The handlers, the sweep and the ledger together implement SwapContract.
Contract == INSTANCE SwapContract
              WITH Counts <- [o \in Order |-> {o} \cup Accepted(o)],
                   status <- [o \in Order |-> rows[o].status],
                   served <- {OrderOf(h) : h \in delivered}
ContractSpec == Contract!Spec
=============================================================================
