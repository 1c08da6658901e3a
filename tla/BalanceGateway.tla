--------------------------- MODULE BalanceGateway ---------------------------
(***************************************************************************)
(* WalletBalanceGateway: websocket clients subscribe to the balance of a   *)
(* wallet; the gateway tells them the balance, registers listeners on the  *)
(* ledger for the first subscriber of a wallet, and tells every subscriber *)
(* the balance again when a listener is called.  Subscriptions, callbacks  *)
(* and disconnections interleave at every await.                           *)
(*                                                                         *)
(* A balance is the number of its changes.  Listeners are external: the    *)
(* library numbers them from FirstListener on and calls them from the      *)
(* moment they are registered; a call of the remove functions is final.    *)
(* waitForLatestSlot only delays a callback.                               *)
(***************************************************************************)
EXTENDS Integers, FiniteSets

CONSTANTS
  Client, Wallet, None,
  Subscribe,          \* the calls of handleSubscribeBalance
  ClientOf, WalletOf, \* who calls and about which wallet
  TokenAccounts,      \* the number of token accounts of each wallet
  FirstListener,      \* the number the library gives its first listener
  MaxChanges,         \* bound on the changes of a balance
  Environments        \* what may happen in a behaviour: one of these, throughout

CallsAssumption == /\ ClientOf \in [Subscribe -> Client]
                   /\ WalletOf \in [Subscribe -> Wallet]
                   /\ TokenAccounts \in [Wallet -> Nat]
NumbersAssumption == FirstListener \in Nat /\ MaxChanges \in Nat /\ None \notin Nat
EnvironmentsAssumption ==
  Environments \subseteq
    [requests  : SUBSET Subscribe,  \* those that may be made
     serial    : BOOLEAN,  \* does nothing start while a call or callback is under way?
     rpcFaults : BOOLEAN]  \* may an RPC call fail?

VARIABLES
  env,          \* the environment of the behaviour
  gone,         \* clients that have disconnected
  subscribedWallets, logSubscriptions, tokenAccountSubscriptions, \* the three maps
  listeners,    \* the listeners the library calls
  nextListener, \* the number of the next one
  pc,           \* where each call is suspended
  seen,         \* the balance each call has read
  callbacks,    \* callbacks under way, with the balance they have read, or None
  balance,      \* each wallet on the ledger
  told          \* the balance of each wallet that each client was told last

maps   == <<subscribedWallets, logSubscriptions, tokenAccountSubscriptions>>
moving == <<gone, maps, listeners, nextListener, pc, seen, callbacks, balance, told>>
vars   == <<env, moving>>

\* What a listener listens to: the wallet's logs or one of its token accounts.
Logs == 0
Accounts(w) == 1..TokenAccounts[w]

Init ==
  /\ env \in Environments
  /\ gone = {}
  /\ subscribedWallets = [w \in Wallet |-> {}]  \* empty when the map has no entry
  /\ logSubscriptions = [w \in Wallet |-> None]
  /\ tokenAccountSubscriptions = [w \in Wallet |-> None]
  /\ listeners = {}
  /\ nextListener = FirstListener
  /\ pc = [k \in Subscribe |-> "idle"]
  /\ seen = [k \in Subscribe |-> None]
  /\ callbacks = {}
  /\ balance = [w \in Wallet |-> 0]
  /\ told = [c \in Client |-> [w \in Wallet |-> None]]

Goto(k, label) == pc' = [pc EXCEPT ![k] = label]

Underway == \/ \E k \in Subscribe : pc[k] \notin {"idle", "done", "failed"}
            \/ callbacks # {}

\* socket.emit to those of the clients that are connected.
Tell(clients, w, b) ==
  told' = [c \in Client |-> IF c \in clients \ gone THEN [told[c] EXCEPT ![w] = b]
                                                    ELSE told[c]]

-----------------------------------------------------------------------------
(* handleSubscribeBalance.                                                 *)

\* The client is a subscriber from the start, also if what follows fails.
SubscribeStart(k) ==
  /\ k \in env.requests
  /\ pc[k] = "idle"
  /\ ClientOf[k] \notin gone
  /\ env.serial => ~Underway
  /\ subscribedWallets' = [subscribedWallets EXCEPT ![WalletOf[k]] = @ \cup {ClientOf[k]}]
  /\ Goto(k, "read")
  /\ UNCHANGED <<gone, logSubscriptions, tokenAccountSubscriptions, listeners,
                 nextListener, seen, callbacks, balance, told>>

\* getTokenBalances reads the ledger, and its answer is on the way.
SubscribeRead(k) ==
  /\ pc[k] = "read"
  /\ \/ Goto(k, "reply") /\ seen' = [seen EXCEPT ![k] = balance[WalletOf[k]]]
     \/ env.rpcFaults /\ Goto(k, "failed") /\ UNCHANGED seen
  /\ UNCHANGED <<gone, maps, listeners, nextListener, callbacks, balance, told>>

\* The client is told; a wallet without an entry gets its log listener.
SubscribeReply(k) ==
  LET w == WalletOf[k]
  IN  /\ pc[k] = "reply"
      /\ Tell({ClientOf[k]}, w, seen[k])
      /\ IF logSubscriptions[w] # None
           THEN Goto(k, "done") /\ UNCHANGED <<logSubscriptions, listeners, nextListener>>
           ELSE /\ listeners' = listeners \cup {[id |-> nextListener, wallet |-> w, on |-> Logs]}
                /\ logSubscriptions' = [logSubscriptions EXCEPT ![w] = nextListener]
                /\ nextListener' = nextListener + 1
                /\ Goto(k, "accounts")
      /\ UNCHANGED <<gone, subscribedWallets, tokenAccountSubscriptions, seen, callbacks, balance>>

\* (seeded fault) only the first token account is listened to
SubscribeFirstAccount(k) ==
  LET w == WalletOf[k]
  IN  /\ pc[k] = "accounts"
      /\ listeners' = listeners \cup {[id |-> nextListener, wallet |-> w, on |-> 1]}
      /\ tokenAccountSubscriptions' = [tokenAccountSubscriptions EXCEPT ![w] = nextListener]
      /\ nextListener' = nextListener + 1
      /\ Goto(k, "done")
      /\ UNCHANGED <<gone, subscribedWallets, logSubscriptions, seen, callbacks, balance, told>>

\* Each token account gets a listener; the map keeps the last of them.
SubscribeAccounts(k) ==
  LET w == WalletOf[k]
      n == TokenAccounts[w]
  IN  /\ pc[k] = "accounts"
      /\ \/ /\ listeners' = listeners \cup
                 {[id |-> nextListener + a - 1, wallet |-> w, on |-> a] : a \in Accounts(w)}
            /\ tokenAccountSubscriptions' =
                 [tokenAccountSubscriptions EXCEPT ![w] = IF n = 0 THEN @ ELSE nextListener + n - 1]
            /\ nextListener' = nextListener + n
            /\ Goto(k, "done")
         \/ /\ env.rpcFaults
            /\ Goto(k, "failed")
            /\ UNCHANGED <<listeners, tokenAccountSubscriptions, nextListener>>
      /\ UNCHANGED <<gone, subscribedWallets, logSubscriptions, seen, callbacks, balance, told>>

-----------------------------------------------------------------------------
(* handleDisconnect.                                                       *)

\* The wallets that c leaves without a subscriber.
Deserted(c) == {w \in Wallet : subscribedWallets[w] = {c}}

\* A number that the code takes for a listener: 0 is false.
IsListener(id) == id # None /\ id # 0

\* The entries of a map whose listeners are removed.
Removed(map, c) == {w \in Deserted(c) : IsListener(map[w])}

\* (seeded fault) the listeners are removed and the entries stay
HandleDisconnectKeepsEntries(c) ==
  /\ c \notin gone
  /\ gone' = gone \cup {c}
  /\ subscribedWallets' = [w \in Wallet |-> subscribedWallets[w] \ {c}]
  /\ listeners' = {l \in listeners :
       l.id \notin {logSubscriptions[w] : w \in Removed(logSubscriptions, c)}
              \cup {tokenAccountSubscriptions[w] : w \in Removed(tokenAccountSubscriptions, c)}}
  /\ UNCHANGED <<logSubscriptions, tokenAccountSubscriptions, nextListener, pc, seen,
                 callbacks, balance, told>>

HandleDisconnect(c) ==
  LET logs   == Removed(logSubscriptions, c)
      tokens == Removed(tokenAccountSubscriptions, c)
  IN  /\ c \notin gone
      /\ gone' = gone \cup {c}
      /\ subscribedWallets' = [w \in Wallet |-> subscribedWallets[w] \ {c}]
      /\ listeners' = {l \in listeners : l.id \notin {logSubscriptions[w] : w \in logs}
                                            \cup {tokenAccountSubscriptions[w] : w \in tokens}}
      /\ logSubscriptions' = [w \in Wallet |-> IF w \in logs THEN None ELSE logSubscriptions[w]]
      /\ tokenAccountSubscriptions' =
           [w \in Wallet |-> IF w \in tokens THEN None ELSE tokenAccountSubscriptions[w]]
      /\ UNCHANGED <<nextListener, pc, seen, callbacks, balance, told>>

-----------------------------------------------------------------------------
(* The ledger and the callbacks of the listeners.                          *)

\* A transaction changes the wallet and calls the listeners of what it touches:
\* the wallet itself, or one token account that receives.
Change(w, on) ==
  /\ balance[w] < MaxChanges
  /\ env.serial => ~Underway
  /\ balance' = [balance EXCEPT ![w] = @ + 1]
  /\ callbacks' = callbacks \cup
       {[wallet |-> l.wallet, seen |-> None] :
          l \in {l \in listeners : l.wallet = w /\ l.on = on}}
  /\ UNCHANGED <<gone, maps, listeners, nextListener, pc, seen, told>>

\* A callback waits for the slot and reads the balance; an error is only logged.
CallbackRead(b) ==
  /\ b \in callbacks /\ b.seen = None
  /\ \/ callbacks' = (callbacks \ {b}) \cup {[b EXCEPT !.seen = balance[b.wallet]]}
     \/ env.rpcFaults /\ callbacks' = callbacks \ {b}
  /\ UNCHANGED <<gone, maps, listeners, nextListener, pc, seen, balance, told>>

\* It tells those who are subscribers by then.
CallbackEmit(b) ==
  /\ b \in callbacks /\ b.seen # None
  /\ callbacks' = callbacks \ {b}
  /\ Tell(subscribedWallets[b.wallet], b.wallet, b.seen)
  /\ UNCHANGED <<gone, maps, listeners, nextListener, pc, seen, balance>>

Next ==
  /\ UNCHANGED env
  /\ \/ \E k \in Subscribe : \/ SubscribeStart(k) \/ SubscribeRead(k)
                             \/ SubscribeReply(k) \/ SubscribeAccounts(k)
     \/ \E c \in Client : HandleDisconnect(c)
     \/ \E w \in Wallet : \E on \in {Logs} \cup Accounts(w) : Change(w, on)
     \/ \E b \in callbacks : CallbackRead(b) \/ CallbackEmit(b)

Spec == Init /\ [][Next]_vars

-----------------------------------------------------------------------------
(* Properties.                                                             *)

\* Every variable has its type.
TypeOK ==
  /\ env \in Environments
  /\ gone \subseteq Client
  /\ subscribedWallets \in [Wallet -> SUBSET Client]
  /\ logSubscriptions \in [Wallet -> Nat \cup {None}]
  /\ tokenAccountSubscriptions \in [Wallet -> Nat \cup {None}]
  /\ \A l \in listeners : /\ l.id \in FirstListener..(nextListener - 1)
                          /\ l.on \in {Logs} \cup Accounts(l.wallet)
  /\ pc \in [Subscribe -> {"idle", "read", "reply", "accounts", "done", "failed"}]
  /\ seen \in [Subscribe -> Nat \cup {None}]
  /\ \A b \in callbacks : b.wallet \in Wallet /\ b.seen \in Nat \cup {None}
  /\ balance \in [Wallet -> 0..MaxChanges]
  /\ told \in [Client -> [Wallet -> Nat \cup {None}]]

\* Whatever interleaves, a subscriber whose call got past its balances is served
\* by exactly one log listener of the wallet, the one the map remembers: nobody
\* who leaves takes it away, and nobody who comes adds a second.
SubscriberIsServedOnce ==
  \A k \in Subscribe :
    LET w   == WalletOf[k]
        own == {l \in listeners : l.wallet = w /\ l.on = Logs}
    IN  (pc[k] \in {"accounts", "done"} /\ ClientOf[k] \in subscribedWallets[w]) =>
          \E l \in own : own = {l} /\ l.id = logSubscriptions[w]

\* When calls, changes and callbacks come one at a time and no RPC fails, every
\* subscriber has been told the present balance.  The exception is the wallet
\* that got listener 0 and was deserted since: its log listener and entry stay,
\* so that the next subscriber registers no listener for the token accounts.
SerialToldIsCurrent ==
  (env.serial /\ ~env.rpcFaults /\ ~Underway) =>
    \A w \in Wallet : \A c \in subscribedWallets[w] :
      \/ told[c][w] = balance[w]
      \/ logSubscriptions[w] = 0 /\ tokenAccountSubscriptions[w] = None
=============================================================================
