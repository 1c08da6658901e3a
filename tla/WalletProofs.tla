---------------------------- MODULE WalletProofs ----------------------------
(***************************************************************************)
(* Theorems about the balances of wallets: of BalanceGateway, for any      *)
(* clients, wallets, subscriptions and token accounts, whatever number the *)
(* library's first listener has, and any environments; and of              *)
(* StoredWallets, for any refreshes, choices and balances.  Both are       *)
(* instances, whose variables are their own.                               *)
(***************************************************************************)
EXTENDS Statistics, GatewayAndRounds, FiniteSets, SequenceTheorems, TLAPS

Listener == [id : Nat, wallet : Watched, on : Nat]
Answer == [wallet : Watched, seen : Nat \cup {Null}]

GatewayTypeInv ==
  /\ Gateway!TypeOK
  /\ nextListener \in Nat /\ FirstListener <= nextListener
  /\ listeners \subseteq Listener
  /\ callbacks \subseteq Answer
  /\ \A k \in Subscribe : gatewayPc[k] = "reply" => seen[k] # Null

LEMMA Sums ==
  /\ \A m, n \in Nat : m + n \in Nat /\ m <= m + n /\ (n = 0 \/ m + n - 1 \in Nat)
  /\ \A i, m, n \in Nat : i + m - 1 = i + n - 1 => m = n
OBVIOUS

LEMMA GatewayConstants ==
  ASSUME GatewayAssumptions
  PROVE  /\ \A k \in Subscribe : ClientOf[k] \in Client /\ WatchedBy[k] \in Watched
         /\ \A w \in Watched : TokenAccounts[w] \in Nat
         /\ FirstListener \in Nat /\ MaxChanges \in Nat /\ Null \notin Nat
         /\ \A e \in GatewayEnvironments : e.serial \in BOOLEAN /\ e.rpcFaults \in BOOLEAN
BY DEF GatewayAssumptions, Gateway!CallsAssumption, Gateway!NumbersAssumption,
       Gateway!EnvironmentsAssumption

\* What SubscribeReply does when the wallet has no entry.
LEMMA ReplySteps ==
  ASSUME GatewayAssumptions, GatewayTypeInv, NEW k \in Subscribe, Gateway!SubscribeReply(k)
  PROVE  /\ gatewayPc[k] = "reply"
         /\ \A j \in Subscribe \ {k} : gatewayPc'[j] = gatewayPc[j]
         /\ \/ /\ logSubscriptions[WatchedBy[k]] # Null
               /\ gatewayPc'[k] = "done"
               /\ UNCHANGED <<logSubscriptions, listeners, nextListener>>
            \/ /\ logSubscriptions[WatchedBy[k]] = Null
               /\ gatewayPc'[k] = "accounts"
               /\ logSubscriptions' =
                    [logSubscriptions EXCEPT ![WatchedBy[k]] = nextListener]
               /\ nextListener' = nextListener + 1
               /\ \E l \in Listener : /\ l.id = nextListener
                                      /\ l.wallet = WatchedBy[k] /\ l.on = Gateway!Logs
                                      /\ listeners' = listeners \cup {l}
<1> DEFINE l == [id |-> nextListener, wallet |-> WatchedBy[k], on |-> Gateway!Logs]
<1>1. /\ l \in Listener
      /\ l.id = nextListener
      /\ l.wallet = WatchedBy[k]
      /\ l.on = Gateway!Logs
  BY GatewayConstants DEF GatewayTypeInv, Listener, Gateway!Logs
<1>2. \/ UNCHANGED <<logSubscriptions, listeners, nextListener>>
      \/ listeners' = listeners \cup {l}
  BY DEF Gateway!SubscribeReply
<1> HIDE DEF l
<1> QED
  BY <1>1, <1>2, GatewayConstants
     DEF GatewayTypeInv, Gateway!TypeOK, Gateway!SubscribeReply, Gateway!Goto, Listener,
         Gateway!Logs

LEMMA AccountsSteps ==
  ASSUME GatewayAssumptions, GatewayTypeInv, NEW k \in Subscribe,
         Gateway!SubscribeAccounts(k), gatewayPc'[k] = "done"
  PROVE  /\ listeners \subseteq listeners'
         /\ \A l \in listeners' : \/ l \in listeners
                                  \/ /\ l \in Listener
                                     /\ l.wallet = WatchedBy[k]
                                     /\ l.on \in Gateway!Accounts(WatchedBy[k])
                                     /\ l.id = nextListener + l.on - 1
         /\ \A a \in Gateway!Accounts(WatchedBy[k]) :
              \E l \in listeners' : l.wallet = WatchedBy[k] /\ l.on = a
         /\ nextListener' = nextListener + TokenAccounts[WatchedBy[k]]
         /\ nextListener' \in Nat /\ nextListener <= nextListener'
         /\ tokenAccountSubscriptions' \in [Watched -> Nat \cup {Null}]
         /\ \/ tokenAccountSubscriptions'[WatchedBy[k]] =
                 tokenAccountSubscriptions[WatchedBy[k]]
            \/ /\ TokenAccounts[WatchedBy[k]] > 0
               /\ tokenAccountSubscriptions'[WatchedBy[k]] =
                    nextListener + TokenAccounts[WatchedBy[k]] - 1
         /\ \A v \in Watched \ {WatchedBy[k]} :
              tokenAccountSubscriptions'[v] = tokenAccountSubscriptions[v]
<1> DEFINE w == WatchedBy[k]
           n == TokenAccounts[w]
           New == {[id |-> nextListener + a - 1, wallet |-> w, on |-> a] :
                     a \in Gateway!Accounts(w)}
<1>0. w \in Watched /\ n \in Nat /\ nextListener \in Nat /\ Gateway!TypeOK
  BY GatewayConstants DEF GatewayTypeInv
<1>1. /\ listeners' = listeners \cup New
      /\ tokenAccountSubscriptions' =
           [tokenAccountSubscriptions EXCEPT
              ![w] = IF n = 0 THEN @ ELSE nextListener + n - 1]
      /\ nextListener' = nextListener + n
  BY <1>0 DEF Gateway!SubscribeAccounts, Gateway!Goto, Gateway!TypeOK
<1>2. ASSUME NEW a \in Gateway!Accounts(w)
      PROVE  /\ [id |-> nextListener + a - 1, wallet |-> w, on |-> a] \in Listener
             /\ a \in Nat
  BY <1>0 DEF Gateway!Accounts, Listener
<1>3. \A a \in Gateway!Accounts(w) : \E l \in New : l.wallet = w /\ l.on = a
  <2> SUFFICES ASSUME NEW a \in Gateway!Accounts(w)
               PROVE  \E l \in New : l.wallet = w /\ l.on = a
    OBVIOUS
  <2> WITNESS [id |-> nextListener + a - 1, wallet |-> w, on |-> a] \in New
  <2> QED
    OBVIOUS
<1>4. \A l \in New : /\ l \in Listener
                     /\ l.wallet = w /\ l.on \in Gateway!Accounts(w)
                     /\ l.id = nextListener + l.on - 1
  BY <1>2
<1>5. nextListener' \in Nat /\ nextListener <= nextListener'
  BY <1>0, <1>1, Sums
<1>6. n = 0 \/ nextListener + n - 1 \in Nat
  BY <1>0, Sums
<1>7. tokenAccountSubscriptions' \in [Watched -> Nat \cup {Null}]
  BY <1>0, <1>1, <1>6 DEF Gateway!TypeOK
<1> HIDE DEF New
<1> QED
  BY <1>0, <1>1, <1>3, <1>4, <1>5, <1>7 DEF Gateway!TypeOK

\* What a disconnection removes: the entries of the wallets it leaves without a
\* subscriber, if their numbers are taken for listeners, and these listeners.
LEMMA DisconnectSteps ==
  ASSUME GatewayAssumptions, GatewayTypeInv, NEW c \in Client, Gateway!HandleDisconnect(c)
  PROVE  /\ gone' = gone \cup {c}
         /\ \A w \in Watched :
              /\ subscribedWallets'[w] = subscribedWallets[w] \ {c}
              /\ \/ logSubscriptions'[w] = logSubscriptions[w]
                 \/ logSubscriptions'[w] = Null /\ subscribedWallets'[w] = {}
              /\ \/ tokenAccountSubscriptions'[w] = tokenAccountSubscriptions[w]
                 \/ tokenAccountSubscriptions'[w] = Null /\ subscribedWallets'[w] = {}
              /\ logSubscriptions[w] = 0 => logSubscriptions'[w] = 0
              /\ tokenAccountSubscriptions'[w] # tokenAccountSubscriptions[w] =>
                   logSubscriptions'[w] = Null \/ logSubscriptions'[w] = 0
         /\ listeners' \subseteq listeners
         /\ \A l \in listeners \ listeners' :
              \E w \in Watched :
                \/ logSubscriptions[w] = l.id /\ logSubscriptions'[w] = Null
                \/ /\ tokenAccountSubscriptions[w] = l.id
                   /\ tokenAccountSubscriptions'[w] = Null
         /\ \A l \in listeners', w \in Watched :
              l.id = logSubscriptions[w] => logSubscriptions'[w] = logSubscriptions[w]
<1> DEFINE logs   == Gateway!Removed(logSubscriptions, c)
           tokens == Gateway!Removed(tokenAccountSubscriptions, c)
<1>0. /\ subscribedWallets \in [Watched -> SUBSET Client]
      /\ logSubscriptions \in [Watched -> Nat \cup {Null}]
      /\ tokenAccountSubscriptions \in [Watched -> Nat \cup {Null}]
      /\ Null \notin Nat /\ 0 \in Nat
      /\ listeners \subseteq Listener
  BY GatewayConstants DEF GatewayTypeInv, Gateway!TypeOK
<1>1. \A w \in Watched :
        /\ w \in logs <=> /\ subscribedWallets[w] = {c}
                          /\ logSubscriptions[w] # Null /\ logSubscriptions[w] # 0
        /\ w \in tokens <=> /\ subscribedWallets[w] = {c}
                            /\ tokenAccountSubscriptions[w] # Null
                            /\ tokenAccountSubscriptions[w] # 0
  BY DEF Gateway!Removed, Gateway!Deserted, Gateway!IsListener
<1>2. logs \subseteq Watched /\ tokens \subseteq Watched
  BY DEF Gateway!Removed, Gateway!Deserted
<1>3. /\ gone' = gone \cup {c}
      /\ subscribedWallets' = [w \in Watched |-> subscribedWallets[w] \ {c}]
      /\ listeners' =
           {l \in listeners :
              l.id \notin {logSubscriptions[w] : w \in logs}
                           \cup {tokenAccountSubscriptions[w] : w \in tokens}}
      /\ logSubscriptions' =
           [w \in Watched |-> IF w \in logs THEN Null ELSE logSubscriptions[w]]
      /\ tokenAccountSubscriptions' =
           [w \in Watched |-> IF w \in tokens THEN Null ELSE tokenAccountSubscriptions[w]]
  BY DEF Gateway!HandleDisconnect
<1> HIDE DEF logs, tokens
<1>4. \A w \in Watched :
        /\ subscribedWallets'[w] = subscribedWallets[w] \ {c}
        /\ logSubscriptions'[w] = IF w \in logs THEN Null ELSE logSubscriptions[w]
        /\ tokenAccountSubscriptions'[w] =
             IF w \in tokens THEN Null ELSE tokenAccountSubscriptions[w]
  BY <1>3
<1>5. \A w \in Watched :
              /\ \/ logSubscriptions'[w] = logSubscriptions[w]
                 \/ logSubscriptions'[w] = Null /\ subscribedWallets'[w] = {}
              /\ \/ tokenAccountSubscriptions'[w] = tokenAccountSubscriptions[w]
                 \/ tokenAccountSubscriptions'[w] = Null /\ subscribedWallets'[w] = {}
              /\ logSubscriptions[w] = 0 => logSubscriptions'[w] = 0
              /\ tokenAccountSubscriptions'[w] # tokenAccountSubscriptions[w] =>
                   logSubscriptions'[w] = Null \/ logSubscriptions'[w] = 0
  BY <1>0, <1>1, <1>4
<1>6. \A l \in listeners :
        l \notin listeners' <=> \/ \E w \in logs : l.id = logSubscriptions[w]
                                \/ \E w \in tokens : l.id = tokenAccountSubscriptions[w]
  BY <1>3
<1>7. listeners' \subseteq listeners
  BY <1>3
<1>8. \A l \in listeners \ listeners' :
        \E w \in Watched :
          \/ logSubscriptions[w] = l.id /\ logSubscriptions'[w] = Null
          \/ tokenAccountSubscriptions[w] = l.id /\ tokenAccountSubscriptions'[w] = Null
  BY <1>2, <1>4, <1>6
<1>9. \A l \in listeners', w \in Watched :
        l.id = logSubscriptions[w] => logSubscriptions'[w] = logSubscriptions[w]
  BY <1>4, <1>6, <1>7
<1> QED
  BY <1>3, <1>4, <1>5, <1>7, <1>8, <1>9

LEMMA InitGatewayTypeInv == ASSUME GatewayAssumptions PROVE Gateway!Init => GatewayTypeInv
BY GatewayConstants DEF Gateway!Init, GatewayTypeInv, Gateway!TypeOK

LEMMA NextGatewayTypeInv == ASSUME GatewayAssumptions
                            PROVE  GatewayTypeInv /\ [Gateway!Next]_(Gateway!vars)
                                     => GatewayTypeInv'
<1> SUFFICES ASSUME GatewayTypeInv, [Gateway!Next]_(Gateway!vars)
             PROVE  GatewayTypeInv'
  OBVIOUS
<1>0. /\ Gateway!TypeOK /\ watch' = watch
      /\ \A k \in Subscribe : ClientOf[k] \in Client /\ WatchedBy[k] \in Watched
      /\ \A w \in Watched : TokenAccounts[w] \in Nat
      /\ FirstListener \in Nat /\ MaxChanges \in Nat /\ Null \notin Nat
  BY GatewayConstants DEF GatewayTypeInv, Gateway!TypeOK, Gateway!Next, Gateway!vars
<1> USE <1>0 DEF GatewayTypeInv, Gateway!TypeOK, Gateway!Goto
<1>1. ASSUME NEW k \in Subscribe, Gateway!SubscribeStart(k)
      PROVE  GatewayTypeInv'
  BY <1>1 DEF Gateway!SubscribeStart, Gateway!maps
<1>2. ASSUME NEW k \in Subscribe, Gateway!SubscribeRead(k)
      PROVE  GatewayTypeInv'
  <2>1. balance[WatchedBy[k]] \in Nat
    OBVIOUS
  <2> QED
    BY <1>2, <2>1 DEF Gateway!SubscribeRead, Gateway!maps
<1>3. ASSUME NEW k \in Subscribe, Gateway!SubscribeReply(k)
      PROVE  GatewayTypeInv'
  <2>1. told' \in [Client -> [Watched -> Nat \cup {Null}]]
    BY <1>3 DEF Gateway!SubscribeReply, Gateway!Tell
  <2>2. /\ gatewayPc' \in [Subscribe -> {"idle", "read", "reply", "accounts", "done",
                                         "failed"}]
        /\ logSubscriptions' \in [Watched -> Nat \cup {Null}]
        /\ nextListener' \in Nat /\ nextListener <= nextListener'
    BY <1>3 DEF Gateway!SubscribeReply
  <2>3. listeners' \subseteq Listener
    BY <1>3, ReplySteps
  <2>4. \A l \in listeners' : /\ l.id \in FirstListener..(nextListener' - 1)
                              /\ l.on \in {Gateway!Logs} \cup Gateway!Accounts(l.wallet)
    BY <1>3, ReplySteps
  <2> QED
    BY <1>3, <2>1, <2>2, <2>3, <2>4, ReplySteps DEF Gateway!SubscribeReply
<1>4. ASSUME NEW k \in Subscribe, Gateway!SubscribeAccounts(k)
      PROVE  GatewayTypeInv'
  <2>1. CASE gatewayPc'[k] = "done"
    <3>1. gatewayPc' \in [Subscribe -> {"idle", "read", "reply", "accounts", "done",
                                        "failed"}]
      BY <1>4 DEF Gateway!SubscribeAccounts
    <3>5. nextListener' = nextListener + TokenAccounts[WatchedBy[k]]
      BY <1>4, <2>1, AccountsSteps
    <3>6. nextListener' \in Nat /\ nextListener <= nextListener'
      BY <1>4, <2>1, AccountsSteps
    <3>2. tokenAccountSubscriptions' \in [Watched -> Nat \cup {Null}]
      BY <1>4, <2>1, AccountsSteps
    <3>3. listeners' \subseteq Listener
      BY <1>4, <2>1, AccountsSteps
    <3>4. ASSUME NEW l \in listeners'
          PROVE  /\ l.id \in FirstListener..(nextListener' - 1)
                 /\ l.on \in {Gateway!Logs} \cup Gateway!Accounts(l.wallet)
      BY <1>4, <2>1, <3>3, <3>5, <3>6, AccountsSteps DEF Gateway!Accounts, Listener
    <3> QED
      BY <1>4, <2>1, <3>1, <3>2, <3>3, <3>4, <3>6 DEF Gateway!SubscribeAccounts
  <2>2. CASE gatewayPc'[k] # "done"
    BY <1>4, <2>2 DEF Gateway!SubscribeAccounts
  <2> QED
    BY <2>1, <2>2
<1>5. ASSUME NEW c \in Client, Gateway!HandleDisconnect(c)
      PROVE  GatewayTypeInv'
  <2>1. /\ logSubscriptions' \in [Watched -> Nat \cup {Null}]
        /\ tokenAccountSubscriptions' \in [Watched -> Nat \cup {Null}]
        /\ subscribedWallets' \in [Watched -> SUBSET Client]
        /\ gone' \subseteq Client /\ listeners' \subseteq listeners
    BY <1>5 DEF Gateway!HandleDisconnect
  <2> QED
    BY <1>5, <2>1 DEF Gateway!HandleDisconnect
<1>6. ASSUME NEW w \in Watched, NEW on \in {Gateway!Logs} \cup Gateway!Accounts(w),
             Gateway!Change(w, on)
      PROVE  GatewayTypeInv'
  <2>1. callbacks' \subseteq Answer
    BY <1>6 DEF Gateway!Change, Answer, Listener
  <2>2. balance' \in [Watched -> 0..MaxChanges]
    BY <1>6 DEF Gateway!Change
  <2> QED
    BY <1>6, <2>1, <2>2 DEF Gateway!Change, Answer, Gateway!maps
<1>7. ASSUME NEW b \in callbacks, Gateway!CallbackRead(b)
      PROVE  GatewayTypeInv'
  <2>1. b \in Answer /\ balance[b.wallet] \in Nat
    BY DEF Answer
  <2>2. callbacks' \subseteq Answer
    BY <1>7, <2>1 DEF Gateway!CallbackRead, Answer
  <2> QED
    BY <1>7, <2>2 DEF Gateway!CallbackRead, Answer, Gateway!maps
<1>8. ASSUME NEW b \in callbacks, Gateway!CallbackEmit(b)
      PROVE  GatewayTypeInv'
  <2>1. b.seen \in Nat /\ b.wallet \in Watched
    BY <1>8 DEF Gateway!CallbackEmit, Answer
  <2>2. told' \in [Client -> [Watched -> Nat \cup {Null}]]
    BY <1>8, <2>1 DEF Gateway!CallbackEmit, Gateway!Tell
  <2> QED
    BY <1>8, <2>2 DEF Gateway!CallbackEmit, Gateway!maps
<1>9. CASE UNCHANGED Gateway!vars
  BY <1>9 DEF Gateway!vars, Gateway!moving, Gateway!maps
<1> QED
  BY <1>1, <1>2, <1>3, <1>4, <1>5, <1>6, <1>7, <1>8, <1>9 DEF Gateway!Next

\* Every variable keeps its type, whatever the clients, the ledger and the
\* listeners do.
THEOREM GatewayTypeCorrect ==
  ASSUME GatewayAssumptions
  PROVE  Gateway!Spec => []Gateway!TypeOK
<1>1. GatewayTypeInv => Gateway!TypeOK
  BY DEF GatewayTypeInv
<1> QED
  BY InitGatewayTypeInv, NextGatewayTypeInv, <1>1, PTL DEF Gateway!Spec

-----------------------------------------------------------------------------
(* Who is served.                                                          *)

\* Numbers are given once.  A wallet's log listeners are the one that its entry
\* names, the listeners its other entry names are of its token accounts, and the
\* entries name listeners of the past.
ListenersInv ==
  /\ \A l, m \in listeners : l.id = m.id => l = m
  /\ \A l \in listeners : l.on = Gateway!Logs => logSubscriptions[l.wallet] = l.id
  /\ \A w \in Watched :
       /\ logSubscriptions[w] # Null =>
            \E l \in listeners : /\ l.id = logSubscriptions[w]
                                 /\ l.wallet = w /\ l.on = Gateway!Logs
       /\ tokenAccountSubscriptions[w] # Null =>
            /\ tokenAccountSubscriptions[w] < nextListener
            /\ \A l \in listeners :
                 l.id = tokenAccountSubscriptions[w] => l.wallet = w /\ l.on # Gateway!Logs

\* Who calls is a subscriber until it disconnects, and the wallet of a subscriber
\* whose call got past its balances has an entry.
SubscribersInv ==
  /\ \A w \in Watched : gone \cap subscribedWallets[w] = {}
  /\ \A k \in Subscribe :
       /\ gatewayPc[k] # "idle" => ClientOf[k] \in gone \cup subscribedWallets[WatchedBy[k]]
       /\ (gatewayPc[k] \in {"accounts", "done"}
             /\ ClientOf[k] \in subscribedWallets[WatchedBy[k]])
            => logSubscriptions[WatchedBy[k]] # Null

ServedInv == ListenersInv /\ SubscribersInv

LEMMA NextListenersInv ==
  ASSUME GatewayAssumptions
  PROVE  GatewayTypeInv /\ ListenersInv /\ [Gateway!Next]_(Gateway!vars) => ListenersInv'
<1> SUFFICES ASSUME GatewayTypeInv, ListenersInv, [Gateway!Next]_(Gateway!vars)
             PROVE  ListenersInv'
  OBVIOUS
<1>0. /\ \A k \in Subscribe : ClientOf[k] \in Client /\ WatchedBy[k] \in Watched
      /\ \A w \in Watched : TokenAccounts[w] \in Nat
      /\ Null \notin Nat
      /\ nextListener \in Nat
      /\ listeners \subseteq Listener
      /\ \A l \in listeners : l.id < nextListener
      /\ logSubscriptions \in [Watched -> Nat \cup {Null}]
      /\ tokenAccountSubscriptions \in [Watched -> Nat \cup {Null}]
  BY GatewayConstants DEF GatewayTypeInv, Gateway!TypeOK, Listener
<1>1. ASSUME NEW k \in Subscribe, Gateway!SubscribeReply(k)
      PROVE  ListenersInv'
  <2>1. tokenAccountSubscriptions' = tokenAccountSubscriptions
    BY <1>1 DEF Gateway!SubscribeReply
  <2>2. CASE UNCHANGED <<logSubscriptions, listeners, nextListener>>
    BY <2>1, <2>2 DEF ListenersInv
  <2>3. CASE logSubscriptions[WatchedBy[k]] = Null /\ gatewayPc'[k] = "accounts"
    <3>1. PICK l \in Listener : /\ l.id = nextListener
                               /\ l.wallet = WatchedBy[k] /\ l.on = Gateway!Logs
                               /\ listeners' = listeners \cup {l}
      BY <1>1, <2>3, ReplySteps
    <3>2. /\ logSubscriptions'[WatchedBy[k]] = nextListener
          /\ \A w \in Watched \ {WatchedBy[k]} : logSubscriptions'[w] = logSubscriptions[w]
          /\ nextListener' = nextListener + 1
      BY <1>0, <1>1, <2>3, ReplySteps
    <3>3. \A m \in listeners : m.on = Gateway!Logs => m.wallet # WatchedBy[k]
      BY <1>0, <2>3 DEF ListenersInv, Listener
    <3>4. \A m, n \in listeners' : m.id = n.id => m = n
      BY <1>0, <3>1 DEF ListenersInv
    <3>5. \A m \in listeners' : m.on = Gateway!Logs => logSubscriptions'[m.wallet] = m.id
      BY <1>0, <3>1, <3>2, <3>3 DEF ListenersInv, Listener
    <3>6. ASSUME NEW w \in Watched, logSubscriptions'[w] # Null
          PROVE  \E m \in listeners' :
                   m.id = logSubscriptions'[w] /\ m.wallet = w /\ m.on = Gateway!Logs
      BY <3>1, <3>2, <3>6 DEF ListenersInv
    <3>7. ASSUME NEW w \in Watched, tokenAccountSubscriptions[w] # Null
          PROVE  /\ tokenAccountSubscriptions[w] < nextListener'
                 /\ \A m \in listeners' :
                      m.id = tokenAccountSubscriptions[w]
                        => m.wallet = w /\ m.on # Gateway!Logs
      BY <1>0, <3>1, <3>2, <3>7 DEF ListenersInv
    <3> QED
      BY <2>1, <3>4, <3>5, <3>6, <3>7 DEF ListenersInv
  <2> QED
    BY <1>1, <2>2, <2>3, ReplySteps
<1>2. ASSUME NEW k \in Subscribe, Gateway!SubscribeAccounts(k)
      PROVE  ListenersInv'
  <2>1. CASE gatewayPc'[k] # "done"
    BY <1>2, <2>1
       DEF Gateway!SubscribeAccounts, ListenersInv, Gateway!Goto, GatewayTypeInv,
           Gateway!TypeOK
  <2>2. CASE gatewayPc'[k] = "done"
    <3> DEFINE w == WatchedBy[k]
               n == TokenAccounts[w]
    <3>1. logSubscriptions' = logSubscriptions /\ w \in Watched /\ n \in Nat
      BY <1>0, <1>2 DEF Gateway!SubscribeAccounts
    <3>2. /\ listeners \subseteq listeners'
          /\ \A l \in listeners' : \/ l \in listeners
                                   \/ /\ l \in Listener
                                      /\ l.wallet = w /\ l.on \in Gateway!Accounts(w)
                                      /\ l.id = nextListener + l.on - 1
          /\ nextListener' = nextListener + n
          /\ \/ tokenAccountSubscriptions'[w] = tokenAccountSubscriptions[w]
             \/ n > 0 /\ tokenAccountSubscriptions'[w] = nextListener + n - 1
          /\ \A v \in Watched \ {w} :
               tokenAccountSubscriptions'[v] = tokenAccountSubscriptions[v]
      BY <1>2, <2>2, AccountsSteps
    <3> HIDE DEF w, n
    <3>3. \A a \in Gateway!Accounts(w) : a \in Nat /\ a # Gateway!Logs /\ a >= 1 /\ a <= n
      BY <3>1 DEF Gateway!Accounts, Gateway!Logs, n
    <3>4. \A l \in listeners' :
            \/ l \in listeners
            \/ /\ l \in Listener /\ l.wallet = w /\ l.on # Gateway!Logs
               /\ l.id = nextListener + l.on - 1 /\ l.id >= nextListener
      BY <1>0, <3>2, <3>3
    <3>5. \A l, m \in listeners' : l.id = m.id => l = m
      <4> SUFFICES ASSUME NEW l \in listeners', NEW m \in listeners', l.id = m.id
                   PROVE  l = m
        OBVIOUS
      <4>1. CASE l \in listeners /\ m \in listeners
        BY <4>1 DEF ListenersInv
      <4>2. CASE l \notin listeners /\ m \notin listeners
        <5>1. /\ l \in Listener /\ m \in Listener /\ l.wallet = w /\ m.wallet = w
              /\ l.id = nextListener + l.on - 1 /\ m.id = nextListener + m.on - 1
          BY <3>4, <4>2
        <5>2. l.on \in Nat /\ m.on \in Nat
          BY <5>1 DEF Listener
        <5>3. l.on = m.on
          BY <1>0, <5>1, <5>2, Sums
        <5> QED
          BY <5>1, <5>3 DEF Listener
      <4>3. CASE (l \in listeners) # (m \in listeners)
        BY <1>0, <3>4, <4>3 DEF Listener
      <4> QED
        BY <4>1, <4>2, <4>3
    <3>6. \A l \in listeners' : l.on = Gateway!Logs => logSubscriptions[l.wallet] = l.id
      BY <3>4 DEF ListenersInv
    <3>7. ASSUME NEW v \in Watched, tokenAccountSubscriptions'[v] # Null
          PROVE  /\ tokenAccountSubscriptions'[v] < nextListener'
                 /\ \A l \in listeners' :
                      l.id = tokenAccountSubscriptions'[v]
                        => l.wallet = v /\ l.on # Gateway!Logs
      <4>1. CASE tokenAccountSubscriptions'[v] = tokenAccountSubscriptions[v]
        BY <1>0, <3>1, <3>2, <3>4, <3>7, <4>1 DEF ListenersInv
      <4>2. CASE v = w /\ n > 0 /\ tokenAccountSubscriptions'[v] = nextListener + n - 1
        BY <1>0, <3>1, <3>2, <3>4, <4>2
      <4> QED
        BY <3>2, <4>1, <4>2
    <3> QED
      BY <3>1, <3>2, <3>5, <3>6, <3>7 DEF ListenersInv
  <2> QED
    BY <2>1, <2>2
<1>3. ASSUME NEW c \in Client, Gateway!HandleDisconnect(c)
      PROVE  ListenersInv'
  <2>1. nextListener' = nextListener
    BY <1>3 DEF Gateway!HandleDisconnect
  <2>2. /\ listeners' \subseteq listeners
        /\ \A w \in Watched :
             /\ logSubscriptions'[w] \in {logSubscriptions[w], Null}
             /\ tokenAccountSubscriptions'[w] \in {tokenAccountSubscriptions[w], Null}
        /\ \A l \in listeners', w \in Watched :
             l.id = logSubscriptions[w] => logSubscriptions'[w] = logSubscriptions[w]
    BY <1>3, DisconnectSteps
  <2>3. \A l \in listeners \ listeners' :
          \E w \in Watched :
            \/ logSubscriptions[w] = l.id /\ logSubscriptions'[w] = Null
            \/ tokenAccountSubscriptions[w] = l.id /\ tokenAccountSubscriptions'[w] = Null
    BY <1>3, DisconnectSteps
  <2>4. ASSUME NEW w \in Watched, logSubscriptions'[w] # Null
        PROVE  \E l \in listeners' :
                 l.id = logSubscriptions'[w] /\ l.wallet = w /\ l.on = Gateway!Logs
    <3>1. logSubscriptions'[w] = logSubscriptions[w]
      BY <2>2, <2>4
    <3>2. PICK l \in listeners :
            l.id = logSubscriptions[w] /\ l.wallet = w /\ l.on = Gateway!Logs
      BY <2>4, <3>1 DEF ListenersInv
    <3>3. ASSUME NEW v \in Watched, logSubscriptions[v] = l.id, logSubscriptions'[v] = Null
          PROVE  FALSE
      <4>1. logSubscriptions[v] # Null
        BY <1>0, <3>3 DEF Listener
      <4>2. PICK m \in listeners : m.id = logSubscriptions[v] /\ m.wallet = v
        BY <4>1 DEF ListenersInv
      <4>3. m = l
        BY <3>3, <4>2 DEF ListenersInv
      <4> QED
        BY <2>4, <3>2, <3>3, <4>2, <4>3
    <3>4. ASSUME NEW v \in Watched, tokenAccountSubscriptions[v] = l.id
          PROVE  FALSE
      BY <1>0, <3>2, <3>4 DEF ListenersInv, Listener
    <3> QED
      BY <2>3, <3>1, <3>2, <3>3, <3>4
  <2> QED
    BY <1>0, <2>1, <2>2, <2>4 DEF ListenersInv, Listener
<1>4. CASE UNCHANGED <<listeners, logSubscriptions, tokenAccountSubscriptions,
                      nextListener>>
  BY <1>4 DEF ListenersInv
<1> QED
  BY <1>1, <1>2, <1>3, <1>4
     DEF Gateway!Next, Gateway!SubscribeStart, Gateway!SubscribeRead, Gateway!Change,
         Gateway!CallbackRead, Gateway!CallbackEmit, Gateway!vars, Gateway!moving,
         Gateway!maps

LEMMA NextSubscribersInv ==
  ASSUME GatewayAssumptions
  PROVE  GatewayTypeInv /\ SubscribersInv /\ [Gateway!Next]_(Gateway!vars)
           => SubscribersInv'
<1> SUFFICES ASSUME GatewayTypeInv, SubscribersInv, [Gateway!Next]_(Gateway!vars)
             PROVE  SubscribersInv'
  OBVIOUS
<1>0. /\ \A k \in Subscribe : ClientOf[k] \in Client /\ WatchedBy[k] \in Watched
      /\ Null \notin Nat
      /\ Gateway!TypeOK /\ nextListener \in Nat
  BY GatewayConstants DEF GatewayTypeInv
<1>1. ASSUME NEW k \in Subscribe, Gateway!SubscribeStart(k)
      PROVE  SubscribersInv'
  BY <1>0, <1>1 DEF Gateway!SubscribeStart, SubscribersInv, Gateway!TypeOK, Gateway!Goto
<1>2. ASSUME NEW k \in Subscribe, Gateway!SubscribeRead(k)
      PROVE  SubscribersInv'
  BY <1>0, <1>2
     DEF Gateway!SubscribeRead, SubscribersInv, Gateway!TypeOK, Gateway!Goto, Gateway!maps
<1>3. ASSUME NEW k \in Subscribe, Gateway!SubscribeReply(k)
      PROVE  SubscribersInv'
  <2>1. /\ gone' = gone /\ subscribedWallets' = subscribedWallets
        /\ logSubscriptions'[WatchedBy[k]] # Null
        /\ \A w \in Watched : logSubscriptions[w] # Null => logSubscriptions'[w] # Null
    BY <1>0, <1>3 DEF Gateway!SubscribeReply, Gateway!TypeOK
  <2>2. gatewayPc[k] = "reply" /\ \A j \in Subscribe \ {k} : gatewayPc'[j] = gatewayPc[j]
    BY <1>3, ReplySteps
  <2> QED
    BY <1>0, <2>1, <2>2 DEF SubscribersInv
<1>4. ASSUME NEW k \in Subscribe, Gateway!SubscribeAccounts(k)
      PROVE  SubscribersInv'
  BY <1>0, <1>4 DEF Gateway!SubscribeAccounts, SubscribersInv, Gateway!TypeOK, Gateway!Goto
<1>5. ASSUME NEW c \in Client, Gateway!HandleDisconnect(c)
      PROVE  SubscribersInv'
  <2>1. /\ gatewayPc' = gatewayPc /\ gone' = gone \cup {c}
        /\ \A w \in Watched :
             /\ subscribedWallets'[w] = subscribedWallets[w] \ {c}
             /\ \/ logSubscriptions'[w] = logSubscriptions[w]
                \/ subscribedWallets'[w] = {}
    BY <1>5, DisconnectSteps DEF Gateway!HandleDisconnect
  <2> QED
    BY <1>0, <2>1 DEF SubscribersInv
<1>6. CASE UNCHANGED <<gone, subscribedWallets, logSubscriptions, gatewayPc>>
  BY <1>6 DEF SubscribersInv
<1> QED
  BY <1>1, <1>2, <1>3, <1>4, <1>5, <1>6
     DEF Gateway!Next, Gateway!Change, Gateway!CallbackRead, Gateway!CallbackEmit,
         Gateway!vars, Gateway!moving, Gateway!maps

LEMMA InitServedInv == ASSUME GatewayAssumptions PROVE Gateway!Init => ServedInv
BY GatewayConstants DEF Gateway!Init, ServedInv, ListenersInv, SubscribersInv

\* Whatever interleaves, a subscriber whose call got past its balances is served by
\* exactly one log listener of its wallet, the one the map remembers.
THEOREM SubscribersAreServedOnce ==
  ASSUME GatewayAssumptions
  PROVE  Gateway!Spec => []SubscriberIsServedOnce
<1>1. Gateway!Init => GatewayTypeInv /\ ServedInv
  BY InitGatewayTypeInv, InitServedInv
<1>2. GatewayTypeInv /\ ServedInv /\ [Gateway!Next]_(Gateway!vars)
        => (GatewayTypeInv /\ ServedInv)'
  BY NextGatewayTypeInv, NextListenersInv, NextSubscribersInv DEF ServedInv
<1>3. GatewayTypeInv /\ ServedInv => SubscriberIsServedOnce
  <2> SUFFICES ASSUME GatewayTypeInv, ServedInv, NEW k \in Subscribe,
                      gatewayPc[k] \in {"accounts", "done"},
                      ClientOf[k] \in subscribedWallets[WatchedBy[k]]
               PROVE  \E l \in {m \in listeners : /\ m.wallet = WatchedBy[k]
                                                  /\ m.on = Gateway!Logs} :
                        /\ {m \in listeners : /\ m.wallet = WatchedBy[k]
                                              /\ m.on = Gateway!Logs} = {l}
                        /\ l.id = logSubscriptions[WatchedBy[k]]
    BY DEF SubscriberIsServedOnce, Gateway!SubscriberIsServedOnce
  <2>1. WatchedBy[k] \in Watched /\ logSubscriptions[WatchedBy[k]] # Null
    BY GatewayConstants DEF ServedInv, SubscribersInv
  <2>2. PICK l \in listeners : /\ l.id = logSubscriptions[WatchedBy[k]]
                              /\ l.wallet = WatchedBy[k] /\ l.on = Gateway!Logs
    BY <2>1 DEF ServedInv, ListenersInv
  <2>3. \A m \in listeners : m.wallet = WatchedBy[k] /\ m.on = Gateway!Logs => m = l
    BY <2>2 DEF ServedInv, ListenersInv
  <2> QED
    BY <2>2, <2>3
<1> QED
  BY <1>1, <1>2, <1>3, PTL DEF Gateway!Spec

-----------------------------------------------------------------------------
(* What subscribers are told.                                              *)

\* A call is registering the listeners of w's token accounts.
Adding(w) == \E k \in Subscribe : gatewayPc[k] = "accounts" /\ WatchedBy[k] = w

\* Only the listener that is taken for none is left to the wallet.
Forsaken(w) == /\ logSubscriptions[w] = 0 /\ tokenAccountSubscriptions[w] = Null
               /\ ~Adding(w)

\* An answer is on its way to c about w.
Awaits(c, w) == \/ \E k \in Subscribe : /\ ClientOf[k] = c /\ WatchedBy[k] = w
                                        /\ gatewayPc[k] \in {"read", "reply"}
                \/ \E b \in callbacks : b.wallet = w

\* Without faults of RPC, a wallet with an entry has all its listeners.
CoveredInv ==
  /\ \A k \in Subscribe : gatewayPc[k] # "failed"
  /\ \A w \in Watched :
       (logSubscriptions[w] # Null /\ ~Adding(w) /\ ~Forsaken(w)) =>
         \A on \in {Gateway!Logs} \cup Gateway!Accounts(w) :
           \E l \in listeners : l.wallet = w /\ l.on = on

\* And when nothing overlaps, what was read is still so when it is told, and a
\* subscriber has called, and was told the balance or awaits it.
CurrentInv ==
  /\ \A k \in Subscribe : gatewayPc[k] = "reply" => seen[k] = balance[WatchedBy[k]]
  /\ \A b \in callbacks : b.seen # Null => b.seen = balance[b.wallet]
  /\ \A w \in Watched : \A c \in subscribedWallets[w] :
       /\ \E k \in Subscribe : ClientOf[k] = c /\ WatchedBy[k] = w /\ gatewayPc[k] # "idle"
       /\ told[c][w] = balance[w] \/ Awaits(c, w) \/ Forsaken(w)

ToldInv == (watch.serial /\ ~watch.rpcFaults) => CoveredInv /\ CurrentInv

LEMMA NextCoveredInv ==
  ASSUME GatewayAssumptions, GatewayTypeInv, ListenersInv, ~watch.rpcFaults, CoveredInv,
         [Gateway!Next]_(Gateway!vars)
  PROVE  CoveredInv'
<1>0. /\ \A k \in Subscribe : ClientOf[k] \in Client /\ WatchedBy[k] \in Watched
      /\ Null \notin Nat
      /\ listeners \subseteq Listener
      /\ Gateway!TypeOK
  BY GatewayConstants DEF GatewayTypeInv
<1>1. ASSUME NEW k \in Subscribe, Gateway!SubscribeStart(k) \/ Gateway!SubscribeRead(k)
      PROVE  CoveredInv'
  <2>1. /\ UNCHANGED <<logSubscriptions, tokenAccountSubscriptions, listeners>>
        /\ gatewayPc[k] # "accounts" /\ gatewayPc'[k] \notin {"accounts", "failed"}
        /\ \A j \in Subscribe \ {k} : gatewayPc'[j] = gatewayPc[j]
    BY <1>0, <1>1
       DEF Gateway!SubscribeStart, Gateway!SubscribeRead, Gateway!Goto, Gateway!TypeOK,
           Gateway!maps
  <2>2. \A w \in Watched : Adding(w)' <=> Adding(w)
    BY <2>1 DEF Adding
  <2> QED
    BY <2>1, <2>2 DEF CoveredInv, Forsaken
<1>2. ASSUME NEW k \in Subscribe, Gateway!SubscribeReply(k)
      PROVE  CoveredInv'
  <2>1. /\ tokenAccountSubscriptions' = tokenAccountSubscriptions
        /\ gatewayPc[k] = "reply" /\ gatewayPc'[k] # "failed"
        /\ \A j \in Subscribe \ {k} : gatewayPc'[j] = gatewayPc[j]
        /\ listeners \subseteq listeners'
    BY <1>2, ReplySteps DEF Gateway!SubscribeReply
  <2>2. \A w \in Watched :
          \/ logSubscriptions'[w] = logSubscriptions[w] /\ (Adding(w)' <=> Adding(w))
          \/ Adding(w)'
    BY <1>0, <1>2, <2>1, ReplySteps DEF Adding, Gateway!TypeOK
  <2> QED
    BY <2>1, <2>2 DEF CoveredInv, Forsaken
<1>3. ASSUME NEW k \in Subscribe, Gateway!SubscribeAccounts(k)
      PROVE  CoveredInv'
  <2>1. /\ logSubscriptions' = logSubscriptions
        /\ gatewayPc[k] = "accounts" /\ gatewayPc'[k] = "done"
        /\ \A j \in Subscribe \ {k} : gatewayPc'[j] = gatewayPc[j]
    BY <1>0, <1>3 DEF Gateway!SubscribeAccounts, Gateway!Goto, Gateway!TypeOK
  <2>2. /\ listeners \subseteq listeners'
        /\ \A a \in Gateway!Accounts(WatchedBy[k]) :
             \E l \in listeners' : l.wallet = WatchedBy[k] /\ l.on = a
        /\ \A v \in Watched \ {WatchedBy[k]} :
             tokenAccountSubscriptions'[v] = tokenAccountSubscriptions[v]
    BY <1>3, <2>1, AccountsSteps
  <2>3. ASSUME NEW w \in Watched, logSubscriptions[w] # Null, ~Adding(w)', ~Forsaken(w)',
               NEW on \in {Gateway!Logs} \cup Gateway!Accounts(w)
        PROVE  \E l \in listeners' : l.wallet = w /\ l.on = on
    <3>1. CASE w = WatchedBy[k]
      BY <2>2, <2>3, <3>1 DEF ListenersInv
    <3>2. CASE w # WatchedBy[k]
      <4>1. Adding(w)' <=> Adding(w)
        BY <2>1, <3>2 DEF Adding
      <4>2. Forsaken(w)' <=> Forsaken(w)
        BY <2>1, <2>2, <3>2, <4>1 DEF Forsaken
      <4> QED
        BY <2>2, <2>3, <4>1, <4>2 DEF CoveredInv
    <3> QED
      BY <3>1, <3>2
  <2> QED
    BY <2>1, <2>3 DEF CoveredInv
<1>4. ASSUME NEW c \in Client, Gateway!HandleDisconnect(c)
      PROVE  CoveredInv'
  <2>1. /\ gatewayPc' = gatewayPc
        /\ \A w \in Watched :
             /\ logSubscriptions'[w] \in {logSubscriptions[w], Null}
             /\ tokenAccountSubscriptions'[w] \in {tokenAccountSubscriptions[w], Null}
             /\ tokenAccountSubscriptions'[w] # tokenAccountSubscriptions[w] =>
                  logSubscriptions'[w] = Null \/ logSubscriptions'[w] = 0
    BY <1>4, DisconnectSteps DEF Gateway!HandleDisconnect
  <2>2. \A l \in listeners \ listeners' :
          \E w \in Watched :
            \/ logSubscriptions[w] = l.id /\ logSubscriptions'[w] = Null
            \/ tokenAccountSubscriptions[w] = l.id /\ tokenAccountSubscriptions'[w] = Null
    BY <1>4, DisconnectSteps
  <2>3. ASSUME NEW w \in Watched, logSubscriptions'[w] # Null, ~Adding(w)', ~Forsaken(w)',
               NEW on \in {Gateway!Logs} \cup Gateway!Accounts(w)
        PROVE  \E l \in listeners' : l.wallet = w /\ l.on = on
    <3>1. /\ logSubscriptions'[w] = logSubscriptions[w]
          /\ tokenAccountSubscriptions'[w] = tokenAccountSubscriptions[w]
          /\ ~Adding(w) /\ ~Forsaken(w)
      BY <2>1, <2>3 DEF Adding, Forsaken
    <3>2. PICK l \in listeners : l.wallet = w /\ l.on = on
      BY <2>3, <3>1 DEF CoveredInv
    <3>3. l.id # Null
      BY <1>0 DEF Listener
    <3>4. ASSUME NEW v \in Watched, logSubscriptions[v] = l.id, logSubscriptions'[v] = Null
          PROVE  FALSE
      <4>1. PICK m \in listeners : m.id = l.id /\ m.wallet = v
        BY <3>3, <3>4 DEF ListenersInv
      <4>2. m = l
        BY <4>1 DEF ListenersInv
      <4> QED
        BY <2>3, <3>1, <3>2, <3>4, <4>1, <4>2
    <3>5. ASSUME NEW v \in Watched, tokenAccountSubscriptions[v] = l.id,
                 tokenAccountSubscriptions'[v] = Null
          PROVE  FALSE
      BY <3>1, <3>2, <3>3, <3>5 DEF ListenersInv
    <3> QED
      BY <2>2, <3>2, <3>4, <3>5
  <2> QED
    BY <2>1, <2>3 DEF CoveredInv
<1>5. CASE UNCHANGED <<gatewayPc, logSubscriptions, tokenAccountSubscriptions, listeners>>
  BY <1>5 DEF CoveredInv, Adding, Forsaken
<1> QED
  BY <1>1, <1>2, <1>3, <1>4, <1>5
     DEF Gateway!Next, Gateway!Change, Gateway!CallbackRead, Gateway!CallbackEmit,
         Gateway!vars, Gateway!moving, Gateway!maps

LEMMA NextCurrentInv ==
  ASSUME GatewayAssumptions, GatewayTypeInv, ServedInv, watch.serial, ~watch.rpcFaults,
         CoveredInv,
         CurrentInv, [Gateway!Next]_(Gateway!vars)
  PROVE  CurrentInv'
<1>0. /\ \A k \in Subscribe : ClientOf[k] \in Client /\ WatchedBy[k] \in Watched
      /\ Null \notin Nat
      /\ listeners \subseteq Listener /\ callbacks \subseteq Answer
      /\ Gateway!TypeOK
  BY GatewayConstants DEF GatewayTypeInv
<1>1. ASSUME NEW k \in Subscribe, Gateway!SubscribeStart(k)
      PROVE  CurrentInv'
  <2>1. /\ UNCHANGED <<logSubscriptions, tokenAccountSubscriptions, seen, callbacks,
                       balance, told>>
        /\ gatewayPc[k] = "idle" /\ gatewayPc'[k] = "read"
        /\ \A j \in Subscribe \ {k} : gatewayPc'[j] = gatewayPc[j]
    BY <1>0, <1>1 DEF Gateway!SubscribeStart, Gateway!Goto, Gateway!TypeOK
  <2>2. /\ subscribedWallets'[WatchedBy[k]] =
             subscribedWallets[WatchedBy[k]] \cup {ClientOf[k]}
        /\ \A w \in Watched \ {WatchedBy[k]} : subscribedWallets'[w] = subscribedWallets[w]
    BY <1>0, <1>1 DEF Gateway!SubscribeStart, Gateway!TypeOK
  <2>3. \A w \in Watched : Adding(w)' <=> Adding(w)
    BY <2>1 DEF Adding
  <2>4. \A w \in Watched, c \in Client : Awaits(c, w) => Awaits(c, w)'
    BY <2>1 DEF Awaits
  <2>5. Awaits(ClientOf[k], WatchedBy[k])'
    BY <2>1 DEF Awaits
  <2>6. \A w \in Watched : Forsaken(w) => Forsaken(w)'
    BY <2>1, <2>3 DEF Forsaken
  <2>7. ASSUME NEW w \in Watched, NEW c \in subscribedWallets'[w]
        PROVE  /\ \E j \in Subscribe :
                    ClientOf[j] = c /\ WatchedBy[j] = w /\ gatewayPc'[j] # "idle"
               /\ told[c][w] = balance[w] \/ Awaits(c, w)' \/ Forsaken(w)'
    <3>1. CASE c = ClientOf[k] /\ w = WatchedBy[k]
      BY <2>1, <2>5, <3>1
    <3>2. CASE ~(c = ClientOf[k] /\ w = WatchedBy[k])
      <4>1. c \in subscribedWallets[w] /\ c \in Client
        BY <1>0, <2>2, <2>7, <3>2 DEF Gateway!TypeOK
      <4>2. PICK j \in Subscribe :
              ClientOf[j] = c /\ WatchedBy[j] = w /\ gatewayPc[j] # "idle"
        BY <4>1 DEF CurrentInv
      <4>3. gatewayPc'[j] # "idle"
        BY <2>1, <4>2
      <4> QED
        BY <2>4, <2>6, <4>1, <4>2, <4>3 DEF CurrentInv
    <3> QED
      BY <3>1, <3>2
  <2>8. \A j \in Subscribe : gatewayPc'[j] = "reply" => seen[j] = balance[WatchedBy[j]]
    BY <2>1 DEF CurrentInv
  <2> QED
    BY <2>1, <2>7, <2>8 DEF CurrentInv
<1>2. ASSUME NEW k \in Subscribe, Gateway!SubscribeRead(k)
      PROVE  CurrentInv'
  <2>1. /\ UNCHANGED <<subscribedWallets, logSubscriptions, tokenAccountSubscriptions,
                       callbacks, balance, told>>
        /\ gatewayPc[k] = "read"
        /\ gatewayPc'[k] = "reply"
        /\ seen'[k] = balance[WatchedBy[k]]
        /\ \A j \in Subscribe \ {k} : gatewayPc'[j] = gatewayPc[j] /\ seen'[j] = seen[j]
    BY <1>0, <1>2 DEF Gateway!SubscribeRead, Gateway!Goto, Gateway!TypeOK, Gateway!maps
  <2>2. \A w \in Watched : Adding(w)' <=> Adding(w)
    BY <2>1 DEF Adding
  <2>3. \A w \in Watched, c \in Client : Awaits(c, w) => Awaits(c, w)'
    BY <2>1 DEF Awaits
  <2> QED
    BY <1>0, <2>1, <2>2, <2>3 DEF CurrentInv, Forsaken, Gateway!TypeOK
<1>3. ASSUME NEW k \in Subscribe, Gateway!SubscribeReply(k)
      PROVE  CurrentInv'
  <2>1. /\ UNCHANGED <<subscribedWallets, tokenAccountSubscriptions, seen, callbacks,
                      balance>>
        /\ gatewayPc[k] = "reply" /\ gatewayPc'[k] \in {"accounts", "done"}
        /\ \A j \in Subscribe \ {k} : gatewayPc'[j] = gatewayPc[j]
    BY <1>3, ReplySteps DEF Gateway!SubscribeReply
  <2>2. \A w \in Watched, c \in Client :
          told'[c][w] = IF c = ClientOf[k] /\ c \notin gone /\ w = WatchedBy[k]
                          THEN seen[k] ELSE told[c][w]
    BY <1>0, <1>3 DEF Gateway!SubscribeReply, Gateway!Tell, Gateway!TypeOK
  <2>3. \A w \in Watched : Forsaken(w) => Forsaken(w)'
    BY <1>0, <1>3, <2>1, ReplySteps DEF Forsaken, Adding, Gateway!TypeOK
  <2>4. ASSUME NEW w \in Watched, NEW c \in subscribedWallets[w]
        PROVE  told'[c][w] = balance[w] \/ Awaits(c, w)' \/ Forsaken(w)'
    <3>1. c \in Client /\ c \notin gone
      BY <1>0, <2>4 DEF ServedInv, SubscribersInv, Gateway!TypeOK
    <3>2. CASE c = ClientOf[k] /\ w = WatchedBy[k]
      BY <2>1, <2>2, <3>1, <3>2 DEF CurrentInv
    <3>3. CASE ~(c = ClientOf[k] /\ w = WatchedBy[k])
      <4>1. Awaits(c, w) => Awaits(c, w)'
        BY <2>1, <3>3 DEF Awaits
      <4> QED
        BY <2>2, <2>3, <2>4, <3>1, <3>3, <4>1 DEF CurrentInv
    <3> QED
      BY <3>2, <3>3
  <2> QED
    BY <2>1, <2>4 DEF CurrentInv
<1>4. ASSUME NEW k \in Subscribe, Gateway!SubscribeAccounts(k)
      PROVE  CurrentInv'
  <2>1. /\ UNCHANGED <<subscribedWallets, logSubscriptions, seen, callbacks, balance, told>>
        /\ gatewayPc[k] = "accounts" /\ gatewayPc'[k] = "done"
        /\ \A j \in Subscribe \ {k} : gatewayPc'[j] = gatewayPc[j]
    BY <1>0, <1>4 DEF Gateway!SubscribeAccounts, Gateway!Goto, Gateway!TypeOK
  <2>2. \A v \in Watched \ {WatchedBy[k]} :
          tokenAccountSubscriptions'[v] = tokenAccountSubscriptions[v]
    BY <1>4, <2>1, AccountsSteps
  <2>3. \A w \in Watched : Forsaken(w) => Forsaken(w)'
    BY <2>1, <2>2 DEF Forsaken, Adding
  <2>4. \A w \in Watched, c \in Client : Awaits(c, w) => Awaits(c, w)'
    BY <2>1 DEF Awaits
  <2> QED
    BY <1>0, <2>1, <2>3, <2>4 DEF CurrentInv, Gateway!TypeOK
<1>5. ASSUME NEW c \in Client, Gateway!HandleDisconnect(c)
      PROVE  CurrentInv'
  <2>1. /\ UNCHANGED <<gatewayPc, seen, callbacks, balance, told>>
        /\ \A w \in Watched :
             /\ subscribedWallets'[w] \subseteq subscribedWallets[w]
             /\ logSubscriptions[w] = 0 => logSubscriptions'[w] = 0
             /\ tokenAccountSubscriptions'[w] \in {tokenAccountSubscriptions[w], Null}
    BY <1>5, DisconnectSteps DEF Gateway!HandleDisconnect
  <2>2. \A w \in Watched : Forsaken(w) => Forsaken(w)'
    BY <2>1 DEF Forsaken, Adding
  <2>3. \A w \in Watched, d \in Client : Awaits(d, w) => Awaits(d, w)'
    BY <2>1 DEF Awaits
  <2> QED
    BY <1>0, <2>1, <2>2, <2>3 DEF CurrentInv, Gateway!TypeOK
<1>6. ASSUME NEW w \in Watched, NEW on \in {Gateway!Logs} \cup Gateway!Accounts(w),
             Gateway!Change(w, on)
      PROVE  CurrentInv'
  <2>1. /\ UNCHANGED <<gatewayPc, subscribedWallets, logSubscriptions,
                      tokenAccountSubscriptions,
                       seen, told>>
        /\ \A v \in Watched \ {w} : balance'[v] = balance[v]
    BY <1>0, <1>6 DEF Gateway!Change, Gateway!TypeOK, Gateway!maps
  <2>2. \A k \in Subscribe : gatewayPc[k] \in {"idle", "done"}
    BY <1>6 DEF Gateway!Change, Gateway!Underway, CoveredInv
  <2>3. /\ callbacks = {}
        /\ callbacks' = {[wallet |-> l.wallet, seen |-> Null] :
                           l \in {l \in listeners : l.wallet = w /\ l.on = on}}
    BY <1>6 DEF Gateway!Change, Gateway!Underway
  <2>4. \A v \in Watched : Forsaken(v) => Forsaken(v)'
    BY <2>1 DEF Forsaken, Adding
  <2>5. \A b \in callbacks' : b.seen = Null
    BY <2>3
  <2>6. ASSUME NEW c \in subscribedWallets[w], ~Forsaken(w)
        PROVE  Awaits(c, w)'
    <3>1. logSubscriptions[w] # Null /\ ~Adding(w)
      BY <2>2, <2>6 DEF CurrentInv, ServedInv, SubscribersInv, Adding
    <3>2. PICK l \in listeners : l.wallet = w /\ l.on = on
      BY <2>6, <3>1 DEF CoveredInv
    <3>3. [wallet |-> l.wallet, seen |-> Null] \in callbacks'
      BY <2>3, <3>2
    <3> QED
      BY <3>2, <3>3 DEF Awaits
  <2>7. ASSUME NEW v \in Watched, NEW c \in subscribedWallets[v]
        PROVE  told[c][v] = balance'[v] \/ Awaits(c, v)' \/ Forsaken(v)'
    <3>1. CASE v = w
      BY <2>4, <2>6, <2>7, <3>1
    <3>2. CASE v # w
      <4>1. ~Awaits(c, v)
        BY <2>2, <2>3 DEF Awaits
      <4> QED
        BY <2>1, <2>4, <2>7, <3>2, <4>1 DEF CurrentInv
    <3> QED
      BY <3>1, <3>2
  <2> QED
    BY <2>1, <2>2, <2>5, <2>7 DEF CurrentInv
<1>7. ASSUME NEW b \in callbacks, Gateway!CallbackRead(b)
      PROVE  CurrentInv'
  <2>1. /\ UNCHANGED <<gatewayPc, subscribedWallets, logSubscriptions,
                      tokenAccountSubscriptions,
                       seen, balance, told>>
        /\ callbacks' = (callbacks \ {b}) \cup {[b EXCEPT !.seen = balance[b.wallet]]}
    BY <1>7 DEF Gateway!CallbackRead, Gateway!maps
  <2>2. PICK d : /\ callbacks' = (callbacks \ {b}) \cup {d}
                 /\ d.wallet = b.wallet /\ d.seen = balance[b.wallet]
    <3>1. [b EXCEPT !.seen = balance[b.wallet]] = [wallet |-> b.wallet,
                                                   seen   |-> balance[b.wallet]]
      BY <1>0 DEF Answer
    <3> QED
      BY <2>1, <3>1
  <2>3. \A w \in Watched, c \in Client : Awaits(c, w) => Awaits(c, w)'
    BY <2>1, <2>2 DEF Awaits
  <2>4. \A w \in Watched : Forsaken(w) => Forsaken(w)'
    BY <2>1 DEF Forsaken, Adding
  <2>5. \A a \in callbacks' : a.seen # Null => a.seen = balance[a.wallet]
    BY <2>2 DEF CurrentInv
  <2> QED
    BY <1>0, <2>1, <2>3, <2>4, <2>5 DEF CurrentInv, Gateway!TypeOK
<1>8. ASSUME NEW b \in callbacks, Gateway!CallbackEmit(b)
      PROVE  CurrentInv'
  <2>1. /\ UNCHANGED <<gatewayPc, subscribedWallets, logSubscriptions,
                      tokenAccountSubscriptions,
                       seen, balance>>
        /\ callbacks' = callbacks \ {b}
        /\ b.seen # Null /\ b.wallet \in Watched
    BY <1>0, <1>8 DEF Gateway!CallbackEmit, Answer, Gateway!maps
  <2>2. \A w \in Watched, c \in Client :
          told'[c][w] = IF c \in subscribedWallets[b.wallet] \ gone /\ w = b.wallet
                          THEN b.seen ELSE told[c][w]
    BY <1>0, <1>8 DEF Gateway!CallbackEmit, Gateway!Tell, Gateway!TypeOK
  <2>3. \A w \in Watched : Forsaken(w) => Forsaken(w)'
    BY <2>1 DEF Forsaken, Adding
  <2>4. ASSUME NEW w \in Watched, NEW c \in subscribedWallets[w]
        PROVE  told'[c][w] = balance[w] \/ Awaits(c, w)' \/ Forsaken(w)'
    <3>1. c \in Client /\ c \notin gone
      BY <1>0, <2>4 DEF ServedInv, SubscribersInv, Gateway!TypeOK
    <3>2. CASE w = b.wallet
      BY <2>1, <2>2, <2>4, <3>1, <3>2 DEF CurrentInv
    <3>3. CASE w # b.wallet
      <4>1. Awaits(c, w) => Awaits(c, w)'
        BY <2>1, <3>3 DEF Awaits
      <4> QED
        BY <2>2, <2>3, <2>4, <3>1, <3>3, <4>1 DEF CurrentInv
    <3> QED
      BY <3>2, <3>3
  <2> QED
    BY <2>1, <2>4 DEF CurrentInv
<1>9. CASE UNCHANGED Gateway!vars
  BY <1>9
     DEF Gateway!vars, Gateway!moving, Gateway!maps, CurrentInv, Awaits, Forsaken, Adding
<1> QED
  BY <1>1, <1>2, <1>3, <1>4, <1>5, <1>6, <1>7, <1>8, <1>9 DEF Gateway!Next

\* When calls, changes and callbacks come one at a time and no RPC fails, every
\* subscriber has been told the present balance, but in the wallet to which only the
\* listener with the number 0 is left.
THEOREM ToldIsCurrent ==
  ASSUME GatewayAssumptions
  PROVE  Gateway!Spec => []SerialToldIsCurrent
<1>1. Gateway!Init => GatewayTypeInv /\ ServedInv /\ ToldInv
  <2>1. Gateway!Init => ToldInv
    BY DEF Gateway!Init, ToldInv, CoveredInv, CurrentInv
  <2> QED
    BY <2>1, InitGatewayTypeInv, InitServedInv
<1>2. GatewayTypeInv /\ ServedInv /\ ToldInv /\ [Gateway!Next]_(Gateway!vars)
        => (GatewayTypeInv /\ ServedInv /\ ToldInv)'
  <2>1. ASSUME GatewayTypeInv, ServedInv, ToldInv, [Gateway!Next]_(Gateway!vars)
        PROVE  ToldInv'
    <3>1. watch' = watch
      BY <2>1 DEF Gateway!Next, Gateway!vars
    <3>2. CASE watch.serial /\ ~watch.rpcFaults
      BY <2>1, <3>2, NextCoveredInv, NextCurrentInv DEF ToldInv, ServedInv
    <3>3. CASE ~(watch.serial /\ ~watch.rpcFaults)
      BY <3>1, <3>3 DEF ToldInv
    <3> QED
      BY <3>2, <3>3
  <2> QED
    BY <2>1, NextGatewayTypeInv, NextListenersInv, NextSubscribersInv DEF ServedInv
<1>3. ToldInv => SerialToldIsCurrent
  BY DEF ToldInv, CoveredInv, CurrentInv, SerialToldIsCurrent,
         Gateway!SerialToldIsCurrent, Gateway!Underway, Awaits, Forsaken
<1> QED
  BY <1>1, <1>2, <1>3, PTL DEF Gateway!Spec

-----------------------------------------------------------------------------
(* The stored wallet, for any refreshes, choices and balances.             *)

StoredTypeInv ==
  /\ Stored!TypeOK
  /\ \A r \in Refresh : walletPc[r] = "read" => unread[r] # <<>>
  /\ \A h \in Choice : walletPc[h] # "read"

LEMMA UpdatedType ==
  ASSUME Stored!TypeOK, NEW h \in Stored!Handler
  PROVE  /\ Stored!Updated(h) \in Stored!Row
         /\ Stored!Updated(h).type \in {walletEntity[h].type, wallet.type}
BY DEF Stored!Updated, Stored!TypeOK, Stored!Row

\* What is read goes into the entity, and is one balance less to read.
LEMMA ReadStep ==
  ASSUME Stored!StoredWalletsAssumption, StoredTypeInv, NEW r \in Refresh, Stored!Read(r)
  PROVE  /\ unread'[r] \in Seq(Stored!Coin)
         /\ Head(unread[r]) \in Stored!Coin
         /\ \A c \in Stored!Coin \ {Head(unread[r])} :
              (\E i \in DOMAIN unread[r] : unread[r][i] = c)
                => \E i \in DOMAIN unread'[r] : unread'[r][i] = c
         /\ walletEntity'[r] \in Stored!Row /\ walletEntity'[r].type = walletEntity[r].type
         /\ walletEntity'[r].balance[Head(unread[r])] = height
         /\ \A c \in Stored!Coin \ {Head(unread[r])} :
              walletEntity'[r].balance[c] = walletEntity[r].balance[c]
         /\ \A h \in Stored!Handler \ {r} : walletEntity'[h] = walletEntity[h]
         /\ \A q \in Refresh \ {r} : unread'[q] = unread[q]
         /\ walletPc'[r] = IF unread'[r] = <<>> THEN "select" ELSE "read"
<1> DEFINE s == unread[r]
           c0 == Head(s)
<1>1. s \in Seq(Stored!Coin) /\ s # <<>>
  BY DEF StoredTypeInv, Stored!TypeOK, Stored!Read
<1>2. unread'[r] = Tail(s) /\ \A q \in Refresh \ {r} : unread'[q] = unread[q]
  BY DEF Stored!Read, StoredTypeInv, Stored!TypeOK
<1>3. c0 \in Stored!Coin /\ Tail(s) \in Seq(Stored!Coin)
  BY <1>1
<1>4. ASSUME NEW c \in Stored!Coin \ {c0}, NEW i \in DOMAIN s, s[i] = c
      PROVE  \E j \in DOMAIN Tail(s) : Tail(s)[j] = c
  <2>1. i \in 1..Len(s) /\ i # 1
    BY <1>1, <1>4
  <2>2. i - 1 \in DOMAIN Tail(s) /\ Tail(s)[i - 1] = s[i]
    BY <1>1, <2>1
  <2> QED
    BY <1>4, <2>2
<1>5. /\ walletEntity[r] \in Stored!Row /\ r \in Stored!Handler /\ height \in 0..MaxHeight
      /\ walletEntity \in [Stored!Handler -> Stored!Row]
  BY DEF StoredTypeInv, Stored!TypeOK, Stored!Handler
<1>6. walletEntity' =
        [walletEntity EXCEPT
           ![r] = [walletEntity[r] EXCEPT !.balance = [@ EXCEPT ![c0] = height]]]
  BY DEF Stored!Read
<1>7. /\ walletEntity'[r] = [walletEntity[r] EXCEPT !.balance = [@ EXCEPT ![c0] = height]]
      /\ \A h \in Stored!Handler \ {r} : walletEntity'[h] = walletEntity[h]
  BY <1>5, <1>6
<1>8. walletPc'[r] = IF Tail(s) = <<>> THEN "select" ELSE "read"
  BY <1>5 DEF Stored!Read, Stored!Goto, StoredTypeInv, Stored!TypeOK
<1> HIDE DEF c0, s
<1>9. /\ walletEntity'[r] \in Stored!Row /\ walletEntity'[r].type = walletEntity[r].type
      /\ walletEntity'[r].balance[c0] = height
      /\ \A c \in Stored!Coin \ {c0} :
           walletEntity'[r].balance[c] = walletEntity[r].balance[c]
  <2> DEFINE b == [walletEntity[r].balance EXCEPT ![c0] = height]
  <2>1. /\ walletEntity[r].balance \in [Stored!Coin -> 0..MaxHeight]
        /\ walletEntity[r].type \in Stored!Type
        /\ walletEntity[r] =
             [type |-> walletEntity[r].type, balance |-> walletEntity[r].balance]
    BY <1>5 DEF Stored!Row
  <2>2. /\ b \in [Stored!Coin -> 0..MaxHeight] /\ b[c0] = height
        /\ \A c \in Stored!Coin \ {c0} : b[c] = walletEntity[r].balance[c]
    BY <1>3, <1>5, <2>1
  <2>3. walletEntity'[r] = [walletEntity[r] EXCEPT !.balance = b]
    BY <1>7
  <2> HIDE DEF b
  <2>4. walletEntity'[r] = [type |-> walletEntity[r].type, balance |-> b]
    BY <2>1, <2>3
  <2> QED
    BY <2>1, <2>2, <2>4 DEF Stored!Row
<1> QED
  BY <1>2, <1>3, <1>4, <1>7, <1>8, <1>9 DEF c0, s

LEMMA InitStoredTypeInv ==
  ASSUME Stored!StoredWalletsAssumption
  PROVE  Stored!Init => StoredTypeInv
<1> SUFFICES ASSUME Stored!Init
             PROVE  StoredTypeInv
  OBVIOUS
<1>1. Stored!NewRow \in Stored!Row /\ <<>> \in Seq(Stored!Coin)
  BY DEF Stored!NewRow, Stored!Row, Stored!Type, Stored!StoredWalletsAssumption
<1> QED
  BY <1>1
     DEF Stored!Init, StoredTypeInv, Stored!TypeOK, Stored!Resting, Stored!Handler,
         Stored!Type, Stored!StoredWalletsAssumption

\* A step is a moment that passes or one of a handler.
LEMMA StoredSteps ==
  ASSUME [Stored!Next]_(Stored!vars)
  PROVE  \/ Stored!Tick \/ UNCHANGED Stored!vars
         \/ \E h \in Stored!Handler :
              \/ Stored!Load(h) \/ Stored!SaveSelect(h)
              \/ Stored!SaveUpdate(h) \/ Stored!QueryFails(h)
         \/ \E r \in Refresh : Stored!Read(r) \/ Stored!ReadFails(r)
BY DEF Stored!Next, Stored!FindOne, Stored!UpdateWalletType, Stored!Handler

LEMMA NextStoredTypeInv ==
  ASSUME Stored!StoredWalletsAssumption
  PROVE  StoredTypeInv /\ [Stored!Next]_(Stored!vars) => StoredTypeInv'
<1> SUFFICES ASSUME StoredTypeInv, [Stored!Next]_(Stored!vars)
             PROVE  StoredTypeInv'
  OBVIOUS
<1>a. /\ MaxHeight \in Nat
      /\ Coins \in Seq(Stored!Coin)
      /\ Coins # <<>>
      /\ Refresh \cap Choice = {}
  BY DEF Stored!StoredWalletsAssumption
<1>1. CASE Stored!Tick
  BY <1>1, <1>a DEF Stored!Tick, StoredTypeInv, Stored!TypeOK
<1>2. ASSUME NEW h \in Stored!Handler, Stored!Load(h)
      PROVE  StoredTypeInv'
  <2>1. CASE h \in Refresh
    <3>1. /\ walletEntity' = [walletEntity EXCEPT ![h] = wallet]
          /\ unread' = [unread EXCEPT ![h] = Coins]
          /\ walletPc' = [walletPc EXCEPT ![h] = "read"]
          /\ began' = [began EXCEPT ![h] = height] /\ others' = [others EXCEPT ![h] = {}]
          /\ UNCHANGED <<height, wallet, walletBase, saver, chosen, overtaken>>
      BY <1>2, <2>1 DEF Stored!Load, Stored!Goto
    <3> QED
      BY <1>a, <2>1, <3>1 DEF StoredTypeInv, Stored!TypeOK, Stored!Handler
  <2>2. CASE h \notin Refresh
    <3>1. PICK t \in Stored!Type :
            /\ walletEntity' = [walletEntity EXCEPT ![h] = [wallet EXCEPT !.type = t]]
            /\ walletPc' = [walletPc EXCEPT ![h] = "select"]
            /\ began' = [began EXCEPT ![h] = height] /\ others' = [others EXCEPT ![h] = {}]
            /\ UNCHANGED <<height, wallet, walletBase, saver, chosen, overtaken, unread>>
      BY <1>2, <2>2 DEF Stored!Load, Stored!Goto
    <3>2. [wallet EXCEPT !.type = t] \in Stored!Row
      BY DEF StoredTypeInv, Stored!TypeOK, Stored!Row
    <3> QED
      BY <1>a, <2>2, <3>1, <3>2 DEF StoredTypeInv, Stored!TypeOK, Stored!Handler
  <2> QED
    BY <2>1, <2>2
<1>3. ASSUME NEW h \in Stored!Handler, Stored!SaveSelect(h)
      PROVE  StoredTypeInv'
  BY <1>3 DEF Stored!SaveSelect, Stored!Goto, StoredTypeInv, Stored!TypeOK
<1>4. ASSUME NEW h \in Stored!Handler, Stored!SaveUpdate(h)
      PROVE  StoredTypeInv'
  <2>1. Stored!Updated(h) \in Stored!Row /\ walletEntity[h].type \in Stored!Type
    BY UpdatedType DEF StoredTypeInv, Stored!TypeOK, Stored!Row
  <2> QED
    BY <1>4, <2>1
       DEF Stored!SaveUpdate, Stored!Goto, StoredTypeInv, Stored!TypeOK, Stored!Resting,
           Stored!Handler
<1>5. ASSUME NEW h \in Stored!Handler, Stored!QueryFails(h)
      PROVE  StoredTypeInv'
  BY <1>5
     DEF Stored!QueryFails, Stored!Goto, StoredTypeInv, Stored!TypeOK, Stored!Resting
<1>6. ASSUME NEW r \in Refresh, Stored!Read(r)
      PROVE  StoredTypeInv'
  <2>1. /\ walletEntity' \in [Stored!Handler -> Stored!Row]
        /\ unread' \in [Refresh -> Seq(Stored!Coin)]
    BY <1>6, ReadStep DEF Stored!Read, StoredTypeInv, Stored!TypeOK
  <2>2. walletPc' \in [Stored!Handler -> Stored!Resting \cup {"read", "select", "update"}]
    BY <1>6 DEF Stored!Read, Stored!Goto, StoredTypeInv, Stored!TypeOK
  <2>3. /\ \A q \in Refresh : walletPc'[q] = "read" => unread'[q] # <<>>
        /\ \A h \in Choice : walletPc'[h] # "read"
    BY <1>6, <1>a, ReadStep
       DEF Stored!Read, Stored!Goto, StoredTypeInv, Stored!TypeOK, Stored!Handler
  <2> QED
    BY <1>6, <2>1, <2>2, <2>3 DEF Stored!Read, StoredTypeInv, Stored!TypeOK
<1>7. ASSUME NEW r \in Refresh, Stored!ReadFails(r)
      PROVE  StoredTypeInv'
  BY <1>7
     DEF Stored!ReadFails, Stored!Goto, StoredTypeInv, Stored!TypeOK, Stored!Resting,
         Stored!Handler
<1>8. CASE UNCHANGED Stored!vars
  BY <1>8 DEF Stored!vars, StoredTypeInv, Stored!TypeOK
<1> QED
  BY <1>1, <1>2, <1>3, <1>4, <1>5, <1>6, <1>7, <1>8, StoredSteps

\* Every variable of the stored wallet has its type.
THEOREM StoredTypeCorrect ==
  ASSUME Stored!StoredWalletsAssumption
  PROVE  Stored!Spec => []Stored!TypeOK
<1>1. StoredTypeInv => Stored!TypeOK
  BY DEF StoredTypeInv
<1> QED
  BY <1>1, InitStoredTypeInv, NextStoredTypeInv, PTL DEF Stored!Spec

\* Who saved last is done; what a refresh has read is no older than its begin.
ReadInv ==
  /\ \A r \in saver : r \in Refresh /\ walletPc[r] = "done"
  /\ \A h \in Stored!Handler : began[h] <= height
  /\ \A r \in Refresh, c \in Stored!Coin :
       walletPc[r] \in {"read", "select", "update"} =>
         \/ walletEntity[r].balance[c] >= began[r]
         \/ walletPc[r] = "read" /\ \E i \in DOMAIN unread[r] : unread[r][i] = c

\* A choice that no refresh has overtaken holds the balances of the row, and a
\* refresh that no choice has overtaken its type; a choice nobody has overtaken
\* has selected the row as it is.
HeldInv ==
  /\ \A h \in Choice :
       /\ walletPc[h] \in {"select", "update"}
       /\ others[h] \cap Refresh = {} /\ "balance" \notin overtaken
       => walletEntity[h].balance = wallet.balance
  /\ \A r \in Refresh :
       /\ walletPc[r] \in {"read", "select", "update"}
       /\ others[r] \cap Choice = {} /\ "type" \notin overtaken
       => walletEntity[r].type = wallet.type
  /\ \A h \in Choice : walletPc[h] = "update" /\ others[h] = {} => walletBase[h] = wallet

RecentInv == ReadInv /\ HeldInv /\ Stored!StoredWalletIsRecent

LEMMA NextReadInv ==
  ASSUME Stored!StoredWalletsAssumption, StoredTypeInv, StoredTypeInv', ReadInv,
         [Stored!Next]_(Stored!vars)
  PROVE  ReadInv'
<1>a. /\ MaxHeight \in Nat /\ Refresh \cap Choice = {} /\ Refresh \subseteq Stored!Handler
      /\ height \in 0..MaxHeight
      /\ \A c \in Stored!Coin : \E i \in DOMAIN Coins : Coins[i] = c
      /\ \A h \in Stored!Handler : began[h] \in 0..MaxHeight
      /\ \A h \in Stored!Handler, c \in Stored!Coin :
           walletEntity[h].balance[c] \in 0..MaxHeight
  <2>1. \A c \in Stored!Coin : \E i \in DOMAIN Coins : Coins[i] = c
    BY DEF Stored!Coin
  <2>2. \A h \in Stored!Handler : walletEntity[h].balance \in [Stored!Coin -> 0..MaxHeight]
    BY DEF StoredTypeInv, Stored!TypeOK, Stored!Row
  <2> QED
    BY <2>1, <2>2
       DEF Stored!StoredWalletsAssumption, Stored!Handler, StoredTypeInv, Stored!TypeOK
<1>1. CASE Stored!Tick
  BY <1>1, <1>a DEF Stored!Tick, ReadInv
<1>2. ASSUME NEW h \in Stored!Handler, Stored!Load(h)
      PROVE  ReadInv'
  <2>1. /\ walletPc[h] = "idle"
        /\ \A g \in Stored!Handler \ {h} :
             /\ walletPc'[g] = walletPc[g]
             /\ walletEntity'[g] = walletEntity[g]
             /\ began'[g] = began[g]
        /\ \A r \in Refresh \ {h} : unread'[r] = unread[r]
        /\ began'[h] = height /\ height' = height /\ saver' = saver
        /\ h \in Refresh => walletPc'[h] = "read" /\ unread'[h] = Coins
    BY <1>2, <1>a DEF Stored!Load, Stored!Goto, StoredTypeInv, Stored!TypeOK
  <2> QED
    BY <1>a, <2>1 DEF ReadInv
<1>3. ASSUME NEW h \in Stored!Handler, Stored!SaveSelect(h) \/ Stored!QueryFails(h)
      PROVE  ReadInv'
  <2>1. /\ walletPc[h] \in {"select", "update"} /\ walletPc'[h] \in {"update", "done"}
        /\ \A g \in Stored!Handler \ {h} : walletPc'[g] = walletPc[g]
        /\ UNCHANGED <<height, unread, walletEntity, began, saver>>
    BY <1>3, <1>a
       DEF Stored!SaveSelect, Stored!QueryFails, Stored!Goto, StoredTypeInv,
           Stored!TypeOK
  <2> QED
    BY <1>a, <2>1 DEF ReadInv
<1>4. ASSUME NEW h \in Stored!Handler, Stored!SaveUpdate(h)
      PROVE  ReadInv'
  BY <1>4, <1>a
     DEF Stored!SaveUpdate, Stored!Goto, ReadInv, StoredTypeInv, Stored!TypeOK
<1>5. ASSUME NEW r \in Refresh, Stored!Read(r)
      PROVE  ReadInv'
  <2>1. /\ walletPc[r] = "read" /\ UNCHANGED <<height, began, saver>>
        /\ \A h \in Stored!Handler \ {r} : walletPc'[h] = walletPc[h]
        /\ walletPc'[r] \in {"read", "select"}
        /\ walletPc'[r] = "select" => unread'[r] = <<>>
    BY <1>5, <1>a, ReadStep DEF Stored!Read, Stored!Goto, StoredTypeInv, Stored!TypeOK
  <2>2. ASSUME NEW c \in Stored!Coin
        PROVE  \/ walletEntity'[r].balance[c] >= began'[r]
               \/ walletPc'[r] = "read" /\ \E i \in DOMAIN unread'[r] : unread'[r][i] = c
    <3>1. CASE c = Head(unread[r])
      BY <1>5, <1>a, <2>1, <3>1, ReadStep DEF ReadInv
    <3>2. CASE c # Head(unread[r])
      BY <1>5, <1>a, <2>1, <3>2, ReadStep DEF ReadInv
    <3> QED
      BY <3>1, <3>2
  <2>3. /\ \A h \in Stored!Handler \ {r} : walletEntity'[h] = walletEntity[h]
        /\ \A q \in Refresh \ {r} : unread'[q] = unread[q]
    BY <1>5, ReadStep
  <2>4. \A q \in saver' : q \in Refresh /\ walletPc'[q] = "done"
    BY <1>a, <2>1 DEF ReadInv
  <2> QED
    BY <1>a, <2>1, <2>2, <2>3, <2>4 DEF ReadInv
<1>6. ASSUME NEW r \in Refresh, Stored!ReadFails(r)
      PROVE  ReadInv'
  BY <1>6, <1>a DEF Stored!ReadFails, Stored!Goto, ReadInv, StoredTypeInv, Stored!TypeOK
<1>7. CASE UNCHANGED Stored!vars
  BY <1>7 DEF Stored!vars, ReadInv
<1> QED
  BY <1>1, <1>2, <1>3, <1>4, <1>5, <1>6, <1>7, StoredSteps

\* What the save of a handler leaves of the row.
LEMMA SaveLeaves ==
  ASSUME Stored!StoredWalletsAssumption, StoredTypeInv, HeldInv,
         NEW h \in Stored!Handler, Stored!SaveUpdate(h)
  PROVE  /\ h \in Refresh => wallet'.balance = walletEntity[h].balance
         /\ h \in Choice /\ "balance" \notin overtaken' =>
              wallet'.balance = wallet.balance /\ "balance" \notin overtaken
         /\ h \in Refresh /\ "type" \notin overtaken' =>
              wallet'.type = wallet.type /\ "type" \notin overtaken
         /\ h \in Choice /\ "type" \notin overtaken' => wallet'.type = walletEntity[h].type
<1>a. /\ h \in Refresh \/ h \in Choice
      /\ ~(h \in Refresh /\ h \in Choice)
  BY DEF Stored!StoredWalletsAssumption, Stored!Handler
<1>b. walletPc[h] = "update" /\ wallet' = Stored!Updated(h)
  BY DEF Stored!SaveUpdate
<1>c. /\ wallet.balance \in [Stored!Coin -> 0..MaxHeight]
      /\ walletEntity[h].balance \in [Stored!Coin -> 0..MaxHeight]
      /\ others[h] \subseteq Stored!Handler
  BY DEF StoredTypeInv, Stored!TypeOK, Stored!Row
<1>1. h \in Refresh => wallet'.balance = walletEntity[h].balance
  BY <1>b, <1>c DEF Stored!Updated
<1>2. ASSUME h \in Choice, "balance" \notin overtaken'
      PROVE  wallet'.balance = wallet.balance /\ "balance" \notin overtaken
  <2>1. "balance" \notin overtaken /\ others[h] \cap Refresh = {}
    BY <1>2, <1>a DEF Stored!SaveUpdate
  <2>2. walletEntity[h].balance = wallet.balance
    BY <1>2, <1>b, <2>1 DEF HeldInv
  <2>3. wallet'.balance = [c \in Stored!Coin |-> wallet.balance[c]]
    BY <1>b, <2>2 DEF Stored!Updated
  <2> QED
    BY <1>c, <2>1, <2>3
<1>3. ASSUME h \in Refresh, "type" \notin overtaken'
      PROVE  wallet'.type = wallet.type /\ "type" \notin overtaken
  <2>1. "type" \notin overtaken /\ others[h] \cap Choice = {}
    BY <1>3, <1>a DEF Stored!SaveUpdate
  <2> QED
    BY <1>3, <1>b, <2>1 DEF HeldInv, Stored!Updated
<1>4. ASSUME h \in Choice, "type" \notin overtaken'
      PROVE  wallet'.type = walletEntity[h].type
  <2>1. others[h] \cap Stored!Handler = {}
    BY <1>4, <1>a DEF Stored!SaveUpdate
  <2>2. walletBase[h] = wallet
    BY <1>4, <1>b, <1>c, <2>1 DEF HeldInv
  <2> QED
    BY <1>b, <2>2 DEF Stored!Updated
<1> QED
  BY <1>1, <1>2, <1>3, <1>4

LEMMA NextHeldInv ==
  ASSUME Stored!StoredWalletsAssumption, StoredTypeInv, HeldInv, [Stored!Next]_(Stored!vars)
  PROVE  HeldInv'
<1>a. /\ Refresh \cap Choice = {}
      /\ Refresh \subseteq Stored!Handler /\ Choice \subseteq Stored!Handler
      /\ \A h \in Stored!Handler : h \in Refresh \/ h \in Choice
  BY DEF Stored!StoredWalletsAssumption, Stored!Handler
<1>1. CASE Stored!Tick
  BY <1>1 DEF Stored!Tick, HeldInv
<1>2. ASSUME NEW h \in Stored!Handler, Stored!Load(h)
      PROVE  HeldInv'
  <2>1. /\ \A g \in Stored!Handler \ {h} :
             /\ walletPc'[g] = walletPc[g] /\ walletEntity'[g] = walletEntity[g]
             /\ others'[g] = others[g]
        /\ UNCHANGED <<wallet, walletBase, overtaken>>
        /\ walletPc'[h] \in {"read", "select"}
    BY <1>2, <1>a DEF Stored!Load, Stored!Goto, StoredTypeInv, Stored!TypeOK
  <2>2. h \in Refresh => walletEntity'[h] = wallet
    BY <1>2 DEF Stored!Load, StoredTypeInv, Stored!TypeOK
  <2>3. h \in Choice => walletEntity'[h].balance = wallet.balance
    <3>1. \A t : [wallet EXCEPT !.type = t].balance = wallet.balance
      BY DEF StoredTypeInv, Stored!TypeOK, Stored!Row
    <3> SUFFICES ASSUME h \in Choice
                 PROVE  walletEntity'[h].balance = wallet.balance
      OBVIOUS
    <3>2. PICK t : walletEntity' = [walletEntity EXCEPT ![h] = [wallet EXCEPT !.type = t]]
      BY <1>2, <1>a DEF Stored!Load
    <3>3. walletEntity'[h] = [wallet EXCEPT !.type = t]
      BY <3>2 DEF StoredTypeInv, Stored!TypeOK
    <3> QED
      BY <3>1, <3>3
  <2> QED
    BY <1>a, <2>1, <2>2, <2>3 DEF HeldInv
<1>3. ASSUME NEW h \in Stored!Handler, Stored!SaveSelect(h)
      PROVE  HeldInv'
  <2>1. /\ walletPc[h] = "select" /\ walletPc'[h] = "update" /\ walletBase'[h] = wallet
        /\ \A g \in Stored!Handler \ {h} :
             walletPc'[g] = walletPc[g] /\ walletBase'[g] = walletBase[g]
        /\ UNCHANGED <<wallet, walletEntity, others, overtaken>>
    BY <1>3, <1>a DEF Stored!SaveSelect, Stored!Goto, StoredTypeInv, Stored!TypeOK
  <2> QED
    BY <1>a, <2>1 DEF HeldInv
<1>4. ASSUME NEW h \in Stored!Handler, Stored!SaveUpdate(h)
      PROVE  HeldInv'
  <2>1. /\ walletPc'[h] = "done"
        /\ \A g \in Stored!Handler \ {h} : walletPc'[g] = walletPc[g]
        /\ \A g \in Stored!Handler : others'[g] = others[g] \cup {h}
        /\ UNCHANGED <<walletEntity, walletBase>>
    BY <1>4, <1>a DEF Stored!SaveUpdate, Stored!Goto, StoredTypeInv, Stored!TypeOK
  <2>2. /\ h \in Choice /\ "balance" \notin overtaken' =>
             wallet'.balance = wallet.balance /\ "balance" \notin overtaken
        /\ h \in Refresh /\ "type" \notin overtaken' =>
             wallet'.type = wallet.type /\ "type" \notin overtaken
    BY <1>4, SaveLeaves
  <2> QED
    BY <1>a, <2>1, <2>2 DEF HeldInv
<1>5. ASSUME NEW h \in Stored!Handler, Stored!QueryFails(h)
      PROVE  HeldInv'
  BY <1>5, <1>a
     DEF Stored!QueryFails, Stored!Goto, HeldInv, StoredTypeInv, Stored!TypeOK
<1>6. ASSUME NEW r \in Refresh, Stored!Read(r)
      PROVE  HeldInv'
  <2>1. /\ walletPc[r] = "read" /\ UNCHANGED <<wallet, walletBase, others, overtaken>>
        /\ \A h \in Stored!Handler \ {r} :
             walletPc'[h] = walletPc[h] /\ walletEntity'[h] = walletEntity[h]
        /\ walletEntity'[r].type = walletEntity[r].type
    BY <1>6, <1>a, ReadStep DEF Stored!Read, Stored!Goto, StoredTypeInv, Stored!TypeOK
  <2> QED
    BY <1>a, <2>1 DEF HeldInv
<1>7. ASSUME NEW r \in Refresh, Stored!ReadFails(r)
      PROVE  HeldInv'
  BY <1>7, <1>a DEF Stored!ReadFails, Stored!Goto, HeldInv, StoredTypeInv, Stored!TypeOK
<1>8. CASE UNCHANGED Stored!vars
  BY <1>8 DEF Stored!vars, HeldInv
<1> QED
  BY <1>1, <1>2, <1>3, <1>4, <1>5, <1>6, <1>7, <1>8, StoredSteps

LEMMA NextRecent ==
  ASSUME Stored!StoredWalletsAssumption, StoredTypeInv, ReadInv, HeldInv,
         Stored!StoredWalletIsRecent, [Stored!Next]_(Stored!vars)
  PROVE  Stored!StoredWalletIsRecent'
<1>a. /\ Refresh \cap Choice = {} /\ Refresh \subseteq Stored!Handler
      /\ \A h \in Stored!Handler : h \in Refresh \/ h \in Choice
  BY DEF Stored!StoredWalletsAssumption, Stored!Handler
<1>1. ASSUME NEW h \in Stored!Handler, Stored!SaveUpdate(h)
      PROVE  Stored!StoredWalletIsRecent'
  <2>0. walletPc[h] = "update" /\ began' = began
    BY <1>1 DEF Stored!SaveUpdate
  <2>1. CASE h \in Refresh
    <3>1. /\ saver' = {h} /\ chosen' = chosen
          /\ wallet'.balance = walletEntity[h].balance
          /\ "type" \notin overtaken'
               => wallet'.type = wallet.type /\ "type" \notin overtaken
      BY <1>1, <1>a, <2>1, SaveLeaves DEF Stored!SaveUpdate
    <3>2. \A c \in Stored!Coin : walletEntity[h].balance[c] >= began[h]
      BY <2>0, <2>1 DEF ReadInv
    <3> QED
      BY <2>0, <3>1, <3>2 DEF Stored!StoredWalletIsRecent
  <2>2. CASE h \in Choice
    <3>1. /\ saver' = saver /\ chosen' = walletEntity[h].type
          /\ "balance" \notin overtaken' =>
               wallet'.balance = wallet.balance /\ "balance" \notin overtaken
          /\ "type" \notin overtaken' => wallet'.type = walletEntity[h].type
      BY <1>1, <1>a, <2>2, SaveLeaves DEF Stored!SaveUpdate
    <3> QED
      BY <2>0, <3>1 DEF Stored!StoredWalletIsRecent
  <2> QED
    BY <1>a, <2>1, <2>2
<1>2. ASSUME NEW h \in Stored!Handler, Stored!Load(h)
      PROVE  Stored!StoredWalletIsRecent'
  <2>1. /\ UNCHANGED <<wallet, saver, chosen, overtaken>>
        /\ \A r \in saver : began'[r] = began[r]
    BY <1>2, <1>a DEF Stored!Load, ReadInv, StoredTypeInv, Stored!TypeOK
  <2> QED
    BY <2>1 DEF Stored!StoredWalletIsRecent
<1>3. CASE UNCHANGED <<wallet, saver, chosen, overtaken, began>>
  BY <1>3 DEF Stored!StoredWalletIsRecent
<1> QED
  BY <1>1, <1>2, <1>3, StoredSteps
     DEF Stored!Tick, Stored!SaveSelect, Stored!QueryFails, Stored!Read,
         Stored!ReadFails, Stored!vars

\* Stored balances are those of one refresh, read after it began, although reads
\* fail half way and refreshes overlap, and the stored type is the one that was
\* chosen last, but for the saves of handlers that were overtaken.
THEOREM StoredIsRecent ==
  ASSUME Stored!StoredWalletsAssumption
  PROVE  Stored!Spec => []StoredWalletIsRecent
<1>1. ASSUME Stored!Init
      PROVE  RecentInv
  BY <1>1
     DEF Stored!Init, RecentInv, ReadInv, HeldInv, Stored!StoredWalletIsRecent,
         Stored!NewRow, Stored!Handler
<1>2. StoredTypeInv /\ RecentInv /\ [Stored!Next]_(Stored!vars) => RecentInv'
  BY NextStoredTypeInv, NextReadInv, NextHeldInv, NextRecent DEF RecentInv
<1>3. RecentInv => StoredWalletIsRecent
  BY DEF RecentInv, StoredWalletIsRecent
<1> QED
  BY <1>1, <1>2, <1>3, InitStoredTypeInv, NextStoredTypeInv, PTL DEF Stored!Spec
=============================================================================
