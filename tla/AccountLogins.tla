--------------------------- MODULE AccountLogins ----------------------------
(***************************************************************************)
(* Accounts by email and by wallet: AuthService.handleGoogleLogin, which   *)
(* finds or makes a user and its wallet, handleAddLinkEmailAuth, which     *)
(* gives a Telegram user an email, and handlePhantomLogin, which finds or  *)
(* makes a wallet without a user.  The email column is not unique, that of *)
(* the wallet address is.                                                  *)
(*                                                                         *)
(* Google is external: an exchange succeeds with the email of the request  *)
(* or ends it.  AccountSettings has what else a link does to its user.     *)
(***************************************************************************)
EXTENDS Naturals, FiniteSets

CONSTANTS
  Google,      \* handleGoogleLogin requests
  Link,        \* handleAddLinkEmailAuth requests, each of another Telegram user
  Phantom,     \* handlePhantomLogin requests
  Email, EmailOf,      \* the email of each Google and Link request
  Address, AddressOf,  \* the address each Phantom request signed with
  Environments,        \* what may happen in a behaviour: one of these, throughout
  None                 \* a null column

Request == Google \cup Link \cup Phantom

\* A user is named by the request that made it, or by the Link it belongs to.
User == Google \cup Link

ASSUME RequestsAssumption == /\ EmailOf \in [User -> Email]
                             /\ AddressOf \in [Phantom -> Address]
                             /\ None \notin User \cup Email
                             /\ Google \cap Link = {}
                             /\ Phantom \cap User = {}
ASSUME EnvironmentsAssumption ==
  Environments \subseteq
    [requests   : SUBSET Request,  \* those that may be made
     serial     : BOOLEAN,  \* are requests for the same email served one at a time?
     dbFaults   : BOOLEAN,  \* may a repository call throw?
     maxCrashes : Nat]      \* bound on the number of restarts of the process

VARIABLES
  env,       \* the environment of the behaviour
  users,     \* the users with a row
  email,     \* their email column
  wallets,   \* the wallets of users, with the request that made each
  external,  \* the wallets without a user, likewise
  pc,        \* where each request is suspended
  found,     \* the user each Google login goes on with
  crashes    \* restarts so far

moving == <<users, email, wallets, external, pc, found, crashes>>
vars   == <<env, moving>>

Serial   == env.serial
DbFaults == env.dbFaults

\* The Telegram users have their wallets from TelegramBot.
Init ==
  /\ env \in Environments
  /\ users = Link
  /\ email = [u \in User |-> None]
  /\ wallets = {[user |-> l, by |-> l] : l \in Link}
  /\ external = {}
  /\ pc = [r \in Request |-> "idle"]
  /\ found = [g \in Google |-> None]
  /\ crashes = 0

Goto(r, label) == pc' = [pc EXCEPT ![r] = label]

Ended == {"idle", "session", "done", "refused"}

\* The requests at most one of which is under way when Serial.
MayStart(r) ==
  Serial => \A s \in User : EmailOf[s] = EmailOf[r] => pc[s] \in Ended

WithEmail(e) == {u \in users : email[u] = e}

-----------------------------------------------------------------------------
(* handleGoogleLogin.                                                      *)

\* (seeded fault) no look at the users there are
GoogleFindNothing(g) ==
  /\ g \in env.requests
  /\ pc[g] = "idle"
  /\ MayStart(g)
  /\ Goto(g, "insertUser")
  /\ UNCHANGED <<users, email, wallets, external, found, crashes>>

\* The exchange, and the user with the email; if there are two, either.
GoogleFind(g) ==
  /\ g \in env.requests
  /\ pc[g] = "idle"
  /\ MayStart(g)
  /\ \/ \E u \in WithEmail(EmailOf[g]) :
          /\ found' = [found EXCEPT ![g] = u]
          /\ Goto(g, "wallet")
     \/ WithEmail(EmailOf[g]) = {} /\ Goto(g, "insertUser") /\ UNCHANGED found
     \/ Goto(g, "done") /\ UNCHANGED found
  /\ UNCHANGED <<users, email, wallets, external, crashes>>

GoogleInsertUser(g) ==
  /\ pc[g] = "insertUser"
  /\ \/ /\ users' = users \cup {g}
        /\ email' = [email EXCEPT ![g] = EmailOf[g]]
        /\ found' = [found EXCEPT ![g] = g]
        /\ Goto(g, "insertWallet")
     \/ DbFaults /\ Goto(g, "done") /\ UNCHANGED <<users, email, found>>
  /\ UNCHANGED <<wallets, external, crashes>>

\* An error here leaves the user without a wallet.
GoogleInsertWallet(g) ==
  /\ pc[g] = "insertWallet"
  /\ \/ wallets' = wallets \cup {[user |-> g, by |-> g]} /\ Goto(g, "wallet")
     \/ DbFaults /\ Goto(g, "done") /\ UNCHANGED wallets
  /\ UNCHANGED <<users, email, external, found, crashes>>

HasWallet(u) == \E w \in wallets : w.user = u

\* (seeded fault) the failed login gets another outcome
GoogleWalletLost(g) ==
  /\ pc[g] = "wallet"
  /\ Goto(g, IF HasWallet(found[g]) THEN "session" ELSE "lost")
  /\ UNCHANGED <<users, email, wallets, external, found, crashes>>

\* The wallet of the user, for the token; without one the login fails.
GoogleWallet(g) ==
  /\ pc[g] = "wallet"
  /\ \/ HasWallet(found[g]) /\ Goto(g, "session")
     \/ ~HasWallet(found[g]) /\ Goto(g, "refused")
     \/ DbFaults /\ Goto(g, "done")
  /\ UNCHANGED <<users, email, wallets, external, found, crashes>>

-----------------------------------------------------------------------------
(* handleAddLinkEmailAuth.                                                 *)

\* The user has no email, and no other user has this one.
LinkFind(l) ==
  /\ l \in env.requests
  /\ pc[l] = "idle"
  /\ MayStart(l)
  /\ \/ email[l] = None /\ WithEmail(EmailOf[l]) = {} /\ Goto(l, "save")
     \/ Goto(l, "done")
  /\ UNCHANGED <<users, email, wallets, external, found, crashes>>

LinkSave(l) ==
  /\ pc[l] = "save"
  /\ Goto(l, "done")
  /\ \/ email' = [email EXCEPT ![l] = EmailOf[l]]
     \/ DbFaults /\ UNCHANGED email
  /\ UNCHANGED <<users, wallets, external, found, crashes>>

-----------------------------------------------------------------------------
(* handlePhantomLogin.                                                     *)

AddressKnown(p) == \E w \in external : w.address = AddressOf[p]

PhantomFind(p) ==
  /\ p \in env.requests
  /\ pc[p] = "idle"
  /\ \/ AddressKnown(p) /\ Goto(p, "session")
     \/ ~AddressKnown(p) /\ Goto(p, "insert")
     \/ DbFaults /\ Goto(p, "done")
  /\ UNCHANGED <<users, email, wallets, external, found, crashes>>

\* The insert fails when another login has made the wallet since.
PhantomInsert(p) ==
  /\ pc[p] = "insert"
  /\ \/ /\ ~AddressKnown(p)
        /\ external' = external \cup {[address |-> AddressOf[p], by |-> p]}
        /\ Goto(p, "session")
     \/ (AddressKnown(p) \/ DbFaults) /\ Goto(p, "refused") /\ UNCHANGED external
  /\ UNCHANGED <<users, email, wallets, found, crashes>>

Crash ==
  /\ crashes < env.maxCrashes
  /\ crashes' = crashes + 1
  /\ pc' = [r \in Request |-> IF pc[r] \in Ended THEN pc[r] ELSE "done"]
  /\ UNCHANGED <<users, email, wallets, external, found>>

HandleGoogleLogin(g) ==
  GoogleFind(g) \/ GoogleInsertUser(g) \/ GoogleInsertWallet(g) \/ GoogleWallet(g)

HandleAddLinkEmailAuth(l) == LinkFind(l) \/ LinkSave(l)

HandlePhantomLogin(p) == PhantomFind(p) \/ PhantomInsert(p)

Next ==
  /\ UNCHANGED env
  /\ \/ \E g \in Google : HandleGoogleLogin(g)
     \/ \E l \in Link : HandleAddLinkEmailAuth(l)
     \/ \E p \in Phantom : HandlePhantomLogin(p)
     \/ Crash

Spec == Init /\ [][Next]_vars

-----------------------------------------------------------------------------
(* Properties.                                                             *)

\* Every variable has its type.
TypeOK ==
  /\ env \in Environments
  /\ users \subseteq User
  /\ email \in [User -> Email \cup {None}]
  /\ wallets \subseteq [user : User, by : User]
  /\ external \subseteq [address : Address, by : Phantom]
  /\ pc \in [Request -> Ended \cup {"insertUser", "insertWallet", "wallet", "save", "insert"}]
  /\ found \in [Google -> User \cup {None}]
  /\ crashes \in 0..env.maxCrashes

\* No user has two wallets, and no address two rows, however logins race and
\* fail half way: only the request that made a user makes its wallet, and the
\* address is unique.  An email is not: logins and links that are served one at a
\* time leave one user with it, also when one of them fails half way.
OneAccount ==
  /\ \A v, w \in wallets : v.user = w.user => v = w
  /\ \A v, w \in external : v.address = w.address => v = w
  /\ Serial => \A u, v \in users : (email[u] = email[v] /\ email[u] # None) => u = v

\* What the code says of itself and does not keep: a user that a login finds has
\* a wallet (auth.service.ts, "Get wallet for existing user").
ExistingUserGetsIn ==
  \A g \in Google : pc[g] # "refused"
=============================================================================
