---------------------------- MODULE TelegramBot -----------------------------
(***************************************************************************)
(* Logging in by Telegram: TelegramBotService polls for /start messages,   *)
(* makes the user and the wallet, and answers with a link that carries a   *)
(* code (VerifyCodeService.generateCode); AuthService.handleTelegramLogin  *)
(* takes the code for a session, or the code that a user with a session    *)
(* had sent to confirm an email: nothing tells the two apart.              *)
(*                                                                         *)
(* The bot handles one update after another, and nothing else makes users  *)
(* with a telegram_id: its look for a row and the insert are one step.     *)
(* Telegram is external: it keeps the updates and forgets those below the  *)
(* offset of a getUpdates call; offset -1 is that of the last update.      *)
(***************************************************************************)
EXTENDS Naturals, Sequences

CONSTANTS
  Person,
  From,         \* the sender of each update, in the order of update_id
  Login,        \* handleTelegramLogin requests
  Environments  \* what happens in a behaviour and what may fail: one of these

Update == 1..Len(From)

\* A /start; one with a referral code that nobody has; a message without a sender;
\* and another message, or no message at all.
Kind == {"start", "refused", "unsigned", "other"}

UpdatesAssumption == From \in Seq(Person)
EnvironmentsAssumption ==
  Environments \subseteq
    [updates    : 0..Len(From),      \* how many updates are sent
     kinds      : [Update -> Kind],  \* what each of them is
     logins     : SUBSET Login,      \* the requests that may start
     mail       : BOOLEAN,  \* may one code be made to confirm an email?
     netFaults  : BOOLEAN,  \* may a call to Telegram fail, be it carried out or not?
     dbFaults   : BOOLEAN,  \* may a repository call throw?
     maxCrashes : Nat]      \* bound on the number of restarts of the process

VARIABLES
  env,           \* the environment of the behaviour
  arrived,       \* the updates 1..arrived have been sent to the bot
  forgotten,     \* Telegram keeps those above
  lastUpdateId,
  bot,           \* where the bot is suspended
  batch,         \* the updates of its loop still to handle
  current,       \* the update it handles
  handled,       \* how often each update was taken up
  answered,      \* the updates answered, with a link or a refusal
  users,         \* persons with a row in users
  wallets,       \* how many wallets each of them has
  codes,         \* the verify_codes table
  pc, code,      \* where each login is suspended, and its row
  sessions,      \* the logins that got a session
  crashes        \* restarts so far

botVars   == <<lastUpdateId, bot, batch, current, handled, answered>>
loginVars == <<pc, code, sessions>>
moving == <<arrived, forgotten, botVars, users, wallets, codes, loginVars, crashes>>
vars   == <<env, moving>>

NetFaults == env.netFaults
DbFaults  == env.dbFaults

Init ==
  /\ env \in Environments
  /\ arrived = 0
  /\ forgotten = 0
  /\ lastUpdateId = 0
  /\ bot = "starting"
  /\ batch = {}
  /\ current = 1
  /\ handled = [u \in Update |-> 0]
  /\ answered = {}
  /\ users = {}
  /\ wallets = [p \in Person |-> 0]
  /\ codes = <<>>
  /\ pc = [l \in Login |-> "idle"]
  /\ code = [l \in Login |-> 0]
  /\ sessions = {}
  /\ crashes = 0

-----------------------------------------------------------------------------
(* Telegram.                                                               *)

Arrive ==
  /\ arrived < env.updates
  /\ arrived' = arrived + 1
  /\ UNCHANGED <<forgotten, botVars, users, wallets, codes, loginVars, crashes>>

\* A getUpdates call with this offset was carried out.
Forget(offset) == forgotten' = IF offset > forgotten + 1 THEN offset - 1 ELSE forgotten

-----------------------------------------------------------------------------
(* The bot: initializeLastUpdateId, and the loop of startPolling.          *)

\* (seeded fault) the bot starts with the first update Telegram has
InitializeFromFirst ==
  /\ bot = "starting"
  /\ bot' = "poll"
  /\ lastUpdateId' = 0
  /\ UNCHANGED <<arrived, forgotten, batch, current, handled, answered, users,
                 wallets, codes, loginVars, crashes>>

\* The last update, if there is one, counts as handled; so do those before it.
InitializeLastUpdateId ==
  /\ bot = "starting"
  /\ bot' = "poll"
  /\ \/ /\ arrived > forgotten
        /\ lastUpdateId' = arrived
        /\ Forget(arrived)
     \/ /\ arrived = forgotten
        /\ lastUpdateId' = 0
        /\ UNCHANGED forgotten
     \/ /\ NetFaults
        /\ lastUpdateId' = 0
        /\ Forget(arrived) \/ UNCHANGED forgotten
  /\ UNCHANGED <<arrived, batch, current, handled, answered, users, wallets, codes,
                 loginVars, crashes>>

\* getUpdates confirms what is handled and returns the rest.
Poll ==
  /\ bot = "poll"
  /\ \/ /\ Forget(lastUpdateId + 1)
        /\ batch' = (forgotten' + 1)..arrived
        /\ bot' = IF batch' = {} THEN "poll" ELSE "loop"
     \/ /\ NetFaults
        /\ Forget(lastUpdateId + 1)
        /\ UNCHANGED <<bot, batch>>
  /\ UNCHANGED <<arrived, lastUpdateId, current, handled, answered, users, wallets,
                 codes, loginVars, crashes>>

\* The next update counts as handled before it is.
Take ==
  /\ bot = "loop"
  /\ \E u \in batch :
       /\ \A v \in batch : u <= v
       /\ lastUpdateId' = u
       /\ current' = u
       /\ batch' = batch \ {u}
       /\ handled' = [handled EXCEPT ![u] = @ + 1]
  /\ bot' = "user"
  /\ UNCHANGED <<arrived, forgotten, answered, users, wallets, codes, loginVars, crashes>>

Sender == From[current]
Is(kind) == env.kinds[current] = kind

Continue == bot' = IF batch = {} THEN "poll" ELSE "loop"

\* Not for the bot; or a message whose sender is not known, which is told so, and
\* with no catch around that either.
IgnoreUpdate ==
  /\ bot = "user"
  /\ \/ Is("other") /\ Continue
     \/ Is("unsigned") /\ bot' = "sorry"
  /\ UNCHANGED <<arrived, forgotten, lastUpdateId, batch, current, handled, answered,
                 users, wallets, codes, loginVars, crashes>>

\* A step of handleUpdate, or its catch.
HandleStep(from, to) ==
  /\ bot = from
  /\ UNCHANGED <<arrived, forgotten, lastUpdateId, batch, current, handled, answered,
                 loginVars, crashes>>
  /\ \/ bot' = to
     \/ DbFaults /\ bot' = "sorry"

\* The referral code is looked up first.
RefuseReferral ==
  /\ Is("refused")
  /\ HandleStep("user", "answer")
  /\ UNCHANGED <<users, wallets, codes>>

\* The user, made if there is none.
EnsureUser ==
  /\ Is("start")
  /\ HandleStep("user", "wallet")
  /\ users' = IF bot' = "sorry" THEN users ELSE users \cup {Sender}
  /\ UNCHANGED <<wallets, codes>>

\* (seeded fault) an error of the insert is logged and the code made
EnsureWalletSwallowed ==
  /\ HandleStep("wallet", "code")
  /\ wallets' \in {wallets, [wallets EXCEPT ![Sender] = 1]}
  /\ UNCHANGED <<users, codes>>

\* The wallet, made if there is none, for an old user too.
EnsureWallet ==
  /\ HandleStep("wallet", "code")
  /\ wallets' = IF bot' = "sorry" \/ wallets[Sender] > 0
                  THEN wallets ELSE [wallets EXCEPT ![Sender] = 1]
  /\ UNCHANGED <<users, codes>>

NewCode(owner, by) == [owner |-> owner, by |-> by, is_used |-> FALSE, expired |-> FALSE]

GenerateCode ==
  /\ HandleStep("code", "answer")
  /\ codes' = IF bot' = "sorry" THEN codes ELSE Append(codes, NewCode(Sender, "bot"))
  /\ UNCHANGED <<users, wallets>>

\* (seeded fault) the first answer ends the loop, and its batch counts as handled
AnswerEndsBatch ==
  /\ bot = "answer"
  /\ bot' = "poll"
  /\ batch' = {}
  /\ lastUpdateId' = arrived
  /\ answered' = answered \cup {current}
  /\ UNCHANGED <<arrived, forgotten, current, handled, users, wallets, codes,
                 loginVars, crashes>>

\* sendMessage with the link, or with the refusal.
Answer ==
  /\ bot = "answer"
  /\ \/ Continue /\ answered' = answered \cup {current}
     \/ NetFaults /\ bot' = "sorry" /\ answered' \in {answered, answered \cup {current}}
  /\ UNCHANGED <<arrived, forgotten, lastUpdateId, batch, current, handled, users,
                 wallets, codes, loginVars, crashes>>

\* The catch sends a message too; an error there ends the loop.
Sorry ==
  /\ bot = "sorry"
  /\ \/ Continue /\ UNCHANGED batch
     \/ NetFaults /\ bot' = "poll" /\ batch' = {}
  /\ UNCHANGED <<arrived, forgotten, lastUpdateId, current, handled, answered, users,
                 wallets, codes, loginVars, crashes>>

-----------------------------------------------------------------------------
(* handleTelegramLogin.                                                    *)

Goto(l, label) == pc' = [pc EXCEPT ![l] = label]

\* The row of the code, neither used nor expired, whatever it was made for.
LoginLookup(l, c) ==
  /\ l \in env.logins
  /\ pc[l] = "idle"
  /\ code' = [code EXCEPT ![l] = c]
  /\ LET valid == ~codes[c].is_used /\ ~codes[c].expired
     IN  \/ valid /\ Goto(l, "mark")
         \/ (~valid \/ DbFaults) /\ Goto(l, "done")
  /\ UNCHANGED <<arrived, forgotten, botVars, users, wallets, codes, sessions, crashes>>

\* The row as it was read is saved as used.
LoginMark(l) ==
  /\ pc[l] = "mark"
  /\ \/ codes' = [codes EXCEPT ![code[l]].is_used = TRUE] /\ Goto(l, "session")
     \/ DbFaults /\ UNCHANGED codes /\ Goto(l, "done")
  /\ UNCHANGED <<arrived, forgotten, botVars, users, wallets, code, sessions, crashes>>

\* The user and the wallet, which must exist.
LoginSession(l) ==
  /\ pc[l] = "session"
  /\ Goto(l, "done")
  /\ LET owner == codes[code[l]].owner
     IN  \/ owner \in users /\ wallets[owner] > 0 /\ sessions' = sessions \cup {l}
         \/ /\ owner \notin users \/ wallets[owner] = 0 \/ DbFaults
            /\ UNCHANGED sessions
  /\ UNCHANGED <<arrived, forgotten, botVars, users, wallets, codes, code, crashes>>

\* handleSendTeleVerification, for the user of a session.
SendTeleVerification(l, c) ==
  /\ env.mail
  /\ l \in sessions
  /\ code[l] = c
  /\ \A d \in DOMAIN codes : codes[d].by = "bot"
  /\ codes' = Append(codes, NewCode(codes[c].owner, "mail"))
  /\ UNCHANGED <<arrived, forgotten, botVars, users, wallets, loginVars, crashes>>

\* Its minutes have passed, or handleVerifyTeleCode has taken it.
Expire(c) ==
  /\ ~codes[c].expired
  /\ codes' = [codes EXCEPT ![c].expired = TRUE]
  /\ UNCHANGED <<arrived, forgotten, botVars, users, wallets, loginVars, crashes>>

\* The process restarts; lastUpdateId and the loop are in memory.
Crash ==
  /\ crashes < env.maxCrashes
  /\ crashes' = crashes + 1
  /\ bot' = "starting"
  /\ batch' = {}
  /\ pc' = [l \in Login |-> IF pc[l] = "idle" THEN "idle" ELSE "done"]
  /\ UNCHANGED <<arrived, forgotten, lastUpdateId, current, handled, answered, users,
                 wallets, codes, code, sessions>>

HandleUpdate ==
  \/ IgnoreUpdate \/ RefuseReferral
  \/ EnsureUser \/ EnsureWallet \/ GenerateCode
  \/ Answer \/ Sorry

Bot == InitializeLastUpdateId \/ Poll \/ Take \/ HandleUpdate

HandleTelegramLogin(l) ==
  \/ \E c \in DOMAIN codes : LoginLookup(l, c)
  \/ LoginMark(l) \/ LoginSession(l)

Next ==
  /\ UNCHANGED env
  /\ \/ Arrive
     \/ Bot
     \/ \E l \in Login : HandleTelegramLogin(l)
     \/ \E c \in DOMAIN codes : \/ Expire(c)
                                \/ \E l \in Login : SendTeleVerification(l, c)
     \/ Crash

Spec == Init /\ [][Next]_vars

\* The bot goes on polling, a timer after every poll.
Fairness == WF_moving(Bot)

FairSpec == Spec /\ Fairness

-----------------------------------------------------------------------------
(* Properties.                                                             *)

\* Every variable has its type.
TypeOK ==
  /\ env \in Environments
  /\ arrived \in 0..env.updates
  /\ forgotten \in 0..arrived
  /\ lastUpdateId \in 0..arrived
  /\ bot \in {"starting", "poll", "loop", "user", "wallet", "code", "answer", "sorry"}
  /\ batch \subseteq 1..arrived
  /\ current \in Nat
  /\ bot \in {"user", "wallet", "code", "answer", "sorry"} => current \in Update
  /\ handled \in [Update -> Nat]
  /\ answered \subseteq Update
  /\ users \subseteq Person
  /\ wallets \in [Person -> {0, 1}]
  /\ codes \in Seq([owner : Person, by : {"bot", "mail"},
                   is_used : BOOLEAN, expired : BOOLEAN])
  /\ pc \in [Login -> {"idle", "mark", "session", "done"}]
  /\ code \in [Login -> 0..Len(codes)]
  /\ sessions \subseteq Login
  /\ crashes \in 0..env.maxCrashes

\* Whoever has a code, whatever it was made for, has a user and one wallet, so that
\* the lookups after the code was marked find them; also when an earlier /start of
\* the same person failed between the two inserts.
CodeOwnerHasWallet ==
  \A c \in DOMAIN codes : codes[c].owner \in users /\ wallets[codes[c].owner] = 1

\* As long as the calls to Telegram work, no update is handled twice, not even
\* when the process restarts between handling it and confirming it.
HandledAtMostOnce == ~NetFaults => \A u \in Update : handled[u] <= 1

\* Without faults and restarts, a /start that arrives when the bot polls is
\* answered, whatever else arrives; those that arrive before are not.
StartIsAnswered ==
  (~NetFaults /\ ~DbFaults /\ env.maxCrashes = 0) =>
    \A u \in Update :
      (/\ env.kinds[u] \in {"start", "refused"}
       /\ u <= arrived /\ u > lastUpdateId /\ bot # "starting") ~> u \in answered
=============================================================================
