------------------------- MODULE TelegramBotProofs -------------------------
(***************************************************************************)
(* Theorems about the bot, the instance Telegram of Accounts, for any      *)
(* updates of any persons, any logins, and any environments.               *)
(***************************************************************************)
EXTENDS Accounts, Sequences, TLAPS

BotCode == [owner : Person, by : {"bot", "mail"}, is_used : BOOLEAN, expired : BOOLEAN]

BotHandling == {"user", "wallet", "code", "answer", "sorry"}

\* A login that is under way has found its row, and the loop of the bot ends
\* with its batch.
BotPlacesInv ==
  /\ \A l \in Login : botPc[l] \in {"mark", "session"} => code[l] \in DOMAIN botCodes
  /\ bot \in {"starting", "poll"} => batch = {}

BotTypeInv == Telegram!TypeOK /\ BotPlacesInv

LEMMA BotEnvironmentType ==
  ASSUME BotAssumptions, sent \in BotEnvironments
  PROVE  /\ sent.updates \in 0..Len(From)
         /\ sent.mail \in BOOLEAN
         /\ sent.logins \subseteq Login
         /\ sent.netFaults \in BOOLEAN
         /\ sent.dbFaults \in BOOLEAN
         /\ sent.maxCrashes \in Nat
BY DEF BotAssumptions, Telegram!EnvironmentsAssumption

\* Every update has a sender.
LEMMA BotSenderType ==
  ASSUME BotAssumptions
  PROVE  Len(From) \in Nat /\ \A u \in Telegram!Update : From[u] \in Person
BY DEF BotAssumptions, Telegram!UpdatesAssumption, Telegram!Update

\* A change of one row, and a new one.
LEMMA BotCodesType ==
  ASSUME botCodes \in Seq(BotCode)
  PROVE  /\ Len(botCodes) \in Nat /\ DOMAIN botCodes = 1..Len(botCodes)
         /\ \A c \in DOMAIN botCodes : botCodes[c] \in BotCode
         /\ \A c \in DOMAIN botCodes : \A new \in BotCode :
              /\ [botCodes EXCEPT ![c] = new] \in Seq(BotCode)
              /\ Len([botCodes EXCEPT ![c] = new]) = Len(botCodes)
              /\ DOMAIN [botCodes EXCEPT ![c] = new] = DOMAIN botCodes
         /\ \A new \in BotCode :
              /\ Append(botCodes, new) \in Seq(BotCode)
              /\ Len(Append(botCodes, new)) = Len(botCodes) + 1
              /\ DOMAIN Append(botCodes, new) = 1..(Len(botCodes) + 1)
              /\ Append(botCodes, new)[Len(botCodes) + 1] = new
              /\ \A c \in DOMAIN botCodes : Append(botCodes, new)[c] = botCodes[c]
OBVIOUS

LEMMA BotInitTypeInv ==
  ASSUME BotAssumptions
  PROVE  Telegram!Init => BotTypeInv
BY BotEnvironmentType, BotSenderType
   DEF Telegram!Init, BotTypeInv, Telegram!TypeOK, BotPlacesInv

\* Who has a row, how many wallets, and whose code it is.
LEMMA BotCodeSteps ==
  ASSUME BotAssumptions, BotTypeInv, [Telegram!Next]_(Telegram!vars)
  PROVE  /\ botCodes' \in Seq(BotCode)
         /\ \/ DOMAIN botCodes' = DOMAIN botCodes
            \/ /\ DOMAIN botCodes' = 1..(Len(botCodes) + 1)
               /\ \/ /\ bot = "code"
                     /\ botCodes'[Len(botCodes) + 1].owner = Telegram!Sender
                  \/ \E c \in DOMAIN botCodes :
                       botCodes'[Len(botCodes) + 1].owner = botCodes[c].owner
         /\ Len(botCodes') \in Nat /\ Len(botCodes') >= Len(botCodes)
         /\ DOMAIN botCodes \subseteq DOMAIN botCodes'
         /\ \A c \in DOMAIN botCodes : botCodes'[c].owner = botCodes[c].owner
<1>0. botCodes \in Seq(BotCode)
  BY DEF BotTypeInv, Telegram!TypeOK, BotCode
<1>1. CASE botCodes' = botCodes
  BY <1>0, <1>1, BotCodesType
<1>2. ASSUME NEW c \in DOMAIN botCodes, NEW new \in BotCode, new.owner = botCodes[c].owner,
             botCodes' = [botCodes EXCEPT ![c] = new]
      PROVE  /\ botCodes' \in Seq(BotCode) /\ DOMAIN botCodes' = DOMAIN botCodes
             /\ Len(botCodes') = Len(botCodes)
             /\ \A d \in DOMAIN botCodes : botCodes'[d].owner = botCodes[d].owner
  BY <1>0, <1>2, BotCodesType
<1>3. ASSUME NEW l \in Login, Telegram!LoginMark(l), botCodes' # botCodes
      PROVE  \E c \in DOMAIN botCodes : \E new \in BotCode :
               new.owner = botCodes[c].owner /\ botCodes' = [botCodes EXCEPT ![c] = new]
  <2>1. /\ code[l] \in DOMAIN botCodes
        /\ botCodes' = [botCodes EXCEPT
                          ![code[l]] = [botCodes[code[l]] EXCEPT !.is_used = TRUE]]
    BY <1>3 DEF Telegram!LoginMark, BotTypeInv, BotPlacesInv
  <2>2. /\ [botCodes[code[l]] EXCEPT !.is_used = TRUE] \in BotCode
        /\ [botCodes[code[l]] EXCEPT !.is_used = TRUE].owner = botCodes[code[l]].owner
    BY <1>0, <2>1, BotCodesType DEF BotCode
  <2> QED
    BY <2>1, <2>2
<1>4. ASSUME NEW c \in DOMAIN botCodes, Telegram!Expire(c)
      PROVE  \E new \in BotCode :
               new.owner = botCodes[c].owner /\ botCodes' = [botCodes EXCEPT ![c] = new]
  <2>1. botCodes' = [botCodes EXCEPT ![c] = [botCodes[c] EXCEPT !.expired = TRUE]]
    BY <1>4 DEF Telegram!Expire
  <2>2. /\ [botCodes[c] EXCEPT !.expired = TRUE] \in BotCode
        /\ [botCodes[c] EXCEPT !.expired = TRUE].owner = botCodes[c].owner
    BY <1>0, BotCodesType DEF BotCode
  <2> QED
    BY <2>1, <2>2
<1>5. ASSUME Telegram!GenerateCode, botCodes' # botCodes
      PROVE  /\ bot = "code" /\ botCodes' \in Seq(BotCode)
             /\ DOMAIN botCodes' = 1..(Len(botCodes) + 1)
             /\ Len(botCodes') = Len(botCodes) + 1
             /\ botCodes'[Len(botCodes) + 1].owner = Telegram!Sender
             /\ \A c \in DOMAIN botCodes : botCodes'[c] = botCodes[c]
  <2>1. /\ bot = "code"
        /\ botCodes' = Append(botCodes, Telegram!NewCode(Telegram!Sender, "bot"))
    BY <1>5 DEF Telegram!GenerateCode, Telegram!HandleStep
  <2>2. /\ Telegram!NewCode(Telegram!Sender, "bot") \in BotCode
        /\ Telegram!NewCode(Telegram!Sender, "bot").owner = Telegram!Sender
    BY <2>1, BotSenderType
       DEF BotCode, Telegram!NewCode, Telegram!Sender, BotTypeInv, Telegram!TypeOK
  <2> QED
    BY <1>0, <2>1, <2>2, BotCodesType
<1>6. ASSUME NEW l \in Login, NEW c \in DOMAIN botCodes, Telegram!SendTeleVerification(l, c)
      PROVE  /\ botCodes' \in Seq(BotCode)
             /\ DOMAIN botCodes' = 1..(Len(botCodes) + 1)
             /\ Len(botCodes') = Len(botCodes) + 1
             /\ botCodes'[Len(botCodes) + 1].owner = botCodes[c].owner
             /\ \A d \in DOMAIN botCodes : botCodes'[d] = botCodes[d]
  <2>1. botCodes' = Append(botCodes, Telegram!NewCode(botCodes[c].owner, "mail"))
    BY <1>6 DEF Telegram!SendTeleVerification
  <2>2. /\ Telegram!NewCode(botCodes[c].owner, "mail") \in BotCode
        /\ Telegram!NewCode(botCodes[c].owner, "mail").owner = botCodes[c].owner
    BY <1>0, BotCodesType DEF BotCode, Telegram!NewCode
  <2> QED
    BY <1>0, <2>1, <2>2, BotCodesType
<1>7. \/ botCodes' = botCodes \/ Telegram!GenerateCode
      \/ \E l \in Login : Telegram!LoginMark(l)
      \/ \E c \in DOMAIN botCodes :
           Telegram!Expire(c) \/ \E l \in Login : Telegram!SendTeleVerification(l, c)
  BY DEF Telegram!Next, Telegram!Bot, Telegram!HandleUpdate, Telegram!HandleTelegramLogin,
         Telegram!Arrive, Telegram!InitializeLastUpdateId, Telegram!Poll, Telegram!Take,
         Telegram!IgnoreUpdate, Telegram!RefuseReferral, Telegram!EnsureUser,
         Telegram!EnsureWallet, Telegram!Answer, Telegram!Sorry, Telegram!LoginLookup,
         Telegram!LoginSession, Telegram!Crash, Telegram!vars, Telegram!moving
<1> QED
  BY <1>0, <1>1, <1>2, <1>3, <1>4, <1>5, <1>6, <1>7, BotCodesType

LEMMA BotNextTypeInv ==
  ASSUME BotAssumptions
  PROVE  BotTypeInv /\ [Telegram!Next]_(Telegram!vars) => BotTypeInv'
<1> SUFFICES ASSUME BotTypeInv, [Telegram!Next]_(Telegram!vars)
             PROVE  BotTypeInv'
  OBVIOUS
<1>0. /\ Telegram!TypeOK /\ BotPlacesInv /\ sent' = sent
      /\ sent.updates \in 0..Len(From) /\ sent.maxCrashes \in Nat
      /\ Len(From) \in Nat /\ Len(botCodes) \in Nat /\ DOMAIN botCodes = 1..Len(botCodes)
  BY BotEnvironmentType, BotSenderType, BotCodesType
     DEF BotTypeInv, Telegram!TypeOK, Telegram!Next, Telegram!vars, BotCode
<1>s. Telegram!Sender \in Person \/ bot \notin BotHandling
  BY <1>0, BotSenderType DEF Telegram!Sender, Telegram!TypeOK, BotHandling
<1>c. /\ botCodes' \in Seq([owner : Person, by : {"bot", "mail"},
                         is_used : BOOLEAN, expired : BOOLEAN])
      /\ Len(botCodes') \in Nat /\ Len(botCodes') >= Len(botCodes)
      /\ DOMAIN botCodes \subseteq DOMAIN botCodes'
  BY BotCodeSteps DEF BotCode
<1> USE <1>0, <1>c
    DEF Telegram!TypeOK, BotPlacesInv, BotTypeInv, Telegram!Goto, Telegram!HandleStep,
        Telegram!Continue, Telegram!botVars, Telegram!loginVars
<1>1. CASE Telegram!Arrive
  BY <1>1 DEF Telegram!Arrive
<1>2. CASE Telegram!InitializeLastUpdateId
  BY <1>2 DEF Telegram!InitializeLastUpdateId, Telegram!Forget
<1>3. CASE Telegram!Poll
  <2>1. /\ bot = "poll" /\ batch = {}
        /\ UNCHANGED <<arrived, lastUpdateId, current, handled, answered, botUsers,
                       botWallets, botCodes, Telegram!loginVars, botCrashes>>
        /\ forgotten' \in {forgotten, lastUpdateId}
    BY <1>3 DEF Telegram!Poll, Telegram!Forget
  <2>2. \/ /\ batch' = (forgotten' + 1)..arrived
           /\ bot' = IF batch' = {} THEN "poll" ELSE "loop"
        \/ UNCHANGED <<bot, batch>>
    BY <1>3 DEF Telegram!Poll
  <2>3. batch' \subseteq 1..arrived
    BY <2>1, <2>2
  <2>4. bot' \in {"poll", "loop"} /\ (bot' = "poll" => batch' = {})
    BY <2>1, <2>2
  <2> QED
    BY <2>1, <2>3, <2>4
<1>4. CASE Telegram!Take
  <2>1. PICK u \in batch :
          /\ lastUpdateId' = u /\ current' = u /\ batch' = batch \ {u}
          /\ handled' = [handled EXCEPT ![u] = @ + 1] /\ bot' = "user"
          /\ UNCHANGED <<arrived, forgotten, answered, botUsers, botWallets, botCodes,
                         Telegram!loginVars, botCrashes>>
    BY <1>4 DEF Telegram!Take
  <2>2. u \in 0..arrived /\ u \in Telegram!Update /\ u \in Nat
    BY <2>1 DEF Telegram!Update
  <2> QED
    BY <2>1, <2>2
<1>5. CASE Telegram!RefuseReferral
  BY <1>5 DEF Telegram!RefuseReferral
<1>6. CASE Telegram!EnsureUser
  BY <1>6, <1>s DEF Telegram!EnsureUser, BotHandling
<1>7. CASE Telegram!EnsureWallet
  BY <1>7, <1>s DEF Telegram!EnsureWallet, BotHandling
<1>8. CASE Telegram!GenerateCode
  BY <1>8 DEF Telegram!GenerateCode
<1>9. CASE Telegram!Answer
  BY <1>9 DEF Telegram!Answer
<1>10. CASE Telegram!Sorry
  BY <1>10 DEF Telegram!Sorry
<1>11. ASSUME NEW l \in Login, NEW c \in DOMAIN botCodes, Telegram!LoginLookup(l, c)
       PROVE  BotTypeInv'
  <2>1. /\ code' = [code EXCEPT ![l] = c]
        /\ \/ botPc' = [botPc EXCEPT ![l] = "mark"]
           \/ botPc' = [botPc EXCEPT ![l] = "done"]
        /\ UNCHANGED <<arrived, forgotten, bot, batch, lastUpdateId, current, handled, answered,
                       botUsers, botWallets, botCodes, sessions, botCrashes>>
    BY <1>11 DEF Telegram!LoginLookup
  <2>2. code' \in [Login -> 0..Len(botCodes)]
    BY <2>1
  <2> QED
    BY <2>1, <2>2
<1>12. ASSUME NEW l \in Login, Telegram!LoginMark(l)
       PROVE  BotTypeInv'
  <2>1. /\ botPc[l] = "mark"
        /\ \/ botPc' = [botPc EXCEPT ![l] = "session"]
           \/ botPc' = [botPc EXCEPT ![l] = "done"]
        /\ UNCHANGED <<arrived, forgotten, bot, batch, lastUpdateId, current, handled, answered,
                       botUsers, botWallets, code, sessions, botCrashes>>
    BY <1>12 DEF Telegram!LoginMark
  <2>2. code' \in [Login -> 0..Len(botCodes')]
    BY <2>1
  <2> QED
    BY <2>1, <2>2
<1>13. ASSUME NEW l \in Login, Telegram!LoginSession(l)
       PROVE  BotTypeInv'
  BY <1>13 DEF Telegram!LoginSession
<1>14. ASSUME NEW c \in DOMAIN botCodes, Telegram!Expire(c)
       PROVE  BotTypeInv'
  BY <1>14 DEF Telegram!Expire
<1>15. CASE Telegram!Crash
  BY <1>15 DEF Telegram!Crash
<1>17. CASE Telegram!IgnoreUpdate
  BY <1>17 DEF Telegram!IgnoreUpdate
<1>18. ASSUME NEW l \in Login, NEW c \in DOMAIN botCodes, Telegram!SendTeleVerification(l, c)
       PROVE  BotTypeInv'
  <2>1. code' \in [Login -> 0..Len(botCodes')]
    BY <1>18 DEF Telegram!SendTeleVerification
  <2> QED
    BY <1>18, <2>1 DEF Telegram!SendTeleVerification
<1>16. CASE UNCHANGED Telegram!vars
  BY <1>16 DEF Telegram!vars, Telegram!moving
<1> QED
  BY <1>1, <1>2, <1>3, <1>4, <1>5, <1>6, <1>7, <1>8, <1>9, <1>10, <1>11, <1>12, <1>13,
     <1>14, <1>15, <1>16, <1>17, <1>18
     DEF Telegram!Next, Telegram!Bot, Telegram!HandleUpdate, Telegram!HandleTelegramLogin

\* Every variable keeps its type, whatever the bot, the logins and the restarts do.
THEOREM BotTypeCorrect ==
  ASSUME BotAssumptions
  PROVE  Telegram!Spec => []Telegram!TypeOK
<1>1. BotTypeInv => Telegram!TypeOK
  BY DEF BotTypeInv
<1>2. Telegram!Init => BotTypeInv
  BY BotInitTypeInv
<1>3. BotTypeInv /\ [Telegram!Next]_(Telegram!vars) => BotTypeInv'
  BY BotNextTypeInv
<1> QED
  BY <1>1, <1>2, <1>3, PTL DEF Telegram!Spec

-----------------------------------------------------------------------------
(* The owner of a code.                                                    *)

\* The bot makes a code only for someone it has made, or found to have, a row and
\* a wallet, and an email is confirmed by the owner of a code; none of them is
\* taken away.
OwnerInv ==
  /\ Telegram!CodeOwnerHasWallet
  /\ bot \in {"wallet", "code"} => Telegram!Sender \in botUsers
  /\ bot = "code" => botWallets[Telegram!Sender] = 1

\* Rows and wallets are made and stay.
LEMMA PeopleSteps ==
  ASSUME BotAssumptions, BotTypeInv, [Telegram!Next]_(Telegram!vars)
  PROVE  /\ botUsers \subseteq botUsers'
         /\ \A p \in Person : botWallets[p] = 1 => botWallets'[p] = 1
         /\ bot' \in {"wallet", "code"} =>
              /\ current' = current
              /\ \/ bot' = bot
                 \/ bot' = "wallet" /\ bot = "user" /\ Telegram!Sender \in botUsers'
                 \/ bot' = "code" /\ bot = "wallet" /\ botWallets'[Telegram!Sender] = 1
<1>0. Telegram!TypeOK /\ (bot \in BotHandling => Telegram!Sender \in Person)
  BY BotSenderType DEF BotTypeInv, Telegram!TypeOK, Telegram!Sender, BotHandling
<1>1. CASE Telegram!EnsureUser
  BY <1>0, <1>1 DEF Telegram!EnsureUser, Telegram!HandleStep
<1>2. CASE Telegram!EnsureWallet
  BY <1>0, <1>2 DEF Telegram!EnsureWallet, Telegram!HandleStep, Telegram!TypeOK, BotHandling
<1>3. ASSUME ~Telegram!EnsureUser, ~Telegram!EnsureWallet
      PROVE  /\ botUsers' = botUsers /\ botWallets' = botWallets
             /\ bot' \in {"wallet", "code"} => bot' = bot /\ current' = current
  BY <1>3
     DEF Telegram!Next, Telegram!Bot, Telegram!HandleUpdate, Telegram!HandleTelegramLogin,
         Telegram!Arrive, Telegram!InitializeLastUpdateId, Telegram!Poll, Telegram!Take,
         Telegram!IgnoreUpdate, Telegram!RefuseReferral, Telegram!GenerateCode, Telegram!Answer, Telegram!Sorry,
         Telegram!LoginLookup, Telegram!LoginMark, Telegram!LoginSession,
         Telegram!SendTeleVerification, Telegram!Expire,
         Telegram!Crash, Telegram!vars, Telegram!moving, Telegram!botVars,
         Telegram!HandleStep, Telegram!Continue
<1> QED
  BY <1>1, <1>2, <1>3

LEMMA BotNextOwnerInv ==
  ASSUME BotAssumptions
  PROVE  BotTypeInv /\ OwnerInv /\ [Telegram!Next]_(Telegram!vars) => OwnerInv'
<1> SUFFICES ASSUME BotTypeInv, OwnerInv, [Telegram!Next]_(Telegram!vars)
             PROVE  OwnerInv'
  OBVIOUS
<1>0. /\ Telegram!TypeOK /\ (bot \in BotHandling => Telegram!Sender \in Person)
      /\ botCodes \in Seq(BotCode)
  BY BotSenderType DEF BotTypeInv, Telegram!TypeOK, Telegram!Sender, BotHandling, BotCode
<1>1. /\ botUsers \subseteq botUsers'
      /\ \A p \in Person : botWallets[p] = 1 => botWallets'[p] = 1
  BY PeopleSteps
<1>2. bot' \in {"wallet", "code"} =>
        /\ Telegram!Sender' = Telegram!Sender /\ Telegram!Sender \in botUsers'
        /\ bot' = "code" => botWallets'[Telegram!Sender] = 1
  BY <1>0, <1>1, PeopleSteps DEF OwnerInv, Telegram!Sender, BotHandling
<1>3. ASSUME NEW c \in DOMAIN botCodes'
      PROVE  botCodes'[c].owner \in botUsers' /\ botWallets'[botCodes'[c].owner] = 1
  <2>1. CASE c \in DOMAIN botCodes
    <3>1. botCodes'[c].owner = botCodes[c].owner /\ botCodes[c].owner \in Person
      BY <1>0, <2>1, BotCodeSteps, BotCodesType DEF BotCode
    <3> QED
      BY <1>1, <2>1, <3>1 DEF OwnerInv, CodeOwnerHasWallet, Telegram!CodeOwnerHasWallet
  <2>2. CASE c \notin DOMAIN botCodes
    <3>1. DOMAIN botCodes = 1..Len(botCodes) /\ Len(botCodes) \in Nat
      BY <1>0, BotCodesType
    <3>2. /\ c = Len(botCodes) + 1
          /\ \/ bot = "code" /\ botCodes'[c].owner = Telegram!Sender
             \/ \E d \in DOMAIN botCodes : botCodes'[c].owner = botCodes[d].owner
      BY <1>3, <2>2, <3>1, BotCodeSteps
    <3>3. CASE bot = "code" /\ botCodes'[c].owner = Telegram!Sender
      BY <1>0, <1>1, <3>3 DEF OwnerInv, BotHandling
    <3>4. ASSUME NEW d \in DOMAIN botCodes, botCodes'[c].owner = botCodes[d].owner
          PROVE  botCodes'[c].owner \in botUsers' /\ botWallets'[botCodes'[c].owner] = 1
      <4>1. botCodes[d].owner \in Person
        BY <1>0, BotCodesType DEF BotCode
      <4> QED
        BY <1>1, <3>4, <4>1 DEF OwnerInv, CodeOwnerHasWallet, Telegram!CodeOwnerHasWallet
    <3> QED
      BY <3>2, <3>3, <3>4
  <2> QED
    BY <2>1, <2>2
<1> QED
  BY <1>2, <1>3 DEF OwnerInv, CodeOwnerHasWallet, Telegram!CodeOwnerHasWallet

\* Whoever has a code has a user and one wallet, also when an earlier /start of
\* the same person failed between the two inserts.
THEOREM OwnersHaveWallets ==
  ASSUME BotAssumptions
  PROVE  Telegram!Spec => []CodeOwnerHasWallet
<1>1. Telegram!Init => BotTypeInv /\ OwnerInv
  BY BotInitTypeInv
     DEF Telegram!Init, OwnerInv, CodeOwnerHasWallet, Telegram!CodeOwnerHasWallet
<1>2. BotTypeInv /\ [Telegram!Next]_(Telegram!vars) => BotTypeInv'
  BY BotNextTypeInv
<1>3. BotTypeInv /\ OwnerInv /\ [Telegram!Next]_(Telegram!vars) => OwnerInv'
  BY BotNextOwnerInv
<1>4. OwnerInv => CodeOwnerHasWallet
  BY DEF OwnerInv, CodeOwnerHasWallet
<1> QED
  BY <1>1, <1>2, <1>3, <1>4, PTL DEF Telegram!Spec

-----------------------------------------------------------------------------
(* Updates.                                                                *)

\* While Telegram answers, what was taken up is confirmed or below lastUpdateId,
\* which a restart leaves alone until Telegram has been asked; what waits in the
\* loop is above both.
TakenInv ==
  /\ \A u \in Telegram!Update : handled[u] > 0 => u <= lastUpdateId \/ u <= forgotten
  /\ \A u \in batch : u > lastUpdateId /\ u > forgotten
  /\ \A u \in Telegram!Update : handled[u] <= 1

LEMMA BotNextTakenInv ==
  ASSUME BotAssumptions
  PROVE  BotTypeInv /\ (~Telegram!NetFaults => TakenInv) /\ [Telegram!Next]_(Telegram!vars)
           => (~Telegram!NetFaults => TakenInv)'
<1> SUFFICES ASSUME BotTypeInv, ~Telegram!NetFaults, TakenInv,
                    [Telegram!Next]_(Telegram!vars)
             PROVE  TakenInv'
  BY DEF Telegram!NetFaults, Telegram!Next, Telegram!vars
<1>0. Telegram!TypeOK /\ BotPlacesInv /\ sent.updates \in 0..Len(From) /\ Len(From) \in Nat
  BY BotEnvironmentType, BotSenderType DEF BotTypeInv, Telegram!TypeOK
<1>1. CASE Telegram!InitializeLastUpdateId
  <2>1. /\ batch' = {} /\ handled' = handled /\ arrived' = arrived
        /\ \/ lastUpdateId' = arrived
           \/ lastUpdateId' = 0 /\ arrived = forgotten /\ forgotten' = forgotten
    BY <1>0, <1>1 DEF Telegram!InitializeLastUpdateId, BotPlacesInv
  <2>2. \A u \in Telegram!Update : handled[u] > 0 => u <= arrived
    BY <1>0 DEF TakenInv, Telegram!TypeOK, Telegram!Update
  <2> QED
    BY <1>0, <2>1, <2>2 DEF TakenInv
<1>2. CASE Telegram!Poll
  <2>1. /\ handled' = handled /\ lastUpdateId' = lastUpdateId
        /\ batch' = (forgotten' + 1)..arrived
        /\ forgotten' = IF lastUpdateId > forgotten THEN lastUpdateId ELSE forgotten
    BY <1>0, <1>2 DEF Telegram!Poll, Telegram!Forget, Telegram!TypeOK
  <2>2. forgotten' >= forgotten /\ forgotten' >= lastUpdateId /\ forgotten' \in Nat
    BY <1>0, <2>1 DEF Telegram!TypeOK
  <2>3. \A u \in Telegram!Update : u \in Nat
    BY <1>0 DEF Telegram!Update
  <2> QED
    BY <1>0, <2>1, <2>2, <2>3 DEF TakenInv, Telegram!TypeOK
<1>3. CASE Telegram!Take
  <2>1. PICK u \in batch :
          /\ \A v \in batch : u <= v
          /\ lastUpdateId' = u /\ batch' = batch \ {u}
          /\ handled' = [handled EXCEPT ![u] = @ + 1] /\ forgotten' = forgotten
    BY <1>3 DEF Telegram!Take
  <2>2. u \in Telegram!Update /\ u \in Nat /\ batch \subseteq Nat
    BY <1>0 DEF Telegram!TypeOK, Telegram!Update
  <2>3. handled[u] = 0
    BY <1>0, <2>1, <2>2 DEF TakenInv, Telegram!TypeOK
  <2>4. \A x \in Telegram!Update : handled'[x] = IF x = u THEN 1 ELSE handled[x]
    BY <1>0, <2>1, <2>2, <2>3 DEF Telegram!TypeOK
  <2>5. \A x \in Telegram!Update : x \in Nat
    BY <1>0 DEF Telegram!Update
  <2> QED
    BY <1>0, <2>1, <2>2, <2>4, <2>5 DEF TakenInv, Telegram!TypeOK
<1>4. ASSUME ~Telegram!InitializeLastUpdateId, ~Telegram!Poll, ~Telegram!Take
      PROVE  /\ handled' = handled /\ lastUpdateId' = lastUpdateId /\ forgotten' = forgotten
             /\ batch' \in {batch, {}}
  BY <1>4
     DEF Telegram!Next, Telegram!Bot, Telegram!HandleUpdate, Telegram!HandleTelegramLogin,
         Telegram!Arrive, Telegram!IgnoreUpdate, Telegram!RefuseReferral, Telegram!EnsureUser,
         Telegram!EnsureWallet, Telegram!GenerateCode, Telegram!Answer, Telegram!Sorry,
         Telegram!LoginLookup, Telegram!LoginMark, Telegram!LoginSession,
         Telegram!SendTeleVerification, Telegram!Expire,
         Telegram!Crash, Telegram!vars, Telegram!moving, Telegram!botVars,
         Telegram!HandleStep
<1> QED
  BY <1>1, <1>2, <1>3, <1>4 DEF TakenInv

\* As long as the calls to Telegram work, no update is handled twice, not even
\* when the process restarts between handling it and confirming it.
THEOREM HandledOnce ==
  ASSUME BotAssumptions
  PROVE  Telegram!Spec => []HandledAtMostOnce
<1>1. Telegram!Init => BotTypeInv /\ TakenInv
  BY BotInitTypeInv DEF Telegram!Init, TakenInv
<1>2. BotTypeInv /\ [Telegram!Next]_(Telegram!vars) => BotTypeInv'
  BY BotNextTypeInv
<1>3. BotTypeInv /\ (~Telegram!NetFaults => TakenInv) /\ [Telegram!Next]_(Telegram!vars)
        => (~Telegram!NetFaults => TakenInv)'
  BY BotNextTakenInv
<1>4. (~Telegram!NetFaults => TakenInv) => HandledAtMostOnce
  BY DEF TakenInv, HandledAtMostOnce, Telegram!HandledAtMostOnce
<1> QED
  BY <1>1, <1>2, <1>3, <1>4, PTL DEF Telegram!Spec
=============================================================================
