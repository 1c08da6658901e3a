--------------------------- MODULE AccountProofs ---------------------------
(***************************************************************************)
(* Theorems about the components of Accounts: of AccountLogins, of         *)
(* Settings and Administrators, for any sets of requests, emails and       *)
(* accounts, any number of restarts, and any environments; of Limiter, for *)
(* any limit and window; and of all of them together.                      *)
(***************************************************************************)
EXTENDS TelegramBotProofs, FiniteSetTheorems, SequenceTheorems

-----------------------------------------------------------------------------
(* The types of the logins.                                                *)

LEMMA EnvironmentType ==
  ASSUME env \in Environments
  PROVE  /\ env.requests \subseteq Request
         /\ env.serial \in BOOLEAN
         /\ env.dbFaults \in BOOLEAN
         /\ env.maxCrashes \in Nat
BY EnvironmentsAssumption

LEMMA InitTypeOK == Init => TypeOK
BY EnvironmentType DEF Init, TypeOK, Ended, User

LEMMA NextTypeOK == TypeOK /\ [Next]_vars => TypeOK'
<1> SUFFICES ASSUME TypeOK, [Next]_vars
             PROVE  TypeOK'
  OBVIOUS
<1>0. /\ env' = env
      /\ EmailOf \in [User -> Email]
      /\ AddressOf \in [Phantom -> Address]
  BY RequestsAssumption DEF Next, vars
<1> USE <1>0 DEF TypeOK, Goto, Ended
<1>1. ASSUME NEW g \in Google, GoogleFind(g)
      PROVE  TypeOK'
  BY <1>1 DEF GoogleFind, WithEmail, Request
<1>2. ASSUME NEW g \in Google, GoogleInsertUser(g)
      PROVE  TypeOK'
  BY <1>2 DEF GoogleInsertUser, Request, User
<1>3. ASSUME NEW g \in Google, GoogleInsertWallet(g)
      PROVE  TypeOK'
  BY <1>3 DEF GoogleInsertWallet, Request, User
<1>4. ASSUME NEW g \in Google, GoogleWallet(g)
      PROVE  TypeOK'
  BY <1>4 DEF GoogleWallet, Request
<1>5. ASSUME NEW l \in Link, LinkFind(l)
      PROVE  TypeOK'
  BY <1>5 DEF LinkFind, Request
<1>6. ASSUME NEW l \in Link, LinkSave(l)
      PROVE  TypeOK'
  BY <1>6 DEF LinkSave, Request, User
<1>7. ASSUME NEW p \in Phantom, PhantomFind(p)
      PROVE  TypeOK'
  BY <1>7 DEF PhantomFind, Request
<1>8. ASSUME NEW p \in Phantom, PhantomInsert(p)
      PROVE  TypeOK'
  BY <1>8 DEF PhantomInsert, Request
<1>9. ASSUME Crash
      PROVE  TypeOK'
  BY <1>9, EnvironmentType DEF Crash
<1>10. CASE UNCHANGED vars
  BY <1>10 DEF vars, moving
<1> QED
  BY <1>1, <1>2, <1>3, <1>4, <1>5, <1>6, <1>7, <1>8, <1>9, <1>10
     DEF Next, HandleGoogleLogin, HandleAddLinkEmailAuth, HandlePhantomLogin

\* Every variable keeps its type, whatever the logins, the links and the
\* restarts do.
THEOREM TypeCorrect == Spec => []TypeOK
BY InitTypeOK, NextTypeOK, PTL DEF Spec

-----------------------------------------------------------------------------
(* One account for a user, an address and an email.                        *)

\* The wallet of a user was made by the request that made the user, after it
\* had inserted the user.
WalletsInv ==
  \A w \in wallets :
    /\ w.by = w.user
    /\ w.user \in Google =>
         pc[w.user] \notin {"idle", "insertUser", "insertWallet"}

\* The unique column.
AddressesInv == \A v, w \in external : v.address = w.address => v = w

\* An email comes from the request it is named after.
EmailsInv == \A u \in users : email[u] \in {None, EmailOf[u]}

\* One request for an email is under way at a time, and while one is about to
\* write the email, nobody has it.
SerialInv ==
  /\ \A r, s \in User :
       (pc[r] \notin Ended /\ pc[s] \notin Ended /\ EmailOf[r] = EmailOf[s]) => r = s
  /\ \A r \in User :
       pc[r] \in {"insertUser", "save"} => \A u \in users : email[u] # EmailOf[r]
  /\ \A u, v \in users : (email[u] = email[v] /\ email[u] # None) => u = v

AccountInv ==
  /\ WalletsInv
  /\ AddressesInv
  /\ EmailsInv
  /\ Serial => SerialInv

LEMMA InitAccountInv == Init => AccountInv
BY RequestsAssumption
   DEF Init, AccountInv, WalletsInv, AddressesInv, EmailsInv, SerialInv, Ended, User,
       Request

LEMMA NextAccountInv == TypeOK /\ AccountInv /\ [Next]_vars => AccountInv'
<1> SUFFICES ASSUME TypeOK, AccountInv, [Next]_vars
             PROVE  AccountInv'
  OBVIOUS
<1>0. /\ env' = env
      /\ None \notin User \cup Email
      /\ Google \cap Link = {}
      /\ Phantom \cap User = {}
      /\ EmailOf \in [User -> Email]
  BY RequestsAssumption DEF Next, vars
<1> USE <1>0
        DEF TypeOK, AccountInv, WalletsInv, AddressesInv, EmailsInv, SerialInv, Serial,
            Goto, Ended, MayStart, User, Request
<1>1. ASSUME NEW g \in Google, GoogleFind(g)
      PROVE  AccountInv'
  BY <1>1 DEF GoogleFind, WithEmail
<1>2. ASSUME NEW g \in Google, GoogleInsertUser(g)
      PROVE  AccountInv'
  BY <1>2 DEF GoogleInsertUser
<1>3. ASSUME NEW g \in Google, GoogleInsertWallet(g)
      PROVE  AccountInv'
  BY <1>3 DEF GoogleInsertWallet
<1>4. ASSUME NEW g \in Google, GoogleWallet(g)
      PROVE  AccountInv'
  BY <1>4 DEF GoogleWallet
<1>5. ASSUME NEW l \in Link, LinkFind(l)
      PROVE  AccountInv'
  BY <1>5 DEF LinkFind, WithEmail
<1>6. ASSUME NEW l \in Link, LinkSave(l)
      PROVE  AccountInv'
  BY <1>6 DEF LinkSave
<1>7. ASSUME NEW p \in Phantom, PhantomFind(p)
      PROVE  AccountInv'
  BY <1>7 DEF PhantomFind
<1>8. ASSUME NEW p \in Phantom, PhantomInsert(p)
      PROVE  AccountInv'
  BY <1>8 DEF PhantomInsert, AddressKnown
<1>9. ASSUME Crash
      PROVE  AccountInv'
  BY <1>9 DEF Crash
<1>10. CASE UNCHANGED vars
  BY <1>10 DEF vars, moving
<1> QED
  BY <1>1, <1>2, <1>3, <1>4, <1>5, <1>6, <1>7, <1>8, <1>9, <1>10
     DEF Next, HandleGoogleLogin, HandleAddLinkEmailAuth, HandlePhantomLogin

\* No user gets a second wallet and no address a second row, however logins race
\* and fail half way; and logins and links that are served one at a time leave
\* one user with an email.
THEOREM OneAccountHolds == Spec => []OneAccount
<1>1. TypeOK /\ AccountInv => OneAccount
  BY DEF TypeOK, AccountInv, WalletsInv, AddressesInv, SerialInv, OneAccount
<1> QED
  BY InitTypeOK, NextTypeOK, InitAccountInv, NextAccountInv, <1>1, PTL DEF Spec

-----------------------------------------------------------------------------
(* The settings of a user.                                                 *)

LEMMA SettingsInitTypeOK == Settings!Init => Settings!TypeOK
BY DEF Settings!Init, Settings!TypeOK, Settings!NewRow, Settings!Row, Settings!Request,
       Settings!Code

\* What a load of the user leaves: an entity that has its type when the changed
\* row has.
LEMMA SettingsLoadTypeOK ==
  ASSUME Settings!TypeOK, UNCHANGED asked,
         NEW r \in Settings!Request, NEW checks \in BOOLEAN,
         NEW label \in {"google", "insert", "code", "save"}, NEW e \in Settings!Row,
         Settings!Load(r, checks, label, e)
  PROVE  /\ settingsPc' \in [Settings!Request -> {"idle", "google", "insert", "code",
                                                  "mark", "save", "update", "done"}]
         /\ entity' \in [Settings!Request -> Settings!Row]
<1>1. CASE settingsPc' = [settingsPc EXCEPT ![r] = label] /\ entity' = [entity EXCEPT ![r] = e]
  BY <1>1 DEF Settings!TypeOK
<1>2. CASE settingsPc' = [settingsPc EXCEPT ![r] = "done"] /\ UNCHANGED entity
  BY <1>2 DEF Settings!TypeOK
<1> QED
  BY <1>1, <1>2 DEF Settings!Load, Settings!Goto

\* A save writes columns of rows.
LEMMA SettingsUpdatedType ==
  ASSUME row \in Settings!Row, NEW e \in Settings!Row, NEW b \in Settings!Row
  PROVE  /\ Settings!Updated(e, b) \in Settings!Row
         /\ Settings!Updated(e, row).gg_auth = e.gg_auth
         /\ Settings!Updated(e, row).is_verified_gg_auth = e.is_verified_gg_auth
BY DEF Settings!Updated, Settings!Row

LEMMA SettingsNextTypeOK ==
  Settings!TypeOK /\ [Settings!Next]_(Settings!vars) => Settings!TypeOK'
<1> SUFFICES ASSUME Settings!TypeOK, [Settings!Next]_(Settings!vars)
             PROVE  Settings!TypeOK'
  OBVIOUS
<1>0. asked' = asked
  BY DEF Settings!Next, Settings!vars
<1> USE <1>0
<1>1. ASSUME NEW a \in Add, Settings!AddLoad(a)
      PROVE  Settings!TypeOK'
  <2>1. [row EXCEPT !.gg_auth = a, !.is_verified_gg_auth = FALSE] \in Settings!Row
    BY DEF Settings!TypeOK, Settings!Row
  <2> QED
    BY <1>1, <2>1, SettingsLoadTypeOK
       DEF Settings!AddLoad, Settings!TypeOK, Settings!Row, Settings!Request
<1>2. ASSUME NEW v \in Verify, NEW s \in Add, Settings!VerifyLoad(v, s)
      PROVE  Settings!TypeOK'
  <2>1. [row EXCEPT !.is_verified_gg_auth = TRUE] \in Settings!Row
    BY DEF Settings!TypeOK, Settings!Row
  <2> QED
    BY <1>2, <2>1, SettingsLoadTypeOK
       DEF Settings!VerifyLoad, Settings!TypeOK, Settings!Request
<1>3. ASSUME NEW r \in Remove, Settings!RemoveLoad(r)
      PROVE  Settings!TypeOK'
  <2>1. [row EXCEPT !.gg_auth = None, !.is_verified_gg_auth = FALSE] \in Settings!Row
    BY DEF Settings!TypeOK, Settings!Row
  <2> QED
    BY <1>3, <2>1, SettingsLoadTypeOK
       DEF Settings!RemoveLoad, Settings!TypeOK, Settings!Request
<1>4. ASSUME NEW l \in EmailLink, Settings!LinkLoad(l)
      PROVE  Settings!TypeOK'
  <2>1. [row EXCEPT !.email = l] \in Settings!Row
    BY DEF Settings!TypeOK, Settings!Row
  <2> QED
    BY <1>4, <2>1, SettingsLoadTypeOK
       DEF Settings!LinkLoad, Settings!TypeOK, Settings!Request
<1>5. ASSUME NEW l \in EmailLink, Settings!LinkExchange(l)
      PROVE  Settings!TypeOK'
  BY <1>5 DEF Settings!LinkExchange, Settings!TypeOK, Settings!Goto
<1>6. ASSUME NEW c \in Send, Settings!SendLoad(c)
      PROVE  Settings!TypeOK'
  <2>1. (row.email # None /\ ~row.is_verified_email) \in BOOLEAN
    OBVIOUS
  <2> QED
    BY <1>6, <2>1, SettingsLoadTypeOK
       DEF Settings!SendLoad, Settings!TypeOK, Settings!Request
<1>7. ASSUME NEW c \in Send, Settings!SendInsert(c)
      PROVE  Settings!TypeOK'
  BY <1>7 DEF Settings!SendInsert, Settings!TypeOK, Settings!Goto, Settings!Code
<1>8. ASSUME NEW c \in Settings!Code, Settings!Expire(c)
      PROVE  Settings!TypeOK'
  BY <1>8 DEF Settings!Expire, Settings!TypeOK
<1>9. ASSUME NEW m \in Mail, Settings!MailLoad(m)
      PROVE  Settings!TypeOK'
  <2>1. [row EXCEPT !.is_verified_email = TRUE] \in Settings!Row
    BY DEF Settings!TypeOK, Settings!Row
  <2> QED
    BY <1>9, <2>1, SettingsLoadTypeOK
       DEF Settings!MailLoad, Settings!TypeOK, Settings!Request
<1>10. ASSUME NEW m \in Mail, Settings!MailMark(m)
       PROVE  Settings!TypeOK'
  BY <1>10 DEF Settings!MailMark, Settings!TypeOK, Settings!Goto
<1>11. ASSUME NEW m \in Mail, NEW c \in Settings!Code, Settings!MailCode(m, c)
       PROVE  Settings!TypeOK'
  BY <1>11 DEF Settings!MailCode, Settings!TypeOK, Settings!Goto
<1>12. ASSUME NEW r \in Settings!Request, Settings!SaveSelect(r)
       PROVE  Settings!TypeOK'
  BY <1>12 DEF Settings!SaveSelect, Settings!TypeOK, Settings!Goto
<1>13. ASSUME NEW r \in Settings!Request, Settings!SaveUpdate(r)
       PROVE  Settings!TypeOK'
  BY <1>13, SettingsUpdatedType DEF Settings!SaveUpdate, Settings!TypeOK, Settings!Goto
<1>14. ASSUME NEW c \in Settings!Code, Settings!GenerateCode(c) \/ Settings!TelegramLogin(c)
       PROVE  Settings!TypeOK'
  BY <1>14 DEF Settings!GenerateCode, Settings!TelegramLogin, Settings!TypeOK
<1>15. CASE UNCHANGED Settings!vars
  BY <1>15 DEF Settings!vars, Settings!moving, Settings!TypeOK
<1> QED
  BY <1>1, <1>2, <1>3, <1>4, <1>5, <1>6, <1>7, <1>8, <1>9, <1>10, <1>11, <1>12, <1>13,
     <1>14, <1>15
     DEF Settings!Next, Settings!Code

\* Every variable of the settings keeps its type.
THEOREM SettingsTypeCorrect == Settings!Spec => []Settings!TypeOK
BY SettingsInitTypeOK, SettingsNextTypeOK, PTL DEF Settings!Spec

\* A user whose authenticator is active only with a secret that was verified.
Justified(user) == user.is_verified_gg_auth => user.gg_auth \in confirmed

Busy(r) == settingsPc[r] \notin {"idle", "done"}

\* One request is under way at a time; its entity is justified, and nobody has
\* changed the row since it selected it.
JustifiedInv ==
  Settings!Serial =>
    /\ Justified(row)
    /\ \A q, r \in Settings!Request :
         Busy(q) /\ Busy(r) => q = r
    /\ \A r \in Settings!Request :
         /\ Busy(r) => Justified(entity[r])
         /\ settingsPc[r] = "update" => base[r] = row

LEMMA InitJustifiedInv == Settings!Init => JustifiedInv
BY DEF Settings!Init, JustifiedInv, Justified, Busy, Settings!NewRow, Settings!Request

\* A load keeps the invariant when the entity it makes is justified.
LEMMA LoadJustified ==
  ASSUME Settings!TypeOK, JustifiedInv, UNCHANGED <<asked, row, base>>,
         NEW r \in Settings!Request, NEW checks \in BOOLEAN,
         NEW label \in {"google", "insert", "code", "save"}, NEW e \in Settings!Row,
         Settings!Load(r, checks, label, e),
         confirmed \subseteq confirmed',
         Settings!Serial /\ checks => Justified(e)'
  PROVE  JustifiedInv'
<1> SUFFICES ASSUME Settings!Serial'
             PROVE  JustifiedInv'
  BY DEF JustifiedInv
<1>0. /\ Settings!Serial
      /\ \A q \in Settings!Request : settingsPc[q] \in {"idle", "done"}
      /\ Justified(row)
  BY DEF Settings!Serial, Settings!Load, JustifiedInv
<1>1. CASE checks /\ settingsPc' = [settingsPc EXCEPT ![r] = label]
           /\ entity' = [entity EXCEPT ![r] = e]
  BY <1>0, <1>1 DEF Settings!TypeOK, JustifiedInv, Justified, Busy
<1>2. CASE settingsPc' = [settingsPc EXCEPT ![r] = "done"] /\ UNCHANGED entity
  BY <1>0, <1>2 DEF Settings!TypeOK, JustifiedInv, Justified, Busy
<1> QED
  BY <1>1, <1>2 DEF Settings!Load, Settings!Goto

LEMMA NextJustifiedInv ==
  Settings!TypeOK /\ JustifiedInv /\ [Settings!Next]_(Settings!vars) => JustifiedInv'
<1> SUFFICES ASSUME Settings!TypeOK, JustifiedInv, [Settings!Next]_(Settings!vars)
             PROVE  JustifiedInv'
  OBVIOUS
<1>0. asked' = asked
  BY DEF Settings!Next, Settings!vars
<1> USE <1>0
<1>1. ASSUME NEW a \in Add, Settings!AddLoad(a)
      PROVE  JustifiedInv'
  <2> DEFINE e == [row EXCEPT !.gg_auth = a, !.is_verified_gg_auth = FALSE]
  <2>1. e \in Settings!Row /\ Justified(e)'
    BY <1>1 DEF Settings!AddLoad, Settings!TypeOK, Settings!Row, Justified
  <2> QED
    BY <1>1, <2>1, LoadJustified DEF Settings!AddLoad, Settings!TypeOK, Settings!Row,
       Settings!Request
<1>2. ASSUME NEW v \in Verify, NEW s \in Add, Settings!VerifyLoad(v, s)
      PROVE  JustifiedInv'
  <2> DEFINE e == [row EXCEPT !.is_verified_gg_auth = TRUE]
  <2>1. e \in Settings!Row /\ (row.gg_auth = s => Justified(e)')
    BY <1>2 DEF Settings!VerifyLoad, Settings!TypeOK, Settings!Row, Justified
  <2> QED
    BY <1>2, <2>1, LoadJustified DEF Settings!VerifyLoad, Settings!TypeOK, Settings!Request
<1>3. ASSUME NEW r \in Remove, Settings!RemoveLoad(r)
      PROVE  JustifiedInv'
  <2> DEFINE e == [row EXCEPT !.gg_auth = None, !.is_verified_gg_auth = FALSE]
  <2>1. e \in Settings!Row /\ Justified(e)'
    BY <1>3 DEF Settings!RemoveLoad, Settings!TypeOK, Settings!Row, Justified
  <2> QED
    BY <1>3, <2>1, LoadJustified DEF Settings!RemoveLoad, Settings!TypeOK, Settings!Request
<1>4. ASSUME NEW l \in EmailLink, Settings!LinkLoad(l)
      PROVE  JustifiedInv'
  <2> DEFINE e == [row EXCEPT !.email = l]
  <2>1. e \in Settings!Row /\ (Settings!Serial => Justified(e)')
    BY <1>4 DEF Settings!LinkLoad, Settings!TypeOK, Settings!Row, Justified, JustifiedInv
  <2> QED
    BY <1>4, <2>1, LoadJustified DEF Settings!LinkLoad, Settings!TypeOK, Settings!Request
<1>5. ASSUME NEW l \in EmailLink, Settings!LinkExchange(l)
      PROVE  JustifiedInv'
  BY <1>5 DEF Settings!LinkExchange, Settings!TypeOK, Settings!Goto, Settings!Serial,
     JustifiedInv, Justified, Busy
<1>6. ASSUME NEW c \in Send, Settings!SendLoad(c)
      PROVE  JustifiedInv'
  <2>1. (row.email # None /\ ~row.is_verified_email) \in BOOLEAN
    OBVIOUS
  <2>2. row \in Settings!Row /\ (Settings!Serial => Justified(row)')
    BY <1>6 DEF Settings!SendLoad, Settings!TypeOK, Justified, JustifiedInv
  <2> QED
    BY <1>6, <2>1, <2>2, LoadJustified
       DEF Settings!SendLoad, Settings!TypeOK, Settings!Request
<1>7. ASSUME NEW c \in Send, Settings!SendInsert(c)
      PROVE  JustifiedInv'
  BY <1>7 DEF Settings!SendInsert, Settings!TypeOK, Settings!Goto, Settings!Serial,
     JustifiedInv, Justified, Busy
<1>8. ASSUME NEW c \in Settings!Code, Settings!Expire(c)
      PROVE  JustifiedInv'
  BY <1>8 DEF Settings!Expire, Settings!Serial, JustifiedInv, Justified, Busy
<1>9. ASSUME NEW m \in Mail, Settings!MailLoad(m)
      PROVE  JustifiedInv'
  <2> DEFINE e == [row EXCEPT !.is_verified_email = TRUE]
  <2>1. e \in Settings!Row /\ (Settings!Serial => Justified(e)')
    BY <1>9 DEF Settings!MailLoad, Settings!TypeOK, Settings!Row, Justified, JustifiedInv
  <2> QED
    BY <1>9, <2>1, LoadJustified DEF Settings!MailLoad, Settings!TypeOK, Settings!Request
<1>10. ASSUME NEW m \in Mail, Settings!MailMark(m)
       PROVE  JustifiedInv'
  BY <1>10 DEF Settings!MailMark, Settings!TypeOK, Settings!Goto, Settings!Serial,
     JustifiedInv, Justified, Busy
<1>11. ASSUME NEW m \in Mail, NEW c \in Settings!Code, Settings!MailCode(m, c)
       PROVE  JustifiedInv'
  BY <1>11 DEF Settings!MailCode, Settings!TypeOK, Settings!Goto, Settings!Serial,
     JustifiedInv, Justified, Busy
<1>12. ASSUME NEW r \in Settings!Request, Settings!SaveSelect(r)
       PROVE  JustifiedInv'
  BY <1>12 DEF Settings!SaveSelect, Settings!TypeOK, Settings!Goto, Settings!Serial,
     JustifiedInv, Justified, Busy
<1>13. ASSUME NEW r \in Settings!Request, Settings!SaveUpdate(r)
       PROVE  JustifiedInv'
  <2>1. row' = row \/ row' = Settings!Updated(entity[r], base[r])
    BY <1>13 DEF Settings!SaveUpdate
  <2>2. Settings!Serial => Justified(row')
    BY <1>13, <2>1, SettingsUpdatedType
       DEF Settings!SaveUpdate, Settings!TypeOK, JustifiedInv, Justified, Busy
  <2> QED
    BY <1>13, <2>2 DEF Settings!SaveUpdate, Settings!TypeOK, Settings!Goto, Settings!Serial,
       JustifiedInv, Justified, Busy
<1>14. ASSUME NEW c \in Settings!Code, Settings!GenerateCode(c) \/ Settings!TelegramLogin(c)
       PROVE  JustifiedInv'
  BY <1>14 DEF Settings!GenerateCode, Settings!TelegramLogin, Settings!Serial,
     JustifiedInv, Justified, Busy
<1>15. CASE UNCHANGED Settings!vars
  BY <1>15
     DEF Settings!vars, Settings!moving, Settings!Serial, JustifiedInv, Justified, Busy
<1> QED
  BY <1>1, <1>2, <1>3, <1>4, <1>5, <1>6, <1>7, <1>8, <1>9, <1>10, <1>11, <1>12, <1>13,
     <1>14, <1>15
     DEF Settings!Next, Settings!Code

\* Requests that are served one at a time leave an authenticator active only with
\* the secret a token was verified for, although every save writes an entity that
\* was loaded before.
THEOREM ActiveIsConfirmed == Settings!Spec => []SerialActiveIsConfirmed
<1>1. JustifiedInv => SerialActiveIsConfirmed
  BY DEF JustifiedInv, Justified, SerialActiveIsConfirmed, Settings!SerialActiveIsConfirmed
<1> QED
  BY SettingsInitTypeOK, SettingsNextTypeOK, InitJustifiedInv, NextJustifiedInv, <1>1, PTL
     DEF Settings!Spec

-----------------------------------------------------------------------------
(* The administrators.                                                     *)

\* Who is found or about to be saved is an account that was given; what a request
\* holds is a row.
PlacesInv ==
  /\ Administrators!Present \subseteq ids
  /\ \A q \in Administrators!Request :
       /\ adminPc[q] # "idle" => admin[q] \in Administrators!User /\ admin[q].id \in ids
       /\ (q \notin Delete /\ adminPc[q] \in {"save", "update"}) =>
            account[q] \in Administrators!Row
       /\ adminPc[q] = "update" => q \in ChangePassword
  /\ \A q \in Delete : target[q] \subseteq ids

AdminTypeInv == Administrators!TypeOK /\ PlacesInv

LEMMA NoRowIsNone == \A x \in Administrators!Row : x # Administrators!NoRow
<1> SUFFICES ASSUME NEW x \in Administrators!Row, x = Administrators!NoRow
             PROVE  FALSE
  OBVIOUS
<1>1. "email" \in DOMAIN x
  BY DEF Administrators!Row
<1>2. "email" \notin DOMAIN Administrators!NoRow
  BY DEF Administrators!NoRow
<1> QED
  BY <1>1, <1>2

LEMMA AdminEnvironmentType ==
  ASSUME AdminAssumptions, staff \in AdminEnvironments
  PROVE  /\ staff.requests \subseteq Administrators!Request
         /\ staff.serial \in BOOLEAN
         /\ staff.maxCrashes \in Nat
BY DEF AdminAssumptions, Administrators!EnvironmentsAssumption

LEMMA InitAdminTypeInv ==
  ASSUME AdminAssumptions
  PROVE  Administrators!Init => AdminTypeInv
<1> SUFFICES ASSUME Administrators!Init
             PROVE  AdminTypeInv
  OBVIOUS
<1>1. Administrators!TypeOK
  <2>1. 0 \in 0..staff.maxCrashes
    BY AdminEnvironmentType DEF Administrators!Init
  <2> QED
    BY <2>1 DEF Administrators!Init, Administrators!TypeOK, Administrators!Resting
<1>2. PlacesInv
  BY DEF Administrators!Init, PlacesInv, Administrators!Present, Administrators!Request
<1> QED
  BY <1>1, <1>2 DEF AdminTypeInv

\* An inserted row is a row with a new id.
LEMMA AdminInserts ==
  ASSUME AdminTypeInv, NEW x \in Administrators!Row, Administrators!Insert(x)
  PROVE  \E a \in Account \ ids :
           /\ ids' = ids \cup {a}
           /\ admins' = [admins EXCEPT ![a] = x]
           /\ hadAdmin' = (hadAdmin \/ x.role = "admin")
           /\ admins' \in [Account -> Administrators!Row \cup {Administrators!NoRow}]
           /\ Administrators!Present' = Administrators!Present \cup {a}
<1> DEFINE a == CHOOSE id \in Account \ ids : TRUE
<1>1. a \in Account \ ids
  BY DEF AdminTypeInv, Administrators!TypeOK, Administrators!Insert
<1>2. /\ ids' = ids \cup {a}
      /\ admins' = [admins EXCEPT ![a] = x]
      /\ hadAdmin' = (hadAdmin \/ x.role = "admin")
  BY DEF Administrators!Insert
<1>3. /\ admins' \in [Account -> Administrators!Row \cup {Administrators!NoRow}]
      /\ Administrators!Present' = Administrators!Present \cup {a}
  BY <1>1, <1>2, NoRowIsNone
     DEF AdminTypeInv, Administrators!TypeOK, Administrators!Present
<1> QED
  BY <1>1, <1>2, <1>3

LEMMA NextAdminTypeInv ==
  ASSUME AdminAssumptions
  PROVE  AdminTypeInv /\ [Administrators!Next]_(Administrators!vars) => AdminTypeInv'
<1> SUFFICES ASSUME AdminTypeInv, [Administrators!Next]_(Administrators!vars)
             PROVE  AdminTypeInv'
  OBVIOUS
<1> DEFINE Labels == {"idle", "done", "find", "save", "update"}
           Rows == Administrators!Row \cup {Administrators!NoRow}
<1>0. /\ Create \cap Delete = {}
      /\ Create \cap ChangePassword = {}
      /\ Delete \cap ChangePassword = {}
  BY DEF AdminAssumptions, Administrators!RequestsAssumption
<1> USE <1>0 DEF AdminTypeInv, PlacesInv, Administrators!TypeOK, Administrators!Present,
                 Administrators!Request, Administrators!Resting
<1>1. CASE Administrators!BootCount
  BY <1>1 DEF Administrators!BootCount
<1>2. CASE Administrators!BootInsert
  <2> DEFINE x == [email |-> Administrators!Default, role |-> "admin", password |-> 1]
  <2>1. x \in Administrators!Row
    BY DEF Administrators!Row, Administrators!Role
  <2> QED
    BY <1>2, <2>1, AdminInserts DEF Administrators!BootInsert
<1>3. CASE Administrators!BootFails
  BY <1>3 DEF Administrators!BootFails
<1>4. CASE Administrators!Crash
  BY <1>4, AdminEnvironmentType DEF Administrators!Crash
<1>5. ASSUME NEW q \in Administrators!Request, Administrators!Authenticate(q)
      PROVE  AdminTypeInv'
  <2>1. PICK a \in Administrators!Present :
          /\ admin' = [admin EXCEPT ![q] = [id |-> a, role |-> admins[a].role]]
          /\ adminPc' = [adminPc EXCEPT ![q] =
                            IF q \in ChangePassword \/ admins[a].role = "admin"
                              THEN "find" ELSE "done"]
    BY <1>5 DEF Administrators!Authenticate, Administrators!Goto
  <2>2. admins[a].role \in Administrators!Role
    BY DEF Administrators!Row
  <2>3. [id |-> a, role |-> admins[a].role] \in Administrators!User
    BY <2>2 DEF Administrators!User
  <2> QED
    BY <1>5, <2>1, <2>3 DEF Administrators!Authenticate
<1>6. ASSUME NEW q \in Administrators!Request, adminPc[q] # "idle",
             Administrators!Refuse(q)
      PROVE  AdminTypeInv'
  BY <1>6 DEF Administrators!Refuse, Administrators!Goto
<1>7. ASSUME NEW q \in Create, Administrators!CreateFind(q)
      PROVE  AdminTypeInv'
  <2>1. PICK e \in NewEmail, r \in Administrators!Role :
          \/ Administrators!Refuse(q)
          \/ /\ account' = [account EXCEPT ![q] = [email |-> e, role |-> r, password |-> 1]]
             /\ Administrators!Goto(q, "save")
             /\ UNCHANGED <<staff, admins, ids, boot, admin, target, hadAdmin, deleted,
                            adminCrashes>>
    BY <1>7 DEF Administrators!CreateFind
  <2>2. [email |-> e, role |-> r, password |-> 1] \in Administrators!Row
    BY DEF Administrators!Row
  <2> QED
    BY <1>6, <1>7, <2>1, <2>2 DEF Administrators!CreateFind, Administrators!Goto
<1>8. ASSUME NEW q \in Create, Administrators!CreateSave(q)
      PROVE  AdminTypeInv'
  <2>1. account[q] \in Administrators!Row
    BY <1>8 DEF Administrators!CreateSave
  <2>2. CASE Administrators!Insert(account[q])
    <3>1. PICK a \in Account \ ids :
            /\ ids' = ids \cup {a}
            /\ hadAdmin' \in BOOLEAN
            /\ admins' \in [Account -> Rows]
            /\ Administrators!Present' = Administrators!Present \cup {a}
      BY <2>1, <2>2, AdminInserts
    <3>2. adminPc' = [adminPc EXCEPT ![q] = "done"] \/ UNCHANGED adminPc
      BY <1>8 DEF Administrators!CreateSave, Administrators!Goto
    <3> QED
      BY <1>8, <3>1, <3>2 DEF Administrators!CreateSave
  <2>3. CASE UNCHANGED <<admins, ids, hadAdmin>>
    BY <1>8, <2>3 DEF Administrators!CreateSave, Administrators!Goto
  <2> QED
    BY <1>8, <2>2, <2>3 DEF Administrators!CreateSave
<1>9. ASSUME NEW q \in Delete, Administrators!DeleteFind(q)
      PROVE  AdminTypeInv'
  BY <1>6, <1>9 DEF Administrators!DeleteFind, Administrators!Goto
<1>10. ASSUME NEW q \in Delete, Administrators!DeleteSave(q)
       PROVE  AdminTypeInv'
  BY <1>10 DEF Administrators!DeleteSave, Administrators!Goto
<1>11. ASSUME NEW q \in ChangePassword, Administrators!PasswordFind(q)
       PROVE  AdminTypeInv'
  <2> DEFINE a == admin[q].id
             x == [admins[a] EXCEPT !.password = @ + 1]
  <2>1. CASE Administrators!Refuse(q)
    BY <1>6, <1>11, <2>1 DEF Administrators!PasswordFind
  <2>2. CASE ~Administrators!Refuse(q)
    <3>1. a \in Administrators!Present
      BY <1>11, <2>2 DEF Administrators!PasswordFind
    <3>2. x \in Administrators!Row
      BY <3>1 DEF Administrators!Row
    <3> QED
      BY <1>11, <2>2, <3>1, <3>2 DEF Administrators!PasswordFind, Administrators!Goto
  <2> QED
    BY <2>1, <2>2
<1>12. ASSUME NEW q \in ChangePassword, Administrators!PasswordSave(q)
       PROVE  AdminTypeInv'
  BY <1>12 DEF Administrators!PasswordSave, Administrators!Goto
<1>13. ASSUME NEW q \in ChangePassword, Administrators!PasswordUpdate(q)
       PROVE  AdminTypeInv'
  <2> DEFINE a == admin[q].id
             x == [admins[a] EXCEPT !.password = account[q].password]
  <2>1. CASE a \in Administrators!Present
    <3>1. x \in Administrators!Row /\ admins' = [admins EXCEPT ![a] = x]
      BY <1>13, <2>1 DEF Administrators!PasswordUpdate, Administrators!Row
    <3> QED
      BY <1>13, <2>1, <3>1 DEF Administrators!PasswordUpdate, Administrators!Goto
  <2>2. CASE a \notin Administrators!Present
    BY <1>13, <2>2 DEF Administrators!PasswordUpdate, Administrators!Goto
  <2> QED
    BY <2>1, <2>2
<1>14. CASE UNCHANGED Administrators!vars
  BY <1>14 DEF Administrators!vars
<1> QED
  BY <1>1, <1>2, <1>3, <1>4, <1>5, <1>6, <1>7, <1>8, <1>9, <1>10, <1>11, <1>12, <1>13,
     <1>14
     DEF Administrators!Next, Administrators!Fail

\* Every variable of the administrators keeps its type, for any accounts,
\* requests and restarts.
THEOREM AdminTypeCorrect ==
  ASSUME AdminAssumptions
  PROVE  Administrators!Spec => []Administrators!TypeOK
<1>1. AdminTypeInv => Administrators!TypeOK
  BY DEF AdminTypeInv
<1> QED
  BY InitAdminTypeInv, NextAdminTypeInv, <1>1, PTL DEF Administrators!Spec

\* While requests are served one at a time, the one under way is made by an
\* account that is there, an administrator's where it has to be, and deletes
\* another one.
AloneInv ==
  /\ hadAdmin => Administrators!Admins # {}
  /\ deleted \cap Administrators!Present = {}
  /\ \A p, q \in Administrators!Request :
       (adminPc[p] \notin {"idle", "done"} /\ adminPc[q] \notin {"idle", "done"}) => p = q
  /\ \A q \in Administrators!Request : adminPc[q] \notin {"idle", "done"} =>
       /\ admin[q].id \in Administrators!Present
       /\ q \in Delete => admin[q].id \in Administrators!Admins
       /\ (q \in Delete /\ adminPc[q] = "save") => admin[q].id \notin target[q]

\* Who is back after its deletion has changed its password.
RestoredInv ==
  \A a \in deleted \cap Administrators!Present :
    \E q \in ChangePassword : admin[q].id = a /\ adminPc[q] = "done"

AdminInv == RestoredInv /\ (staff.serial => AloneInv)

LEMMA InitAdminInv == Administrators!Init => AdminInv
BY DEF Administrators!Init, AdminInv, RestoredInv, AloneInv

LEMMA NextAdminInv ==
  ASSUME AdminAssumptions
  PROVE  AdminTypeInv /\ AdminInv /\ [Administrators!Next]_(Administrators!vars) => AdminInv'
<1> SUFFICES ASSUME AdminTypeInv, AdminInv, [Administrators!Next]_(Administrators!vars)
             PROVE  AdminInv'
  OBVIOUS
<1>0. /\ Create \cap Delete = {}
      /\ Create \cap ChangePassword = {}
      /\ Delete \cap ChangePassword = {}
      /\ staff' = staff
  BY DEF AdminAssumptions, Administrators!RequestsAssumption, Administrators!Next,
     Administrators!vars, Administrators!BootCount, Administrators!BootInsert,
     Administrators!BootFails, Administrators!Crash, Administrators!Authenticate,
     Administrators!Fail, Administrators!Refuse, Administrators!CreateFind,
     Administrators!CreateSave, Administrators!DeleteFind, Administrators!DeleteSave,
     Administrators!PasswordFind, Administrators!PasswordSave, Administrators!PasswordUpdate
<1> USE <1>0
        DEF AdminTypeInv, PlacesInv, AdminInv, RestoredInv, AloneInv, Administrators!TypeOK,
            Administrators!Admins, Administrators!Request, Administrators!Resting
<1>1. CASE Administrators!BootCount
  BY <1>1 DEF Administrators!BootCount, Administrators!Present
<1>2. CASE Administrators!BootInsert
  <2> DEFINE x == [email |-> Administrators!Default, role |-> "admin", password |-> 1]
  <2>1. x \in Administrators!Row
    BY DEF Administrators!Row, Administrators!Role
  <2>2. PICK a \in Account \ ids :
          /\ admins' = [admins EXCEPT ![a] = x]
          /\ Administrators!Present' = Administrators!Present \cup {a}
    BY <1>2, <2>1, AdminInserts DEF Administrators!BootInsert
  <2>3. a \in Administrators!Admins' /\ Administrators!Admins \subseteq Administrators!Admins'
    BY <2>2
  <2>4. UNCHANGED <<adminPc, admin, target, deleted>>
    BY <1>2 DEF Administrators!BootInsert
  <2> QED
    BY <2>2, <2>3, <2>4
<1>3. CASE Administrators!BootFails
  BY <1>3 DEF Administrators!BootFails, Administrators!Present
<1>4. CASE Administrators!Crash
  <2>1. UNCHANGED <<admins, admin, target, hadAdmin, deleted>>
    BY <1>4 DEF Administrators!Crash
  <2>2. \A q \in Administrators!Request :
          adminPc'[q] = IF adminPc[q] = "idle" THEN "idle" ELSE "done"
    BY <1>4 DEF Administrators!Crash
  <2> QED
    BY <2>1, <2>2 DEF Administrators!Present
<1>5. ASSUME NEW q \in Administrators!Request, Administrators!Authenticate(q)
      PROVE  AdminInv'
  <2>1. PICK a \in Administrators!Present :
          /\ admin' = [admin EXCEPT ![q] = [id |-> a, role |-> admins[a].role]]
          /\ adminPc' = [adminPc EXCEPT ![q] =
                            IF q \in ChangePassword \/ admins[a].role = "admin"
                              THEN "find" ELSE "done"]
    BY <1>5 DEF Administrators!Authenticate, Administrators!Goto
  <2>2. /\ adminPc[q] = "idle"
        /\ staff.serial => \A p \in Administrators!Request : adminPc[p] \in {"idle", "done"}
        /\ UNCHANGED <<admins, target, hadAdmin, deleted>>
    BY <1>5 DEF Administrators!Authenticate
  <2> QED
    BY <2>1, <2>2 DEF Administrators!Present
<1>6. ASSUME NEW q \in Administrators!Request, adminPc[q] \notin {"idle", "done"},
             Administrators!Refuse(q)
      PROVE  AdminInv'
  BY <1>6 DEF Administrators!Refuse, Administrators!Goto, Administrators!Present
<1>7. ASSUME NEW q \in Create, Administrators!CreateFind(q)
      PROVE  AdminInv'
  <2>1. CASE Administrators!Refuse(q)
    BY <1>6, <1>7, <2>1 DEF Administrators!CreateFind
  <2>2. CASE /\ Administrators!Goto(q, "save")
             /\ UNCHANGED <<admins, admin, target, hadAdmin, deleted>>
    BY <1>7, <2>2 DEF Administrators!CreateFind, Administrators!Goto, Administrators!Present
  <2> QED
    BY <1>7, <2>1, <2>2 DEF Administrators!CreateFind
<1>8. ASSUME NEW q \in Create, Administrators!CreateSave(q)
      PROVE  AdminInv'
  <2>1. /\ account[q] \in Administrators!Row
        /\ adminPc[q] = "save"
        /\ adminPc' = [adminPc EXCEPT ![q] = "done"]
        /\ UNCHANGED <<admin, target, deleted>>
    BY <1>8 DEF Administrators!CreateSave, Administrators!Goto
  <2>2. CASE Administrators!Insert(account[q])
    <3>1. PICK a \in Account \ ids :
            /\ admins' = [admins EXCEPT ![a] = account[q]]
            /\ hadAdmin' = (hadAdmin \/ account[q].role = "admin")
            /\ Administrators!Present' = Administrators!Present \cup {a}
      BY <2>1, <2>2, AdminInserts
    <3>2. /\ Administrators!Admins \subseteq Administrators!Admins'
          /\ hadAdmin' => hadAdmin \/ a \in Administrators!Admins'
      BY <3>1
    <3> QED
      BY <2>1, <3>1, <3>2
  <2>3. CASE UNCHANGED <<admins, ids, hadAdmin>>
    BY <2>1, <2>3 DEF Administrators!Present
  <2> QED
    BY <1>8, <2>2, <2>3 DEF Administrators!CreateSave
<1>9. ASSUME NEW q \in Delete, Administrators!DeleteFind(q)
      PROVE  AdminInv'
  <2>1. CASE Administrators!Refuse(q)
    BY <1>6, <1>9, <2>1 DEF Administrators!DeleteFind
  <2>2. CASE \E a \in ids : /\ a # admin[q].id
                            /\ target' = [target EXCEPT ![q] = {a}]
                            /\ Administrators!Goto(q, "save")
                            /\ UNCHANGED <<admins, admin, hadAdmin, deleted>>
    BY <1>9, <2>2 DEF Administrators!DeleteFind, Administrators!Goto, Administrators!Present
  <2> QED
    BY <1>9, <2>1, <2>2 DEF Administrators!DeleteFind
<1>10. ASSUME NEW q \in Delete, Administrators!DeleteSave(q)
       PROVE  AdminInv'
  <2>1. /\ adminPc[q] = "save"
        /\ adminPc' = [adminPc EXCEPT ![q] = "done"]
        /\ admins' = [a \in Account |->
                        IF a \in target[q] THEN Administrators!NoRow ELSE admins[a]]
        /\ deleted' = deleted \cup target[q]
        /\ UNCHANGED <<admin, target, hadAdmin>>
    BY <1>10 DEF Administrators!DeleteSave, Administrators!Goto
  <2>2. Administrators!Present' = Administrators!Present \ target[q]
    BY <2>1 DEF Administrators!Present
  <2>3. staff.serial => admin[q].id \in Administrators!Admins'
    BY <2>1, <2>2
  <2> QED
    BY <2>1, <2>2, <2>3
<1>11. ASSUME NEW q \in ChangePassword, Administrators!PasswordFind(q)
       PROVE  AdminInv'
  <2>1. CASE Administrators!Refuse(q)
    BY <1>6, <1>11, <2>1 DEF Administrators!PasswordFind
  <2>2. CASE ~Administrators!Refuse(q)
    BY <1>11, <2>2
       DEF Administrators!PasswordFind, Administrators!Goto, Administrators!Present
  <2> QED
    BY <2>1, <2>2
<1>12. ASSUME NEW q \in ChangePassword, Administrators!PasswordSave(q)
       PROVE  AdminInv'
  <2>1. UNCHANGED <<admin, target, hadAdmin, deleted>> /\ adminPc[q] = "save"
    BY <1>12 DEF Administrators!PasswordSave
  <2>2. CASE adminPc' = [adminPc EXCEPT ![q] = "update"] /\ UNCHANGED admins
    BY <2>1, <2>2 DEF Administrators!Present
  <2>3. CASE /\ admin[q].id \notin Administrators!Present
             /\ adminPc' = [adminPc EXCEPT ![q] = "done"]
             /\ \/ UNCHANGED admins
                \/ admins' = [admins EXCEPT ![admin[q].id] = account[q]]
    <3>1. ~staff.serial
      BY <2>1, <2>3
    <3>2. Administrators!Present' \subseteq Administrators!Present \cup {admin[q].id}
      BY <2>3 DEF Administrators!Present
    <3> QED
      BY <2>1, <2>3, <3>1, <3>2
  <2> QED
    BY <1>12, <2>2, <2>3 DEF Administrators!PasswordSave, Administrators!Goto
<1>13. ASSUME NEW q \in ChangePassword, Administrators!PasswordUpdate(q)
       PROVE  AdminInv'
  <2>1. /\ adminPc[q] = "update"
        /\ adminPc' = [adminPc EXCEPT ![q] = "done"]
        /\ UNCHANGED <<admin, target, hadAdmin, deleted>>
    BY <1>13 DEF Administrators!PasswordUpdate, Administrators!Goto
  <2>2. /\ Administrators!Present' = Administrators!Present
        /\ Administrators!Admins' = Administrators!Admins
    <3> DEFINE b == admin[q].id
               x == [admins[b] EXCEPT !.password = account[q].password]
    <3>1. CASE b \in Administrators!Present
      <4>1. /\ x \in Administrators!Row
            /\ x.role = admins[b].role
            /\ admins' = [admins EXCEPT ![b] = x]
        BY <1>13, <2>1, <3>1
           DEF Administrators!PasswordUpdate, Administrators!Row, Administrators!Present
      <4> QED
        BY <3>1, <4>1, NoRowIsNone DEF Administrators!Present
    <3>2. CASE b \notin Administrators!Present
      BY <1>13, <3>2 DEF Administrators!PasswordUpdate, Administrators!Present
    <3> QED
      BY <3>1, <3>2
  <2> QED
    BY <2>1, <2>2
<1>14. CASE UNCHANGED Administrators!vars
  BY <1>14 DEF Administrators!vars, Administrators!Present
<1> QED
  BY <1>1, <1>2, <1>3, <1>4, <1>5, <1>6, <1>7, <1>8, <1>9, <1>10, <1>11, <1>12, <1>13,
     <1>14
     DEF Administrators!Next, Administrators!Fail

\* While requests are served one at a time, there is an administrator once there
\* was one, and who was deleted stays so; and whoever comes back, comes back by
\* a change of its own password.
THEOREM AdminRemains ==
  ASSUME AdminAssumptions
  PROVE  Administrators!Spec => []SerialAdminRemains
<1>1. AdminInv => SerialAdminRemains
  BY DEF AdminInv, RestoredInv, AloneInv, SerialAdminRemains,
         Administrators!SerialAdminRemains
<1> QED
  BY InitAdminTypeInv, NextAdminTypeInv, InitAdminInv, NextAdminInv, <1>1, PTL
     DEF Administrators!Spec

-----------------------------------------------------------------------------
(* The rate limiter, for any limit, window and time, and any number of     *)
(* restarts.                                                               *)

\* The instance counts with a Cardinality of its own, which is the same.
LEMMA SameCardinality == \A S : Limiter!Cardinality(S) = Cardinality(S)
BY DEF Limiter!Cardinality, Cardinality, Limiter!IsFiniteSet, IsFiniteSet

\* There is one entry, or none.
LimiterTypeInv ==
  /\ now \in Limiter!Time
  /\ info = {} \/ \E i \in [count : 1..MAX_REQUESTS, firstRequestTime : 0..now] : info = {i}
  /\ served \in Seq(0..now)
  /\ refused \in BOOLEAN
  /\ restarts \in 0..MaxRestarts

LEMMA InitLimiterTypeInv ==
  ASSUME Limiter!LimiterAssumption
  PROVE  Limiter!Init => LimiterTypeInv
<1> SUFFICES ASSUME Limiter!Init
             PROVE  LimiterTypeInv
  OBVIOUS
<1>1. <<>> \in Seq(0..now)
  OBVIOUS
<1>2. 0 \in 0..MaxTime /\ 0 \in 0..MaxRestarts
  BY DEF Limiter!LimiterAssumption
<1> QED
  BY <1>1, <1>2 DEF Limiter!Init, LimiterTypeInv, Limiter!Time

\* A request begins a window, is refused by a full one, or one of a window.
LEMMA UseSteps ==
  ASSUME Limiter!LimiterAssumption, LimiterTypeInv, Limiter!Use
  PROVE  /\ now' = now /\ restarts' = restarts
         /\ \/ /\ \/ info = {}
                  \/ \E i \in info : now > i.firstRequestTime + WindowSize
               /\ info' = {[count |-> 1, firstRequestTime |-> now]}
               /\ served' = Append(served, now) /\ refused' = FALSE
            \/ \E i \in info :
                 /\ now <= i.firstRequestTime + WindowSize
                 /\ i.count >= MAX_REQUESTS
                 /\ refused' = TRUE /\ UNCHANGED <<info, served>>
            \/ \E i \in info :
                 /\ i.count < MAX_REQUESTS
                 /\ info' = {[count |-> i.count + 1, firstRequestTime |-> i.firstRequestTime]}
                 /\ served' = Append(served, now) /\ refused' = FALSE
<1>1. MAX_REQUESTS \in Nat /\ WindowSize \in Nat /\ MaxTime \in Nat /\ now \in Nat
  BY DEF Limiter!LimiterAssumption, LimiterTypeInv, Limiter!Time
<1>2. \A i \in info : /\ i \in [count : 1..MAX_REQUESTS, firstRequestTime : 0..now]
                      /\ i.count \in Nat /\ i.firstRequestTime \in Nat
  BY <1>1 DEF LimiterTypeInv
<1>3. \A i \in info : [i EXCEPT !.count = @ + 1]
                        = [count |-> i.count + 1, firstRequestTime |-> i.firstRequestTime]
  BY <1>2
<1>4. CASE info = {} /\ Limiter!NewWindow
  BY <1>4 DEF Limiter!Use, Limiter!NewWindow, Limiter!Serve
<1>5. ASSUME NEW i \in info, now - i.firstRequestTime > WindowSize, Limiter!NewWindow
      PROVE  now > i.firstRequestTime + WindowSize
  BY <1>1, <1>2, <1>5
<1>6. ASSUME NEW i \in info, now - i.firstRequestTime <= WindowSize
      PROVE  now <= i.firstRequestTime + WindowSize
  BY <1>1, <1>2, <1>6
<1>7. \A i \in info : i.count >= MAX_REQUESTS \/ i.count < MAX_REQUESTS
  BY <1>1, <1>2
<1> QED
  BY <1>3, <1>4, <1>5, <1>6, <1>7 DEF Limiter!Use, Limiter!NewWindow, Limiter!Serve

LEMMA NextLimiterTypeInv ==
  ASSUME Limiter!LimiterAssumption
  PROVE  LimiterTypeInv /\ [Limiter!Next]_(Limiter!vars) => LimiterTypeInv'
<1> SUFFICES ASSUME LimiterTypeInv, [Limiter!Next]_(Limiter!vars)
             PROVE  LimiterTypeInv'
  OBVIOUS
<1>1. /\ MAX_REQUESTS \in Nat \ {0} /\ MaxTime \in Nat /\ MaxRestarts \in Nat
      /\ now \in 0..MaxTime
  BY DEF Limiter!LimiterAssumption, LimiterTypeInv, Limiter!Time
<1>2. CASE Limiter!Use
  <2>1. \A s \in Seq(0..now) : Append(s, now) \in Seq(0..now)
    BY <1>1
  <2>2. [count |-> 1, firstRequestTime |-> now]
          \in [count : 1..MAX_REQUESTS, firstRequestTime : 0..now]
    BY <1>1
  <2>3. ASSUME NEW i \in info, i.count < MAX_REQUESTS
        PROVE  [count |-> i.count + 1, firstRequestTime |-> i.firstRequestTime]
                 \in [count : 1..MAX_REQUESTS, firstRequestTime : 0..now]
    BY <1>1, <2>3 DEF LimiterTypeInv
  <2> QED
    BY <1>2, <2>1, <2>2, <2>3, UseSteps DEF LimiterTypeInv
<1>3. CASE Limiter!Tick
  <2>1. now' = now + 1 /\ now' \in Limiter!Time /\ 0..now \subseteq 0..now'
    BY <1>1, <1>3 DEF Limiter!Tick, Limiter!Time
  <2>2. served' \in Seq(0..now')
    <3>1. served' = served /\ served \in Seq(0..now)
      BY <1>3 DEF Limiter!Tick, LimiterTypeInv
    <3> QED
      BY <2>1, <3>1, SeqMonotonic
  <2>3. info' = {} \/ \E i \in [count : 1..MAX_REQUESTS, firstRequestTime : 0..now'] : info' = {i}
    <3>1. \A i \in [count : 1..MAX_REQUESTS, firstRequestTime : 0..now] :
            i \in [count : 1..MAX_REQUESTS, firstRequestTime : 0..now']
      BY <2>1
    <3> QED
      BY <1>3, <3>1 DEF Limiter!Tick, LimiterTypeInv
  <2> QED
    BY <1>3, <2>1, <2>2, <2>3 DEF Limiter!Tick, LimiterTypeInv
<1>4. CASE Limiter!Restart
  <2>1. restarts' \in 0..MaxRestarts
    BY <1>1, <1>4 DEF Limiter!Restart, LimiterTypeInv
  <2> QED
    BY <1>4, <2>1 DEF Limiter!Restart, LimiterTypeInv, Limiter!Time
<1>5. CASE UNCHANGED Limiter!vars
  BY <1>5 DEF Limiter!vars, LimiterTypeInv
<1> QED
  BY <1>2, <1>3, <1>4, <1>5 DEF Limiter!Next

\* Every variable of the limiter keeps its type.
THEOREM LimiterTypeCorrect ==
  ASSUME Limiter!LimiterAssumption
  PROVE  Limiter!Spec => []Limiter!TypeOK
<1>1. LimiterTypeInv => Limiter!TypeOK
  <2> SUFFICES ASSUME LimiterTypeInv
               PROVE  Limiter!TypeOK
    OBVIOUS
  <2>1. info = {} \/ \E i : info = {i}
    BY DEF LimiterTypeInv
  <2>2. Cardinality(info) <= 1
    <3>1. CASE info = {}
      BY <3>1, FS_EmptySet
    <3>2. ASSUME NEW i, info = {i}
          PROVE  Cardinality(info) <= 1
      <4>1. Cardinality({i}) = 1
        BY FS_Singleton
      <4> QED
        BY <3>2, <4>1
    <3> QED
      BY <2>1, <3>1, <3>2
  <2>3. \A i \in info : i.count \in 1..MAX_REQUESTS /\ i.firstRequestTime \in 0..now
    BY DEF LimiterTypeInv
  <2> QED
    BY <2>2, <2>3, SameCardinality DEF LimiterTypeInv, Limiter!TypeOK
<1> QED
  BY <1>1, InitLimiterTypeInv, NextLimiterTypeInv, PTL DEF Limiter!Spec

-----------------------------------------------------------------------------
(* The requests that went through.                                         *)

\* How many of the times in a sequence are between two times.
Count(s, a, b) == Cardinality({n \in DOMAIN s : s[n] \in a..b})

LEMMA CountFinite ==
  ASSUME NEW m \in Nat, NEW s \in Seq(0..m), NEW a \in Nat, NEW b \in Nat
  PROVE  IsFiniteSet({n \in DOMAIN s : s[n] \in a..b}) /\ Count(s, a, b) \in Nat
<1>1. DOMAIN s = 1..Len(s) /\ Len(s) \in Nat
  OBVIOUS
<1>2. IsFiniteSet(1..Len(s))
  BY <1>1, FS_Interval
<1>3. {n \in DOMAIN s : s[n] \in a..b} \in SUBSET (1..Len(s))
  BY <1>1
<1>4. IsFiniteSet({n \in DOMAIN s : s[n] \in a..b})
  BY <1>2, <1>3, FS_Subset
<1> QED
  BY <1>4, FS_CardinalityType DEF Count

LEMMA CountWider ==
  ASSUME NEW m \in Nat, NEW s \in Seq(0..m), NEW a \in Nat, NEW b \in Nat,
         NEW c \in Nat, NEW d \in Nat, c <= a, b <= d
  PROVE  Count(s, a, b) <= Count(s, c, d)
<1>1. {n \in DOMAIN s : s[n] \in a..b} \in SUBSET {n \in DOMAIN s : s[n] \in c..d}
  <2>1. \A n \in DOMAIN s : s[n] \in Nat
    OBVIOUS
  <2> QED
    BY <2>1
<1>2. IsFiniteSet({n \in DOMAIN s : s[n] \in c..d})
  BY CountFinite
<1> QED
  BY <1>1, <1>2, FS_Subset DEF Count

\* No request came after the last.
LEMMA CountToLast ==
  ASSUME NEW m \in Nat, NEW s \in Seq(0..m), NEW a \in Nat, NEW b \in Nat
  PROVE  /\ b >= m => Count(s, a, b) = Count(s, a, m)
         /\ a > m => Count(s, a, b) = 0
<1>1. \A n \in DOMAIN s : s[n] \in 0..m
  OBVIOUS
<1>2. ASSUME b >= m
      PROVE  {n \in DOMAIN s : s[n] \in a..b} = {n \in DOMAIN s : s[n] \in a..m}
  BY <1>1, <1>2
<1>3. ASSUME a > m
      PROVE  {n \in DOMAIN s : s[n] \in a..b} = {}
  BY <1>1, <1>3
<1> QED
  BY <1>2, <1>3, FS_EmptySet DEF Count

\* One more counts where its time is asked for.
LEMMA CountOneMore ==
  ASSUME NEW m \in Nat, NEW s \in Seq(0..m), NEW a \in Nat, NEW b \in Nat
  PROVE  /\ m \in a..b => Count(Append(s, m), a, b) = Count(s, a, b) + 1
         /\ m \notin a..b => Count(Append(s, m), a, b) = Count(s, a, b)
<1> DEFINE k == Len(s) + 1
           In == {n \in DOMAIN s : s[n] \in a..b}
           More == {n \in DOMAIN Append(s, m) : Append(s, m)[n] \in a..b}
<1>1. /\ DOMAIN s = 1..Len(s) /\ Len(s) \in Nat
      /\ DOMAIN Append(s, m) = 1..k
      /\ \A n \in 1..Len(s) : Append(s, m)[n] = s[n]
      /\ Append(s, m)[k] = m
  OBVIOUS
<1>2. 1..k = (1..Len(s)) \cup {k} /\ k \notin 1..Len(s)
  BY <1>1
<1>3. CASE m \in a..b
  <2>1. More = In \cup {k} /\ k \notin In
    BY <1>1, <1>2, <1>3
  <2>2. IsFiniteSet(In)
    BY CountFinite
  <2>3. Cardinality(In \cup {k}) = Cardinality(In) + 1
    BY <2>1, <2>2, FS_AddElement
  <2> QED
    BY <1>3, <2>1, <2>3 DEF Count
<1>4. CASE m \notin a..b
  <2>1. More = In
    BY <1>1, <1>2, <1>4
  <2> QED
    BY <1>4, <2>1 DEF Count
<1> QED
  BY <1>3, <1>4

-----------------------------------------------------------------------------
(* The limit.                                                              *)

\* What may have gone through before the present window.
Before(r) == (1 + r) * MAX_REQUESTS

LEMMA Products ==
  ASSUME Limiter!LimiterAssumption, NEW r \in Nat
  PROVE  /\ MAX_REQUESTS \in Nat /\ Before(r) \in Nat
         /\ Before(r) >= MAX_REQUESTS
         /\ Before(r + 1) = Before(r) + MAX_REQUESTS
         /\ (2 + r) * MAX_REQUESTS = Before(r) + MAX_REQUESTS
<1>1. MAX_REQUESTS \in Nat
  BY DEF Limiter!LimiterAssumption
<1>2. r * MAX_REQUESTS \in Nat
  BY <1>1
<1>3. /\ (1 + r) * MAX_REQUESTS = r * MAX_REQUESTS + MAX_REQUESTS
      /\ (2 + r) * MAX_REQUESTS = r * MAX_REQUESTS + MAX_REQUESTS + MAX_REQUESTS
      /\ (1 + (r + 1)) * MAX_REQUESTS = r * MAX_REQUESTS + MAX_REQUESTS + MAX_REQUESTS
  BY <1>1
<1> QED
  BY <1>1, <1>2, <1>3 DEF Before

\* The present window's requests are those since its begin; a stretch of time
\* that reaches into it has met no more than one window before it, and one for
\* each restart.
WindowInv ==
  \A i \in info :
    /\ Count(served, i.firstRequestTime + 1, now) <= i.count
    /\ Count(served, i.firstRequestTime, now) >= i.count
    /\ \A t \in Limiter!Time : t + WindowSize >= i.firstRequestTime =>
         Count(served, t, now) <= Before(restarts) + i.count

ForgottenInv ==
  info = {} =>
    \A t \in Limiter!Time :
      t + WindowSize >= now => Count(served, t, now) <= Before(restarts)

StretchInv ==
  \A t \in Limiter!Time : Count(served, t, t + WindowSize) <= Before(restarts) + MAX_REQUESTS

RefusedInv ==
  refused => \E t \in Limiter!Time : /\ t <= now /\ now <= t + WindowSize
                             /\ Count(served, t, now) >= MAX_REQUESTS

LimitInv == WindowInv /\ ForgottenInv /\ StretchInv /\ RefusedInv

\* A request is served: every stretch that reaches to now has one more.
LEMMA ServedStretch ==
  ASSUME Limiter!LimiterAssumption, LimiterTypeInv, StretchInv, NEW n \in 1..MAX_REQUESTS,
         \A t \in Limiter!Time : t + WindowSize >= now =>
           Count(Append(served, now), t, now) <= Before(restarts) + n,
         NEW t \in Limiter!Time
  PROVE  Count(Append(served, now), t, t + WindowSize) <= Before(restarts) + MAX_REQUESTS
<1>1. /\ now \in Nat /\ t \in Nat /\ WindowSize \in Nat /\ t + WindowSize \in Nat
      /\ served \in Seq(0..now) /\ Append(served, now) \in Seq(0..now)
      /\ MAX_REQUESTS \in Nat /\ restarts \in Nat
  BY DEF Limiter!LimiterAssumption, LimiterTypeInv, Limiter!Time
<1>2. Before(restarts) \in Nat
  BY <1>1, Products
<1>3. CASE t + WindowSize >= now
  <2>1. Count(Append(served, now), t, t + WindowSize) = Count(Append(served, now), t, now)
    BY <1>1, <1>3, CountToLast
  <2>2. Count(Append(served, now), t, now) \in Nat
    BY <1>1, CountFinite
  <2>3. Count(Append(served, now), t, now) <= Before(restarts) + n
    BY <1>3
  <2> QED
    BY <1>1, <1>2, <2>1, <2>2, <2>3
<1>4. CASE t + WindowSize < now
  <2>1. now \notin t..(t + WindowSize)
    BY <1>1, <1>4
  <2>2. Count(Append(served, now), t, t + WindowSize) = Count(served, t, t + WindowSize)
    BY <1>1, <2>1, CountOneMore
  <2> QED
    BY <2>2 DEF StretchInv
<1> QED
  BY <1>1, <1>3, <1>4

LEMMA NextLimitInv ==
  ASSUME Limiter!LimiterAssumption
  PROVE  LimiterTypeInv /\ LimitInv /\ [Limiter!Next]_(Limiter!vars) => LimitInv'
<1> SUFFICES ASSUME LimiterTypeInv, WindowInv, ForgottenInv, StretchInv, RefusedInv,
                    [Limiter!Next]_(Limiter!vars)
             PROVE  LimitInv'
  BY DEF LimitInv
<1> DEFINE more == Append(served, now)
<1>0. /\ now \in Nat /\ WindowSize \in Nat /\ MAX_REQUESTS \in Nat /\ MAX_REQUESTS >= 1
      /\ restarts \in Nat /\ now \in Limiter!Time /\ \A t \in Limiter!Time : t \in Nat
      /\ served \in Seq(0..now) /\ more \in Seq(0..now)
  BY DEF LimiterTypeInv, Limiter!Time, Limiter!LimiterAssumption
<1>i. \A i \in info : /\ i.count \in Nat /\ i.count <= MAX_REQUESTS
                      /\ i.firstRequestTime \in Nat /\ i.firstRequestTime <= now
                      /\ i.firstRequestTime \in Limiter!Time
  <2>1. /\ MaxTime \in Nat /\ now \in 0..MaxTime
        /\ \A i \in info : i \in [count : 1..MAX_REQUESTS, firstRequestTime : 0..now]
    BY DEF LimiterTypeInv, Limiter!Time, Limiter!LimiterAssumption
  <2> QED
    BY <1>0, <2>1 DEF Limiter!Time
<1>p. /\ Before(restarts) \in Nat /\ Before(restarts) >= MAX_REQUESTS
      /\ Before(restarts + 1) = Before(restarts) + MAX_REQUESTS
  BY <1>0, Products
<1>c. \A a, b \in Nat : Count(served, a, b) \in Nat /\ Count(more, a, b) \in Nat
  BY <1>0, CountFinite
<1>m. ASSUME NEW a \in Nat
      PROVE  /\ Count(served, a, now) \in Nat /\ Count(more, a, now) \in Nat
             /\ a <= now => Count(more, a, now) = Count(served, a, now) + 1
             /\ Count(more, a, now) <= Count(served, a, now) + 1
  <2>1. now \in a..now <=> a <= now
    BY <1>0
  <2>2. Count(served, a, now) \in Nat /\ Count(more, a, now) \in Nat
    BY <1>0, <1>c
  <2>3. CASE a <= now
    <3>1. Count(more, a, now) = Count(served, a, now) + 1
      BY <1>0, <2>1, <2>3, CountOneMore
    <3> QED
      BY <2>2, <3>1
  <2>4. CASE ~(a <= now)
    <3>1. Count(more, a, now) = Count(served, a, now)
      BY <1>0, <2>1, <2>4, CountOneMore
    <3> QED
      BY <2>2, <2>4, <3>1
  <2> QED
    BY <2>3, <2>4
<1> HIDE DEF more
<1>1. CASE Limiter!Use
  <2>a. now' = now /\ restarts' = restarts
    BY <1>1, UseSteps
  <2>1. CASE /\ \/ info = {}
                \/ \E i \in info : now > i.firstRequestTime + WindowSize
             /\ info' = {[count |-> 1, firstRequestTime |-> now]}
             /\ served' = more /\ refused' = FALSE
    <3>1. ASSUME NEW t \in Limiter!Time, t + WindowSize >= now
          PROVE  Count(served, t, now) <= Before(restarts)
      <4>1. CASE info = {}
        BY <3>1, <4>1 DEF ForgottenInv
      <4>2. ASSUME NEW i \in info, now > i.firstRequestTime + WindowSize
            PROVE  Count(served, t, now) <= Before(restarts)
        <5> DEFINE f == i.firstRequestTime + 1
        <5>1. f <= t /\ t \in Nat /\ f \in Nat
          BY <1>0, <1>i, <3>1, <4>2
        <5>2. Count(served, t, now) <= Count(served, f, now)
          BY <1>0, <5>1, CountWider
        <5>3. Count(served, f, now) <= i.count
          BY DEF WindowInv
        <5>4. Count(served, t, now) \in Nat /\ Count(served, f, now) \in Nat
          BY <1>0, <1>c, <5>1
        <5> HIDE DEF f
        <5> QED
          BY <1>0, <1>i, <1>p, <5>2, <5>3, <5>4
      <4> QED
        BY <2>1, <4>1, <4>2
    <3>2. ASSUME NEW t \in Limiter!Time, t + WindowSize >= now
          PROVE  Count(more, t, now) <= Before(restarts) + 1
      <4>1. Count(served, t, now) <= Before(restarts)
        BY <3>1, <3>2
      <4>2. /\ Count(served, t, now) \in Nat /\ Count(more, t, now) \in Nat
            /\ Count(more, t, now) <= Count(served, t, now) + 1
        BY <1>0, <1>m
      <4> QED
        BY <1>p, <4>1, <4>2
    <3>3. StretchInv'
      BY <1>0, <2>1, <2>a, <3>2, ServedStretch DEF StretchInv, Before, more
    <3>4. Count(more, now + 1, now) <= 1 /\ Count(more, now, now) >= 1
      <4>1. now + 1 \in Nat /\ now + 1 > now
        BY <1>0
      <4>2. Count(more, now + 1, now) = 0
        BY <1>0, <4>1, CountToLast
      <4>3. /\ Count(more, now, now) = Count(served, now, now) + 1
            /\ Count(served, now, now) \in Nat
        BY <1>0, <1>m
      <4> QED
        BY <4>2, <4>3
    <3>5. WindowInv'
      BY <2>1, <2>a, <3>2, <3>4 DEF WindowInv, Before
    <3> QED
      BY <2>1, <3>3, <3>5 DEF LimitInv, ForgottenInv, RefusedInv
  <2>2. ASSUME NEW i \in info, now <= i.firstRequestTime + WindowSize,
               i.count >= MAX_REQUESTS, refused' = TRUE, UNCHANGED <<info, served>>
        PROVE  LimitInv'
    <3>1. Count(served, i.firstRequestTime, now) >= MAX_REQUESTS
      <4>1. Count(served, i.firstRequestTime, now) >= i.count
        BY DEF WindowInv
      <4>2. Count(served, i.firstRequestTime, now) \in Nat
        BY <1>0, <1>i, <1>c
      <4> QED
        BY <1>0, <1>i, <2>2, <4>1, <4>2
    <3>2. RefusedInv'
      BY <1>i, <2>2, <2>a, <3>1 DEF RefusedInv
    <3> QED
      BY <2>2, <2>a, <3>2 DEF LimitInv, WindowInv, ForgottenInv, StretchInv, Before
  <2>3. ASSUME NEW i \in info, i.count < MAX_REQUESTS,
               info' = {[count |-> i.count + 1, firstRequestTime |-> i.firstRequestTime]},
               served' = more, refused' = FALSE
        PROVE  LimitInv'
    <3>0. i.count + 1 \in 1..MAX_REQUESTS
      BY <1>0, <1>i, <2>3
    <3>2. ASSUME NEW t \in Limiter!Time, t + WindowSize >= i.firstRequestTime
          PROVE  Count(more, t, now) <= Before(restarts) + (i.count + 1)
      <4>1. Count(served, t, now) <= Before(restarts) + i.count
        BY <3>2 DEF WindowInv
      <4>2. /\ Count(served, t, now) \in Nat /\ Count(more, t, now) \in Nat
            /\ Count(more, t, now) <= Count(served, t, now) + 1
        BY <1>0, <1>m
      <4> QED
        BY <1>i, <1>p, <4>1, <4>2
    <3>3. StretchInv'
      <4>1. ASSUME NEW t \in Limiter!Time, t + WindowSize >= now
            PROVE  Count(more, t, now) <= Before(restarts) + (i.count + 1)
        <5>1. t + WindowSize >= i.firstRequestTime
          BY <1>0, <1>i, <4>1
        <5> QED
          BY <3>2, <5>1
      <4> QED
        BY <2>3, <2>a, <3>0, <4>1, ServedStretch DEF StretchInv, Before, more
    <3>4. /\ Count(more, i.firstRequestTime + 1, now) <= i.count + 1
          /\ Count(more, i.firstRequestTime, now) >= i.count + 1
      <4>1. /\ Count(served, i.firstRequestTime + 1, now) <= i.count
            /\ Count(served, i.firstRequestTime, now) >= i.count
        BY DEF WindowInv
      <4>2. i.firstRequestTime + 1 \in Nat /\ i.firstRequestTime <= now
        BY <1>i
      <4> DEFINE f == i.firstRequestTime + 1
      <4>3. /\ Count(served, f, now) \in Nat /\ Count(more, f, now) \in Nat
            /\ Count(more, f, now) <= Count(served, f, now) + 1
        BY <1>m, <4>2
      <4>4. /\ Count(served, i.firstRequestTime, now) \in Nat
            /\ Count(more, i.firstRequestTime, now)
                 = Count(served, i.firstRequestTime, now) + 1
        BY <1>i, <1>m
      <4> QED
        BY <1>i, <4>1, <4>3, <4>4
    <3>5. WindowInv'
      BY <2>3, <2>a, <3>2, <3>4 DEF WindowInv, Before
    <3> QED
      BY <2>3, <3>3, <3>5 DEF LimitInv, ForgottenInv, RefusedInv
  <2> QED
    BY <1>1, <2>1, <2>2, <2>3, UseSteps DEF more
<1>2. CASE Limiter!Tick
  <2>1. now' = now + 1 /\ UNCHANGED <<info, served, restarts>> /\ refused' = FALSE
    BY <1>2 DEF Limiter!Tick
  <2>2. ASSUME NEW a \in Nat
        PROVE  Count(served, a, now + 1) = Count(served, a, now)
    BY <1>0, CountToLast
  <2>3. WindowInv'
    BY <1>0, <1>i, <2>1, <2>2 DEF WindowInv, Before
  <2>4. ForgottenInv'
    BY <1>0, <2>1, <2>2 DEF ForgottenInv, Before
  <2> QED
    BY <2>1, <2>3, <2>4 DEF LimitInv, StretchInv, RefusedInv, Before
<1>3. CASE Limiter!Restart
  <2>1. restarts' = restarts + 1 /\ info' = {} /\ refused' = FALSE /\ UNCHANGED <<now, served>>
    BY <1>3 DEF Limiter!Restart
  <2>2. ASSUME NEW t \in Limiter!Time, t + WindowSize >= now
        PROVE  Count(served, t, now) <= Before(restarts + 1)
    <3>0. Count(served, t, now) \in Nat
      BY <1>0, <1>c
    <3>1. CASE info = {}
      <4>1. Count(served, t, now) <= Before(restarts)
        BY <2>2, <3>1 DEF ForgottenInv
      <4> QED
        BY <1>0, <1>p, <3>0, <4>1
    <3>2. ASSUME NEW i \in info
          PROVE  Count(served, t, now) <= Before(restarts + 1)
      <4>1. t + WindowSize >= i.firstRequestTime
        BY <1>0, <1>i, <2>2
      <4>2. Count(served, t, now) <= Before(restarts) + i.count
        BY <4>1 DEF WindowInv
      <4> QED
        BY <1>0, <1>i, <1>p, <3>0, <4>2
    <3> QED
      BY <3>1, <3>2
  <2>3. ForgottenInv' /\ WindowInv'
    BY <2>1, <2>2 DEF ForgottenInv, WindowInv, Before
  <2>4. ASSUME NEW t \in Limiter!Time
        PROVE  Count(served, t, t + WindowSize) <= Before(restarts + 1) + MAX_REQUESTS
    <3>1. Count(served, t, t + WindowSize) <= Before(restarts) + MAX_REQUESTS
      BY DEF StretchInv
    <3>2. Count(served, t, t + WindowSize) \in Nat
      <4>1. t \in Nat /\ t + WindowSize \in Nat
        BY <1>0
      <4> QED
        BY <1>c, <4>1
    <3> QED
      BY <1>0, <1>p, <3>1, <3>2
  <2> QED
    BY <2>1, <2>3, <2>4 DEF LimitInv, StretchInv, RefusedInv, Before
<1>4. CASE UNCHANGED Limiter!vars
  BY <1>4
     DEF Limiter!vars, LimitInv, WindowInv, ForgottenInv, StretchInv, RefusedInv, Before
<1> QED
  BY <1>1, <1>2, <1>3, <1>4 DEF Limiter!Next

\* In any stretch of time as long as a window no more than two windows' requests go
\* through, and one more window's for each restart; and who is refused came
\* after a full window's.
THEOREM LimitIsKept ==
  ASSUME Limiter!LimiterAssumption
  PROVE  Limiter!Spec => []LimitHolds
<1>1. ASSUME Limiter!Init
      PROVE  LimitInv
  <2>1. /\ restarts \in Nat /\ now \in Nat
        /\ Limiter!Time \subseteq Nat /\ WindowSize \in Nat /\ MAX_REQUESTS \in Nat
    BY <1>1, InitLimiterTypeInv DEF LimiterTypeInv, Limiter!Time, Limiter!LimiterAssumption
  <2>2. \A a, b : Count(<<>>, a, b) = 0
    <3>1. \A a, b : {n \in DOMAIN <<>> : <<>>[n] \in a..b} = {}
      OBVIOUS
    <3> QED
      BY <3>1, FS_EmptySet DEF Count
  <2>3. Before(restarts) \in Nat
    BY <2>1, Products
  <2> QED
    BY <1>1, <2>1, <2>2, <2>3
       DEF Limiter!Init, LimitInv, WindowInv, ForgottenInv, StretchInv, RefusedInv
<1>2. LimiterTypeInv /\ LimitInv => LimitHolds
  <2> SUFFICES ASSUME LimiterTypeInv, LimitInv
               PROVE  LimitHolds
    OBVIOUS
  <2>1. restarts \in Nat
    BY DEF LimiterTypeInv
  <2>2. (2 + restarts) * MAX_REQUESTS = Before(restarts) + MAX_REQUESTS
    BY <2>1, Products
  <2> QED
    BY <2>2, SameCardinality
       DEF LimitInv, StretchInv, RefusedInv, LimitHolds, Limiter!LimitHolds,
           Limiter!ServedIn, Count
<1> QED
  BY <1>1, <1>2, InitLimiterTypeInv, NextLimiterTypeInv, NextLimitInv, PTL DEF Limiter!Spec

-----------------------------------------------------------------------------
(* All components at once.                                                 *)

\* Logins, bot, settings, administrators and limiter at once: every variable
\* keeps its type.
THEOREM AccountsTypeCorrect ==
  ASSUME BotAssumptions, AdminAssumptions, Limiter!LimiterAssumption
  PROVE  AccountsSpec => []AccountsTypeOK
<1>1. TypeOK /\ Telegram!TypeOK /\ Settings!TypeOK /\ Administrators!TypeOK /\ Limiter!TypeOK
        => AccountsTypeOK
  BY DEF AccountsTypeOK
<1> QED
  BY <1>1, TypeCorrect, BotTypeCorrect, SettingsTypeCorrect, AdminTypeCorrect,
     LimiterTypeCorrect, PTL
     DEF AccountsSpec
=============================================================================
