-------------------------- MODULE AccountSettings ---------------------------
(***************************************************************************)
(* The security settings of one Telegram user: Google Authenticator        *)
(* (handleAddGoogleAuth, handleVerifyGoogleAuth, handleRemoveGoogleAuth)   *)
(* and the email (handleAddLinkEmailAuth, handleSendTeleVerification,      *)
(* handleVerifyTeleCode).  Each loads the user, changes the entity and     *)
(* saves it; a save is a SELECT and an UPDATE of the columns in which the  *)
(* entity differs from that SELECT, so that a stale entity writes back     *)
(* what another request has changed.                                       *)
(***************************************************************************)
EXTENDS Naturals

CONSTANTS
  Add, Verify, Remove,  \* requests of the authenticator; Add names its secret
  Link, Send, Mail,     \* requests of the email; Send names its code
  LoginCode,            \* codes the bot makes for the user to log in
  Environments,         \* what may happen in a behaviour: one of these, throughout
  None                  \* a null column

Request == Add \cup Verify \cup Remove \cup Link \cup Send \cup Mail

Code == Send \cup LoginCode

NoneAssumption == None \notin Request
EnvironmentsAssumption ==
  Environments \subseteq
    [requests : SUBSET (Request \cup LoginCode),  \* those that may be made
     serial   : BOOLEAN,  \* does one start only when no other is under way?
     dbFaults : BOOLEAN]  \* may a repository call throw?

VARIABLES
  env,        \* the environment of the behaviour
  row,        \* the columns of the user that change
  codes,      \* the rows of the user in verify_codes
  expired,    \* those past their five minutes
  shown,      \* secrets that reached the client
  confirmed,  \* secrets a token was verified for
  pc,         \* where each request is suspended
  entity,     \* the user as each request holds it, with its changes
  base,       \* the SELECT of its save
  using       \* the code of each Mail request

moving == <<row, codes, expired, shown, confirmed, pc, entity, base, using>>
vars   == <<env, moving>>

Serial   == env.serial
DbFaults == env.dbFaults

\* email names the Link request it came with.
Row == [email : Link \cup {None}, is_verified_email : BOOLEAN,
        gg_auth : Add \cup {None}, is_verified_gg_auth : BOOLEAN]

NewRow == [email |-> None, is_verified_email |-> FALSE,
           gg_auth |-> None, is_verified_gg_auth |-> FALSE]

Init ==
  /\ env \in Environments
  /\ row = NewRow
  /\ codes = [c \in Code |-> "none"]
  /\ expired = {}
  /\ shown = {}
  /\ confirmed = {}
  /\ pc = [r \in Request |-> "idle"]
  /\ entity = [r \in Request |-> NewRow]
  /\ base = [r \in Request |-> NewRow]
  /\ using = [m \in Mail |-> None]

Goto(r, label) == pc' = [pc EXCEPT ![r] = label]

\* The load of the user: the request goes on with an entity when its checks
\* pass, or ends.
Load(r, checks, label, e) ==
  /\ r \in env.requests
  /\ pc[r] = "idle"
  /\ Serial => \A q \in Request : pc[q] \in {"idle", "done"}
  /\ \/ checks /\ Goto(r, label) /\ entity' = [entity EXCEPT ![r] = e]
     \/ (~checks \/ DbFaults) /\ Goto(r, "done") /\ UNCHANGED entity

-----------------------------------------------------------------------------
(* The authenticator.                                                      *)

AddLoad(a) ==
  /\ Load(a, ~row.is_verified_gg_auth, "save",
          [row EXCEPT !.gg_auth = a, !.is_verified_gg_auth = FALSE])
  /\ UNCHANGED <<row, codes, expired, shown, confirmed, base, using>>

\* (seeded fault) any token of this client will do
VerifyLoadAny(v, s) ==
  /\ s \in shown
  /\ Load(v, row.gg_auth # None, "save", [row EXCEPT !.is_verified_gg_auth = TRUE])
  /\ confirmed' = confirmed \cup {s}
  /\ UNCHANGED <<row, codes, expired, shown, base, using>>

\* The token typed is of a secret the client was shown; totp.verify.
VerifyLoad(v, s) ==
  /\ s \in shown
  /\ Load(v, row.gg_auth = s, "save", [row EXCEPT !.is_verified_gg_auth = TRUE])
  /\ confirmed' = IF row.gg_auth = s THEN confirmed \cup {s} ELSE confirmed
  /\ UNCHANGED <<row, codes, expired, shown, base, using>>

RemoveLoad(r) ==
  /\ Load(r, row.gg_auth # None, "save",
          [row EXCEPT !.gg_auth = None, !.is_verified_gg_auth = FALSE])
  /\ UNCHANGED <<row, codes, expired, shown, confirmed, base, using>>

-----------------------------------------------------------------------------
(* The email.                                                              *)

LinkLoad(l) ==
  /\ Load(l, row.email = None, "google", [row EXCEPT !.email = l])
  /\ UNCHANGED <<row, codes, expired, shown, confirmed, base, using>>

\* The exchange with Google and the look for another user with the email.
LinkExchange(l) ==
  /\ pc[l] = "google"
  /\ Goto(l, "save") \/ Goto(l, "done")
  /\ UNCHANGED <<row, codes, expired, shown, confirmed, entity, base, using>>

SendLoad(c) ==
  /\ Load(c, row.email # None /\ ~row.is_verified_email, "insert", row)
  /\ UNCHANGED <<row, codes, expired, shown, confirmed, base, using>>

SendInsert(c) ==
  /\ pc[c] = "insert"
  /\ Goto(c, "done")
  /\ \/ codes' = [codes EXCEPT ![c] = "unused"]
     \/ DbFaults /\ UNCHANGED codes
  /\ UNCHANGED <<row, expired, shown, confirmed, entity, base, using>>

MailLoad(m) ==
  /\ Load(m, ~row.is_verified_email, "code", [row EXCEPT !.is_verified_email = TRUE])
  /\ UNCHANGED <<row, codes, expired, shown, confirmed, base, using>>

\* The row of the code typed, and its expiry; a code for the login will do.
MailCode(m, c) ==
  /\ pc[m] = "code"
  /\ using' = [using EXCEPT ![m] = c]
  /\ LET valid == codes[c] = "unused" /\ c \notin expired
     IN  \/ valid /\ Goto(m, "mark")
         \/ (~valid \/ DbFaults) /\ Goto(m, "done")
  /\ UNCHANGED <<row, codes, expired, shown, confirmed, entity, base>>

MailMark(m) ==
  /\ pc[m] = "mark"
  /\ \/ codes' = [codes EXCEPT ![using[m]] = "used"] /\ Goto(m, "save")
     \/ DbFaults /\ UNCHANGED codes /\ Goto(m, "done")
  /\ UNCHANGED <<row, expired, shown, confirmed, entity, base, using>>

\* The bot makes a code for the login, which takes whichever code it is given.
GenerateCode(c) ==
  /\ c \in env.requests
  /\ codes[c] = "none"
  /\ codes' = [codes EXCEPT ![c] = "unused"]
  /\ UNCHANGED <<row, expired, shown, confirmed, pc, entity, base, using>>

TelegramLogin(c) ==
  /\ codes[c] = "unused"
  /\ c \notin expired
  /\ codes' = [codes EXCEPT ![c] = "used"]
  /\ UNCHANGED <<row, expired, shown, confirmed, pc, entity, base, using>>

Expire(c) ==
  /\ codes[c] # "none"
  /\ c \notin expired
  /\ expired' = expired \cup {c}
  /\ UNCHANGED <<row, codes, shown, confirmed, pc, entity, base, using>>

-----------------------------------------------------------------------------
(* The save of the user.                                                   *)

SaveSelect(r) ==
  /\ pc[r] = "save"
  /\ \/ base' = [base EXCEPT ![r] = row] /\ Goto(r, "update")
     \/ DbFaults /\ UNCHANGED base /\ Goto(r, "done")
  /\ UNCHANGED <<row, codes, expired, shown, confirmed, entity, using>>

\* The columns in which entity and SELECT differ.
Updated(e, b) == [c \in DOMAIN row |-> IF e[c] # b[c] THEN e[c] ELSE row[c]]

\* The answer to an Add carries its secret.
SaveUpdate(r) ==
  /\ pc[r] = "update"
  /\ Goto(r, "done")
  /\ \/ /\ row' = Updated(entity[r], base[r])
        /\ shown' = IF r \in Add THEN shown \cup {r} ELSE shown
     \/ DbFaults /\ UNCHANGED <<row, shown>>
  /\ UNCHANGED <<codes, expired, confirmed, entity, base, using>>

Next ==
  /\ UNCHANGED env
  /\ \/ \E a \in Add : AddLoad(a)
     \/ \E v \in Verify, s \in Add : VerifyLoad(v, s)
     \/ \E r \in Remove : RemoveLoad(r)
     \/ \E l \in Link : LinkLoad(l) \/ LinkExchange(l)
     \/ \E c \in Send : SendLoad(c) \/ SendInsert(c)
     \/ \E c \in LoginCode : GenerateCode(c)
     \/ \E c \in Code : TelegramLogin(c) \/ Expire(c)
     \/ \E m \in Mail : MailLoad(m) \/ MailMark(m) \/ \E c \in Code : MailCode(m, c)
     \/ \E r \in Request : SaveSelect(r) \/ SaveUpdate(r)

Spec == Init /\ [][Next]_vars

-----------------------------------------------------------------------------
(* Properties.                                                             *)

\* Every variable has its type.
TypeOK ==
  /\ env \in Environments
  /\ row \in Row
  /\ codes \in [Code -> {"none", "unused", "used"}]
  /\ expired \subseteq Code
  /\ shown \subseteq Add
  /\ confirmed \subseteq Add
  /\ pc \in [Request -> {"idle", "google", "insert", "code", "mark", "save", "update", "done"}]
  /\ entity \in [Request -> Row]
  /\ base \in [Request -> Row]
  /\ using \in [Mail -> Code \cup {None}]

\* Requests that are served one at a time leave an authenticator active only with
\* the secret a token was verified for.
SerialActiveIsConfirmed ==
  Serial => (row.is_verified_gg_auth => row.gg_auth \in confirmed)
=============================================================================
