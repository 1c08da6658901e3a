----------------------------- MODULE UserAdmins -----------------------------
(***************************************************************************)
(* The accounts of the administrators: UserAdminService, which creates and *)
(* deletes accounts and changes passwords, and createDefaultAdmin, with    *)
(* which the service starts.  A request is authenticated by its token,     *)
(* whose account is looked up, and goes on with what was found.            *)
(*                                                                         *)
(* Nothing in the code locks an account (is_active), and logging in        *)
(* changes nothing but the client's cookie: every account may make any     *)
(* request, and with the right password.                                   *)
(***************************************************************************)
EXTENDS Naturals, FiniteSets

CONSTANTS
  Account,       \* ids
  Email,         \* the emails of new accounts
  Create, Delete, ChangePassword,  \* requests
  Environments   \* what may be observed together

Request == Create \cup Delete \cup ChangePassword
Default == "admin@example.com"
Role == {"admin", "member"}

RequestsAssumption ==
  /\ Create \cap Delete = {}
  /\ Create \cap ChangePassword = {}
  /\ Delete \cap ChangePassword = {}

VARIABLES
  env,      \* the environment of this behaviour; it does not change
  rows,     \* the table user_admins, NoRow where there is none
  used,     \* the ids that were given
  boot,     \* of the service: count, insert, up
  pc,       \* where each request is suspended
  user,     \* the account that makes it, as the guard found it
  target,   \* the account it deletes
  entity,   \* the row it loaded, or will insert
  hadAdmin, \* there has been an administrator
  deleted,  \* accounts that were deleted
  crashes   \* restarts so far

vars == <<env, rows, used, boot, pc, user, target, entity, hadAdmin, deleted, crashes>>

EnvironmentsAssumption ==
  \A e \in Environments : e \in [requests : SUBSET Request, serial : BOOLEAN,
                                 dbFaults : BOOLEAN, maxCrashes : Nat]

Resting == {"idle", "done"}
Row == [email : Email \cup {Default}, role : Role, password : Nat]
NoRow == [password |-> 0]
User == [id : Account, role : Role]
Nobody == [role |-> "member"]

Present == {a \in Account : rows[a] # NoRow}
Admins == {a \in Present : rows[a].role = "admin"}

Init ==
  /\ env \in Environments
  /\ rows = [a \in Account |-> NoRow]
  /\ used = {}
  /\ boot = "count"
  /\ pc = [q \in Request |-> "idle"]
  /\ user = [q \in Request |-> Nobody]
  /\ target = [q \in Delete |-> {}]
  /\ entity = [q \in Request |-> NoRow]
  /\ hadAdmin = FALSE
  /\ deleted = {}
  /\ crashes = 0

Goto(q, label) == pc' = [pc EXCEPT ![q] = label]

\* A row gets the next id, and Account bounds the ids; an email is unique.
Insert(row) ==
  /\ used # Account
  /\ \A b \in Present : rows[b].email # row.email
  /\ LET a == CHOOSE id \in Account \ used : TRUE
     IN  used' = used \cup {a} /\ rows' = [rows EXCEPT ![a] = row]
  /\ hadAdmin' = (hadAdmin \/ row.role = "admin")

-----------------------------------------------------------------------------
(* createDefaultAdmin, before the service listens.                         *)

BootCount ==
  /\ boot = "count"
  /\ boot' = IF Present = {} THEN "insert" ELSE "up"
  /\ UNCHANGED <<env, rows, used, pc, user, target, entity, hadAdmin, deleted, crashes>>

BootInsert ==
  /\ boot = "insert"
  /\ Insert([email |-> Default, role |-> "admin", password |-> 1])
  /\ boot' = "up"
  /\ UNCHANGED <<env, pc, user, target, entity, deleted, crashes>>

\* An error is caught, and the service starts without.
BootFails ==
  /\ env.dbFaults
  /\ boot \in {"count", "insert"}
  /\ boot' = "up"
  /\ UNCHANGED <<env, rows, used, pc, user, target, entity, hadAdmin, deleted, crashes>>

Crash ==
  /\ crashes < env.maxCrashes
  /\ crashes' = crashes + 1
  /\ boot' = "count"
  /\ pc' = [q \in Request |-> IF pc[q] = "idle" THEN "idle" ELSE "done"]
  /\ UNCHANGED <<env, rows, used, user, target, entity, hadAdmin, deleted>>

-----------------------------------------------------------------------------
(* Requests.                                                               *)

\* The guard; an account that is gone is refused.  To create and to delete is
\* for administrators.
Authenticate(q) ==
  /\ boot = "up"
  /\ q \in env.requests
  /\ pc[q] = "idle"
  /\ env.serial => \A p \in Request : pc[p] \in Resting
  /\ \E a \in Present :
       /\ user' = [user EXCEPT ![q] = [id |-> a, role |-> rows[a].role]]
       /\ Goto(q, IF q \in ChangePassword \/ rows[a].role = "admin" THEN "find" ELSE "done")
  /\ UNCHANGED <<env, rows, used, boot, target, entity, hadAdmin, deleted, crashes>>

\* The request ends without a save.
Refuse(q) ==
  /\ Goto(q, "done")
  /\ UNCHANGED <<env, rows, used, boot, user, target, entity, hadAdmin, deleted, crashes>>

Fail(q) == pc[q] \notin Resting /\ env.dbFaults /\ Refuse(q)

\* The email of the new account is looked up.
CreateFind(q) ==
  /\ pc[q] = "find"
  /\ \E email \in Email, role \in Role :
       IF \E a \in Present : rows[a].email = email
         THEN Refuse(q)
         ELSE /\ entity' = [entity EXCEPT ![q] =
                              [email |-> email, role |-> role, password |-> 1]]
              /\ Goto(q, "save")
              /\ UNCHANGED <<env, rows, used, boot, user, target, hadAdmin, deleted, crashes>>

CreateSave(q) ==
  /\ pc[q] = "save"
  /\ \/ Insert(entity[q]) /\ Goto(q, "done")
     \/ /\ \E a \in Present : rows[a].email = entity[q].email
        /\ Goto(q, "done")
        /\ UNCHANGED <<rows, used, hadAdmin>>
  /\ UNCHANGED <<env, boot, user, target, entity, deleted, crashes>>

\* (seeded fault) administrators may delete themselves
DeleteFindAny(q) ==
  /\ pc[q] = "find"
  /\ \E a \in used :
       IF a \notin Present
         THEN Refuse(q)
         ELSE /\ target' = [target EXCEPT ![q] = {a}]
              /\ Goto(q, "save")
              /\ UNCHANGED <<env, rows, used, boot, user, entity, hadAdmin, deleted, crashes>>

\* Nobody deletes itself.
DeleteFind(q) ==
  /\ pc[q] = "find"
  /\ \E a \in used :
       IF a = user[q].id \/ a \notin Present
         THEN Refuse(q)
         ELSE /\ target' = [target EXCEPT ![q] = {a}]
              /\ Goto(q, "save")
              /\ UNCHANGED <<env, rows, used, boot, user, entity, hadAdmin, deleted, crashes>>

\* A row that is gone already is no error.
DeleteSave(q) ==
  /\ pc[q] = "save"
  /\ rows' = [a \in Account |-> IF a \in target[q] THEN NoRow ELSE rows[a]]
  /\ deleted' = deleted \cup target[q]
  /\ Goto(q, "done")
  /\ UNCHANGED <<env, used, boot, user, target, entity, hadAdmin, crashes>>

\* The account is loaded; both passwords are compared in memory.
PasswordFind(q) ==
  /\ pc[q] = "find"
  /\ IF user[q].id \notin Present
       THEN Refuse(q)
       ELSE /\ entity' = [entity EXCEPT ![q] =
                            [rows[user[q].id] EXCEPT !.password = @ + 1]]
            /\ Goto(q, "save")
            /\ UNCHANGED <<env, rows, used, boot, user, target, hadAdmin, deleted, crashes>>

\* The save selects the row by its id, and inserts it anew if it is gone.
PasswordSave(q) ==
  /\ pc[q] = "save"
  /\ LET a == user[q].id
     IN  \/ a \in Present /\ Goto(q, "update") /\ UNCHANGED rows
         \/ /\ a \notin Present
            /\ rows' = IF \E b \in Present : rows[b].email = entity[q].email
                         THEN rows
                         ELSE [rows EXCEPT ![a] = entity[q]]
            /\ Goto(q, "done")
  /\ UNCHANGED <<env, used, boot, user, target, entity, hadAdmin, deleted, crashes>>

PasswordUpdate(q) ==
  /\ pc[q] = "update"
  /\ LET a == user[q].id
     IN  rows' = IF a \in Present
                   THEN [rows EXCEPT ![a].password = entity[q].password]
                   ELSE rows
  /\ Goto(q, "done")
  /\ UNCHANGED <<env, used, boot, user, target, entity, hadAdmin, deleted, crashes>>

Next ==
  \/ BootCount \/ BootInsert \/ BootFails \/ Crash
  \/ \E q \in Request : Authenticate(q) \/ Fail(q)
  \/ \E q \in Create : CreateFind(q) \/ CreateSave(q)
  \/ \E q \in Delete : DeleteFind(q) \/ DeleteSave(q)
  \/ \E q \in ChangePassword : PasswordFind(q) \/ PasswordSave(q) \/ PasswordUpdate(q)

Spec == Init /\ [][Next]_vars

-----------------------------------------------------------------------------
(* Properties.                                                             *)

\* Every variable has its type.
TypeOK ==
  /\ env \in Environments
  /\ rows \in [Account -> Row \cup {NoRow}]
  /\ used \subseteq Account
  /\ boot \in {"count", "insert", "up"}
  /\ pc \in [Request -> Resting \cup {"find", "save", "update"}]
  /\ user \in [Request -> User \cup {Nobody}]
  /\ target \in [Delete -> SUBSET Account]
  /\ entity \in [Request -> Row \cup {NoRow}]
  /\ hadAdmin \in BOOLEAN
  /\ deleted \subseteq used
  /\ crashes \in 0..env.maxCrashes

\* When requests are served one at a time, there is an administrator once there
\* was one, whoever deletes whom and whatever fails, and who was deleted does
\* not come back; and however requests overlap, a deleted account is restored
\* by nobody but itself, changing its password.
SerialAdminRemains ==
  /\ env.serial => /\ hadAdmin => Admins # {}
                   /\ deleted \cap Present = {}
  /\ \A a \in deleted \cap Present :
       \E q \in ChangePassword : user[q].id = a /\ pc[q] = "done"
=============================================================================
