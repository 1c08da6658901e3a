----------------------------- MODULE Accounts ------------------------------
\* The accounts of users and administrators, and who may reach them: the logins
\* of AccountLogins, the bot that gives out codes, the settings of one user, the
\* administrators and the rate limiter, side by side.  They share no variable:
\* the people, rows and codes of each are its own.
EXTENDS AccountLogins

CONSTANTS
  Person, From, Login, BotEnvironments,        \* of TelegramBot
  Add, Verify, Remove, EmailLink, Send, Mail,  \* requests of AccountSettings
  LoginCode,                                   \* codes for its user to log in
  SettingsEnvironments,
  Account, NewEmail,                           \* of UserAdmins
  Create, Delete, ChangePassword,              \* its requests
  AdminEnvironments,
  MAX_REQUESTS, WindowSize, MaxTime, MaxRestarts  \* of RateLimiter

VARIABLES
  sent, arrived, forgotten, lastUpdateId, bot, batch, current, handled, answered,
  botUsers, botWallets, botCodes, botPc, code, sessions, botCrashes,
  asked, row, codes, expired, shown, confirmed, settingsPc, entity, base, using,
  staff, admins, ids, boot, adminPc, admin, target, account, hadAdmin, deleted,
  adminCrashes,
  now, info, served, refused, restarts

botVariables ==
  <<sent, arrived, forgotten, lastUpdateId, bot, batch, current, handled, answered,
    botUsers, botWallets, botCodes, botPc, code, sessions, botCrashes>>

settingsVariables ==
  <<asked, row, codes, expired, shown, confirmed, settingsPc, entity, base, using>>

adminVariables ==
  <<staff, admins, ids, boot, adminPc, admin, target, account, hadAdmin, deleted, adminCrashes>>

limiterVariables == <<now, info, served, refused, restarts>>

-----------------------------------------------------------------------------
(* The components, and what the module supposes of their constants.        *)

Telegram == INSTANCE TelegramBot
              WITH Environments <- BotEnvironments, env <- sent, users <- botUsers,
                   wallets <- botWallets, codes <- botCodes, pc <- botPc,
                   crashes <- botCrashes

Settings == INSTANCE AccountSettings
              WITH Link <- EmailLink, Environments <- SettingsEnvironments,
                   env <- asked, pc <- settingsPc

Administrators == INSTANCE UserAdmins
                    WITH Email <- NewEmail, Environments <- AdminEnvironments,
                         env <- staff, rows <- admins, used <- ids, pc <- adminPc,
                         user <- admin, entity <- account, crashes <- adminCrashes

Limiter == INSTANCE RateLimiter

BotAssumptions == Telegram!UpdatesAssumption /\ Telegram!EnvironmentsAssumption
SettingsAssumptions == Settings!NoneAssumption /\ Settings!EnvironmentsAssumption
AdminAssumptions == Administrators!RequestsAssumption /\ Administrators!EnvironmentsAssumption

-----------------------------------------------------------------------------
(* All at once.                                                            *)

AccountsSpec ==
  /\ Spec
  /\ Telegram!Spec
  /\ Settings!Spec
  /\ Administrators!Spec
  /\ Limiter!Spec

\* Every variable of the five has its type.
AccountsTypeOK ==
  /\ TypeOK
  /\ Telegram!TypeOK
  /\ Settings!TypeOK
  /\ Administrators!TypeOK
  /\ Limiter!TypeOK

\* Every code of the bot leads to a user with a wallet.
CodeOwnerHasWallet == Telegram!CodeOwnerHasWallet

\* While the calls to Telegram work, the bot takes no update up twice.
HandledAtMostOnce == Telegram!HandledAtMostOnce

\* Without faults and restarts, a /start that arrives when the bot polls is
\* answered.
StartIsAnswered == Telegram!StartIsAnswered

\* One request at a time, the authenticator is active only with a secret that a
\* token was verified for.
SerialActiveIsConfirmed == Settings!SerialActiveIsConfirmed

\* One request at a time, there is an administrator once there was one, and who
\* was deleted stays so; at once, only its own change of a password restores an
\* account.
SerialAdminRemains == Administrators!SerialAdminRemains

\* A stretch of time as long as a window lets at most two windows' requests
\* through, and one more window's for each restart; who is refused came after a
\* full window's.
LimitHolds == Limiter!LimitHolds
=============================================================================
