----------------------------- MODULE MCAccounts -----------------------------
\* Instances of the components of Accounts for TLC.  A behaviour is one of the
\* parts named by Parts.
EXTENDS Accounts, Sequences, TLC

CONSTANTS g1, g2, g3, k1, k2, p1, p2, p3, m1, m2, a1, a2,
          l1, l2, s1, s2, v1, r1, c1, d1, d2, Parts

VARIABLE part

ASSUME BotAssumptions /\ SettingsAssumptions /\ AdminAssumptions /\ Limiter!LimiterAssumption

-----------------------------------------------------------------------------
(* The bot: the first person sends /start twice, the second once.          *)

BotCalm == [updates |-> 3, kinds |-> <<"start", "start", "refused">>, logins |-> {},
            mail |-> FALSE, netFaults |-> FALSE, dbFaults |-> FALSE, maxCrashes |-> 0]
Noise == <<"unsigned", "other", "start">>

\* Without faults; with updates that are no /start, with and without a failing
\* network; with restarts and a failing database; with all faults, a login and a
\* restart; and with all faults, two logins and a code to confirm an email.
BotScenarios ==
  {BotCalm,
   [BotCalm EXCEPT !.kinds = Noise],
   [BotCalm EXCEPT !.kinds = Noise, !.netFaults = TRUE],
   [BotCalm EXCEPT !.dbFaults = TRUE, !.maxCrashes = 2],
   [BotCalm EXCEPT !.updates = 2, !.logins = {l1},
                   !.netFaults = TRUE, !.dbFaults = TRUE, !.maxCrashes = 1],
   [BotCalm EXCEPT !.updates = 1, !.logins = {l1, l2}, !.mail = TRUE,
                   !.netFaults = TRUE, !.dbFaults = TRUE]}

Persons == {p1, p2}
Senders == <<p1, p1, p2>>
Logins == {l1, l2}

-----------------------------------------------------------------------------
(* The settings.                                                           *)

SettingsCalm == [requests |-> {}, serial |-> FALSE, dbFaults |-> FALSE]

\* Everything but a removal at once, with a failing database; everything one at
\* a time; and so the authenticator and the email with a failing database, by a
\* code of its own and by one for the login.
SettingsScenarios ==
  {SettingsCalm,
   [SettingsCalm EXCEPT !.requests = {s1, v1, k1, c1, d1, d2}, !.dbFaults = TRUE],
   [SettingsCalm EXCEPT !.requests = {s1, s2, v1, r1, k1, k2, c1, d1}, !.serial = TRUE],
   [SettingsCalm EXCEPT !.requests = {s1, s2, v1, r1}, !.serial = TRUE, !.dbFaults = TRUE],
   [SettingsCalm EXCEPT !.requests = {k1, k2, c1, d1, d2}, !.serial = TRUE,
                        !.dbFaults = TRUE],
   [SettingsCalm EXCEPT !.requests = {k1, l1, d1, d2}, !.serial = TRUE,
                        !.dbFaults = TRUE]}

Adds == {s1, s2}
Verifies == {v1}
Removes == {r1}
EmailLinks == {k1, k2}
Sends == {c1}
LoginCodes == {l1}
Mails == {d1, d2}

-----------------------------------------------------------------------------
(* The administrators: three of them, with what the service starts with.   *)

OneCreates == [requests |-> {k1, d1, d2, c1}, serial |-> TRUE, dbFaults |-> TRUE,
               maxCrashes |-> 1]

\* With a failing database and a restart, one at a time and at once; and one at
\* a time with one more account.
AdminScenarios ==
  {OneCreates,
   [OneCreates EXCEPT !.serial = FALSE],
   [OneCreates EXCEPT !.requests = {k1, k2, d1, d2, c1}, !.dbFaults = FALSE,
                      !.maxCrashes = 0]}

Accounts3 == 1..3
NewEmails == {m1, m2}
Creates == {k1, k2}
Deletes == {d1, d2}
PasswordChanges == {c1}

-----------------------------------------------------------------------------
(* The logins: of one email, but for a login and a link of another.        *)

Googles == {g1, g2, g3}
Links == {k1, k2}
Phantoms == {p1, p2}
Emails == {m1, m2}
Addresses == {a1, a2}
TwoEmails == [u \in User |-> IF u \in {g3, k2} THEN m2 ELSE m1]
OneAddress == [p \in Phantom |-> a1]

Calm == [requests |-> Request, serial |-> FALSE, dbFaults |-> FALSE, maxCrashes |-> 0]

\* With failing inserts and a restart, at once and one at a time; and one at a
\* time without failures.
LoginEnvironments ==
  {[Calm EXCEPT !.requests = {g1, g2, g3, k1}, !.dbFaults = TRUE],
   [Calm EXCEPT !.requests = {g1, g2, p1, p2}, !.dbFaults = TRUE, !.maxCrashes = 1],
   [Calm EXCEPT !.requests = User, !.serial = TRUE, !.dbFaults = TRUE, !.maxCrashes = 1],
   [Calm EXCEPT !.serial = TRUE]}

OneAfterTheOther == {[Calm EXCEPT !.requests = {g1, g2}, !.serial = TRUE, !.dbFaults = TRUE]}

-----------------------------------------------------------------------------
(* The parts.                                                              *)

AllParts == {"logins", "bot", "settings", "admins", "limiter"}
LoginsOnly == {"logins"}

MCInit ==
  /\ part \in Parts
  /\ Init
  /\ Telegram!Init
  /\ Settings!Init
  /\ Administrators!Init
  /\ Limiter!Init
  /\ part = "logins" \/ env = CHOOSE e \in Environments : TRUE
  /\ part = "bot" \/ sent = BotCalm
  /\ part = "settings" \/ asked = SettingsCalm
  /\ part = "admins" \/ staff = OneCreates

LoginsNext ==
  /\ part = "logins"
  /\ Next
  /\ UNCHANGED <<part, botVariables, settingsVariables, adminVariables, limiterVariables>>
BotNext ==
  /\ part = "bot"
  /\ Telegram!Next
  /\ UNCHANGED <<part, vars, settingsVariables, adminVariables, limiterVariables>>
SettingsNext ==
  /\ part = "settings"
  /\ Settings!Next
  /\ UNCHANGED <<part, vars, botVariables, adminVariables, limiterVariables>>
AdminsNext ==
  /\ part = "admins"
  /\ Administrators!Next
  /\ UNCHANGED <<part, vars, botVariables, settingsVariables, limiterVariables>>
LimiterNext ==
  /\ part = "limiter"
  /\ Limiter!Next
  /\ UNCHANGED <<part, vars, botVariables, settingsVariables, adminVariables>>

MCNext == LoginsNext \/ BotNext \/ SettingsNext \/ AdminsNext \/ LimiterNext

MCSpec ==
  /\ MCInit
  /\ [][MCNext]_<<part, vars, botVariables, settingsVariables, adminVariables, limiterVariables>>
  /\ part = "bot" => Telegram!Fairness
=============================================================================
