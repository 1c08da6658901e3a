SPECIFICATION MCSpec
CONSTANTS
  None = None
  g1 = g1
  g2 = g2
  g3 = g3
  k1 = k1
  k2 = k2
  p1 = p1
  p2 = p2
  p3 = p3
  m1 = m1
  m2 = m2
  a1 = a1
  a2 = a2
  l1 = l1
  l2 = l2
  s1 = s1
  s2 = s2
  v1 = v1
  r1 = r1
  c1 = c1
  d1 = d1
  d2 = d2
  Google <- Googles
  Link <- Links
  Phantom <- Phantoms
  Email <- Emails
  EmailOf <- TwoEmails
  Address <- Addresses
  AddressOf <- OneAddress
  Environments <- OneAfterTheOther
  Person <- Persons
  From <- Senders
  Login <- Logins
  BotEnvironments <- BotScenarios
  Add <- Adds
  Verify <- Verifies
  Remove <- Removes
  EmailLink <- EmailLinks
  Send <- Sends
  LoginCode <- LoginCodes
  Mail <- Mails
  SettingsEnvironments <- SettingsScenarios
  Account <- Accounts3
  NewEmail <- NewEmails
  Create <- Creates
  Delete <- Deletes
  ChangePassword <- PasswordChanges
  AdminEnvironments <- AdminScenarios
  MAX_REQUESTS = 2
  WindowSize = 2
  MaxTime = 6
  MaxRestarts = 1
  Parts <- LoginsOnly
INVARIANTS ExistingUserGetsIn
\* Requests are finite in number and all may have returned.
CHECK_DEADLOCK FALSE
