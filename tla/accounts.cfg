SPECIFICATION Spec
CONSTANTS
  u1 = u1
  root = root
  u3 = u3
  e1 = e1
  e2 = e2
  e3 = e3
  p1 = p1
  p2 = p2
  Users = {u1, root, u3}
  Emails = {e1, e2, e3}
  Passwords = {p1, p2}
  Links = {l1, l2}
  Workers = {w1, w2}
  Requests <- MCRequests
  InitialUsers <- MCInitialUsers
  SignedIn = {u1, root}
  SecondsPerMinute = 1
  MinutesPerHour = 3
  ResetMinutes = 1
  AccessLife = 3
  ShortLife = 2
  LongLife = 4
  MaxTime = 3
  MaxRequests = 3
  MaxAborts = 1
  NoRow = NoRow
  NoLink = NoLink
  NoToken = NoToken
INVARIANTS TypeOK VerifiedByOwnMail YoungLinkHonoured SignedOutStaysOut ExchangedIsDead
PROPERTIES PasswordNeedsSecret RemovedStaysRemoved
CHECK_DEADLOCK FALSE
