SPECIFICATION FairSpec
CONSTANTS
  a = a
  b = b
  Conns = {c1, c2}
  Keys = {a, b}
  Junk = Junk
  Texts <- MCTexts
  Unreadable = Unreadable
  NSources = 2
  Offers <- MCOffers
  Boot = Boot
  MaxEdits = 1
  MaxCrashes = 1
INVARIANTS
  IdentityKept
  PasswordIsReached
PROPERTIES
  NoStaleKey
  
  SessionsUncounted
CHECK_DEADLOCK FALSE
