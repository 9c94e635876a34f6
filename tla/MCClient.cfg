SPECIFICATION MCSpec
CONSTANTS
  Replies = {r1, r2}
  MaxOpens = 2
  Terms = {s, t}
  MaxUnread = 1
  MaxMarks = 2
  Versions = {1, 2}
  BuiltIn = {1, 2}
  ServerLists = {{1, 2}, {2, 3}}
  Price <- MCPrice
  NoPlan = 0
  MaxFetches = 3
  MaxTokens = 2
  MaxOuts = 1
  MaxFlight = 1
  MaxChanges = 1
  Accounts = {a, b}
  Nobody = Nobody
  MaxLogins = 2
  MaxTurns = 2
  MaxTrips = 1
  MaxPayments = 2
  MaxReopenings = 2
  MaxSubmits = 2
  MaxHides = 1
CONSTRAINTS Unsmudged CheckoutUnmisled CheckoutBound
INVARIANTS InboxInv StudioInv WizardInv SessionsInv CheckoutInv
PROPERTIES InboxSettles EditsAreSavedOrReported SessionsCatchUp WaitingHears
CHECK_DEADLOCK FALSE
