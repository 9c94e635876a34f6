SPECIFICATION ConsoleSpec
CONSTANTS
  Screens <- AllScreens
  Rows = {1, 2}
  MaxSent = 3
  MaxFails = 1
  Unannounced <- Gaps
  Unhealed <- Unhealing
  Joining <- Joins
  Doubled <- DoubledActs
INVARIANTS ConsoleInv
 
CHECK_DEADLOCK FALSE
