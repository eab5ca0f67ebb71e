SPECIFICATION FairSpec
CONSTANTS
  n1 = n1
  n2 = n2
  Names = {n1}
  Limits = {"total"}
  Max <- MCMax
  Asked <- MCAsked
  Guests <- MCGuests
  MaxExternal = 0
  MaxFailures = 0
PROPERTIES ShutdownAlwaysEnds
CHECK_DEADLOCK FALSE
