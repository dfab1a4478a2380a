SPECIFICATION PageSpec
CONSTANTS
  Keys <- MCKeys
  Modifiers <- MCModifiers
  KeysOf <- MCKeysOf
INVARIANTS TypesOK NothingHeldAway SignInIsTrue OffersAreTrue ViewsAreTrue
PROPERTY NoStepBack
CHECK_DEADLOCK FALSE
