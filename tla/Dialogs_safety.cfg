SPECIFICATION Spec
INVARIANTS TypesOK ActsAsAsked ShowsItsOwn OneAtATime StoreFits
PROPERTY NoWayBack
CHECK_DEADLOCK FALSE
