SPECIFICATION Spec
CONSTANTS
  Focuses <- MCFocuses
  Slots = {r1, r2}
  MaxEvents = 3
INVARIANTS
  TypeOK LocalIdsAreFresh IndexesAgree KnownComesFromServer OneItemPerDraft
PROPERTIES
  SavesLoseNoEarlierEdit NobodysPartIsUndone 
CHECK_DEADLOCK FALSE
