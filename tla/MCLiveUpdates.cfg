SPECIFICATION Spec
CONSTANTS
  Focuses <- MCFocuses
  Slots = {r1, r2}
  MaxEvents = 3
INVARIANTS
  TypeOK RowsAreServed OpenPagesAreSubscribed
PROPERTIES
  LeaversHearNothing ShowsALaggingView AnnouncementsAreFetched ClosedConnectionsVanish
CHECK_DEADLOCK FALSE
