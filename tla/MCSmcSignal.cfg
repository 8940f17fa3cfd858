SPECIFICATION SignalSpec
CONSTANTS
  p1 = p1
  p2 = p2
  p3 = p3
  GuestPage <- MCPage
  NoGuestPage = NoGuestPage
  GuestPermissions <- MCPermissions
  Slots = 3
CHECK_DEADLOCK FALSE
INVARIANTS
  StoresAreSeen
  WritableIsQueued
PROPERTIES
  EventsAreQueued
