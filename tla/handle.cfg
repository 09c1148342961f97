SPECIFICATION Spec
CONSTANTS
  Slots = {d1, d2}
  MaxTickets = 3
  ModeLists <- MCModeLists
INVARIANTS
  TypeOK
  NothingLeaked
  TicketsUsedOnce
  ReadOnlyRespected
  LayersAgree
  ConnectionHeld
