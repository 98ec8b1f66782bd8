SPECIFICATION FairSpec
CONSTANTS
  Rooms = {r1}
  Slots = {1, 2}
  MaxRequests = 2
  MaxMoves = 2
INVARIANTS TypeOK SelectionIsJob
PROPERTIES OffEndsCleaning ShownInTheEnd
