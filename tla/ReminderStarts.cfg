SPECIFICATION WindowSpec
CONSTANTS
    Bookings = {b1}
    SlotTimes = {6, 9}
    NoTime = NoTime
    Opens <- MCOpens
    Closes <- MCCloses
    Postpone <- MCPostpone
    Gap = 1
    LastTick = 5
INVARIANTS
    StartsAreReminded
