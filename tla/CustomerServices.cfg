SPECIFICATION MCSpec
CONSTANTS
    Bookings = {one}
    SlotTimes = {4, 5, 6}
    NoTime = NoTime
    Opens <- MCOpens
    Closes <- MCCloses
    Postpone <- MCPostpone
    Gap = 1
    LastTick = 4
    Editors = {one, two}
    Times = {1, 2, 3}
    None = None
    pending = pending
    scheduled = scheduled
    completed = completed
    Edits <- MCEdits
    one = one
    two = two
    v1 = v1
    p2 = p2
    Customers = {n1}
    Places = {p1, p2}
    Staff = {one, two}
    Nowhere = Nowhere
    Unset = Unset
    Visits = {v1, v2, v3}
    VisitTimes <- MCVisitTimes
    Filters <- MCFilters
    ShownMonths <- MCShownMonths
    ShownDays <- MCShownDays
    DaySlots = 6
    FirstSlot = 1
    GridSlots = 4
    FormStart = 1
    FormEnd = 4
    Never = Never
    Deliveries = {n1}
    Hooks = {one, two}
    Ids = {1, 2, 3}
    SortValues = {1, 3}
    PageSize = 1
INVARIANTS
    CustomerPartsTyped
    ValuesRecorded
    EditApplied
    RefusalHasCause
    OldCopyHasCause
    ErasedCustomerIsBlank
    PinIsAtAddress
    CalendarIsFaithful
    
    LogCanBeTrusted
    
    PagesMakeTheList
PROPERTIES
    OnlyRequested
VIEW Seen
CHECK_DEADLOCK FALSE
