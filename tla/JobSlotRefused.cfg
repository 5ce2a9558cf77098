SPECIFICATION Spec
CONSTANTS
    Editors = {e1}
    Times = {1, 2, 3}
    None = None
    pending = pending
    scheduled = scheduled
    completed = completed
    Edits <- MCEdits
INVARIANT
    SlotAccepted
CHECK_DEADLOCK FALSE
