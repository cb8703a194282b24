SPECIFICATION Spec
CONSTANTS
    anna = anna
    ben = ben
    cut = cut
    class = class
    facial = facial
    room = room
    NoResource = NoResource
    NoService = NoService
    Staff = {anna}
    Resources = {room}
    Catalog <- MCCatalog
    Diary <- MCLongDay
    Times = {0, 1, 2}
    DayLen = 8
    LockMargin = 4
    Appt = {a1, a2}
    Call = {c1, c2}
    Ops = {"create"}
    MaxUsages = 1
    AutoApproval = TRUE
SYMMETRY Symmetry
INVARIANT OfferedIsAccepted
CHECK_DEADLOCK FALSE
