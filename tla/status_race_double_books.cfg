SPECIFICATION Spec
CONSTANTS
    anna = anna
    ben = ben
    cut = cut
    class = class
    facial = facial
    room = room
    NoResource = NoResource
    NoService = NoService
    Staff = {anna}
    Resources = {room}
    Catalog <- MCCutOnly
    Diary <- MCDiary
    Times = {0, 1}
    DayLen = 6
    LockMargin = 4
    Appt = {a1, a2}
    Call = {c1, c2}
    Ops = {"create", "updateStatus"}
    MaxUsages = 1
    AutoApproval = FALSE
SYMMETRY Symmetry
INVARIANT NoDoubleBooking
CHECK_DEADLOCK FALSE
