SPECIFICATION FairSpec
CONSTANTS
    anna = anna
    ben = ben
    cut = cut
    class = class
    facial = facial
    room = room
    NoResource = NoResource
    NoService = NoService
    Staff = {anna}
    Resources = {room}
    Catalog <- MCCutOnly
    Diary <- MCDiary
    Times = {0, 1, 2}
    DayLen = 6
    LockMargin = 4
    Appt = {a1}
    Call = {c1, c2}
    Ops = {"create", "deposit", "reschedule", "updateDetails"}
    MaxUsages = 1
    AutoApproval = FALSE
PROPERTY EveryCallReturns
CHECK_DEADLOCK FALSE
