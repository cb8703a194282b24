SPECIFICATION Spec
CONSTANTS
    anna = anna
    ben = ben
    cut = cut
    class = class
    facial = facial
    room = room
    NoResource = NoResource
    NoService = NoService
    Staff = {anna}
    Resources = {room}
    Catalog <- MCCatalog
    Diary <- MCDiary
    Times = {0, 1, 2}
    DayLen = 6
    LockMargin = 4
    Appt = {a1, a2, a3}
    Call = {c1, c2}
    Ops = {"create", "promo", "override"}
    MaxUsages = 1
    AutoApproval = TRUE
SYMMETRY Symmetry
INVARIANTS TypeOK SnapshotsStillFit PromoExact
CHECK_DEADLOCK FALSE
