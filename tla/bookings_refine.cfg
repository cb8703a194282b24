SPECIFICATION Spec
CONSTANTS
    anna = anna
    ben = ben
    cut = cut
    class = class
    facial = facial
    room = room
    NoResource = NoResource
    NoService = NoService
    Staff = {anna, ben}
    Resources = {room}
    Catalog <- MCRoomAndClass
    Diary <- MCTwoProviders
    Times = {0, 1, 2}
    DayLen = 6
    LockMargin = 4
    Appt = {a1, a2}
    Call = {c1, c2}
    Ops = {"create", "reschedule", "confirm"}
    MaxUsages = 1
    AutoApproval = TRUE
SYMMETRY Symmetry
PROPERTY ImplementsCalendar
INVARIANT OffersAreExact
CHECK_DEADLOCK FALSE
