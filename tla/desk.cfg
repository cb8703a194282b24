SPECIFICATION DeskSpec
CONSTANTS
    Call = {c1, c2}
    Voucher = {v1, p1}
    Package = {p1}
    Largest = 2
    Paid = {"PRO"}
    Campaign = {k1, k2, k3}
    DailyLimit = 2
    LastDay = 2
    Invoice = {i1, i2}
    Subtotal = {2}
    Discount = {0, 1}
    Asked = {"DRAFT", "PAID"}
    Time = {1, 2}
    MaxEvents = 2
    Entry = {e1, e2}
    Opening = {o1, o2}
    Candidates = 2
    Matches = {{1, 2}, {2}}
    ImportRow = {r1, r2, r3}
    Email = {x, y}
    NoEmail = none
    Device = {d1, d2}
    MaxSessions = 2
    MaxTokens = 4
    Tracker = {t1, t2}
    Custom = {t1}
    MaxAsked = 3
SYMMETRY Symmetry
INVARIANTS
    VoucherTypeOK
    Balanced
    RewardedOnce
    PlanIsEarned
    LimitHoldsInTurn
    QueuedOnce
    NumbersWithoutGap
    MailedStands
    CalendarShowsAppointment
    OpeningsReachClients
    OldestFirst
    ImportedWhole
    ImportedOnce
    DeviceStaysSignedIn
    ApprovedIsWritten
    PromptsAreDue
    OneOpenInTurn
PROPERTIES
    ImplementsAccounts
    VoidIsFinal
    FailureKeepsGrant
    LeaversStayAway
CHECK_DEADLOCK FALSE
