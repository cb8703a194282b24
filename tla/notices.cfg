SPECIFICATION Spec
CONSTANTS
    Call = {c1, c2}
    Worker = {w1, w2}
    Start = {2, 3}
    Horizon = 3
    Reminder = {"reminder-24h"}
    Offset <- MCOffset
    Followed <- MCFollowed
    Channel <- MCChannel
    Attempts = 2
    MaxOps <- MCMaxOps
    MaxFaults <- MCMaxFaults
INVARIANTS
    TypeOK
    OncePerJob
    QueueFollowsRow
SYMMETRY Symmetry
CHECK_DEADLOCK FALSE
