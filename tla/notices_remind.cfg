SPECIFICATION FairSpec
CONSTANTS
    Call = {c1, c2}
    Worker = {w1, w2}
    Start = {2, 3}
    Horizon = 3
    Reminder = {"reminder-24h"}
    Offset <- MCOffset
    Followed <- ReminderFollowed
    Channel <- MCChannel
    Attempts = 2
    MaxOps <- ReminderMaxOps
    MaxFaults <- ReminderMaxFaults
PROPERTIES
    RemindedUnlessWritten
CHECK_DEADLOCK FALSE
