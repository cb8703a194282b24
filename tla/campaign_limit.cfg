SPECIFICATION CampaignsSpec
CONSTANTS
    Call = {c1, c2}
    Campaign = {k1, k2, k3, k4}
    DailyLimit = 3
    LastDay = 1
INVARIANT LimitHolds
CHECK_DEADLOCK FALSE
