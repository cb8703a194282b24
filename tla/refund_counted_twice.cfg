SPECIFICATION Spec
CONSTANTS
    Payment = {p1}
    RefundId = {r1}
    Call = {c1, c2}
    Amount = 2
    Listed = TRUE
    DashStatus = {"succeeded"}
    NoRow = NoRow
INVARIANT RefundsCountedOnce
