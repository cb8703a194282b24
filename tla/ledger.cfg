SPECIFICATION Spec
CONSTANTS
    Payment = {p1}
    RefundId = {r1, r2}
    Call = {c1, c2}
    Amount = 2
    Listed = TRUE
    DashStatus = {"succeeded"}
    NoRow = NoRow
INVARIANTS
    TypeOK
    StatusMatchesTotal
    SettledIsPaid
    RowsMirrorStripe
    EndpointCountsExactly
PROPERTIES
    SettledStaysSettled
SYMMETRY Symmetry
