------------------------------- MODULE Ledger -------------------------------
(***************************************************************************)
(* The payment ledger of payments.service.ts: the Payment and Refund rows, *)
(* the handlers that write them, and Stripe as those handlers see it. A    *)
(* payment stands for one charge, hence for one Stripe PaymentIntent: the  *)
(* intents of deposits and in-person charges are confirmed by the client   *)
(* later, those of fees (no-show, late cancellation) are confirmed when    *)
(* they are created. What the webhooks do to appointments is in Bookings.  *)
(***************************************************************************)
EXTENDS Naturals, FiniteSets

CONSTANTS
    Payment,    \* charges, each with its PaymentIntent
    RefundId,   \* refunds Stripe may create; the size bounds their number
    Call,       \* handlers that may be running at once
    Amount,     \* amountCents of every charge
    Listed,     \* whether charge.refunded lists the refunds (Stripe API version)
    DashStatus, \* how refunds made in the dashboard may start out
    NoRow       \* stands for a row or a refund that does not exist

Settled == {"SUCCEEDED", "PARTIALLY_REFUNDED", "REFUNDED"}
Amounts == 1..Amount

(* A fee settles when it is charged, a slow one later or never. *)
Kinds == {"client", "fee", "slow fee"}

PaymentRow == [status : {"PENDING", "FAILED"} \cup Settled, refunded : Nat]

RefundRow ==
    [payment : Payment, amount : Amounts, status : {"PENDING", "SUCCEEDED", "FAILED"}]

(* A refund as Stripe has it, with the answer it gave to the call that made it *)
(* and the idempotency key of that call.                                       *)
StripeRefund ==
    [payment : Payment, amount : Amounts, key : (Payment \X Amounts \X Nat) \cup {NoRow},
     status : {"pending", "succeeded", "failed"}, answer : {"pending", "succeeded"}]

ASSUME LedgerAssumption ==
    /\ Amount \in Nat \ {0}
    /\ IsFiniteSet(RefundId)
    /\ Listed \in BOOLEAN
    /\ DashStatus \subseteq {"succeeded", "pending"}
    /\ NoRow \notin PaymentRow \cup RefundRow \cup StripeRefund
    /\ NoRow \notin Payment \X Amounts \X Nat

VARIABLES
    kind,       \* of each charge: confirmed by the client, or a fee of a saved card
    intent,     \* Stripe: state of each PaymentIntent
    refund,     \* Stripe: refunds made
    events,     \* webhook events Stripe has sent; any may come late or again
    row,        \* the Payment rows
    refundRow,  \* the Refund rows, by their unique stripeRefundId
    call,       \* the handlers in flight and their local variables
    reconciled  \* history: payments a refund webhook has been handled for

stripe == <<kind, intent, refund, events>>
ledger == <<row, refundRow>>
vars == <<kind, intent, refund, events, row, refundRow, call, reconciled>>

Idle == [pc |-> "idle"]

Init ==
    /\ kind \in [Payment -> Kinds]
    /\ intent = [p \in Payment |-> "none"]
    /\ refund = [r \in RefundId |-> NoRow]
    /\ events = {}
    /\ row = [p \in Payment |-> NoRow]
    /\ refundRow = [r \in RefundId |-> NoRow]
    /\ call = [c \in Call |-> Idle]
    /\ reconciled = {}

Enter(c, record) == call[c] = Idle /\ call' = [call EXCEPT ![c] = record]
Step(c, record) == call' = [call EXCEPT ![c] = record]
Return(c) == Step(c, Idle)

(* A request or a delivery that is cut off: the process dies or a query of *)
(* the handler fails. Stripe sends an event that was not answered again.   *)
CutOff(c) ==
    /\ call[c] # Idle
    /\ Return(c)
    /\ UNCHANGED <<stripe, ledger, reconciled>>

-----------------------------------------------------------------------------
(* Stripe                                                                    *)

MadeFor(p) == {r \in RefundId : refund[r] # NoRow /\ refund[r].payment = p}

(* The sum of the amounts of these refunds: how many cents they have. *)
SumCents(refunds, ids) ==
    Cardinality({cent \in ids \X Amounts : cent[2] <= refunds[cent[1]].amount})

(* Money of a charge that left it, charge.amount_refunded. *)
AmountRefunded(p) == SumCents(refund, {r \in MadeFor(p) : refund[r].status # "failed"})

Sent(type, p) == [type |-> type, payment |-> p]

(* The client confirms an intent whose secret it was given, or a slow fee settles. *)
ClientPays(p) ==
    /\ intent[p] = "open"
    /\ intent' = [intent EXCEPT ![p] = "succeeded"]
    /\ events' = events \cup {Sent("payment_intent.succeeded", p)}
    /\ UNCHANGED <<kind, refund, ledger, call, reconciled>>

(* The card is declined; the client may try again on the same intent. *)
CardDeclined(p) ==
    /\ intent[p] = "open"
    /\ events' = events \cup {Sent("payment_intent.payment_failed", p)}
    /\ UNCHANGED <<kind, intent, refund, ledger, call, reconciled>>

(* The refund r is made at once or left pending; the event carries the      *)
(* total and, in the API versions that list them, the refunds.              *)
MakeRefund(p, r, amount, key, status) ==
    /\ intent[p] = "succeeded"
    /\ refund[r] = NoRow
    /\ refund' = [refund EXCEPT ![r] =
                     [payment |-> p, amount |-> amount, key |-> key,
                      status |-> status, answer |-> status]]
    /\ \E total \in Amounts :
         /\ total = amount + AmountRefunded(p)
         /\ events' = events \cup
                {[type |-> "charge.refunded", payment |-> p, total |-> total,
                  refunds |-> [q \in IF Listed THEN MadeFor(p) \cup {r} ELSE {} |->
                                   refund'[q].status]]}

(* A refund made in the Stripe dashboard. *)
DashboardRefund(p, r, amount) ==
    /\ \E status \in DashStatus : MakeRefund(p, r, amount, NoRow, status)
    /\ UNCHANGED <<kind, intent, ledger, call, reconciled>>

(* A pending refund succeeds; a refund may also fail, even after that. *)
RefundMoves(r, status) ==
    /\ refund[r] # NoRow
    /\ \/ status = "succeeded" /\ refund[r].status = "pending"
       \/ status = "failed" /\ refund[r].status # "failed"
    /\ refund' = [refund EXCEPT ![r].status = status]
    /\ events' = events \cup {[type |-> "refund.updated", refund |-> r, status |-> status]}
    /\ UNCHANGED <<kind, intent, ledger, call, reconciled>>

-----------------------------------------------------------------------------
(* Charges                                                                   *)

(* Mutant: a charge is recorded as settled before the client has confirmed it. *)
CreateIntentSettled(c, p) ==
    /\ kind[p] = "client"
    /\ Enter(c, [pc |-> "record", payment |-> p, status |-> "SUCCEEDED"])
    /\ intent' = [intent EXCEPT ![p] = IF @ = "none" THEN "created" ELSE @]
    /\ UNCHANGED <<kind, refund, events, ledger, reconciled>>

(* createBookingIntent, createCustomCharge: the idempotency key gives a     *)
(* repeated call the intent that exists.                                    *)
CreateIntent(c, p) ==
    /\ kind[p] = "client"
    /\ Enter(c, [pc |-> "record", payment |-> p, status |-> "PENDING"])
    /\ intent' = [intent EXCEPT ![p] = IF @ = "none" THEN "created" ELSE @]
    /\ UNCHANGED <<kind, refund, events, ledger, reconciled>>

(* chargeNoShowFee, chargeCancellationFee: the card is charged at once, and a *)
(* charge that does not settle at once is recorded as failed.                 *)
ChargeFee(c, p) ==
    /\ kind[p] # "client"
    /\ IF kind[p] = "fee"
       THEN /\ Enter(c, [pc |-> "record", payment |-> p, status |-> "SUCCEEDED"])
            /\ intent' = [intent EXCEPT ![p] = "succeeded"]
            /\ events' = events \cup {Sent("payment_intent.succeeded", p)}
       ELSE /\ Enter(c, [pc |-> "record", payment |-> p, status |-> "FAILED"])
            /\ intent' = [intent EXCEPT ![p] = IF @ = "none" THEN "open" ELSE @]
            /\ UNCHANGED events
    /\ UNCHANGED <<kind, refund, ledger, reconciled>>

(* recordPayment: an insert whose failure, on the unique intent id or for   *)
(* another reason, is logged only. Then the client is given the secret.     *)
RecordPayment(c) ==
    /\ call[c].pc = "record"
    /\ LET p == call[c].payment
       IN /\ \/ UNCHANGED row
             \/ /\ row[p] = NoRow
                /\ row' = [row EXCEPT ![p] = [status |-> call[c].status, refunded |-> 0]]
          /\ intent' = [intent EXCEPT ![p] = IF @ = "created" THEN "open" ELSE @]
    /\ Return(c)
    /\ UNCHANGED <<kind, refund, events, refundRow, reconciled>>

(* handleWebhook, payment_intent.succeeded: updateMany with a condition. *)
PaymentSucceeded(p) ==
    /\ Sent("payment_intent.succeeded", p) \in events
    /\ IF row[p] # NoRow /\ row[p].status \in {"PENDING", "FAILED"}
       THEN row' = [row EXCEPT ![p].status = "SUCCEEDED"]
       ELSE UNCHANGED row
    /\ UNCHANGED <<stripe, refundRow, call, reconciled>>

(* Mutant: the update has no condition on the status. *)
PaymentFailedAlways(p) ==
    /\ Sent("payment_intent.payment_failed", p) \in events
    /\ row[p] # NoRow
    /\ row' = [row EXCEPT ![p].status = "FAILED"]
    /\ UNCHANGED <<stripe, refundRow, call, reconciled>>

(* handleWebhook, payment_intent.payment_failed. *)
PaymentFailed(p) ==
    /\ Sent("payment_intent.payment_failed", p) \in events
    /\ row[p] # NoRow
    /\ row[p].status = "PENDING"
    /\ row' = [row EXCEPT ![p].status = "FAILED"]
    /\ UNCHANGED <<stripe, refundRow, call, reconciled>>

-----------------------------------------------------------------------------
(* Refunds                                                                   *)

RefundedStatus(total) == IF total >= Amount THEN "REFUNDED" ELSE "PARTIALLY_REFUNDED"

(* Mutant: a refund that is pending counts as succeeded. *)
RefundStatusTwoWay(status) == IF status = "failed" THEN "FAILED" ELSE "SUCCEEDED"

RefundStatus(status) ==
    CASE status = "succeeded" -> "SUCCEEDED"
      [] status = "failed" -> "FAILED"
      [] OTHER -> "PENDING"

(* Both statements that write a total write its status with it. *)
SetTotal(p, total) ==
    row' = [row EXCEPT ![p] = [status |-> RefundedStatus(total), refunded |-> total]]

(* prisma.refund.upsert, which changes the status alone of a row it finds. *)
Upsert(r, status) ==
    refundRow' = [refundRow EXCEPT ![r] =
        IF @ = NoRow
        THEN [payment |-> refund[r].payment, amount |-> refund[r].amount,
              status |-> RefundStatus(status)]
        ELSE [@ EXCEPT !.status = RefundStatus(status)]]

SucceededRows(p) ==
    {r \in RefundId : /\ refundRow[r] # NoRow
                      /\ refundRow[r].payment = p
                      /\ refundRow[r].status = "SUCCEEDED"}

RowTotal(p) == SumCents(refundRow, SucceededRows(p))

(* refundPayment: the read and the checks. *)
RequestRefund(c, p, amount) ==
    /\ row[p] # NoRow
    /\ row[p].status \in {"SUCCEEDED", "PARTIALLY_REFUNDED"}
    /\ amount + row[p].refunded <= Amount
    /\ Enter(c, [pc |-> "stripe", payment |-> p, amount |-> amount,
                 seen |-> row[p].refunded])
    /\ UNCHANGED <<stripe, ledger, reconciled>>

IdempotencyKey(p, amount, seen) == <<p, amount, seen>>

(* The call of Stripe: a key seen before is answered as it was then. *)
AskStripe(c) ==
    /\ call[c].pc = "stripe"
    /\ LET p == call[c].payment
           key == IdempotencyKey(p, call[c].amount, call[c].seen)
           Answered(r, status) ==
               Step(c, [pc |-> "ledger", refund |-> r, payment |-> p,
                        amount |-> call[c].amount, status |-> RefundStatus(status)])
           known == {r \in MadeFor(p) : refund[r].key = key}
       IN \/ \E r \in known : /\ Answered(r, refund[r].answer)
                              /\ UNCHANGED stripe
          \/ /\ known = {}
             /\ \E r \in RefundId, status \in {"succeeded", "pending"} :
                  MakeRefund(p, r, call[c].amount, key, status) /\ Answered(r, status)
             /\ UNCHANGED <<kind, intent>>
    /\ UNCHANGED <<ledger, reconciled>>

(* Mutant: the total is set, not incremented. *)
SetToAmount(p, amount) == SetTotal(p, amount)

(* Mutant: the status is not brought up to date with the total. *)
AddWithoutStatus(p, amount) == row' = [row EXCEPT ![p].refunded = @ + amount]

(* The transaction of refundPayment. It is one step: the insert holds the   *)
(* unique refund id, and a row inserted meanwhile makes it fail whole.      *)
AddToTotal(p, amount) == SetTotal(p, row[p].refunded + amount)

RefundTx(c) ==
    /\ call[c].pc = "ledger"
    /\ LET r == call[c].refund
           p == call[c].payment
       IN IF refundRow[r] # NoRow
          THEN UNCHANGED ledger
          ELSE /\ refundRow' = [refundRow EXCEPT ![r] =
                      [payment |-> p, amount |-> call[c].amount, status |-> call[c].status]]
               /\ IF call[c].status = "SUCCEEDED"
                  THEN AddToTotal(p, call[c].amount)
                  ELSE UNCHANGED row
    /\ Return(c)
    /\ UNCHANGED <<stripe, reconciled>>

(* handleWebhook, charge.refunded: the total is written first. Stripe's     *)
(* total is never zero here.                                                *)
ChargeRefunded(c, e) ==
    /\ e.type = "charge.refunded"
    /\ row[e.payment] # NoRow
    /\ SetTotal(e.payment, e.total)
    /\ reconciled' = reconciled \cup {e.payment}
    /\ Enter(c, [pc |-> "mirror", refunds |-> e.refunds])
    /\ UNCHANGED <<stripe, refundRow>>

(* Then the refunds of the event are mirrored one by one. *)
MirrorRefund(c) ==
    /\ call[c].pc = "mirror"
    /\ LET todo == call[c].refunds
       IN IF DOMAIN todo = {}
          THEN Return(c) /\ UNCHANGED refundRow
          ELSE \E r \in DOMAIN todo :
                 /\ Upsert(r, todo[r])
                 /\ Step(c, [pc |-> "mirror",
                             refunds |-> [q \in DOMAIN todo \ {r} |-> todo[q]]])
    /\ UNCHANGED <<stripe, row, reconciled>>

(* reconcileStripeRefund: the upsert, *)
RefundUpdated(c, e) ==
    /\ e.type = "refund.updated"
    /\ LET p == refund[e.refund].payment
       IN /\ row[p] # NoRow
          /\ Enter(c, IF e.status = "succeeded"
                      THEN [pc |-> "sum", payment |-> p]
                      ELSE Idle)
          /\ reconciled' = reconciled \cup {p}
    /\ Upsert(e.refund, e.status)
    /\ UNCHANGED <<stripe, row>>

(* Mutant: the sum is not cut at the amount of the charge. *)
SumRefundsUncut(c) ==
    /\ call[c].pc = "sum"
    /\ Step(c, [pc |-> "write", payment |-> call[c].payment,
                total |-> RowTotal(call[c].payment)])
    /\ UNCHANGED <<stripe, ledger, reconciled>>

(* the aggregate over the Refund rows, *)
SumRefunds(c) ==
    /\ call[c].pc = "sum"
    /\ LET p == call[c].payment
       IN \E total \in 0..Amount :
             /\ total = IF RowTotal(p) < Amount THEN RowTotal(p) ELSE Amount
             /\ Step(c, [pc |-> "write", payment |-> p, total |-> total])
    /\ UNCHANGED <<stripe, ledger, reconciled>>

(* and the write of the sum it has read. *)
WriteSum(c) ==
    /\ call[c].pc = "write"
    /\ SetTotal(call[c].payment, call[c].total)
    /\ Return(c)
    /\ UNCHANGED <<stripe, refundRow, reconciled>>

-----------------------------------------------------------------------------
StripeStep ==
    \/ \E p \in Payment :
         \/ ClientPays(p)
         \/ CardDeclined(p)
         \/ \E r \in RefundId, amount \in Amounts : DashboardRefund(p, r, amount)
    \/ \E r \in RefundId : RefundMoves(r, "succeeded") \/ RefundMoves(r, "failed")

Request(c) ==
    \E p \in Payment :
        \/ CreateIntent(c, p)
        \/ ChargeFee(c, p)
        \/ \E amount \in Amounts : RequestRefund(c, p, amount)

Webhook(c) == \E e \in events : ChargeRefunded(c, e) \/ RefundUpdated(c, e)

Continue(c) ==
    \/ RecordPayment(c)
    \/ AskStripe(c)
    \/ RefundTx(c)
    \/ MirrorRefund(c)
    \/ SumRefunds(c)
    \/ WriteSum(c)
    \/ CutOff(c)

Next ==
    \/ StripeStep
    \/ \E p \in Payment : PaymentSucceeded(p) \/ PaymentFailed(p)
    \/ \E c \in Call : Request(c) \/ Webhook(c) \/ Continue(c)

Spec == Init /\ [][Next]_vars

-----------------------------------------------------------------------------
(* Properties                                                                *)

StripeStatuses == {"pending", "succeeded", "failed"}
Snapshot == UNION {[S -> StripeStatuses] : S \in SUBSET RefundId}

IntentEvent ==
    [type : {"payment_intent.succeeded", "payment_intent.payment_failed"},
     payment : Payment]
ChargeEvent ==
    [type : {"charge.refunded"}, payment : Payment, total : Amounts, refunds : Snapshot]
RefundEvent ==
    [type : {"refund.updated"}, refund : RefundId, status : {"succeeded", "failed"}]

CallRecord ==
    {Idle}
    \cup [pc : {"record"}, payment : Payment, status : {"PENDING", "FAILED", "SUCCEEDED"}]
    \cup [pc : {"stripe"}, payment : Payment, amount : Amounts, seen : Nat]
    \cup [pc : {"ledger"}, refund : RefundId, payment : Payment, amount : Amounts,
          status : {"PENDING", "SUCCEEDED"}]
    \cup [pc : {"mirror"}, refunds : Snapshot]
    \cup [pc : {"sum"}, payment : Payment]
    \cup [pc : {"write"}, payment : Payment, total : 0..Amount]

(* Every row and every handler in flight keeps its type; the sum written by  *)
(* reconcileStripeRefund is cut at the amount of the charge.                 *)
TypeOK ==
    /\ kind \in [Payment -> Kinds]
    /\ refund \in [RefundId -> StripeRefund \cup {NoRow}]
    /\ events \subseteq IntentEvent \cup ChargeEvent \cup RefundEvent
    /\ intent \in [Payment -> {"none", "created", "open", "succeeded"}]
    /\ row \in [Payment -> PaymentRow \cup {NoRow}]
    /\ refundRow \in [RefundId -> RefundRow \cup {NoRow}]
    /\ call \in [Call -> CallRecord]
    /\ reconciled \subseteq Payment

(* The status and the total of a payment row say the same, although they are *)
(* written by an endpoint and three webhooks in any order: a payment is      *)
(* REFUNDED exactly when its total has reached its amount.                   *)
StatusMatchesTotal ==
    \A p \in Payment :
        row[p] # NoRow =>
            IF row[p].status \in {"PENDING", "FAILED", "SUCCEEDED"}
            THEN row[p].refunded = 0
            ELSE row[p].status = RefundedStatus(row[p].refunded)

(* The ledger never says that money came in which Stripe has not taken. *)
SettledIsPaid ==
    \A p \in Payment :
        row[p] # NoRow /\ row[p].status \in Settled => intent[p] = "succeeded"

(* A Refund row tells the charge and the amount of the Stripe refund whose   *)
(* id it has, whether the endpoint or a webhook has written it and in which  *)
(* order, and its status is one which that refund has reached.               *)
RowsMirrorStripe ==
    \A r \in RefundId :
        refundRow[r] # NoRow =>
            /\ refund[r] # NoRow
            /\ refundRow[r].payment = refund[r].payment
            /\ refundRow[r].amount = refund[r].amount
            /\ refundRow[r].status = "FAILED" => refund[r].status = "failed"
            /\ refundRow[r].status = "SUCCEEDED" => refund[r].status # "pending"

(* Until a refund webhook has been handled for a payment, its total is the   *)
(* sum of its succeeded Refund rows: concurrent calls of refundPayment are   *)
(* all counted, and one that is repeated is counted once.                    *)
EndpointCountsExactly ==
    \A p \in Payment \ reconciled :
        row[p] # NoRow => row[p].refunded = RowTotal(p)

(* Once settled, a payment is never PENDING or FAILED again, whatever events *)
(* are repeated or come late, and its row does not go away.                  *)
SettledStaysSettled ==
    [][\A p \in Payment :
        row[p] # NoRow /\ row[p].status \in Settled =>
            row'[p] # NoRow /\ row'[p].status \in Settled]_vars

(* Each Stripe refund is counted once in the total of its payment.           *)
(* payments.service.ts:508 calls the mirroring of refunds idempotent on the  *)
(* Stripe refund id.                                                         *)
RefundsCountedOnce ==
    \A p \in Payment :
        row[p] # NoRow =>
            row[p].refunded <= SumCents(refund, MadeFor(p))
=============================================================================
