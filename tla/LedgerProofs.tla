---------------------------- MODULE LedgerProofs ----------------------------
(***************************************************************************)
(* Proofs about Ledger, for any number of charges, refunds and concurrent  *)
(* handlers. What a set of refunds adds up to is the number of their       *)
(* cents, so that the sums are reasoned about as finite sets.              *)
(***************************************************************************)
EXTENDS Ledger, FiniteSetTheorems, TLAPS

-----------------------------------------------------------------------------
(* Type correctness *)

(* A handler in flight has the fields its control point calls for. *)
LEMMA CallFields ==
    ASSUME NEW k \in CallRecord
    PROVE  /\ k.pc = "record" => /\ k.payment \in Payment
                                 /\ k.status \in {"PENDING", "FAILED", "SUCCEEDED"}
           /\ k.pc = "stripe" => k.payment \in Payment /\ k.amount \in Amounts /\ k.seen \in Nat
           /\ k.pc = "ledger" => /\ k.refund \in RefundId /\ k.payment \in Payment
                                 /\ k.amount \in Amounts
                                 /\ k.status \in {"PENDING", "SUCCEEDED"}
           /\ k.pc = "mirror" => k.refunds \in Snapshot
           /\ k.pc = "sum" => k.payment \in Payment
           /\ k.pc = "write" => k.payment \in Payment /\ k.total \in 0..Amount
BY DEF CallRecord, Idle

(* An event carries the fields of its type. *)
LEMMA EventFields ==
    ASSUME NEW e \in IntentEvent \cup ChargeEvent \cup RefundEvent
    PROVE  /\ e.type = "payment_intent.succeeded" => e.payment \in Payment
           /\ e.type = "charge.refunded" =>
                /\ e.payment \in Payment
                /\ e.total \in Amounts
                /\ e.refunds \in Snapshot
           /\ e.type = "refund.updated" =>
                e.refund \in RefundId /\ e.status \in {"succeeded", "failed"}
BY DEF IntentEvent, ChargeEvent, RefundEvent

(* What a handler may leave behind for its next step. *)
LEMMA CallMakes ==
    /\ Idle \in CallRecord
    /\ \A p \in Payment : \A s \in {"PENDING", "FAILED", "SUCCEEDED"} :
         [pc |-> "record", payment |-> p, status |-> s] \in CallRecord
    /\ \A p \in Payment, a \in Amounts, n \in Nat :
         [pc |-> "stripe", payment |-> p, amount |-> a, seen |-> n] \in CallRecord
    /\ \A r \in RefundId, p \in Payment, a \in Amounts, s \in {"PENDING", "SUCCEEDED"} :
         [pc |-> "ledger", refund |-> r, payment |-> p, amount |-> a, status |-> s] \in CallRecord
    /\ \A f \in Snapshot : [pc |-> "mirror", refunds |-> f] \in CallRecord
    /\ \A p \in Payment : [pc |-> "sum", payment |-> p] \in CallRecord
    /\ \A p \in Payment, n \in 0..Amount :
         [pc |-> "write", payment |-> p, total |-> n] \in CallRecord
BY DEF CallRecord

(* A fee that settles has moved money, one that does not is recorded as failed. *)
LEMMA FeeCall ==
    ASSUME TypeOK, NEW c \in Call, NEW p \in Payment, ChargeFee(c, p)
    PROVE  \E s \in {"FAILED", "SUCCEEDED"} :
              /\ call' = [call EXCEPT ![c] = [pc |-> "record", payment |-> p, status |-> s]]
              /\ s = "SUCCEEDED" => intent'[p] = "succeeded"
<1>1. CASE kind[p] = "fee"
  <2>1. call' = [call EXCEPT ![c] = [pc |-> "record", payment |-> p, status |-> "SUCCEEDED"]]
        BY <1>1 DEF ChargeFee, Enter
  <2>2. intent'[p] = "succeeded"
        BY <1>1 DEF ChargeFee, TypeOK
  <2>3. QED BY <2>1, <2>2
<1>2. CASE kind[p] # "fee"
  <2>1. call' = [call EXCEPT ![c] = [pc |-> "record", payment |-> p, status |-> "FAILED"]]
        BY <1>2 DEF ChargeFee, Enter
  <2>2. QED BY <2>1
<1>3. QED BY <1>1, <1>2

(* Every total and status a handler writes makes a payment row. *)
LEMMA SetTotalType ==
    ASSUME TypeOK, NEW p \in Payment, NEW total \in Nat, SetTotal(p, total)
    PROVE  row' \in [Payment -> PaymentRow \cup {NoRow}]
<1>1. [status |-> RefundedStatus(total), refunded |-> total] \in PaymentRow
      BY DEF RefundedStatus, PaymentRow, Settled
<1>2. QED BY <1>1 DEF SetTotal, TypeOK

(* An upsert keeps the refund rows well formed. *)
LEMMA UpsertType ==
    ASSUME TypeOK, NEW r \in RefundId, refund[r] # NoRow, NEW status, Upsert(r, status)
    PROVE  refundRow' \in [RefundId -> RefundRow \cup {NoRow}]
<1>1. RefundStatus(status) \in {"PENDING", "SUCCEEDED", "FAILED"}
      BY DEF RefundStatus
<1>2. refund[r] \in StripeRefund
      BY DEF TypeOK
<1>3. [payment |-> refund[r].payment, amount |-> refund[r].amount,
       status |-> RefundStatus(status)] \in RefundRow
      BY <1>1, <1>2 DEF StripeRefund, RefundRow
<1>4. refundRow[r] # NoRow => [refundRow[r] EXCEPT !.status = RefundStatus(status)] \in RefundRow
      BY <1>1 DEF TypeOK, RefundRow
<1>5. QED BY <1>3, <1>4 DEF Upsert, TypeOK

-----------------------------------------------------------------------------
(* What Stripe has said of a refund stays true enough to be written late. *)

(* The refund exists and has been in this status. *)
Reached(r, status) ==
    /\ refund[r] # NoRow
    /\ status = "failed" => refund[r].status = "failed"
    /\ status = "succeeded" => refund[r].status # "pending"

(* Every event tells a status that its refund has reached. *)
EventsReached ==
    \A e \in events :
        /\ e.type = "charge.refunded" =>
             \A r \in DOMAIN e.refunds : Reached(r, e.refunds[r])
        /\ e.type = "refund.updated" => Reached(e.refund, e.status)

(* So does what is left to mirror of an event. *)
MirrorsReached ==
    \A c \in Call : call[c].pc = "mirror" =>
        \A r \in DOMAIN call[c].refunds : Reached(r, call[c].refunds[r])

TypeInv == TypeOK /\ EventsReached /\ MirrorsReached

(* Steps of Stripe on its refunds. *)
RefundStep ==
    \/ UNCHANGED refund
    \/ \E p \in Payment, r \in RefundId, amount \in Amounts,
          key \in (Payment \X Amounts \X Nat) \cup {NoRow},
          status \in {"succeeded", "pending"} : MakeRefund(p, r, amount, key, status)
    \/ \E r \in RefundId, status \in {"succeeded", "failed"} : RefundMoves(r, status)

(* A new refund is a record of the right type that has reached its status. *)
LEMMA NewRefund ==
    ASSUME NEW p \in Payment, NEW amount \in Amounts,
           NEW key \in (Payment \X Amounts \X Nat) \cup {NoRow},
           NEW status \in {"succeeded", "pending"}
    PROVE  LET new == [payment |-> p, amount |-> amount, key |-> key,
                       status |-> status, answer |-> status]
           IN new \in StripeRefund /\ new # NoRow
<1>1. [payment |-> p, amount |-> amount, key |-> key,
       status |-> status, answer |-> status] \in StripeRefund
      BY DEF StripeRefund
<1>2. QED BY <1>1, LedgerAssumption

(* Refunds keep their type, and only ever gain statuses. *)
LEMMA ReachedStays ==
    ASSUME TypeOK, RefundStep
    PROVE  /\ refund' \in [RefundId -> StripeRefund \cup {NoRow}]
           /\ \A r \in RefundId, status \in StripeStatuses :
                Reached(r, status) => Reached(r, status)'
<1>1. CASE UNCHANGED refund
      BY <1>1 DEF TypeOK, Reached
<1>2. CASE \E p \in Payment, r \in RefundId, amount \in Amounts,
              key \in (Payment \X Amounts \X Nat) \cup {NoRow},
              status \in {"succeeded", "pending"} : MakeRefund(p, r, amount, key, status)
  <2>1. PICK p \in Payment, r \in RefundId, amount \in Amounts,
             key \in (Payment \X Amounts \X Nat) \cup {NoRow},
             status \in {"succeeded", "pending"} : MakeRefund(p, r, amount, key, status)
        BY <1>2
  <2> DEFINE new == [payment |-> p, amount |-> amount, key |-> key,
                     status |-> status, answer |-> status]
  <2>2. new \in StripeRefund /\ new # NoRow
        BY NewRefund
  <2>3. refund[r] = NoRow /\ refund' = [refund EXCEPT ![r] = new]
        BY <2>1 DEF MakeRefund
  <2> HIDE DEF new
  <2>4. QED BY <2>2, <2>3 DEF TypeOK, Reached
<1>3. CASE \E r \in RefundId, status \in {"succeeded", "failed"} : RefundMoves(r, status)
  <2>1. PICK r \in RefundId, status \in {"succeeded", "failed"} : RefundMoves(r, status)
        BY <1>3
  <2>2. refund[r] \in StripeRefund
        BY <2>1 DEF RefundMoves, TypeOK
  <2>3. /\ [refund[r] EXCEPT !.status = status] \in StripeRefund
        /\ [refund[r] EXCEPT !.status = status].status = status
        BY <2>2 DEF StripeRefund
  <2>4. [refund[r] EXCEPT !.status = status] # NoRow
        BY <2>3, LedgerAssumption
  <2>5. /\ refund' = [refund EXCEPT ![r].status = status]
        /\ \/ status = "succeeded" /\ refund[r].status = "pending"
           \/ status = "failed" /\ refund[r].status # "failed"
        BY <2>1 DEF RefundMoves
  <2>6. /\ refund'[r] = [refund[r] EXCEPT !.status = status]
        /\ \A q \in RefundId \ {r} : refund'[q] = refund[q]
        BY <2>5 DEF TypeOK
  <2>7. QED BY <2>3, <2>4, <2>5, <2>6 DEF TypeOK, Reached
<1>4. QED BY <1>1, <1>2, <1>3 DEF RefundStep

(* What a step sends: news of charges, or news of a refund it makes or moves. *)
Sends ==
    \/ events' \subseteq events \cup IntentEvent
    \/ \E p \in Payment, r \in RefundId, amount \in Amounts,
          key \in (Payment \X Amounts \X Nat) \cup {NoRow},
          status \in {"succeeded", "pending"} : MakeRefund(p, r, amount, key, status)
    \/ \E r \in RefundId, status \in {"succeeded", "failed"} : RefundMoves(r, status)

(* The events a refund step sends are typed and true. *)
LEMMA EventsStay ==
    ASSUME TypeInv, RefundStep, Sends
    PROVE  /\ events' \subseteq IntentEvent \cup ChargeEvent \cup RefundEvent
           /\ EventsReached'
<1> DEFINE True(e) ==
        /\ e \in IntentEvent \cup ChargeEvent \cup RefundEvent
        /\ e.type = "charge.refunded" =>
             \A r \in DOMAIN e.refunds : Reached(r, e.refunds[r])'
        /\ e.type = "refund.updated" => Reached(e.refund, e.status)'
<1>1. \A e \in events : True(e)
  <2> SUFFICES ASSUME NEW e \in events PROVE True(e)
      OBVIOUS
  <2>1. e \in IntentEvent \cup ChargeEvent \cup RefundEvent
        BY DEF TypeInv, TypeOK
  <2>2. e.type = "charge.refunded" =>
          \A r \in DOMAIN e.refunds : r \in RefundId /\ e.refunds[r] \in StripeStatuses
        BY <2>1, EventFields DEF Snapshot
  <2>3. e.type = "refund.updated" =>
          e.refund \in RefundId /\ e.status \in StripeStatuses
        BY <2>1, EventFields DEF StripeStatuses
  <2>4. QED BY <2>1, <2>2, <2>3, ReachedStays DEF TypeInv, EventsReached
<1>2. \A e \in IntentEvent : True(e)
      BY DEF IntentEvent
<1>3. CASE events' \subseteq events \cup IntentEvent
      BY <1>1, <1>2, <1>3 DEF EventsReached
<1>4. ASSUME NEW p \in Payment, NEW r \in RefundId, NEW amount \in Amounts,
             NEW key \in (Payment \X Amounts \X Nat) \cup {NoRow},
             NEW status \in {"succeeded", "pending"},
             MakeRefund(p, r, amount, key, status)
      PROVE  /\ events' \subseteq IntentEvent \cup ChargeEvent \cup RefundEvent
             /\ EventsReached'
  <2> DEFINE listed == IF Listed THEN MadeFor(p) \cup {r} ELSE {}
             e(total, f) == [type |-> "charge.refunded", payment |-> p, total |-> total,
                             refunds |-> f]
  <2>1. PICK total \in Amounts :
          events' = events \cup {e(total, [q \in listed |-> refund'[q].status])}
        BY <1>4 DEF MakeRefund
  <2>2. refund' = [refund EXCEPT ![r] =
                      [payment |-> p, amount |-> amount, key |-> key,
                       status |-> status, answer |-> status]]
        BY <1>4 DEF MakeRefund
  <2>3. \A q \in listed : q \in RefundId /\ refund'[q] # NoRow
        BY <2>2, NewRefund DEF MadeFor, TypeInv, TypeOK
  <2>4. refund' \in [RefundId -> StripeRefund \cup {NoRow}]
        BY ReachedStays DEF TypeInv
  <2>5. \A q \in listed : refund'[q].status \in StripeStatuses
        BY <2>3, <2>4 DEF StripeRefund, StripeStatuses
  <2>6. PICK f : f = [q \in listed |-> refund'[q].status]
        OBVIOUS
  <2>7. /\ f \in [listed -> StripeStatuses]
        /\ \A q \in DOMAIN f : refund'[q] # NoRow /\ f[q] = refund'[q].status
        BY <2>3, <2>5, <2>6
  <2>8. listed \in SUBSET RefundId
        BY <2>3
  <2>9. f \in Snapshot
        BY <2>7, <2>8 DEF Snapshot
  <2>10. \A q \in DOMAIN f : Reached(q, f[q])'
        BY <2>7 DEF Reached
  <2>11. True(e(total, f))
        BY <2>9, <2>10 DEF ChargeEvent
  <2>12. events' = events \cup {e(total, f)}
        BY <2>1, <2>6
  <2>13. QED BY <1>1, <2>11, <2>12 DEF EventsReached
<1>5. ASSUME NEW r \in RefundId, NEW status \in {"succeeded", "failed"}, RefundMoves(r, status)
      PROVE  /\ events' \subseteq IntentEvent \cup ChargeEvent \cup RefundEvent
             /\ EventsReached'
  <2> DEFINE e == [type |-> "refund.updated", refund |-> r, status |-> status]
  <2>1. events' = events \cup {e}
        BY <1>5 DEF RefundMoves
  <2>2. refund[r] \in StripeRefund
        BY <1>5 DEF RefundMoves, TypeInv, TypeOK
  <2>3. /\ [refund[r] EXCEPT !.status = status] \in StripeRefund
        /\ [refund[r] EXCEPT !.status = status].status = status
        BY <2>2 DEF StripeRefund
  <2>4. refund'[r] = [refund[r] EXCEPT !.status = status]
        BY <1>5 DEF RefundMoves, TypeInv, TypeOK
  <2>5. Reached(r, status)'
        BY <2>3, <2>4, LedgerAssumption DEF Reached
  <2>6. True(e)
        BY <2>5 DEF RefundEvent
  <2>7. QED BY <1>1, <2>1, <2>6 DEF EventsReached
<1>6. QED BY <1>3, <1>4, <1>5 DEF Sends

(* Every step leaves the refunds of Stripe alone, makes one or moves one. *)
LEMMA StripeSide ==
    ASSUME TypeOK, [Next]_vars
    PROVE  RefundStep /\ Sends
<1>1. CASE StripeStep
  <2>1. CASE \E p \in Payment : ClientPays(p) \/ CardDeclined(p)
        BY <2>1 DEF ClientPays, CardDeclined, RefundStep, Sends, Sent, IntentEvent
  <2>2. CASE \E p \in Payment, r \in RefundId, amount \in Amounts : DashboardRefund(p, r, amount)
        BY <2>2, LedgerAssumption DEF DashboardRefund, RefundStep, Sends
  <2>3. CASE \E r \in RefundId : RefundMoves(r, "succeeded") \/ RefundMoves(r, "failed")
        BY <2>3 DEF RefundStep, Sends
  <2>4. QED BY <1>1, <2>1, <2>2, <2>3 DEF StripeStep
<1>2. CASE \E p \in Payment : PaymentSucceeded(p) \/ PaymentFailed(p)
      BY <1>2 DEF PaymentSucceeded, PaymentFailed, stripe, RefundStep, Sends
<1>3. CASE \E c \in Call : Request(c)
  <2>1. UNCHANGED refund
        BY <1>3 DEF Request, CreateIntent, ChargeFee, RequestRefund, stripe
  <2>2. events' \subseteq events \cup IntentEvent
    <3>1. PICK c \in Call, p \in Payment :
            \/ CreateIntent(c, p)
            \/ ChargeFee(c, p)
            \/ \E amount \in Amounts : RequestRefund(c, p, amount)
          BY <1>3 DEF Request
    <3>2. Sent("payment_intent.succeeded", p) \in IntentEvent
          BY DEF Sent, IntentEvent
    <3>3. QED BY <3>1, <3>2 DEF CreateIntent, ChargeFee, RequestRefund, stripe
  <2>3. QED BY <2>1, <2>2 DEF RefundStep, Sends
<1>4. CASE \E c \in Call : Webhook(c)
      BY <1>4 DEF Webhook, ChargeRefunded, RefundUpdated, stripe, RefundStep, Sends
<1>5. CASE \E c \in Call : AskStripe(c)
  <2>1. PICK c \in Call : AskStripe(c)
        BY <1>5
  <2>2. /\ call[c].payment \in Payment
        /\ call[c].amount \in Amounts
        /\ call[c].seen \in Nat
        BY <2>1, CallFields DEF AskStripe, TypeOK
  <2>3. IdempotencyKey(call[c].payment, call[c].amount, call[c].seen)
          \in (Payment \X Amounts \X Nat) \cup {NoRow}
        BY <2>2 DEF IdempotencyKey
  <2>4. \/ UNCHANGED stripe
        \/ \E r \in RefundId, status \in {"succeeded", "pending"} :
             MakeRefund(call[c].payment, r, call[c].amount,
                        IdempotencyKey(call[c].payment, call[c].amount, call[c].seen), status)
        BY <2>1 DEF AskStripe
  <2>5. QED BY <2>2, <2>3, <2>4 DEF RefundStep, Sends, stripe
<1>6. CASE \E c \in Call : \/ RecordPayment(c)
                           \/ RefundTx(c)
                           \/ MirrorRefund(c)
                           \/ SumRefunds(c)
                           \/ WriteSum(c)
                           \/ CutOff(c)
      BY <1>6 DEF RecordPayment, RefundTx, MirrorRefund, SumRefunds, WriteSum, CutOff,
                  stripe, RefundStep, Sends
<1>7. CASE UNCHANGED vars
      BY <1>7 DEF vars, RefundStep, Sends
<1>8. QED BY <1>1, <1>2, <1>3, <1>4, <1>5, <1>6, <1>7 DEF Next, Continue

(* A step moves at most one handler, to a record that keeps its type and whose *)
(* remaining news is true.                                                     *)
Moves(c, k) ==
    /\ call' = [call EXCEPT ![c] = k]
    /\ k \in CallRecord
    /\ k.pc = "mirror" => \A r \in DOMAIN k.refunds : Reached(r, k.refunds[r])

LEMMA CallsStay ==
    ASSUME TypeInv, [Next]_vars,
           UNCHANGED call \/ \E c \in Call, k \in CallRecord : Moves(c, k)
    PROVE  /\ call' \in [Call -> CallRecord]
           /\ MirrorsReached'
<1> DEFINE ReachedNext(r, status) ==
        /\ refund'[r] # NoRow
        /\ status = "failed" => refund'[r].status = "failed"
        /\ status = "succeeded" => refund'[r].status # "pending"
<1>1. /\ call' \in [Call -> CallRecord]
      /\ \A c \in Call : call'[c].pc = "mirror" =>
           \A r \in DOMAIN call'[c].refunds : Reached(r, call'[c].refunds[r])
      BY DEF Moves, TypeInv, TypeOK, MirrorsReached
<1>2. ASSUME NEW c \in Call, call'[c].pc = "mirror", NEW r \in DOMAIN call'[c].refunds
      PROVE  ReachedNext(r, call'[c].refunds[r])
  <2>1. PICK f \in Snapshot : f = call'[c].refunds
        BY <1>1, <1>2, CallFields
  <2>2. r \in RefundId /\ f[r] \in StripeStatuses /\ Reached(r, f[r])
        BY <1>1, <1>2, <2>1 DEF Snapshot
  <2>3. Reached(r, f[r])'
        BY <2>2, ReachedStays, StripeSide DEF TypeInv
  <2>4. QED BY <2>1, <2>3 DEF Reached
<1>3. QED BY <1>1, <1>2 DEF MirrorsReached, Reached

(* Every step moves the handlers so. *)
LEMMA CallStep ==
    ASSUME TypeInv, [Next]_vars
    PROVE  UNCHANGED call \/ \E c \in Call, k \in CallRecord : Moves(c, k)
<1>1. CASE StripeStep
      BY <1>1 DEF StripeStep, ClientPays, CardDeclined, DashboardRefund, RefundMoves
<1>2. CASE \E p \in Payment : PaymentSucceeded(p) \/ PaymentFailed(p)
      BY <1>2 DEF PaymentSucceeded, PaymentFailed
<1>3. ASSUME NEW c \in Call, Request(c)
      PROVE  \E k \in CallRecord : Moves(c, k)
  <2>1. PICK p \in Payment : \/ CreateIntent(c, p)
                             \/ ChargeFee(c, p)
                             \/ \E amount \in Amounts : RequestRefund(c, p, amount)
        BY <1>3 DEF Request
  <2>2. CASE CreateIntent(c, p)
        BY <2>2, CallMakes DEF CreateIntent, Enter, Moves
  <2>3. CASE ChargeFee(c, p)
    <3>1. PICK s \in {"FAILED", "SUCCEEDED"} :
             call' = [call EXCEPT ![c] = [pc |-> "record", payment |-> p, status |-> s]]
          BY <2>3, FeeCall DEF TypeInv
    <3>2. [pc |-> "record", payment |-> p, status |-> s] \in CallRecord
          BY CallMakes
    <3>3. QED BY <3>1, <3>2 DEF Moves
  <2>4. ASSUME NEW amount \in Amounts, RequestRefund(c, p, amount)
        PROVE  \E k \in CallRecord : Moves(c, k)
    <3>1. row[p].refunded \in Nat
          BY <2>4 DEF RequestRefund, TypeInv, TypeOK, PaymentRow
    <3>2. QED BY <2>4, <3>1, CallMakes DEF RequestRefund, Enter, Moves
  <2>5. QED BY <2>1, <2>2, <2>3, <2>4
<1>4. ASSUME NEW c \in Call, Webhook(c)
      PROVE  \E k \in CallRecord : Moves(c, k)
  <2>1. PICK e \in events : ChargeRefunded(c, e) \/ RefundUpdated(c, e)
        BY <1>4 DEF Webhook
  <2>2. e \in IntentEvent \cup ChargeEvent \cup RefundEvent
        BY DEF TypeInv, TypeOK
  <2>3. CASE ChargeRefunded(c, e)
    <3>1. e.refunds \in Snapshot /\ \A r \in DOMAIN e.refunds : Reached(r, e.refunds[r])
          BY <2>2, <2>3, EventFields DEF ChargeRefunded, TypeInv, EventsReached
    <3>2. QED BY <2>3, <3>1, CallMakes DEF ChargeRefunded, Enter, Moves
  <2>4. CASE RefundUpdated(c, e)
    <3>1. refund[e.refund].payment \in Payment
          BY <2>2, <2>4, EventFields
          DEF RefundUpdated, TypeInv, EventsReached, Reached, TypeOK, StripeRefund
    <3>2. QED BY <2>4, <3>1, CallMakes DEF RefundUpdated, Enter, Moves, Idle
  <2>5. QED BY <2>1, <2>3, <2>4
<1>5. ASSUME NEW c \in Call, AskStripe(c)
      PROVE  \E k \in CallRecord : Moves(c, k)
  <2> DEFINE k(r, status) ==
        [pc |-> "ledger", refund |-> r, payment |-> call[c].payment,
         amount |-> call[c].amount, status |-> RefundStatus(status)]
  <2>1. PICK r \in RefundId, status \in {"succeeded", "pending"} :
          call' = [call EXCEPT ![c] = k(r, status)]
    <3>1. \A r \in RefundId : refund[r] # NoRow => refund[r].answer \in {"succeeded", "pending"}
          BY DEF TypeInv, TypeOK, StripeRefund
    <3>2. QED BY <1>5, <3>1 DEF AskStripe, Step, MadeFor
  <2>2. RefundStatus(status) \in {"PENDING", "SUCCEEDED"}
        BY <2>1 DEF RefundStatus
  <2>3. call[c].payment \in Payment /\ call[c].amount \in Amounts
        BY <1>5, CallFields DEF AskStripe, TypeInv, TypeOK
  <2>4. k(r, status) \in CallRecord
        BY <2>2, <2>3, CallMakes
  <2>5. QED BY <2>1, <2>4 DEF Moves
<1>6. ASSUME NEW c \in Call, MirrorRefund(c)
      PROVE  \E k \in CallRecord : Moves(c, k)
  <2> DEFINE todo == call[c].refunds
  <2>1. /\ todo \in Snapshot
        /\ \A r \in DOMAIN todo : Reached(r, todo[r])
        BY <1>6, CallFields DEF MirrorRefund, TypeInv, TypeOK, MirrorsReached
  <2>2. CASE DOMAIN todo = {}
        BY <1>6, <2>2, CallMakes DEF MirrorRefund, Return, Step, Moves, Idle
  <2>3. ASSUME NEW r \in DOMAIN todo,
               call' = [call EXCEPT ![c] =
                  [pc |-> "mirror", refunds |-> [q \in DOMAIN todo \ {r} |-> todo[q]]]]
        PROVE  \E k \in CallRecord : Moves(c, k)
    <3> DEFINE rest == [q \in DOMAIN todo \ {r} |-> todo[q]]
    <3>1. rest \in Snapshot /\ \A q \in DOMAIN rest : Reached(q, rest[q])
          BY <2>1 DEF Snapshot
    <3> HIDE DEF rest
    <3>2. [pc |-> "mirror", refunds |-> rest] \in CallRecord
          BY <3>1, CallMakes
    <3>3. Moves(c, [pc |-> "mirror", refunds |-> rest])
          BY <2>3, <3>1, <3>2 DEF Moves, rest
    <3>4. QED BY <3>2, <3>3
  <2>4. QED BY <1>6, <2>2, <2>3 DEF MirrorRefund, Step
<1>7. ASSUME NEW c \in Call, SumRefunds(c)
      PROVE  \E k \in CallRecord : Moves(c, k)
  <2>1. call[c].payment \in Payment
        BY <1>7, CallFields DEF SumRefunds, TypeInv, TypeOK
  <2>2. PICK total \in 0..Amount :
          call' = [call EXCEPT ![c] =
                      [pc |-> "write", payment |-> call[c].payment, total |-> total]]
        BY <1>7 DEF SumRefunds, Step
  <2>3. QED BY <2>1, <2>2, CallMakes DEF Moves
<1>8. ASSUME NEW c \in Call,
             RecordPayment(c) \/ RefundTx(c) \/ WriteSum(c) \/ CutOff(c)
      PROVE  Moves(c, Idle)
      BY <1>8, CallMakes DEF RecordPayment, RefundTx, WriteSum, CutOff, Return, Step, Moves, Idle
<1>9. QED BY <1>1, <1>2, <1>3, <1>4, <1>5, <1>6, <1>7, <1>8, CallMakes DEF Next, Continue, vars

-----------------------------------------------------------------------------
(* Nothing speaks of money that Stripe has not taken. *)

EventsPaid ==
    \A e \in events :
        e.type \in {"payment_intent.succeeded", "charge.refunded"} =>
            intent[e.payment] = "succeeded"

RefundsPaid ==
    \A r \in RefundId : refund[r] # NoRow => intent[refund[r].payment] = "succeeded"

(* The handlers that are about to settle a row or to write a total. *)
CallsPaid ==
    \A c \in Call :
        \/ call[c].pc = "record" /\ call[c].status = "SUCCEEDED"
        \/ call[c].pc \in {"ledger", "sum", "write"}
        => intent[call[c].payment] = "succeeded"

PaidInv == EventsPaid /\ RefundsPaid /\ CallsPaid

(* A refund that was asked for is one of a row that was found. *)
CallsHaveRow ==
    \A c \in Call : call[c].pc \in {"stripe", "ledger"} => row[call[c].payment] # NoRow

LedgerInv == TypeInv /\ PaidInv /\ CallsHaveRow

(* A charge that succeeded stays so. *)
LEMMA IntentStays ==
    ASSUME TypeInv, [Next]_vars
    PROVE  /\ intent' \in [Payment -> {"none", "created", "open", "succeeded"}]
           /\ \A p \in Payment : intent[p] = "succeeded" => intent'[p] = "succeeded"
<1>1. CASE StripeStep
      BY <1>1 DEF StripeStep, ClientPays, CardDeclined, DashboardRefund, RefundMoves,
                  TypeInv, TypeOK
<1>2. CASE \E p \in Payment : PaymentSucceeded(p) \/ PaymentFailed(p)
      BY <1>2 DEF PaymentSucceeded, PaymentFailed, stripe, TypeInv, TypeOK
<1>3. CASE \E c \in Call : Request(c)
      BY <1>3 DEF Request, CreateIntent, ChargeFee, RequestRefund, stripe, TypeInv, TypeOK
<1>4. CASE \E c \in Call : Webhook(c)
      BY <1>4 DEF Webhook, ChargeRefunded, RefundUpdated, stripe, TypeInv, TypeOK
<1>5. CASE \E c \in Call : Continue(c)
  <2>1. PICK c \in Call : Continue(c)
        BY <1>5
  <2>2. CASE RecordPayment(c)
        BY <2>2 DEF RecordPayment, TypeInv, TypeOK
  <2>3. CASE AskStripe(c)
        BY <2>3 DEF AskStripe, stripe, TypeInv, TypeOK
  <2>4. CASE RefundTx(c) \/ MirrorRefund(c) \/ SumRefunds(c) \/ WriteSum(c) \/ CutOff(c)
        BY <2>4 DEF RefundTx, MirrorRefund, SumRefunds, WriteSum, CutOff, stripe, TypeInv, TypeOK
  <2>5. QED BY <2>1, <2>2, <2>3, <2>4 DEF Continue
<1>6. CASE UNCHANGED vars
      BY <1>6 DEF vars, TypeInv, TypeOK
<1>7. QED BY <1>1, <1>2, <1>3, <1>4, <1>5, <1>6 DEF Next

(* The ways a step changes the payment rows, and what it needs for each. *)
RowMoves ==
    \/ UNCHANGED row
    \/ \E p \in Payment, status \in {"PENDING", "FAILED", "SUCCEEDED"} :
         /\ row[p] = NoRow
         /\ row' = [row EXCEPT ![p] = [status |-> status, refunded |-> 0]]
         /\ status = "SUCCEEDED" => intent[p] = "succeeded"
    \/ \E p \in Payment :
         /\ row[p] # NoRow /\ row[p].status \in {"PENDING", "FAILED"}
         /\ row' = [row EXCEPT ![p].status = "SUCCEEDED"]
         /\ intent[p] = "succeeded"
    \/ \E p \in Payment :
         /\ row[p] # NoRow /\ row[p].status = "PENDING"
         /\ row' = [row EXCEPT ![p].status = "FAILED"]
    \/ \E p \in Payment, total \in Nat :
         /\ SetTotal(p, total)
         /\ intent[p] = "succeeded"

LEMMA RowStep ==
    ASSUME LedgerInv, [Next]_vars
    PROVE  RowMoves
<1>1. CASE StripeStep
      BY <1>1 DEF StripeStep, ClientPays, CardDeclined, DashboardRefund, RefundMoves,
                  ledger, RowMoves
<1>2. ASSUME NEW p \in Payment, PaymentSucceeded(p)
      PROVE  RowMoves
  <2>1. intent[p] = "succeeded"
        BY <1>2 DEF PaymentSucceeded, Sent, LedgerInv, PaidInv, EventsPaid
  <2>2. QED BY <1>2, <2>1 DEF PaymentSucceeded, RowMoves
<1>3. ASSUME NEW p \in Payment, PaymentFailed(p)
      PROVE  RowMoves
      BY <1>3 DEF PaymentFailed, RowMoves
<1>4. CASE \E c \in Call : Request(c)
      BY <1>4 DEF Request, CreateIntent, ChargeFee, RequestRefund, ledger, RowMoves
<1>5. ASSUME NEW c \in Call, Webhook(c)
      PROVE  RowMoves
  <2>1. PICK e \in events : ChargeRefunded(c, e) \/ RefundUpdated(c, e)
        BY <1>5 DEF Webhook
  <2>2. CASE ChargeRefunded(c, e)
    <3>1. e.payment \in Payment /\ e.total \in Nat
          BY <2>2, EventFields, LedgerAssumption
          DEF ChargeRefunded, LedgerInv, TypeInv, TypeOK, Amounts
    <3>2. intent[e.payment] = "succeeded"
          BY <2>2 DEF ChargeRefunded, LedgerInv, PaidInv, EventsPaid
    <3>3. QED BY <2>2, <3>1, <3>2 DEF ChargeRefunded, RowMoves
  <2>3. CASE RefundUpdated(c, e)
        BY <2>3 DEF RefundUpdated, RowMoves
  <2>4. QED BY <2>1, <2>2, <2>3
<1>6. ASSUME NEW c \in Call, RecordPayment(c)
      PROVE  RowMoves
  <2>1. /\ call[c].payment \in Payment
        /\ call[c].status \in {"PENDING", "FAILED", "SUCCEEDED"}
        BY <1>6, CallFields DEF RecordPayment, LedgerInv, TypeInv, TypeOK
  <2>2. call[c].status = "SUCCEEDED" => intent[call[c].payment] = "succeeded"
        BY <1>6 DEF RecordPayment, LedgerInv, PaidInv, CallsPaid
  <2>3. QED BY <1>6, <2>1, <2>2 DEF RecordPayment, RowMoves
<1>7. ASSUME NEW c \in Call, RefundTx(c)
      PROVE  RowMoves
  <2> DEFINE p == call[c].payment
  <2>1. p \in Payment /\ call[c].amount \in Nat /\ intent[p] = "succeeded"
        BY <1>7, CallFields, LedgerAssumption
        DEF RefundTx, LedgerInv, TypeInv, TypeOK, PaidInv, CallsPaid, Amounts
  <2>2. UNCHANGED row \/ SetTotal(p, row[p].refunded + call[c].amount)
        BY <1>7 DEF RefundTx, AddToTotal, ledger
  <2>3. row[p] # NoRow
        BY <1>7 DEF RefundTx, LedgerInv, CallsHaveRow
  <2>4. row[p].refunded \in Nat
        BY <2>1, <2>3 DEF LedgerInv, TypeInv, TypeOK, PaymentRow
  <2>5. row[p].refunded + call[c].amount \in Nat
        BY <2>1, <2>4
  <2>6. QED BY <2>1, <2>2, <2>5 DEF RowMoves
<1>8. ASSUME NEW c \in Call, WriteSum(c)
      PROVE  RowMoves
  <2>1. /\ call[c].payment \in Payment
        /\ call[c].total \in Nat
        /\ intent[call[c].payment] = "succeeded"
        BY <1>8, CallFields, LedgerAssumption
        DEF WriteSum, LedgerInv, TypeInv, TypeOK, PaidInv, CallsPaid
  <2>2. QED BY <1>8, <2>1 DEF WriteSum, RowMoves
<1>9. CASE \E c \in Call : AskStripe(c) \/ MirrorRefund(c) \/ SumRefunds(c) \/ CutOff(c)
      BY <1>9 DEF AskStripe, MirrorRefund, SumRefunds, CutOff, ledger, RowMoves
<1>10. CASE UNCHANGED vars
      BY <1>10 DEF vars, RowMoves
<1>11. QED BY <1>1, <1>2, <1>3, <1>4, <1>5, <1>6, <1>7, <1>8, <1>9, <1>10 DEF Next, Continue

(* Payment rows keep their type, and a row that is there stays there; one that *)
(* is settled stays settled.                                                   *)
LEMMA RowsStay ==
    ASSUME TypeOK, RowMoves
    PROVE  /\ row' \in [Payment -> PaymentRow \cup {NoRow}]
           /\ \A p \in Payment : row[p] # NoRow =>
                /\ row'[p] # NoRow
                /\ row[p].status \in Settled => row'[p].status \in Settled
<1>1. CASE UNCHANGED row
      BY <1>1 DEF TypeOK
<1>2. ASSUME NEW p \in Payment, NEW new \in PaymentRow, row' = [row EXCEPT ![p] = new],
             row[p] # NoRow /\ row[p].status \in Settled => new.status \in Settled
      PROVE  /\ row' \in [Payment -> PaymentRow \cup {NoRow}]
             /\ \A q \in Payment : row[q] # NoRow =>
                  /\ row'[q] # NoRow
                  /\ row[q].status \in Settled => row'[q].status \in Settled
  <2>1. new # NoRow
        BY LedgerAssumption
  <2>2. QED BY <1>2, <2>1 DEF TypeOK
<1>3. ASSUME NEW p \in Payment, NEW status \in {"PENDING", "FAILED", "SUCCEEDED"},
             row[p] = NoRow,
             row' = [row EXCEPT ![p] = [status |-> status, refunded |-> 0]]
      PROVE  \E new \in PaymentRow :
                /\ row' = [row EXCEPT ![p] = new]
                /\ row[p] # NoRow /\ row[p].status \in Settled => new.status \in Settled
      BY <1>3 DEF PaymentRow, Settled
<1>4. ASSUME NEW p \in Payment, NEW status \in {"SUCCEEDED", "FAILED"},
             row[p] # NoRow, row[p].status \in {"PENDING", "FAILED"},
             row' = [row EXCEPT ![p].status = status]
      PROVE  \E new \in PaymentRow :
                /\ row' = [row EXCEPT ![p] = new]
                /\ row[p] # NoRow /\ row[p].status \in Settled => new.status \in Settled
  <2>1. row[p] \in PaymentRow
        BY <1>4 DEF TypeOK
  <2>2. [row[p] EXCEPT !.status = status] \in PaymentRow
        BY <2>1 DEF PaymentRow, Settled
  <2>3. row[p].status \notin Settled
        BY <1>4 DEF Settled
  <2>4. QED BY <1>4, <2>2, <2>3
<1>5. ASSUME NEW p \in Payment, NEW total \in Nat, SetTotal(p, total)
      PROVE  \E new \in PaymentRow :
                /\ row' = [row EXCEPT ![p] = new]
                /\ row[p] # NoRow /\ row[p].status \in Settled => new.status \in Settled
  <2> DEFINE new == [status |-> RefundedStatus(total), refunded |-> total]
  <2>1. RefundedStatus(total) \in Settled
        BY DEF RefundedStatus, Settled
  <2>2. new \in PaymentRow /\ new.status \in Settled
        BY <2>1 DEF PaymentRow
  <2>3. row' = [row EXCEPT ![p] = new]
        BY <1>5 DEF SetTotal
  <2>4. QED BY <2>2, <2>3
<1>6. CASE \E p \in Payment, new \in PaymentRow :
              /\ row' = [row EXCEPT ![p] = new]
              /\ row[p] # NoRow /\ row[p].status \in Settled => new.status \in Settled
      BY <1>2, <1>6
<1>7. QED BY <1>1, <1>3, <1>4, <1>5, <1>6 DEF RowMoves

(* Refund rows keep their type. *)
LEMMA RefundRowsStay ==
    ASSUME TypeInv, [Next]_vars
    PROVE  refundRow' \in [RefundId -> RefundRow \cup {NoRow}]
<1>1. CASE UNCHANGED refundRow
      BY <1>1 DEF TypeInv, TypeOK
<1>2. ASSUME NEW c \in Call, RefundTx(c)
      PROVE  refundRow' \in [RefundId -> RefundRow \cup {NoRow}]
  <2>1. /\ call[c].refund \in RefundId /\ call[c].payment \in Payment
        /\ call[c].amount \in Amounts /\ call[c].status \in {"PENDING", "SUCCEEDED"}
        BY <1>2, CallFields DEF RefundTx, TypeInv, TypeOK
  <2>2. [payment |-> call[c].payment, amount |-> call[c].amount, status |-> call[c].status]
          \in RefundRow
        BY <2>1 DEF RefundRow
  <2>3. QED BY <1>2, <2>1, <2>2 DEF RefundTx, ledger, TypeInv, TypeOK
<1>3. ASSUME NEW c \in Call, MirrorRefund(c)
      PROVE  refundRow' \in [RefundId -> RefundRow \cup {NoRow}]
  <2>1. \A r \in DOMAIN call[c].refunds : r \in RefundId /\ refund[r] # NoRow
        BY <1>3, CallFields
        DEF MirrorRefund, TypeInv, TypeOK, MirrorsReached, Reached, Snapshot
  <2>2. QED BY <1>3, <2>1, <1>1, UpsertType DEF MirrorRefund, TypeInv
<1>4. ASSUME NEW c \in Call, NEW e \in events, RefundUpdated(c, e)
      PROVE  refundRow' \in [RefundId -> RefundRow \cup {NoRow}]
  <2>1. e.refund \in RefundId /\ refund[e.refund] # NoRow
        BY <1>4, EventFields DEF RefundUpdated, TypeInv, TypeOK, EventsReached, Reached
  <2>2. QED BY <1>4, <2>1, UpsertType DEF RefundUpdated, TypeInv
<1>5. CASE StripeStep
      BY <1>1, <1>5 DEF StripeStep, ClientPays, CardDeclined, DashboardRefund, RefundMoves, ledger
<1>6. CASE \E p \in Payment : PaymentSucceeded(p) \/ PaymentFailed(p)
      BY <1>1, <1>6 DEF PaymentSucceeded, PaymentFailed
<1>7. CASE \E c \in Call : Request(c)
      BY <1>1, <1>7 DEF Request, CreateIntent, ChargeFee, RequestRefund, ledger
<1>8. CASE \E c \in Call, e \in events : ChargeRefunded(c, e)
      BY <1>1, <1>8 DEF ChargeRefunded
<1>9. CASE \E c \in Call : \/ RecordPayment(c) \/ AskStripe(c) \/ SumRefunds(c)
                           \/ WriteSum(c) \/ CutOff(c)
      BY <1>1, <1>9 DEF RecordPayment, AskStripe, SumRefunds, WriteSum, CutOff, ledger
<1>10. CASE UNCHANGED vars
      BY <1>1, <1>10 DEF vars
<1>11. QED BY <1>2, <1>3, <1>4, <1>5, <1>6, <1>7, <1>8, <1>9, <1>10
          DEF Next, Webhook, Continue

(* Money that an event or a refund speaks of was taken. *)
LEMMA StripePaid ==
    ASSUME LedgerInv, [Next]_vars
    PROVE  EventsPaid' /\ RefundsPaid'
<1>1. RefundsPaid'
  <2>1. CASE UNCHANGED refund
        BY <2>1, IntentStays
        DEF RefundsPaid, LedgerInv, PaidInv, TypeInv, TypeOK, StripeRefund
  <2>2. ASSUME NEW p \in Payment, NEW r \in RefundId, NEW amount \in Amounts,
               NEW key \in (Payment \X Amounts \X Nat) \cup {NoRow},
               NEW status \in {"succeeded", "pending"},
               MakeRefund(p, r, amount, key, status)
        PROVE  RefundsPaid'
    <3>1. /\ intent[p] = "succeeded"
          /\ refund' = [refund EXCEPT ![r] =
                           [payment |-> p, amount |-> amount, key |-> key,
                            status |-> status, answer |-> status]]
          BY <2>2 DEF MakeRefund
    <3>2. QED BY <3>1, IntentStays
              DEF RefundsPaid, LedgerInv, PaidInv, TypeInv, TypeOK, StripeRefund
  <2>3. ASSUME NEW r \in RefundId, NEW status \in {"succeeded", "failed"}, RefundMoves(r, status)
        PROVE  RefundsPaid'
    <3>1. refund[r] # NoRow /\ refund' = [refund EXCEPT ![r].status = status]
          BY <2>3 DEF RefundMoves
    <3>2. refund[r] \in StripeRefund
          BY <3>1 DEF LedgerInv, TypeInv, TypeOK
    <3>3. [refund[r] EXCEPT !.status = status].payment = refund[r].payment
          BY <3>2 DEF StripeRefund
    <3>4. /\ refund'[r].payment = refund[r].payment
          /\ \A q \in RefundId \ {r} : refund'[q] = refund[q]
          BY <3>1, <3>3 DEF LedgerInv, TypeInv, TypeOK
    <3>5. \A q \in RefundId : refund[q] # NoRow => refund[q].payment \in Payment
          BY DEF LedgerInv, TypeInv, TypeOK, StripeRefund
    <3>6. QED BY <3>1, <3>4, <3>5, IntentStays DEF RefundsPaid, LedgerInv, PaidInv
  <2>4. QED BY <2>1, <2>2, <2>3, StripeSide DEF RefundStep, LedgerInv, TypeInv
<1> SUFFICES EventsPaid'
    BY <1>1
<1> DEFINE Paid(e) == e.type \in {"payment_intent.succeeded", "charge.refunded"} =>
                          intent'[e.payment] = "succeeded"
<1>2. \A e \in events : Paid(e)
  <2>1. \A e \in events : e \in IntentEvent \cup ChargeEvent \cup RefundEvent
        BY DEF LedgerInv, TypeInv, TypeOK
  <2>2. QED BY <2>1, EventFields, IntentStays DEF LedgerInv, PaidInv, EventsPaid
<1>3. CASE events' = events
      BY <1>2, <1>3 DEF EventsPaid
<1>4. ASSUME NEW e, events' = events \cup {e}, Paid(e)
      PROVE  EventsPaid'
      BY <1>2, <1>4 DEF EventsPaid
<1>5. ASSUME NEW p \in Payment, NEW r \in RefundId, NEW amount \in Amounts, NEW key,
             NEW status, MakeRefund(p, r, amount, key, status)
      PROVE  EventsPaid'
  <2>1. PICK total, f : events' = events \cup {[type |-> "charge.refunded", payment |-> p,
                                                 total |-> total, refunds |-> f]}
        BY <1>5 DEF MakeRefund
  <2>2. intent'[p] = "succeeded"
        BY <1>5, IntentStays DEF MakeRefund, LedgerInv
  <2>3. QED BY <1>4, <2>1, <2>2
<1>6. CASE StripeStep
  <2>1. ASSUME NEW p \in Payment, ClientPays(p)
        PROVE  EventsPaid'
        BY <1>4, <2>1 DEF ClientPays, Sent, LedgerInv, TypeInv, TypeOK
  <2>2. ASSUME NEW p \in Payment, CardDeclined(p)
        PROVE  EventsPaid'
        BY <1>4, <2>2 DEF CardDeclined, Sent
  <2>3. ASSUME NEW p \in Payment, NEW r \in RefundId, NEW amount \in Amounts,
               DashboardRefund(p, r, amount)
        PROVE  EventsPaid'
        BY <1>5, <2>3 DEF DashboardRefund
  <2>4. ASSUME NEW r \in RefundId, NEW status, RefundMoves(r, status)
        PROVE  EventsPaid'
        BY <1>4, <2>4 DEF RefundMoves
  <2>5. CASE \E p \in Payment :
                \/ ClientPays(p)
                \/ CardDeclined(p)
                \/ \E r \in RefundId, amount \in Amounts : DashboardRefund(p, r, amount)
        BY <2>1, <2>2, <2>3, <2>5
  <2>6. CASE \E r \in RefundId : RefundMoves(r, "succeeded") \/ RefundMoves(r, "failed")
        BY <2>4, <2>6
  <2>7. QED BY <1>6, <2>5, <2>6 DEF StripeStep
<1>7. ASSUME NEW c \in Call, NEW p \in Payment, ChargeFee(c, p)
      PROVE  EventsPaid'
  <2>1. CASE kind[p] = "fee"
        BY <1>4, <1>7, <2>1 DEF ChargeFee, Sent, LedgerInv, TypeInv, TypeOK
  <2>2. CASE kind[p] # "fee"
        BY <1>3, <1>7, <2>2 DEF ChargeFee
  <2>3. QED BY <2>1, <2>2
<1>8. ASSUME NEW c \in Call, AskStripe(c)
      PROVE  EventsPaid'
  <2>1. call[c].payment \in Payment /\ call[c].amount \in Amounts
        BY <1>8, CallFields DEF AskStripe, LedgerInv, TypeInv, TypeOK
  <2>2. \/ UNCHANGED stripe
        \/ \E r \in RefundId, status \in {"succeeded", "pending"} :
             MakeRefund(call[c].payment, r, call[c].amount,
                        IdempotencyKey(call[c].payment, call[c].amount, call[c].seen), status)
        BY <1>8 DEF AskStripe
  <2>3. QED BY <1>3, <1>5, <2>1, <2>2 DEF stripe
<1>9. CASE \E c \in Call, p \in Payment :
              \/ CreateIntent(c, p)
              \/ \E amount \in Amounts : RequestRefund(c, p, amount)
      BY <1>3, <1>9 DEF CreateIntent, RequestRefund, stripe
<1>10. CASE \E p \in Payment : PaymentSucceeded(p) \/ PaymentFailed(p)
      BY <1>3, <1>10 DEF PaymentSucceeded, PaymentFailed, stripe
<1>11. CASE \E c \in Call : Webhook(c)
      BY <1>3, <1>11 DEF Webhook, ChargeRefunded, RefundUpdated, stripe
<1>12. CASE \E c \in Call : \/ RecordPayment(c) \/ RefundTx(c) \/ MirrorRefund(c)
                            \/ SumRefunds(c) \/ WriteSum(c) \/ CutOff(c)
      BY <1>3, <1>12 DEF RecordPayment, RefundTx, MirrorRefund, SumRefunds, WriteSum,
                         CutOff, stripe
<1>13. CASE UNCHANGED vars
      BY <1>3, <1>13 DEF vars
<1>14. QED BY <1>6, <1>7, <1>8, <1>9, <1>10, <1>11, <1>12, <1>13 DEF Next, Request, Continue

(* A handler that is about to write money writes money that was taken, and a   *)
(* refund is asked for a row that is there.                                    *)
Vouched(k) ==
    /\ \/ k.pc = "record" /\ k.status = "SUCCEEDED"
       \/ k.pc \in {"ledger", "sum", "write"}
       => intent'[k.payment] = "succeeded"
    /\ k.pc \in {"stripe", "ledger"} => k.payment \in Payment /\ row[k.payment] # NoRow

LEMMA CallsVouched ==
    ASSUME LedgerInv, [Next]_vars,
           \/ UNCHANGED call
           \/ \E c \in Call : \E k : call' = [call EXCEPT ![c] = k] /\ Vouched(k)
    PROVE  CallsPaid' /\ CallsHaveRow'
<1>1. \A c \in Call : call[c] \in CallRecord
      BY DEF LedgerInv, TypeInv, TypeOK
<1>2. \A p \in Payment : /\ intent[p] = "succeeded" => intent'[p] = "succeeded"
                         /\ row[p] # NoRow => row'[p] # NoRow
      BY IntentStays, RowStep, RowsStay DEF LedgerInv, TypeInv
<1>3. \A c \in Call :
        /\ \/ call[c].pc = "record" /\ call[c].status = "SUCCEEDED"
           \/ call[c].pc \in {"ledger", "sum", "write"}
           => intent'[call[c].payment] = "succeeded"
        /\ call[c].pc \in {"stripe", "ledger"} => row'[call[c].payment] # NoRow
      BY <1>1, <1>2, CallFields DEF LedgerInv, PaidInv, CallsPaid, CallsHaveRow
<1>4. CASE UNCHANGED call
      BY <1>3, <1>4 DEF CallsPaid, CallsHaveRow
<1>5. ASSUME NEW c \in Call, NEW k, call' = [call EXCEPT ![c] = k], Vouched(k)
      PROVE  CallsPaid' /\ CallsHaveRow'
  <2>1. call'[c] = k /\ \A d \in Call \ {c} : call'[d] = call[d]
        BY <1>5 DEF LedgerInv, TypeInv, TypeOK
  <2>2. k.pc \in {"stripe", "ledger"} => row'[k.payment] # NoRow
        BY <1>2, <1>5 DEF Vouched
  <2>3. CallsPaid'
        BY <1>3, <1>5, <2>1 DEF CallsPaid, Vouched
  <2>4. CallsHaveRow'
        BY <1>3, <2>1, <2>2 DEF CallsHaveRow
  <2>5. QED BY <2>3, <2>4
<1>6. QED BY <1>4, <1>5

LEMMA VouchedStep ==
    ASSUME LedgerInv, [Next]_vars
    PROVE  \/ UNCHANGED call
           \/ \E c \in Call : \E k : call' = [call EXCEPT ![c] = k] /\ Vouched(k)
<1>1. CASE StripeStep
      BY <1>1 DEF StripeStep, ClientPays, CardDeclined, DashboardRefund, RefundMoves
<1>2. CASE \E p \in Payment : PaymentSucceeded(p) \/ PaymentFailed(p)
      BY <1>2 DEF PaymentSucceeded, PaymentFailed
<1>3. ASSUME NEW c \in Call, NEW p \in Payment, CreateIntent(c, p)
      PROVE  \E k : call' = [call EXCEPT ![c] = k] /\ Vouched(k)
  <2> DEFINE k == [pc |-> "record", payment |-> p, status |-> "PENDING"]
  <2>1. call' = [call EXCEPT ![c] = k]
        BY <1>3 DEF CreateIntent, Enter
  <2>2. Vouched(k)
        BY DEF Vouched
  <2>3. QED BY <2>1, <2>2
<1>4. ASSUME NEW c \in Call, NEW p \in Payment, ChargeFee(c, p)
      PROVE  \E k : call' = [call EXCEPT ![c] = k] /\ Vouched(k)
  <2>1. PICK s \in {"FAILED", "SUCCEEDED"} :
           /\ call' = [call EXCEPT ![c] = [pc |-> "record", payment |-> p, status |-> s]]
           /\ s = "SUCCEEDED" => intent'[p] = "succeeded"
        BY <1>4, FeeCall DEF LedgerInv, TypeInv
  <2>2. Vouched([pc |-> "record", payment |-> p, status |-> s])
        BY <2>1 DEF Vouched
  <2>3. QED BY <2>1, <2>2
<1>5. ASSUME NEW c \in Call, NEW p \in Payment, NEW amount \in Amounts,
             RequestRefund(c, p, amount)
      PROVE  \E k : call' = [call EXCEPT ![c] = k] /\ Vouched(k)
  <2> DEFINE k == [pc |-> "stripe", payment |-> p, amount |-> amount,
                   seen |-> row[p].refunded]
  <2>1. call' = [call EXCEPT ![c] = k] /\ row[p] # NoRow
        BY <1>5 DEF RequestRefund, Enter
  <2>2. Vouched(k)
        BY <2>1 DEF Vouched
  <2>3. QED BY <2>1, <2>2
<1>6. ASSUME NEW c \in Call, NEW e \in events, ChargeRefunded(c, e)
      PROVE  \E k : call' = [call EXCEPT ![c] = k] /\ Vouched(k)
  <2> DEFINE k == [pc |-> "mirror", refunds |-> e.refunds]
  <2>1. call' = [call EXCEPT ![c] = k]
        BY <1>6 DEF ChargeRefunded, Enter
  <2>2. Vouched(k)
        BY DEF Vouched
  <2>3. QED BY <2>1, <2>2
<1>7. ASSUME NEW c \in Call, NEW e \in events, RefundUpdated(c, e)
      PROVE  \E k : call' = [call EXCEPT ![c] = k] /\ Vouched(k)
  <2>1. e.refund \in RefundId /\ refund[e.refund] # NoRow
        BY <1>7, EventFields DEF RefundUpdated, LedgerInv, TypeInv, TypeOK, EventsReached, Reached
  <2>2. intent'[refund[e.refund].payment] = "succeeded"
        BY <1>7, <2>1 DEF RefundUpdated, stripe, LedgerInv, PaidInv, RefundsPaid
  <2> DEFINE k == IF e.status = "succeeded"
                  THEN [pc |-> "sum", payment |-> refund[e.refund].payment]
                  ELSE Idle
  <2>3. call' = [call EXCEPT ![c] = k]
        BY <1>7 DEF RefundUpdated, Enter
  <2>4. Vouched(k)
        BY <2>2 DEF Vouched, Idle
  <2>5. QED BY <2>3, <2>4
<1>8. ASSUME NEW c \in Call, AskStripe(c)
      PROVE  \E k : call' = [call EXCEPT ![c] = k] /\ Vouched(k)
  <2>1. /\ call[c].payment \in Payment
        /\ row[call[c].payment] # NoRow
        BY <1>8, CallFields DEF AskStripe, LedgerInv, TypeInv, TypeOK, CallsHaveRow
  <2>2. intent[call[c].payment] = "succeeded" /\ intent' = intent
        BY <1>8 DEF AskStripe, MadeFor, MakeRefund, stripe, LedgerInv, PaidInv, RefundsPaid
  <2>3. PICK k : /\ call' = [call EXCEPT ![c] = k]
                 /\ k.pc = "ledger" /\ k.payment = call[c].payment
        BY <1>8 DEF AskStripe, Step
  <2>4. Vouched(k)
        BY <2>1, <2>2, <2>3 DEF Vouched
  <2>5. QED BY <2>3, <2>4
<1>9. ASSUME NEW c \in Call, MirrorRefund(c)
      PROVE  \E k : call' = [call EXCEPT ![c] = k] /\ Vouched(k)
      BY <1>9 DEF MirrorRefund, Return, Step, Idle, Vouched
<1>10. ASSUME NEW c \in Call, SumRefunds(c)
      PROVE  \E k : call' = [call EXCEPT ![c] = k] /\ Vouched(k)
  <2>1. intent'[call[c].payment] = "succeeded"
        BY <1>10 DEF SumRefunds, stripe, LedgerInv, PaidInv, CallsPaid
  <2>2. QED BY <1>10, <2>1 DEF SumRefunds, Step, Vouched
<1>11. ASSUME NEW c \in Call, RecordPayment(c) \/ RefundTx(c) \/ WriteSum(c) \/ CutOff(c)
      PROVE  \E k : call' = [call EXCEPT ![c] = k] /\ Vouched(k)
      BY <1>11 DEF RecordPayment, RefundTx, WriteSum, CutOff, Return, Step, Idle, Vouched
<1>12. QED BY <1>1, <1>2, <1>3, <1>4, <1>5, <1>6, <1>7, <1>8, <1>9, <1>10, <1>11
           DEF Next, Request, Webhook, Continue, vars

-----------------------------------------------------------------------------
(* The inductive invariant, and what follows from it *)

LEMMA LedgerInit == Init => LedgerInv
BY LedgerAssumption
DEF Init, LedgerInv, TypeInv, TypeOK, EventsReached, MirrorsReached, PaidInv, EventsPaid,
    RefundsPaid, CallsPaid, CallsHaveRow, CallRecord, Idle

(* The history variable collects payments, and the kind of a charge is fixed. *)
LEMMA TouchedType ==
    ASSUME TypeInv, [Next]_vars
    PROVE  kind' = kind /\ reconciled' \subseteq Payment
<1>1. ASSUME NEW c \in Call, NEW e \in events, ChargeRefunded(c, e)
      PROVE  kind' = kind /\ reconciled' \subseteq Payment
  <2>1. e.payment \in Payment
        BY <1>1, EventFields DEF ChargeRefunded, TypeInv, TypeOK
  <2>2. QED BY <1>1, <2>1 DEF ChargeRefunded, stripe, TypeInv, TypeOK
<1>2. ASSUME NEW c \in Call, NEW e \in events, RefundUpdated(c, e)
      PROVE  kind' = kind /\ reconciled' \subseteq Payment
  <2>1. refund[e.refund].payment \in Payment
        BY <1>2, EventFields
        DEF RefundUpdated, TypeInv, TypeOK, EventsReached, Reached, StripeRefund
  <2>2. QED BY <1>2, <2>1 DEF RefundUpdated, stripe, TypeInv, TypeOK
<1>3. CASE kind' = kind /\ reconciled' = reconciled
      BY <1>3 DEF TypeInv, TypeOK
<1>4. CASE StripeStep
      BY <1>3, <1>4 DEF StripeStep, ClientPays, CardDeclined, DashboardRefund, RefundMoves
<1>5. CASE \E p \in Payment : PaymentSucceeded(p) \/ PaymentFailed(p)
      BY <1>3, <1>5 DEF PaymentSucceeded, PaymentFailed, stripe
<1>6. CASE \E c \in Call : Request(c)
      BY <1>3, <1>6 DEF Request, CreateIntent, ChargeFee, RequestRefund, stripe
<1>7. CASE \E c \in Call : Continue(c)
  <2>1. CASE \E c \in Call : AskStripe(c)
        BY <1>3, <2>1 DEF AskStripe, stripe
  <2>2. CASE \E c \in Call : \/ RecordPayment(c) \/ RefundTx(c) \/ MirrorRefund(c)
                             \/ SumRefunds(c) \/ WriteSum(c) \/ CutOff(c)
        BY <1>3, <2>2 DEF RecordPayment, RefundTx, MirrorRefund, SumRefunds, WriteSum,
                          CutOff, stripe
  <2>3. QED BY <1>7, <2>1, <2>2 DEF Continue
<1>8. CASE UNCHANGED vars
      BY <1>3, <1>8 DEF vars
<1>9. QED BY <1>1, <1>2, <1>4, <1>5, <1>6, <1>7, <1>8 DEF Next, Webhook

LEMMA LedgerNext == LedgerInv /\ [Next]_vars => LedgerInv'
<1> SUFFICES ASSUME LedgerInv, [Next]_vars
             PROVE  LedgerInv'
    OBVIOUS
<1>1. TypeInv
      BY DEF LedgerInv
<1>2. kind' \in [Payment -> Kinds] /\ reconciled' \subseteq Payment
      BY <1>1, TouchedType DEF TypeInv, TypeOK
<1>3. TypeOK'
      BY <1>1, <1>2, StripeSide, ReachedStays, EventsStay, CallStep, CallsStay, IntentStays,
         RowStep, RowsStay, RefundRowsStay
      DEF TypeInv, TypeOK
<1>4. EventsReached' /\ MirrorsReached'
      BY <1>1, StripeSide, EventsStay, CallStep, CallsStay DEF TypeInv
<1>5. PaidInv' /\ CallsHaveRow'
      BY StripePaid, VouchedStep, CallsVouched DEF PaidInv
<1>6. QED BY <1>3, <1>4, <1>5 DEF LedgerInv, TypeInv

(* Every row and handler keeps its type, for any number of charges, refunds   *)
(* and handlers, and whatever the sums are.                                   *)
THEOREM TypeSafety == Spec => []TypeOK
<1>1. LedgerInv => TypeOK
      BY DEF LedgerInv, TypeInv
<1>2. QED BY <1>1, LedgerInit, LedgerNext, PTL DEF Spec

(* The invariant in use: it holds in every state. *)
LEMMA LedgerAlways == Spec => []LedgerInv
BY LedgerInit, LedgerNext, PTL DEF Spec

(* A settled payment row is one whose charge Stripe has taken, whatever the   *)
(* order in which events are delivered, repeated or cut off.                  *)
THEOREM PaidSafety == Spec => []SettledIsPaid
<1>1. Init => SettledIsPaid
      BY DEF Init, SettledIsPaid
<1>2. LedgerInv /\ SettledIsPaid /\ [Next]_vars => SettledIsPaid'
  <2> SUFFICES ASSUME LedgerInv, SettledIsPaid, [Next]_vars,
                      NEW p \in Payment, row'[p] # NoRow, row'[p].status \in Settled
               PROVE  intent'[p] = "succeeded"
      BY DEF SettledIsPaid
  <2>1. intent[p] = "succeeded" => intent'[p] = "succeeded"
        BY IntentStays DEF LedgerInv
  <2>2. row \in [Payment -> PaymentRow \cup {NoRow}]
        BY DEF LedgerInv, TypeInv, TypeOK
  <2>3. CASE row'[p] = row[p]
        BY <2>1, <2>3 DEF SettledIsPaid
  <2>4. ASSUME row'[p] # row[p]
        PROVE  intent[p] = "succeeded"
    <3>1. \A q \in Payment : row[q] # NoRow => row[q] \in PaymentRow
          BY <2>2
    <3>2. QED BY <2>2, <2>4, <3>1, RowStep DEF RowMoves, SetTotal, Settled, PaymentRow
  <2>5. QED BY <2>1, <2>3, <2>4
<1>3. QED BY <1>1, <1>2, LedgerAlways, PTL DEF Spec

(* The status and the total of a payment row always say the same. *)
THEOREM StatusSafety == Spec => []StatusMatchesTotal
<1>1. Init => StatusMatchesTotal
      BY DEF Init, StatusMatchesTotal
<1>2. LedgerInv /\ StatusMatchesTotal /\ [Next]_vars => StatusMatchesTotal'
  <2> SUFFICES ASSUME LedgerInv, StatusMatchesTotal, [Next]_vars
               PROVE  StatusMatchesTotal'
      OBVIOUS
  <2> DEFINE Agree(new) == IF new.status \in {"PENDING", "FAILED", "SUCCEEDED"}
                           THEN new.refunded = 0
                           ELSE new.status = RefundedStatus(new.refunded)
  <2>1. row \in [Payment -> PaymentRow \cup {NoRow}]
        BY DEF LedgerInv, TypeInv, TypeOK
  <2>2. CASE UNCHANGED row
        BY <2>2 DEF StatusMatchesTotal
  <2>3. ASSUME NEW p \in Payment, NEW new, row' = [row EXCEPT ![p] = new], Agree(new)
        PROVE  StatusMatchesTotal'
        BY <2>1, <2>3 DEF StatusMatchesTotal
  <2>4. ASSUME NEW p \in Payment, NEW status \in {"PENDING", "FAILED", "SUCCEEDED"},
               row' = [row EXCEPT ![p] = [status |-> status, refunded |-> 0]]
        PROVE  StatusMatchesTotal'
        BY <2>3, <2>4
  <2>5. ASSUME NEW p \in Payment, NEW status \in {"SUCCEEDED", "FAILED"},
               row[p] # NoRow, row[p].status \in {"PENDING", "FAILED"},
               row' = [row EXCEPT ![p].status = status]
        PROVE  StatusMatchesTotal'
    <3> DEFINE new == [row[p] EXCEPT !.status = status]
    <3>1. row[p] \in PaymentRow /\ row[p].refunded = 0
          BY <2>1, <2>5 DEF StatusMatchesTotal
    <3>2. new.status = status /\ new.refunded = 0
          BY <3>1 DEF PaymentRow
    <3>3. row' = [row EXCEPT ![p] = new]
          BY <2>5
    <3> HIDE DEF new
    <3>4. QED BY <2>3, <3>2, <3>3
  <2>6. ASSUME NEW p \in Payment, NEW total \in Nat, SetTotal(p, total)
        PROVE  StatusMatchesTotal'
    <3> DEFINE new == [status |-> RefundedStatus(total), refunded |-> total]
    <3>1. row' = [row EXCEPT ![p] = new]
          BY <2>6 DEF SetTotal
    <3>2. Agree(new)
          BY DEF RefundedStatus
    <3>3. QED BY <2>3, <3>1, <3>2
  <2>7. QED BY RowStep, <2>2, <2>4, <2>5, <2>6 DEF RowMoves
<1>3. QED BY <1>1, <1>2, LedgerAlways, PTL DEF Spec

(* No step takes a settled payment back to PENDING or FAILED. *)
THEOREM SettledSafety == Spec => SettledStaysSettled
<1>1. LedgerInv /\ [Next]_vars =>
        [\A p \in Payment :
            row[p] # NoRow /\ row[p].status \in Settled =>
                row'[p] # NoRow /\ row'[p].status \in Settled]_vars
      BY RowStep, RowsStay DEF LedgerInv, TypeInv
<1>2. QED BY <1>1, LedgerAlways, PTL DEF Spec, SettledStaysSettled

-----------------------------------------------------------------------------
(* Refund rows and the refunds of Stripe *)

(* A refund was made for the amount in its key and has reached the status it  *)
(* was answered with.                                                         *)
AnswersTrue ==
    \A r \in RefundId : refund[r] # NoRow =>
        /\ Reached(r, refund[r].answer)
        /\ refund[r].key # NoRow => refund[r].key[2] = refund[r].amount

(* The row that stands for the refund r may be written as new. *)
Mirrors(new, r) ==
    /\ refund[r] # NoRow
    /\ new.payment = refund[r].payment
    /\ new.amount = refund[r].amount
    /\ new.status = "FAILED" => refund[r].status = "failed"
    /\ new.status = "SUCCEEDED" => refund[r].status # "pending"

(* What refundPayment is about to write is the refund that Stripe made. *)
AnswersMirror ==
    \A c \in Call : call[c].pc = "ledger" => Mirrors(call[c], call[c].refund)

MirrorInv == AnswersTrue /\ AnswersMirror /\ RowsMirrorStripe

(* The charge and the amount of a refund never change. *)
LEMMA RefundFixed ==
    ASSUME TypeOK, RefundStep, NEW r \in RefundId, refund[r] # NoRow
    PROVE  /\ refund'[r] # NoRow
           /\ refund'[r].payment = refund[r].payment
           /\ refund'[r].amount = refund[r].amount
           /\ refund'[r].key = refund[r].key
           /\ refund'[r].answer = refund[r].answer
           /\ refund[r].status = "failed" => refund'[r].status = "failed"
           /\ refund[r].status # "pending" => refund'[r].status # "pending"
<1>1. CASE UNCHANGED refund
      BY <1>1
<1>2. ASSUME NEW p \in Payment, NEW q \in RefundId, NEW amount \in Amounts, NEW key, NEW status,
             MakeRefund(p, q, amount, key, status)
      PROVE  refund'[r] = refund[r]
      BY <1>2 DEF MakeRefund, TypeOK
<1>3. ASSUME NEW q \in RefundId, NEW status \in {"succeeded", "failed"}, RefundMoves(q, status),
             q # r
      PROVE  refund'[r] = refund[r]
      BY <1>3 DEF RefundMoves, TypeOK
<1>4. ASSUME NEW status \in {"succeeded", "failed"}, RefundMoves(r, status)
      PROVE  /\ refund'[r] \in StripeRefund
             /\ refund'[r].payment = refund[r].payment
             /\ refund'[r].amount = refund[r].amount
             /\ refund'[r].key = refund[r].key
             /\ refund'[r].answer = refund[r].answer
             /\ refund'[r].status = status
             /\ status = "succeeded" => refund[r].status = "pending"
  <2>1. refund[r] \in StripeRefund
        BY DEF TypeOK
  <2>2. refund'[r] = [refund[r] EXCEPT !.status = status]
        BY <1>4 DEF RefundMoves, TypeOK
  <2>3. status = "succeeded" => refund[r].status = "pending"
        BY <1>4 DEF RefundMoves
  <2>4. QED BY <2>1, <2>2, <2>3 DEF StripeRefund
<1>5. QED BY <1>1, <1>2, <1>3, <1>4, LedgerAssumption DEF RefundStep

(* What mirrored a refund still does. *)
LEMMA MirrorsStay ==
    ASSUME TypeOK, RefundStep, NEW r \in RefundId, NEW new, Mirrors(new, r)
    PROVE  Mirrors(new, r)'
BY RefundFixed DEF Mirrors

(* An upsert with a status that was reached writes a row that mirrors. *)
LEMMA UpsertMirrors ==
    ASSUME TypeOK, RowsMirrorStripe, UNCHANGED refund, NEW r \in RefundId, NEW status,
           Reached(r, status), Upsert(r, status)
    PROVE  RowsMirrorStripe'
<1>1. /\ RefundStatus(status) = "FAILED" => refund[r].status = "failed"
      /\ RefundStatus(status) = "SUCCEEDED" => refund[r].status # "pending"
      BY DEF RefundStatus, Reached
<1>2. CASE refundRow[r] = NoRow
  <2> DEFINE new == [payment |-> refund[r].payment, amount |-> refund[r].amount,
                     status |-> RefundStatus(status)]
  <2>1. refundRow' = [refundRow EXCEPT ![r] = new]
        BY <1>2 DEF Upsert, TypeOK
  <2>2. QED BY <1>1, <2>1 DEF RowsMirrorStripe, Reached, TypeOK
<1>3. CASE refundRow[r] # NoRow
  <2> DEFINE new == [refundRow[r] EXCEPT !.status = RefundStatus(status)]
  <2>1. refundRow[r] \in RefundRow
        BY <1>3 DEF TypeOK
  <2>2. /\ new.status = RefundStatus(status)
        /\ new.payment = refundRow[r].payment
        /\ new.amount = refundRow[r].amount
        BY <2>1 DEF RefundRow
  <2>3. refundRow' = [refundRow EXCEPT ![r] = new]
        BY <1>3 DEF Upsert, TypeOK
  <2> HIDE DEF new
  <2>4. QED BY <1>1, <1>3, <2>2, <2>3 DEF RowsMirrorStripe, TypeOK
<1>4. QED BY <1>2, <1>3

(* A refund that is made with a key that names its amount is answered truly. *)
LEMMA MakeTrue ==
    ASSUME TypeOK, AnswersTrue,
           NEW p \in Payment, NEW q \in RefundId, NEW amount \in Amounts,
           NEW key \in (Payment \X Amounts \X Nat) \cup {NoRow},
           NEW status \in {"succeeded", "pending"},
           MakeRefund(p, q, amount, key, status),
           key # NoRow => key[2] = amount
    PROVE  /\ AnswersTrue'
           /\ refund'[q].payment = p /\ refund'[q].amount = amount
           /\ refund'[q].status = status /\ refund'[q] # NoRow
<1> DEFINE new == [payment |-> p, amount |-> amount, key |-> key,
                   status |-> status, answer |-> status]
<1>1. new # NoRow
      BY NewRefund
<1>2. refund' = [refund EXCEPT ![q] = new]
      BY DEF MakeRefund
<1>3. refund'[q] = new /\ \A r \in RefundId \ {q} : refund'[r] = refund[r]
      BY <1>2 DEF TypeOK
<1>4. QED BY <1>1, <1>3 DEF AnswersTrue, Reached

(* Answers stay true under the other steps. *)
LEMMA AnswersStay ==
    ASSUME TypeOK, AnswersTrue,
           \/ UNCHANGED refund
           \/ \E r \in RefundId, status \in {"succeeded", "failed"} : RefundMoves(r, status)
    PROVE  AnswersTrue'
<1>1. RefundStep
      BY DEF RefundStep
<1>2. \A r \in RefundId : refund'[r] # NoRow => refund[r] # NoRow
      BY DEF RefundMoves, TypeOK
<1>3. QED BY <1>1, <1>2, RefundFixed DEF AnswersTrue, Reached

(* The call of Stripe is answered with a refund of the amount asked for. *)
LEMMA AskMirrors ==
    ASSUME LedgerInv, AnswersTrue, NEW c \in Call, AskStripe(c)
    PROVE  /\ AnswersTrue'
           /\ \E k : /\ call' = [call EXCEPT ![c] = k]
                     /\ Mirrors(k, k.refund)'
<1> DEFINE p == call[c].payment
           amount == call[c].amount
           key == IdempotencyKey(p, amount, call[c].seen)
           k(r, status) == [pc |-> "ledger", refund |-> r, payment |-> p,
                            amount |-> amount, status |-> RefundStatus(status)]
<1>1. p \in Payment /\ amount \in Amounts /\ call[c].seen \in Nat
      BY CallFields DEF AskStripe, LedgerInv, TypeInv, TypeOK
<1>2. /\ key \in Payment \X Amounts \X Nat
      /\ key # NoRow
      /\ key[2] = amount
      BY <1>1, LedgerAssumption DEF IdempotencyKey
<1>3. ASSUME NEW r \in RefundId, refund[r] # NoRow, refund[r].payment = p,
             refund[r].key = key, UNCHANGED refund,
             call' = [call EXCEPT ![c] = k(r, refund[r].answer)]
      PROVE  /\ AnswersTrue'
             /\ \E x : call' = [call EXCEPT ![c] = x] /\ Mirrors(x, x.refund)'
  <2>1. refund[r].amount = amount /\ Reached(r, refund[r].answer)
        BY <1>2, <1>3 DEF AnswersTrue
  <2>2. Mirrors(k(r, refund[r].answer), r)
        BY <1>3, <2>1 DEF Mirrors, Reached, RefundStatus
  <2>3. PICK x : x = k(r, refund[r].answer)
        OBVIOUS
  <2>4. x.refund = r /\ Mirrors(x, r)'
        BY <1>3, <2>2, <2>3 DEF Mirrors
  <2>5. QED BY <1>3, <2>3, <2>4, AnswersStay DEF LedgerInv, TypeInv
<1>4. ASSUME NEW r \in RefundId, NEW status \in {"succeeded", "pending"},
             MakeRefund(p, r, amount, key, status),
             call' = [call EXCEPT ![c] = k(r, status)]
      PROVE  /\ AnswersTrue'
             /\ \E x : call' = [call EXCEPT ![c] = x] /\ Mirrors(x, x.refund)'
  <2>1. /\ AnswersTrue'
        /\ refund'[r].payment = p /\ refund'[r].amount = amount
        /\ refund'[r].status = status /\ refund'[r] # NoRow
        BY <1>1, <1>2, <1>4, MakeTrue DEF LedgerInv, TypeInv
  <2>2. PICK x : x = k(r, status)
        OBVIOUS
  <2>3. x.refund = r /\ Mirrors(x, r)'
        BY <2>1, <2>2 DEF Mirrors, RefundStatus
  <2>4. QED BY <1>4, <2>1, <2>2, <2>3
<1>5. QED BY <1>3, <1>4 DEF AskStripe, MadeFor, Step, stripe

(* The other steps start no such write. *)
LEMMA OtherCalls ==
    ASSUME LedgerInv, [Next]_vars, NEW c \in Call, call'[c].pc = "ledger",
           ~ \E d \in Call : AskStripe(d)
    PROVE  call'[c] = call[c]
<1> DEFINE Goal == call'[c] = call[c]
<1> SUFFICES Goal
    OBVIOUS
<1>1. ASSUME NEW d \in Call, NEW k, call' = [call EXCEPT ![d] = k], k.pc # "ledger"
      PROVE  Goal
      BY <1>1 DEF LedgerInv, TypeInv, TypeOK
<1>2. CASE UNCHANGED call
      BY <1>2
<1>3. CASE StripeStep
      BY <1>2, <1>3 DEF StripeStep, ClientPays, CardDeclined, DashboardRefund, RefundMoves
<1>4. CASE \E p \in Payment : PaymentSucceeded(p) \/ PaymentFailed(p)
      BY <1>2, <1>4 DEF PaymentSucceeded, PaymentFailed
<1>5. ASSUME NEW d \in Call, NEW p \in Payment, CreateIntent(d, p)
      PROVE  Goal
      BY <1>1, <1>5 DEF CreateIntent, Enter
<1>6. ASSUME NEW d \in Call, NEW p \in Payment, ChargeFee(d, p)
      PROVE  Goal
  <2>1. PICK s \in {"FAILED", "SUCCEEDED"} :
           call' = [call EXCEPT ![d] = [pc |-> "record", payment |-> p, status |-> s]]
        BY <1>6, FeeCall DEF LedgerInv, TypeInv
  <2>2. QED BY <1>1, <2>1
<1>7. ASSUME NEW d \in Call, NEW p \in Payment, NEW amount, RequestRefund(d, p, amount)
      PROVE  Goal
      BY <1>1, <1>7 DEF RequestRefund, Enter
<1>8. ASSUME NEW d \in Call, NEW e \in events, ChargeRefunded(d, e)
      PROVE  Goal
      BY <1>1, <1>8 DEF ChargeRefunded, Enter
<1>9. ASSUME NEW d \in Call, NEW e \in events, RefundUpdated(d, e)
      PROVE  Goal
  <2>1. PICK k : /\ call' = [call EXCEPT ![d] = k]
                 /\ k = IF e.status = "succeeded"
                        THEN [pc |-> "sum", payment |-> refund[e.refund].payment]
                        ELSE Idle
        BY <1>9 DEF RefundUpdated, Enter
  <2>2. k.pc # "ledger"
        BY <2>1 DEF Idle
  <2>3. QED BY <1>1, <2>1, <2>2
<1>10. ASSUME NEW d \in Call, MirrorRefund(d)
      PROVE  Goal
      BY <1>1, <1>10 DEF MirrorRefund, Return, Step, Idle
<1>11. ASSUME NEW d \in Call, SumRefunds(d)
      PROVE  Goal
      BY <1>1, <1>11 DEF SumRefunds, Step
<1>12. ASSUME NEW d \in Call, RecordPayment(d) \/ RefundTx(d) \/ WriteSum(d) \/ CutOff(d)
      PROVE  Goal
      BY <1>1, <1>12 DEF RecordPayment, RefundTx, WriteSum, CutOff, Return, Step, Idle
<1>13. QED BY <1>2, <1>3, <1>4, <1>5, <1>6, <1>7, <1>8, <1>9, <1>10, <1>11, <1>12
           DEF Next, Request, Webhook, Continue, vars

(* What refundPayment is about to write keeps mirroring the refund it made. *)
LEMMA MirrorStripe ==
    ASSUME LedgerInv, AnswersTrue, AnswersMirror, [Next]_vars
    PROVE  AnswersTrue' /\ AnswersMirror'
<1>1. RefundStep /\ TypeOK
      BY StripeSide DEF LedgerInv, TypeInv
<1>2. \A c \in Call : call[c].pc = "ledger" =>
          call[c].refund \in RefundId /\ Mirrors(call[c], call[c].refund)
      BY CallFields DEF AnswersMirror, LedgerInv, TypeInv, TypeOK
<1> DEFINE MirrorsNext(new, r) ==
        /\ refund'[r] # NoRow
        /\ new.payment = refund'[r].payment
        /\ new.amount = refund'[r].amount
        /\ new.status = "FAILED" => refund'[r].status = "failed"
        /\ new.status = "SUCCEEDED" => refund'[r].status # "pending"
<1>3. \A c \in Call : call[c].pc = "ledger" => MirrorsNext(call[c], call[c].refund)
  <2> SUFFICES ASSUME NEW c \in Call, call[c].pc = "ledger"
               PROVE  MirrorsNext(call[c], call[c].refund)
      OBVIOUS
  <2>1. PICK k : k = call[c] /\ k.refund \in RefundId /\ Mirrors(k, k.refund)
        BY <1>2
  <2>2. Mirrors(k, k.refund)'
        BY <1>1, <2>1, MirrorsStay
  <2>3. QED BY <2>1, <2>2 DEF Mirrors
<1>4. ASSUME NEW d \in Call, AskStripe(d)
      PROVE  AnswersTrue' /\ AnswersMirror'
  <2>1. /\ AnswersTrue'
        /\ \E k : call' = [call EXCEPT ![d] = k] /\ Mirrors(k, k.refund)'
        BY <1>4, AskMirrors
  <2>2. PICK k : call' = [call EXCEPT ![d] = k] /\ Mirrors(k, k.refund)'
        BY <2>1
  <2>3. MirrorsNext(k, k.refund)
        BY <2>2 DEF Mirrors
  <2>4. call'[d] = k /\ \A c \in Call \ {d} : call'[c] = call[c]
        BY <1>1, <2>2 DEF TypeOK
  <2>5. \A c \in Call : call'[c].pc = "ledger" => MirrorsNext(call'[c], call'[c].refund)
        BY <1>3, <2>3, <2>4
  <2>6. QED BY <2>1, <2>5 DEF AnswersMirror, Mirrors
<1>5. ASSUME ~ \E d \in Call : AskStripe(d)
      PROVE  AnswersTrue' /\ AnswersMirror'
  <2>1. \A c \in Call : call'[c].pc = "ledger" => MirrorsNext(call'[c], call'[c].refund)
        BY <1>3, <1>5, OtherCalls
  <2>2. AnswersMirror'
        BY <2>1 DEF AnswersMirror, Mirrors
  <2> SUFFICES AnswersTrue'
      BY <2>2
  <2>3. ASSUME NEW p \in Payment, NEW r \in RefundId, NEW amount \in Amounts,
               DashboardRefund(p, r, amount)
        PROVE  AnswersTrue'
        BY <1>1, <2>3, MakeTrue, LedgerAssumption DEF DashboardRefund
  <2>4. ASSUME \/ UNCHANGED refund
               \/ \E r \in RefundId, status \in {"succeeded", "failed"} : RefundMoves(r, status)
        PROVE  AnswersTrue'
        BY <1>1, <2>4, AnswersStay
  <2>5. CASE StripeStep
    <3>1. CASE \E p \in Payment : ClientPays(p) \/ CardDeclined(p)
          BY <2>4, <3>1 DEF ClientPays, CardDeclined
    <3>2. CASE \E p \in Payment, r \in RefundId, amount \in Amounts :
                  DashboardRefund(p, r, amount)
          BY <2>3, <3>2
    <3>3. CASE \E r \in RefundId : RefundMoves(r, "succeeded") \/ RefundMoves(r, "failed")
          BY <2>4, <3>3
    <3>4. QED BY <2>5, <3>1, <3>2, <3>3 DEF StripeStep
  <2>6. CASE \E p \in Payment : PaymentSucceeded(p) \/ PaymentFailed(p)
        BY <2>4, <2>6 DEF PaymentSucceeded, PaymentFailed, stripe
  <2>7. CASE \E c \in Call : Request(c) \/ Webhook(c)
        BY <2>4, <2>7 DEF Request, CreateIntent, ChargeFee, RequestRefund, Webhook,
                          ChargeRefunded, RefundUpdated, stripe
  <2>8. CASE \E c \in Call : Continue(c)
        BY <1>5, <2>4, <2>8 DEF Continue, RecordPayment, RefundTx, MirrorRefund, SumRefunds,
                                WriteSum, CutOff, stripe
  <2>9. CASE UNCHANGED vars
        BY <2>4, <2>9 DEF vars
  <2>10. QED BY <2>5, <2>6, <2>7, <2>8, <2>9 DEF Next
<1>6. QED BY <1>4, <1>5

(* The Refund rows keep mirroring. *)
LEMMA MirrorRows ==
    ASSUME LedgerInv, MirrorInv, [Next]_vars
    PROVE  RowsMirrorStripe'
<1>1. RefundStep /\ TypeOK
      BY StripeSide DEF LedgerInv, TypeInv
<1>2. ASSUME UNCHANGED refundRow
      PROVE  RowsMirrorStripe'
  <2>1. \A r \in RefundId : refundRow[r] # NoRow =>
          refund[r] # NoRow /\ Mirrors(refundRow[r], r)
        BY DEF MirrorInv, RowsMirrorStripe, Mirrors
  <2>2. QED BY <1>1, <1>2, <2>1, RefundFixed DEF RowsMirrorStripe, Mirrors
<1>3. ASSUME NEW c \in Call, RefundTx(c)
      PROVE  RowsMirrorStripe'
  <2> DEFINE r == call[c].refund
             new == [payment |-> call[c].payment, amount |-> call[c].amount,
                     status |-> call[c].status]
  <2>1. r \in RefundId /\ Mirrors(call[c], r)
        BY <1>3, CallFields DEF RefundTx, LedgerInv, TypeInv, TypeOK, MirrorInv, AnswersMirror
  <2>2. refund' = refund
        BY <1>3 DEF RefundTx, stripe
  <2>3. CASE refundRow[r] # NoRow
        BY <1>2, <1>3, <2>3 DEF RefundTx, ledger
  <2>4. CASE refundRow[r] = NoRow
    <3>1. refundRow' = [refundRow EXCEPT ![r] = new]
          BY <1>3, <2>4 DEF RefundTx
    <3>2. QED BY <1>1, <2>1, <2>2, <3>1 DEF RowsMirrorStripe, MirrorInv, Mirrors, TypeOK
  <2>5. QED BY <2>3, <2>4
<1>4. ASSUME NEW c \in Call, MirrorRefund(c)
      PROVE  RowsMirrorStripe'
  <2>1. /\ call[c].refunds \in Snapshot
        /\ \A r \in DOMAIN call[c].refunds : Reached(r, call[c].refunds[r])
        BY <1>4, CallFields DEF MirrorRefund, LedgerInv, TypeInv, TypeOK, MirrorsReached
  <2>2. \A r \in DOMAIN call[c].refunds : r \in RefundId
        BY <2>1 DEF Snapshot
  <2>3. UNCHANGED refund
        BY <1>4 DEF MirrorRefund, stripe
  <2>4. \/ UNCHANGED refundRow
        \/ \E r \in DOMAIN call[c].refunds : Upsert(r, call[c].refunds[r])
        BY <1>4 DEF MirrorRefund
  <2>5. QED BY <1>1, <1>2, <2>1, <2>2, <2>3, <2>4, UpsertMirrors DEF MirrorInv
<1>5. ASSUME NEW c \in Call, NEW e \in events, RefundUpdated(c, e)
      PROVE  RowsMirrorStripe'
  <2>1. e.refund \in RefundId /\ Reached(e.refund, e.status)
        BY <1>5, EventFields DEF RefundUpdated, LedgerInv, TypeInv, TypeOK, EventsReached
  <2>2. UNCHANGED refund /\ Upsert(e.refund, e.status)
        BY <1>5 DEF RefundUpdated, stripe
  <2>3. QED BY <1>1, <2>1, <2>2, UpsertMirrors DEF MirrorInv
<1>6. CASE StripeStep
      BY <1>2, <1>6 DEF StripeStep, ClientPays, CardDeclined, DashboardRefund, RefundMoves, ledger
<1>7. CASE \E p \in Payment : PaymentSucceeded(p) \/ PaymentFailed(p)
      BY <1>2, <1>7 DEF PaymentSucceeded, PaymentFailed
<1>8. CASE \E c \in Call : Request(c)
      BY <1>2, <1>8 DEF Request, CreateIntent, ChargeFee, RequestRefund, ledger
<1>9. CASE \E c \in Call, e \in events : ChargeRefunded(c, e)
      BY <1>2, <1>9 DEF ChargeRefunded
<1>10. CASE \E c \in Call : \/ RecordPayment(c) \/ AskStripe(c) \/ SumRefunds(c)
                            \/ WriteSum(c) \/ CutOff(c)
      BY <1>2, <1>10 DEF RecordPayment, AskStripe, SumRefunds, WriteSum, CutOff, ledger
<1>11. CASE UNCHANGED vars
      BY <1>2, <1>11 DEF vars
<1>12. QED BY <1>3, <1>4, <1>5, <1>6, <1>7, <1>8, <1>9, <1>10, <1>11
           DEF Next, Webhook, Continue

(* Each Refund row stands for the Stripe refund whose id it has, with its     *)
(* charge, its amount and a status it has reached, however many refunds and   *)
(* webhooks of them run at once.                                              *)
THEOREM MirrorSafety == Spec => []RowsMirrorStripe
<1>1. Init => MirrorInv
      BY DEF Init, MirrorInv, AnswersTrue, AnswersMirror, RowsMirrorStripe, Idle
<1>2. LedgerInv /\ MirrorInv /\ [Next]_vars => MirrorInv'
      BY MirrorStripe, MirrorRows DEF MirrorInv
<1>3. MirrorInv => RowsMirrorStripe
      BY DEF MirrorInv
<1>4. QED BY <1>1, <1>2, <1>3, LedgerAlways, PTL DEF Spec

-----------------------------------------------------------------------------
(* Sums of refunds, as numbers of cents *)

LEMMA CentsAreFinite ==
    ASSUME NEW ids \in SUBSET RefundId
    PROVE  IsFiniteSet(ids \X Amounts)
<1>1. Amount \in Int /\ 1 \in Int
      BY LedgerAssumption
<1>2. IsFiniteSet(1..Amount)
      BY <1>1, FS_Interval
<1>3. IsFiniteSet(RefundId)
      BY LedgerAssumption
<1>4. IsFiniteSet(ids)
      BY <1>3, FS_Subset
<1>5. QED BY <1>2, <1>4, FS_Product DEF Amounts

LEMMA CentsOfOne ==
    ASSUME NEW r, NEW n \in Nat
    PROVE  IsFiniteSet({r} \X (1..n)) /\ Cardinality({r} \X (1..n)) = n
<1> DEFINE one == {r}
           below == 1..n
<1>1. IsFiniteSet(one) /\ Cardinality(one) = 1
      BY FS_Singleton
<1>2. IsFiniteSet(below) /\ Cardinality(below) = n
  <2>1. 1 \in Int /\ n \in Int
        OBVIOUS
  <2>2. IsFiniteSet(below) /\ Cardinality(below) = IF 1 > n THEN 0 ELSE n - 1 + 1
        BY <2>1, FS_Interval
  <2>3. QED BY <2>2
<1> HIDE DEF one, below
<1>3. IsFiniteSet(one \X below) /\ Cardinality(one \X below) = Cardinality(one) * Cardinality(below)
      BY <1>1, <1>2, FS_Product
<1>4. QED BY <1>1, <1>2, <1>3 DEF one, below

LEMMA SumIsNat ==
    ASSUME NEW refunds, NEW ids \in SUBSET RefundId
    PROVE  SumCents(refunds, ids) \in Nat
<1> DEFINE cents == {cent \in ids \X Amounts : cent[2] <= refunds[cent[1]].amount}
<1>1. IsFiniteSet(cents)
      BY CentsAreFinite, FS_Subset
<1>2. QED BY <1>1, FS_CardinalityType DEF SumCents

LEMMA SumOfNone == \A refunds : SumCents(refunds, {}) = 0
<1> TAKE refunds
<1>1. {cent \in {} \X Amounts : cent[2] <= refunds[cent[1]].amount} = {}
      OBVIOUS
<1>2. QED BY <1>1, FS_EmptySet DEF SumCents

(* One more refund adds its amount. *)
LEMMA SumWithOne ==
    ASSUME NEW ids \in SUBSET RefundId, NEW r \in RefundId \ ids, NEW before, NEW after,
           \A q \in ids : after[q].amount = before[q].amount,
           after[r].amount \in Amounts
    PROVE  SumCents(after, ids \cup {r}) = SumCents(before, ids) + after[r].amount
<1> DEFINE amount == after[r].amount
           old == {cent \in ids \X Amounts : cent[2] <= before[cent[1]].amount}
           new == {r} \X (1..amount)
           all == {cent \in (ids \cup {r}) \X Amounts : cent[2] <= after[cent[1]].amount}
<1>1. amount \in Nat /\ amount <= Amount /\ Amount \in Nat
      BY LedgerAssumption DEF Amounts
<1>2. all = old \cup new /\ old \cap new = {}
      BY <1>1 DEF Amounts
<1>3. IsFiniteSet(old)
      BY CentsAreFinite, FS_Subset
<1>4. IsFiniteSet(new) /\ Cardinality(new) = amount
  <2> HIDE DEF amount
  <2>. QED BY <1>1, CentsOfOne
<1> HIDE DEF old, new, all, amount
<1>5. Cardinality(old) \in Nat
      BY <1>3, FS_CardinalityType
<1>6. Cardinality(old \cap new) = 0
      BY <1>2, FS_EmptySet
<1>7. Cardinality(old \cup new) = Cardinality(old) + Cardinality(new) - Cardinality(old \cap new)
      BY <1>3, <1>4, FS_Union
<1>8. Cardinality(all) = Cardinality(old) + amount
      BY <1>1, <1>2, <1>4, <1>5, <1>6, <1>7
<1>9. QED BY <1>8 DEF SumCents, all, old, amount

LEMMA SameSum ==
    ASSUME NEW ids, NEW before, NEW after, \A r \in ids : after[r] = before[r]
    PROVE  SumCents(after, ids) = SumCents(before, ids)
<1>1. {cent \in ids \X Amounts : cent[2] <= after[cent[1]].amount}
        = {cent \in ids \X Amounts : cent[2] <= before[cent[1]].amount}
      OBVIOUS
<1>2. QED BY <1>1 DEF SumCents

(* The sum of a payment is one of its own rows. *)
LEMMA TotalSame ==
    ASSUME NEW p, \A r \in RefundId :
             \/ refundRow'[r] = refundRow[r]
             \/ /\ refundRow[r] # NoRow => refundRow[r].payment # p
                /\ refundRow'[r] # NoRow => refundRow'[r].payment # p
    PROVE  SucceededRows(p)' = SucceededRows(p) /\ RowTotal(p)' = RowTotal(p)
<1> DEFINE ids == SucceededRows(p)
<1>1. SucceededRows(p)' = ids
      BY DEF SucceededRows
<1>2. \A r \in ids : refundRow'[r] = refundRow[r]
      BY DEF SucceededRows
<1> HIDE DEF ids
<1>3. SumCents(refundRow', ids) = SumCents(refundRow, ids)
      BY <1>2, SameSum
<1>4. QED BY <1>1, <1>3 DEF RowTotal, SumCents, ids

-----------------------------------------------------------------------------
(* What a refund webhook works on is marked before it is written *)

EventsOfCharge ==
    \A e \in events : e.type = "charge.refunded" =>
        \A r \in DOMAIN e.refunds : refund[r].payment = e.payment

HandledIn(k, refunds, payments) ==
    /\ k.pc \in {"sum", "write"} => k.payment \in payments
    /\ k.pc = "mirror" => \A r \in DOMAIN k.refunds : refunds[r].payment \in payments

CallsHandled == \A c \in Call : HandledIn(call[c], refund, reconciled)

(* Payments that were handled, and those of Refund rows, are in the ledger.   *)
RowsHaveCharge ==
    /\ \A p \in reconciled : row[p] # NoRow
    /\ \A r \in RefundId : refundRow[r] # NoRow => row[refundRow[r].payment] # NoRow

CountInv == EventsOfCharge /\ CallsHandled /\ RowsHaveCharge /\ EndpointCountsExactly

LEMMA EventsOfChargeStep ==
    ASSUME LedgerInv, EventsOfCharge, [Next]_vars
    PROVE  EventsOfCharge'
<1>1. TypeOK /\ TypeInv /\ RefundStep /\ Sends
      BY StripeSide DEF LedgerInv, TypeInv
<1>2. ASSUME NEW e \in events, e.type = "charge.refunded", NEW r \in DOMAIN e.refunds
      PROVE  refund'[r].payment = e.payment
  <2>1. r \in RefundId
        BY <1>1, <1>2, EventFields DEF TypeOK, Snapshot
  <2>2. refund[r] # NoRow /\ refund[r].payment = e.payment
        BY <1>1, <1>2 DEF TypeInv, EventsReached, Reached, EventsOfCharge
  <2>3. QED BY <1>1, <2>1, <2>2, RefundFixed
<1>3. CASE events' \subseteq events \cup IntentEvent
      BY <1>2, <1>3 DEF EventsOfCharge, IntentEvent
<1>4. ASSUME NEW p \in Payment, NEW r \in RefundId, NEW amount \in Amounts,
             NEW key \in (Payment \X Amounts \X Nat) \cup {NoRow},
             NEW status \in {"succeeded", "pending"},
             MakeRefund(p, r, amount, key, status)
      PROVE  EventsOfCharge'
  <2> DEFINE listed == IF Listed THEN MadeFor(p) \cup {r} ELSE {}
  <2>1. PICK total \in Amounts :
          events' = events \cup {[type |-> "charge.refunded", payment |-> p, total |-> total,
                                  refunds |-> [q \in listed |-> refund'[q].status]]}
        BY <1>4 DEF MakeRefund
  <2>2. refund'[r].payment = p
        BY <1>1, <1>4 DEF MakeRefund, TypeOK
  <2>3. \A q \in listed : refund'[q].payment = p
        BY <1>1, <2>2, RefundFixed DEF MadeFor
  <2> HIDE DEF listed
  <2>4. QED BY <1>2, <2>1, <2>3 DEF EventsOfCharge
<1>5. ASSUME NEW r \in RefundId, NEW status \in {"succeeded", "failed"}, RefundMoves(r, status)
      PROVE  EventsOfCharge'
      BY <1>2, <1>5 DEF RefundMoves, EventsOfCharge
<1>6. QED BY <1>1, <1>3, <1>4, <1>5 DEF Sends

(* Only the two refund webhooks mark a payment, and they have found its row.  *)
LEMMA ReconciledStep ==
    ASSUME LedgerInv, [Next]_vars
    PROVE  /\ reconciled \subseteq reconciled'
           /\ \A p \in reconciled' \ reconciled : p \in Payment /\ row[p] # NoRow
<1> DEFINE Goal == /\ reconciled \subseteq reconciled'
                   /\ \A p \in reconciled' \ reconciled : p \in Payment /\ row[p] # NoRow
<1> SUFFICES Goal
    OBVIOUS
<1>1. ASSUME NEW c \in Call, NEW e \in events, ChargeRefunded(c, e)
      PROVE  Goal
  <2>1. e.payment \in Payment
        BY <1>1, EventFields DEF ChargeRefunded, LedgerInv, TypeInv, TypeOK
  <2>2. QED BY <1>1, <2>1 DEF ChargeRefunded
<1>2. ASSUME NEW c \in Call, NEW e \in events, RefundUpdated(c, e)
      PROVE  Goal
  <2>1. refund[e.refund].payment \in Payment
        BY <1>2, EventFields
        DEF RefundUpdated, LedgerInv, TypeInv, TypeOK, EventsReached, Reached, StripeRefund
  <2>2. QED BY <1>2, <2>1 DEF RefundUpdated
<1>3. CASE reconciled' = reconciled
      BY <1>3
<1>4. CASE StripeStep
      BY <1>3, <1>4 DEF StripeStep, ClientPays, CardDeclined, DashboardRefund, RefundMoves
<1>5. CASE \E p \in Payment : PaymentSucceeded(p) \/ PaymentFailed(p)
      BY <1>3, <1>5 DEF PaymentSucceeded, PaymentFailed
<1>6. CASE \E c \in Call : Request(c)
      BY <1>3, <1>6 DEF Request, CreateIntent, ChargeFee, RequestRefund
<1>7. CASE \E c \in Call : Continue(c)
      BY <1>3, <1>7 DEF Continue, RecordPayment, AskStripe, RefundTx, MirrorRefund, SumRefunds,
                        WriteSum, CutOff
<1>8. CASE UNCHANGED vars
      BY <1>3, <1>8 DEF vars
<1>9. QED BY <1>1, <1>2, <1>4, <1>5, <1>6, <1>7, <1>8 DEF Next, Webhook

LEMMA AskedCall ==
    ASSUME NEW c \in Call, AskStripe(c)
    PROVE  \E k : call' = [call EXCEPT ![c] = k] /\ k.pc = "ledger"
<1> DEFINE k(r, status) == [pc |-> "ledger", refund |-> r, payment |-> call[c].payment,
                            amount |-> call[c].amount, status |-> RefundStatus(status)]
<1>1. PICK r, status : call' = [call EXCEPT ![c] = k(r, status)]
      BY DEF AskStripe, Step
<1>2. k(r, status).pc = "ledger"
      OBVIOUS
<1>3. QED BY <1>1, <1>2

(* A step leaves the handlers as they are, or moves one on to such work.      *)
LEMMA HandledStep ==
    ASSUME LedgerInv, EventsOfCharge, CallsHandled, [Next]_vars
    PROVE  \/ UNCHANGED call
           \/ \E c \in Call : \E k : /\ call' = [call EXCEPT ![c] = k]
                                     /\ HandledIn(k, refund', reconciled')
<1> DEFINE To(c, k) == /\ call' = [call EXCEPT ![c] = k]
                       /\ HandledIn(k, refund', reconciled')
<1>1. CASE StripeStep
      BY <1>1 DEF StripeStep, ClientPays, CardDeclined, DashboardRefund, RefundMoves
<1>2. CASE \E p \in Payment : PaymentSucceeded(p) \/ PaymentFailed(p)
      BY <1>2 DEF PaymentSucceeded, PaymentFailed
<1>3. ASSUME NEW c \in Call, NEW k, call' = [call EXCEPT ![c] = k],
             k.pc \notin {"sum", "write", "mirror"}
      PROVE  To(c, k)
      BY <1>3 DEF HandledIn
<1>4. ASSUME NEW c \in Call, Request(c)
      PROVE  \E k : To(c, k)
  <2>1. PICK p \in Payment : CreateIntent(c, p) \/ ChargeFee(c, p)
                             \/ \E amount \in Amounts : RequestRefund(c, p, amount)
        BY <1>4 DEF Request
  <2>2. CASE ChargeFee(c, p)
    <3>1. PICK s \in {"FAILED", "SUCCEEDED"} :
             call' = [call EXCEPT ![c] = [pc |-> "record", payment |-> p, status |-> s]]
          BY <2>2, FeeCall DEF LedgerInv, TypeInv
    <3>2. QED BY <1>3, <3>1
  <2>3. QED BY <1>3, <2>1, <2>2 DEF CreateIntent, RequestRefund, Enter
<1>5. ASSUME NEW c \in Call, NEW e \in events, ChargeRefunded(c, e)
      PROVE  \E k : To(c, k)
  <2> DEFINE k == [pc |-> "mirror", refunds |-> e.refunds]
  <2>1. call' = [call EXCEPT ![c] = k] /\ e.payment \in reconciled' /\ refund' = refund
        BY <1>5 DEF ChargeRefunded, Enter, stripe
  <2>2. \A r \in DOMAIN e.refunds : refund[r].payment = e.payment
        BY <1>5 DEF ChargeRefunded, EventsOfCharge
  <2>3. HandledIn(k, refund', reconciled')
        BY <2>1, <2>2 DEF HandledIn
  <2>4. QED BY <2>1, <2>3
<1>6. ASSUME NEW c \in Call, NEW e \in events, RefundUpdated(c, e)
      PROVE  \E k : To(c, k)
  <2> DEFINE k == IF e.status = "succeeded"
                  THEN [pc |-> "sum", payment |-> refund[e.refund].payment]
                  ELSE Idle
  <2>1. call' = [call EXCEPT ![c] = k] /\ refund[e.refund].payment \in reconciled'
        BY <1>6 DEF RefundUpdated, Enter
  <2>2. HandledIn(k, refund', reconciled')
        BY <2>1 DEF HandledIn, Idle
  <2>3. QED BY <2>1, <2>2
<1>7. ASSUME NEW c \in Call, AskStripe(c)
      PROVE  \E k : To(c, k)
  <2>1. PICK k : call' = [call EXCEPT ![c] = k] /\ k.pc = "ledger"
        BY <1>7, AskedCall
  <2>2. QED BY <1>3, <2>1
<1>8. ASSUME NEW c \in Call, MirrorRefund(c)
      PROVE  \E k : To(c, k)
  <2> DEFINE todo == call[c].refunds
  <2>1. /\ UNCHANGED <<refund, reconciled>>
        /\ \/ call' = [call EXCEPT ![c] = Idle]
           \/ \E r \in DOMAIN todo :
                call' = [call EXCEPT ![c] =
                           [pc |-> "mirror",
                            refunds |-> [q \in DOMAIN todo \ {r} |-> todo[q]]]]
        BY <1>8 DEF MirrorRefund, Return, Step, stripe
  <2>2. \A q \in DOMAIN todo : refund[q].payment \in reconciled
        BY <1>8 DEF MirrorRefund, CallsHandled, HandledIn
  <2>3. CASE call' = [call EXCEPT ![c] = Idle]
        BY <1>3, <2>3 DEF Idle
  <2>4. ASSUME NEW r \in DOMAIN todo,
               call' = [call EXCEPT ![c] =
                          [pc |-> "mirror", refunds |-> [q \in DOMAIN todo \ {r} |-> todo[q]]]]
        PROVE  \E k : To(c, k)
    <3> DEFINE k == [pc |-> "mirror", refunds |-> [q \in DOMAIN todo \ {r} |-> todo[q]]]
    <3>1. HandledIn(k, refund', reconciled')
          BY <2>1, <2>2 DEF HandledIn
    <3>2. QED BY <2>4, <3>1
  <2>5. QED BY <2>1, <2>3, <2>4
<1>9. ASSUME NEW c \in Call, SumRefunds(c)
      PROVE  \E k : To(c, k)
  <2>1. call[c].payment \in reconciled /\ reconciled' = reconciled
        BY <1>9 DEF SumRefunds, CallsHandled, HandledIn
  <2>2. PICK total : call' = [call EXCEPT ![c] = [pc |-> "write", payment |-> call[c].payment,
                                                  total |-> total]]
        BY <1>9 DEF SumRefunds, Step
  <2>3. HandledIn([pc |-> "write", payment |-> call[c].payment, total |-> total],
                  refund', reconciled')
        BY <2>1 DEF HandledIn
  <2>4. QED BY <2>2, <2>3
<1>10. ASSUME NEW c \in Call, RecordPayment(c) \/ RefundTx(c) \/ WriteSum(c) \/ CutOff(c)
       PROVE  \E k : To(c, k)
       BY <1>3, <1>10 DEF RecordPayment, RefundTx, WriteSum, CutOff, Return, Step, Idle
<1>11. QED BY <1>1, <1>2, <1>4, <1>5, <1>6, <1>7, <1>8, <1>9, <1>10
           DEF Next, Webhook, Continue, vars

LEMMA CallsHandledStep ==
    ASSUME LedgerInv, EventsOfCharge, CallsHandled, [Next]_vars
    PROVE  CallsHandled'
<1>1. TypeOK /\ RefundStep /\ reconciled \subseteq reconciled'
      BY StripeSide, ReconciledStep DEF LedgerInv, TypeInv
<1>2. ASSUME NEW c \in Call
      PROVE  HandledIn(call[c], refund', reconciled')
  <2>1. HandledIn(call[c], refund, reconciled) /\ call[c] \in CallRecord
        BY <1>1 DEF CallsHandled, TypeOK
  <2>2. ASSUME call[c].pc = "mirror", NEW r \in DOMAIN call[c].refunds
        PROVE  refund'[r].payment \in reconciled'
    <3>1. r \in RefundId /\ refund[r] # NoRow
          BY <2>1, <2>2, CallFields
          DEF LedgerInv, TypeInv, MirrorsReached, Reached, Snapshot
    <3>2. refund[r].payment \in reconciled
          BY <2>1, <2>2 DEF HandledIn
    <3>3. QED BY <1>1, <3>1, <3>2, RefundFixed
  <2>3. QED BY <1>1, <2>1, <2>2 DEF HandledIn
<1>3. ASSUME NEW c \in Call, NEW k, call' = [call EXCEPT ![c] = k],
             HandledIn(k, refund', reconciled')
      PROVE  \A d \in Call : HandledIn(call'[d], refund', reconciled')
      BY <1>1, <1>2, <1>3 DEF TypeOK
<1>4. \A d \in Call : HandledIn(call'[d], refund', reconciled')
      BY <1>2, <1>3, HandledStep
<1>5. QED BY <1>4 DEF CallsHandled, HandledIn

(* The steps that write Refund rows. *)
LEMMA RefundRowWriters ==
    ASSUME [Next]_vars
    PROVE  \/ UNCHANGED refundRow
           \/ \E c \in Call : RefundTx(c) \/ MirrorRefund(c)
           \/ \E c \in Call, e \in events : RefundUpdated(c, e)
<1>1. CASE StripeStep
      BY <1>1 DEF StripeStep, ClientPays, CardDeclined, DashboardRefund, RefundMoves, ledger
<1>2. CASE \E p \in Payment : PaymentSucceeded(p) \/ PaymentFailed(p)
      BY <1>2 DEF PaymentSucceeded, PaymentFailed
<1>3. CASE \E c \in Call : Request(c)
      BY <1>3 DEF Request, CreateIntent, ChargeFee, RequestRefund, ledger
<1>4. CASE \E c \in Call, e \in events : ChargeRefunded(c, e)
      BY <1>4 DEF ChargeRefunded
<1>5. CASE \E c \in Call : RecordPayment(c) \/ AskStripe(c) \/ SumRefunds(c) \/ WriteSum(c)
                           \/ CutOff(c)
      BY <1>5 DEF RecordPayment, AskStripe, SumRefunds, WriteSum, CutOff, ledger
<1>6. CASE UNCHANGED vars
      BY <1>6 DEF vars
<1>7. QED BY <1>1, <1>2, <1>3, <1>4, <1>5, <1>6 DEF Next, Webhook, Continue

(* What is mirrored changes the sum of no payment that no webhook has marked. *)
LEMMA OthersKeepTotal ==
    ASSUME LedgerInv, MirrorInv, CountInv, [Next]_vars, ~ \E c \in Call : RefundTx(c),
           NEW p \in Payment, p \notin reconciled'
    PROVE  RowTotal(p)' = RowTotal(p)
<1>1. TypeOK /\ RowsMirrorStripe
      BY DEF LedgerInv, TypeInv, MirrorInv
<1>2. CASE UNCHANGED refundRow
      BY <1>2, TotalSame
<1>3. ASSUME NEW r \in RefundId, NEW status, Upsert(r, status), refund[r].payment \in reconciled'
      PROVE  RowTotal(p)' = RowTotal(p)
  <2>1. refundRow[r] # NoRow => refundRow[r].payment = refund[r].payment
        BY <1>1 DEF RowsMirrorStripe
  <2>2. refundRow[r] = NoRow => refundRow'[r].payment = refund[r].payment
        BY <1>1, <1>3 DEF Upsert, TypeOK
  <2>3. ASSUME refundRow[r] # NoRow
        PROVE  refundRow'[r].payment = refundRow[r].payment
    <3>1. refundRow[r] \in RefundRow
          BY <1>1, <2>3 DEF TypeOK
    <3>2. refundRow'[r] = [refundRow[r] EXCEPT !.status = RefundStatus(status)]
          BY <1>1, <1>3, <2>3 DEF Upsert, TypeOK
    <3>3. QED BY <3>1, <3>2 DEF RefundRow
  <2>4. \A q \in RefundId \ {r} : refundRow'[q] = refundRow[q]
        BY <1>1, <1>3 DEF Upsert, TypeOK
  <2>5. refund[r].payment # p
        BY <1>3
  <2>6. QED BY <2>1, <2>2, <2>3, <2>4, <2>5, TotalSame
<1>4. ASSUME NEW c \in Call, MirrorRefund(c)
      PROVE  RowTotal(p)' = RowTotal(p)
  <2>1. /\ UNCHANGED reconciled
        /\ \/ UNCHANGED refundRow
           \/ \E r \in DOMAIN call[c].refunds : Upsert(r, call[c].refunds[r])
        BY <1>4 DEF MirrorRefund
  <2>2. \A r \in DOMAIN call[c].refunds : r \in RefundId /\ refund[r].payment \in reconciled
        BY <1>1, <1>4, CallFields
        DEF MirrorRefund, TypeOK, Snapshot, CountInv, CallsHandled, HandledIn
  <2>3. QED BY <1>2, <1>3, <2>1, <2>2
<1>5. ASSUME NEW c \in Call, NEW e \in events, RefundUpdated(c, e)
      PROVE  RowTotal(p)' = RowTotal(p)
  <2>1. e.refund \in RefundId
        BY <1>1, <1>5, EventFields DEF RefundUpdated, TypeOK
  <2>2. QED BY <1>3, <1>5, <2>1 DEF RefundUpdated
<1>6. QED BY <1>2, <1>4, <1>5, RefundRowWriters

(* Nor is its total written. *)
LEMMA OthersKeepRow ==
    ASSUME LedgerInv, CountInv, [Next]_vars, ~ \E c \in Call : RefundTx(c),
           NEW p \in Payment, p \notin reconciled'
    PROVE  \/ row'[p] = row[p]
           \/ row[p] # NoRow /\ row'[p].refunded = row[p].refunded
           \/ row[p] = NoRow /\ row'[p].refunded = 0
<1> DEFINE Goal == \/ row'[p] = row[p]
                   \/ row[p] # NoRow /\ row'[p].refunded = row[p].refunded
                   \/ row[p] = NoRow /\ row'[p].refunded = 0
<1> SUFFICES Goal
    OBVIOUS
<1>1. TypeOK
      BY DEF LedgerInv, TypeInv
<1>2. CASE UNCHANGED row
      BY <1>2
<1>3. ASSUME NEW q \in Payment, NEW status, row[q] # NoRow, row' = [row EXCEPT ![q].status = status]
      PROVE  Goal
  <2>1. row[q] \in PaymentRow
        BY <1>1, <1>3 DEF TypeOK
  <2>2. [row[q] EXCEPT !.status = status].refunded = row[q].refunded
        BY <2>1 DEF PaymentRow
  <2>3. row' = [row EXCEPT ![q] = [row[q] EXCEPT !.status = status]]
        BY <1>3
  <2>4. QED BY <1>1, <1>3, <2>2, <2>3 DEF TypeOK
<1>4. ASSUME NEW q \in reconciled', NEW total, SetTotal(q, total)
      PROVE  Goal
      BY <1>1, <1>4 DEF SetTotal, TypeOK
<1>5. CASE StripeStep
      BY <1>2, <1>5 DEF StripeStep, ClientPays, CardDeclined, DashboardRefund, RefundMoves, ledger
<1>6. ASSUME NEW q \in Payment, PaymentSucceeded(q) \/ PaymentFailed(q)
      PROVE  Goal
      BY <1>2, <1>3, <1>6 DEF PaymentSucceeded, PaymentFailed
<1>7. CASE \E c \in Call : Request(c)
      BY <1>2, <1>7 DEF Request, CreateIntent, ChargeFee, RequestRefund, ledger
<1>8. ASSUME NEW c \in Call, NEW e \in events, ChargeRefunded(c, e)
      PROVE  Goal
      BY <1>4, <1>8 DEF ChargeRefunded
<1>9. ASSUME NEW c \in Call, RecordPayment(c)
      PROVE  Goal
  <2>1. \/ UNCHANGED row
        \/ /\ row[call[c].payment] = NoRow
           /\ row' = [row EXCEPT ![call[c].payment] = [status |-> call[c].status, refunded |-> 0]]
        BY <1>9 DEF RecordPayment
  <2>2. QED BY <1>1, <2>1 DEF TypeOK
<1>10. ASSUME NEW c \in Call, WriteSum(c)
       PROVE  Goal
  <2>1. SetTotal(call[c].payment, call[c].total) /\ call[c].payment \in reconciled'
        BY <1>10 DEF WriteSum, CountInv, CallsHandled, HandledIn
  <2>2. QED BY <1>4, <2>1
<1>11. CASE \E c \in Call : AskStripe(c) \/ MirrorRefund(c) \/ SumRefunds(c) \/ CutOff(c)
       BY <1>2, <1>11 DEF AskStripe, MirrorRefund, SumRefunds, CutOff, ledger
<1>12. CASE \E c \in Call, e \in events : RefundUpdated(c, e)
       BY <1>2, <1>12 DEF RefundUpdated
<1>13. CASE UNCHANGED vars
       BY <1>2, <1>13 DEF vars
<1>14. QED BY <1>5, <1>6, <1>7, <1>8, <1>9, <1>10, <1>11, <1>12, <1>13
           DEF Next, Webhook, Continue

LEMMA RowsHaveChargeStep ==
    ASSUME LedgerInv, MirrorInv, CountInv, [Next]_vars
    PROVE  RowsHaveCharge'
<1>1. TypeOK /\ \A p \in Payment : row[p] # NoRow => row'[p] # NoRow
      BY RowStep, RowsStay DEF LedgerInv, TypeInv
<1>2. \A p \in reconciled' : row'[p] # NoRow
      BY <1>1, ReconciledStep DEF CountInv, RowsHaveCharge, TypeOK
<1> DEFINE Goal == \A r \in RefundId : refundRow'[r] # NoRow => row'[refundRow'[r].payment] # NoRow
<1> SUFFICES Goal
    BY <1>2 DEF RowsHaveCharge
<1>3. ASSUME NEW r \in RefundId, refundRow[r] # NoRow
      PROVE  row'[refundRow[r].payment] # NoRow
      BY <1>1, <1>3 DEF CountInv, RowsHaveCharge, TypeOK, RefundRow
<1>4. CASE UNCHANGED refundRow
      BY <1>3, <1>4
<1>5. ASSUME NEW c \in Call, RefundTx(c)
      PROVE  Goal
  <2> DEFINE r == call[c].refund
             new == [payment |-> call[c].payment, amount |-> call[c].amount,
                     status |-> call[c].status]
  <2>1. r \in RefundId /\ call[c].payment \in Payment /\ row[call[c].payment] # NoRow
        BY <1>1, <1>5, CallFields DEF RefundTx, TypeOK, LedgerInv, CallsHaveRow
  <2>2. UNCHANGED refundRow \/ refundRow' = [refundRow EXCEPT ![r] = new]
        BY <1>5 DEF RefundTx, ledger
  <2>3. new.payment = call[c].payment
        OBVIOUS
  <2> HIDE DEF new, r
  <2>4. QED BY <1>1, <1>3, <1>4, <2>1, <2>2, <2>3 DEF TypeOK
<1>6. ASSUME NEW r \in RefundId, NEW status, Upsert(r, status),
             refund[r].payment \in reconciled'
      PROVE  Goal
  <2>1. refundRow[r] = NoRow => refundRow'[r].payment = refund[r].payment
        BY <1>1, <1>6 DEF Upsert, TypeOK
  <2>2. ASSUME refundRow[r] # NoRow
        PROVE  refundRow'[r].payment = refundRow[r].payment
    <3>1. refundRow[r] \in RefundRow
          BY <1>1, <2>2 DEF TypeOK
    <3>2. refundRow'[r] = [refundRow[r] EXCEPT !.status = RefundStatus(status)]
          BY <1>1, <1>6, <2>2 DEF Upsert, TypeOK
    <3>3. QED BY <3>1, <3>2 DEF RefundRow
  <2>3. \A q \in RefundId \ {r} : refundRow'[q] = refundRow[q]
        BY <1>1, <1>6 DEF Upsert, TypeOK
  <2>4. QED BY <1>2, <1>3, <1>6, <2>1, <2>2, <2>3
<1>7. ASSUME NEW c \in Call, MirrorRefund(c)
      PROVE  Goal
  <2>1. /\ UNCHANGED reconciled
        /\ \/ UNCHANGED refundRow
           \/ \E r \in DOMAIN call[c].refunds : Upsert(r, call[c].refunds[r])
        BY <1>7 DEF MirrorRefund
  <2>2. \A r \in DOMAIN call[c].refunds : r \in RefundId /\ refund[r].payment \in reconciled
        BY <1>1, <1>7, CallFields
        DEF MirrorRefund, TypeOK, Snapshot, CountInv, CallsHandled, HandledIn
  <2>3. QED BY <1>4, <1>6, <2>1, <2>2
<1>8. ASSUME NEW c \in Call, NEW e \in events, RefundUpdated(c, e)
      PROVE  Goal
  <2>1. e.refund \in RefundId
        BY <1>1, <1>8, EventFields DEF RefundUpdated, TypeOK
  <2>2. QED BY <1>6, <1>8, <2>1 DEF RefundUpdated
<1>9. QED BY <1>4, <1>5, <1>7, <1>8, RefundRowWriters

(* Before a webhook has touched a payment, the transaction of refundPayment   *)
(* is all that changes the total and the rows, and it changes both.           *)
LEMMA CountStep ==
    ASSUME LedgerInv, MirrorInv, CountInv, [Next]_vars
    PROVE  EndpointCountsExactly'
<1>1. TypeOK /\ reconciled \subseteq reconciled'
      BY ReconciledStep DEF LedgerInv, TypeInv
<1> SUFFICES ASSUME NEW p \in Payment, p \notin reconciled', row'[p] # NoRow
             PROVE  row'[p].refunded = RowTotal(p)'
    BY DEF EndpointCountsExactly
<1>2. row[p] # NoRow => row[p].refunded = RowTotal(p)
      BY <1>1 DEF CountInv, EndpointCountsExactly
<1>3. row[p] = NoRow => RowTotal(p) = 0
  <2>1. row[p] = NoRow => SucceededRows(p) = {}
        BY DEF CountInv, RowsHaveCharge, SucceededRows
  <2>2. QED BY <2>1, SumOfNone DEF RowTotal
<1>4. ASSUME NEW c \in Call, RefundTx(c)
      PROVE  row'[p].refunded = RowTotal(p)'
  <2> DEFINE k == call[c]
             r == k.refund
             new == [payment |-> k.payment, amount |-> k.amount, status |-> k.status]
  <2>1. /\ r \in RefundId /\ k.payment \in Payment /\ k.amount \in Amounts
        /\ k.status \in {"PENDING", "SUCCEEDED"}
        BY <1>1, <1>4, CallFields DEF RefundTx, TypeOK
  <2>2. \/ UNCHANGED <<row, refundRow>>
        \/ /\ refundRow[r] = NoRow /\ refundRow' = [refundRow EXCEPT ![r] = new]
           /\ IF k.status = "SUCCEEDED" THEN SetTotal(k.payment, row[k.payment].refunded + k.amount)
                                        ELSE UNCHANGED row
        BY <1>4 DEF RefundTx, AddToTotal, ledger
  <2>3. row[k.payment] # NoRow
        BY <1>4 DEF RefundTx, LedgerInv, CallsHaveRow
  <2> HIDE DEF k, r
  <2>4. new.payment = k.payment /\ new.amount = k.amount /\ new.status = k.status
        OBVIOUS
  <2>5. new # NoRow
        BY <2>1, LedgerAssumption DEF RefundRow
  <2> HIDE DEF new
  <2>6. CASE UNCHANGED <<row, refundRow>>
        BY <1>2, <2>6, TotalSame
  <2>7. CASE /\ refundRow[r] = NoRow /\ refundRow' = [refundRow EXCEPT ![r] = new]
             /\ IF k.status = "SUCCEEDED" THEN SetTotal(k.payment, row[k.payment].refunded + k.amount)
                                          ELSE UNCHANGED row
    <3>1. refundRow'[r] = new /\ \A q \in RefundId \ {r} : refundRow'[q] = refundRow[q]
          BY <1>1, <2>1, <2>7 DEF TypeOK
    <3>2. CASE k.payment # p
      <4>1. row'[p] = row[p]
            BY <1>1, <2>7, <3>2 DEF SetTotal, TypeOK
      <4>2. RowTotal(p)' = RowTotal(p)
            BY <2>4, <2>7, <3>1, <3>2, TotalSame
      <4>3. QED BY <1>2, <4>1, <4>2
    <3>3. CASE k.payment = p /\ k.status = "PENDING"
      <4>1. row'[p] = row[p]
            BY <2>7, <3>3
      <4>2. SucceededRows(p)' = SucceededRows(p)
            BY <2>4, <2>7, <3>1, <3>3 DEF SucceededRows
      <4>3. \A q \in SucceededRows(p) : refundRow'[q] = refundRow[q]
            BY <2>7, <3>1 DEF SucceededRows
      <4>4. RowTotal(p)' = RowTotal(p)
            BY <4>2, <4>3, SameSum DEF RowTotal
      <4>5. QED BY <1>2, <4>1, <4>4
    <3>4. CASE k.payment = p /\ k.status = "SUCCEEDED"
      <4>1. row'[p].refunded = row[p].refunded + k.amount
            BY <1>1, <2>7, <3>4 DEF SetTotal, TypeOK
      <4> DEFINE ids == SucceededRows(p)
      <4>2. SucceededRows(p)' = ids \cup {r}
            BY <2>1, <2>4, <2>5, <3>1, <3>4 DEF SucceededRows
      <4>3. ids \in SUBSET RefundId /\ r \notin ids
            BY <2>7 DEF SucceededRows
      <4>4. \A q \in ids : refundRow'[q].amount = refundRow[q].amount
            BY <3>1, <4>3
      <4> HIDE DEF ids
      <4>5. SumCents(refundRow', ids \cup {r}) = SumCents(refundRow, ids) + k.amount
            BY <2>1, <2>4, <3>1, <4>3, <4>4, SumWithOne
      <4>6. RowTotal(p)' = RowTotal(p) + k.amount
            BY <4>2, <4>5 DEF RowTotal, SumCents, ids
      <4>7. QED BY <1>2, <2>3, <3>4, <4>1, <4>6
    <3>5. QED BY <2>1, <3>2, <3>3, <3>4
  <2>8. QED BY <2>2, <2>6, <2>7
<1>5. ASSUME RowTotal(p)' = RowTotal(p),
             \/ row'[p] = row[p]
             \/ row[p] # NoRow /\ row'[p].refunded = row[p].refunded
             \/ row[p] = NoRow /\ row'[p].refunded = 0
      PROVE  row'[p].refunded = RowTotal(p)'
      BY <1>2, <1>3, <1>5
<1>6. ASSUME ~ \E c \in Call : RefundTx(c)
      PROVE  RowTotal(p)' = RowTotal(p)
      BY <1>6, OthersKeepTotal
<1>7. ASSUME ~ \E c \in Call : RefundTx(c)
      PROVE  \/ row'[p] = row[p]
             \/ row[p] # NoRow /\ row'[p].refunded = row[p].refunded
             \/ row[p] = NoRow /\ row'[p].refunded = 0
      BY <1>7, OthersKeepRow
<1>8. QED BY <1>4, <1>5, <1>6, <1>7

(* Until a webhook has told of a refund, the total of a payment is the sum of *)
(* its succeeded Refund rows: calls of refundPayment that overlap are all     *)
(* counted, and one that is repeated or cut off is counted once.              *)
THEOREM CountSafety == Spec => []EndpointCountsExactly
<1>1. Init => MirrorInv /\ CountInv
  <2>1. Init => MirrorInv
        BY DEF Init, MirrorInv, AnswersTrue, AnswersMirror, RowsMirrorStripe, Idle
  <2>2. Init => CountInv
        BY DEF Init, CountInv, EventsOfCharge, CallsHandled, HandledIn, RowsHaveCharge,
               EndpointCountsExactly, Idle
  <2>3. QED BY <2>1, <2>2
<1>2. LedgerInv /\ MirrorInv /\ CountInv /\ [Next]_vars => MirrorInv' /\ CountInv'
  <2> SUFFICES ASSUME LedgerInv, MirrorInv, CountInv, [Next]_vars
               PROVE  MirrorInv' /\ CountInv'
      OBVIOUS
  <2>1. MirrorInv'
        BY MirrorStripe, MirrorRows DEF MirrorInv
  <2>2. EventsOfCharge' /\ CallsHandled'
        BY EventsOfChargeStep, CallsHandledStep DEF CountInv
  <2>3. RowsHaveCharge' /\ EndpointCountsExactly'
        BY RowsHaveChargeStep, CountStep
  <2>4. QED BY <2>1, <2>2, <2>3 DEF CountInv
<1>3. CountInv => EndpointCountsExactly
      BY DEF CountInv
<1>4. QED BY <1>1, <1>2, <1>3, LedgerAlways, PTL DEF Spec
=============================================================================
