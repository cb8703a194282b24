------------------------------ MODULE Bookings ------------------------------
(***************************************************************************)
(* The appointment table and the handlers of BookingsService (and the two  *)
(* Stripe webhooks) that write it.                                         *)
(*                                                                         *)
(* create, reschedule and a time change in updateDetails run a             *)
(* SERIALIZABLE transaction that re-checks the slot on its snapshot and is *)
(* retried on a write conflict; every other handler reads the row first    *)
(* and later writes it with a plain UPDATE.  Each call in flight is one    *)
(* record of calls, so any number of handlers interleave at every await.   *)
(***************************************************************************)
EXTENDS Schedule

CONSTANTS
    Call,         \* concurrent API requests
    Ops,          \* the endpoints that the callers of an instance use
    NoService,    \* no additional service in a create request
    MaxUsages,    \* PromoCode.maxUsages of the one promotion
    AutoApproval  \* bookingApprovalMode = 'AUTO'

ASSUME BookingAssumption ==
    /\ NoService \notin Services
    /\ MaxUsages \in Nat
    /\ AutoApproval \in BOOLEAN

VARIABLES
    appointment,  \* the Appointment table: id |-> row
    usageCount,   \* PromoCode.usageCount
    promoOf,      \* appointments whose promoCodeId is set
    intents,      \* appointments whose stripePaymentIntentId is set
    calls,        \* request |-> what its handler holds in local variables
    unvetted      \* history: rows that hold their time without a check of it

vars == <<appointment, usageCount, promoOf, intents, calls, unvetted>>

ActiveStatuses == {"PENDING", "CONFIRMED"}
Statuses == ActiveStatuses \cup {"COMPLETED", "NO_SHOW", "CANCELLED"}

Row == [status : Statuses \cup {"NONE"}, staff : Staff, service : Services,
        start : Times, end : Times]

Absent == [status |-> "NONE", staff |-> CHOOSE s \in Staff : TRUE,
           service |-> CHOOSE s \in Services : TRUE,
           start |-> CHOOSE t \in Times : TRUE, end |-> CHOOSE t \in Times : TRUE]

Exists(row) == row.status # "NONE"
Active(row) == row.status \in ActiveStatuses

SlotOf(row) == [staff |-> row.staff, service |-> row.service,
                start |-> row.start, end |-> row.end]

MaxAttempts == 3

IdleCall == [phase |-> "idle", op |-> "none", id |-> CHOOSE a \in Appt : TRUE,
             row |-> Absent, keepStatus |-> FALSE, resourceIds |-> {},
             checked |-> FALSE, promo |-> FALSE, accepts |-> FALSE, locked |-> {},
             missed |-> {}, doomed |-> FALSE, attempt |-> 0]

(***************************************************************************)
(* accepts, locked: what the checks and the FOR UPDATE queries return on   *)
(* the snapshot of a transaction.  missed: rows that checked transactions  *)
(* have committed since.  doomed: it can only end in a write conflict.     *)
(***************************************************************************)
CallRecord == [phase : {"idle", "read", "tx"},
               op : {"none", "create", "reschedule", "updateDetails", "updateStatus"},
               id : Appt, row : Row, keepStatus : BOOLEAN,
               resourceIds : SUBSET Resources, checked : BOOLEAN, promo : BOOLEAN,
               accepts : BOOLEAN, locked : SUBSET Appt, missed : SUBSET Appt,
               doomed : BOOLEAN, attempt : 0 .. MaxAttempts - 1]

Init ==
    /\ appointment = [a \in Appt |-> Absent]
    /\ usageCount = 0
    /\ promoOf = {}
    /\ intents = {}
    /\ calls = [c \in Call |-> IdleCall]
    /\ unvetted = {}

-----------------------------------------------------------------------------
(* The check of a slot, assertBookableWindow, against the rows of the table. *)

(* Mutant: pending appointments do not block. *)
OverlappingConfirmedOnly(a, e) ==
    {b \in Appt \ {a} : /\ appointment[b].status = "CONFIRMED"
                       /\ appointment[b].staff = e.staff
                       /\ Collide(e, appointment[b])}

Overlapping(a, e) ==
    {b \in Appt \ {a} : /\ Active(appointment[b])
                       /\ appointment[b].staff = e.staff
                       /\ Collide(e, appointment[b])}

ResourceBusy(a, e, ids) ==
    \E b \in Appt \ {a} :
        /\ Active(appointment[b])
        /\ ResourceOf(appointment[b]) \in ids
        /\ ~SameInstance(e, appointment[b])
        /\ Collide(e, appointment[b])

(* Mutants: one seat too many; no look at the rooms. *)
AssertOneSeatTooMany(a, e, ids) ==
    /\ InHours(e)
    /\ \A b \in Overlapping(a, e) : SameInstance(e, appointment[b])
    /\ Cardinality(Overlapping(a, e)) =< Seats(e)
    /\ ~ResourceBusy(a, e, ids)

AssertWithoutRooms(a, e, ids) ==
    /\ InHours(e)
    /\ \A b \in Overlapping(a, e) : SameInstance(e, appointment[b])
    /\ Cardinality(Overlapping(a, e)) < Seats(e)

AssertBookableWindow(a, e, ids) ==
    /\ InHours(e)
    /\ \A b \in Overlapping(a, e) : SameInstance(e, appointment[b])
    /\ Cardinality(Overlapping(a, e)) < Seats(e)
    /\ ~ResourceBusy(a, e, ids)

LockNearbyAppointments(a, e, ids) ==
    {b \in Appt \ {a} :
        /\ Active(appointment[b])
        /\ appointment[b].staff = e.staff \/ ResourceOf(appointment[b]) \in ids
        /\ Near(e, appointment[b])}

-----------------------------------------------------------------------------
(* SERIALIZABLE transactions of PostgreSQL. *)

TxAccepts(k) ==
    /\ k.promo => usageCount < MaxUsages
    /\ k.checked => AssertBookableWindow(k.id, k.row, k.resourceIds)

(* The snapshot is taken, and everything that is read is read from it. *)
BeginTx(k) ==
    [k EXCEPT !.phase = "tx", !.accepts = TxAccepts(k), !.missed = {}, !.doomed = FALSE,
              !.locked = IF k.checked /\ TxAccepts(k)
                         THEN LockNearbyAppointments(k.id, k.row, k.resourceIds) ELSE {}]

WrittenRow(k) ==
    IF k.keepStatus THEN [k.row EXCEPT !.status = appointment[k.id].status] ELSE k.row

(* Mutant: the transactions run at READ COMMITTED. *)
NeverFails(k) == FALSE

(***************************************************************************)
(* Serializable snapshot isolation: the transaction and one that committed *)
(* since its snapshot each wrote a row that the other's query would have   *)
(* returned.  PostgreSQL lets at most one of the two commit.               *)
(***************************************************************************)
SerializationFailure(k) ==
    /\ k.checked
    /\ Active(WrittenRow(k))
    /\ \E b \in k.missed \ {k.id} :
        /\ Active(appointment[b])
        /\ Near(k.row, appointment[b]) /\ Near(appointment[b], k.row)
        /\ appointment[b].staff = k.row.staff \/ SameResource(k.row, appointment[b])

(* Its lock query or its write is going to fail: what it has read is void. *)
Doomed(k) == [k EXCEPT !.doomed = TRUE, !.accepts = FALSE, !.locked = {}, !.missed = {}]

(***************************************************************************)
(* What a write of row a does to a transaction in flight that would have   *)
(* gone on to commit: if it locks or writes that row it is doomed, and if  *)
(* the writer is a checked transaction it has missed that row.             *)
(***************************************************************************)
AfterUpdate(q, a) ==
    IF q.accepts /\ a \in q.locked \cup {q.id} THEN Doomed(q) ELSE q

(* Mutant: the promotion is read without FOR UPDATE and written absolutely. *)
AfterCommitNoPromoLock(q, k) ==
    IF q.accepts /\ k.id \in q.locked \cup {q.id} THEN Doomed(q)
    ELSE IF q.accepts /\ k.checked THEN [q EXCEPT !.missed = @ \cup {k.id}]
    ELSE q

AfterCommit(q, k) ==
    IF q.accepts /\ (k.id \in q.locked \cup {q.id} \/ (k.promo /\ q.promo)) THEN Doomed(q)
    ELSE IF q.accepts /\ k.checked THEN [q EXCEPT !.missed = @ \cup {k.id}]
    ELSE q

(* Mutants: one attempt too many; retries without end. *)
TxAbortFourAttempts(c) ==
    LET k == calls[c] IN
    /\ k.phase = "tx"
    /\ calls' = [calls EXCEPT ![c] =
           IF k.attempt < MaxAttempts
           THEN BeginTx([k EXCEPT !.attempt = k.attempt + 1])
           ELSE IdleCall]
    /\ UNCHANGED <<appointment, usageCount, promoOf, intents, unvetted>>

TxAbortRetriesForever(c) ==
    LET k == calls[c] IN
    /\ k.phase = "tx"
    /\ calls' = [calls EXCEPT ![c] = BeginTx(k)]
    /\ UNCHANGED <<appointment, usageCount, promoOf, intents, unvetted>>

(* The write conflict (P2034): retried twice, then answered with an error. *)
TxAbort(c) ==
    LET k == calls[c] IN
    /\ k.phase = "tx"
    /\ calls' = [calls EXCEPT ![c] =
           IF k.attempt < MaxAttempts - 1
           THEN BeginTx([k EXCEPT !.attempt = k.attempt + 1])
           ELSE IdleCall]
    /\ UNCHANGED <<appointment, usageCount, promoOf, intents, unvetted>>

(* The slot is taken, the class full, the promotion used up: 409 or 400. *)
TxReject(c) ==
    /\ calls[c].phase = "tx"
    /\ ~calls[c].doomed
    /\ ~calls[c].accepts
    /\ calls' = [calls EXCEPT ![c] = IdleCall]
    /\ UNCHANGED <<appointment, usageCount, promoOf, intents, unvetted>>

TxCommit(c) ==
    LET k == calls[c] IN
    /\ k.phase = "tx"
    /\ ~k.doomed
    /\ k.accepts
    /\ ~SerializationFailure(k)
    /\ appointment' = [appointment EXCEPT ![k.id] = WrittenRow(k)]
    /\ usageCount' = IF k.promo THEN usageCount + 1 ELSE usageCount
    /\ promoOf' = IF k.promo THEN promoOf \cup {k.id} ELSE promoOf
    /\ unvetted' = IF k.checked THEN unvetted \ {k.id} ELSE unvetted \cup {k.id}
    /\ calls' = [q \in Call |-> IF q = c THEN IdleCall ELSE AfterCommit(calls[q], k)]
    /\ UNCHANGED intents

-----------------------------------------------------------------------------
(* create: the insert happens in the transaction, with a fresh id. *)

Fresh(a) ==
    /\ ~Exists(appointment[a])
    /\ \A c \in Call : calls[c].phase = "tx" => calls[c].id # a

(* At most one additional service; only owners and admins may override. *)
Chosen(d) == {d.serviceId, d.additional} \ {NoService}

EndOf(d) ==
    d.startsAt + Catalog[d.serviceId].duration
      + (IF d.additional = NoService THEN 0 ELSE Catalog[d.additional].duration)

CreateDto ==
    {d \in [staffId : Staff, serviceId : Services, additional : Services \cup {NoService},
            startsAt : Times, confirmed : BOOLEAN, override : BOOLEAN, promo : BOOLEAN] :
        /\ d.additional # d.serviceId
        /\ EndOf(d) \in Times
        /\ d.override => d.confirmed /\ "override" \in Ops
        /\ d.promo => "promo" \in Ops}

NewRow(d) ==
    [status |-> IF d.confirmed \/ AutoApproval THEN "CONFIRMED" ELSE "PENDING",
     staff |-> d.staffId, service |-> d.serviceId, start |-> d.startsAt, end |-> EndOf(d)]

RequestCreate(c) ==
    /\ "create" \in Ops
    /\ calls[c].phase = "idle"
    /\ \E a \in Appt, d \in CreateDto :
        /\ Fresh(a)
        /\ calls' = [calls EXCEPT ![c] = BeginTx([IdleCall EXCEPT
               !.op = "create", !.id = a, !.row = NewRow(d),
               !.resourceIds = ResourceIds(Chosen(d)),
               !.checked = ~d.override, !.promo = d.promo])]
    /\ UNCHANGED <<appointment, usageCount, promoOf, intents, unvetted>>

(* reschedule: length and service come from the row read before the transaction. *)
Longer(m, n) == IF m > n THEN m ELSE n

RequestReschedule(c) ==
    /\ "reschedule" \in Ops
    /\ calls[c].phase = "idle"
    /\ \E a \in Appt, s \in Times, byClient \in BOOLEAN :
        LET old == appointment[a]
            end == s + Longer(old.end - old.start, Catalog[old.service].duration)
        IN
        /\ Exists(old)
        /\ end \in Times
        /\ calls' = [calls EXCEPT ![c] = [IdleCall EXCEPT
               !.phase = "read", !.op = "reschedule", !.id = a,
               !.row = [old EXCEPT !.start = s, !.end = end, !.status = "PENDING"],
               !.keepStatus = ~byClient,
               !.resourceIds = ResourceIds({old.service}), !.checked = TRUE]]
    /\ UNCHANGED <<appointment, usageCount, promoOf, intents, unvetted>>

(* updateDetails with a new start; checked only if it differs from the row read. *)
RequestDetails(c) ==
    /\ "updateDetails" \in Ops
    /\ calls[c].phase = "idle"
    /\ \E a \in Appt, s \in Times :
        LET old == appointment[a]
            end == s + (old.end - old.start)
        IN
        /\ Exists(old)
        /\ end \in Times
        /\ calls' = [calls EXCEPT ![c] = [IdleCall EXCEPT
               !.phase = "read", !.op = "updateDetails", !.id = a,
               !.row = [old EXCEPT !.start = s, !.end = end],
               !.keepStatus = TRUE, !.checked = s # old.start,
               !.resourceIds = ResourceIds({old.service})]]
    /\ UNCHANGED <<appointment, usageCount, promoOf, intents, unvetted>>

StartTx(c) ==
    /\ calls[c].phase = "read"
    /\ calls[c].checked
    /\ calls' = [calls EXCEPT ![c] = BeginTx(@)]
    /\ UNCHANGED <<appointment, usageCount, promoOf, intents, unvetted>>

-----------------------------------------------------------------------------
(* Plain updates: no transaction, no condition on the row that is written. *)

PlainUpdate(a, row) ==
    /\ appointment' = [appointment EXCEPT ![a] = row]
    /\ unvetted' = IF Active(row) /\ (~Active(appointment[a]) \/ SlotOf(row) # SlotOf(appointment[a]))
                   THEN unvetted \cup {a} ELSE unvetted
    /\ UNCHANGED <<usageCount, promoOf, intents>>

(* A handler's last write; a write that belongs to no call in flight. *)
CallUpdates(c, a, row) ==
    /\ PlainUpdate(a, row)
    /\ calls' = [q \in Call |-> IF q = c THEN IdleCall ELSE AfterUpdate(calls[q], a)]

DirectUpdate(a, row) ==
    /\ PlainUpdate(a, row)
    /\ calls' = [q \in Call |-> AfterUpdate(calls[q], a)]

(* updateDetails whose start equals the one read: start and end are rewritten. *)
WriteDetails(c) ==
    LET k == calls[c] IN
    /\ k.phase = "read"
    /\ k.op = "updateDetails"
    /\ ~k.checked
    /\ CallUpdates(c, k.id, [appointment[k.id] EXCEPT !.start = k.row.start, !.end = k.row.end])

ValidTransitions(status) ==
    CASE status = "PENDING"   -> {"CONFIRMED", "CANCELLED"}
      [] status = "CONFIRMED" -> {"COMPLETED", "NO_SHOW", "CANCELLED"}
      [] OTHER                -> {}

RequestStatus(c) ==
    /\ "updateStatus" \in Ops
    /\ calls[c].phase = "idle"
    /\ \E a \in Appt : \E status \in ValidTransitions(appointment[a].status) :
        calls' = [calls EXCEPT ![c] = [IdleCall EXCEPT
            !.phase = "read", !.op = "updateStatus", !.id = a,
            !.row = [appointment[a] EXCEPT !.status = status]]]
    /\ UNCHANGED <<appointment, usageCount, promoOf, intents, unvetted>>

WriteStatus(c) ==
    LET k == calls[c] IN
    /\ k.phase = "read"
    /\ k.op = "updateStatus"
    /\ CallUpdates(c, k.id, [appointment[k.id] EXCEPT !.status = k.row.status])

(* confirm: what it reads before the write can only make it refuse. *)
Confirm(a) ==
    /\ "confirm" \in Ops
    /\ Exists(appointment[a])
    /\ DirectUpdate(a, [appointment[a] EXCEPT !.status = "CONFIRMED"])

-----------------------------------------------------------------------------
(* Deposits: an intent for a pending booking, and what Stripe reports of it, *)
(* any number of times and in any order.                                     *)

CreateBookingIntent(a) ==
    /\ "deposit" \in Ops
    /\ appointment[a].status = "PENDING"
    /\ intents' = intents \cup {a}
    /\ UNCHANGED <<appointment, usageCount, promoOf, calls, unvetted>>

PaymentIntentSucceeded(a) ==
    /\ a \in intents
    /\ appointment[a].status # "CONFIRMED"
    /\ DirectUpdate(a, [appointment[a] EXCEPT !.status = "CONFIRMED"])

PaymentIntentFailed(a) ==
    /\ a \in intents
    /\ appointment[a].status = "PENDING"
    /\ DirectUpdate(a, [appointment[a] EXCEPT !.status = "CANCELLED"])

-----------------------------------------------------------------------------
Request(c) == RequestCreate(c) \/ RequestReschedule(c) \/ RequestDetails(c) \/ RequestStatus(c)

Continue(c) == StartTx(c) \/ TxAbort(c) \/ TxReject(c) \/ TxCommit(c)
                 \/ WriteDetails(c) \/ WriteStatus(c)

Next ==
    \/ \E c \in Call : Request(c) \/ Continue(c)
    \/ \E a \in Appt : \/ Confirm(a) \/ CreateBookingIntent(a)
                       \/ PaymentIntentSucceeded(a) \/ PaymentIntentFailed(a)

Spec == Init /\ [][Next]_vars

(* A handler that has started runs on: nothing waits for another request. *)
FairSpec == Spec /\ \A c \in Call : WF_vars(Continue(c))

-----------------------------------------------------------------------------
(* Every variable has its type; an attempt never exceeds the retry limit. *)
TypeOK ==
    /\ appointment \in [Appt -> Row]
    /\ usageCount \in Nat
    /\ promoOf \subseteq Appt
    /\ intents \subseteq Appt
    /\ calls \in [Call -> CallRecord]
    /\ unvetted \subseteq Appt

(***************************************************************************)
(* The calendar of the appointments that hold their time through the check *)
(* of a transaction.                                                       *)
(***************************************************************************)
Vetted == {a \in Appt : Active(appointment[a])} \ unvetted

VettedDiary == [a \in Vetted |-> SlotOf(appointment[a])]

Cal == INSTANCE Calendar WITH diary <- VettedDiary

(***************************************************************************)
(* create, reschedule and updateDetails, with their snapshots, conflicts   *)
(* and retries, are atomic placements in that calendar, and every other    *)
(* handler only takes entries out of it.                                   *)
(***************************************************************************)
ImplementsCalendar == Cal!CalendarSpec

(***************************************************************************)
(* However all the handlers interleave, two appointments that were both    *)
(* checked never hold colliding times of one provider, nor of one room,    *)
(* and a class never has more checked seats than its capacity.             *)
(***************************************************************************)
VettedNeverCollide ==
    /\ \A a, b \in Vetted :
         /\ a # b
         /\ \/ appointment[a].staff = appointment[b].staff
            \/ SameResource(appointment[a], appointment[b])
         => ~Conflict(appointment[a], appointment[b])
    /\ \A a \in Vetted :
         Cardinality({b \in Vetted : /\ appointment[b].staff = appointment[a].staff
                                     /\ SameInstance(appointment[a], appointment[b])})
         =< Seats(appointment[a])

(***************************************************************************)
(* The check of a transaction is not overtaken: what it found on its       *)
(* snapshot still holds of every vetted appointment except those it has    *)
(* missed, however long it runs and whoever writes meanwhile.              *)
(***************************************************************************)
SlotFits(rows, S, e) ==
    LET overlapping == {b \in S : /\ rows[b].staff = e.staff
                                  /\ Overlaps(Occupied(e), Occupied(rows[b]))}
    IN  /\ \A b \in overlapping : SameInstance(e, rows[b])
        /\ Cardinality(overlapping) < Seats(e)
        /\ \A b \in S : SameResource(e, rows[b]) => ~Conflict(e, rows[b])

SeenBy(k) == Vetted \ (k.missed \cup {k.id})

SnapshotsStillFit ==
    \A c \in Call :
        calls[c].accepts /\ calls[c].checked
        => SlotFits(appointment, SeenBy(calls[c]), calls[c].row)

(***************************************************************************)
(* The row lock on the promotion makes its counter exact: it counts the    *)
(* bookings that carry the code and never passes maxUsages.                *)
(***************************************************************************)
PromoExact == usageCount = Cardinality(promoOf) /\ usageCount =< MaxUsages

(***************************************************************************)
(* The retry loop ends: no request circles between a snapshot and a write  *)
(* conflict for ever.                                                      *)
(***************************************************************************)
EveryCallReturns == \A c \in Call : (calls[c].phase # "idle") ~> (calls[c].phase = "idle")

(***************************************************************************)
(* README.md:160 (double-booking prevention): concurrent requests          *)
(* serialise and only one holds the time.  Over all active appointments:   *)
(* a provider has two at once only if they are seats of one class.         *)
(***************************************************************************)
NoDoubleBooking ==
    \A a, b \in Appt :
        ( /\ a # b
          /\ Active(appointment[a]) /\ Active(appointment[b])
          /\ appointment[a].staff = appointment[b].staff
          /\ Overlaps(Occupied(appointment[a]), Occupied(appointment[b])) )
        => SameInstance(appointment[a], appointment[b]) /\ Seats(appointment[a]) > 1
=============================================================================
