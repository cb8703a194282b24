--------------------------- MODULE BookingsProofs -----------------------------
(***************************************************************************)
(* The booking handlers keep their types, their promotion counter and      *)
(* their calendar for every catalog, every number of appointments and      *)
(* every number of concurrent requests; and what is offered to clients     *)
(* is what the check of a booking finds.                                   *)
(***************************************************************************)
EXTENDS Availability, ScheduleProofs, FiniteSetTheorems

(***************************************************************************)
(* The inductive invariant.  TypeOK alone is not inductive: it takes the   *)
(* following facts about rows and about what the handlers hold.            *)
(***************************************************************************)

(* A row that exists has a positive length; intents are for such rows. *)
RowsOK ==
    /\ \A a \in Appt : Exists(appointment[a]) => appointment[a].start < appointment[a].end
    /\ \A a \in intents : Exists(appointment[a])

(* What a handler is going to write is a row, checked unless it is an override. *)
CallOK(k) ==
    /\ k.accepts => k.phase = "tx"
    /\ k.phase # "idle" => Exists(k.row) /\ k.row.start < k.row.end
    /\ k.phase = "read" \/ (k.phase = "tx" /\ k.op # "create") =>
         k.op # "create" /\ Exists(appointment[k.id])
    /\ k.phase = "tx" /\ ~k.checked => k.op = "create"
    /\ k.phase # "idle" /\ k.checked => ResourceIds({k.row.service}) \subseteq k.resourceIds
    /\ k.promo => k.op = "create"
    /\ k.keepStatus => k.op # "create"

(* An insert has its id to itself. *)
IdsFresh ==
    \A c \in Call :
        calls[c].phase = "tx" /\ calls[c].op = "create" =>
            /\ ~Exists(appointment[calls[c].id])
            /\ \A d \in Call \ {c} : calls[d].phase = "tx" => calls[d].id # calls[c].id

HandlersOK == (\A c \in Call : CallOK(calls[c])) /\ IdsFresh

TypeInv == TypeOK /\ RowsOK /\ HandlersOK

-----------------------------------------------------------------------------
LEMMA AbsentType == Absent \in Row /\ ~Exists(Absent)
  BY StaffAssumption, DiaryAssumption DEF Absent, Row, Exists, Services

LEMMA IdleCallType == IdleCall \in CallRecord /\ CallOK(IdleCall)
  BY AbsentType, ApptAssumption DEF IdleCall, CallRecord, CallOK, MaxAttempts

(* A row that exists, read as an entry of the calendar. *)
LEMMA SlotIsEntry ==
    ASSUME NEW r \in Row, r.start < r.end
    PROVE  SlotOf(r) \in Entry
  BY DEF SlotOf, Row, Entry

(* The typing of a snapshot; nothing but the transaction's own fields change. *)
LEMMA BeginTxType ==
    ASSUME TypeOK, NEW k \in CallRecord
    PROVE  LET b == BeginTx(k) IN
           /\ b \in CallRecord
           /\ b.phase = "tx" /\ b.missed = {} /\ b.accepts = TxAccepts(k)
           /\ b.op = k.op /\ b.id = k.id /\ b.row = k.row /\ b.keepStatus = k.keepStatus
           /\ b.resourceIds = k.resourceIds /\ b.checked = k.checked /\ b.promo = k.promo
  <1>1. TxAccepts(k) \in BOOLEAN
    BY DEF TxAccepts
  <1>2. LockNearbyAppointments(k.id, k.row, k.resourceIds) \subseteq Appt
    BY DEF LockNearbyAppointments
  <1> QED BY <1>1, <1>2 DEF BeginTx, CallRecord

(* What somebody else's write leaves of a handler's variables. *)
Carries(q, r) ==
    /\ r \in CallRecord
    /\ r.phase = q.phase /\ r.op = q.op /\ r.id = q.id /\ r.row = q.row
    /\ r.keepStatus = q.keepStatus /\ r.resourceIds = q.resourceIds
    /\ r.checked = q.checked /\ r.promo = q.promo
    /\ r.accepts => q.accepts

LEMMA AfterUpdateCarries ==
    ASSUME NEW q \in CallRecord, NEW a \in Appt
    PROVE  /\ Carries(q, AfterUpdate(q, a))
           /\ AfterUpdate(q, a).accepts => AfterUpdate(q, a) = q
  BY DEF AfterUpdate, Doomed, CallRecord, Carries

LEMMA AfterCommitCarries ==
    ASSUME NEW q \in CallRecord, NEW k \in CallRecord
    PROVE  /\ Carries(q, AfterCommit(q, k))
           /\ AfterCommit(q, k).accepts =>
                /\ k.checked => AfterCommit(q, k).missed = q.missed \cup {k.id}
                /\ ~k.checked => AfterCommit(q, k).missed = q.missed
                /\ ~(q.promo /\ k.promo)
                /\ k.id # q.id
  <1>1. Carries(q, Doomed(q)) /\ ~Doomed(q).accepts
    BY DEF Doomed, CallRecord, Carries
  <1>2. Carries(q, q)
    BY DEF Carries
  <1>3. LET r == [q EXCEPT !.missed = @ \cup {k.id}] IN
        Carries(q, r) /\ r.missed = q.missed \cup {k.id}
    BY DEF Carries, CallRecord
  <1> QED BY <1>1, <1>2, <1>3 DEF AfterCommit

-----------------------------------------------------------------------------
(***************************************************************************)
(* The actions fall into four shapes, and every preservation proof goes    *)
(* through these: one handler's variables change; a row that exists is     *)
(* rewritten in place; a transaction commits; an intent is recorded.       *)
(***************************************************************************)
HandlerSets(c, x) ==
    /\ calls' = [calls EXCEPT ![c] = x]
    /\ UNCHANGED <<appointment, usageCount, promoOf, intents, unvetted>>
    /\ CallOK(x)
    /\ x.phase = "tx" /\ x.op = "create" =>
         /\ ~Exists(appointment[x.id])
         /\ \A d \in Call \ {c} : calls[d].phase = "tx" => calls[d].id # x.id
    /\ x.accepts => x.missed = {} /\ TxAccepts(x)

HandlerStep == \E c \in Call, x \in CallRecord : HandlerSets(c, x)

Rewrites(a, row, done) ==
    /\ Exists(appointment[a]) /\ Exists(row) /\ row.start < row.end
    /\ PlainUpdate(a, row)
    /\ calls' = [q \in Call |-> IF q \in done THEN IdleCall ELSE AfterUpdate(calls[q], a)]

UpdateStep == \E a \in Appt, row \in Row, done \in SUBSET Call : Rewrites(a, row, done)

CommitStep == \E c \in Call : TxCommit(c)

IntentStep == \E a \in Appt : CreateBookingIntent(a)

-----------------------------------------------------------------------------
LEMMA HandlerStepTyped ==
    ASSUME TypeInv, NEW c \in Call, NEW x \in CallRecord, HandlerSets(c, x)
    PROVE  TypeInv'
  <1> USE DEF HandlerSets
  <1>1. TypeOK'
    BY DEF TypeInv, TypeOK
  <1>2. RowsOK'
    BY DEF TypeInv, RowsOK
  <1>3. \A q \in Call : calls'[q] = IF q = c THEN x ELSE calls[q]
    BY DEF TypeInv, TypeOK
  <1>4. ASSUME NEW q \in Call PROVE CallOK(calls[q])'
    <2>1. CASE q = c
      BY <2>1, <1>3 DEF CallOK
    <2>2. CASE q # c
      BY <2>2, <1>3 DEF TypeInv, HandlersOK, CallOK
    <2> QED BY <2>1, <2>2
  <1>5. IdsFresh'
    <2> SUFFICES ASSUME NEW q \in Call, calls'[q].phase = "tx", calls'[q].op = "create"
                 PROVE  /\ ~Exists(appointment[calls'[q].id])
                        /\ \A d \in Call \ {q} :
                             calls'[d].phase = "tx" => calls'[d].id # calls'[q].id
      BY DEF IdsFresh
    <2>1. CASE q = c
      BY <2>1, <1>3
    <2>2. CASE q # c
      <3>1. calls'[q] = calls[q] /\ ~Exists(appointment[calls[q].id])
        BY <2>2, <1>3 DEF TypeInv, HandlersOK, IdsFresh
      <3>2. x.phase = "tx" => x.id # calls[q].id
        BY <2>2, <3>1 DEF CallOK
      <3> QED BY <2>2, <3>1, <3>2, <1>3 DEF TypeInv, HandlersOK, IdsFresh
    <2> QED BY <2>1, <2>2
  <1> QED BY <1>1, <1>2, <1>4, <1>5 DEF TypeInv, HandlersOK

(* A plain update of a row that exists by a row that exists. *)
LEMMA UpdateStepTyped ==
    ASSUME TypeInv, NEW a \in Appt, NEW row \in Row, NEW done \in SUBSET Call,
           Rewrites(a, row, done)
    PROVE  TypeInv'
  <1> USE DEF Rewrites
  <1>1. \A b \in Appt : /\ appointment'[b] = IF b = a THEN row ELSE appointment[b]
                        /\ Exists(appointment[b]) <=> Exists(appointment'[b])
    BY DEF PlainUpdate, TypeInv, TypeOK
  <1>2. \A q \in Call : calls[q] \in CallRecord
    BY DEF TypeInv, TypeOK
  <1>3. calls' \in [Call -> CallRecord]
    BY <1>2, AfterUpdateCarries, IdleCallType DEF Carries
  <1>4. TypeOK'
    <2>1. appointment' \in [Appt -> Row]
      BY DEF PlainUpdate, TypeInv, TypeOK
    <2>2. unvetted' \subseteq Appt
      BY DEF PlainUpdate, TypeInv, TypeOK
    <2>3. UNCHANGED <<usageCount, promoOf, intents>>
      BY DEF PlainUpdate
    <2> QED BY <1>3, <2>1, <2>2, <2>3 DEF TypeInv, TypeOK
  <1>5. RowsOK'
    <2>1. intents' = intents
      BY DEF PlainUpdate
    <2>2. \A b \in intents : b \in Appt
      BY DEF TypeInv, TypeOK
    <2> QED BY <1>1, <2>1, <2>2 DEF TypeInv, RowsOK, Exists
  <1>6. ASSUME NEW q \in Call, q \notin done
        PROVE  Carries(calls[q], calls'[q]) /\ calls[q].id \in Appt
    <2>1. calls'[q] = AfterUpdate(calls[q], a)
      BY <1>6
    <2>2. calls[q].id \in Appt
      BY <1>2 DEF CallRecord
    <2> QED BY <2>1, <2>2, <1>2, AfterUpdateCarries
  <1>7. \A q \in done : calls'[q] = IdleCall
    OBVIOUS
  <1>8. ASSUME NEW q \in Call PROVE CallOK(calls[q])'
    <2>1. CASE q \in done
      BY <2>1, <1>7, IdleCallType DEF CallOK, IdleCall
    <2>2. CASE q \notin done
      <3>1. CallOK(calls[q])
        BY DEF TypeInv, HandlersOK
      <3>2. Exists(appointment[calls[q].id]) <=> Exists(appointment'[calls[q].id])
        <4>1. calls[q].id \in Appt
          BY <2>2, <1>6
        <4> QED BY <4>1, <1>1
      <3>3. Carries(calls[q], calls'[q])
        BY <2>2, <1>6
      <3> QED BY <3>1, <3>2, <3>3 DEF CallOK, Carries
    <2> QED BY <2>1, <2>2
  <1>9. IdsFresh'
    <2>1. \A q \in Call : calls'[q].phase = "tx" => q \notin done
      BY <1>7 DEF IdleCall
    <2> QED BY <2>1, <1>6, <1>1 DEF TypeInv, HandlersOK, IdsFresh, Carries
  <1> QED BY <1>4, <1>5, <1>8, <1>9 DEF TypeInv, HandlersOK

(* What a transaction writes is a row that exists. *)
LEMMA WrittenRowType ==
    ASSUME TypeInv, NEW c \in Call, calls[c].phase = "tx"
    PROVE  /\ WrittenRow(calls[c]) \in Row
           /\ Exists(WrittenRow(calls[c]))
           /\ WrittenRow(calls[c]).start < WrittenRow(calls[c]).end
           /\ SlotOf(WrittenRow(calls[c])) = SlotOf(calls[c].row)
           /\ calls[c].id \in Appt /\ calls[c].row \in Row
  <1>1. calls[c] \in CallRecord /\ CallOK(calls[c])
    BY DEF TypeInv, TypeOK, HandlersOK
  <1>2. calls[c].keepStatus => Exists(appointment[calls[c].id])
    BY <1>1 DEF CallOK
  <1> QED BY <1>1, <1>2 DEF WrittenRow, SlotOf, CallOK, CallRecord, Row, Exists, TypeInv, TypeOK

LEMMA CommitStepTyped ==
    ASSUME TypeInv, NEW c \in Call, TxCommit(c)
    PROVE  TypeInv'
  <1> DEFINE k == calls[c]
  <1>1. /\ k.phase = "tx" /\ k \in CallRecord /\ k.id \in Appt
        /\ WrittenRow(k) \in Row /\ Exists(WrittenRow(k))
        /\ WrittenRow(k).start < WrittenRow(k).end
    BY WrittenRowType DEF TxCommit, TypeInv, TypeOK
  <1>2. \A b \in Appt :
          appointment'[b] = IF b = k.id THEN WrittenRow(k) ELSE appointment[b]
    BY DEF TxCommit, TypeInv, TypeOK
  <1>3. \A q \in Call : calls'[q] = IF q = c THEN IdleCall ELSE AfterCommit(calls[q], k)
    BY DEF TxCommit
  <1>4. \A q \in Call : calls[q] \in CallRecord
    BY DEF TypeInv, TypeOK
  <1>5. TypeOK'
    <2>1. appointment' \in [Appt -> Row]
      BY <1>1 DEF TxCommit, TypeInv, TypeOK
    <2>2. calls' \in [Call -> CallRecord]
      BY <1>1, <1>4, AfterCommitCarries, IdleCallType DEF TxCommit, Carries
    <2>3. usageCount' \in Nat /\ promoOf' \subseteq Appt /\ intents' \subseteq Appt
          /\ unvetted' \subseteq Appt
      BY <1>1 DEF TxCommit, TypeInv, TypeOK
    <2> QED BY <2>1, <2>2, <2>3 DEF TypeOK
  <1>6. RowsOK'
    <2>1. intents' = intents /\ \A b \in intents : b \in Appt
      BY DEF TxCommit, TypeInv, TypeOK
    <2> QED BY <1>1, <1>2, <2>1 DEF TypeInv, RowsOK, Exists
  <1>7. ASSUME NEW q \in Call, q # c
        PROVE  Carries(calls[q], calls'[q]) /\ calls[q].id \in Appt
    <2>1. calls'[q] = AfterCommit(calls[q], k)
      BY <1>7, <1>3
    <2>2. calls[q].id \in Appt
      BY <1>4 DEF CallRecord
    <2> QED BY <2>1, <2>2, <1>1, <1>4, AfterCommitCarries
  <1>8. calls'[c] = IdleCall
    BY <1>3
  <1>9. ASSUME NEW q \in Call PROVE CallOK(calls[q])'
    <2>1. CASE q = c
      BY <2>1, <1>8, IdleCallType DEF CallOK, IdleCall
    <2>2. CASE q # c
      <3>1. CallOK(calls[q]) /\ calls[q].id \in Appt
        BY <2>2, <1>7 DEF TypeInv, HandlersOK
      <3>2. Exists(appointment[calls[q].id]) => Exists(appointment'[calls[q].id])
        BY <3>1, <1>1, <1>2
      <3> QED BY <2>2, <1>7, <3>1, <3>2 DEF CallOK, Carries
    <2> QED BY <2>1, <2>2
  <1>10. IdsFresh'
    <2> SUFFICES ASSUME NEW q \in Call, calls'[q].phase = "tx", calls'[q].op = "create"
                 PROVE  /\ ~Exists(appointment'[calls'[q].id])
                        /\ \A d \in Call \ {q} :
                             calls'[d].phase = "tx" => calls'[d].id # calls'[q].id
      BY DEF IdsFresh
    <2>1. q # c
      BY <1>8 DEF IdleCall
    <2>2. calls[q].phase = "tx" /\ calls[q].op = "create" /\ calls'[q].id = calls[q].id
          /\ calls[q].id \in Appt
      BY <2>1, <1>7 DEF Carries
    <2>3. /\ ~Exists(appointment[calls[q].id])
          /\ \A d \in Call \ {q} : calls[d].phase = "tx" => calls[d].id # calls[q].id
      BY <2>2 DEF TypeInv, HandlersOK, IdsFresh
    <2>4. ~Exists(appointment'[calls[q].id])
      BY <2>1, <2>2, <2>3, <1>1, <1>2
    <2>5. \A d \in Call \ {q} : calls'[d].phase = "tx" => calls'[d].id # calls[q].id
      BY <2>3, <1>7, <1>8 DEF IdleCall, Carries
    <2> QED BY <2>2, <2>4, <2>5
  <1> QED BY <1>5, <1>6, <1>9, <1>10 DEF TypeInv, HandlersOK

(* A snapshot taken by a handler that holds something. *)
LEMMA BeginTxOK ==
    ASSUME TypeInv, NEW k \in CallRecord,
           Exists(k.row), k.row.start < k.row.end,
           k.op # "create" => Exists(appointment[k.id]),
           ~k.checked => k.op = "create",
           k.checked => ResourceIds({k.row.service}) \subseteq k.resourceIds,
           k.promo => k.op = "create",
           k.keepStatus => k.op # "create"
    PROVE  /\ BeginTx(k) \in CallRecord /\ CallOK(BeginTx(k))
           /\ BeginTx(k).accepts => BeginTx(k).missed = {} /\ TxAccepts(BeginTx(k))
  <1>1. BeginTx(k) \in CallRecord /\ CallOK(BeginTx(k))
    BY BeginTxType DEF CallOK, TypeInv
  <1>2. BeginTx(k).accepts = TxAccepts(k) /\ BeginTx(k).missed = {}
    BY BeginTxType DEF TypeInv
  <1>3. TxAccepts(BeginTx(k)) <=> TxAccepts(k)
    BY BeginTxType DEF TxAccepts, TypeInv
  <1> QED BY <1>1, <1>2, <1>3

(* The record of a call that has only read the row it is going to write. *)
LEMMA ReadCallOK ==
    ASSUME NEW a \in Appt, NEW r \in Row, Exists(appointment[a]), Exists(r), r.start < r.end,
           NEW op \in {"reschedule", "updateDetails", "updateStatus"},
           NEW keep \in BOOLEAN, NEW check \in BOOLEAN,
           NEW ids \in SUBSET Resources, check => ResourceIds({r.service}) \subseteq ids
    PROVE  LET x == [IdleCall EXCEPT !.phase = "read", !.op = op, !.id = a, !.row = r,
                                     !.keepStatus = keep, !.checked = check,
                                     !.resourceIds = ids]
           IN  x \in CallRecord /\ CallOK(x) /\ x.phase = "read" /\ ~x.accepts
  BY IdleCallType DEF IdleCall, CallRecord, CallOK, MaxAttempts

LEMMA ResourceIdsType ==
    ASSUME NEW S \in SUBSET Services
    PROVE  ResourceIds(S) \subseteq Resources
  BY CatalogAssumption DEF ResourceIds

LEMMA RequestCreateShape ==
    ASSUME TypeInv, NEW c \in Call, RequestCreate(c)
    PROVE  HandlerStep
  <1>1. PICK a \in Appt, d \in CreateDto :
          /\ Fresh(a)
          /\ calls' = [calls EXCEPT ![c] = BeginTx([IdleCall EXCEPT
                 !.op = "create", !.id = a, !.row = NewRow(d),
                 !.resourceIds = ResourceIds(Chosen(d)),
                 !.checked = ~d.override, !.promo = d.promo])]
    BY DEF RequestCreate
  <1> DEFINE k == [IdleCall EXCEPT !.op = "create", !.id = a, !.row = NewRow(d),
                                   !.resourceIds = ResourceIds(Chosen(d)),
                                   !.checked = ~d.override, !.promo = d.promo]
  <1>2. /\ d.staffId \in Staff /\ d.serviceId \in Services
        /\ d.additional \in Services \cup {NoService}
        /\ d.startsAt \in Times /\ EndOf(d) \in Times
        /\ d.override \in BOOLEAN /\ d.promo \in BOOLEAN
    BY DEF CreateDto
  <1>3. d.startsAt < EndOf(d)
    <2>1. \A v \in Services : Catalog[v].duration \in Nat /\ Catalog[v].duration >= 1
      BY CatalogAssumption
    <2>2. d.startsAt \in Int
      BY <1>2, DiaryAssumption
    <2>3. CASE d.additional = NoService
      BY <2>1, <2>2, <2>3, <1>2 DEF EndOf
    <2>4. CASE d.additional # NoService
      <3>1. d.additional \in Services
        BY <2>4, <1>2
      <3> QED BY <2>1, <2>2, <2>4, <3>1, <1>2 DEF EndOf
    <2> QED BY <2>3, <2>4
  <1>4. /\ NewRow(d) \in Row /\ Exists(NewRow(d))
        /\ NewRow(d).start < NewRow(d).end
        /\ NewRow(d).service = d.serviceId
    BY <1>2, <1>3 DEF NewRow, Row, Exists, Statuses, ActiveStatuses
  <1>5. /\ ResourceIds(Chosen(d)) \subseteq Resources
        /\ ResourceIds({d.serviceId}) \subseteq ResourceIds(Chosen(d))
    <2>1. Chosen(d) \subseteq Services /\ d.serviceId \in Chosen(d)
      BY <1>2, ApptAssumption, BookingAssumption DEF Chosen
    <2> QED BY <2>1, ResourceIdsType DEF ResourceIds
  <1>6. /\ k \in CallRecord
        /\ k.op = "create" /\ k.id = a /\ k.row = NewRow(d) /\ ~k.keepStatus
        /\ k.resourceIds = ResourceIds(Chosen(d)) /\ k.checked = ~d.override
    BY <1>2, <1>4, <1>5, IdleCallType DEF IdleCall, CallRecord
  <1> HIDE DEF k
  <1>7. /\ BeginTx(k) \in CallRecord /\ CallOK(BeginTx(k))
        /\ BeginTx(k).accepts => BeginTx(k).missed = {} /\ TxAccepts(BeginTx(k))
    BY <1>4, <1>5, <1>6, BeginTxOK
  <1>8. BeginTx(k).id = a
    BY <1>6, BeginTxType DEF TypeInv
  <1>9. ~Exists(appointment[a]) /\ \A q \in Call : calls[q].phase = "tx" => calls[q].id # a
    BY <1>1 DEF Fresh
  <1>10. /\ calls' = [calls EXCEPT ![c] = BeginTx(k)]
         /\ UNCHANGED <<appointment, usageCount, promoOf, intents, unvetted>>
    BY <1>1 DEF RequestCreate, k
  <1> QED BY <1>7, <1>8, <1>9, <1>10 DEF HandlerStep, HandlerSets

LEMMA RequestRescheduleShape ==
    ASSUME TypeInv, NEW c \in Call, RequestReschedule(c)
    PROVE  HandlerStep
  <1>1. PICK a \in Appt, s \in Times, byClient \in BOOLEAN :
          LET old == appointment[a]
              end == s + Longer(old.end - old.start, Catalog[old.service].duration)
          IN
          /\ Exists(old)
          /\ end \in Times
          /\ calls' = [calls EXCEPT ![c] = [IdleCall EXCEPT
                 !.phase = "read", !.op = "reschedule", !.id = a,
                 !.row = [old EXCEPT !.start = s, !.end = end, !.status = "PENDING"],
                 !.keepStatus = ~byClient,
                 !.resourceIds = ResourceIds({old.service}), !.checked = TRUE]]
    BY DEF RequestReschedule
  <1> DEFINE old == appointment[a]
             end == s + Longer(old.end - old.start, Catalog[old.service].duration)
             r == [old EXCEPT !.start = s, !.end = end, !.status = "PENDING"]
             x == [IdleCall EXCEPT !.phase = "read", !.op = "reschedule", !.id = a, !.row = r,
                                   !.keepStatus = ~byClient, !.checked = TRUE,
                                   !.resourceIds = ResourceIds({old.service})]
  <1>2. old \in Row /\ old.service \in Services /\ old.start \in Int /\ old.end \in Int
    BY DiaryAssumption DEF TypeInv, TypeOK, Row
  <1>3. s < end /\ end \in Times
    <2>1. Catalog[old.service].duration \in Nat \ {0}
      BY <1>2, CatalogAssumption
    <2>2. Longer(old.end - old.start, Catalog[old.service].duration) >= 1
      BY <1>2, <2>1 DEF Longer
    <2>3. Longer(old.end - old.start, Catalog[old.service].duration) \in Int /\ s \in Int
      BY <1>2, <2>1, DiaryAssumption DEF Longer
    <2> QED BY <2>2, <2>3, <1>1
  <1> HIDE DEF end
  <1>4. r \in Row /\ Exists(r) /\ r.start < r.end /\ r.service = old.service
    BY <1>2, <1>3 DEF Row, Exists, Statuses, ActiveStatuses
  <1>5. ResourceIds({old.service}) \subseteq Resources
    BY <1>2, ResourceIdsType
  <1>6. x \in CallRecord /\ CallOK(x)
    BY <1>1, <1>4, <1>5, ReadCallOK
  <1>7. x.phase = "read" /\ ~x.accepts
    BY DEF IdleCall
  <1>8. calls' = [calls EXCEPT ![c] = x]
    BY <1>1 DEF end
  <1>9. UNCHANGED <<appointment, usageCount, promoOf, intents, unvetted>>
    BY DEF RequestReschedule
  <1> HIDE DEF x
  <1> QED BY <1>6, <1>7, <1>8, <1>9 DEF HandlerStep, HandlerSets

LEMMA RequestDetailsShape ==
    ASSUME TypeInv, NEW c \in Call, RequestDetails(c)
    PROVE  HandlerStep
  <1>1. PICK a \in Appt, s \in Times :
          LET old == appointment[a]
              end == s + (old.end - old.start)
          IN
          /\ Exists(old)
          /\ end \in Times
          /\ calls' = [calls EXCEPT ![c] = [IdleCall EXCEPT
                 !.phase = "read", !.op = "updateDetails", !.id = a,
                 !.row = [old EXCEPT !.start = s, !.end = end],
                 !.keepStatus = TRUE, !.checked = s # old.start,
                 !.resourceIds = ResourceIds({old.service})]]
    BY DEF RequestDetails
  <1> DEFINE old == appointment[a]
             end == s + (old.end - old.start)
             r == [old EXCEPT !.start = s, !.end = end]
             x == [IdleCall EXCEPT !.phase = "read", !.op = "updateDetails", !.id = a, !.row = r,
                                   !.keepStatus = TRUE, !.checked = s # old.start,
                                   !.resourceIds = ResourceIds({old.service})]
  <1>2. /\ old \in Row /\ old.service \in Services /\ old.start < old.end
        /\ old.start \in Int /\ old.end \in Int /\ s \in Int
    BY <1>1, DiaryAssumption DEF TypeInv, TypeOK, RowsOK, Row
  <1>3. s < end /\ end \in Times
    BY <1>1, <1>2
  <1> HIDE DEF end
  <1>4. r \in Row /\ Exists(r) /\ r.start < r.end /\ r.service = old.service
    BY <1>1, <1>2, <1>3 DEF Row, Exists
  <1>5. ResourceIds({old.service}) \subseteq Resources
    BY <1>2, ResourceIdsType
  <1>6. x \in CallRecord /\ CallOK(x)
    BY <1>1, <1>4, <1>5, ReadCallOK
  <1>7. x.phase = "read" /\ ~x.accepts
    BY DEF IdleCall
  <1>8. calls' = [calls EXCEPT ![c] = x]
    BY <1>1 DEF end
  <1>9. UNCHANGED <<appointment, usageCount, promoOf, intents, unvetted>>
    BY DEF RequestDetails
  <1> HIDE DEF x
  <1> QED BY <1>6, <1>7, <1>8, <1>9 DEF HandlerStep, HandlerSets

LEMMA RequestStatusShape ==
    ASSUME TypeInv, NEW c \in Call, RequestStatus(c)
    PROVE  HandlerStep
  <1>1. PICK a \in Appt : \E status \in ValidTransitions(appointment[a].status) :
          calls' = [calls EXCEPT ![c] = [IdleCall EXCEPT
              !.phase = "read", !.op = "updateStatus", !.id = a,
              !.row = [appointment[a] EXCEPT !.status = status]]]
    BY DEF RequestStatus
  <1>2. PICK status \in ValidTransitions(appointment[a].status) :
          calls' = [calls EXCEPT ![c] = [IdleCall EXCEPT
              !.phase = "read", !.op = "updateStatus", !.id = a,
              !.row = [appointment[a] EXCEPT !.status = status]]]
    BY <1>1
  <1> DEFINE r == [appointment[a] EXCEPT !.status = status]
             x == [IdleCall EXCEPT !.phase = "read", !.op = "updateStatus", !.id = a, !.row = r]
  <1>3. status \in Statuses /\ Exists(appointment[a])
    BY DEF ValidTransitions, Statuses, ActiveStatuses, Exists
  <1>4. r \in Row /\ Exists(r) /\ r.start < r.end
    BY <1>3 DEF Row, Exists, TypeInv, TypeOK, RowsOK, Statuses, ActiveStatuses
  <1>5. x \in CallRecord /\ CallOK(x) /\ x.phase = "read" /\ ~x.accepts
    BY <1>3, <1>4, IdleCallType DEF IdleCall, CallRecord, CallOK, MaxAttempts
  <1>6. calls' = [calls EXCEPT ![c] = x]
    BY <1>2
  <1>7. UNCHANGED <<appointment, usageCount, promoOf, intents, unvetted>>
    BY DEF RequestStatus
  <1> HIDE DEF x
  <1> QED BY <1>5, <1>6, <1>7 DEF HandlerStep, HandlerSets

(* A handler that takes a snapshot, anew or again. *)
LEMMA SnapshotShape ==
    ASSUME TypeInv, NEW c \in Call, NEW k \in CallRecord, calls' = [calls EXCEPT ![c] = BeginTx(k)],
           UNCHANGED <<appointment, usageCount, promoOf, intents, unvetted>>,
           calls[c].phase # "idle", Carries(calls[c], [k EXCEPT !.accepts = FALSE]),
           calls[c].phase = "read" => k.checked
    PROVE  HandlerStep
  <1>1. calls[c] \in CallRecord /\ CallOK(calls[c])
    BY DEF TypeInv, TypeOK, HandlersOK
  <1>2. /\ k.op = calls[c].op /\ k.id = calls[c].id /\ k.row = calls[c].row
        /\ k.keepStatus = calls[c].keepStatus /\ k.resourceIds = calls[c].resourceIds
        /\ k.checked = calls[c].checked /\ k.promo = calls[c].promo
        /\ k.phase = calls[c].phase
    BY DEF Carries, CallRecord
  <1>3. calls[c].phase = "read" \/ calls[c].phase = "tx"
    BY <1>1 DEF CallRecord
  <1>4. /\ BeginTx(k) \in CallRecord /\ CallOK(BeginTx(k))
        /\ BeginTx(k).accepts => BeginTx(k).missed = {} /\ TxAccepts(BeginTx(k))
    <2>1. k.op # "create" => Exists(appointment[k.id])
      BY <1>1, <1>2, <1>3 DEF CallOK
    <2>2. ~k.checked => k.op = "create"
      BY <1>1, <1>2, <1>3 DEF CallOK
    <2>3. /\ k.checked => ResourceIds({k.row.service}) \subseteq k.resourceIds
          /\ Exists(k.row) /\ k.row.start < k.row.end
          /\ k.promo => k.op = "create"
          /\ k.keepStatus => k.op # "create"
      BY <1>1, <1>2, <1>3 DEF CallOK
    <2> QED BY <2>1, <2>2, <2>3, BeginTxOK
  <1>5. BeginTx(k).op = calls[c].op /\ BeginTx(k).id = calls[c].id
    BY <1>2, BeginTxType DEF TypeInv
  <1>6. calls[c].op = "create" =>
          /\ ~Exists(appointment[calls[c].id])
          /\ \A d \in Call \ {c} : calls[d].phase = "tx" => calls[d].id # calls[c].id
    BY <1>1, <1>3 DEF TypeInv, HandlersOK, IdsFresh, CallOK
  <1> QED BY <1>4, <1>5, <1>6 DEF HandlerStep, HandlerSets

LEMMA ContinueShape ==
    ASSUME TypeInv, NEW c \in Call, Continue(c)
    PROVE  HandlerStep \/ UpdateStep \/ CommitStep
  <1> DEFINE k == calls[c]
  <1>1. k \in CallRecord /\ CallOK(k) /\ k.id \in Appt
    BY DEF TypeInv, TypeOK, HandlersOK, CallRecord
  <1>2. CASE StartTx(c)
    <2>1. Carries(k, [k EXCEPT !.accepts = FALSE])
      BY <1>1 DEF Carries, CallRecord
    <2>2. calls' = [calls EXCEPT ![c] = BeginTx(k)]
      BY <1>2 DEF StartTx
    <2> QED BY <1>1, <1>2, <2>1, <2>2, SnapshotShape DEF StartTx
  <1>3. CASE TxAbort(c)
    <2>1. CASE k.attempt < MaxAttempts - 1
      <3> DEFINE n == [k EXCEPT !.attempt = k.attempt + 1]
      <3>1. n \in CallRecord /\ Carries(k, [n EXCEPT !.accepts = FALSE])
        <4>1. k.attempt \in Int /\ 0 =< k.attempt /\ k.attempt + 1 \in 0 .. MaxAttempts - 1
          BY <1>1, <2>1 DEF CallRecord, MaxAttempts
        <4>2. n \in CallRecord
          BY <1>1, <4>1 DEF CallRecord
        <4>3. [n EXCEPT !.accepts = FALSE] \in CallRecord
          BY <4>2 DEF CallRecord
        <4> QED BY <1>1, <4>2, <4>3 DEF Carries, CallRecord
      <3>2. calls' = [calls EXCEPT ![c] = BeginTx(n)]
        BY <1>3, <2>1 DEF TxAbort
      <3> HIDE DEF n
      <3> QED BY <1>3, <3>1, <3>2, SnapshotShape DEF TxAbort
    <2>2. CASE ~(k.attempt < MaxAttempts - 1)
      <3>1. calls' = [calls EXCEPT ![c] = IdleCall]
        BY <1>3, <2>2 DEF TxAbort
      <3>2. IdleCall.phase = "idle" /\ ~IdleCall.accepts
        BY DEF IdleCall
      <3> QED BY <1>3, <3>1, <3>2, IdleCallType DEF TxAbort, HandlerStep, HandlerSets
    <2> QED BY <2>1, <2>2
  <1>4. CASE TxReject(c)
    <2>1. IdleCall.phase = "idle" /\ ~IdleCall.accepts
      BY DEF IdleCall
    <2> QED BY <1>4, <2>1, IdleCallType DEF TxReject, HandlerStep, HandlerSets
  <1>5. CASE TxCommit(c)
    BY <1>5 DEF CommitStep
  <1>6. CASE WriteDetails(c)
    <2> DEFINE r == [appointment[k.id] EXCEPT !.start = k.row.start, !.end = k.row.end]
    <2>1. Exists(appointment[k.id]) /\ Exists(k.row) /\ k.row.start < k.row.end
      BY <1>1, <1>6 DEF WriteDetails, CallOK
    <2>2. r \in Row /\ Exists(r) /\ r.start < r.end
      BY <1>1, <2>1 DEF TypeInv, TypeOK, Row, Exists, CallRecord
    <2>3. /\ PlainUpdate(k.id, r)
          /\ calls' = [q \in Call |-> IF q \in {c} THEN IdleCall ELSE AfterUpdate(calls[q], k.id)]
      BY <1>6 DEF WriteDetails, CallUpdates
    <2> HIDE DEF r
    <2> QED BY <1>1, <2>1, <2>2, <2>3 DEF UpdateStep, Rewrites
  <1>7. CASE WriteStatus(c)
    <2> DEFINE r == [appointment[k.id] EXCEPT !.status = k.row.status]
    <2>1. Exists(appointment[k.id]) /\ Exists(k.row)
      BY <1>1, <1>7 DEF WriteStatus, CallOK
    <2>2. r \in Row /\ Exists(r) /\ r.start < r.end
      BY <1>1, <2>1 DEF TypeInv, TypeOK, RowsOK, Row, Exists, CallRecord
    <2>3. /\ PlainUpdate(k.id, r)
          /\ calls' = [q \in Call |-> IF q \in {c} THEN IdleCall ELSE AfterUpdate(calls[q], k.id)]
      BY <1>7 DEF WriteStatus, CallUpdates
    <2> HIDE DEF r
    <2> QED BY <1>1, <2>1, <2>2, <2>3 DEF UpdateStep, Rewrites
  <1> QED BY <1>2, <1>3, <1>4, <1>5, <1>6, <1>7 DEF Continue

(* The writes that belong to no call in flight only change a row's status. *)
LEMMA DirectShape ==
    ASSUME TypeInv, NEW a \in Appt,
           \/ Confirm(a) \/ CreateBookingIntent(a)
           \/ PaymentIntentSucceeded(a) \/ PaymentIntentFailed(a)
    PROVE  UpdateStep \/ IntentStep
  <1>1. ASSUME NEW status \in Statuses, Exists(appointment[a]),
               DirectUpdate(a, [appointment[a] EXCEPT !.status = status])
        PROVE  UpdateStep
    <2> DEFINE r == [appointment[a] EXCEPT !.status = status]
    <2>1. r \in Row /\ Exists(r) /\ r.start < r.end
      BY <1>1 DEF TypeInv, TypeOK, RowsOK, Row, Exists, Statuses, ActiveStatuses
    <2>2. /\ PlainUpdate(a, r)
          /\ calls' = [q \in Call |-> IF q \in {} THEN IdleCall ELSE AfterUpdate(calls[q], a)]
      BY <1>1 DEF DirectUpdate
    <2> HIDE DEF r
    <2>3. {} \in SUBSET Call
      OBVIOUS
    <2> QED BY <1>1, <2>1, <2>2, <2>3 DEF UpdateStep, Rewrites
  <1>2. "CONFIRMED" \in Statuses /\ "CANCELLED" \in Statuses
    BY DEF Statuses, ActiveStatuses
  <1>3. CASE Confirm(a)
    BY <1>1, <1>2, <1>3 DEF Confirm
  <1>4. CASE PaymentIntentSucceeded(a)
    BY <1>1, <1>2, <1>4 DEF PaymentIntentSucceeded, TypeInv, RowsOK
  <1>5. CASE PaymentIntentFailed(a)
    BY <1>1, <1>2, <1>5 DEF PaymentIntentFailed, TypeInv, RowsOK
  <1>6. CASE CreateBookingIntent(a)
    BY <1>6 DEF IntentStep
  <1> QED BY <1>3, <1>4, <1>5, <1>6

LEMMA StepShapes ==
    ASSUME TypeInv, Next
    PROVE  HandlerStep \/ UpdateStep \/ CommitStep \/ IntentStep
  <1>1. ASSUME NEW c \in Call, Request(c) PROVE HandlerStep
    BY <1>1, RequestCreateShape, RequestRescheduleShape, RequestDetailsShape,
       RequestStatusShape DEF Request
  <1> QED BY <1>1, ContinueShape, DirectShape DEF Next

LEMMA TypeInvInit == Init => TypeInv
  <1> SUFFICES ASSUME Init PROVE TypeInv
    OBVIOUS
  <1>1. /\ \A a \in Appt : appointment[a] = Absent
        /\ \A c \in Call : calls[c] = IdleCall /\ calls[c].phase = "idle"
    BY DEF Init, IdleCall
  <1>2. TypeOK
    BY AbsentType, IdleCallType DEF Init, TypeOK
  <1>3. RowsOK
    BY <1>1, AbsentType DEF Init, RowsOK
  <1>4. HandlersOK
    BY <1>1, IdleCallType DEF HandlersOK, IdsFresh
  <1> QED BY <1>2, <1>3, <1>4 DEF TypeInv

LEMMA TypeInvStep == TypeInv /\ [Next]_vars => TypeInv'
  <1> SUFFICES ASSUME TypeInv, [Next]_vars PROVE TypeInv'
    OBVIOUS
  <1>1. CASE HandlerStep
    BY <1>1, HandlerStepTyped DEF HandlerStep
  <1>2. CASE UpdateStep
    BY <1>2, UpdateStepTyped DEF UpdateStep
  <1>3. CASE CommitStep
    BY <1>3, CommitStepTyped DEF CommitStep
  <1>4. CASE IntentStep
    <2>1. PICK a \in Appt : CreateBookingIntent(a)
      BY <1>4 DEF IntentStep
    <2>2. /\ intents' = intents \cup {a} /\ Exists(appointment[a])
          /\ UNCHANGED <<appointment, usageCount, promoOf, calls, unvetted>>
      BY <2>1 DEF CreateBookingIntent, Exists
    <2>3. TypeOK'
      BY <2>2 DEF TypeInv, TypeOK
    <2>4. RowsOK'
      BY <2>2 DEF TypeInv, RowsOK
    <2>5. HandlersOK'
      BY <2>2 DEF TypeInv, HandlersOK, IdsFresh, CallOK
    <2> QED BY <2>3, <2>4, <2>5 DEF TypeInv
  <1>5. CASE UNCHANGED vars
    BY <1>5 DEF vars, TypeInv, TypeOK, RowsOK, HandlersOK, IdsFresh, CallOK, Exists
  <1> QED BY <1>1, <1>2, <1>3, <1>4, <1>5, StepShapes

(* Every variable always has its type, and no handler makes a fourth attempt. *)
THEOREM TypeSafety == Spec => []TypeOK
  <1>1. TypeInv => TypeOK
    BY DEF TypeInv
  <1> QED BY <1>1, TypeInvInit, TypeInvStep, PTL DEF Spec

-----------------------------------------------------------------------------
(***************************************************************************)
(* The promotion.  PromoExact needs to know that the bookings that carry   *)
(* the code exist (an insert adds a new one) and that no transaction goes  *)
(* on to use a promotion whose last use has been committed meanwhile.      *)
(***************************************************************************)
PromoInv ==
    /\ PromoExact
    /\ \A a \in promoOf : Exists(appointment[a])
    /\ \A c \in Call : calls[c].accepts /\ calls[c].promo => usageCount < MaxUsages

LEMMA PromoInit == Init => PromoInv
  BY FS_EmptySet, ApptAssumption, BookingAssumption DEF Init, PromoInv, PromoExact, IdleCall

LEMMA PromoCommit ==
    ASSUME TypeInv, PromoInv, NEW c \in Call, TxCommit(c)
    PROVE  PromoInv'
  <1> DEFINE k == calls[c]
  <1>1. /\ k \in CallRecord /\ k.phase = "tx" /\ k.accepts /\ k.id \in Appt
        /\ Exists(WrittenRow(k))
    BY WrittenRowType DEF TxCommit, TypeInv, TypeOK
  <1>2. \A b \in Appt :
          appointment'[b] = IF b = k.id THEN WrittenRow(k) ELSE appointment[b]
    BY DEF TxCommit, TypeInv, TypeOK
  <1>3. promoOf \subseteq Appt /\ usageCount \in Nat /\ MaxUsages \in Nat
    BY ApptAssumption, BookingAssumption DEF TypeInv, TypeOK
  <1>4. PromoExact'
    <2>1. CASE k.promo
      <3>1. k.id \notin promoOf
        BY <1>1, <2>1 DEF TypeInv, HandlersOK, CallOK, IdsFresh, PromoInv
      <3>2. usageCount' = usageCount + 1 /\ promoOf' = promoOf \cup {k.id}
        BY <2>1 DEF TxCommit
      <3>3. IsFiniteSet(promoOf)
        BY <1>3, ApptAssumption, BookingAssumption, FS_Subset
      <3>4. Cardinality(promoOf \cup {k.id}) = Cardinality(promoOf) + 1
        BY <3>1, <3>3, FS_AddElement
      <3>5. usageCount < MaxUsages
        BY <1>1, <2>1 DEF PromoInv
      <3>6. usageCount = Cardinality(promoOf)
        BY DEF PromoInv, PromoExact
      <3> QED BY <1>3, <3>2, <3>4, <3>5, <3>6 DEF PromoExact
    <2>2. CASE ~k.promo
      BY <2>2 DEF TxCommit, PromoInv, PromoExact
    <2> QED BY <2>1, <2>2
  <1>5. \A a \in promoOf' : Exists(appointment'[a])
    BY <1>1, <1>2, <1>3 DEF TxCommit, PromoInv
  <1>6. ASSUME NEW q \in Call, calls'[q].accepts, calls'[q].promo
        PROVE  usageCount' < MaxUsages
    <2>1. q # c /\ calls'[q] = AfterCommit(calls[q], k) /\ calls[q] \in CallRecord
      BY <1>6 DEF TxCommit, IdleCall, TypeInv, TypeOK
    <2>2. calls[q].accepts /\ calls[q].promo /\ ~k.promo
      <3>1. Carries(calls[q], calls'[q]) /\ ~(calls[q].promo /\ k.promo)
        <4>1. k \in CallRecord /\ calls[q] \in CallRecord
          BY <1>1, <2>1
        <4>2. Carries(calls[q], AfterCommit(calls[q], k))
          BY <4>1, AfterCommitCarries
        <4>3. AfterCommit(calls[q], k).accepts => ~(calls[q].promo /\ k.promo)
          BY <4>1, AfterCommitCarries
        <4> QED BY <1>6, <2>1, <4>2, <4>3
      <3> QED BY <1>6, <3>1 DEF Carries
    <2> QED BY <2>1, <2>2 DEF TxCommit, PromoInv
  <1> QED BY <1>4, <1>5, <1>6 DEF PromoInv

LEMMA PromoStep == TypeInv /\ PromoInv /\ [Next]_vars => PromoInv'
  <1> SUFFICES ASSUME TypeInv, PromoInv, [Next]_vars PROVE PromoInv'
    OBVIOUS
  <1>1. CASE HandlerStep
    <2>1. PICK c \in Call, x \in CallRecord : HandlerSets(c, x)
      BY <1>1 DEF HandlerStep
    <2>2. UNCHANGED <<appointment, usageCount, promoOf>>
      BY <2>1 DEF HandlerSets
    <2>3. \A q \in Call : calls'[q] = IF q = c THEN x ELSE calls[q]
      BY <2>1 DEF HandlerSets, TypeInv, TypeOK
    <2>4. x.accepts /\ x.promo => usageCount < MaxUsages
      BY <2>1 DEF HandlerSets, TxAccepts
    <2> QED BY <2>2, <2>3, <2>4 DEF PromoInv, PromoExact
  <1>2. CASE UpdateStep
    <2>1. PICK a \in Appt, row \in Row, done \in SUBSET Call : Rewrites(a, row, done)
      BY <1>2 DEF UpdateStep
    <2>2. UNCHANGED <<usageCount, promoOf>> /\ promoOf \subseteq Appt
      BY <2>1 DEF Rewrites, PlainUpdate, TypeInv, TypeOK
    <2>3. \A b \in Appt : Exists(appointment[b]) => Exists(appointment'[b])
      BY <2>1 DEF Rewrites, PlainUpdate, TypeInv, TypeOK
    <2>4. ASSUME NEW q \in Call, calls'[q].accepts PROVE calls'[q] = calls[q]
      <3>1. calls[q] \in CallRecord
        BY DEF TypeInv, TypeOK
      <3> QED BY <2>1, <2>4, <3>1, AfterUpdateCarries DEF Rewrites, IdleCall
    <2> QED BY <2>2, <2>3, <2>4 DEF PromoInv, PromoExact
  <1>3. CASE CommitStep
    BY <1>3, PromoCommit DEF CommitStep
  <1>4. CASE IntentStep
    BY <1>4 DEF IntentStep, CreateBookingIntent, PromoInv, PromoExact
  <1>5. CASE UNCHANGED vars
    BY <1>5 DEF vars, PromoInv, PromoExact
  <1> QED BY <1>1, <1>2, <1>3, <1>4, <1>5, StepShapes

(***************************************************************************)
(* However many requests use it at once, a promotion is used at most       *)
(* maxUsages times and its counter is the number of bookings carrying it.  *)
(***************************************************************************)
THEOREM PromoSafety == Spec => []PromoExact
  <1>1. PromoInv => PromoExact
    BY DEF PromoInv
  <1> QED BY <1>1, TypeInvInit, TypeInvStep, PromoInit, PromoStep, PTL DEF Spec

-----------------------------------------------------------------------------
(***************************************************************************)
(* The snapshots.  What the check of a transaction found stays true of the *)
(* vetted appointments it has seen: rewrites only take rows out of Vetted, *)
(* and a row that a commit puts in is one the transaction has missed.      *)
(***************************************************************************)
SameSlot(r, s) ==
    r.staff = s.staff /\ r.service = s.service /\ r.start = s.start /\ r.end = s.end

LEMMA SameSlotFacts ==
    ASSUME NEW r, NEW s, SameSlot(r, s)
    PROVE  /\ Occupied(r) = Occupied(s)
           /\ Seats(r) = Seats(s)
           /\ \A e : /\ SameInstance(e, r) <=> SameInstance(e, s)
                     /\ SameResource(e, r) <=> SameResource(e, s)
                     /\ Conflict(e, r) <=> Conflict(e, s)
                     /\ SameInstance(r, e) <=> SameInstance(s, e)
                     /\ SameResource(r, e) <=> SameResource(s, e)
                     /\ Conflict(r, e) <=> Conflict(s, e)
  BY DEF SameSlot, Occupied, Seats, SameInstance, SameResource, ResourceOf, Conflict

(* Any two rows that exist and overlap look at each other. *)
LEMMA RowOverlapIsNear ==
    ASSUME NEW r \in Row, NEW s \in Row, r.start < r.end, s.start < s.end,
           Overlaps(Occupied(r), Occupied(s))
    PROVE  Near(r, s) /\ Near(s, r)
  <1>1. SlotOf(r) \in Entry /\ SlotOf(s) \in Entry
    BY SlotIsEntry
  <1>2. /\ Occupied(SlotOf(r)) = Occupied(r) /\ Occupied(SlotOf(s)) = Occupied(s)
        /\ SlotOf(r).start = r.start /\ SlotOf(r).end = r.end
        /\ SlotOf(s).start = s.start /\ SlotOf(s).end = s.end
    BY DEF SlotOf, Occupied
  <1>3. Near(SlotOf(r), SlotOf(s)) /\ Near(SlotOf(s), SlotOf(r))
    BY <1>1, <1>2, OverlapIsNear
  <1> QED BY <1>2, <1>3 DEF Near

LEMMA RowSeats ==
    ASSUME NEW r \in Row
    PROVE  Seats(r) \in Nat
  BY CatalogAssumption DEF Row, Seats, Services

(* What fits next to some rows fits next to fewer of them. *)
LEMMA FewerFit ==
    ASSUME NEW rows, NEW others, NEW S, IsFiniteSet(S), NEW T \in SUBSET S, NEW e \in Row,
           \A b \in T : SameSlot(others[b], rows[b]),
           SlotFits(rows, S, e)
    PROVE  SlotFits(others, T, e)
  <1> DEFINE A == {b \in S : /\ rows[b].staff = e.staff
                             /\ Overlaps(Occupied(e), Occupied(rows[b]))}
             B == {b \in T : /\ others[b].staff = e.staff
                             /\ Overlaps(Occupied(e), Occupied(others[b]))}
  <1>1. \A b \in A : SameInstance(e, rows[b])
    BY DEF SlotFits
  <1>2. Cardinality(A) < Seats(e)
    BY DEF SlotFits
  <1>3. B \subseteq A
    BY SameSlotFacts DEF SameSlot
  <1>4. \A b \in B : SameInstance(e, others[b])
    BY <1>1, <1>3, SameSlotFacts
  <1>5. IsFiniteSet(A) /\ Cardinality(A) \in Nat
    BY FS_Subset, FS_CardinalityType
  <1>6. \A b \in T : SameResource(e, others[b]) => ~Conflict(e, others[b])
    BY SameSlotFacts DEF SlotFits
  <1> HIDE DEF A
  <1>7. Cardinality(B) =< Cardinality(A) /\ Cardinality(B) \in Nat
    BY <1>3, <1>5, FS_Subset, FS_CardinalityType
  <1>8. Cardinality(B) < Seats(e)
    BY <1>2, <1>5, <1>7, RowSeats
  <1> QED BY <1>4, <1>6, <1>8 DEF SlotFits

(* What assertBookableWindow accepts fits next to every vetted appointment. *)
LEMMA CheckFits ==
    ASSUME TypeInv, NEW x \in CallRecord, CallOK(x), x.phase = "tx", x.checked,
           x.missed = {}, TxAccepts(x)
    PROVE  SlotFits(appointment, SeenBy(x), x.row)
  <1> DEFINE e == x.row
             S == SeenBy(x)
             A == {b \in S : /\ appointment[b].staff = e.staff
                             /\ Overlaps(Occupied(e), Occupied(appointment[b]))}
             O == Overlapping(x.id, e)
  <1>1. AssertBookableWindow(x.id, e, x.resourceIds)
    BY DEF TxAccepts
  <1>2. e \in Row /\ e.start < e.end /\ e.service \in Services
    BY DEF CallRecord, CallOK, Row
  <1>3. \A b \in S : /\ b \in Appt \ {x.id} /\ Active(appointment[b])
                     /\ appointment[b] \in Row /\ appointment[b].start < appointment[b].end
    BY DEF SeenBy, Vetted, TypeInv, TypeOK, RowsOK, Exists, Active, ActiveStatuses
  <1>4. ASSUME NEW b \in S, Overlaps(Occupied(e), Occupied(appointment[b]))
        PROVE  Collide(e, appointment[b])
    BY <1>2, <1>3, <1>4, RowOverlapIsNear DEF Collide
  <1>5. A \subseteq O
    BY <1>3, <1>4 DEF Overlapping
  <1>6. O \subseteq Appt /\ IsFiniteSet(O) /\ Cardinality(O) \in Nat
    BY ApptAssumption, FS_Subset, FS_CardinalityType DEF Overlapping
  <1>7. Cardinality(O) < Seats(e) /\ \A b \in O : SameInstance(e, appointment[b])
    BY <1>1 DEF AssertBookableWindow
  <1>8. ASSUME NEW b \in S, SameResource(e, appointment[b]), Conflict(e, appointment[b])
        PROVE  FALSE
    <2>1. ResourceOf(appointment[b]) \in x.resourceIds
      BY <1>2, <1>8 DEF CallOK, ResourceIds, ResourceOf, SameResource
    <2>2. Collide(e, appointment[b]) /\ ~SameInstance(e, appointment[b])
      BY <1>4, <1>8 DEF Conflict
    <2> QED BY <1>1, <1>3, <2>1, <2>2 DEF AssertBookableWindow, ResourceBusy
  <1> HIDE DEF O
  <1>9. Cardinality(A) =< Cardinality(O) /\ Cardinality(A) \in Nat
    BY <1>5, <1>6, FS_Subset, FS_CardinalityType
  <1>10. Cardinality(A) < Seats(e)
    BY <1>2, <1>6, <1>7, <1>9, RowSeats
  <1>11. \A b \in A : SameInstance(e, appointment[b])
    BY <1>5, <1>7
  <1> QED BY <1>8, <1>10, <1>11 DEF SlotFits

LEMMA VettedFinite ==
    ASSUME NEW k
    PROVE  SeenBy(k) \subseteq Appt /\ IsFiniteSet(SeenBy(k))
  BY ApptAssumption, FS_Subset DEF SeenBy, Vetted

(* A rewrite takes rows out of Vetted and leaves the others where they are. *)
LEMMA RewriteKeepsVetted ==
    ASSUME TypeInv, NEW a \in Appt, NEW row \in Row, NEW done \in SUBSET Call,
           Rewrites(a, row, done)
    PROVE  /\ Vetted' = Vetted \/ (a \in Vetted /\ Vetted' = Vetted \ {a})
           /\ \A b \in Vetted' : b \in Vetted /\ SlotOf(appointment'[b]) = SlotOf(appointment[b])
  <1>1. \A b \in Appt : appointment'[b] = IF b = a THEN row ELSE appointment[b]
    BY DEF Rewrites, PlainUpdate, TypeInv, TypeOK
  <1>2. unvetted' = IF Active(row) /\ (~Active(appointment[a]) \/ SlotOf(row) # SlotOf(appointment[a]))
                    THEN unvetted \cup {a} ELSE unvetted
    BY DEF Rewrites, PlainUpdate
  <1>3. Vetted' = {b \in Appt : Active(appointment'[b])} \ unvetted'
    BY DEF Vetted
  <1>4. \A b \in Appt \ {a} : b \in Vetted' <=> b \in Vetted
    BY <1>1, <1>2, <1>3 DEF Vetted
  <1>5. a \in Vetted' => a \in Vetted /\ SlotOf(row) = SlotOf(appointment[a])
    BY <1>1, <1>2, <1>3 DEF Vetted
  <1>6. Vetted \subseteq Appt /\ Vetted' \subseteq Appt
    BY <1>3 DEF Vetted
  <1> QED BY <1>1, <1>4, <1>5, <1>6

LEMMA SlotEquality ==
    ASSUME NEW r, NEW s, SlotOf(r) = SlotOf(s)
    PROVE  SameSlot(r, s)
  BY DEF SlotOf, SameSlot

LEMMA FitCommit ==
    ASSUME TypeInv, SnapshotsStillFit, NEW c \in Call, TxCommit(c)
    PROVE  SnapshotsStillFit'
  <1> DEFINE k == calls[c]
  <1>1. k \in CallRecord /\ k.phase = "tx" /\ k.id \in Appt
    BY WrittenRowType DEF TxCommit, TypeInv, TypeOK
  <1>2. \A b \in Appt \ {k.id} : appointment'[b] = appointment[b]
    BY DEF TxCommit, TypeInv, TypeOK
  <1>3. unvetted' = IF k.checked THEN unvetted \ {k.id} ELSE unvetted \cup {k.id}
    BY DEF TxCommit
  <1> SUFFICES ASSUME NEW q \in Call, calls'[q].accepts, calls'[q].checked
               PROVE  SlotFits(appointment', SeenBy(calls[q])', calls'[q].row)
    BY DEF SnapshotsStillFit
  <1>4. q # c /\ calls'[q] = AfterCommit(calls[q], k) /\ calls[q] \in CallRecord
    BY DEF TxCommit, IdleCall, TypeInv, TypeOK
  <1>5. Carries(calls[q], calls'[q])
    BY <1>1, <1>4, AfterCommitCarries
  <1>6. /\ k.checked => calls'[q].missed = calls[q].missed \cup {k.id}
        /\ ~k.checked => calls'[q].missed = calls[q].missed
    <2>1. k \in CallRecord /\ calls[q] \in CallRecord
      BY <1>1, <1>4
    <2> HIDE DEF k
    <2>2. AfterCommit(calls[q], k).accepts
      BY <1>4
    <2>3. k.checked => AfterCommit(calls[q], k).missed = calls[q].missed \cup {k.id}
      BY <2>1, <2>2, AfterCommitCarries
    <2>4. ~k.checked => AfterCommit(calls[q], k).missed = calls[q].missed
      BY <2>1, <2>2, AfterCommitCarries
    <2> QED BY <1>4, <2>3, <2>4
  <1>7. calls[q].accepts /\ calls[q].checked /\ calls'[q].row = calls[q].row
          /\ calls'[q].id = calls[q].id /\ calls[q].row \in Row
    BY <1>4, <1>5 DEF Carries, CallRecord
  <1>8. SlotFits(appointment, SeenBy(calls[q]), calls[q].row)
    BY <1>7 DEF SnapshotsStillFit
  <1>9. /\ SeenBy(calls[q])' = Vetted' \ (calls'[q].missed \cup {calls'[q].id})
        /\ Vetted' = {b \in Appt : Active(appointment'[b])} \ unvetted'
    BY DEF SeenBy, Vetted
  <1>10. k.id \notin SeenBy(calls[q])'
    BY <1>3, <1>6, <1>9
  <1>11. \A b \in SeenBy(calls[q])' : b \in SeenBy(calls[q]) /\ appointment'[b] = appointment[b]
    BY <1>2, <1>3, <1>6, <1>7, <1>9, <1>10 DEF SeenBy, Vetted
  <1>12. \A b \in SeenBy(calls[q])' : SameSlot(appointment'[b], appointment[b])
    BY <1>11 DEF SameSlot
  <1>13. SeenBy(calls[q])' \in SUBSET SeenBy(calls[q])
    BY <1>11
  <1> QED BY <1>7, <1>8, <1>12, <1>13, VettedFinite, FewerFit

LEMMA FitUpdate ==
    ASSUME TypeInv, SnapshotsStillFit, NEW a \in Appt, NEW row \in Row,
           NEW done \in SUBSET Call, Rewrites(a, row, done)
    PROVE  SnapshotsStillFit'
  <1> SUFFICES ASSUME NEW q \in Call, calls'[q].accepts, calls'[q].checked
               PROVE  SlotFits(appointment', SeenBy(calls[q])', calls'[q].row)
    BY DEF SnapshotsStillFit
  <1>1. calls'[q] = calls[q] /\ calls[q].row \in Row
    <2>1. calls[q] \in CallRecord
      BY DEF TypeInv, TypeOK
    <2>2. calls'[q] = AfterUpdate(calls[q], a)
      BY DEF Rewrites, IdleCall
    <2> QED BY <2>1, <2>2, AfterUpdateCarries DEF CallRecord
  <1>2. SlotFits(appointment, SeenBy(calls[q]), calls[q].row)
    BY <1>1 DEF SnapshotsStillFit
  <1>3. SeenBy(calls[q])' = Vetted' \ (calls[q].missed \cup {calls[q].id})
    BY <1>1 DEF SeenBy
  <1>4. \A b \in SeenBy(calls[q])' : b \in SeenBy(calls[q])
                                     /\ SlotOf(appointment'[b]) = SlotOf(appointment[b])
    BY <1>3, RewriteKeepsVetted DEF SeenBy
  <1>5. \A b \in SeenBy(calls[q])' : SameSlot(appointment'[b], appointment[b])
    BY <1>4, SlotEquality
  <1>6. SeenBy(calls[q])' \in SUBSET SeenBy(calls[q])
    BY <1>4
  <1> QED BY <1>1, <1>2, <1>5, <1>6, VettedFinite, FewerFit

LEMMA FitInit == Init => SnapshotsStillFit
  BY DEF Init, SnapshotsStillFit, IdleCall

LEMMA FitStep == TypeInv /\ SnapshotsStillFit /\ [Next]_vars => SnapshotsStillFit'
  <1> SUFFICES ASSUME TypeInv, SnapshotsStillFit, [Next]_vars PROVE SnapshotsStillFit'
    OBVIOUS
  <1>1. CASE HandlerStep
    <2>1. PICK c \in Call, x \in CallRecord : HandlerSets(c, x)
      BY <1>1 DEF HandlerStep
    <2>2. \A q \in Call : calls'[q] = IF q = c THEN x ELSE calls[q]
      BY <2>1 DEF HandlerSets, TypeInv, TypeOK
    <2>3. x.accepts /\ x.checked => SlotFits(appointment, SeenBy(x), x.row)
      BY <2>1, CheckFits DEF HandlerSets, CallOK
    <2>4. appointment' = appointment /\ Vetted' = Vetted
      BY <2>1 DEF HandlerSets, Vetted
    <2>5. ASSUME NEW q \in Call, calls'[q].accepts, calls'[q].checked
          PROVE  SlotFits(appointment', SeenBy(calls[q])', calls'[q].row)
      <3>1. SeenBy(calls[q])' = SeenBy(calls'[q])
        BY <2>4 DEF SeenBy
      <3>2. CASE q = c
        BY <2>2, <2>3, <2>4, <2>5, <3>1, <3>2
      <3>3. CASE q # c
        BY <2>2, <2>4, <2>5, <3>1, <3>3 DEF SnapshotsStillFit
      <3> QED BY <3>2, <3>3
    <2> QED BY <2>5 DEF SnapshotsStillFit
  <1>2. CASE UpdateStep
    BY <1>2, FitUpdate DEF UpdateStep
  <1>3. CASE CommitStep
    BY <1>3, FitCommit DEF CommitStep
  <1>4. CASE IntentStep
    BY <1>4 DEF IntentStep, CreateBookingIntent, SnapshotsStillFit, SeenBy, Vetted
  <1>5. CASE UNCHANGED vars
    BY <1>5 DEF vars, SnapshotsStillFit, SeenBy, Vetted
  <1> QED BY <1>1, <1>2, <1>3, <1>4, <1>5, StepShapes

(***************************************************************************)
(* A check is never overtaken by anything but a conflict that the          *)
(* transaction will be told of.                                            *)
(***************************************************************************)
THEOREM SnapshotSafety == Spec => []SnapshotsStillFit
  BY TypeInvInit, TypeInvStep, FitInit, FitStep, PTL DEF Spec

-----------------------------------------------------------------------------
(***************************************************************************)
(* The refinement.  A commit of a checked, active row is Place; a step     *)
(* that takes a row out of Vetted is Release; everything else stutters.    *)
(***************************************************************************)
LEMMA VettedDiaryValues ==
    /\ DOMAIN VettedDiary = Vetted
    /\ \A b \in Vetted : VettedDiary[b] = SlotOf(appointment[b])
  BY DEF VettedDiary

LEMMA CalCardinality == \A S : Cal!Cardinality(S) = Cardinality(S)
  BY Zenon DEF Cal!Cardinality, Cardinality

(* What fits next to the vetted appointments fits in the calendar. *)
LEMMA CalFits ==
    ASSUME NEW a \in Appt, NEW e, SlotFits(appointment, Vetted \ {a}, e)
    PROVE  Cal!Fits(a, SlotOf(e))
  <1> DEFINE A == {b \in Vetted \ {a} : /\ appointment[b].staff = e.staff
                                        /\ Overlaps(Occupied(e), Occupied(appointment[b]))}
  <1>1. \A r : Cal!Occupied(SlotOf(r)) = Occupied(r) /\ Cal!Seats(SlotOf(r)) = Seats(r)
    BY DEF SlotOf, Cal!Occupied, Occupied, Cal!Seats, Seats
  <1>2. \A v, w : Cal!Overlaps(v, w) <=> Overlaps(v, w)
    BY DEF Cal!Overlaps, Overlaps
  <1>3. \A r, q : /\ Cal!SameInstance(SlotOf(r), SlotOf(q)) <=> SameInstance(r, q)
                  /\ Cal!SameResource(SlotOf(r), SlotOf(q)) <=> SameResource(r, q)
    BY DEF SlotOf, Cal!SameInstance, SameInstance, Cal!SameResource, SameResource,
           Cal!ResourceOf, ResourceOf
  <1>4. \A r, q : Cal!Conflict(SlotOf(r), SlotOf(q)) <=> Conflict(r, q)
    BY <1>1, <1>2, <1>3 DEF Cal!Conflict, Conflict
  <1>5. Cal!Colliding(a, SlotOf(e)) = A
    <2>1. \A r : SlotOf(r).staff = r.staff
      BY DEF SlotOf
    <2> QED BY <1>1, <1>2, <2>1, VettedDiaryValues DEF Cal!Colliding
  <1>6. \A b \in Cal!Colliding(a, SlotOf(e)) : Cal!SameInstance(SlotOf(e), VettedDiary[b])
    BY <1>3, <1>5, VettedDiaryValues DEF SlotFits
  <1>7. Cal!Cardinality(Cal!Colliding(a, SlotOf(e))) < Cal!Seats(SlotOf(e))
    BY <1>1, <1>5, CalCardinality DEF SlotFits
  <1>8. \A b \in DOMAIN VettedDiary \ {a} :
          Cal!SameResource(SlotOf(e), VettedDiary[b]) => ~Cal!Conflict(SlotOf(e), VettedDiary[b])
    BY <1>3, <1>4, VettedDiaryValues DEF SlotFits
  <1> QED BY <1>6, <1>7, <1>8 DEF Cal!Fits

(***************************************************************************)
(* At its commit a checked transaction fits next to every vetted           *)
(* appointment: those it has seen by its check, those it has missed        *)
(* because otherwise the commit would be a serialization failure.          *)
(***************************************************************************)
LEMMA CommitFits ==
    ASSUME TypeInv, SnapshotsStillFit, NEW c \in Call, TxCommit(c),
           calls[c].checked, Active(WrittenRow(calls[c]))
    PROVE  SlotFits(appointment, Vetted \ {calls[c].id}, calls[c].row)
  <1> DEFINE k == calls[c]
             e == k.row
             near(S) == {b \in S : /\ appointment[b].staff = e.staff
                                   /\ Overlaps(Occupied(e), Occupied(appointment[b]))}
  <1>1. /\ k \in CallRecord /\ CallOK(k) /\ e \in Row
        /\ e.start < e.end /\ k.accepts
    BY DEF TxCommit, TypeInv, TypeOK, HandlersOK, CallOK, CallRecord
  <1>2. SlotFits(appointment, SeenBy(k), e)
    BY <1>1 DEF SnapshotsStillFit
  <1>3. ASSUME NEW b \in Vetted \ {k.id}, b \notin SeenBy(k),
               Overlaps(Occupied(e), Occupied(appointment[b])),
               appointment[b].staff = e.staff \/ SameResource(e, appointment[b])
        PROVE  FALSE
    <2>1. b \in k.missed \ {k.id} /\ Active(appointment[b]) /\ b \in Appt
      BY <1>3 DEF SeenBy, Vetted
    <2>2. appointment[b] \in Row /\ appointment[b].start < appointment[b].end
      BY <2>1 DEF TypeInv, TypeOK, RowsOK, Active, ActiveStatuses, Exists
    <2>3. Near(e, appointment[b]) /\ Near(appointment[b], e)
      BY <1>1, <1>3, <2>2, RowOverlapIsNear
    <2>4. SerializationFailure(k)
      BY <1>3, <2>1, <2>3 DEF SerializationFailure
    <2> QED BY <2>4 DEF TxCommit
  <1>4. near(Vetted \ {k.id}) = near(SeenBy(k))
    BY <1>3 DEF SeenBy
  <1>5. ASSUME NEW b \in Vetted \ {k.id}, SameResource(e, appointment[b])
        PROVE  ~Conflict(e, appointment[b])
    BY <1>2, <1>3, <1>5 DEF SlotFits, Conflict
  <1> QED BY <1>2, <1>4, <1>5 DEF SlotFits

LEMMA CommitRefines ==
    ASSUME TypeInv, SnapshotsStillFit, NEW c \in Call, TxCommit(c)
    PROVE  [Cal!CalendarNext]_VettedDiary
  <1> DEFINE k == calls[c]
             w == WrittenRow(k)
  <1>1. /\ k.id \in Appt /\ w \in Row /\ w.start < w.end /\ SlotOf(w) = SlotOf(k.row)
        /\ k.phase = "tx" /\ CallOK(k)
    BY WrittenRowType DEF TxCommit, TypeInv, HandlersOK
  <1>2. \A b \in Appt : appointment'[b] = IF b = k.id THEN w ELSE appointment[b]
    BY DEF TxCommit, TypeInv, TypeOK
  <1>3. unvetted' = IF k.checked THEN unvetted \ {k.id} ELSE unvetted \cup {k.id}
    BY DEF TxCommit
  <1>4. VettedDiary' = [b \in Vetted' |-> SlotOf(appointment'[b])]
    BY DEF VettedDiary
  <1>5. Vetted' = {b \in Appt : Active(appointment'[b])} \ unvetted'
    BY DEF Vetted
  <1> HIDE DEF w
  <1>6. CASE k.checked /\ Active(w)
    <2>1. Vetted' = Vetted \cup {k.id}
      BY <1>1, <1>2, <1>3, <1>5, <1>6 DEF Vetted
    <2>2. Cal!Fits(k.id, SlotOf(w))
      BY <1>1, <1>6, CommitFits, CalFits DEF w
    <2>3. VettedDiary' = [b \in DOMAIN VettedDiary \cup {k.id} |->
                            IF b = k.id THEN SlotOf(w) ELSE VettedDiary[b]]
      <3>1. \A b \in Vetted' : SlotOf(appointment'[b]) =
                                 IF b = k.id THEN SlotOf(w) ELSE VettedDiary[b]
        <4>1. \A b \in Vetted : b \in Appt
          BY DEF Vetted
        <4> QED BY <1>1, <1>2, <2>1, <4>1, VettedDiaryValues
      <3> QED BY <1>4, <2>1, <3>1, VettedDiaryValues
    <2>4. SlotOf(w) \in Cal!Entry
      BY <1>1, SlotIsEntry DEF Cal!Entry, Entry, Cal!Services, Services
    <2>5. Cal!Place(k.id, SlotOf(w))
      BY <2>2, <2>3 DEF Cal!Place
    <2> QED BY <1>1, <2>4, <2>5 DEF Cal!CalendarNext
  <1>7. CASE ~(k.checked /\ Active(w))
    <2>1. Vetted' = Vetted \ {k.id}
      BY <1>1, <1>2, <1>3, <1>5, <1>7 DEF Vetted
    <2>2. VettedDiary' = [b \in DOMAIN VettedDiary \ {k.id} |-> VettedDiary[b]]
      <3>1. \A b \in Vetted' : SlotOf(appointment'[b]) = VettedDiary[b]
        <4>1. \A b \in Vetted : b \in Appt
          BY DEF Vetted
        <4> QED BY <1>2, <2>1, <4>1, VettedDiaryValues
      <3> QED BY <1>4, <2>1, <3>1, VettedDiaryValues
    <2>3. CASE k.id \in Vetted
      <3>1. Cal!Release(k.id)
        BY <2>2, <2>3, VettedDiaryValues DEF Cal!Release
      <3> QED BY <1>1, <3>1 DEF Cal!CalendarNext
    <2>4. CASE k.id \notin Vetted
      <3>1. DOMAIN VettedDiary \ {k.id} = DOMAIN VettedDiary
        BY <2>4, VettedDiaryValues
      <3>2. VettedDiary = [b \in DOMAIN VettedDiary |-> VettedDiary[b]]
        BY DEF VettedDiary
      <3> QED BY <2>2, <3>1, <3>2
    <2> QED BY <2>3, <2>4
  <1> QED BY <1>6, <1>7

LEMMA UpdateRefines ==
    ASSUME TypeInv, NEW a \in Appt, NEW row \in Row, NEW done \in SUBSET Call,
           Rewrites(a, row, done)
    PROVE  [Cal!CalendarNext]_VettedDiary
  <1>1. VettedDiary' = [b \in Vetted' |-> SlotOf(appointment'[b])]
    BY DEF VettedDiary
  <1>2. \A b \in Vetted' : SlotOf(appointment'[b]) = VettedDiary[b]
    BY RewriteKeepsVetted, VettedDiaryValues
  <1>3. VettedDiary' = [b \in Vetted' |-> VettedDiary[b]]
    BY <1>1, <1>2
  <1>4. CASE Vetted' = Vetted
    BY <1>3, <1>4, VettedDiaryValues DEF VettedDiary
  <1>5. CASE a \in Vetted /\ Vetted' = Vetted \ {a}
    <2>1. Cal!Release(a)
      BY <1>3, <1>5, VettedDiaryValues DEF Cal!Release
    <2> QED BY <2>1 DEF Cal!CalendarNext
  <1> QED BY <1>4, <1>5, RewriteKeepsVetted

LEMMA InitRefines == Init => Cal!CalendarInit
  <1> SUFFICES ASSUME Init PROVE Cal!CalendarInit
    OBVIOUS
  <1>1. Vetted = {}
    BY DEF Init, Vetted, Active, ActiveStatuses, Absent
  <1> QED BY <1>1 DEF VettedDiary, Cal!CalendarInit

LEMMA StepRefines ==
    TypeInv /\ SnapshotsStillFit /\ [Next]_vars => [Cal!CalendarNext]_VettedDiary
  <1> SUFFICES ASSUME TypeInv, SnapshotsStillFit, [Next]_vars
               PROVE  [Cal!CalendarNext]_VettedDiary
    OBVIOUS
  <1>1. CASE HandlerStep
    BY <1>1 DEF HandlerStep, HandlerSets, VettedDiary, Vetted
  <1>2. CASE UpdateStep
    BY <1>2, UpdateRefines DEF UpdateStep
  <1>3. CASE CommitStep
    BY <1>3, CommitRefines DEF CommitStep
  <1>4. CASE IntentStep
    BY <1>4 DEF IntentStep, CreateBookingIntent, VettedDiary, Vetted
  <1>5. CASE UNCHANGED vars
    BY <1>5 DEF vars, VettedDiary, Vetted
  <1> QED BY <1>1, <1>2, <1>3, <1>4, <1>5, StepShapes

(***************************************************************************)
(* The handlers implement the calendar: with all their snapshots, retries  *)
(* and interleavings, what they do to the checked appointments is to place *)
(* entries where they fit and to take entries out.                         *)
(***************************************************************************)
THEOREM Refinement == Spec => ImplementsCalendar
  <1>1. Spec => [](TypeInv /\ SnapshotsStillFit)
    BY TypeInvInit, TypeInvStep, FitInit, FitStep, PTL DEF Spec
  <1> QED BY <1>1, InitRefines, StepRefines, PTL DEF Spec, ImplementsCalendar, Cal!CalendarSpec

-----------------------------------------------------------------------------
(***************************************************************************)
(* What is proved of the calendar holds of the bookings: CalendarSafe is   *)
(* taken over through the refinement mapping.                              *)
(***************************************************************************)
CalP == INSTANCE CalendarProofs WITH diary <- VettedDiary

LEMMA SameCalendar ==
    /\ CalP!CalendarInit <=> Cal!CalendarInit
    /\ CalP!CalendarNext <=> Cal!CalendarNext
    /\ CalP!CalendarInv <=> Cal!CalendarInv
  <1>1. \A S : CalP!Cardinality(S) = Cal!Cardinality(S)
    BY Zenon DEF CalP!Cardinality, Cal!Cardinality
  <1>2. CalP!Entry = Cal!Entry
    BY DEF CalP!Entry, Cal!Entry, CalP!Services, Cal!Services
  <1>3. \A a, e : CalP!Fits(a, e) <=> Cal!Fits(a, e)
    BY <1>1 DEF CalP!Fits, Cal!Fits, CalP!Colliding, Cal!Colliding,
         CalP!SameInstance, Cal!SameInstance, CalP!Overlaps, Cal!Overlaps,
         CalP!Occupied, Cal!Occupied, CalP!Seats, Cal!Seats, CalP!Conflict, Cal!Conflict,
         CalP!SameResource, Cal!SameResource, CalP!ResourceOf, Cal!ResourceOf
  <1>4. CalP!CalendarNext <=> Cal!CalendarNext
    BY <1>2, <1>3 DEF CalP!CalendarNext, Cal!CalendarNext, CalP!Place, Cal!Place,
                      CalP!Release, Cal!Release
  <1>5. CalP!CalendarInit <=> Cal!CalendarInit
    BY DEF CalP!CalendarInit, Cal!CalendarInit
  <1>6. CalP!CalendarInv <=> Cal!CalendarInv
    <2>1. CalP!DiaryTypeOK <=> Cal!DiaryTypeOK
      BY <1>2 DEF CalP!DiaryTypeOK, Cal!DiaryTypeOK
    <2>2. CalP!EntriesNeverCollide <=> Cal!EntriesNeverCollide
      BY DEF CalP!EntriesNeverCollide, Cal!EntriesNeverCollide, CalP!Conflict, Cal!Conflict,
         CalP!SameInstance, Cal!SameInstance, CalP!Overlaps, Cal!Overlaps,
         CalP!Occupied, Cal!Occupied,
         CalP!SameResource, Cal!SameResource, CalP!ResourceOf, Cal!ResourceOf
    <2>3. CalP!ClassesWithinCapacity <=> Cal!ClassesWithinCapacity
      BY <1>1 DEF CalP!ClassesWithinCapacity, Cal!ClassesWithinCapacity, CalP!ClassOf, Cal!ClassOf,
         CalP!SameInstance, Cal!SameInstance, CalP!Seats, Cal!Seats
    <2> QED BY <2>1, <2>2, <2>3 DEF CalP!CalendarInv, Cal!CalendarInv
  <1> QED BY <1>4, <1>5, <1>6

LEMMA CalendarPromise == CalP!CalendarSpec => []CalP!CalendarInv
  <1>1. CalP!StaffAssumption /\ CalP!CatalogAssumption /\ CalP!DiaryAssumption /\ CalP!ApptAssumption
    <2>1. CalP!ApptAssumption
      BY ApptAssumption DEF CalP!ApptAssumption, CalP!IsFiniteSet, IsFiniteSet
    <2> QED BY <2>1, StaffAssumption, CatalogAssumption, DiaryAssumption
            DEF CalP!StaffAssumption, CalP!CatalogAssumption, CalP!DiaryAssumption,
                CalP!Services, Services, CalP!Window, Window
  <1> QED BY <1>1, CalP!CalendarSafe, PTL
          DEF CalP!StaffAssumption, CalP!CatalogAssumption, CalP!DiaryAssumption,
              CalP!ApptAssumption

(* The promise of the calendar, in the terms of the appointment table. *)
LEMMA PromiseOfRows == Cal!CalendarInv => VettedNeverCollide
  BY VettedDiaryValues, CalCardinality
  DEF Cal!CalendarInv, Cal!EntriesNeverCollide, Cal!ClassesWithinCapacity, Cal!ClassOf,
      VettedNeverCollide, SlotOf, Cal!Conflict, Conflict, Cal!SameResource, SameResource,
      Cal!ResourceOf, ResourceOf, Cal!SameInstance, SameInstance, Cal!Seats, Seats,
      Cal!Overlaps, Overlaps, Cal!Occupied, Occupied

(***************************************************************************)
(* However the handlers interleave, two checked appointments never hold    *)
(* colliding times of a provider or a room, and no class has more checked  *)
(* seats than its capacity.                                                *)
(***************************************************************************)
THEOREM BookingSafety == Spec => []VettedNeverCollide
  BY Refinement, SameCalendar, CalendarPromise, PromiseOfRows, PTL
  DEF ImplementsCalendar, Cal!CalendarSpec, CalP!CalendarSpec

-----------------------------------------------------------------------------
(***************************************************************************)
(* The offer of a single service and the check of its booking agree, for   *)
(* every catalogue, diary and table: a slot of the grid lies within the    *)
(* hours of its day, the appointments that block it are exactly those that *)
(* the transaction finds, and so are the rooms and the time off.           *)
(***************************************************************************)

(* The day of an instant, by its bounds. *)
LEMMA DayArithmetic ==
  ASSUME NEW x \in Int, NEW d \in Int, d * DayLen <= x, x < (d + 1) * DayLen
  PROVE  x \div DayLen = d /\ x % DayLen = x - d * DayLen
<1>1. DayLen \in Nat \ {0}
  BY DiaryAssumption
<1>. DEFINE q == x \div DayLen
            r == x % DayLen
<1>2. q \in Int /\ r \in 0 .. (DayLen - 1) /\ x = DayLen * q + r
  BY <1>1
<1>3. q = d
  BY <1>1, <1>2, SMTT(30)
<1>. QED  BY <1>1, <1>2, <1>3

LEMMA TimeInDay ==
  ASSUME NEW x \in Int, NEW d \in Int, d * DayLen <= x, x < d * DayLen + DayLen
  PROVE  x \div DayLen = d /\ TimeOfDay(x) = x - d * DayLen
<1>1. (d + 1) * DayLen = d * DayLen + DayLen
  BY DiaryAssumption
<1>. QED  BY <1>1, DayArithmetic DEF TimeOfDay

LEMMA DayIsInt == ASSUME NEW d \in Days PROVE d \in Int
  BY DiaryAssumption DEF Days

(* A single service: its own length and buffers. *)
LEMMA AloneFacts ==
  ASSUME NEW s \in Staff, NEW p \in Services, NEW t \in Int
  PROVE  /\ Catalog[p].duration \in Nat \ {0}
         /\ Catalog[p].before \in 0 .. LockMargin /\ Catalog[p].after \in 0 .. LockMargin
         /\ LockMargin \in Nat
         /\ Before(Alone(p)) = Catalog[p].before
         /\ After(Alone(p)) = Catalog[p].after
         /\ Length(Alone(p)) = Catalog[p].duration
         /\ Selected(Alone(p)) = {p}
         /\ Alone(p).primary = p
         /\ Wanted(s, Alone(p), t) =
              [staff |-> s, service |-> p, start |-> t, end |-> t + Catalog[p].duration]
         /\ Occupied(Wanted(s, Alone(p), t)) = SlotSpan(Alone(p), t)
         /\ SlotSpan(Alone(p), t) = [from |-> t - Catalog[p].before,
                                     to |-> t + Catalog[p].duration + Catalog[p].after]
<1>1. /\ Catalog[p].duration \in Nat \ {0}
      /\ Catalog[p].before \in 0 .. LockMargin /\ Catalog[p].after \in 0 .. LockMargin
      /\ LockMargin \in Nat
  BY CatalogAssumption, DiaryAssumption DEF Services
<1>2. Selected(Alone(p)) = {p} /\ Alone(p).primary = p /\ Alone(p).more = {}
  BY DEF Selected, Alone
<1>3. \A n \in Nat : LargestOf({n}) = n
  BY DEF LargestOf
<1>4. Before(Alone(p)) = Catalog[p].before
  <2>1. {Catalog[q].before : q \in Selected(Alone(p))} = {Catalog[p].before}
    BY <1>2
  <2>2. Catalog[p].before \in Nat
    BY <1>1
  <2>. QED  BY <1>3, <2>1, <2>2 DEF Before
<1>5. After(Alone(p)) = Catalog[p].after
  <2>1. {Catalog[q].after : q \in Selected(Alone(p))} = {Catalog[p].after}
    BY <1>2
  <2>2. Catalog[p].after \in Nat
    BY <1>1
  <2>. QED  BY <1>3, <2>1, <2>2 DEF After
<1>6. Length(Alone(p)) = Catalog[p].duration
  BY <1>1, <1>2 DEF Length
<1>7. Wanted(s, Alone(p), t) =
        [staff |-> s, service |-> p, start |-> t, end |-> t + Catalog[p].duration]
  BY <1>2, <1>6 DEF Wanted
<1>8. SlotSpan(Alone(p), t) = [from |-> t - Catalog[p].before,
                               to |-> t + Catalog[p].duration + Catalog[p].after]
  BY <1>4, <1>5, <1>6 DEF SlotSpan
<1>9. Occupied(Wanted(s, Alone(p), t)) = SlotSpan(Alone(p), t)
  BY <1>7, <1>8 DEF Occupied
<1>. QED  BY <1>1, <1>2, <1>4, <1>5, <1>6, <1>7, <1>8, <1>9

(* A slot of the grid lies between opening and closing time of its day. *)
LEMMA SlotInDay ==
  ASSUME NEW s \in Staff, NEW p \in Services, NEW d \in Int, NEW t \in Grid(s, Alone(p), d)
  PROVE  /\ t \in Int
         /\ Diary[s].opens \in Nat /\ Diary[s].closes \in Nat /\ Diary[s].closes < DayLen
         /\ d * DayLen \in Int /\ (d + 1) * DayLen = d * DayLen + DayLen /\ DayLen \in Nat \ {0}
         /\ t - Catalog[p].before >= d * DayLen + Diary[s].opens
         /\ t + Catalog[p].duration + Catalog[p].after <= d * DayLen + Diary[s].closes
<1>1. /\ Diary[s].opens \in Nat /\ Diary[s].closes \in Nat /\ Diary[s].closes < DayLen
      /\ DayLen \in Nat \ {0}
  BY DiaryAssumption, HoursAssumption
<1>2. d * DayLen \in Int /\ (d + 1) * DayLen = d * DayLen + DayLen
  BY <1>1
<1>3. /\ Catalog[p].duration \in Nat \ {0}
      /\ Catalog[p].before \in Nat /\ Catalog[p].after \in Nat
      /\ Before(Alone(p)) = Catalog[p].before
      /\ After(Alone(p)) = Catalog[p].after
      /\ Length(Alone(p)) = Catalog[p].duration
  BY AloneFacts, <1>1
<1>4. /\ t \in Int
      /\ t >= d * DayLen + Diary[s].opens + Catalog[p].before
      /\ t <= d * DayLen + Diary[s].closes - Catalog[p].after - Catalog[p].duration
  BY <1>1, <1>2, <1>3 DEF Grid, DaySpan
<1>. QED  BY <1>1, <1>2, <1>3, <1>4

(* Time off that a slot overlaps is among what the query of the day returns, *)
(* so a slot fits the hours of the transaction unless the provider is away.  *)
LEMMA SlotHours ==
  ASSUME NEW s \in Staff, NEW p \in Services, NEW d \in Int, NEW t \in Grid(s, Alone(p), d)
  PROVE  /\ t \div DayLen = d
         /\ OneDay(Wanted(s, Alone(p), t))
         /\ TimeOfDay(t) >= Diary[s].opens
         /\ TimeOfDay(t + Catalog[p].duration) <= Diary[s].closes
         /\ InHours(Wanted(s, Alone(p), t)) <=> ~Away(s, Alone(p), t, d)
         /\ ~Away(s, Alone(p), t, d) =>
              \A w \in Diary[s].off : ~Overlaps(w, [from |-> t, to |-> t + Catalog[p].duration])
<1>. DEFINE e == Wanted(s, Alone(p), t)
<1>1. /\ t \in Int
      /\ Diary[s].opens \in Nat /\ Diary[s].closes \in Nat /\ Diary[s].closes < DayLen
      /\ d * DayLen \in Int /\ (d + 1) * DayLen = d * DayLen + DayLen /\ DayLen \in Nat \ {0}
      /\ t - Catalog[p].before >= d * DayLen + Diary[s].opens
      /\ t + Catalog[p].duration + Catalog[p].after <= d * DayLen + Diary[s].closes
  BY SlotInDay
<1>2. /\ Catalog[p].duration \in Nat \ {0}
      /\ Catalog[p].before \in Nat /\ Catalog[p].after \in Nat
      /\ e = [staff |-> s, service |-> p, start |-> t, end |-> t + Catalog[p].duration]
      /\ Occupied(e) = SlotSpan(Alone(p), t)
      /\ SlotSpan(Alone(p), t) = [from |-> t - Catalog[p].before,
                                  to |-> t + Catalog[p].duration + Catalog[p].after]
  BY AloneFacts, <1>1
<1>. DEFINE o == Diary[s].opens
            z == Diary[s].closes
            x == d * DayLen
            l == Catalog[p].duration
            u == Catalog[p].before
            v == Catalog[p].after
<1>3. /\ t \in Int /\ x <= t /\ t < x + DayLen
      /\ t + l \in Int /\ x <= t + l /\ t + l < x + DayLen
      /\ t - u \in Int /\ x <= t - u /\ t - u < x + DayLen
      /\ t + l + v \in Int /\ x <= t + l + v /\ t + l + v < x + DayLen
  <2>1. /\ t \in Int /\ o \in Nat /\ z \in Nat /\ z < DayLen /\ x \in Int
        /\ DayLen \in Nat /\ t - u >= x + o /\ t + l + v <= x + z
        /\ l \in Nat /\ u \in Nat /\ v \in Nat
    BY <1>1, <1>2
  <2>. HIDE DEF o, z, x, l, u, v
  <2>. QED  BY <2>1
<1>4. t \div DayLen = d /\ TimeOfDay(t) = t - x
  BY <1>3, TimeInDay
<1>5. (t + l) \div DayLen = d /\ TimeOfDay(t + l) = (t + l) - x
  <2>. DEFINE y == t + l
  <2>1. y \in Int /\ d * DayLen <= y /\ y < d * DayLen + DayLen
    BY <1>3
  <2>. HIDE DEF y
  <2>2. y \div DayLen = d /\ TimeOfDay(y) = y - d * DayLen
    BY <2>1, TimeInDay
  <2>. QED  BY <2>2 DEF y
<1>6. OneDay(e)
  BY <1>2, <1>4, <1>5 DEF OneDay
<1>7. FitsRule(e)
  <2>1. TimeOfDay(t - u) = t - u - x
    <3>. DEFINE y == t - u
    <3>1. y \in Int /\ d * DayLen <= y /\ y < d * DayLen + DayLen
      BY <1>3
    <3>. HIDE DEF y
    <3>2. TimeOfDay(y) = y - d * DayLen
      BY <3>1, TimeInDay
    <3>. QED  BY <3>2 DEF y
  <2>2. TimeOfDay(t + l + v) = (t + l + v) - x
    <3>. DEFINE y == t + l + v
    <3>1. y \in Int /\ d * DayLen <= y /\ y < d * DayLen + DayLen
      BY <1>3
    <3>. HIDE DEF y
    <3>2. TimeOfDay(y) = y - d * DayLen
      BY <3>1, TimeInDay
    <3>. QED  BY <3>2 DEF y
  <2>. QED  BY <1>1, <1>2, <2>1, <2>2 DEF FitsRule
<1>8. \A w \in Diary[s].off : w.from \in Int /\ w.to \in Int
  BY DiaryAssumption DEF Window
<1>9. DaySpan(d) = [from |-> d * DayLen, to |-> d * DayLen + DayLen]
  BY <1>1 DEF DaySpan
<1>10. \A w \in Diary[s].off : Overlaps(w, SlotSpan(Alone(p), t)) => Overlaps(w, DaySpan(d))
  BY <1>1, <1>2, <1>8, <1>9 DEF Overlaps
<1>11. Away(s, Alone(p), t, d) <=> \E w \in Diary[s].off : Overlaps(w, SlotSpan(Alone(p), t))
  BY <1>10 DEF Away
<1>12. InHours(e) <=> ~Away(s, Alone(p), t, d)
  BY <1>2, <1>6, <1>7, <1>11 DEF InHours
<1>13. ~Away(s, Alone(p), t, d) =>
         \A w \in Diary[s].off : ~Overlaps(w, [from |-> t, to |-> t + Catalog[p].duration])
  BY <1>1, <1>2, <1>8, <1>11 DEF Overlaps
<1>. QED  BY <1>1, <1>2, <1>4, <1>5, <1>6, <1>12, <1>13

(* Rows have integer times and a service of the catalogue. *)
LEMMA RowFacts ==
  ASSUME TypeOK, NEW b \in Appt
  PROVE  /\ appointment[b].start \in Int /\ appointment[b].end \in Int
         /\ Occupied(appointment[b]).from \in Int /\ Occupied(appointment[b]).to \in Int
         /\ Occupied(appointment[b]).from >= appointment[b].start - LockMargin
         /\ Occupied(appointment[b]).to <= appointment[b].end + LockMargin
         /\ LockMargin \in Nat
<1>1. /\ appointment[b].start \in Int /\ appointment[b].end \in Int
      /\ appointment[b].service \in Services
  BY DiaryAssumption DEF TypeOK, Row
<1>2. /\ LockMargin \in Nat
      /\ Catalog[appointment[b].service].before \in 0 .. LockMargin
      /\ Catalog[appointment[b].service].after \in 0 .. LockMargin
  BY <1>1, CatalogAssumption, DiaryAssumption DEF Services
<1>. QED  BY <1>1, <1>2 DEF Occupied

(* Whatever overlaps a slot of the grid is returned by both queries. *)
LEMMA BothLookFarEnough ==
  ASSUME TypeOK, NEW s \in Staff, NEW p \in Services, NEW d \in Int,
         NEW t \in Grid(s, Alone(p), d), NEW b \in Appt,
         Overlaps(SlotSpan(Alone(p), t), Occupied(appointment[b]))
  PROVE  /\ NearDay(appointment[b], d)
         /\ Near(Wanted(s, Alone(p), t), appointment[b])
<1>. DEFINE span == SlotSpan(Alone(p), t)
            f == appointment[b]
            x == d * DayLen
<1>1. /\ t \in Int
      /\ Diary[s].opens \in Nat /\ Diary[s].closes \in Nat /\ Diary[s].closes < DayLen
      /\ x \in Int /\ (d + 1) * DayLen = x + DayLen /\ DayLen \in Nat
      /\ t - Catalog[p].before >= x + Diary[s].opens
      /\ t + Catalog[p].duration + Catalog[p].after <= x + Diary[s].closes
  BY SlotInDay
<1>2. /\ Catalog[p].duration \in Nat /\ Catalog[p].before \in Nat /\ Catalog[p].after \in Nat
      /\ Occupied(Wanted(s, Alone(p), t)) = span
      /\ span = [from |-> t - Catalog[p].before,
                 to |-> t + Catalog[p].duration + Catalog[p].after]
  <2>1. /\ Catalog[p].duration \in Nat \ {0}
        /\ Catalog[p].before \in 0 .. LockMargin /\ Catalog[p].after \in 0 .. LockMargin
        /\ LockMargin \in Nat
    BY <1>1, AloneFacts
  <2>2. Occupied(Wanted(s, Alone(p), t)) = span
    BY <1>1, AloneFacts
  <2>3. span = [from |-> t - Catalog[p].before,
                to |-> t + Catalog[p].duration + Catalog[p].after]
    BY <1>1, AloneFacts
  <2>. QED  BY <2>1, <2>2, <2>3
<1>3. span.from \in Int /\ span.to \in Int /\ span.from >= x /\ span.to < x + DayLen
  BY <1>1, <1>2
<1>4. /\ f.start \in Int /\ f.end \in Int
      /\ Occupied(f).from \in Int /\ Occupied(f).to \in Int
      /\ Occupied(f).from >= f.start - LockMargin
      /\ Occupied(f).to <= f.end + LockMargin
      /\ LockMargin \in Nat
  BY RowFacts
<1>5. span.from < Occupied(f).to /\ span.to > Occupied(f).from
  BY DEF Overlaps
<1>6. DaySpan(d) = [from |-> x, to |-> x + DayLen]
  BY <1>1 DEF DaySpan
<1>. HIDE DEF span, f, x
<1>7. f.start < span.to + LockMargin /\ f.end > span.from - LockMargin
  BY <1>3, <1>4, <1>5
<1>8. f.start < (x + DayLen) + LockMargin /\ f.end > x - LockMargin
  BY <1>1, <1>3, <1>4, <1>7
<1>9. NearDay(f, d)
  BY <1>6, <1>8 DEF NearDay
<1>10. Near(Wanted(s, Alone(p), t), f)
  BY <1>2, <1>7 DEF Near
<1>. QED  BY <1>9, <1>10 DEF f

(* The generator and the transaction find the same appointments in the way. *)
LEMMA SameBlocking ==
  ASSUME TypeOK, NEW s \in Staff, NEW p \in Services, NEW d \in Int,
         NEW t \in Grid(s, Alone(p), d), NEW a \in Free
  PROVE  Overlapping(a, Wanted(s, Alone(p), t)) = Blocking(s, Alone(p), t, d)
<1>. DEFINE e == Wanted(s, Alone(p), t)
<1>1. t \in Int
  BY SlotInDay
<1>2. e.staff = s /\ Occupied(e) = SlotSpan(Alone(p), t)
  <2>1. Occupied(e) = SlotSpan(Alone(p), t)
    BY <1>1, AloneFacts
  <2>. QED  BY <2>1 DEF Wanted
<1>3. a \in Appt /\ ~Active(appointment[a])
  BY DEF Free, Exists, Active, ActiveStatuses
<1>4. ASSUME NEW b \in Appt,
             Overlaps(SlotSpan(Alone(p), t), Occupied(appointment[b]))
      PROVE  NearDay(appointment[b], d) /\ Near(e, appointment[b])
  BY <1>4, BothLookFarEnough
<1>. HIDE DEF e
<1>5. \A b \in Appt : b \in Overlapping(a, e) <=> b \in Blocking(s, Alone(p), t, d)
  BY <1>2, <1>3, <1>4 DEF Overlapping, Blocking, Collide
<1>6. Overlapping(a, e) \subseteq Appt /\ Blocking(s, Alone(p), t, d) \subseteq Appt
  BY DEF Overlapping, Blocking
<1>. QED  BY <1>5, <1>6 DEF e

LEMMA AloneResources ==
  ASSUME NEW p \in Services
  PROVE  /\ ResourceIds(Selected(Alone(p))) = {Catalog[p].resource} \ {NoResource}
         /\ ResourceIds({p}) = {Catalog[p].resource} \ {NoResource}
<1>1. Selected(Alone(p)) = {p}
  BY DEF Selected, Alone
<1>. QED  BY <1>1 DEF ResourceIds

(* What is offered passes the check of the transaction ... *)
LEMMA OfferIsBookable ==
  ASSUME TypeOK, NEW s \in Staff, NEW p \in Services, NEW d \in Int,
         NEW t \in Grid(s, Alone(p), d), NEW a \in Free, Open(s, Alone(p), t, d)
  PROVE  AssertBookableWindow(a, Wanted(s, Alone(p), t), ResourceIds(Selected(Alone(p))))
<1>. DEFINE e == Wanted(s, Alone(p), t)
            ids == ResourceIds(Selected(Alone(p)))
            blocking == Blocking(s, Alone(p), t, d)
<1>1. t \in Int
  BY SlotInDay
<1>2. /\ e = [staff |-> s, service |-> p, start |-> t, end |-> t + Catalog[p].duration]
      /\ Occupied(e) = SlotSpan(Alone(p), t)
  BY <1>1, AloneFacts
<1>3. /\ \A b \in blocking : appointment[b].service = p /\ appointment[b].start = t
      /\ Cardinality(blocking) < Seats([service |-> p])
      /\ ~RoomTaken(s, Alone(p), t, d)
      /\ ~Away(s, Alone(p), t, d)
  BY DEF Open, Alone
<1>4. Overlapping(a, e) = blocking
  BY SameBlocking
<1>5. InHours(e)
  BY <1>3, SlotHours
<1>6. \A b \in Overlapping(a, e) : SameInstance(e, appointment[b])
  BY <1>2, <1>3, <1>4 DEF SameInstance
<1>7. Cardinality(Overlapping(a, e)) =< Seats(e) /\ Cardinality(Overlapping(a, e)) < Seats(e)
  <2>1. Seats(e) = Seats([service |-> p])
    BY <1>2 DEF Seats
  <2>2. Cardinality(Overlapping(a, e)) < Seats(e)
    BY <1>3, <1>4, <2>1
  <2>3. Cardinality(Overlapping(a, e)) \in Nat /\ Seats(e) \in Int
    <3>1. IsFiniteSet(Overlapping(a, e))
      BY ApptAssumption, FS_Subset DEF Overlapping
    <3>2. Catalog[p].capacity \in Nat
      BY CatalogAssumption DEF Services
    <3>. QED  BY <1>2, <3>1, <3>2, FS_CardinalityType DEF Seats
  <2>. QED  BY <2>2, <2>3
<1>8. ~ResourceBusy(a, e, ids)
  <2>1. SUFFICES ASSUME NEW b \in Appt \ {a},
                        Active(appointment[b]), ResourceOf(appointment[b]) \in ids,
                        ~SameInstance(e, appointment[b]), Collide(e, appointment[b])
                 PROVE  FALSE
    BY DEF ResourceBusy
  <2>2. Overlaps(SlotSpan(Alone(p), t), Occupied(appointment[b]))
    BY <1>2, <2>1 DEF Collide
  <2>3. CASE appointment[b].staff = s
    <3>1. b \in Overlapping(a, e)
      BY <1>2, <2>1, <2>3 DEF Overlapping
    <3>. QED  BY <1>6, <2>1, <3>1
  <2>4. CASE appointment[b].staff # s
    <3>1. NearDay(appointment[b], d)
      BY <2>2, BothLookFarEnough
    <3>. QED  BY <1>3, <2>1, <2>2, <2>4, <3>1 DEF RoomTaken
  <2>. QED  BY <2>3, <2>4
<1>. HIDE DEF e, ids
<1>9. AssertBookableWindow(a, e, ids)
  BY <1>5, <1>6, <1>7, <1>8 DEF AssertBookableWindow
<1>. QED  BY <1>9 DEF e, ids

(* ... and where no room is needed, what is not offered does not. *)
LEMMA NothingIsHidden ==
  ASSUME TypeOK, NEW s \in Staff, NEW p \in Services, NEW d \in Int,
         NEW t \in Grid(s, Alone(p), d), NEW a \in Free,
         ~Open(s, Alone(p), t, d), Catalog[p].resource = NoResource
  PROVE  ~AssertBookableWindow(a, Wanted(s, Alone(p), t), {})
<1>. DEFINE e == Wanted(s, Alone(p), t)
            blocking == Blocking(s, Alone(p), t, d)
<1>1. t \in Int
  BY SlotInDay
<1>2. e = [staff |-> s, service |-> p, start |-> t, end |-> t + Catalog[p].duration]
  BY <1>1, AloneFacts
<1>3. ~RoomTaken(s, Alone(p), t, d)
  <2>1. ResourceIds(Selected(Alone(p))) = {}
    BY AloneResources
  <2>. QED  BY <2>1 DEF RoomTaken
<1>4. \/ \E b \in blocking : ~(appointment[b].service = p /\ appointment[b].start = t)
      \/ ~(Cardinality(blocking) < Seats([service |-> p]))
      \/ Away(s, Alone(p), t, d)
  BY <1>3 DEF Open, Alone
<1>5. Overlapping(a, e) = blocking
  BY SameBlocking
<1>6. CASE \E b \in blocking : ~(appointment[b].service = p /\ appointment[b].start = t)
  BY <1>2, <1>5, <1>6 DEF AssertBookableWindow, SameInstance
<1>7. CASE ~(Cardinality(blocking) < Seats([service |-> p]))
  <2>1. Seats(e) = Seats([service |-> p])
    BY <1>2 DEF Seats
  <2>. QED  BY <1>5, <1>7, <2>1 DEF AssertBookableWindow
<1>8. CASE Away(s, Alone(p), t, d)
  BY <1>8, SlotHours DEF AssertBookableWindow
<1>. QED  BY <1>4, <1>6, <1>7, <1>8

LEMMA OffersFit == TypeOK => OffersAreExact
<1>. SUFFICES ASSUME TypeOK, NEW s \in Staff, NEW d \in Days, NEW p \in Services, Free # {},
                     NEW t \in Grid(s, Alone(p), d)
              PROVE  IF Open(s, Alone(p), t, d)
                     THEN Accepted(s, Alone(p), t)
                     ELSE Catalog[p].resource = NoResource =>
                            ~\E a \in Free : AssertBookableWindow(a, Wanted(s, Alone(p), t), {})
  BY DEF OffersAreExact
<1>. DEFINE e == Wanted(s, Alone(p), t)
<1>1. d \in Int /\ t \in Int
  <2>1. d \in Int
    BY DayIsInt
  <2>. QED  BY <2>1, SlotInDay
<1>2. CASE Open(s, Alone(p), t, d)
  <2>1. e = [staff |-> s, service |-> p, start |-> t, end |-> t + Catalog[p].duration]
    BY <1>1, AloneFacts
  <2>2. /\ t \div DayLen = d /\ OneDay(e)
        /\ TimeOfDay(t) >= Diary[s].opens
        /\ TimeOfDay(t + Catalog[p].duration) <= Diary[s].closes
        /\ ~Away(s, Alone(p), t, d) =>
              \A w \in Diary[s].off : ~Overlaps(w, [from |-> t, to |-> t + Catalog[p].duration])
    BY <1>1, SlotHours
  <2>3. ~Away(s, Alone(p), t, d)
    BY <1>2 DEF Open
  <2>4. StartsAtAvailable(e)
    BY <1>2, <2>1, <2>2, <2>3 DEF StartsAtAvailable
  <2>5. PICK a \in Free : TRUE
    OBVIOUS
  <2>6. AssertBookableWindow(a, e, ResourceIds(Selected(Alone(p))))
    BY <1>1, <1>2, OfferIsBookable
  <2>. QED  BY <1>2, <2>4, <2>5, <2>6 DEF Accepted
<1>3. CASE ~Open(s, Alone(p), t, d)
  BY <1>1, <1>3, NothingIsHidden
<1>. QED  BY <1>2, <1>3

(* availability.service.ts:234 for one service, in every reachable state:    *)
(* the page offers exactly the times of its grid that create accepts.        *)
THEOREM OffersExact == Spec => []OffersAreExact
  BY TypeSafety, OffersFit, PTL
=============================================================================
