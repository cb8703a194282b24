---------------------------- MODULE Availability ----------------------------
(***************************************************************************)
(* The times the booking page offers (getAvailableSlots and                *)
(* generateDaySlots of availability.service.ts) and what a public booking  *)
(* request has to pass: assertStartsAtAvailable, which asks for the same   *)
(* offer again, and then the check of the booking transaction.  The two    *)
(* checks are written twice in the code and must agree on every calendar   *)
(* that the handlers of Bookings can leave behind.                         *)
(***************************************************************************)
EXTENDS Bookings

(* Hours are given as HH:mm: a day closes before midnight. *)
ASSUME HoursAssumption == \A s \in Staff : Diary[s].closes < DayLen

(* What a client selects: a service and at most one more. *)
Bundle == {b \in [primary : Services, more : SUBSET Services] :
              Cardinality(b.more) <= 1 /\ b.primary \notin b.more}

Selected(b) == {b.primary} \cup b.more

LargestOf(S) == CHOOSE n \in S : \A m \in S : n >= m

Length(b) ==
    Catalog[b.primary].duration
      + (IF b.more = {} THEN 0 ELSE Catalog[CHOOSE s \in b.more : TRUE].duration)

Before(b) == LargestOf({Catalog[s].before : s \in Selected(b)})
After(b) == LargestOf({Catalog[s].after : s \in Selected(b)})

(* The span a slot would occupy, with the largest buffers of the selection. *)
SlotSpan(b, t) == [from |-> t - Before(b), to |-> t + Length(b) + After(b)]

Days == {t \div DayLen : t \in Times}
DaySpan(d) == [from |-> d * DayLen, to |-> (d + 1) * DayLen]

(* One slot after another from opening time on, while they fit. *)
Grid(s, b, d) ==
    LET first == DaySpan(d).from + Diary[s].opens + Before(b)
        last == DaySpan(d).from + Diary[s].closes - After(b) - Length(b)
        period == Before(b) + Length(b) + After(b)
    IN {t \in first .. last : (t - first) % period = 0}

(* The rows and windows that the queries of a day return. *)
NearDay(f, d) ==
    f.start < DaySpan(d).to + LockMargin /\ f.end > DaySpan(d).from - LockMargin

(* Mutant: the buffers of the appointment do not count. *)
BlockingWithoutBuffers(s, b, t, d) ==
    {a \in Appt : /\ Active(appointment[a])
                  /\ appointment[a].staff = s
                  /\ NearDay(appointment[a], d)
                  /\ Overlaps(SlotSpan(b, t), [from |-> appointment[a].start, to |-> appointment[a].end])}

Blocking(s, b, t, d) ==
    {a \in Appt : /\ Active(appointment[a])
                  /\ appointment[a].staff = s
                  /\ NearDay(appointment[a], d)
                  /\ Overlaps(SlotSpan(b, t), Occupied(appointment[a]))}

RoomTaken(s, b, t, d) ==
    \E a \in Appt :
        /\ Active(appointment[a])
        /\ appointment[a].staff # s
        /\ NearDay(appointment[a], d)
        /\ ResourceOf(appointment[a]) \in ResourceIds(Selected(b))
        /\ Overlaps(SlotSpan(b, t), Occupied(appointment[a]))

Away(s, b, t, d) ==
    \E w \in Diary[s].off : Overlaps(w, DaySpan(d)) /\ Overlaps(w, SlotSpan(b, t))

(* Neither an appointment, unless it is a seat of the same class, nor a      *)
(* room, nor time off is in the way.                                         *)
Open(s, b, t, d) ==
    /\ LET blocking == Blocking(s, b, t, d)
       IN /\ \A a \in blocking : appointment[a].service = b.primary /\ appointment[a].start = t
          /\ Cardinality(blocking) < Seats([service |-> b.primary])
    /\ ~RoomTaken(s, b, t, d)
    /\ ~Away(s, b, t, d)

Offered(s, b, d) == {t \in Grid(s, b, d) : Open(s, b, t, d)}

-----------------------------------------------------------------------------
(* The appointment that create would insert for a slot. *)
Wanted(s, b, t) == [staff |-> s, service |-> b.primary, start |-> t, end |-> t + Length(b)]

Alone(p) == [primary |-> p, more |-> {}]

(* The start must be on offer for the first service alone. *)
StartsAtAvailable(e) ==
    /\ e.start \in Grid(e.staff, Alone(e.service), e.start \div DayLen)
    /\ Open(e.staff, Alone(e.service), e.start, e.start \div DayLen)
    /\ OneDay(e)
    /\ TimeOfDay(e.start) >= Diary[e.staff].opens
    /\ TimeOfDay(e.end) <= Diary[e.staff].closes
    /\ \A w \in Diary[e.staff].off : ~Overlaps(w, [from |-> e.start, to |-> e.end])

(* Rows that do not exist are alike: what holds of one of them is enough. *)
Free == {a \in Appt : ~Exists(appointment[a])}

Accepted(s, b, t) ==
    /\ StartsAtAvailable(Wanted(s, b, t))
    /\ \E a \in Free : AssertBookableWindow(a, Wanted(s, b, t), ResourceIds(Selected(b)))

(* A single service: whatever has been booked, moved and cancelled so far,   *)
(* create accepts every time that is offered, and where no room is shared    *)
(* its check refuses every other time of the grid: nothing is hidden that    *)
(* could be booked.                                                          *)
OffersAreExact ==
    \A s \in Staff, d \in Days, p \in Services :
        Free # {} =>
            LET b == Alone(p)
            IN \A t \in Grid(s, b, d) :
                 IF Open(s, b, t, d)
                 THEN Accepted(s, b, t)
                 ELSE Catalog[p].resource = NoResource =>
                        ~\E a \in Free : AssertBookableWindow(a, Wanted(s, b, t), {})

(* availability.service.ts:234: the calendar never offers a time that        *)
(* create() will reject - with an additional service selected, too.          *)
OfferedIsAccepted ==
    \A s \in Staff, d \in Days, b \in Bundle :
        Free # {} => \A t \in Offered(s, b, d) : Accepted(s, b, t)
=============================================================================
