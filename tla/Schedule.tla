------------------------------ MODULE Schedule ------------------------------
(***************************************************************************)
(* The time arithmetic of the booking engine: which span of the calendar   *)
(* an appointment occupies, when two spans collide, which rows a booking   *)
(* transaction looks at, and whether a span fits the opening hours.        *)
(*                                                                         *)
(* Times are integers in any unit; day d covers d*DayLen .. (d+1)*DayLen-1.*)
(* An entry is a record with (at least) the fields staff, service, start   *)
(* and end of an appointment row.                                          *)
(***************************************************************************)
EXTENDS Integers, FiniteSets

CONSTANTS
    Appt,        \* appointment ids
    Staff,       \* providers of the business
    Resources,   \* shared rooms, chairs and equipment
    NoResource,  \* what a service that needs no resource has
    Catalog,     \* service |-> [duration, before, after, capacity, resource]
    Diary,       \* provider |-> [opens, closes, off]: hours and time off
    Times,       \* the instants of the horizon that is modelled
    DayLen,      \* length of a day
    LockMargin   \* how far around a span the transaction looks (480 minutes)

Services == DOMAIN Catalog

Window == [from : Int, to : Int]

Entry == {e \in [staff : Staff, service : Services, start : Times, end : Times] :
            e.start < e.end}

ASSUME ApptAssumption == IsFiniteSet(Appt) /\ Appt # {}

(***************************************************************************)
(* The buffers of a service are capped by its DTO at 480 minutes           *)
(* (services/dto), which is exactly the margin of the lock query.          *)
(***************************************************************************)
ASSUME StaffAssumption == Staff # {} /\ Services # {}

ASSUME CatalogAssumption ==
    Catalog \in [Services -> [duration : Nat \ {0}, before : 0 .. LockMargin,
                              after : 0 .. LockMargin, capacity : Nat,
                              resource : Resources \cup {NoResource}]]

ASSUME DiaryAssumption ==
    /\ Times \subseteq Int /\ Times # {}
    /\ LockMargin \in Nat
    /\ DayLen \in Nat \ {0}
    /\ Diary \in [Staff -> [opens : Nat, closes : Nat, off : SUBSET Window]]

-----------------------------------------------------------------------------
(* The span an entry occupies, its service's buffers included. *)
Occupied(e) ==
    [from |-> e.start - Catalog[e.service].before,
     to   |-> e.end + Catalog[e.service].after]

Overlaps(v, w) == v.from < w.to /\ v.to > w.from

(* Two seats of one class: same service, same start. *)
SameInstance(e, f) == e.service = f.service /\ e.start = f.start

(* The rows that the FOR UPDATE and the overlap query of e look at. *)
Near(e, f) ==
    /\ f.start < Occupied(e).to + LockMargin
    /\ f.end > Occupied(e).from - LockMargin

(* Two entries that nobody can hold at once unless they are one class. *)
Conflict(e, f) == Overlaps(Occupied(e), Occupied(f)) /\ ~SameInstance(e, f)

Collide(e, f) == Near(e, f) /\ Overlaps(Occupied(e), Occupied(f))

Seats(e) == IF Catalog[e.service].capacity < 1 THEN 1 ELSE Catalog[e.service].capacity

ResourceOf(e) == Catalog[e.service].resource

SameResource(e, f) == ResourceOf(e) # NoResource /\ ResourceOf(f) = ResourceOf(e)

(* The resources that a set of services needs. *)
ResourceIds(S) == {Catalog[s].resource : s \in S} \ {NoResource}

-----------------------------------------------------------------------------
(***************************************************************************)
(* Opening hours.  Only the local time of day of the two ends of the       *)
(* occupied span is compared with the rule, after a check that start and   *)
(* end (without buffers) fall on the same day.                             *)
(***************************************************************************)
TimeOfDay(t) == t % DayLen

OneDay(e) == e.start \div DayLen = e.end \div DayLen

FitsRule(e) ==
    /\ TimeOfDay(Occupied(e).from) >= Diary[e.staff].opens
    /\ TimeOfDay(Occupied(e).to) =< Diary[e.staff].closes

InHours(e) ==
    /\ OneDay(e)
    /\ FitsRule(e)
    /\ \A w \in Diary[e.staff].off : ~Overlaps(w, Occupied(e))
=============================================================================
