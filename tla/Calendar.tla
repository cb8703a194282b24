------------------------------ MODULE Calendar ------------------------------
(***************************************************************************)
(* What the booking engine promises: a calendar in which entries are       *)
(* placed, moved and taken out one at a time, and an entry only ever goes  *)
(* where it fits next to every other entry.  There are no requests, no     *)
(* transactions and no retries here; Bookings is shown to implement this   *)
(* module for the appointments its transactions have vetted.               *)
(***************************************************************************)
EXTENDS Schedule

VARIABLE diary  \* appointment |-> the entry it occupies; a partial function

(* The entries of the same provider that e would collide with. *)
Colliding(a, e) ==
    {b \in DOMAIN diary \ {a} :
        diary[b].staff = e.staff /\ Overlaps(Occupied(e), Occupied(diary[b]))}

(***************************************************************************)
(* An entry fits if all it collides with are seats of the class it joins,  *)
(* a seat is left, and nobody else has the room or chair it needs.         *)
(***************************************************************************)
Fits(a, e) ==
    /\ \A b \in Colliding(a, e) : SameInstance(e, diary[b])
    /\ Cardinality(Colliding(a, e)) < Seats(e)
    /\ \A b \in DOMAIN diary \ {a} : SameResource(e, diary[b]) => ~Conflict(e, diary[b])

CalendarInit == diary = [a \in {} |-> {}]

Place(a, e) ==
    /\ Fits(a, e)
    /\ diary' = [b \in DOMAIN diary \cup {a} |-> IF b = a THEN e ELSE diary[b]]

Release(a) ==
    /\ a \in DOMAIN diary
    /\ diary' = [b \in DOMAIN diary \ {a} |-> diary[b]]

CalendarNext ==
    \E a \in Appt : Release(a) \/ \E e \in Entry : Place(a, e)

CalendarSpec == CalendarInit /\ [][CalendarNext]_diary

-----------------------------------------------------------------------------
DiaryTypeOK ==
    /\ DOMAIN diary \subseteq Appt
    /\ diary \in [DOMAIN diary -> Entry]

(***************************************************************************)
(* No two entries of one provider, nor of one room, collide - whatever was *)
(* placed, moved and taken out before.                                     *)
(***************************************************************************)
EntriesNeverCollide ==
    \A a, b \in DOMAIN diary :
        a # b /\ (diary[a].staff = diary[b].staff \/ SameResource(diary[a], diary[b]))
        => ~Conflict(diary[a], diary[b])

(* The entries that share a provider, a service and a start with entry a. *)
ClassOf(a) ==
    {b \in DOMAIN diary : diary[b].staff = diary[a].staff /\ SameInstance(diary[a], diary[b])}

(* A class never has more entries than its service has seats. *)
ClassesWithinCapacity ==
    \A a \in DOMAIN diary : Cardinality(ClassOf(a)) =< Seats(diary[a])

CalendarInv == DiaryTypeOK /\ EntriesNeverCollide /\ ClassesWithinCapacity
=============================================================================
