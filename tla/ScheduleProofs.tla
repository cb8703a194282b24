--------------------------- MODULE ScheduleProofs ---------------------------
(***************************************************************************)
(* Facts about the time arithmetic that the proofs of Calendar and         *)
(* Bookings rest on.                                                       *)
(***************************************************************************)
EXTENDS Schedule, TLAPS

(* An entry has a service of the catalog, with a duration and two buffers. *)
LEMMA EntryFields ==
    ASSUME NEW e \in Entry
    PROVE  /\ e.staff \in Staff /\ e.service \in Services
           /\ e.start \in Int /\ e.end \in Int /\ e.start < e.end
           /\ Catalog[e.service].before \in 0 .. LockMargin
           /\ Catalog[e.service].after \in 0 .. LockMargin
           /\ Catalog[e.service].capacity \in Nat
           /\ LockMargin \in Nat
  BY CatalogAssumption, DiaryAssumption DEF Entry, Services

(* The span of an entry is a window with at least one instant in it. *)
LEMMA OccupiedWindow ==
    ASSUME NEW e \in Entry
    PROVE  /\ Occupied(e).from = e.start - Catalog[e.service].before
           /\ Occupied(e).to = e.end + Catalog[e.service].after
           /\ Occupied(e) \in Window
           /\ Occupied(e).from < Occupied(e).to
  BY EntryFields DEF Occupied, Window

LEMMA OverlapsSymmetric ==
    ASSUME NEW e \in Entry, NEW f \in Entry
    PROVE  Overlaps(Occupied(e), Occupied(f)) <=> Overlaps(Occupied(f), Occupied(e))
  BY OccupiedWindow DEF Overlaps, Window

(***************************************************************************)
(* The margin of the lock query is wide enough: whatever e overlaps is     *)
(* among the rows that e's transaction looks at, and the other way round.  *)
(* This is where the 480-minute cap on buffers is needed.                  *)
(***************************************************************************)
LEMMA OverlapIsNear ==
    ASSUME NEW e \in Entry, NEW f \in Entry, Overlaps(Occupied(e), Occupied(f))
    PROVE  Near(e, f) /\ Near(f, e)
  <1>1. /\ Occupied(e).from \in Int /\ Occupied(e).to \in Int
        /\ Occupied(f).from \in Int /\ Occupied(f).to \in Int
    BY OccupiedWindow DEF Window
  <1>2. /\ e.start =< Occupied(e).from + LockMargin
        /\ e.end >= Occupied(e).to - LockMargin
        /\ f.start =< Occupied(f).from + LockMargin
        /\ f.end >= Occupied(f).to - LockMargin
    BY OccupiedWindow, EntryFields
  <1>3. /\ Occupied(e).from < Occupied(f).to
        /\ Occupied(e).to > Occupied(f).from
    BY DEF Overlaps
  <1>4. /\ e.start \in Int /\ e.end \in Int /\ f.start \in Int /\ f.end \in Int
        /\ LockMargin \in Nat
    BY EntryFields
  <1> QED BY <1>1, <1>2, <1>3, <1>4 DEF Near

(* Seats of one class occupy overlapping spans, whatever was added to them. *)
LEMMA SeatsOverlap ==
    ASSUME NEW e \in Entry, NEW f \in Entry, SameInstance(e, f)
    PROVE  Overlaps(Occupied(e), Occupied(f))
  BY EntryFields, OccupiedWindow DEF SameInstance, Overlaps

LEMMA SameInstanceEquivalence ==
    ASSUME NEW e, NEW f, NEW g
    PROVE  /\ SameInstance(e, f) => SameInstance(f, e) /\ Seats(e) = Seats(f)
           /\ SameInstance(e, f) /\ SameInstance(f, g) => SameInstance(e, g)
           /\ SameInstance(e, e)
  BY DEF SameInstance, Seats

LEMMA SeatsType ==
    ASSUME NEW e \in Entry
    PROVE  Seats(e) \in Nat /\ Seats(e) >= 1
  BY EntryFields DEF Seats
=============================================================================
