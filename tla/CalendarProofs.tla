--------------------------- MODULE CalendarProofs ---------------------------
(***************************************************************************)
(* The abstract calendar keeps its promise for every catalog, every set of *)
(* providers and resources and every number of appointments.               *)
(***************************************************************************)
EXTENDS Calendar, ScheduleProofs, FiniteSetTheorems

(* Every set of entries of the diary is finite. *)
LEMMA DiaryFinite ==
    ASSUME DOMAIN diary \subseteq Appt, NEW S \in SUBSET DOMAIN diary
    PROVE  IsFiniteSet(S) /\ Cardinality(S) \in Nat
  BY ApptAssumption, FS_Subset, FS_CardinalityType

(* Placing an entry where it fits keeps the invariant. *)
LEMMA PlaceKeepsInv ==
    ASSUME CalendarInv, NEW a \in Appt, NEW e \in Entry, Place(a, e)
    PROVE  CalendarInv'
  <1> DEFINE others == DOMAIN diary \ {a}
  <1>1. /\ DOMAIN diary' = others \cup {a}
        /\ diary'[a] = e
        /\ \A b \in others : diary'[b] = diary[b]
        /\ \A b \in others : diary[b] \in Entry
        /\ others \subseteq Appt
    BY DEF Place, CalendarInv, DiaryTypeOK
  <1>2. DiaryTypeOK'
    BY <1>1 DEF Place, DiaryTypeOK, CalendarInv
  <1>3. \A b \in others :
            diary[b].staff = e.staff \/ SameResource(e, diary[b])
            => ~Conflict(e, diary[b])
    BY DEF Place, Fits, Colliding, Conflict
  <1>4. EntriesNeverCollide'
    <2> SUFFICES ASSUME NEW b \in DOMAIN diary', NEW c \in DOMAIN diary', b # c,
                        diary'[b].staff = diary'[c].staff
                          \/ SameResource(diary'[b], diary'[c])
                 PROVE  ~Conflict(diary'[b], diary'[c])
      BY DEF EntriesNeverCollide
    <2>1. CASE b = a
      BY <2>1, <1>1, <1>3
    <2>2. CASE c = a
      <3>1. b \in others /\ diary'[b] = diary[b] /\ diary[b] \in Entry
        BY <2>2, <1>1
      <3>2. diary[b].staff = e.staff \/ SameResource(e, diary[b])
        BY <2>2, <1>1, <3>1 DEF SameResource
      <3>3. ~Conflict(e, diary[b])
        BY <1>3, <3>1, <3>2
      <3> QED BY <2>2, <1>1, <3>1, <3>3, OverlapsSymmetric, SameInstanceEquivalence DEF Conflict
    <2>3. CASE b \in others /\ c \in others
      BY <2>3, <1>1 DEF CalendarInv, EntriesNeverCollide
    <2> QED BY <2>1, <2>2, <2>3, <1>1
  <1>5. ClassesWithinCapacity'
    <2> SUFFICES ASSUME NEW b \in DOMAIN diary'
                 PROVE  Cardinality(ClassOf(b)') =< Seats(diary'[b])
      BY DEF ClassesWithinCapacity
    <2>1. CASE \/ b = a
               \/ b \in others /\ diary[b].staff = e.staff /\ SameInstance(diary[b], e)
      <3>1. /\ diary'[b].staff = e.staff
            /\ SameInstance(diary'[b], e)
            /\ Seats(diary'[b]) = Seats(e)
        BY <2>1, <1>1, SameInstanceEquivalence
      <3>2. \A c \in ClassOf(b)' \ {a} :
                c \in others /\ diary[c].staff = e.staff /\ SameInstance(e, diary[c])
        BY <1>1, <3>1, SameInstanceEquivalence DEF ClassOf
      <3>3. ClassOf(b)' \subseteq Colliding(a, e) \cup {a}
        BY <3>2, <1>1, SeatsOverlap DEF Colliding
      <3>4. /\ IsFiniteSet(Colliding(a, e))
            /\ Cardinality(Colliding(a, e)) \in Nat
        BY DiaryFinite DEF CalendarInv, DiaryTypeOK, Colliding
      <3>5. /\ IsFiniteSet(Colliding(a, e) \cup {a})
            /\ Cardinality(Colliding(a, e) \cup {a}) =< Cardinality(Colliding(a, e)) + 1
        <4> DEFINE C == Colliding(a, e)
        <4>1. IsFiniteSet(C) /\ Cardinality(C) \in Nat
          BY <3>4
        <4> HIDE DEF C
        <4>2. /\ IsFiniteSet(C \cup {a})
              /\ \/ Cardinality(C \cup {a}) = Cardinality(C)
                 \/ Cardinality(C \cup {a}) = Cardinality(C) + 1
          BY <4>1, FS_AddElement
        <4>3. Cardinality(C \cup {a}) =< Cardinality(C) + 1
          BY <4>1, <4>2
        <4> QED BY <4>2, <4>3 DEF C
      <3>6. /\ Cardinality(ClassOf(b)') =< Cardinality(Colliding(a, e) \cup {a})
            /\ Cardinality(ClassOf(b)') \in Nat
            /\ Cardinality(Colliding(a, e) \cup {a}) \in Nat
        BY <3>3, <3>5, FS_Subset, FS_CardinalityType
      <3>7. Cardinality(Colliding(a, e)) < Seats(e) /\ Seats(e) \in Nat
        BY SeatsType DEF Place, Fits
      <3> QED BY <3>1, <3>4, <3>5, <3>6, <3>7
    <2>2. CASE b \in others /\ ~(diary[b].staff = e.staff /\ SameInstance(diary[b], e))
      <3>1. ClassOf(b)' \subseteq ClassOf(b)
        BY <2>2, <1>1 DEF ClassOf
      <3>2. IsFiniteSet(ClassOf(b)) /\ Cardinality(ClassOf(b)) \in Nat
        BY DiaryFinite DEF CalendarInv, DiaryTypeOK, ClassOf
      <3>3. /\ Cardinality(ClassOf(b)') =< Cardinality(ClassOf(b))
            /\ Cardinality(ClassOf(b)') \in Nat
        BY <3>1, <3>2, FS_Subset, FS_CardinalityType
      <3>4. Cardinality(ClassOf(b)) =< Seats(diary[b]) /\ Seats(diary[b]) \in Nat
        BY <2>2, <1>1, SeatsType DEF CalendarInv, ClassesWithinCapacity
      <3> QED BY <2>2, <1>1, <3>2, <3>3, <3>4
    <2> QED BY <2>1, <2>2, <1>1
  <1> QED BY <1>2, <1>4, <1>5 DEF CalendarInv

(* Taking an entry out keeps the invariant. *)
LEMMA ReleaseKeepsInv ==
    ASSUME CalendarInv, NEW a \in Appt, Release(a)
    PROVE  CalendarInv'
  <1>1. /\ DOMAIN diary' = DOMAIN diary \ {a}
        /\ \A b \in DOMAIN diary' : diary'[b] = diary[b]
    BY DEF Release
  <1>2. DiaryTypeOK'
    BY <1>1 DEF Release, DiaryTypeOK, CalendarInv
  <1>3. EntriesNeverCollide'
    BY <1>1 DEF EntriesNeverCollide, CalendarInv
  <1>4. ClassesWithinCapacity'
    <2> SUFFICES ASSUME NEW b \in DOMAIN diary'
                 PROVE  Cardinality(ClassOf(b)') =< Seats(diary'[b])
      BY DEF ClassesWithinCapacity
    <2>1. ClassOf(b)' \subseteq ClassOf(b)
      BY <1>1 DEF ClassOf
    <2>2. IsFiniteSet(ClassOf(b)) /\ Cardinality(ClassOf(b)) \in Nat
      BY DiaryFinite DEF CalendarInv, DiaryTypeOK, ClassOf
    <2>3. /\ Cardinality(ClassOf(b)') =< Cardinality(ClassOf(b))
          /\ Cardinality(ClassOf(b)') \in Nat
      BY <2>1, <2>2, FS_Subset, FS_CardinalityType
    <2>4. Cardinality(ClassOf(b)) =< Seats(diary[b]) /\ Seats(diary[b]) \in Nat
      BY <1>1, SeatsType DEF CalendarInv, ClassesWithinCapacity, DiaryTypeOK
    <2> QED BY <1>1, <2>2, <2>3, <2>4
  <1> QED BY <1>2, <1>3, <1>4 DEF CalendarInv

(***************************************************************************)
(* In every behaviour of the calendar the entries are well typed, no two   *)
(* of one provider or room collide and no class is over its capacity: the  *)
(* promise that assertBookableWindow is there to keep.                     *)
(***************************************************************************)
THEOREM CalendarSafe == CalendarSpec => []CalendarInv
  <1>1. CalendarInit => CalendarInv
    BY DEF CalendarInit, CalendarInv, DiaryTypeOK, EntriesNeverCollide, ClassesWithinCapacity
  <1>2. CalendarInv /\ [CalendarNext]_diary => CalendarInv'
    <2> SUFFICES ASSUME CalendarInv, [CalendarNext]_diary
                 PROVE  CalendarInv'
      OBVIOUS
    <2>1. CASE CalendarNext
      BY <2>1, PlaceKeepsInv, ReleaseKeepsInv DEF CalendarNext
    <2>2. CASE UNCHANGED diary
      BY <2>2 DEF CalendarInv, DiaryTypeOK, EntriesNeverCollide, ClassesWithinCapacity, ClassOf
    <2> QED BY <2>1, <2>2
  <1> QED BY <1>1, <1>2, PTL DEF CalendarSpec
=============================================================================
