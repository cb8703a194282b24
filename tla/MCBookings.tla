----------------------------- MODULE MCBookings -----------------------------
(* Small instances of Bookings for TLC. *)
EXTENDS Availability, TLC

CONSTANTS anna, ben, cut, class, facial, room

Svc(duration, before, after, capacity, resource) ==
    [duration |-> duration, before |-> before, after |-> after,
     capacity |-> capacity, resource |-> resource]

(* A one-on-one service with clean-up time and a class of two seats. *)
MCCatalog == cut :> Svc(1, 0, 1, 1, NoResource) @@ class :> Svc(1, 0, 0, 2, NoResource)

MCCutOnly == cut :> Svc(1, 0, 0, 1, NoResource)

(* A service with clean-up time that needs the room, beside a class. *)
MCRoomAndClass == facial :> Svc(1, 0, 1, 1, room) @@ class :> Svc(1, 0, 0, 2, NoResource)

MCDiary == [s \in Staff |-> [opens |-> 0, closes |-> 4, off |-> {}]]

(* A provider with a short day and one who starts later and takes a pause. *)
MCTwoProviders ==
    anna :> [opens |-> 0, closes |-> 2, off |-> {}] @@
    ben :> [opens |-> 1, closes |-> 5, off |-> {[from |-> 3, to |-> 4]}]

(* A day with room for two services. *)
MCLongDay == [s \in Staff |-> [opens |-> 0, closes |-> 6, off |-> {}]]

(* Idle calls hold an arbitrary id, but no action and no property reads it, so *)
(* permuting the appointments is sound.                                        *)
Symmetry == Permutations(Appt) \cup Permutations(Call)
=============================================================================
