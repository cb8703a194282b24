------------------------------ MODULE Handlers ------------------------------
(***************************************************************************)
(* The request handlers of the API that are in flight.  Each holds in call *)
(* what its local variables hold; between two awaits of one handler the    *)
(* others run, and the process may die.  The services below share nothing  *)
(* but this.                                                               *)
(***************************************************************************)
CONSTANT Call  \* requests that may be in flight at once

VARIABLE call  \* request |-> where its handler is and what it has read

Idle == [at |-> "idle"]

HandlersInit == call = [c \in Call |-> Idle]

(* A request arrives, and its handler runs up to its first await. *)
Enter(c, k) == call[c] = Idle /\ call' = [call EXCEPT ![c] = k]

(* The handler goes on to its next await. *)
Step(c, k) == call' = [call EXCEPT ![c] = k]

(* The handler answers, or throws, or dies with its process. *)
Return(c) == call' = [call EXCEPT ![c] = Idle]

At(c, where) == call[c].at = where
=============================================================================
