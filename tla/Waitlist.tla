------------------------------ MODULE Waitlist ------------------------------
(***************************************************************************)
(* The waitlist of one business (waitlist.service.ts) and what a           *)
(* cancellation does with it (notifyWaitlist of bookings.service.ts): it   *)
(* asks for the oldest entry with one query after the other, from those    *)
(* for this exact slot to those for any service, marks the first that one  *)
(* finds and queues an e-mail.  The steps are not one transaction, and the *)
(* mark does not look at the status again.                                 *)
(***************************************************************************)
EXTENDS Naturals, Sequences, FiniteSets, Handlers

CONSTANTS
    Entry,       \* waitlist entries that may be made
    Opening,     \* times, of a service and a staff member, that cancellations free
    Candidates,  \* number of the queries for an entry
    Matches      \* the sets of queries that can find one and the same entry: in the
                 \* code {}, {1, 3}, {2, 4}, {3}, {4}, {5} and {6}

ASSUME WaitlistAssumption == Candidates \in Nat \ {0} /\ Matches \subseteq SUBSET (1 .. Candidates)

VARIABLES
    entry,    \* the WaitlistEntry rows: status, and the queries that find it for an opening
    joined,   \* the entries in the order of createdAt
    offers,   \* history: openings for which an entry was marked
    jobs,     \* entries whose waitlist-opening job is known to the queue
    oneByOne  \* history: no cancellations, and no leaving, overlapped with one

waitlistVars == <<entry, joined, offers, jobs, oneByOne, call>>

WaitlistInit ==
    /\ entry = [e \in Entry |-> [status |-> "NONE", finds |-> [o \in Opening |-> {}]]]
    /\ joined = << >>
    /\ offers = 0
    /\ jobs = {}
    /\ oneByOne = TRUE
    /\ HandlersInit

Join(e, finds) ==
    /\ entry[e].status = "NONE"
    /\ entry' = [entry EXCEPT ![e] = [status |-> "WAITING", finds |-> finds]]
    /\ joined' = Append(joined, e)
    /\ UNCHANGED <<offers, jobs, oneByOne, call>>

Leave(e) ==
    /\ entry[e].status # "NONE"
    /\ entry' = [entry EXCEPT ![e].status = "CANCELLED"]
    /\ oneByOne' = (oneByOne /\ \A c \in Call : call[c] = Idle)
    /\ UNCHANGED <<joined, offers, jobs, call>>

(* An appointment was cancelled: its time can be offered.  How many had      *)
(* joined when the search began is kept for the properties.                  *)
CancelForOpening(c, o) ==
    /\ Enter(c, [at |-> "seek", opening |-> o, query |-> 1, since |-> Len(joined)])
    /\ oneByOne' = (oneByOne /\ \A d \in Call : call[d] = Idle)
    /\ UNCHANGED <<entry, joined, offers, jobs>>

Position(e) == CHOOSE i \in DOMAIN joined : joined[i] = e

(* Mutant: whoever has not been notified. *)
NotNotified == {e \in Entry : entry[e].status \in {"WAITING", "CANCELLED"}}

Waiting == {e \in Entry : entry[e].status = "WAITING"}

Hits(k) == {e \in Waiting : k.query \in entry[e].finds[k.opening]}

Found(c, e) ==
    Step(c, [at |-> "mark", opening |-> call[c].opening, query |-> call[c].query,
             since |-> call[c].since, entry |-> e])

(* One query after another, until one finds somebody. *)
NextQuery(c) ==
    /\ Hits(call[c]) = {}
    /\ IF call[c].query < Candidates THEN Step(c, [call[c] EXCEPT !.query = @ + 1]) ELSE Return(c)

(* Mutant: the newest entry first. *)
FindNewest(c) ==
    /\ At(c, "seek")
    /\ \/ NextQuery(c)
       \/ \E e \in Hits(call[c]) :
            (\A f \in Hits(call[c]) : Position(f) <= Position(e)) /\ Found(c, e)
    /\ UNCHANGED <<entry, joined, offers, jobs, oneByOne>>

FindFirst(c) ==
    /\ At(c, "seek")
    /\ \/ NextQuery(c)
       \/ \E e \in Hits(call[c]) :
            (\A f \in Hits(call[c]) : Position(e) <= Position(f)) /\ Found(c, e)
    /\ UNCHANGED <<entry, joined, offers, jobs, oneByOne>>

(* Mutant: the entry goes on waiting. *)
MarkNobody(c) ==
    /\ At(c, "mark")
    /\ offers' = offers + 1
    /\ Step(c, [call[c] EXCEPT !.at = "tell"])
    /\ UNCHANGED <<entry, joined, jobs, oneByOne>>

MarkNotified(c) ==
    /\ At(c, "mark")
    /\ entry' = [entry EXCEPT ![call[c].entry].status = "NOTIFIED"]
    /\ offers' = offers + 1
    /\ Step(c, [call[c] EXCEPT !.at = "tell"])
    /\ UNCHANGED <<joined, jobs, oneByOne>>

(* The id of the job is that of the entry: the queue takes it once. *)
NotifyWaitlistOpening(c) ==
    /\ At(c, "tell")
    /\ jobs' = jobs \cup {call[c].entry}
    /\ Return(c)
    /\ UNCHANGED <<entry, joined, offers, oneByOne>>

DieOffering(c) ==
    /\ call[c] # Idle
    /\ Return(c)
    /\ oneByOne' = FALSE
    /\ UNCHANGED <<entry, joined, offers, jobs>>

WaitlistNext ==
    \/ \E e \in Entry :
         \/ \E finds \in [Opening -> Matches] : Join(e, finds)
         \/ Leave(e)
    \/ \E c \in Call :
         \/ \E o \in Opening : CancelForOpening(c, o)
         \/ FindFirst(c) \/ MarkNotified(c) \/ NotifyWaitlistOpening(c) \/ DieOffering(c)

WaitlistSpec == WaitlistInit /\ [][WaitlistNext]_waitlistVars

-----------------------------------------------------------------------------
(* When cancellations come one after another, each that finds somebody       *)
(* waiting is offered to a client of its own, who was not written to before. *)
OpeningsReachClients ==
    oneByOne => /\ offers = Cardinality(jobs \cup {call[c].entry : c \in {d \in Call : At(d, "tell")}})
                /\ jobs \cap Waiting = {}

(* Nobody is passed over, also when cancellations overlap: one who still     *)
(* waits joined after whoever the same query found, and one who waited       *)
(* already when the search began is found by no query before that one.  One  *)
(* who joins during the search can be passed over for somebody less fitting. *)
OldestFirst ==
    \A c \in Call, f \in Waiting :
        At(c, "mark") \/ At(c, "tell") =>
            /\ Position(f) < Position(call[c].entry) =>
                 call[c].query \notin entry[f].finds[call[c].opening]
            /\ Position(f) <= call[c].since =>
                 \A q \in 1 .. call[c].query - 1 : q \notin entry[f].finds[call[c].opening]

(* One who left the waitlist is not called back, unless the cancellation was *)
(* under way already.                                                        *)
LeaversStayAway ==
    [][oneByOne => \A e \in Entry : entry[e].status = "CANCELLED" =>
                        entry'[e].status = "CANCELLED"]_waitlistVars
=============================================================================
