----------------------------- MODULE FollowUps -----------------------------
(***************************************************************************)
(* The follow-ups of one client (service-due.service.ts): a tracker waits  *)
(* for its date, the daily scan makes it DUE and prompts the owner, and    *)
(* the owner approves, moves or cancels it.  Approving queues a message    *)
(* and then writes the tracker; the worker looks at the tracker again      *)
(* (notifications.processor.ts).  A visit that is completed makes trackers *)
(* by itself (bookings.service.ts).                                        *)
(***************************************************************************)
EXTENDS Naturals, FiniteSets, Handlers

CONSTANTS
    Tracker,  \* ServiceDue rows that may be made
    Custom,   \* those that have a message of their own, all of a policy among them
    MaxAsked  \* bound on what the owner, and visits, ask for

ASSUME FollowUpsAssumption == Custom \subseteq Tracker /\ MaxAsked \in Nat

VARIABLES
    tracker,  \* the ServiceDue rows: status, has it a cadence, has its date come, its policy
    policy,   \* a FollowUpPolicy: is it enabled, or gone
    asked,    \* requests and completed visits so far
    scan,     \* what the daily scan has read and not yet written
    followUp, \* the job custom-follow-up of each tracker, and the attempts it has left
    written,  \* trackers whose message the delivery log has as SENT
    owed,     \* history: approved, not closed since, and neither sent nor failed yet
    visited,  \* history: trackers that a completed visit made
    orderly   \* history: nothing overlapped, and nothing closed was opened again

followUpsVars == <<tracker, policy, asked, scan, followUp, written, owed, visited, orderly, call>>

NoTracker == [status |-> "NONE", repeats |-> FALSE, ripe |-> FALSE, of |-> FALSE]
NoJob == [state |-> "none", left |-> 0]

FollowUpsInit ==
    /\ tracker = [t \in Tracker |-> NoTracker]
    /\ policy = "on"
    /\ asked = 0
    /\ scan = {}
    /\ followUp = [t \in Tracker |-> NoJob]
    /\ written = {}
    /\ owed = {}
    /\ visited = {}
    /\ orderly = TRUE
    /\ HandlersInit

FollowUpExists(t) == tracker[t].status # "NONE"
OpenFollowUps == {t \in Tracker : tracker[t].status \in {"SCHEDULED", "DUE"}}

Undisturbed == scan = {} /\ \A c \in Call : call[c] = Idle

(* A request, which may start while another one, or the scan, is under way. *)
Ask ==
    /\ asked < MaxAsked
    /\ asked' = asked + 1
    /\ orderly' = (orderly /\ Undisturbed)

EnterFollowUp(c, k) ==
    /\ Enter(c, k)
    /\ Ask
    /\ UNCHANGED <<tracker, policy, scan, followUp, written, owed, visited>>

DateArrives(t) ==
    /\ FollowUpExists(t) /\ ~tracker[t].ripe
    /\ tracker' = [tracker EXCEPT ![t].ripe = TRUE]
    /\ UNCHANGED <<policy, asked, scan, followUp, written, owed, visited, orderly, call>>

(* A new row; a policy that has gone meanwhile violates its foreign key. *)
Schedule(t, repeats, ripe, of) ==
    /\ ~FollowUpExists(t)
    /\ of => policy # "gone" /\ t \in Custom
    /\ tracker' = [tracker EXCEPT ![t] =
                     [status |-> "SCHEDULED", repeats |-> repeats, ripe |-> ripe, of |-> of]]

-----------------------------------------------------------------------------
(* The owner                                                                 *)

(* setDue has found the policy enabled. of: the tracker is of the policy. *)
RequestSetDue(c, of) ==
    /\ of => policy = "on"
    /\ EnterFollowUp(c, [at |-> "replace", of |-> of])

Closed(closed, of) ==
    /\ tracker' = [t \in Tracker |-> IF t \in closed
                                     THEN [tracker[t] EXCEPT !.status = "CANCELLED", !.of = of]
                                     ELSE tracker[t]]
    /\ owed' = owed \ closed

(* Mutant: a tracker that the scan has marked stays open. *)
ReplacedScheduled(of) == {t \in Tracker : tracker[t].status = "SCHEDULED" /\ tracker[t].of = of}

(* The open trackers of the same service and policy make room. *)
Replaced(of) == {t \in OpenFollowUps : tracker[t].of = of}

ReplaceOpen(c) ==
    /\ At(c, "replace")
    /\ Closed(Replaced(call[c].of), call[c].of)
    /\ Step(c, [call[c] EXCEPT !.at = "create"])
    /\ UNCHANGED <<policy, asked, scan, followUp, written, visited, orderly>>

CreateDue(c) ==
    /\ At(c, "create")
    /\ IF call[c].of /\ policy = "gone" THEN UNCHANGED tracker
       ELSE \E t \in Tracker, repeats, ripe \in BOOLEAN : Schedule(t, repeats, ripe, call[c].of)
    /\ Return(c)
    /\ UNCHANGED <<policy, asked, scan, followUp, written, owed, visited, orderly>>

(* approve asks for no status. *)
RequestApprove(c, t) ==
    /\ FollowUpExists(t)
    /\ EnterFollowUp(c, [at |-> "invite", due |-> t, repeats |-> tracker[t].repeats])

(* sendCustomFollowUp: one job per tracker, and an id that is taken, by a   *)
(* job that has failed too, is not added again. A tracker without a message *)
(* has a rebook-reminder queued, which nothing takes back.                  *)
Invite(c) ==
    /\ At(c, "invite")
    /\ LET t == call[c].due
       IN IF t \in Custom
          THEN /\ followUp' = [followUp EXCEPT ![t] =
                                 IF @ = NoJob THEN [state |-> "wait", left |-> 2] ELSE @]
               /\ owed' = IF tracker[t].status = "CANCELLED" \/ followUp[t].state = "failed"
                          THEN owed ELSE owed \cup {t}
          ELSE UNCHANGED <<followUp, owed>>
    /\ Step(c, [call[c] EXCEPT !.at = "advance"])
    /\ UNCHANGED <<tracker, policy, asked, scan, written, visited, orderly>>

Reopens(t) == tracker[t].status = "CANCELLED"

(* Mutant: the date moves on and the tracker stays DUE. *)
NextDateOnly(row) == [row EXCEPT !.ripe = FALSE]

NextDate(row) == [row EXCEPT !.status = "SCHEDULED", !.ripe = FALSE]

(* The next date by the cadence that was read, or the end of the tracker. *)
Advance(c) ==
    /\ At(c, "advance")
    /\ LET t == call[c].due
       IN IF call[c].repeats
          THEN /\ tracker' = [tracker EXCEPT ![t] = NextDate(@)]
               /\ orderly' = (orderly /\ ~Reopens(t))
               /\ UNCHANGED owed
          ELSE /\ Closed({t}, tracker[t].of)
               /\ UNCHANGED orderly
    /\ Return(c)
    /\ UNCHANGED <<policy, asked, scan, followUp, written, visited>>

RequestMove(c, t) ==
    /\ FollowUpExists(t)
    /\ EnterFollowUp(c, [at |-> "move", due |-> t, repeats |-> tracker[t].repeats])

(* reschedule: any date, or the one that was read, or one cadence from now. *)
Move(c) ==
    /\ At(c, "move")
    /\ \E repeats \in {call[c].repeats, TRUE}, ripe \in BOOLEAN :
         tracker' = [tracker EXCEPT ![call[c].due].status = "SCHEDULED",
                                    ![call[c].due].repeats = repeats,
                                    ![call[c].due].ripe = ripe]
    /\ orderly' = (orderly /\ ~Reopens(call[c].due))
    /\ Return(c)
    /\ UNCHANGED <<policy, asked, scan, followUp, written, owed, visited>>

CancelFollowUp(t) ==
    /\ FollowUpExists(t)
    /\ Closed({t}, tracker[t].of)
    /\ Ask
    /\ UNCHANGED <<policy, scan, followUp, written, visited, call>>

(* updatePolicy *)
EnablePolicy(enabled) ==
    /\ policy \in {"on", "off"} \ {enabled}
    /\ policy' = enabled
    /\ Ask
    /\ UNCHANGED <<tracker, scan, followUp, written, owed, visited, call>>

RequestDeletePolicy(c) ==
    /\ policy # "gone"
    /\ EnterFollowUp(c, [at |-> "stop"])

StopTrackers(c) ==
    /\ At(c, "stop")
    /\ Closed({t \in OpenFollowUps : tracker[t].of}, FALSE)
    /\ Step(c, [at |-> "drop"])
    /\ UNCHANGED <<policy, asked, scan, followUp, written, visited, orderly>>

(* Trackers that came in between lose their policy and stay. *)
DropPolicy(c) ==
    /\ At(c, "drop")
    /\ policy' = "gone"
    /\ tracker' = [t \in Tracker |-> [tracker[t] EXCEPT !.of = FALSE]]
    /\ Return(c)
    /\ UNCHANGED <<asked, scan, followUp, written, owed, visited, orderly>>

DieFollowingUp(c) ==
    /\ call[c] # Idle
    /\ Return(c)
    /\ UNCHANGED <<tracker, policy, asked, scan, followUp, written, owed, visited, orderly>>

-----------------------------------------------------------------------------
(* The booking engine, the scan and the workers                              *)

(* updateStatus to COMPLETED, in a business with this policy: no tracker of  *)
(* the client is looked at.                                                  *)
CompleteVisit(t) ==
    /\ policy = "on"
    /\ \E ripe \in BOOLEAN : Schedule(t, FALSE, ripe, TRUE)
    /\ visited' = visited \cup {t}
    /\ Ask
    /\ UNCHANGED <<policy, scan, followUp, written, owed, call>>

RunServiceDueScan ==
    /\ scan = {}
    /\ scan' = {t \in Tracker : tracker[t].status = "SCHEDULED" /\ tracker[t].ripe}
    /\ scan' # {}
    /\ orderly' = (orderly /\ Undisturbed)
    /\ UNCHANGED <<tracker, policy, asked, followUp, written, owed, visited, call>>

(* The status is not looked at again. *)
MarkDue(t) ==
    /\ t \in scan
    /\ tracker' = [tracker EXCEPT ![t].status = "DUE"]
    /\ scan' = scan \ {t}
    /\ UNCHANGED <<policy, asked, followUp, written, owed, visited, orderly, call>>

DieScanning ==
    /\ scan # {}
    /\ scan' = {}
    /\ UNCHANGED <<tracker, policy, asked, followUp, written, owed, visited, orderly, call>>

JobBecomes(t, j) == followUp' = [followUp EXCEPT ![t] = j]

(* Mutant: only a tracker that is still DUE is written about. *)
DropsUnlessDue(t) == tracker[t].status # "DUE"

DropsMessage(t) == tracker[t].status = "CANCELLED"

(* A worker takes the job and reads the tracker; one that is closed has no  *)
(* message.                                                                 *)
TakeFollowUp(t) ==
    /\ followUp[t].state = "wait"
    /\ JobBecomes(t, IF DropsMessage(t) THEN NoJob ELSE [followUp[t] EXCEPT !.state = "held"])
    /\ UNCHANGED <<tracker, policy, asked, scan, written, owed, visited, orderly, call>>

(* The log has one key per tracker: a later message of it is suppressed. *)
SendFollowUp(t) ==
    /\ followUp[t].state = "held"
    /\ JobBecomes(t, NoJob)
    /\ IF t \in written THEN UNCHANGED <<written, owed>>
       ELSE written' = written \cup {t} /\ owed' = owed \ {t}
    /\ UNCHANGED <<tracker, policy, asked, scan, visited, orderly, call>>

FailFollowUp(t) ==
    /\ followUp[t].state = "held" /\ t \notin written
    /\ IF followUp[t].left > 1
       THEN JobBecomes(t, [state |-> "wait", left |-> followUp[t].left - 1]) /\ UNCHANGED owed
       ELSE JobBecomes(t, [state |-> "failed", left |-> 0]) /\ owed' = owed \ {t}
    /\ UNCHANGED <<tracker, policy, asked, scan, written, visited, orderly, call>>

(* The worker dies before the message is out, and the job comes back. *)
LoseWorker(t) ==
    /\ followUp[t].state = "held"
    /\ JobBecomes(t, [followUp[t] EXCEPT !.state = "wait"])
    /\ UNCHANGED <<tracker, policy, asked, scan, written, owed, visited, orderly, call>>

(* removeOnFail, after two weeks. *)
PurgeFollowUp(t) ==
    /\ followUp[t].state = "failed"
    /\ JobBecomes(t, NoJob)
    /\ UNCHANGED <<tracker, policy, asked, scan, written, owed, visited, orderly, call>>

FollowUpsNext ==
    \/ \E c \in Call :
         \/ \E of \in BOOLEAN : RequestSetDue(c, of)
         \/ \E t \in Tracker : RequestApprove(c, t) \/ RequestMove(c, t)
         \/ RequestDeletePolicy(c)
         \/ ReplaceOpen(c) \/ CreateDue(c)
         \/ Invite(c) \/ Advance(c) \/ Move(c)
         \/ StopTrackers(c) \/ DropPolicy(c)
         \/ DieFollowingUp(c)
    \/ \E t \in Tracker :
         \/ DateArrives(t) \/ CancelFollowUp(t) \/ CompleteVisit(t)
         \/ MarkDue(t)
         \/ TakeFollowUp(t) \/ SendFollowUp(t) \/ FailFollowUp(t) \/ LoseWorker(t)
         \/ PurgeFollowUp(t)
    \/ \E enabled \in {"on", "off"} : EnablePolicy(enabled)
    \/ RunServiceDueScan \/ DieScanning

FollowUpsSpec == FollowUpsInit /\ [][FollowUpsNext]_followUpsVars

-----------------------------------------------------------------------------
(* What the owner has approved is not lost while its tracker is open: the    *)
(* first message goes out or is on its way, whatever the scan, other         *)
(* requests and dying workers do meanwhile. A tracker without a cadence is   *)
(* closed by its own approval, and then the worker may throw the message     *)
(* away; a second message of one tracker is suppressed.                      *)
ApprovedIsWritten ==
    \A t \in owed : followUp[t].state \in {"wait", "held"} \/ t \in written

(* While requests and scans come one after another, the owner is asked about *)
(* no tracker whose date is still to come.                                   *)
PromptsAreDue ==
    orderly => \A t \in Tracker : tracker[t].status = "DUE" => tracker[t].ripe

(* Setting a follow-up leaves one open tracker of its service and policy,    *)
(* those that visits have made apart, when nothing overlapped.               *)
OneOpenInTurn ==
    orderly => \A t, u \in OpenFollowUps \ visited : tracker[t].of = tracker[u].of => t = u
=============================================================================
