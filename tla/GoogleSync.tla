----------------------------- MODULE GoogleSync -----------------------------
(***************************************************************************)
(* One appointment and its event in the owner's Google Calendar            *)
(* (google-calendar.service.ts).  A create, a confirmation and a           *)
(* reschedule push the event afterwards and a cancellation removes it,     *)
(* none waiting for it; a push reads the row again, gets a token, calls    *)
(* Google and stores the id of a new event.  Any call to Google may fail   *)
(* or lose its answer.  The other writers of the row - the deposit         *)
(* webhooks, updateDetails, the other changes of status - leave the        *)
(* calendar as it is.                                                      *)
(***************************************************************************)
EXTENDS Naturals, Handlers

CONSTANTS
    Time,      \* times the appointment may have
    MaxEvents  \* bound on the events that are created

ASSUME GoogleSyncAssumption == Time # {} /\ MaxEvents \in Nat

VARIABLES
    connected,  \* the business has a GoogleCalendarConnection
    meeting,    \* the Appointment row: status, start and googleEventId
    events,     \* what the calendar holds for it: event id |-> start
    made,       \* number of events created so far; their ids are 1 .. made
    tended      \* history: no write, overlap or failure has come between the
                \* row and the calendar

googleVars == <<connected, meeting, events, made, tended, call>>

NoEvent == 0

GoogleInit ==
    /\ connected \in BOOLEAN
    /\ meeting = [status |-> "none", start |-> CHOOSE t \in Time : TRUE, event |-> NoEvent]
    /\ events = << >>
    /\ made = 0
    /\ tended = TRUE
    /\ HandlersInit

NoOther(c) == \A d \in Call \ {c} : call[d] = Idle

(* The calendar holds the event the row knows of and no other. *)
KnownOnly == DOMAIN events \subseteq {meeting.event}

(* OVER stands for COMPLETED and NO_SHOW, whose events stay. *)
Shown == meeting.status \in {"PENDING", "CONFIRMED", "OVER"}

-----------------------------------------------------------------------------
(* The handlers that write the row, and what they start *)

Writing(c, row, task, undisturbed) ==
    /\ meeting' = row
    /\ Enter(c, [at |-> task])
    /\ tended' = (undisturbed /\ NoOther(c))
    /\ UNCHANGED <<connected, events, made>>

CreateMeeting(c, start) ==
    /\ meeting.status = "none"
    /\ \E status \in {"PENDING", "CONFIRMED"} :
         Writing(c, [meeting EXCEPT !.status = status, !.start = start], "push", TRUE)

(* confirm does not look at the status. *)
ConfirmMeeting(c) ==
    /\ meeting.status # "none"
    /\ Writing(c, [meeting EXCEPT !.status = "CONFIRMED"], "push", tended)

(* Nor does reschedule, which pushes a cancelled appointment too: the client *)
(* makes it PENDING, the owner leaves its status.                            *)
RescheduleMeeting(c, start) ==
    /\ meeting.status # "none"
    /\ \/ Writing(c, [meeting EXCEPT !.status = "PENDING", !.start = start], "push", tended)
       \/ Writing(c, [meeting EXCEPT !.start = start], "push", tended /\ Shown)

(* The owner asks for a push, whatever the status is. *)
RequestSync(c) ==
    /\ meeting.status # "none"
    /\ Writing(c, meeting, "push", tended /\ Shown)

Transitions == [PENDING |-> {"CONFIRMED", "CANCELLED"}, CONFIRMED |-> {"OVER", "CANCELLED"}]

(* updateStatus, or a no-show, is allowed by the status it finds ... *)
CheckStatus(c) ==
    /\ meeting.status \in DOMAIN Transitions
    /\ \E status \in Transitions[meeting.status] :
         Enter(c, [at |-> "write", status |-> status])
    /\ tended' = (tended /\ NoOther(c))
    /\ UNCHANGED <<connected, meeting, events, made>>

(* ... and writes after further awaits; a cancellation alone goes on to the  *)
(* calendar.                                                                 *)
WriteStatus(c) ==
    /\ At(c, "write")
    /\ meeting' = [meeting EXCEPT !.status = call[c].status]
    /\ IF call[c].status = "CANCELLED" THEN Step(c, [at |-> "remove"]) ELSE Return(c)
    /\ tended' = (tended /\ NoOther(c))
    /\ UNCHANGED <<connected, events, made>>

(* A write that leaves the calendar as it is. *)
WritingOnly(row, undisturbed) ==
    /\ meeting' = row
    /\ tended' = (tended /\ undisturbed)
    /\ UNCHANGED <<connected, events, made, call>>

(* payment_intent.succeeded confirms whatever the status is ... *)
DepositPaid ==
    /\ meeting.status \notin {"none", "CONFIRMED"}
    /\ WritingOnly([meeting EXCEPT !.status = "CONFIRMED"], Shown)

(* ... and payment_intent.payment_failed cancels what is pending. *)
DepositFailed ==
    /\ meeting.status = "PENDING"
    /\ WritingOnly([meeting EXCEPT !.status = "CANCELLED"], FALSE)

(* updateDetails moves the appointment, whatever its status is. *)
MoveMeeting(start) ==
    /\ meeting.status # "none"
    /\ start # meeting.start
    /\ WritingOnly([meeting EXCEPT !.start = start], FALSE)

Connect ==
    /\ connected' = ~connected
    /\ tended' = FALSE
    /\ UNCHANGED <<meeting, events, made, call>>

-----------------------------------------------------------------------------
(* syncAppointment *)

(* An undisturbed push of an appointment to be shown mends what failed       *)
(* before, unless the calendar has an event that the row does not know or    *)
(* has lost the one it knows.                                                *)
ReadForPush(c) ==
    /\ At(c, "push")
    /\ Step(c, [at |-> "authPush", start |-> meeting.start, event |-> meeting.event])
    /\ tended' = (NoOther(c) /\ Shown /\ KnownOnly
                  /\ (tended \/ meeting.event \in DOMAIN events \cup {NoEvent}))
    /\ UNCHANGED <<connected, meeting, events, made>>

Authorized == [authPush |-> "send", authRemove |-> "delete"]

GetToken(c) ==
    /\ call[c].at \in DOMAIN Authorized
    /\ connected
    /\ Step(c, [call[c] EXCEPT !.at = Authorized[@]])
    /\ UNCHANGED <<connected, meeting, events, made, tended>>

(* No connection, or no token: nothing is done. *)
NoToken(c) ==
    /\ call[c].at \in DOMAIN Authorized
    /\ Return(c)
    /\ tended' = FALSE
    /\ UNCHANGED <<connected, meeting, events, made>>

Patch(c) ==
    /\ At(c, "send") /\ call[c].event # NoEvent
    /\ events' = [e \in DOMAIN events |->
                     IF e = call[c].event THEN call[c].start ELSE events[e]]
    /\ Return(c)
    /\ UNCHANGED <<connected, meeting, made, tended>>

Insert(c) ==
    /\ At(c, "send") /\ call[c].event = NoEvent
    /\ made < MaxEvents
    /\ made' = made + 1
    /\ events' = [e \in DOMAIN events \cup {made'} |->
                     IF e = made' THEN call[c].start ELSE events[e]]
    /\ Step(c, [at |-> "store", event |-> made'])
    /\ UNCHANGED <<connected, meeting, tended>>

StoreEvent(c) ==
    /\ At(c, "store")
    /\ meeting' = [meeting EXCEPT !.event = call[c].event]
    /\ Return(c)
    /\ UNCHANGED <<connected, events, made, tended>>

-----------------------------------------------------------------------------
(* removeAppointment *)

ReadForRemove(c) ==
    /\ At(c, "remove")
    /\ IF meeting.event = NoEvent
       THEN Return(c)
       ELSE Step(c, [at |-> "authRemove", event |-> meeting.event])
    /\ tended' = (NoOther(c) /\ meeting.status = "CANCELLED" /\ KnownOnly)
    /\ UNCHANGED <<connected, meeting, events, made>>

(* What Google answers to the DELETE is not looked at. *)
DeleteEvent(c) ==
    /\ At(c, "delete")
    /\ \/ /\ events' = [e \in DOMAIN events \ {call[c].event} |-> events[e]]
          /\ UNCHANGED tended
       \/ UNCHANGED events /\ tended' = FALSE
    /\ Step(c, [at |-> "forget"])
    /\ UNCHANGED <<connected, meeting, made>>

(* Mutant: the id of the event that was deleted stays. *)
ForgetNothing(c) ==
    /\ At(c, "forget")
    /\ Return(c)
    /\ UNCHANGED <<connected, meeting, events, made, tended>>

ForgetEvent(c) ==
    /\ At(c, "forget")
    /\ meeting' = [meeting EXCEPT !.event = NoEvent]
    /\ Return(c)
    /\ UNCHANGED <<connected, events, made, tended>>

(* A call fails, or its answer is lost, or the process dies: every error is  *)
(* caught where it happens, so syncWithRetry never sees one to retry after.  *)
GiveUp(c) ==
    /\ call[c] # Idle
    /\ Return(c)
    /\ tended' = FALSE
    /\ UNCHANGED <<connected, meeting, events, made>>

GoogleNext ==
    \/ Connect \/ DepositPaid \/ DepositFailed
    \/ \E start \in Time : MoveMeeting(start)
    \/ \E c \in Call :
         \/ \E start \in Time : CreateMeeting(c, start) \/ RescheduleMeeting(c, start)
         \/ ConfirmMeeting(c) \/ RequestSync(c) \/ CheckStatus(c) \/ WriteStatus(c)
         \/ ReadForPush(c) \/ GetToken(c) \/ NoToken(c)
         \/ Patch(c) \/ Insert(c) \/ StoreEvent(c)
         \/ ReadForRemove(c) \/ DeleteEvent(c) \/ ForgetEvent(c) \/ GiveUp(c)

GoogleSpec == GoogleInit /\ [][GoogleNext]_googleVars

-----------------------------------------------------------------------------
(* When the last push or removal ran alone and no call of it failed, the     *)
(* calendar shows the appointment once and at its time, or, cancelled, not   *)
(* at all - also after earlier pushes that failed or came in the wrong       *)
(* order, as long as they left no event that the row does not know.  What    *)
(* the handlers that do not push change is excepted until the next push: a   *)
(* deposit that revives or cancels the appointment, a move by updateDetails; *)
(* so is a push of a cancelled appointment, which brings its event back.     *)
CalendarShowsAppointment ==
    tended /\ connected /\ (\A c \in Call : call[c] = Idle) =>
        events = IF Shown THEN [e \in {meeting.event} |-> meeting.start] ELSE << >>
=============================================================================
