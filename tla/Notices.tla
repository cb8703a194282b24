------------------------------ MODULE Notices ------------------------------
(***************************************************************************)
(* What follows a write to one appointment: the jobs its handlers add to   *)
(* the notification queue and remove from it (bookings.service.ts,         *)
(* notifications.service.ts), and the workers that turn jobs into mail and *)
(* text messages (notifications.processor.ts). What the writes themselves  *)
(* check is in Bookings; here a handler is its write and the queue calls   *)
(* that follow, awaited one by one while other handlers run.                *)
(***************************************************************************)
EXTENDS Integers, SequencesExt

CONSTANTS
    Call,      \* handlers that may be running at once
    Worker,    \* processes of the API, each with one serial queue worker
    Start,     \* times the appointment may be given
    Horizon,   \* last value of the clock
    Reminder,  \* the reminders that exist
    Offset,    \* of each timed notice: when it is due, counted from the start
    Followed,  \* sets of types: a behaviour follows the jobs of one such set
    Channel,   \* of each type: the channels its messages go out on, in order
    Attempts,  \* how often a job that throws is tried, if not told otherwise
    MaxOps,    \* of each such set: bound on the writes to the appointment
    MaxFaults  \* of each such set: bound on dead workers and lost delivery rows

Timed == Reminder \cup {"follow-up-post-apt"}

Prompt ==
    {"send-pending", "send-confirmation", "send-reschedule", "send-cancellation",
     "send-staff-cancellation", "review-request", "deposit-failed"}

Types == Timed \cup Prompt

ASSUME NoticesAssumption ==
    /\ Start \subseteq Nat \ {0} /\ Horizon \in Nat
    /\ IsFiniteSet(Reminder) /\ Timed \cap Prompt = {}
    /\ Offset \in [Timed -> Int] /\ Channel \in [Types -> Seq(STRING)]
    /\ Followed \subseteq SUBSET Types
    /\ Attempts \in Nat \ {0} /\ MaxOps \in [Followed -> Nat] /\ MaxFaults \in [Followed -> Nat]

VARIABLES
    follow,   \* the types whose jobs are followed; jobs of the others touch none of
              \* theirs, and a type the business has switched off adds none
    now,      \* the clock
    apt,      \* the Appointment row: status and start
    ops,      \* writes so far
    todo,     \* of each handler in flight: the steps it has still to take
    jobs,     \* the queue in Redis, by job id
    hand,     \* of each worker: the job it holds and the row it has read
    log,      \* the dedupeKeys of NotificationDelivery rows with status SENT
    faults,   \* faults so far
    mailed,   \* history: how often each notice of each start went out
    clean     \* history: nothing has disturbed the queue calls so far

row == <<follow, apt, ops>>
vars == <<follow, now, apt, ops, todo, jobs, hand, log, faults, mailed, clean>>

Idle == [job |-> << >>]
NoAppointment == [status |-> "none", start |-> 0]

Init ==
    /\ follow \in Followed
    /\ now = 0
    /\ apt = NoAppointment
    /\ ops = 0
    /\ todo = [c \in Call |-> << >>]
    /\ jobs = << >>
    /\ hand = [w \in Worker |-> Idle]
    /\ log = {}
    /\ faults = 0
    /\ mailed = << >>
    /\ clean = TRUE

Tick ==
    /\ now < Horizon
    /\ now' = now + 1
    /\ UNCHANGED <<row, todo, jobs, hand, log, faults, mailed, clean>>

-----------------------------------------------------------------------------
(* The queue: BullMQ as the service uses it                                  *)

(* The number of a notice is part of its id where the code puts a time there. *)
Id(type, tag) == <<type, tag>>

Put(f, key, value) == [k \in DOMAIN f \cup {key} |-> IF k = key THEN value ELSE f[k]]
Without(ids) == [i \in DOMAIN jobs \ ids |-> jobs[i]]

(* The one job that is added with attempts: 1 and removeOnComplete besides the *)
(* timed ones, which are removed too.                                         *)
Tries(type) == IF type = "deposit-failed" THEN 1 ELSE Attempts
RemovedOnComplete == Timed \cup {"deposit-failed"}

(* A job whose id is taken, by one that has finished too, is not added. *)
Add(id, due, expected) ==
    IF id \in DOMAIN jobs THEN jobs
    ELSE Put(jobs, id, [state |-> "wait", due |-> due, expected |-> expected,
                        left |-> Tries(id[1])])

(* A job that a worker holds is locked and is not removed. *)
Locked(id) == id \in DOMAIN jobs /\ jobs[id].state = "active"

(* What is not removed on completion keeps its id for a while. *)
Completed(id) ==
    IF id[1] \in RemovedOnComplete THEN Without({id}) ELSE [jobs EXCEPT ![id].state = "completed"]

(* Mutant: the attempts are not counted. *)
ThrownAlways(id) == [jobs EXCEPT ![id].state = "wait", ![id].left = @ - 1]

(* An attempt that throws; the last one leaves a failed job. *)
Thrown(id) ==
    IF jobs[id].left > 1
    THEN [jobs EXCEPT ![id].state = "wait", ![id].left = @ - 1]
    ELSE [jobs EXCEPT ![id].state = "failed"]

(* Finished jobs are dropped by age or number, long after they have run. *)
Purge(id) ==
    /\ now = Horizon
    /\ jobs[id].state \in {"completed", "failed"}
    /\ jobs' = Without({id})
    /\ UNCHANGED <<now, row, todo, hand, log, faults, mailed, clean>>

-----------------------------------------------------------------------------
(* The handlers                                                              *)

(* A step that concerns no type that is followed is left out. *)
Cancel == IF follow \cap Timed = {} THEN << >> ELSE <<[do |-> "cancelReminders"]>>

Notify(type, tag) ==
    IF type \in follow THEN <<[do |-> "add", id |-> Id(type, tag), start |-> 0]>> ELSE << >>

Arm(type, start) == [do |-> "add", id |-> Id(type, 0), start |-> start]

(* scheduleReminders: the jobs in some order, each under the id the type has, *)
(* and the confirmation last. The row the update returned is used.            *)
ScheduleReminders(start, tag) ==
    LET timed == SetToSeq(Timed \cap follow)
    IN [i \in DOMAIN timed |-> Arm(timed[i], start)] \o Notify("send-confirmation", tag)

Quiet(c) == \A d \in Call \ {c} : todo[d] = << >>

(* A handler writes the row a; steps are what it does next. *)
Write(c, a, steps, undisturbed) ==
    /\ ops < MaxOps[follow]
    /\ ops' = ops + 1
    /\ apt' = a
    /\ todo' = [todo EXCEPT ![c] = steps]
    /\ clean' = (undisturbed /\ Quiet(c))
    /\ UNCHANGED <<follow, now, jobs, hand, log, faults, mailed>>

Free(c) == todo[c] = << >>

(* create: at once CONFIRMED, or PENDING until the owner acts. *)
Create(c, start) ==
    /\ Free(c)
    /\ apt = NoAppointment
    /\ \/ Write(c, [status |-> "CONFIRMED", start |-> start],
                ScheduleReminders(start, ops), clean)
       \/ Write(c, [status |-> "PENDING", start |-> start],
                Notify("send-pending", 0), clean)

(* confirm, whatever the status is; payment_intent.succeeded does the same  *)
(* to a row that is not CONFIRMED.                                          *)
Confirm(c) ==
    /\ Free(c)
    /\ apt # NoAppointment
    /\ Write(c, [apt EXCEPT !.status = "CONFIRMED"],
             ScheduleReminders(apt.start, ops), clean)

(* payment_intent.payment_failed. *)
DepositFailed(c) ==
    /\ Free(c)
    /\ apt.status = "PENDING"
    /\ Write(c, [apt EXCEPT !.status = "CANCELLED"],
             Notify("deposit-failed", 0), clean)

(* Mutant: the jobs of the old time are not removed. *)
RescheduleWithoutCancel(c, start, byClient) ==
    /\ Free(c)
    /\ apt # NoAppointment
    /\ LET status == IF byClient THEN "PENDING" ELSE apt.status
       IN Write(c, [status |-> status, start |-> start],
                Notify("send-reschedule", start)
                \o (IF status = "CONFIRMED" THEN ScheduleReminders(start, ops) ELSE << >>),
                TRUE)

(* reschedule, whatever the status is: what was armed is removed, and armed   *)
(* again for the new time if the row is CONFIRMED. A move by the client       *)
(* leaves it PENDING.                                                         *)
Reschedule(c, start, byClient) ==
    /\ Free(c)
    /\ apt # NoAppointment
    /\ LET status == IF byClient THEN "PENDING" ELSE apt.status
       IN Write(c, [status |-> status, start |-> start],
                Cancel \o Notify("send-reschedule", start)
                \o (IF status = "CONFIRMED" THEN ScheduleReminders(start, ops) ELSE << >>),
                TRUE)

ValidTransitions ==
    [PENDING |-> {"CONFIRMED", "CANCELLED"},
     CONFIRMED |-> {"COMPLETED", "NO_SHOW", "CANCELLED"}]

(* updateStatus: the read and the checks; the write comes after other awaits. *)
RequestStatus(c, status) ==
    /\ Free(c)
    /\ apt.status \in DOMAIN ValidTransitions
    /\ status \in ValidTransitions[apt.status]
    /\ todo' = [todo EXCEPT ![c] = <<[do |-> "write", status |-> status]>>]
    /\ UNCHANGED <<row, now, jobs, hand, log, faults, mailed, clean>>

(* Its write. CONFIRMED through this endpoint arms nothing. *)
UpdateStatus(c) ==
    /\ todo[c] # << >> /\ Head(todo[c]).do = "write"
    /\ LET status == Head(todo[c]).status
           a == [apt EXCEPT !.status = status]
       IN CASE status = "CANCELLED" ->
                  \E type \in {"send-cancellation", "send-staff-cancellation"} :
                      Write(c, a, Cancel \o Notify(type, 0), TRUE)
            [] status = "COMPLETED" -> Write(c, a, Notify("review-request", 0), clean)
            [] status = "NO_SHOW" -> Write(c, a, << >>, clean)
            [] status = "CONFIRMED" -> Write(c, a, << >>, FALSE)

(* updateDetails: a new time removes the reminders and arms none again;    *)
(* without one the client may be sent the confirmation again.              *)
UpdateDetails(c, start, notifyClient) ==
    /\ Free(c)
    /\ apt # NoAppointment
    /\ IF start # apt.start
       THEN Write(c, [apt EXCEPT !.start = start],
                  Cancel \o (IF notifyClient THEN Notify("send-reschedule", start) ELSE << >>),
                  FALSE)
       ELSE Write(c, apt,
                  IF notifyClient THEN Notify("send-confirmation", ops) ELSE << >>, clean)

(* cancelReminders: the four removals go out together; one that fails is let go. *)
CancelReminders(c) ==
    /\ todo[c] # << >> /\ Head(todo[c]).do = "cancelReminders"
    /\ LET ids == {Id(type, 0) : type \in Timed}
       IN /\ jobs' = Without({i \in ids : ~Locked(i)})
          /\ clean' = (clean /\ \A i \in ids : ~Locked(i))
    /\ todo' = [todo EXCEPT ![c] = Tail(@)]
    /\ UNCHANGED <<row, now, hand, log, faults, mailed>>

(* One job is added, a timed one only while its time is still to come. *)
AddJob(c) ==
    /\ todo[c] # << >> /\ Head(todo[c]).do = "add"
    /\ LET step == Head(todo[c])
           type == step.id[1]
           due == IF type \in Timed THEN step.start + Offset[type] ELSE now
       IN jobs' = IF type \in Timed /\ due <= now
                  THEN jobs
                  ELSE Add(step.id, due, step.start)
    /\ todo' = [todo EXCEPT ![c] = Tail(@)]
    /\ UNCHANGED <<row, now, hand, log, faults, mailed, clean>>

(* The process dies, or a call of the queue fails: the steps left are lost. *)
CutOff(c) ==
    /\ todo[c] # << >>
    /\ todo' = [todo EXCEPT ![c] = << >>]
    /\ clean' = (clean /\ Head(todo[c]).do = "write")
    /\ UNCHANGED <<row, now, jobs, hand, log, faults, mailed>>

-----------------------------------------------------------------------------
(* The workers: process() of notifications.processor.ts                      *)

(* What process() finds in the row it reads lets the notice go out. *)
StillMeant(id) ==
    CASE id[1] \in Reminder -> apt.status = "CONFIRMED" /\ apt.start = jobs[id].expected
      [] id[1] = "follow-up-post-apt" -> apt.status = "COMPLETED"
      [] OTHER -> TRUE

Take(w, id) ==
    /\ hand[w] = Idle
    /\ jobs[id].state = "wait"
    /\ jobs[id].due <= now
    /\ hand' = [hand EXCEPT ![w] =
                   [job |-> id, start |-> apt.start, sent |-> FALSE,
                    left |-> IF StillMeant(id) THEN Channel[id[1]] ELSE << >>]]
    /\ jobs' = [jobs EXCEPT ![id].state = "active"]
    /\ UNCHANGED <<row, now, todo, log, faults, mailed, clean>>

Busy(w) == hand[w] # Idle /\ hand[w].left # << >>

(* dedupeKey: <scope>:<type>:<channel>, the scope being the appointment. *)
DedupeKey(w) == <<hand[w].job[1], Head(hand[w].left)>>

(* Mutant: nothing counts as a duplicate. *)
NeverDuplicate(w) == FALSE

(* isDuplicate: any row of the key with status SENT, however old. *)
IsDuplicate(w) == DedupeKey(w) \in log

Suppress(w) ==
    /\ Busy(w) /\ ~hand[w].sent
    /\ IsDuplicate(w)
    /\ hand' = [hand EXCEPT ![w].left = Tail(@)]
    /\ UNCHANGED <<row, now, todo, jobs, log, faults, mailed, clean>>

(* The provider takes the message. *)
Send(w) ==
    /\ Busy(w) /\ ~hand[w].sent
    /\ ~IsDuplicate(w)
    /\ LET key == <<hand[w].job, Head(hand[w].left), hand[w].start>>
       IN mailed' = Put(mailed, key, IF key \in DOMAIN mailed THEN mailed[key] + 1 ELSE 1)
    /\ hand' = [hand EXCEPT ![w].sent = TRUE]
    /\ UNCHANGED <<row, now, todo, jobs, log, faults, clean>>

(* The row of the delivery is written; a failure of that is ignored. *)
LogSent(w) ==
    /\ Busy(w) /\ hand[w].sent
    /\ \/ log' = log \cup {DedupeKey(w)}
          /\ UNCHANGED faults
       \/ faults < MaxFaults[follow] /\ faults' = faults + 1 /\ UNCHANGED log
    /\ hand' = [hand EXCEPT ![w].sent = FALSE, ![w].left = Tail(@)]
    /\ UNCHANGED <<row, now, todo, jobs, mailed, clean>>

(* The provider refuses the message, or after the last one a note to the     *)
(* staff or the row of NotificationLog fails: the job throws.                *)
Throw(w) ==
    /\ hand[w] # Idle /\ ~hand[w].sent
    /\ Busy(w) => ~IsDuplicate(w)
    /\ jobs' = Thrown(hand[w].job)
    /\ hand' = [hand EXCEPT ![w] = Idle]
    /\ UNCHANGED <<row, now, todo, log, faults, mailed, clean>>

Finish(w) ==
    /\ hand[w] # Idle /\ hand[w].left = << >>
    /\ jobs' = Completed(hand[w].job)
    /\ hand' = [hand EXCEPT ![w] = Idle]
    /\ UNCHANGED <<row, now, todo, log, faults, mailed, clean>>

(* Mutant: the job of a dead worker stays locked. *)
CrashLocked(w) ==
    /\ hand[w] # Idle
    /\ faults < MaxFaults[follow]
    /\ faults' = faults + 1
    /\ hand' = [hand EXCEPT ![w] = Idle]
    /\ UNCHANGED <<row, now, todo, jobs, log, mailed, clean>>

(* The process dies; the job is found stalled and waits again. *)
Crash(w) ==
    /\ hand[w] # Idle
    /\ faults < MaxFaults[follow]
    /\ faults' = faults + 1
    /\ jobs' = [jobs EXCEPT ![hand[w].job].state = "wait"]
    /\ hand' = [hand EXCEPT ![w] = Idle]
    /\ UNCHANGED <<row, now, todo, log, mailed, clean>>

-----------------------------------------------------------------------------
Request(c) ==
    \/ \E start \in Start :
         \/ Create(c, start)
         \/ \E byClient \in BOOLEAN : Reschedule(c, start, byClient)
         \/ \E notifyClient \in BOOLEAN : UpdateDetails(c, start, notifyClient)
    \/ Confirm(c)
    \/ DepositFailed(c)
    \/ \E status \in {"CONFIRMED", "CANCELLED", "COMPLETED", "NO_SHOW"} :
         RequestStatus(c, status)

Continue(c) == UpdateStatus(c) \/ CancelReminders(c) \/ AddJob(c)

Work(w) ==
    \/ \E id \in DOMAIN jobs : Take(w, id)
    \/ Suppress(w)
    \/ Send(w)
    \/ LogSent(w)
    \/ Throw(w)
    \/ Finish(w)

Next ==
    \/ Tick
    \/ \E c \in Call : Request(c) \/ Continue(c) \/ CutOff(c)
    \/ \E w \in Worker : Work(w) \/ Crash(w)
    \/ \E id \in DOMAIN jobs : Purge(id)

Spec == Init /\ [][Next]_vars

(* The clock moves and the workers of every process take what is due. *)
Fairness ==
    /\ WF_vars(Tick)
    /\ \A c \in Call : WF_vars(Continue(c))
    /\ \A w \in Worker : WF_vars(Work(w))

FairSpec == Spec /\ Fairness

-----------------------------------------------------------------------------
(* Properties                                                                *)

Statuses == {"PENDING", "CONFIRMED", "CANCELLED", "COMPLETED", "NO_SHOW"}

TypeOK ==
    /\ follow \in Followed
    /\ now \in 0..Horizon
    /\ apt \in [status : Statuses, start : Start] \cup {NoAppointment}
    /\ ops \in 0..MaxOps[follow]
    /\ \A c \in Call : \A i \in DOMAIN todo[c] :
         todo[c][i].do \in {"write", "add", "cancelReminders"}
    /\ \A id \in DOMAIN jobs :
         /\ id[1] \in follow
         /\ jobs[id].state \in {"wait", "active", "completed", "failed"}
         /\ jobs[id].left \in 1..Attempts
         /\ jobs[id].state = "active" <=> \E w \in Worker : hand[w].job = id
    /\ faults \in 0..MaxFaults[follow]
    /\ clean \in BOOLEAN

(* One job tells the client of one start at most once on each channel,       *)
(* however often it is tried again after its message went out; only a worker *)
(* that dies, or a delivery row that is lost, in between adds a message.     *)
OncePerJob == \A key \in DOMAIN mailed : mailed[key] <= 1 + faults

(* After handlers that did not overlap and were not cut off, and apart from  *)
(* what updateDetails and the status endpoint leave unarmed, the queue says  *)
(* what the row says: a CONFIRMED appointment has every reminder that is     *)
(* still to come waiting for its start, and no reminder waits for another    *)
(* start or for an appointment that is pending or cancelled.                 *)
QueueFollowsRow ==
    clean /\ (\A c \in Call : todo[c] = << >>) =>
        \A r \in Reminder \cap follow :
            LET id == Id(r, 0)
                armed == id \in DOMAIN jobs /\ jobs[id].state = "wait"
            IN /\ apt.status = "CONFIRMED" /\ apt.start + Offset[r] > now =>
                      armed /\ jobs[id].expected = apt.start
               /\ armed => /\ jobs[id].expected = apt.start
                           /\ apt.status \in {"CONFIRMED", "COMPLETED", "NO_SHOW"}

LastWrite == Max({MaxOps[types] : types \in Followed})

(* A reminder that waits for the start the row has goes out in the end unless *)
(* another write comes first: no worker that dies and no order of two workers *)
(* loses it. It may be given up after its attempts, or suppressed for a       *)
(* reminder that is in the delivery log.                                      *)
RemindedUnlessWritten ==
    \A r \in Reminder, s \in Start, n \in 1..LastWrite :
        (/\ ops = n
         /\ apt = [status |-> "CONFIRMED", start |-> s]
         /\ \A c \in Call : todo[c] = << >>
         /\ Id(r, 0) \in DOMAIN jobs
         /\ jobs[Id(r, 0)].state = "wait" /\ jobs[Id(r, 0)].expected = s)
        ~> (\/ ops > n
            \/ \E key \in DOMAIN mailed : key[1] = Id(r, 0) /\ key[3] = s
            \/ \E key \in log : key[1] = r
            \/ Id(r, 0) \in DOMAIN jobs /\ jobs[Id(r, 0)].state = "failed")
=============================================================================
