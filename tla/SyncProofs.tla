----------------------------- MODULE SyncProofs -------------------------------
(***************************************************************************)
(* Proofs about GoogleSync and Sessions, where two copies of the same      *)
(* thing are kept in step: the event and the appointment, and the row of   *)
(* a session and the cookie of the device.                                 *)
(***************************************************************************)
EXTENDS GoogleSync, Sessions, FiniteSetTheorems, TLAPS

-----------------------------------------------------------------------------
(***************************************************************************)
(* GoogleSync. At each of its awaits a push or a removal that runs alone   *)
(* relies on the row and the events that it found, or that it has just     *)
(* made; InHand says on which, for each place where it can stand.          *)
(***************************************************************************)

Status == {"none", "PENDING", "CONFIRMED", "OVER", "CANCELLED"}
MeetingRow == [status : Status, start : Time, event : Nat]

Sending == [at : {"authPush", "send"}, start : Time, event : Nat]
Knowing == [at : {"authRemove", "store", "delete"}, event : Nat]
Asking == [at : {"push", "remove", "forget"}]
Deciding == [at : {"write"}, status : {"CONFIRMED", "OVER", "CANCELLED"}]
GoogleCalls == {Idle} \cup Asking \cup Deciding \cup Sending \cup Knowing

GoogleShapes ==
    /\ meeting \in MeetingRow
    /\ made \in Nat
    /\ events \in [DOMAIN events -> Time]
    /\ DOMAIN events \subseteq 1 .. made
    /\ tended \in BOOLEAN /\ connected \in BOOLEAN
    /\ call \in [Call -> GoogleCalls]
    /\ meeting.status = "none" =>
         meeting.event = NoEvent /\ \A c \in Call : call[c] = Idle

Settled ==
    IF Shown THEN events = [e \in {meeting.event} |-> meeting.start]
    ELSE events = << >> /\ meeting.event = NoEvent

(* What a push or a removal that runs alone relies on, at each of its awaits. *)
InHand(k) ==
    \/ k.at = "push" /\ meeting.event \in DOMAIN events \cup {NoEvent}
    \/ k.at = "write" /\ Shown /\ Settled
    \/ /\ k.at \in {"authPush", "send"} /\ Shown
       /\ k.event = meeting.event /\ k.start = meeting.start
       /\ DOMAIN events = {meeting.event} \ {NoEvent}
    \/ k.at = "store" /\ Shown /\ events = [e \in {k.event} |-> meeting.start]
    \/ k.at = "remove"
    \/ /\ k.at \in {"authRemove", "delete"} /\ meeting.status = "CANCELLED"
       /\ DOMAIN events \subseteq {k.event}
    \/ k.at = "forget" /\ meeting.status = "CANCELLED" /\ events = << >>

Tended ==
    tended => \/ Settled /\ \A c \in Call : call[c] = Idle
              \/ \E c \in Call : NoOther(c) /\ InHand(call[c])

GoogleInv == GoogleShapes /\ Tended

LEMMA EmptyFunction ==
  ASSUME NEW S, NEW f \in [{} -> S]
  PROVE  f = << >>
  OBVIOUS

LEMMA NothingShown ==
  ASSUME GoogleShapes, DOMAIN events = {}
  PROVE  events = << >>
  BY EmptyFunction DEF GoogleShapes

LEMMA IdleIsNoHand == ~InHand(Idle)
  BY DEF InHand, Idle

LEMMA GoogleInvInit == GoogleInit => GoogleInv
<1>. SUFFICES ASSUME GoogleInit PROVE GoogleInv
  OBVIOUS
<1>1. meeting \in MeetingRow
  BY GoogleSyncAssumption DEF GoogleInit, MeetingRow, Status, NoEvent
<1>. QED  BY <1>1 DEF GoogleInit, HandlersInit, GoogleInv, GoogleShapes, Tended, Settled, Idle,
                      Shown, GoogleCalls, NoEvent

LEMMA GoogleCallTo ==
  ASSUME GoogleShapes, NEW c \in Call, NEW k \in GoogleCalls, call' = [call EXCEPT ![c] = k]
  PROVE  /\ call' \in [Call -> GoogleCalls]
         /\ call'[c] = k
         /\ \A d \in Call \ {c} : call'[d] = call[d]
  BY DEF GoogleShapes

LEMMA GoogleCallIs ==
  ASSUME GoogleShapes, NEW c \in Call
  PROVE  /\ At(c, "send") \/ At(c, "authPush") => call[c] \in Sending
         /\ At(c, "store") \/ At(c, "delete") \/ At(c, "authRemove") => call[c] \in Knowing
         /\ At(c, "write") => call[c] \in Deciding
         /\ At(c, "idle") <=> call[c] = Idle
  BY DEF GoogleShapes, GoogleCalls, Asking, Deciding, Sending, Knowing, Idle, At

(* A request that is under way while the calendar is tended is alone. *)
LEMMA AloneInHand ==
  ASSUME GoogleInv, tended, NEW c \in Call, call[c] # Idle
  PROVE  NoOther(c) /\ InHand(call[c])
  BY DEF GoogleInv, Tended, NoOther

(* A request has come to k, in a row that may have changed. *)
LEMMA ComesTo ==
  ASSUME GoogleShapes, NEW c \in Call, NEW k \in GoogleCalls, call' = [call EXCEPT ![c] = k],
         meeting' \in MeetingRow, meeting'.status # "none",
         made' \in Nat, events' \in [DOMAIN events' -> Time], DOMAIN events' \subseteq 1 .. made',
         tended' \in BOOLEAN, connected' \in BOOLEAN,
         tended' => NoOther(c) /\ (InHand(call[c])' \/ (k = Idle /\ Settled'))
  PROVE  GoogleInv'
<1>1. /\ call' \in [Call -> GoogleCalls] /\ call'[c] = k
      /\ \A d \in Call \ {c} : call'[d] = call[d]
  BY GoogleCallTo
<1>2. GoogleShapes'
  BY <1>1 DEF GoogleShapes
<1>3. NoOther(c) => NoOther(c)' /\ (k = Idle => \A d \in Call : call'[d] = Idle)
  BY <1>1 DEF NoOther
<1>4. Tended'
  BY <1>3 DEF Tended
<1>. QED  BY <1>2, <1>4 DEF GoogleInv

LEMMA WritingSteps ==
  ASSUME GoogleInv, NEW c \in Call, NEW row \in MeetingRow, row.status # "none",
         row.event = meeting.event, NEW task \in {"push", "remove"}, NEW undisturbed \in BOOLEAN,
         Writing(c, row, task, undisturbed),
         undisturbed => tended \/ meeting.status = "none"
  PROVE  GoogleInv'
<1>. DEFINE k == [at |-> task]
<1>1. /\ k \in GoogleCalls /\ call' = [call EXCEPT ![c] = k] /\ call[c] = Idle /\ meeting' = row
      /\ tended' = (undisturbed /\ NoOther(c)) /\ UNCHANGED <<connected, events, made>>
  BY DEF Writing, Enter, GoogleCalls, Asking
<1>2. call'[c] = k
  BY <1>1, GoogleCallTo DEF GoogleInv
<1>3. ASSUME tended'
      PROVE  InHand(call[c])'
  <2>1. CASE task = "remove"
    BY <1>2, <2>1 DEF InHand
  <2>2. CASE task = "push"
    <3>1. meeting.event \in DOMAIN events \cup {NoEvent}
      <4>1. CASE meeting.status = "none"
        BY <4>1 DEF GoogleInv, GoogleShapes
      <4>2. CASE meeting.status # "none"
        <5>1. tended /\ \A d \in Call : call[d] = Idle
          BY <1>1, <1>3, <4>2 DEF NoOther
        <5>2. \A d \in Call : ~InHand(call[d])
          BY <5>1, IdleIsNoHand
        <5>3. Settled
          BY <5>1, <5>2 DEF GoogleInv, Tended
        <5>. QED  BY <5>3 DEF Settled
      <4>. QED  BY <4>1, <4>2
    <3>. QED  BY <1>1, <1>2, <2>2, <3>1 DEF InHand
  <2>. QED  BY <2>1, <2>2
<1>. QED  BY <1>1, <1>3, ComesTo DEF GoogleInv, GoogleShapes, NoOther

LEMMA NewStatus ==
  ASSUME GoogleShapes, NEW status \in Status,
         NEW row, row = [meeting EXCEPT !.status = status]
  PROVE  row \in MeetingRow /\ row.status = status /\ row.event = meeting.event
         /\ row.start = meeting.start
  BY DEF GoogleShapes, MeetingRow

LEMMA NewStart ==
  ASSUME GoogleShapes, NEW start \in Time,
         NEW row, row = [meeting EXCEPT !.start = start]
  PROVE  row \in MeetingRow /\ row.status = meeting.status /\ row.event = meeting.event
         /\ row.start = start
  BY DEF GoogleShapes, MeetingRow

LEMMA HandlerSteps ==
  ASSUME GoogleInv, NEW c \in Call, NEW start \in Time,
         \/ CreateMeeting(c, start) \/ RescheduleMeeting(c, start)
         \/ ConfirmMeeting(c) \/ RequestSync(c)
  PROVE  GoogleInv'
<1>1. GoogleShapes /\ meeting \in MeetingRow /\ tended \in BOOLEAN /\ (tended /\ Shown) \in BOOLEAN
  BY DEF GoogleInv, GoogleShapes
<1>2. CASE CreateMeeting(c, start)
  <2>1. PICK status \in {"PENDING", "CONFIRMED"} :
          Writing(c, [meeting EXCEPT !.status = status, !.start = start], "push", TRUE)
    BY <1>2 DEF CreateMeeting
  <2>. DEFINE row == [meeting EXCEPT !.status = status, !.start = start]
  <2>2. row \in MeetingRow /\ row.status # "none" /\ row.event = meeting.event
    BY <1>1 DEF MeetingRow, Status
  <2>3. meeting.status = "none" /\ Writing(c, row, "push", TRUE)
    BY <1>2, <2>1 DEF CreateMeeting
  <2>. HIDE DEF row
  <2>. QED  BY <2>2, <2>3, WritingSteps
<1>3. CASE RescheduleMeeting(c, start)
  <2>1. CASE Writing(c, [meeting EXCEPT !.status = "PENDING", !.start = start], "push", tended)
    <3>. DEFINE row == [meeting EXCEPT !.status = "PENDING", !.start = start]
    <3>1. row \in MeetingRow /\ row.status # "none" /\ row.event = meeting.event
      BY <1>1 DEF MeetingRow, Status
    <3>2. Writing(c, row, "push", tended)
      BY <2>1
    <3>. HIDE DEF row
    <3>. QED  BY <1>1, <3>1, <3>2, WritingSteps
  <2>2. CASE Writing(c, [meeting EXCEPT !.start = start], "push", tended /\ Shown)
    <3>. DEFINE row == [meeting EXCEPT !.start = start]
    <3>1. row \in MeetingRow /\ row.status # "none" /\ row.event = meeting.event
      BY <1>1, <1>3, NewStart DEF RescheduleMeeting
    <3>2. Writing(c, row, "push", tended /\ Shown)
      BY <2>2
    <3>. HIDE DEF row
    <3>. QED  BY <1>1, <3>1, <3>2, WritingSteps
  <2>. QED  BY <1>3, <2>1, <2>2 DEF RescheduleMeeting
<1>4. CASE ConfirmMeeting(c)
  <2>. DEFINE row == [meeting EXCEPT !.status = "CONFIRMED"]
  <2>1. Writing(c, row, "push", tended)
    BY <1>4 DEF ConfirmMeeting
  <2>2. row \in MeetingRow /\ row.status # "none" /\ row.event = meeting.event
    BY <1>1, NewStatus DEF Status
  <2>. HIDE DEF row
  <2>. QED  BY <1>1, <2>1, <2>2, WritingSteps
<1>5. CASE RequestSync(c)
  BY <1>1, <1>5, WritingSteps DEF RequestSync
<1>. QED  BY <1>2, <1>3, <1>4, <1>5

(* A request that is under way finds a row that is there. *)
LEMMA UnderWay ==
  ASSUME GoogleInv, NEW c \in Call, call[c] # Idle
  PROVE  meeting.status # "none"
  BY DEF GoogleInv, GoogleShapes

LEMMA ReadSteps ==
  ASSUME GoogleInv, NEW c \in Call, ReadForPush(c) \/ ReadForRemove(c)
  PROVE  GoogleInv'
<1>. USE DEF GoogleInv
<1>1. /\ call[c] # Idle /\ UNCHANGED <<connected, meeting, events, made>>
      /\ meeting \in MeetingRow /\ meeting.status # "none" /\ tended' \in BOOLEAN
  <2>1. call[c] # Idle /\ UNCHANGED <<connected, meeting, events, made>>
    BY DEF ReadForPush, ReadForRemove, At, Idle
  <2>2. tended' \in BOOLEAN
    BY DEF ReadForPush, ReadForRemove
  <2>. QED  BY <2>1, <2>2, UnderWay DEF GoogleShapes
<1>2. NoEvent \notin DOMAIN events
  BY DEF GoogleShapes, NoEvent
<1>3. CASE ReadForPush(c)
  <2>. DEFINE k == [at |-> "authPush", start |-> meeting.start, event |-> meeting.event]
  <2>1. k \in GoogleCalls /\ call' = [call EXCEPT ![c] = k]
    BY <1>1, <1>3 DEF ReadForPush, Step, MeetingRow, GoogleCalls, Sending
  <2>2. call'[c] = k
    BY <2>1, GoogleCallTo
  <2>3. ASSUME tended'
        PROVE  NoOther(c) /\ InHand(call[c])'
    <3>1. /\ NoOther(c) /\ Shown /\ KnownOnly
          /\ tended \/ meeting.event \in DOMAIN events \cup {NoEvent}
      BY <1>3, <2>3 DEF ReadForPush
    <3>2. meeting.event \in DOMAIN events \cup {NoEvent}
      <4>1. CASE tended
        <5>1. InHand(call[c]) /\ call[c].at = "push"
          BY <1>1, <1>3, <4>1, AloneInHand DEF ReadForPush, At
        <5>. QED  BY <5>1 DEF InHand
      <4>. QED  BY <3>1, <4>1
    <3>3. DOMAIN events = {meeting.event} \ {NoEvent}
      BY <1>2, <3>1, <3>2 DEF KnownOnly
    <3>. QED  BY <1>1, <2>2, <3>1, <3>3 DEF InHand, Shown
  <2>. QED  BY <1>1, <2>1, <2>3, ComesTo DEF GoogleShapes
<1>4. CASE ReadForRemove(c) /\ meeting.event = NoEvent
  <2>1. Idle \in GoogleCalls /\ call' = [call EXCEPT ![c] = Idle]
    BY <1>4 DEF ReadForRemove, Return, GoogleCalls
  <2>2. ASSUME tended'
        PROVE  NoOther(c) /\ Settled'
    <3>1. NoOther(c) /\ meeting.status = "CANCELLED" /\ KnownOnly
      BY <1>4, <2>2 DEF ReadForRemove
    <3>2. events = << >>
      BY <1>2, <1>4, <3>1, NothingShown DEF KnownOnly
    <3>. QED  BY <1>1, <1>4, <3>1, <3>2 DEF Settled, Shown
  <2>. QED  BY <1>1, <2>1, <2>2, ComesTo DEF GoogleShapes
<1>5. CASE ReadForRemove(c) /\ meeting.event # NoEvent
  <2>. DEFINE k == [at |-> "authRemove", event |-> meeting.event]
  <2>1. k \in GoogleCalls /\ call' = [call EXCEPT ![c] = k]
    BY <1>1, <1>5 DEF ReadForRemove, Step, MeetingRow, GoogleCalls, Knowing
  <2>2. call'[c] = k
    BY <2>1, GoogleCallTo
  <2>3. ASSUME tended'
        PROVE  NoOther(c) /\ InHand(call[c])'
    <3>1. NoOther(c) /\ meeting.status = "CANCELLED" /\ KnownOnly
      BY <1>5, <2>3 DEF ReadForRemove
    <3>. QED  BY <1>1, <2>2, <3>1 DEF InHand, KnownOnly
  <2>. QED  BY <1>1, <2>1, <2>3, ComesTo DEF GoogleShapes
<1>. QED  BY <1>3, <1>4, <1>5

LEMMA TokenSteps ==
  ASSUME GoogleInv, NEW c \in Call, GetToken(c)
  PROVE  GoogleInv'
<1>. USE DEF GoogleInv
<1>. DEFINE k == [call[c] EXCEPT !.at = Authorized[@]]
<1>1. /\ call' = [call EXCEPT ![c] = k] /\ UNCHANGED <<connected, meeting, events, made, tended>>
      /\ call[c].at \in {"authPush", "authRemove"} /\ call[c] # Idle
  BY DEF GetToken, Step, Authorized, Idle
<1>2. CASE call[c].at = "authPush"
  <2>1. call[c] \in Sending
    BY <1>2, GoogleCallIs DEF At
  <2>2. k \in Sending /\ k.at = "send" /\ k.start = call[c].start /\ k.event = call[c].event
    BY <1>2, <2>1 DEF Sending, Authorized
  <2>3. k \in GoogleCalls
    BY <2>2 DEF GoogleCalls
  <2>4. call'[c] = k /\ meeting.status # "none"
    BY <1>1, <2>3, GoogleCallTo, UnderWay
  <2>5. ASSUME tended
        PROVE  NoOther(c) /\ InHand(call[c])'
    <3>. HIDE DEF k
    <3>1. NoOther(c) /\ InHand(call[c])
      BY <1>1, <2>5, AloneInHand
    <3>. QED  BY <1>1, <1>2, <2>2, <2>4, <3>1 DEF InHand, Shown
  <2>. HIDE DEF k
  <2>. QED  BY <1>1, <2>3, <2>4, <2>5, ComesTo DEF GoogleShapes
<1>3. CASE call[c].at = "authRemove"
  <2>1. call[c] \in Knowing
    BY <1>3, GoogleCallIs DEF At
  <2>2. k \in Knowing /\ k.at = "delete" /\ k.event = call[c].event
    BY <1>3, <2>1 DEF Knowing, Authorized
  <2>3. k \in GoogleCalls
    BY <2>2 DEF GoogleCalls
  <2>4. call'[c] = k /\ meeting.status # "none"
    BY <1>1, <2>3, GoogleCallTo, UnderWay
  <2>5. ASSUME tended
        PROVE  NoOther(c) /\ InHand(call[c])'
    <3>. HIDE DEF k
    <3>1. NoOther(c) /\ InHand(call[c])
      BY <1>1, <2>5, AloneInHand
    <3>. QED  BY <1>1, <1>3, <2>2, <2>4, <3>1 DEF InHand
  <2>. HIDE DEF k
  <2>. QED  BY <1>1, <2>3, <2>4, <2>5, ComesTo DEF GoogleShapes
<1>. QED  BY <1>1, <1>2, <1>3

(* The status that a handler alone has checked is still one to be shown. *)
LEMMA StatusSteps ==
  ASSUME GoogleInv, NEW c \in Call, CheckStatus(c) \/ WriteStatus(c)
  PROVE  GoogleInv'
<1>. USE DEF GoogleInv
<1>1. CASE CheckStatus(c)
  <2>1. PICK status \in {"CONFIRMED", "OVER", "CANCELLED"} :
          Enter(c, [at |-> "write", status |-> status])
    BY <1>1 DEF CheckStatus, Transitions
  <2>. DEFINE k == [at |-> "write", status |-> status]
  <2>2. /\ k \in GoogleCalls /\ call[c] = Idle /\ call' = [call EXCEPT ![c] = k]
        /\ UNCHANGED <<connected, meeting, events, made>> /\ tended' = (tended /\ NoOther(c))
        /\ meeting.status \in {"PENDING", "CONFIRMED"}
    BY <1>1, <2>1 DEF CheckStatus, Enter, GoogleCalls, Deciding, Transitions
  <2>3. call'[c] = k
    BY <2>2, GoogleCallTo
  <2>4. ASSUME tended'
        PROVE  NoOther(c) /\ InHand(call[c])'
    <3>1. tended /\ NoOther(c) /\ \A d \in Call : call[d] = Idle
      BY <2>2, <2>4 DEF NoOther
    <3>2. \A d \in Call : ~InHand(call[d])
      BY <3>1, IdleIsNoHand
    <3>3. Settled
      BY <3>1, <3>2 DEF Tended
    <3>4. Shown' /\ Settled'
      BY <2>2, <3>3 DEF Shown, Settled
    <3>. QED  BY <2>3, <3>1, <3>4 DEF InHand
  <2>5. tended' \in BOOLEAN
    BY <2>2
  <2>. HIDE DEF k
  <2>. QED  BY <2>2, <2>4, <2>5, ComesTo DEF GoogleShapes
<1>2. CASE WriteStatus(c)
  <2>. DEFINE k == IF call[c].status = "CANCELLED" THEN [at |-> "remove"] ELSE Idle
  <2>1. /\ At(c, "write") /\ call[c] \in Deciding /\ call[c] # Idle
        /\ meeting' = [meeting EXCEPT !.status = call[c].status]
        /\ UNCHANGED <<connected, events, made>> /\ tended' = (tended /\ NoOther(c))
    BY <1>2, GoogleCallIs DEF WriteStatus, At, Idle
  <2>2. k \in GoogleCalls /\ call' = [call EXCEPT ![c] = k]
    BY <1>2 DEF WriteStatus, Step, Return, GoogleCalls, Asking
  <2>3. call'[c] = k
    BY <2>2, GoogleCallTo
  <2>4. /\ meeting' \in MeetingRow /\ meeting'.status = call[c].status
        /\ meeting'.event = meeting.event /\ meeting'.start = meeting.start
        /\ call[c].status \in {"CONFIRMED", "OVER", "CANCELLED"}
    BY <2>1, NewStatus DEF Deciding, Status
  <2>5. ASSUME tended'
        PROVE  NoOther(c) /\ (InHand(call[c])' \/ (k = Idle /\ Settled'))
    <3>1. NoOther(c) /\ InHand(call[c])
      BY <2>1, <2>5, AloneInHand
    <3>2. Shown /\ Settled
      BY <2>1, <3>1 DEF InHand, At
    <3>3. CASE call[c].status = "CANCELLED"
      BY <2>3, <3>1, <3>3 DEF InHand
    <3>4. CASE call[c].status # "CANCELLED"
      <4>1. Shown' /\ Settled'
        BY <2>1, <2>4, <3>2, <3>4 DEF Shown, Settled
      <4>. QED  BY <3>1, <3>4, <4>1
    <3>. QED  BY <3>3, <3>4
  <2>6. tended' \in BOOLEAN /\ meeting'.status # "none"
    BY <2>1, <2>4
  <2>. HIDE DEF k
  <2>. QED  BY <2>1, <2>2, <2>4, <2>5, <2>6, ComesTo DEF GoogleShapes
<1>. QED  BY <1>1, <1>2

LEMMA PatchSteps ==
  ASSUME GoogleInv, NEW c \in Call, Patch(c)
  PROVE  GoogleInv'
<1>. USE DEF GoogleInv
<1>. DEFINE k == call[c]
<1>1. At(c, "send") /\ k.event # NoEvent /\ k \in Sending /\ k # Idle
  BY GoogleCallIs DEF Patch, At, Idle
<1>2. /\ Idle \in GoogleCalls /\ call' = [call EXCEPT ![c] = Idle]
      /\ UNCHANGED <<connected, meeting, made, tended>>
      /\ events' = [e \in DOMAIN events |-> IF e = k.event THEN k.start ELSE events[e]]
  BY DEF Patch, Return, GoogleCalls
<1>3. DOMAIN events' = DOMAIN events /\ events' \in [DOMAIN events' -> Time]
  BY <1>1, <1>2 DEF GoogleShapes, Sending
<1>4. ASSUME tended
      PROVE  NoOther(c) /\ Settled'
  <2>1. NoOther(c) /\ InHand(k)
    BY <1>1, <1>4, AloneInHand
  <2>2. /\ Shown /\ k.event = meeting.event /\ k.start = meeting.start
        /\ DOMAIN events = {meeting.event}
    BY <1>1, <2>1 DEF InHand, At
  <2>3. events' = [e \in {meeting.event} |-> meeting.start]
    BY <1>2, <2>2
  <2>. QED  BY <1>2, <2>1, <2>2, <2>3 DEF Settled, Shown
<1>5. meeting.status # "none" /\ meeting \in MeetingRow
  BY <1>1, UnderWay DEF GoogleShapes
<1>. QED  BY <1>2, <1>3, <1>4, <1>5, ComesTo DEF GoogleShapes

LEMMA InsertSteps ==
  ASSUME GoogleInv, NEW c \in Call, Insert(c)
  PROVE  GoogleInv'
<1>. USE DEF GoogleInv
<1>. DEFINE new == made + 1
            k == [at |-> "store", event |-> new]
<1>1. At(c, "send") /\ call[c].event = NoEvent /\ call[c] \in Sending /\ call[c] # Idle
  BY GoogleCallIs DEF Insert, At, Idle
<1>2. /\ k \in GoogleCalls /\ call' = [call EXCEPT ![c] = k]
      /\ UNCHANGED <<connected, meeting, tended>> /\ made' = new /\ made \in Nat
      /\ events' = [e \in DOMAIN events \cup {new} |-> IF e = new THEN call[c].start ELSE events[e]]
  BY DEF Insert, Step, GoogleCalls, Knowing, GoogleShapes
<1>3. call'[c] = k
  BY <1>2, GoogleCallTo
<1>4. /\ DOMAIN events' = DOMAIN events \cup {new} /\ events' \in [DOMAIN events' -> Time]
      /\ DOMAIN events' \subseteq 1 .. made'
  BY <1>1, <1>2 DEF GoogleShapes, Sending
<1>5. ASSUME tended
      PROVE  NoOther(c) /\ InHand(call[c])'
  <2>1. NoOther(c) /\ InHand(call[c])
    BY <1>1, <1>5, AloneInHand
  <2>2. /\ Shown /\ call[c].start = meeting.start /\ DOMAIN events = {}
    BY <1>1, <2>1 DEF InHand, At
  <2>3. events' = [e \in {new} |-> meeting.start]
    BY <1>2, <2>2
  <2>. QED  BY <1>2, <1>3, <2>1, <2>2, <2>3 DEF InHand, Shown
<1>6. meeting.status # "none" /\ meeting \in MeetingRow /\ made' \in Nat
  BY <1>1, <1>2, UnderWay DEF GoogleShapes
<1>. QED  BY <1>2, <1>4, <1>5, <1>6, ComesTo DEF GoogleShapes

LEMMA EventOnly ==
  ASSUME GoogleShapes, NEW event \in Nat, meeting' = [meeting EXCEPT !.event = event]
  PROVE  meeting' \in MeetingRow /\ meeting'.event = event /\ meeting'.start = meeting.start
         /\ meeting'.status = meeting.status
  BY DEF GoogleShapes, MeetingRow

LEMMA StoreSteps ==
  ASSUME GoogleInv, NEW c \in Call, StoreEvent(c) \/ ForgetEvent(c)
  PROVE  GoogleInv'
<1>. USE DEF GoogleInv
<1>1. /\ call[c] # Idle /\ Idle \in GoogleCalls /\ call' = [call EXCEPT ![c] = Idle]
      /\ UNCHANGED <<connected, events, made, tended>>
  BY DEF StoreEvent, ForgetEvent, Return, GoogleCalls, At, Idle
<1>2. meeting.status # "none"
  BY <1>1, UnderWay
<1>3. meeting' \in MeetingRow /\ meeting'.start = meeting.start /\ meeting'.status = meeting.status
      /\ meeting'.event = IF At(c, "store") THEN call[c].event ELSE NoEvent
  <2>1. CASE StoreEvent(c)
    <3>1. call[c].event \in Nat /\ At(c, "store")
      BY <2>1, GoogleCallIs DEF StoreEvent, Knowing
    <3>. QED  BY <2>1, <3>1, EventOnly DEF StoreEvent
  <2>2. CASE ForgetEvent(c)
    <3>1. NoEvent \in Nat /\ ~At(c, "store")
      BY <2>2 DEF ForgetEvent, NoEvent, At
    <3>. QED  BY <2>2, <3>1, EventOnly DEF ForgetEvent
  <2>. QED  BY <2>1, <2>2
<1>4. ASSUME tended
      PROVE  NoOther(c) /\ Settled'
  <2>1. NoOther(c) /\ InHand(call[c])
    BY <1>1, <1>4, AloneInHand
  <2>2. CASE StoreEvent(c)
    <3>1. At(c, "store") /\ Shown
          /\ events = [e \in {call[c].event} |-> meeting.start]
      BY <2>1, <2>2 DEF StoreEvent, InHand, At
    <3>. QED  BY <1>1, <1>3, <2>1, <3>1 DEF Settled, Shown
  <2>3. CASE ForgetEvent(c)
    <3>1. ~At(c, "store") /\ meeting.status = "CANCELLED" /\ events = << >>
      BY <2>1, <2>3 DEF ForgetEvent, InHand, At
    <3>. QED  BY <1>1, <1>3, <2>1, <3>1 DEF Settled, Shown
  <2>. QED  BY <2>2, <2>3
<1>. QED  BY <1>1, <1>2, <1>3, <1>4, ComesTo DEF GoogleShapes

LEMMA DeleteSteps ==
  ASSUME GoogleInv, NEW c \in Call, DeleteEvent(c)
  PROVE  GoogleInv'
<1>. USE DEF GoogleInv
<1>. DEFINE k == [at |-> "forget"]
<1>1. /\ At(c, "delete") /\ call[c] # Idle /\ k \in GoogleCalls /\ call' = [call EXCEPT ![c] = k]
      /\ UNCHANGED <<connected, meeting, made>>
  BY DEF DeleteEvent, Step, GoogleCalls, Asking, At, Idle
<1>2. call'[c] = k /\ meeting.status # "none"
  BY <1>1, GoogleCallTo, UnderWay
<1>3. CASE UNCHANGED events /\ tended' = FALSE
  BY <1>1, <1>2, <1>3, ComesTo DEF GoogleShapes
<1>4. CASE events' = [e \in DOMAIN events \ {call[c].event} |-> events[e]] /\ tended' = tended
  <2>1. DOMAIN events' = DOMAIN events \ {call[c].event} /\ events' \in [DOMAIN events' -> Time]
    BY <1>4 DEF GoogleShapes
  <2>2. ASSUME tended
        PROVE  NoOther(c) /\ InHand(call[c])'
    <3>1. NoOther(c) /\ InHand(call[c])
      BY <1>1, <2>2, AloneInHand
    <3>2. meeting.status = "CANCELLED" /\ DOMAIN events \subseteq {call[c].event}
      BY <1>1, <3>1 DEF InHand, At
    <3>3. events' = << >>
      BY <2>1, <3>2, EmptyFunction
    <3>. QED  BY <1>1, <1>2, <3>1, <3>2, <3>3 DEF InHand
  <2>. QED  BY <1>1, <1>2, <1>4, <2>1, <2>2, ComesTo DEF GoogleShapes
<1>. QED  BY <1>3, <1>4 DEF DeleteEvent

LEMMA GiveUpSteps ==
  ASSUME GoogleInv, NEW c \in Call, GiveUp(c) \/ NoToken(c)
  PROVE  GoogleInv'
<1>1. /\ call[c] # Idle /\ Idle \in GoogleCalls /\ call' = [call EXCEPT ![c] = Idle]
      /\ UNCHANGED <<connected, meeting, events, made>> /\ tended' = FALSE
  BY DEF GiveUp, NoToken, Authorized, Return, GoogleCalls, Idle
<1>2. meeting.status # "none"
  BY <1>1, UnderWay
<1>. QED  BY <1>1, <1>2, ComesTo DEF GoogleInv, GoogleShapes

LEMMA MoveSteps ==
  ASSUME GoogleInv, Connect \/ DepositFailed \/ (\E start \in Time : MoveMeeting(start))
  PROVE  GoogleInv'
<1>1. tended' = FALSE /\ connected' \in BOOLEAN /\ UNCHANGED <<events, made, call>>
  BY DEF Connect, DepositFailed, MoveMeeting, WritingOnly, GoogleInv, GoogleShapes
<1>2. /\ meeting' \in MeetingRow /\ (meeting'.status = "none" => meeting.status = "none")
      /\ meeting'.event = meeting.event
  BY DEF Connect, DepositFailed, MoveMeeting, WritingOnly, GoogleInv, GoogleShapes, MeetingRow, Status
<1>. QED  BY <1>1, <1>2 DEF GoogleInv, GoogleShapes, Tended

(* A deposit that confirms what was to be shown already disturbs no push. *)
LEMMA PaidSteps ==
  ASSUME GoogleInv, DepositPaid
  PROVE  GoogleInv'
<1>1. /\ meeting' \in MeetingRow /\ meeting'.status = "CONFIRMED"
      /\ meeting'.event = meeting.event /\ meeting'.start = meeting.start
      /\ tended' = (tended /\ Shown) /\ UNCHANGED <<connected, events, made, call>>
  BY NewStatus DEF DepositPaid, WritingOnly, GoogleInv, Status
<1>2. GoogleShapes'
  BY <1>1 DEF GoogleInv, GoogleShapes
<1>3. ASSUME tended'
      PROVE  /\ tended /\ Shown /\ Shown' /\ (Settled => Settled')
             /\ \A c \in Call : InHand(call[c]) => InHand(call[c])'
             /\ \A c \in Call : NoOther(c) => NoOther(c)'
  <2>1. tended /\ Shown /\ Shown' /\ meeting.status # "CANCELLED"
    BY <1>1, <1>3 DEF Shown
  <2>2. Settled => Settled'
    BY <1>1, <2>1 DEF Settled
  <2>3. \A c \in Call : InHand(call[c]) => InHand(call[c])'
    BY <1>1, <2>1, <2>2 DEF InHand
  <2>. QED  BY <1>1, <2>1, <2>2, <2>3 DEF NoOther
<1>4. Tended'
  BY <1>1, <1>3 DEF GoogleInv, Tended
<1>. QED  BY <1>2, <1>4 DEF GoogleInv

LEMMA GoogleInvStep == GoogleInv /\ [GoogleNext]_googleVars => GoogleInv'
<1>. SUFFICES ASSUME GoogleInv, [GoogleNext]_googleVars PROVE GoogleInv'
  OBVIOUS
<1>1. CASE UNCHANGED googleVars
  <2>1. Settled' = Settled /\ \A c \in Call : NoOther(c)' = NoOther(c) /\ InHand(call[c])' = InHand(call[c])
    BY <1>1 DEF googleVars, Settled, Shown, NoOther, InHand
  <2>. QED  BY <1>1, <2>1 DEF googleVars, GoogleInv, GoogleShapes, Tended
<1>. QED  BY <1>1, HandlerSteps, StatusSteps, ReadSteps, TokenSteps, PatchSteps, InsertSteps,
             StoreSteps, DeleteSteps, GiveUpSteps, MoveSteps, PaidSteps, GoogleSyncAssumption
          DEF GoogleNext

(* When the last push or removal ran alone and was answered, the calendar    *)
(* shows the appointment as it is, whatever failed or overlapped before it.  *)
THEOREM CalendarShowsAlways == GoogleSpec => []CalendarShowsAppointment
<1>1. GoogleInv => CalendarShowsAppointment
  <2>. SUFFICES ASSUME GoogleInv, tended, \A c \in Call : call[c] = Idle
                PROVE  Settled
    BY DEF CalendarShowsAppointment, Settled
  <2>1. \A c \in Call : ~InHand(call[c])
    BY IdleIsNoHand
  <2>. QED  BY <2>1 DEF GoogleInv, Tended
<1>. QED  BY <1>1, GoogleInvInit, GoogleInvStep, PTL DEF GoogleSpec

-----------------------------------------------------------------------------
(***************************************************************************)
(* Sessions. A token that is about to be stored belongs to no device, and  *)
(* no two rows hold one token; a row that a transaction has written is     *)
(* locked, and what it lists to be removed is as old as the list says,     *)
(* unless another transaction has rotated it since.                        *)
(***************************************************************************)

Locking == [at : {"lock"}, device : Device, token : Nat]
Storing == [at : {"store"}, device : Device, token : Nat, replaces : Nat, lock : BOOLEAN]
Listing == [at : {"list"}, device : Device, token : Nat, replaces : Nat, lock : BOOLEAN,
            row : Nat]
Committing == [at : {"commit"}, device : Device, token : Nat, replaces : Nat, lock : BOOLEAN,
               row : Nat, excess : SUBSET Nat]
SessionCalls == {Idle} \cup Locking \cup Storing \cup Listing \cup Committing

(* A handler that has signed a token, and one that has written it to a row.  *)
Signer(c) == call[c].at \in {"store", "list", "commit"}
Writer(c) == call[c].at \in {"list", "commit"}

SessionShapes ==
    /\ signed \in Nat
    /\ session \in [DOMAIN session -> 1 .. signed]
    /\ DOMAIN session \subseteq 1 .. signed
    /\ holds \in [Device -> 0 .. signed]
    /\ call \in [Call -> SessionCalls]
    /\ \A c \in Call : call[c] # Idle => call[c].token \in 1 .. signed
    /\ \A c \in Call : Signer(c) => call[c].replaces \in 0 .. signed
    /\ \A c \in Call : Writer(c) => call[c].row \in 1 .. signed

(* The token that a refresh was sent with, 0 for a sign-in or without a lock. *)
Given(c) == IF At(c, "lock") THEN call[c].token ELSE call[c].replaces

(* A token that is to be stored is nobody's yet, and in no row; one that a   *)
(* device was given is its own, and a refresh that it was sent with is of    *)
(* that device.                                                              *)
TokensApart ==
    /\ \A c, d \in Call : Signer(c) /\ Signer(d) /\ call[c].token = call[d].token => c = d
    /\ \A c \in Call, d \in Device : Signer(c) => holds[d] # call[c].token
    /\ \A c, d \in Call : Signer(c) /\ call[d] # Idle => Given(d) # call[c].token
    /\ \A d, e \in Device : holds[d] = holds[e] /\ holds[d] # 0 => d = e
    /\ \A c \in Call, d \in Device :
         call[c] # Idle /\ Given(c) # 0 /\ holds[d] = Given(c) => d = call[c].device

(* No two rows hold one token, and a new row has a number of its own.        *)
RowsApart ==
    /\ \A r, s \in DOMAIN session : session[r] = session[s] => r = s
    /\ \A c \in Call, r \in DOMAIN session : Signer(c) => session[r] # call[c].token /\ r # call[c].token
    /\ \A c, d \in Call : Writer(c) /\ Signer(d) /\ call[c].row = call[d].token => c = d

(* The row that a transaction has written is locked: no other writes it, and *)
(* others see in it the token that it replaces.                              *)
RowsLocked ==
    /\ \A c, d \in Call : Writer(c) /\ Writer(d) /\ call[c].row = call[d].row => c = d
    /\ \A c \in Call :
         Writer(c) /\ call[c].row \in DOMAIN session => session[call[c].row] = call[c].replaces

(* What is listed to be removed is old, unless it was rotated since.         *)
ListedIsOld ==
    \A c \in Call : At(c, "commit") =>
        /\ call[c].row \in call[c].excess => signed - call[c].token >= MaxSessions
        /\ \A r \in (call[c].excess \cap DOMAIN session) \ {call[c].row},
              d \in Device \ (unheard \cup overtook) :
             holds[d] = session[r] => signed - session[r] >= MaxSessions

SessionsInv ==
    SessionShapes /\ TokensApart /\ RowsApart /\ RowsLocked /\ ListedIsOld /\ DeviceStaysSignedIn

LEMMA SessionsInvInit == SessionsInit => SessionsInv
<1>. SUFFICES ASSUME SessionsInit PROVE SessionsInv
  OBVIOUS
<1>1. \A c \in Call : call[c] = Idle /\ ~Signer(c) /\ ~Writer(c) /\ ~At(c, "commit")
  BY DEF SessionsInit, HandlersInit, Signer, Writer, At, Idle
<1>2. SessionShapes
  BY <1>1 DEF SessionsInit, HandlersInit, SessionShapes, SessionCalls
<1>. QED  BY <1>1, <1>2 DEF SessionsInit, SessionsInv, TokensApart, RowsApart, RowsLocked,
                            ListedIsOld, DeviceStaysSignedIn

LEMMA SessionCallIs ==
  ASSUME SessionShapes, NEW c \in Call
  PROVE  /\ At(c, "lock") => call[c] \in Locking /\ ~Signer(c) /\ ~Writer(c)
         /\ At(c, "store") => call[c] \in Storing /\ Signer(c) /\ ~Writer(c)
         /\ At(c, "list") => call[c] \in Listing
         /\ At(c, "commit") => call[c] \in Committing
         /\ At(c, "list") \/ At(c, "commit") <=> Writer(c)
         /\ Writer(c) => Signer(c)
         /\ Signer(c) => call[c].device \in Device /\ call[c].token \in Nat
         /\ call[c] # Idle <=> At(c, "lock") \/ Signer(c)
         /\ At(c, "commit") => Writer(c) /\ ~At(c, "list")
<1>1. call[c] \in SessionCalls
  BY DEF SessionShapes
<1>2. CASE call[c] = Idle
  BY <1>2 DEF Idle, At, Signer, Writer
<1>3. CASE call[c] \in Locking
  BY <1>3 DEF Locking, Idle, At, Signer, Writer
<1>4. CASE call[c] \in Storing
  BY <1>4 DEF Storing, Idle, At, Signer, Writer
<1>5. CASE call[c] \in Listing
  BY <1>5 DEF Listing, Idle, At, Signer, Writer
<1>6. CASE call[c] \in Committing
  BY <1>6 DEF Committing, Idle, At, Signer, Writer
<1>. QED  BY <1>1, <1>2, <1>3, <1>4, <1>5, <1>6 DEF SessionCalls

LEMMA SessionCallTo ==
  ASSUME SessionShapes, NEW c \in Call, NEW k \in SessionCalls, call' = [call EXCEPT ![c] = k]
  PROVE  /\ call' \in [Call -> SessionCalls]
         /\ call'[c] = k
         /\ \A d \in Call \ {c} : call'[d] = call[d]
         /\ \A d \in Call \ {c} :
              /\ Given(d)' = Given(d) /\ (Signer(d)' <=> Signer(d))
              /\ (Writer(d)' <=> Writer(d)) /\ (At(d, "commit")' <=> At(d, "commit"))
<1>1. /\ call' \in [Call -> SessionCalls]
      /\ call'[c] = k
      /\ \A d \in Call \ {c} : call'[d] = call[d]
  BY DEF SessionShapes
<1>. QED  BY <1>1 DEF Given, Signer, Writer, At

(* More tokens are signed, and the rest stays as it was. *)
LEMMA SignedMore ==
  ASSUME SessionsInv, signed' \in Nat, signed' >= signed,
         UNCHANGED <<session, holds, unheard, overtook>>
  PROVE  /\ DeviceStaysSignedIn' /\ holds' \in [Device -> 0 .. signed']
         /\ session' \in [DOMAIN session' -> 1 .. signed'] /\ DOMAIN session' \subseteq 1 .. signed'
<1>1. /\ holds' \in [Device -> 0 .. signed']
      /\ session' \in [DOMAIN session' -> 1 .. signed'] /\ DOMAIN session' \subseteq 1 .. signed'
  BY DEF SessionsInv, SessionShapes
<1>2. \A d \in Device : holds[d] \in 0 .. signed
  BY DEF SessionsInv, SessionShapes
<1>3. MaxSessions \in Nat
  BY SessionsAssumption
<1>4. Range(session)' = Range(session)
  BY DEF Range
<1>. QED  BY <1>1, <1>2, <1>3, <1>4 DEF SessionsInv, SessionShapes, DeviceStaysSignedIn

(* A request begins, or takes the lock: it may have signed the next token.   *)
LEMMA SessionGoesOn ==
  ASSUME SessionsInv, NEW c \in Call, NEW k \in Locking \cup Storing,
         call' = [call EXCEPT ![c] = k], UNCHANGED <<session, holds, unheard, overtook>>,
         \/ /\ k.at = "lock" /\ signed' = signed /\ k.token = holds[k.device]
            /\ k.token # 0
         \/ /\ k.at = "store" /\ signed' = signed + 1 /\ k.token = signed + 1
            /\ \/ k.replaces = 0
               \/ At(c, "lock") /\ k.replaces = call[c].token /\ k.device = call[c].device
  PROVE  SessionsInv'
<1>. USE DEF SessionsInv
<1>1. signed' \in Nat /\ signed' >= signed /\ signed \in Nat
  BY DEF SessionShapes
<1>2. /\ DeviceStaysSignedIn' /\ holds' \in [Device -> 0 .. signed']
      /\ session' \in [DOMAIN session' -> 1 .. signed'] /\ DOMAIN session' \subseteq 1 .. signed'
  BY <1>1, SignedMore
<1>3. /\ call' \in [Call -> SessionCalls] /\ call'[c] = k
      /\ \A d \in Call \ {c} : call'[d] = call[d]
      /\ \A d \in Call \ {c} :
              /\ Given(d)' = Given(d) /\ (Signer(d)' <=> Signer(d))
              /\ (Writer(d)' <=> Writer(d)) /\ (At(d, "commit")' <=> At(d, "commit"))
  BY SessionCallTo DEF SessionCalls
<1>4. \A d \in Device : holds[d] \in 0 .. signed
  BY DEF SessionShapes
<1>5. \A d \in Call : call[d] # Idle => call[d].token \in 1 .. signed /\ Given(d) \in 0 .. signed
  BY SessionCallIs DEF SessionShapes, Given
<1>6. /\ k # Idle /\ k.device \in Device
      /\ k.at = "lock" => k.token \in 1 .. signed
      /\ k.at = "store" => k.replaces \in 0 .. signed
      /\ k.at \in {"lock", "store"}
  <2>1. k # Idle /\ k.device \in Device /\ k.at \in {"lock", "store"}
    BY DEF Locking, Storing, Idle
  <2>2. k.at = "lock" => k.token \in 1 .. signed
    BY <1>1, <1>4, <2>1
  <2>3. k.at = "store" => k.replaces \in 0 .. signed
    BY <1>1, <1>5, SessionCallIs
  <2>. QED  BY <2>1, <2>2, <2>3
<1>7. (Signer(c)' <=> k.at = "store") /\ ~Writer(c)' /\ ~At(c, "commit")'
  BY <1>3, <1>6 DEF Signer, Writer, At
<1>8. SessionShapes'
  <2>1. \A d \in Call : call'[d] # Idle => call'[d].token \in 1 .. signed'
    BY <1>1, <1>3, <1>5, <1>6
  <2>2. \A d \in Call : Signer(d)' => call'[d].replaces \in 0 .. signed'
    BY <1>1, <1>3, <1>6, <1>7 DEF SessionShapes
  <2>3. \A d \in Call : Writer(d)' => call'[d].row \in 1 .. signed'
    BY <1>1, <1>3, <1>7 DEF SessionShapes
  <2>. QED  BY <1>1, <1>2, <1>3, <2>1, <2>2, <2>3 DEF SessionShapes
<1>9. Given(c)' = IF k.at = "lock" THEN k.token ELSE k.replaces
  BY <1>3 DEF Given, At
<1>10. /\ Given(c)' \in 0 .. signed
       /\ \A d \in Device : Given(c)' # 0 /\ holds[d] = Given(c)' => d = k.device
       /\ \A d \in Call \ {c} : Signer(d) => Given(c)' # call[d].token
  <2>1. CASE k.at = "lock"
    BY <1>4, <1>6, <1>9, <2>1 DEF TokensApart
  <2>2. CASE k.at = "store" /\ k.replaces = 0
    BY <1>1, <1>5, <1>9, <2>2, SessionCallIs
  <2>3. CASE k.at = "store" /\ k.replaces # 0
    <3>1. /\ At(c, "lock") /\ k.replaces = call[c].token /\ k.device = call[c].device
          /\ Given(c) = k.replaces /\ call[c] # Idle
      BY <2>3, SessionCallIs DEF Given
    <3>. QED  BY <1>5, <1>9, <2>3, <3>1 DEF TokensApart
  <2>. QED  BY <1>6, <2>1, <2>2, <2>3
<1>11. TokensApart'
  <2>1. \A b, d \in Call : Signer(b)' /\ Signer(d)' /\ call'[b].token = call'[d].token => b = d
    BY <1>1, <1>3, <1>5, <1>6, <1>7, SessionCallIs DEF TokensApart
  <2>2. \A b \in Call, d \in Device : Signer(b)' => holds'[d] # call'[b].token
    BY <1>1, <1>3, <1>4, <1>7 DEF TokensApart
  <2>3. \A b, d \in Call : Signer(b)' /\ call'[d] # Idle => Given(d)' # call'[b].token
    <3>. SUFFICES ASSUME NEW b \in Call, NEW d \in Call, Signer(b)', call'[d] # Idle
                  PROVE  Given(d)' # call'[b].token
      OBVIOUS
    <3>1. CASE b = c
      BY <3>1, <1>1, <1>3, <1>5, <1>7, <1>10
    <3>2. CASE b # c
      BY <3>2, <1>3, <1>10 DEF TokensApart
    <3>. QED  BY <3>1, <3>2
  <2>4. \A b \in Call, d \in Device :
          call'[b] # Idle /\ Given(b)' # 0 /\ holds'[d] = Given(b)' => d = call'[b].device
    BY <1>3, <1>10 DEF TokensApart
  <2>. QED  BY <2>1, <2>2, <2>3, <2>4 DEF TokensApart
<1>12. RowsApart' /\ RowsLocked'
  <2>1. \A r \in DOMAIN session : session[r] \in 1 .. signed /\ r \in 1 .. signed
    BY DEF SessionShapes
  <2>2. \A d \in Call : Writer(d) => call[d].row \in 1 .. signed
    BY DEF SessionShapes
  <2>3. \A b \in Call, r \in DOMAIN session' :
          Signer(b)' => session'[r] # call'[b].token /\ r # call'[b].token
    BY <1>1, <1>3, <1>7, <2>1 DEF RowsApart
  <2>4. \A b, d \in Call : Writer(b)' /\ Signer(d)' /\ call'[b].row = call'[d].token => b = d
    BY <1>1, <1>3, <1>7, <2>2 DEF RowsApart
  <2>5. RowsLocked'
    BY <1>3, <1>7 DEF RowsLocked
  <2>. QED  BY <2>3, <2>4, <2>5 DEF RowsApart
<1>13. ListedIsOld'
  <2>. SUFFICES ASSUME NEW b \in Call, At(b, "commit")'
                PROVE  /\ call'[b].row \in call'[b].excess => signed' - call'[b].token >= MaxSessions
                       /\ \A r \in (call'[b].excess \cap DOMAIN session') \ {call'[b].row},
                             d \in Device \ (unheard' \cup overtook') :
                            holds'[d] = session'[r] => signed' - session'[r] >= MaxSessions
    BY DEF ListedIsOld
  <2>1. b # c /\ call'[b] = call[b] /\ At(b, "commit")
    BY <1>3, <1>7
  <2>2. \A r \in DOMAIN session : session[r] \in 1 .. signed
    BY DEF SessionShapes
  <2>3. MaxSessions \in Nat /\ call[b].token \in Nat
    BY <2>1, SessionCallIs, SessionsAssumption
  <2>. QED  BY <1>1, <2>1, <2>2, <2>3 DEF ListedIsOld
<1>. QED  BY <1>2, <1>8, <1>11, <1>12, <1>13

LEMMA EnterSteps ==
  ASSUME SessionsInv, NEW c \in Call, NEW d \in Device, SignIn(c, d) \/ RequestRefresh(c, d)
  PROVE  SessionsInv'
<1>1. CASE SignIn(c, d)
  <2>. DEFINE k == Sign([device |-> d, number |-> signed + 1], 0, FALSE)
  <2>1. /\ k \in Storing /\ k.at = "store" /\ k.token = signed + 1 /\ k.replaces = 0
    BY DEF Sign, Storing, SessionsInv, SessionShapes
  <2>2. call' = [call EXCEPT ![c] = k] /\ signed' = signed + 1
        /\ UNCHANGED <<session, holds, unheard, overtook>>
    BY <1>1 DEF SignIn, Enter
  <2>. QED  BY <2>1, <2>2, SessionGoesOn
<1>2. CASE RequestRefresh(c, d)
  <2>. DEFINE k == [at |-> "lock", device |-> d, token |-> holds[d]]
  <2>1. holds[d] \in 1 .. signed /\ signed \in Nat
    <3>1. PICK r \in DOMAIN session : holds[d] = session[r]
      BY <1>2 DEF RequestRefresh, Range
    <3>. QED  BY <3>1 DEF SessionsInv, SessionShapes
  <2>2. /\ k \in Locking /\ k.at = "lock" /\ k.token = holds[k.device] /\ k.token # 0
    BY <2>1 DEF Locking
  <2>3. call' = [call EXCEPT ![c] = k] /\ signed' = signed
        /\ UNCHANGED <<session, holds, unheard, overtook>>
    BY <1>2 DEF RequestRefresh, Enter
  <2>. QED  BY <2>2, <2>3, SessionGoesOn
<1>. QED  BY <1>1, <1>2

LEMMA LockSteps ==
  ASSUME SessionsInv, NEW c \in Call, LockToken(c)
  PROVE  SessionsInv'
<1>1. At(c, "lock") /\ call[c] \in Locking
  BY SessionCallIs DEF LockToken, SessionsInv
<1>2. \E k \in Storing :
        /\ call' = [call EXCEPT ![c] = k]
        /\ k.at = "store" /\ k.token = signed + 1
        /\ k.replaces = 0 \/ (k.replaces = call[c].token /\ k.device = call[c].device)
  <2>. DEFINE token == [device |-> call[c].device, number |-> signed + 1]
              one == Sign(token, call[c].token, TRUE)
              two == Sign(token, 0, FALSE)
  <2>1. one \in Storing /\ two \in Storing
    BY <1>1 DEF Sign, Locking, Storing, SessionsInv, SessionShapes
  <2>2. call' = [call EXCEPT ![c] = one] \/ call' = [call EXCEPT ![c] = two]
    BY DEF LockToken, Step
  <2>3. CASE call' = [call EXCEPT ![c] = one]
    BY <2>1, <2>3 DEF Sign
  <2>4. CASE call' = [call EXCEPT ![c] = two]
    BY <2>1, <2>4 DEF Sign
  <2>. QED  BY <2>2, <2>3, <2>4
<1>3. signed' = signed + 1 /\ UNCHANGED <<session, holds, unheard, overtook>>
  BY DEF LockToken
<1>. QED  BY <1>1, <1>2, <1>3, SessionGoesOn

(* A transaction goes on with the same token: only its row and its list are  *)
(* new, the ones that it has now.                                            *)
LEMMA SameToken ==
  ASSUME SessionsInv, NEW c \in Call, Signer(c), NEW k \in Listing \cup Committing,
         call' = [call EXCEPT ![c] = k],
         k.token = call[c].token, k.device = call[c].device, k.replaces = call[c].replaces,
         k.row \in 1 .. signed,
         \A d \in Call : Writer(d) /\ d # c => call[d].row # k.row,
         \A d \in Call : Signer(d) /\ d # c => call[d].token # k.row,
         k.row \in DOMAIN session => session[k.row] = k.replaces,
         k.at = "commit" =>
           /\ k.row \in k.excess => signed - k.token >= MaxSessions
           /\ \A r \in (k.excess \cap DOMAIN session) \ {k.row}, d \in Device \ (unheard \cup overtook) :
                holds[d] = session[r] => signed - session[r] >= MaxSessions,
         UNCHANGED <<session, signed, holds, unheard, overtook>>
  PROVE  SessionsInv'
<1>. USE DEF SessionsInv
<1>1. k \in SessionCalls /\ k # Idle /\ k.at \in {"list", "commit"}
  BY DEF SessionCalls, Listing, Committing, Idle
<1>2. /\ call' \in [Call -> SessionCalls] /\ call'[c] = k
      /\ \A d \in Call \ {c} : call'[d] = call[d]
      /\ \A d \in Call \ {c} :
              /\ Given(d)' = Given(d) /\ (Signer(d)' <=> Signer(d))
              /\ (Writer(d)' <=> Writer(d)) /\ (At(d, "commit")' <=> At(d, "commit"))
  BY <1>1, SessionCallTo
<1>3. /\ Signer(c)' /\ Writer(c)' /\ (At(c, "commit")' <=> k.at = "commit")
      /\ Given(c)' = Given(c) /\ call[c] # Idle
  BY <1>1, <1>2, SessionCallIs DEF Signer, Writer, At, Given
<1>4. \A d \in Call : Signer(d)' <=> Signer(d)
  BY <1>2, <1>3
<1>5. \A d \in Call : Given(d)' = Given(d) /\ (call'[d] # Idle <=> call[d] # Idle)
  BY <1>1, <1>2, <1>3
<1>6. \A d \in Call : call[d] # Idle => call'[d].token = call[d].token /\ call'[d].device = call[d].device
  BY <1>2
<1>7. \A d \in Call : Signer(d) => call'[d].replaces = call[d].replaces /\ call[d] # Idle
  BY <1>2, SessionCallIs
<1>8. SessionShapes'
  <2>1. \A d \in Call : Writer(d)' => call'[d].row \in 1 .. signed
    BY <1>2 DEF SessionShapes
  <2>. QED  BY <1>2, <1>4, <1>5, <1>6, <1>7, <2>1 DEF SessionShapes
<1>9. TokensApart'
  BY <1>4, <1>5, <1>6, <1>7 DEF TokensApart
<1>10. RowsApart'
  <2>1. \A b, d \in Call : Writer(b)' /\ Signer(d)' /\ call'[b].row = call'[d].token => b = d
    BY <1>2, <1>4, <1>6, <1>7 DEF RowsApart
  <2>. QED  BY <1>4, <1>6, <1>7, <2>1 DEF RowsApart
<1>11. RowsLocked'
  BY <1>2, <1>3 DEF RowsLocked
<1>12. ListedIsOld'
  BY <1>2, <1>3 DEF ListedIsOld
<1>13. DeviceStaysSignedIn'
  BY DEF DeviceStaysSignedIn, Range
<1>. QED  BY <1>8, <1>9, <1>10, <1>11, <1>12, <1>13

LEMMA StoreTokenSteps ==
  ASSUME SessionsInv, NEW c \in Call, StoreToken(c)
  PROVE  SessionsInv'
<1>. USE DEF SessionsInv
<1>1. /\ At(c, "store") /\ call[c] \in Storing /\ Signer(c) /\ call[c].token \in 1 .. signed
      /\ UNCHANGED <<session, signed, holds, unheard, overtook>> /\ ~Writer(c)
  <2>1. At(c, "store") /\ UNCHANGED <<session, signed, holds, unheard, overtook>>
    BY DEF StoreToken
  <2>. QED  BY <2>1, SessionCallIs DEF SessionShapes
<1>2. ASSUME NEW r \in 1 .. signed, Write(c, r),
             \A d \in Call : Writer(d) /\ d # c => call[d].row # r,
             \A d \in Call : Signer(d) /\ d # c => call[d].token # r,
             r \in DOMAIN session => session[r] = call[c].replaces
      PROVE  SessionsInv'
  <2>. DEFINE k == [at |-> "list", device |-> call[c].device, token |-> call[c].token,
                    replaces |-> call[c].replaces, lock |-> call[c].lock, row |-> r]
  <2>1. k \in Listing /\ call' = [call EXCEPT ![c] = k] /\ k.at # "commit"
    <3>1. r \in Nat /\ k.at = "list"
      BY <1>2
    <3>2. k \in Listing
      BY <1>1, <3>1 DEF Storing, Listing
    <3>3. call' = [call EXCEPT ![c] = k]
      BY <1>2 DEF Write, Step
    <3>. QED  BY <3>1, <3>2, <3>3
  <2>2. /\ k.row = r /\ k.token = call[c].token /\ k.device = call[c].device
        /\ k.replaces = call[c].replaces
    OBVIOUS
  <2>. HIDE DEF k
  <2>3. /\ k.row \in 1 .. signed /\ k \in Listing \cup Committing
        /\ \A d \in Call : Writer(d) /\ d # c => call[d].row # k.row
        /\ \A d \in Call : Signer(d) /\ d # c => call[d].token # k.row
        /\ k.row \in DOMAIN session => session[k.row] = k.replaces
    BY <1>2, <2>1, <2>2
  <2>. QED  BY <1>1, <2>1, <2>2, <2>3, SameToken
<1>3. CASE \E r \in DOMAIN session : session[r] = call[c].replaces /\ ~Written(r) /\ Write(c, r)
  <2>1. PICK r \in DOMAIN session : session[r] = call[c].replaces /\ ~Written(r) /\ Write(c, r)
    BY <1>3
  <2>2. r \in 1 .. signed
    BY DEF SessionShapes
  <2>3. \A d \in Call : Writer(d) => call[d].row # r
    BY <2>1 DEF Written, Writer
  <2>4. \A d \in Call : Signer(d) => call[d].token # r
    BY DEF RowsApart
  <2>. QED  BY <1>2, <2>1, <2>2, <2>3, <2>4
<1>4. CASE call[c].replaces \notin Range(session) /\ Write(c, call[c].token)
  <2>1. \A d \in Call : Writer(d) /\ d # c => call[d].row # call[c].token
    BY <1>1 DEF RowsApart
  <2>2. \A d \in Call : Signer(d) /\ d # c => call[d].token # call[c].token
    BY <1>1 DEF TokensApart
  <2>3. call[c].token \notin DOMAIN session
    BY <1>1 DEF RowsApart
  <2>. QED  BY <1>1, <1>2, <1>4, <2>1, <2>2, <2>3
<1>. QED  BY <1>3, <1>4 DEF StoreToken

(* A row that has so many newer ones was signed as many tokens ago as are    *)
(* kept, since no two rows hold one token.                                   *)
LEMMA ExcessIsOld ==
  ASSUME signed \in Nat, NEW rows, rows \in [DOMAIN rows -> 1 .. signed],
         \A r, s \in DOMAIN rows : rows[r] = rows[s] => r = s,
         NEW r \in Excess(rows)
  PROVE  signed - rows[r] >= MaxSessions
<1>. DEFINE t == rows[r]
            newer == {u \in DOMAIN rows : rows[u] > t}
            later == (t + 1) .. signed
            f == [u \in newer |-> rows[u]]
<1>1. r \in DOMAIN rows /\ t \in 1 .. signed /\ MaxSessions \in Nat /\ Cardinality(newer) >= MaxSessions
  BY SessionsAssumption DEF Excess
<1>2. \A u \in newer : rows[u] \in later
  <2>. SUFFICES ASSUME NEW u \in newer PROVE rows[u] \in later
    OBVIOUS
  <2>1. rows[u] \in 1 .. signed /\ rows[u] > t
    OBVIOUS
  <2>. QED  BY <1>1, <2>1
<1>3. f \in Injection(newer, later)
  <2>1. \A u, v \in newer : f[u] = f[v] => u = v
    OBVIOUS
  <2>2. f \in [newer -> later]
    BY <1>2
  <2>. QED  BY <2>1, <2>2 DEF Injection, IsInjective
<1>4. IsFiniteSet(later) /\ Cardinality(later) = signed - t
  <2>1. t \in Int /\ t <= signed
    BY <1>1
  <2>. HIDE DEF t
  <2>2. t + 1 \in Int /\ signed \in Int
    BY <2>1
  <2>3. IsFiniteSet(later) /\ Cardinality(later) = IF t + 1 > signed THEN 0 ELSE signed - (t + 1) + 1
    BY <2>2, FS_Interval
  <2>. QED  BY <2>1, <2>2, <2>3
<1>5. IsFiniteSet(newer) /\ Cardinality(newer) <= Cardinality(later)
  BY <1>3, <1>4, FS_Injection
<1>6. Cardinality(newer) \in Nat
  BY <1>5, FS_CardinalityType
<1>. HIDE DEF newer, later
<1>. QED  BY <1>1, <1>4, <1>5, <1>6

(* What a transaction sees is again a row for each token. *)
LEMMA SeenRows ==
  ASSUME SessionsInv, NEW c \in Call, Writer(c)
  PROVE  /\ DOMAIN Seen(c) = DOMAIN session \cup {call[c].row}
         /\ DOMAIN Seen(c) \subseteq 1 .. signed
         /\ Seen(c) \in [DOMAIN Seen(c) -> 1 .. signed]
         /\ \A r, s \in DOMAIN Seen(c) : Seen(c)[r] = Seen(c)[s] => r = s
         /\ Seen(c)[call[c].row] = call[c].token
         /\ \A r \in DOMAIN session \ {call[c].row} : Seen(c)[r] = session[r]
<1>. USE DEF SessionsInv
<1>1. Signer(c) /\ call[c] # Idle /\ call[c].token \in 1 .. signed /\ call[c].row \in 1 .. signed
  BY SessionCallIs DEF SessionShapes
<1>2. DOMAIN Seen(c) = DOMAIN session \cup {call[c].row}
  BY DEF Seen
<1>3. /\ Seen(c)[call[c].row] = call[c].token
      /\ \A r \in DOMAIN session \ {call[c].row} : Seen(c)[r] = session[r]
  BY DEF Seen
<1>4. \A r \in DOMAIN session : session[r] \in 1 .. signed /\ session[r] # call[c].token
  BY <1>1 DEF SessionShapes, RowsApart
<1>5. \A r \in DOMAIN session \cup {call[c].row} :
        (IF r = call[c].row THEN call[c].token ELSE session[r]) \in 1 .. signed
  BY <1>1, <1>4
<1>6. Seen(c) \in [DOMAIN Seen(c) -> 1 .. signed]
  BY <1>5 DEF Seen
<1>7. \A r, s \in DOMAIN Seen(c) : Seen(c)[r] = Seen(c)[s] => r = s
  BY <1>2, <1>3, <1>4 DEF RowsApart
<1>. QED  BY <1>1, <1>2, <1>3, <1>6, <1>7 DEF SessionShapes

LEMMA ListSteps ==
  ASSUME SessionsInv, NEW c \in Call, ListRows(c)
  PROVE  SessionsInv'
<1>. USE DEF SessionsInv
<1>. DEFINE k == [at |-> "commit", device |-> call[c].device, token |-> call[c].token,
                  replaces |-> call[c].replaces, lock |-> call[c].lock, row |-> call[c].row,
                  excess |-> Excess(Seen(c))]
<1>1. /\ At(c, "list") /\ call[c] \in Listing /\ Signer(c) /\ Writer(c)
      /\ call' = [call EXCEPT ![c] = k]
      /\ UNCHANGED <<session, signed, holds, unheard, overtook>>
  <2>1. /\ At(c, "list") /\ call' = [call EXCEPT ![c] = k]
        /\ UNCHANGED <<session, signed, holds, unheard, overtook>>
    BY DEF ListRows, Step
  <2>. QED  BY <2>1, SessionCallIs
<1>2. /\ DOMAIN Seen(c) = DOMAIN session \cup {call[c].row}
      /\ DOMAIN Seen(c) \subseteq 1 .. signed
      /\ Seen(c)[call[c].row] = call[c].token
      /\ \A r \in DOMAIN session \ {call[c].row} : Seen(c)[r] = session[r]
  BY <1>1, SeenRows
<1>3. \A r \in Excess(Seen(c)) : signed - Seen(c)[r] >= MaxSessions
  BY <1>1, SeenRows, ExcessIsOld DEF SessionShapes
<1>4. Excess(Seen(c)) \subseteq Nat
  BY <1>2 DEF Excess
<1>5. k \in Committing
  BY <1>1, <1>4 DEF Listing, Committing
<1>6. call[c].row \in 1 .. signed
  BY <1>1 DEF SessionShapes
<1>7. /\ \A d \in Call : Writer(d) /\ d # c => call[d].row # call[c].row
      /\ call[c].row \in DOMAIN session => session[call[c].row] = call[c].replaces
  BY <1>1 DEF RowsLocked
<1>8. \A d \in Call : Signer(d) /\ d # c => call[d].token # call[c].row
  BY <1>1 DEF RowsApart
<1>9. /\ k.row \in k.excess => signed - k.token >= MaxSessions
      /\ \A r \in (k.excess \cap DOMAIN session) \ {k.row} : signed - session[r] >= MaxSessions
  BY <1>2, <1>3
<1>10. /\ k.row = call[c].row /\ k.token = call[c].token /\ k.device = call[c].device
       /\ k.replaces = call[c].replaces /\ k.at = "commit"
  OBVIOUS
<1>. HIDE DEF k
<1>11. k.at = "commit" =>
         /\ k.row \in k.excess => signed - k.token >= MaxSessions
         /\ \A r \in (k.excess \cap DOMAIN session) \ {k.row}, d \in Device \ (unheard \cup overtook) :
              holds[d] = session[r] => signed - session[r] >= MaxSessions
  BY <1>9
<1>12. /\ k \in Listing \cup Committing /\ k.row \in 1 .. signed
       /\ \A d \in Call : Writer(d) /\ d # c => call[d].row # k.row
       /\ \A d \in Call : Signer(d) /\ d # c => call[d].token # k.row
       /\ k.row \in DOMAIN session => session[k.row] = k.replaces
  BY <1>5, <1>6, <1>7, <1>8, <1>10
<1>. QED  BY <1>1, <1>10, <1>11, <1>12, SameToken

(* A request ends, and what a device holds becomes its own token, or nothing. *)
LEMMA TokensStay ==
  ASSUME SessionsInv, NEW c \in Call, Return(c), signed' = signed,
         \/ holds' = holds
         \/ Signer(c) /\ holds' = [holds EXCEPT ![call[c].device] = call[c].token]
  PROVE  /\ call' \in [Call -> SessionCalls] /\ holds' \in [Device -> 0 .. signed']
         /\ TokensApart'
<1>. USE DEF SessionsInv
<1>1. /\ call' \in [Call -> SessionCalls] /\ call'[c] = Idle
      /\ \A d \in Call \ {c} : call'[d] = call[d]
      /\ \A d \in Call \ {c} : Given(d)' = Given(d) /\ (Signer(d)' <=> Signer(d))
  BY SessionCallTo DEF Return, SessionCalls
<1>2. \A d \in Call : call[d] # Idle => call[d].token \in 1 .. signed
  BY DEF SessionShapes
<1>3. ~Signer(c)'
  BY <1>1 DEF Signer, Idle
<1>4. CASE holds' = holds
  BY <1>1, <1>3, <1>4 DEF TokensApart, SessionShapes
<1>5. CASE Signer(c) /\ holds' = [holds EXCEPT ![call[c].device] = call[c].token]
  <2>. DEFINE own == call[c].device
              token == call[c].token
  <2>1. own \in Device /\ token \in 1 .. signed /\ call[c] # Idle
    BY <1>2, <1>5, SessionCallIs
  <2>2. holds'[own] = token /\ \A d \in Device \ {own} : holds'[d] = holds[d]
    BY <1>5, <2>1 DEF SessionShapes
  <2>3. holds' \in [Device -> 0 .. signed]
    BY <1>5, <2>1 DEF SessionShapes
  <2>4. \A b \in Call \ {c} : Signer(b) => call[b].token # token
    BY <1>5 DEF TokensApart
  <2>5. \A d \in Device : holds[d] # token
    BY <1>5 DEF TokensApart
  <2>6. \A b \in Call : call[b] # Idle => Given(b) # token
    BY <1>5 DEF TokensApart
  <2>7. \A b \in Call, d \in Device : Signer(b)' => holds'[d] # call'[b].token
    BY <1>1, <1>3, <2>2, <2>4 DEF TokensApart
  <2>8. \A d, e \in Device : holds'[d] = holds'[e] /\ holds'[d] # 0 => d = e
    BY <2>2, <2>5 DEF TokensApart
  <2>9. \A b \in Call, d \in Device :
           call'[b] # Idle /\ Given(b)' # 0 /\ holds'[d] = Given(b)' => d = call'[b].device
    BY <1>1, <2>2, <2>6 DEF TokensApart
  <2>10. /\ \A b, d \in Call : Signer(b)' /\ Signer(d)' /\ call'[b].token = call'[d].token => b = d
         /\ \A b, d \in Call : Signer(b)' /\ call'[d] # Idle => Given(d)' # call'[b].token
    BY <1>1, <1>3 DEF TokensApart
  <2>. QED  BY <1>1, <2>3, <2>7, <2>8, <2>9, <2>10 DEF TokensApart
<1>. QED  BY <1>4, <1>5

(* The rows that a transaction leaves are those that it sees, less its list. *)
LEMMA CommitSteps ==
  ASSUME SessionsInv, NEW c \in Call, CommitTokens(c)
  PROVE  SessionsInv'
<1>. USE DEF SessionsInv
<1>. DEFINE k == call[c]
<1>1. /\ At(c, "commit") /\ Return(c) /\ signed' = signed /\ signed \in Nat
      /\ (Answered(c) \/ Unanswered(c)) /\ k \in Committing /\ Signer(c) /\ Writer(c)
      /\ session' = Restrict(Seen(c), DOMAIN Seen(c) \ k.excess)
  <2>1. At(c, "commit")
    BY DEF CommitTokens
  <2>. QED  BY <2>1, SessionCallIs DEF CommitTokens, SessionShapes
<1>2. /\ k # Idle /\ k.device \in Device /\ k.token \in 1 .. signed /\ Given(c) = k.replaces
  BY <1>1, SessionCallIs DEF SessionShapes, Given, At
<1>3. /\ DOMAIN Seen(c) = DOMAIN session \cup {k.row} /\ DOMAIN Seen(c) \subseteq 1 .. signed
      /\ Seen(c) \in [DOMAIN Seen(c) -> 1 .. signed]
      /\ \A r, s \in DOMAIN Seen(c) : Seen(c)[r] = Seen(c)[s] => r = s
      /\ Seen(c)[k.row] = k.token /\ \A r \in DOMAIN session \ {k.row} : Seen(c)[r] = session[r]
  BY <1>1, SeenRows
<1>4. /\ DOMAIN session' = DOMAIN Seen(c) \ k.excess
      /\ \A r \in DOMAIN session' : session'[r] = Seen(c)[r]
  BY <1>1 DEF Restrict
<1>5. /\ session' \in [DOMAIN session' -> 1 .. signed] /\ DOMAIN session' \subseteq 1 .. signed
  BY <1>1, <1>3, <1>4 DEF Restrict
<1>6. \/ /\ Answered(c) /\ holds' = [holds EXCEPT ![k.device] = k.token]
      \/ Unanswered(c) /\ holds' = holds
  BY <1>1 DEF Answered, Unanswered
<1>7. /\ call' \in [Call -> SessionCalls] /\ holds' \in [Device -> 0 .. signed'] /\ TokensApart'
  BY <1>1, <1>6, TokensStay
<1>8. /\ call'[c] = Idle
      /\ \A d \in Call \ {c} : call'[d] = call[d]
      /\ \A d \in Call \ {c} :
              /\ Given(d)' = Given(d) /\ (Signer(d)' <=> Signer(d))
              /\ (Writer(d)' <=> Writer(d)) /\ (At(d, "commit")' <=> At(d, "commit"))
  BY <1>1, SessionCallTo DEF Return, SessionCalls
<1>9. ~Signer(c)' /\ ~Writer(c)' /\ ~At(c, "commit")'
  BY <1>8 DEF Signer, Writer, At, Idle
<1>10. SessionShapes'
  BY <1>1, <1>5, <1>7, <1>8, <1>9 DEF SessionShapes
<1>11. RowsApart'
  <2>1. \A r, s \in DOMAIN session' : session'[r] = session'[s] => r = s
    BY <1>3, <1>4
  <2>2. ASSUME NEW b \in Call, NEW r \in DOMAIN session', Signer(b)'
        PROVE  session'[r] # call'[b].token /\ r # call'[b].token
    <3>1. b # c /\ Signer(b) /\ call'[b] = call[b]
      BY <1>8, <1>9, <2>2
    <3>2. CASE r = k.row
      <4>1. session'[r] = k.token /\ call[b].token # k.token
        BY <1>1, <1>3, <1>4, <3>1, <3>2 DEF TokensApart
      <4>2. k.row # call[b].token
        BY <1>1, <3>1 DEF RowsApart
      <4>. QED  BY <3>1, <3>2, <4>1, <4>2
    <3>3. CASE r # k.row
      BY <1>3, <1>4, <3>1, <3>3 DEF RowsApart
    <3>. QED  BY <3>2, <3>3
  <2>3. \A b, d \in Call : Writer(b)' /\ Signer(d)' /\ call'[b].row = call'[d].token => b = d
    BY <1>8, <1>9 DEF RowsApart
  <2>. QED  BY <2>1, <2>2, <2>3 DEF RowsApart
<1>12. RowsLocked'
  <2>1. ASSUME NEW b \in Call, Writer(b)', call'[b].row \in DOMAIN session'
        PROVE  session'[call'[b].row] = call'[b].replaces
    <3>1. b # c /\ Writer(b) /\ call'[b] = call[b]
      BY <1>8, <1>9, <2>1
    <3>2. call[b].row # k.row
      BY <1>1, <3>1 DEF RowsLocked
    <3>. QED  BY <1>3, <1>4, <2>1, <3>1, <3>2 DEF RowsLocked
  <2>. QED  BY <1>8, <1>9, <2>1 DEF RowsLocked
<1>13. /\ \A d \in Device \ {k.device} : holds'[d] = holds[d] /\ (d \in unheard' <=> d \in unheard)
                                         /\ (d \in overtook' <=> d \in overtook)
       /\ \/ holds'[k.device] = k.token /\ (Listed(k.row, c) => k.device \in overtook')
          \/ k.device \in unheard'
  BY <1>1, <1>2, <1>6 DEF Answered, Unanswered, SessionShapes
<1>14. ListedIsOld'
  <2>. SUFFICES ASSUME NEW b \in Call, At(b, "commit")'
                PROVE  /\ call'[b].row \in call'[b].excess => signed' - call'[b].token >= MaxSessions
                       /\ \A r \in (call'[b].excess \cap DOMAIN session') \ {call'[b].row},
                             d \in Device \ (unheard' \cup overtook') :
                            holds'[d] = session'[r] => signed' - session'[r] >= MaxSessions
    BY DEF ListedIsOld
  <2>1. b # c /\ call'[b] = call[b] /\ At(b, "commit")
    BY <1>8, <1>9
  <2>2. ASSUME NEW r \in (call[b].excess \cap DOMAIN session') \ {call[b].row},
               NEW d \in Device \ (unheard' \cup overtook'), holds'[d] = session'[r]
        PROVE  signed - session'[r] >= MaxSessions
    <3>1. CASE r = k.row
      <4>1. session'[r] = k.token /\ Listed(k.row, c)
        BY <1>3, <1>4, <2>1, <2>2, <3>1 DEF Listed
      <4>2. d # k.device
        BY <1>13, <2>2, <4>1
      <4>. QED  BY <1>1, <1>13, <2>2, <4>1, <4>2 DEF TokensApart
    <3>2. CASE r # k.row
      <4>1. r \in DOMAIN session /\ session'[r] = session[r] /\ session[r] # k.token
        BY <1>1, <1>3, <1>4, <2>2, <3>2 DEF RowsApart
      <4>2. d # k.device
        BY <1>13, <2>2, <4>1
      <4>. QED  BY <1>13, <2>1, <2>2, <4>1, <4>2 DEF ListedIsOld
    <3>. QED  BY <3>1, <3>2
  <2>. QED  BY <1>1, <2>1, <2>2 DEF ListedIsOld
<1>15. ASSUME NEW d \in Device \ (unheard' \cup overtook'), holds'[d] \notin Range(session') \cup {0}
       PROVE  signed - holds'[d] >= MaxSessions
  <2>1. \A r \in DOMAIN session' : holds'[d] # session'[r]
    BY <1>15 DEF Range
  <2>2. CASE d = k.device
    <3>1. holds'[d] = k.token
      BY <1>13, <1>15, <2>2
    <3>2. k.row \in k.excess
      BY <1>3, <1>4, <2>1, <3>1
    <3>. QED  BY <1>1, <3>1, <3>2 DEF ListedIsOld
  <2>3. CASE d # k.device
    <3>1. holds'[d] = holds[d] /\ d \notin unheard \cup overtook /\ holds[d] # 0
      BY <1>13, <1>15, <2>3
    <3>2. CASE holds[d] \notin Range(session)
      BY <3>1, <3>2 DEF DeviceStaysSignedIn
    <3>3. CASE holds[d] \in Range(session)
      <4>1. PICK r \in DOMAIN session : holds[d] = session[r]
        BY <3>3 DEF Range
      <4>2. r # k.row
        BY <1>1, <1>2, <2>3, <3>1, <4>1 DEF RowsLocked, TokensApart
      <4>3. r \in k.excess
        BY <1>3, <1>4, <2>1, <3>1, <4>1, <4>2
      <4>. QED  BY <1>1, <3>1, <4>1, <4>2, <4>3 DEF ListedIsOld
    <3>. QED  BY <3>2, <3>3
  <2>. QED  BY <2>2, <2>3
<1>16. DeviceStaysSignedIn'
  BY <1>1, <1>15 DEF DeviceStaysSignedIn
<1>. QED  BY <1>7, <1>10, <1>11, <1>12, <1>14, <1>16

(* Some rows are removed, and with them the tokens of the devices that held  *)
(* them; no transaction has written one of these.                            *)
LEMMA RowsRemoved ==
  ASSUME SessionsInv, NEW kept \in SUBSET DOMAIN session,
         session' = Restrict(session, kept), UNCHANGED <<signed, unheard, overtook, call>>,
         \A d \in Device : holds'[d] = 0 \/ (holds'[d] = holds[d]
                             /\ \A r \in DOMAIN session \ kept : session[r] # holds[d]),
         holds' \in [Device -> 0 .. signed]
  PROVE  SessionsInv'
<1>. USE DEF SessionsInv
<1>1. DOMAIN session' = kept /\ \A r \in kept : session'[r] = session[r]
  BY DEF Restrict
<1>2. session' \in [kept -> 1 .. signed]
  BY DEF Restrict, SessionShapes
<1>3. \A c \in Call : (Signer(c)' <=> Signer(c)) /\ (Writer(c)' <=> Writer(c))
                      /\ Given(c)' = Given(c) /\ (At(c, "commit")' <=> At(c, "commit"))
  BY DEF Signer, Writer, Given, At
<1>4. SessionShapes'
  BY <1>1, <1>2, <1>3 DEF SessionShapes
<1>5. \A c \in Call : Signer(c) => call[c].token # 0
  BY SessionCallIs DEF SessionShapes
<1>6. TokensApart'
  BY <1>3, <1>5 DEF TokensApart
<1>7. RowsApart' /\ RowsLocked'
  BY <1>1, <1>3 DEF RowsApart, RowsLocked
<1>8. \A r \in DOMAIN session : session[r] \in 1 .. signed
  BY DEF SessionShapes
<1>9. ListedIsOld'
  BY <1>1, <1>3, <1>8 DEF ListedIsOld
<1>10. ASSUME NEW d \in Device \ (unheard' \cup overtook'), holds'[d] \notin Range(session') \cup {0}
       PROVE  signed' - holds'[d] >= MaxSessions
  <2>1. holds'[d] = holds[d] /\ \A r \in DOMAIN session \ kept : session[r] # holds[d]
    BY <1>10
  <2>2. holds[d] \notin Range(session)
    BY <1>1, <1>10, <2>1 DEF Range
  <2>. QED  BY <1>10, <2>1, <2>2 DEF DeviceStaysSignedIn
<1>. QED  BY <1>4, <1>6, <1>7, <1>9, <1>10 DEF DeviceStaysSignedIn

LEMMA LogoutSteps ==
  ASSUME SessionsInv, NEW d \in Device, Logout(d)
  PROVE  SessionsInv'
<1>. DEFINE kept == {r \in DOMAIN session : session[r] # holds[d]}
<1>1. /\ session' = Restrict(session, kept) /\ UNCHANGED <<signed, unheard, overtook, call>>
      /\ holds' = [holds EXCEPT ![d] = 0] /\ holds[d] # 0
  BY DEF Logout
<1>2. /\ holds' \in [Device -> 0 .. signed] /\ holds'[d] = 0
      /\ \A e \in Device \ {d} : holds'[e] = holds[e]
  BY <1>1 DEF SessionsInv, SessionShapes
<1>3. \A e \in Device \ {d}, r \in DOMAIN session \ kept : session[r] # holds[e]
  BY <1>1 DEF SessionsInv, TokensApart
<1>. QED  BY <1>1, <1>2, <1>3, RowsRemoved

LEMMA PasswordSteps ==
  ASSUME SessionsInv, ChangePassword
  PROVE  SessionsInv'
<1>1. /\ session' = Restrict(session, {}) /\ UNCHANGED <<signed, unheard, overtook, call>>
      /\ holds' \in [Device -> 0 .. signed] /\ \A d \in Device : holds'[d] = 0
  BY DEF ChangePassword, Restrict, SessionsInv, SessionShapes
<1>. QED  BY <1>1, RowsRemoved

LEMMA DieSteps ==
  ASSUME SessionsInv, NEW c \in Call, DieIssuing(c)
  PROVE  SessionsInv'
<1>. USE DEF SessionsInv
<1>1. Return(c) /\ UNCHANGED <<session, signed, holds, unheard, overtook>>
  BY DEF DieIssuing
<1>2. call' \in [Call -> SessionCalls] /\ TokensApart'
  BY <1>1, TokensStay
<1>3. /\ call'[c] = Idle
      /\ \A d \in Call \ {c} : call'[d] = call[d]
      /\ \A d \in Call \ {c} :
              /\ Given(d)' = Given(d) /\ (Signer(d)' <=> Signer(d))
              /\ (Writer(d)' <=> Writer(d)) /\ (At(d, "commit")' <=> At(d, "commit"))
  BY <1>1, SessionCallTo DEF Return, SessionCalls
<1>4. ~Signer(c)' /\ ~Writer(c)' /\ ~At(c, "commit")'
  BY <1>3 DEF Signer, Writer, At, Idle
<1>5. SessionShapes'
  BY <1>1, <1>2, <1>3, <1>4 DEF SessionShapes
<1>6. RowsApart' /\ RowsLocked' /\ ListedIsOld'
  BY <1>1, <1>3, <1>4 DEF RowsApart, RowsLocked, ListedIsOld
<1>7. DeviceStaysSignedIn'
  BY <1>1 DEF DeviceStaysSignedIn, Range
<1>. QED  BY <1>2, <1>5, <1>6, <1>7

LEMMA SessionsInvStep == SessionsInv /\ [SessionsNext]_sessionsVars => SessionsInv'
<1>. SUFFICES ASSUME SessionsInv, [SessionsNext]_sessionsVars PROVE SessionsInv'
  OBVIOUS
<1>1. ASSUME UNCHANGED <<session, signed, holds, unheard, overtook, call>>
      PROVE  SessionsInv'
  <2>1. \A c \in Call : (Signer(c)' <=> Signer(c)) /\ (Writer(c)' <=> Writer(c))
                        /\ Given(c)' = Given(c) /\ (At(c, "commit")' <=> At(c, "commit"))
    BY <1>1 DEF Signer, Writer, Given, At
  <2>2. SessionShapes' /\ TokensApart'
    BY <1>1, <2>1 DEF SessionsInv, SessionShapes, TokensApart
  <2>3. RowsApart' /\ RowsLocked' /\ ListedIsOld' /\ DeviceStaysSignedIn'
    BY <1>1, <2>1 DEF SessionsInv, RowsApart, RowsLocked, ListedIsOld, DeviceStaysSignedIn, Range
  <2>. QED  BY <2>2, <2>3 DEF SessionsInv
<1>2. ASSUME NEW t \in locked, LockEnds(t)
      PROVE  SessionsInv'
  BY <1>1, <1>2 DEF LockEnds
<1>3. CASE UNCHANGED sessionsVars
  BY <1>1, <1>3 DEF sessionsVars
<1>. QED  BY <1>2, <1>3, EnterSteps, LockSteps, StoreTokenSteps, ListSteps, CommitSteps, LogoutSteps,
             PasswordSteps, DieSteps DEF SessionsNext

(* A device stays signed in, although refreshes with one token run at once,  *)
(* with the lock and without it, and transactions remove by lists that are   *)
(* old, for any number of devices and any limit: unless its own refresh went *)
(* into a row that another transaction had listed.                           *)
THEOREM DeviceStaysSignedInAlways == SessionsSpec => []DeviceStaysSignedIn
<1>1. SessionsInv => DeviceStaysSignedIn
  BY DEF SessionsInv
<1>. QED  BY <1>1, SessionsInvInit, SessionsInvStep, PTL DEF SessionsSpec
=============================================================================
