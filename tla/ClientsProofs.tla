---------------------------- MODULE ClientsProofs -----------------------------
(***************************************************************************)
(* Proofs about what the business has to do with its clients besides       *)
(* bookings: Campaigns, Waitlist, Imports and FollowUps, for all finite    *)
(* sets of campaigns, entries, rows, prompts and requests.                 *)
(***************************************************************************)
EXTENDS Campaigns, Waitlist, Imports, FollowUps, FiniteSetTheorems, TLAPS

-----------------------------------------------------------------------------
(***************************************************************************)
(* Campaigns. The messages of a campaign are queued by the one request     *)
(* that found it a DRAFT; and while no two sends overlap, a request that is*)
(* about to mark its campaign has counted less than the limit, which is    *)
(* still so when midnight has passed since.                                *)
(***************************************************************************)

CampaignRow == [status : {"NONE", "DRAFT", "SENDING", "SENT", "REMOVED"}, sent : Nat]

Counting == [at : {"count"}, campaign : Campaign, from : Nat]
Sending == [at : {"mark", "queue", "finish"}, campaign : Campaign]

Gone == {"SENDING", "SENT", "REMOVED"}
Out(k) == campaign[k].status \in Gone

(* Types; what is sent was sent by now; a request past its mark has marked. *)
Shapes ==
    /\ campaign \in [Campaign -> CampaignRow]
    /\ day \in Nat \ {0}
    /\ queued \in [Campaign -> Nat]
    /\ inTurn \in BOOLEAN
    /\ call \in [Call -> {Idle} \cup Counting \cup Sending]
    /\ \A k \in Campaign : campaign[k].sent <= day
    /\ went \in [Campaign -> Nat]
    /\ \A k \in Campaign : went[k] <= day
    /\ \A c \in Call : At(c, "count") => call[c].from <= day
    /\ \A c \in Call : At(c, "queue") \/ At(c, "finish") => Out(call[c].campaign)

LEMMA CountingCall ==
  ASSUME Shapes, NEW c \in Call, At(c, "count")
  PROVE  call[c] \in Counting
  BY DEF Shapes, At, Idle, Sending

LEMMA SendingCall ==
  ASSUME Shapes, NEW c \in Call, At(c, "mark") \/ At(c, "queue") \/ At(c, "finish")
  PROVE  call[c] \in Sending
  BY DEF Shapes, At, Idle, Counting

(* One call changes to k. *)
LEMMA CallTo ==
  ASSUME Shapes, NEW c \in Call, NEW k \in {Idle} \cup Counting \cup Sending,
         call' = [call EXCEPT ![c] = k]
  PROVE  /\ call' \in [Call -> {Idle} \cup Counting \cup Sending]
         /\ call'[c] = k
         /\ \A d \in Call \ {c} : call'[d] = call[d]
  BY DEF Shapes

Becomes(k, row) == campaign' = [campaign EXCEPT ![k] = row]

(* What the rows of campaigns may change to. *)
RowsStep ==
    \/ campaign' = campaign
    \/ \E k \in Campaign :
         \/ campaign[k].status = "NONE"
            /\ Becomes(k, [status |-> "DRAFT", sent |-> campaign[k].sent])
         \/ campaign[k].status # "NONE" /\ Becomes(k, [status |-> "REMOVED", sent |-> 0])
         \/ Out(k) /\ campaign[k].status # "REMOVED"
            /\ Becomes(k, [status |-> "SENT", sent |-> campaign[k].sent])

Marks(c) == At(c, "mark") /\ campaign[call[c].campaign].status = "DRAFT" /\ MarkSending(c)

LEMMA StatusOnly ==
  ASSUME Shapes, NEW k \in Campaign, NEW status,
         campaign' = [campaign EXCEPT ![k].status = status]
  PROVE  Becomes(k, [status |-> status, sent |-> campaign[k].sent])
<1>1. campaign[k] \in CampaignRow
  BY DEF Shapes
<1>2. [campaign[k] EXCEPT !.status = status] = [status |-> status, sent |-> campaign[k].sent]
  BY <1>1 DEF CampaignRow
<1>. QED  BY <1>2 DEF Shapes, Becomes

(* Nothing but a mark puts a campaign out. *)
LEMMA RowsChange ==
  ASSUME Shapes, [CampaignsNext]_campaignsVars
  PROVE  \/ RowsStep
         \/ \E c \in Call : Marks(c)
<1>1. ASSUME NEW c \in Call, NEW k \in Campaign, CreateCampaign(c, k)
      PROVE  RowsStep
  BY <1>1, StatusOnly DEF CreateCampaign, RowsStep
<1>2. ASSUME NEW c \in Call, NEW k \in Campaign, RemoveCampaign(c, k)
      PROVE  RowsStep
  BY <1>2 DEF RemoveCampaign, RowsStep, Becomes
<1>3. ASSUME NEW c \in Call, MarkSending(c)
      PROVE  RowsStep \/ Marks(c)
  BY <1>3 DEF MarkSending, Marks, RowsStep
<1>4. ASSUME NEW c \in Call, MarkSent(c)
      PROVE  RowsStep
  <2>. DEFINE k == call[c].campaign
  <2>1. k \in Campaign /\ Out(k)
    BY <1>4, SendingCall DEF MarkSent, Sending, Shapes
  <2>2. CASE campaign[k].status = "REMOVED"
    BY <1>4, <2>2 DEF MarkSent, RowsStep
  <2>3. CASE campaign[k].status # "REMOVED"
    <3>1. campaign' = [campaign EXCEPT ![k].status = "SENT"]
      BY <1>4, <2>3 DEF MarkSent
    <3>. QED  BY <2>1, <2>3, <3>1, StatusOnly DEF RowsStep
  <2>. QED  BY <2>2, <2>3
<1>5. ASSUME NEW c \in Call, NEW k \in Campaign, RequestSend(c, k)
      PROVE  RowsStep
  BY <1>5 DEF RequestSend, RowsStep
<1>6. ASSUME NEW c \in Call, CountToday(c) \/ QueueMessages(c) \/ DieSending(c)
      PROVE  RowsStep
  BY <1>6 DEF CountToday, QueueMessages, DieSending, RowsStep
<1>7. CASE Midnight \/ UNCHANGED campaignsVars
  BY <1>7 DEF Midnight, campaignsVars, RowsStep
<1>. QED  BY <1>1, <1>2, <1>3, <1>4, <1>5, <1>6, <1>7 DEF CampaignsNext

-----------------------------------------------------------------------------
LEMMA ShapesInit == CampaignsInit => Shapes
  BY DEF CampaignsInit, HandlersInit, Shapes, CampaignRow, At, Idle

(* What is in flight changes in one of these ways. *)
CallsStep ==
    \/ call' = call
    \/ \E c \in Call : call' = [call EXCEPT ![c] = Idle]
    \/ \E c \in Call, k \in Campaign :
         /\ call[c] = Idle
         /\ call' = [call EXCEPT ![c] = [at |-> "count", campaign |-> k, from |-> day]]
    \/ \E c \in Call :
         /\ At(c, "count")
         /\ call' = [call EXCEPT ![c] = [at |-> "mark", campaign |-> call[c].campaign]]
    \/ \E c \in Call :
         /\ Marks(c)
         /\ call' = [call EXCEPT ![c] = [at |-> "queue", campaign |-> call[c].campaign]]
    \/ \E c \in Call :
         /\ At(c, "queue")
         /\ call' = [call EXCEPT ![c] = [at |-> "finish", campaign |-> call[c].campaign]]

LEMMA Onwards ==
  ASSUME Shapes, NEW c \in Call, call[c] \in Sending, NEW where
  PROVE  [call[c] EXCEPT !.at = where] = [at |-> where, campaign |-> call[c].campaign]
  BY DEF Sending

LEMMA CallsChange ==
  ASSUME Shapes, [CampaignsNext]_campaignsVars
  PROVE  CallsStep
<1>1. ASSUME NEW c \in Call, NEW k \in Campaign,
             CreateCampaign(c, k) \/ RemoveCampaign(c, k)
      PROVE  CallsStep
  BY <1>1 DEF CreateCampaign, RemoveCampaign, CallsStep
<1>2. ASSUME NEW c \in Call, NEW k \in Campaign, RequestSend(c, k)
      PROVE  CallsStep
  BY <1>2 DEF RequestSend, Enter, CallsStep
<1>3. ASSUME NEW c \in Call, CountToday(c)
      PROVE  CallsStep
  BY <1>3 DEF CountToday, Step, Return, CallsStep
<1>4. ASSUME NEW c \in Call, MarkSending(c)
      PROVE  CallsStep
  <2>1. call[c] \in Sending
    BY <1>4, SendingCall DEF MarkSending
  <2>2. CASE campaign[call[c].campaign].status = "DRAFT"
    BY <1>4, <2>1, <2>2, Onwards DEF MarkSending, Marks, Step, CallsStep
  <2>3. CASE campaign[call[c].campaign].status # "DRAFT"
    BY <1>4, <2>3 DEF MarkSending, Return, CallsStep
  <2>. QED  BY <2>2, <2>3
<1>5. ASSUME NEW c \in Call, QueueMessages(c)
      PROVE  CallsStep
  <2>1. call[c] \in Sending
    BY <1>5, SendingCall DEF QueueMessages
  <2>. QED  BY <1>5, <2>1, Onwards DEF QueueMessages, Step, Return, CallsStep
<1>6. ASSUME NEW c \in Call, MarkSent(c) \/ DieSending(c)
      PROVE  CallsStep
  BY <1>6 DEF MarkSent, DieSending, Return, CallsStep
<1>7. CASE Midnight \/ UNCHANGED campaignsVars
  BY <1>7 DEF Midnight, campaignsVars, CallsStep
<1>. QED  BY <1>1, <1>2, <1>3, <1>4, <1>5, <1>6, <1>7 DEF CampaignsNext

(* Only a request at "queue" puts messages in the queue. *)
LEMMA QueueChange ==
  ASSUME Shapes, [CampaignsNext]_campaignsVars
  PROVE  \/ queued' = queued
         \/ \E c \in Call :
              /\ At(c, "queue")
              /\ campaign' = campaign
              /\ call' = [call EXCEPT ![c] = [at |-> "finish", campaign |-> call[c].campaign]]
              /\ queued' = [queued EXCEPT ![call[c].campaign] = @ + 1]
<1>1. ASSUME NEW c \in Call, QueueMessages(c), queued' # queued
      PROVE  /\ At(c, "queue")
             /\ campaign' = campaign
             /\ call' = [call EXCEPT ![c] = [at |-> "finish", campaign |-> call[c].campaign]]
             /\ queued' = [queued EXCEPT ![call[c].campaign] = @ + 1]
  <2>1. call[c] \in Sending
    BY <1>1, SendingCall DEF QueueMessages
  <2>. QED  BY <1>1, <2>1, Onwards DEF QueueMessages, Step, Return
<1>2. ASSUME NEW c \in Call, NEW k \in Campaign,
             CreateCampaign(c, k) \/ RemoveCampaign(c, k) \/ RequestSend(c, k)
      PROVE  queued' = queued
  BY <1>2 DEF CreateCampaign, RemoveCampaign, RequestSend
<1>3. ASSUME NEW c \in Call, CountToday(c) \/ MarkSending(c) \/ MarkSent(c) \/ DieSending(c)
      PROVE  queued' = queued
  BY <1>3 DEF CountToday, MarkSending, MarkSent, DieSending
<1>4. CASE Midnight \/ UNCHANGED campaignsVars
  BY <1>4 DEF Midnight, campaignsVars
<1>. QED  BY <1>1, <1>2, <1>3, <1>4 DEF CampaignsNext

LEMMA DayChange ==
  ASSUME Shapes, [CampaignsNext]_campaignsVars
  PROVE  \/ day' = day
         \/ day' = day + 1 /\ campaign' = campaign /\ call' = call /\ inTurn' = inTurn
<1>1. ASSUME NEW c \in Call, NEW k \in Campaign,
             CreateCampaign(c, k) \/ RemoveCampaign(c, k) \/ RequestSend(c, k)
      PROVE  day' = day
  BY <1>1 DEF CreateCampaign, RemoveCampaign, RequestSend
<1>2. ASSUME NEW c \in Call,
             CountToday(c) \/ MarkSending(c) \/ QueueMessages(c) \/ MarkSent(c) \/ DieSending(c)
      PROVE  day' = day
  BY <1>2 DEF CountToday, MarkSending, QueueMessages, MarkSent, DieSending
<1>3. CASE Midnight \/ UNCHANGED campaignsVars
  BY <1>3 DEF Midnight, campaignsVars
<1>. QED  BY <1>1, <1>2, <1>3 DEF CampaignsNext

LEMMA MarkEffect ==
  ASSUME Shapes, NEW c \in Call, Marks(c)
  PROVE  /\ call[c].campaign \in Campaign
         /\ Becomes(call[c].campaign, [status |-> "SENDING", sent |-> day])
         /\ call' = [call EXCEPT ![c] = [at |-> "queue", campaign |-> call[c].campaign]]
         /\ queued' = queued
         /\ day' = day
         /\ inTurn' = inTurn
         /\ went' = [went EXCEPT ![call[c].campaign] = day]
         /\ freed' = freed
<1>1. call[c] \in Sending
  BY SendingCall DEF Marks
<1>2. call[c].campaign \in Campaign
  BY <1>1 DEF Sending
<1>3. [call[c] EXCEPT !.at = "queue"] = [at |-> "queue", campaign |-> call[c].campaign]
  BY <1>1, Onwards
<1>. QED  BY <1>2, <1>3 DEF Marks, MarkSending, Step, Becomes

(* A row that has gone out stays out; nothing is stamped with a later day. *)
LEMMA RowsKeep ==
  ASSUME Shapes, [CampaignsNext]_campaignsVars
  PROVE  /\ campaign' \in [Campaign -> CampaignRow]
         /\ \A k \in Campaign : campaign'[k].sent <= day
         /\ \A k \in Campaign : Out(k) => campaign'[k].status \in Gone
<1>1. CASE campaign' = campaign
  BY <1>1 DEF Shapes, Out, Gone
<1>2. ASSUME NEW k \in Campaign, NEW row \in CampaignRow, Becomes(k, row), row.sent <= day,
             Out(k) => row.status \in Gone
      PROVE  /\ campaign' \in [Campaign -> CampaignRow]
             /\ \A j \in Campaign : campaign'[j].sent <= day
             /\ \A j \in Campaign : Out(j) => campaign'[j].status \in Gone
  <2>1. \A j \in Campaign : campaign'[j] = IF j = k THEN row ELSE campaign[j]
    BY <1>2 DEF Becomes, Shapes
  <2>2. campaign' \in [Campaign -> CampaignRow]
    BY <1>2 DEF Becomes, Shapes
  <2>3. \A j \in Campaign : campaign'[j].sent <= day
    BY <1>2, <2>1 DEF Shapes
  <2>4. \A j \in Campaign : Out(j) => campaign'[j].status \in Gone
    BY <1>2, <2>1 DEF Out, Gone
  <2>. QED  BY <2>2, <2>3, <2>4
<1>3. CASE RowsStep /\ campaign' # campaign
  <2>1. PICK k \in Campaign :
           \/ campaign[k].status = "NONE"
              /\ Becomes(k, [status |-> "DRAFT", sent |-> campaign[k].sent])
           \/ campaign[k].status # "NONE" /\ Becomes(k, [status |-> "REMOVED", sent |-> 0])
           \/ Out(k) /\ campaign[k].status # "REMOVED"
              /\ Becomes(k, [status |-> "SENT", sent |-> campaign[k].sent])
    BY <1>3 DEF RowsStep
  <2>2. campaign[k].sent \in Nat /\ campaign[k].sent <= day /\ 0 <= day
    BY DEF Shapes, CampaignRow
  <2>. DEFINE draft == [status |-> "DRAFT", sent |-> campaign[k].sent]
              removed == [status |-> "REMOVED", sent |-> 0]
              sent == [status |-> "SENT", sent |-> campaign[k].sent]
  <2>3. draft \in CampaignRow /\ removed \in CampaignRow /\ sent \in CampaignRow
    BY <2>2 DEF CampaignRow
  <2>4. CASE campaign[k].status = "NONE" /\ Becomes(k, draft)
    BY <1>2, <2>2, <2>3, <2>4 DEF Out, Gone
  <2>5. CASE Becomes(k, removed)
    BY <1>2, <2>2, <2>3, <2>5 DEF Gone
  <2>6. CASE Becomes(k, sent)
    BY <1>2, <2>2, <2>3, <2>6 DEF Gone
  <2>. QED  BY <2>1, <2>4, <2>5, <2>6
<1>4. ASSUME NEW c \in Call, Marks(c)
      PROVE  /\ campaign' \in [Campaign -> CampaignRow]
             /\ \A j \in Campaign : campaign'[j].sent <= day
             /\ \A j \in Campaign : Out(j) => campaign'[j].status \in Gone
  <2>1. [status |-> "SENDING", sent |-> day] \in CampaignRow /\ day <= day
    BY DEF Shapes, CampaignRow
  <2>. QED  BY <1>2, <1>4, <2>1, MarkEffect DEF Gone
<1>. QED  BY <1>1, <1>3, <1>4, RowsChange

(* The calls keep their shape; one that goes past its mark has marked. *)
LEMMA CallsKeep ==
  ASSUME Shapes, [CampaignsNext]_campaignsVars
  PROVE  /\ call' \in [Call -> {Idle} \cup Counting \cup Sending]
         /\ \A c \in Call : call'[c].at = "count" => call'[c].from <= day
         /\ \A c \in Call : call'[c].at \in {"queue", "finish"} => campaign'[call'[c].campaign].status \in Gone
<1>1. CASE call' = call
  <2>1. \A c \in Call : At(c, "queue") \/ At(c, "finish") => call[c].campaign \in Campaign
    BY SendingCall DEF Sending
  <2>. QED  BY <1>1, <2>1, RowsKeep DEF Shapes, At, Out
<1>2. ASSUME NEW c \in Call, NEW k \in {Idle} \cup Counting \cup Sending,
             call' = [call EXCEPT ![c] = k],
             k.at = "count" => k.from <= day,
             k.at \in {"queue", "finish"} => campaign'[k.campaign].status \in Gone
      PROVE  /\ call' \in [Call -> {Idle} \cup Counting \cup Sending]
             /\ \A d \in Call : call'[d].at = "count" => call'[d].from <= day
             /\ \A d \in Call : call'[d].at \in {"queue", "finish"} => campaign'[call'[d].campaign].status \in Gone
  <2>1. /\ call' \in [Call -> {Idle} \cup Counting \cup Sending]
        /\ call'[c] = k
        /\ \A d \in Call \ {c} : call'[d] = call[d]
    BY <1>2, CallTo
  <2>2. \A d \in Call \ {c} : At(d, "queue") \/ At(d, "finish") => campaign'[call[d].campaign].status \in Gone
    BY SendingCall, RowsKeep DEF Sending, Shapes, Out
  <2>3. \A d \in Call : call'[d].at = "count" => call'[d].from <= day
    BY <1>2, <2>1 DEF At, Shapes
  <2>4. \A d \in Call : call'[d].at \in {"queue", "finish"} => campaign'[call'[d].campaign].status \in Gone
    BY <1>2, <2>1, <2>2 DEF At
  <2>. QED  BY <2>1, <2>3, <2>4
<1>3. ASSUME NEW c \in Call, call' = [call EXCEPT ![c] = Idle]
      PROVE  /\ call' \in [Call -> {Idle} \cup Counting \cup Sending]
             /\ \A d \in Call : call'[d].at = "count" => call'[d].from <= day
             /\ \A d \in Call : call'[d].at \in {"queue", "finish"} => campaign'[call'[d].campaign].status \in Gone
  <2>1. Idle.at = "idle"
    BY DEF Idle
  <2>. QED  BY <1>2, <1>3, <2>1
<1>4. ASSUME NEW c \in Call, NEW k \in Campaign,
             call' = [call EXCEPT ![c] = [at |-> "count", campaign |-> k, from |-> day]]
      PROVE  /\ call' \in [Call -> {Idle} \cup Counting \cup Sending]
             /\ \A d \in Call : call'[d].at = "count" => call'[d].from <= day
             /\ \A d \in Call : call'[d].at \in {"queue", "finish"} => campaign'[call'[d].campaign].status \in Gone
  <2>. DEFINE n == [at |-> "count", campaign |-> k, from |-> day]
  <2>1. n \in Counting /\ n.from <= day /\ n.at = "count"
    BY DEF Shapes, Counting
  <2>. HIDE DEF n
  <2>. QED  BY <1>2, <1>4, <2>1 DEF n
<1>5. ASSUME NEW c \in Call, NEW where \in {"mark", "queue", "finish"},
             call[c].campaign \in Campaign,
             where # "mark" => campaign'[call[c].campaign].status \in Gone,
             call' = [call EXCEPT ![c] = [at |-> where, campaign |-> call[c].campaign]]
      PROVE  /\ call' \in [Call -> {Idle} \cup Counting \cup Sending]
             /\ \A d \in Call : call'[d].at = "count" => call'[d].from <= day
             /\ \A d \in Call : call'[d].at \in {"queue", "finish"} => campaign'[call'[d].campaign].status \in Gone
  <2>. DEFINE n == [at |-> where, campaign |-> call[c].campaign]
  <2>1. n \in Sending /\ n.at = where /\ n.campaign = call[c].campaign
    BY <1>5 DEF Sending
  <2>2. call' = [call EXCEPT ![c] = n]
    BY <1>5
  <2>. HIDE DEF n
  <2>. QED  BY <1>2, <1>5, <2>1, <2>2
<1>6. ASSUME NEW c \in Call, At(c, "count")
      PROVE  call[c].campaign \in Campaign
  BY <1>6, CountingCall DEF Counting
<1>7. ASSUME NEW c \in Call, At(c, "queue")
      PROVE  call[c].campaign \in Campaign /\ campaign'[call[c].campaign].status \in Gone
  BY <1>7, SendingCall, RowsKeep DEF Sending, Shapes, Out
<1>8. ASSUME NEW c \in Call, Marks(c)
      PROVE  /\ call[c].campaign \in Campaign
             /\ campaign'[call[c].campaign].status \in Gone
             /\ call' = [call EXCEPT ![c] = [at |-> "queue", campaign |-> call[c].campaign]]
  BY <1>8, MarkEffect DEF Becomes, Shapes, Gone
<1>. QED  BY <1>1, <1>3, <1>4, <1>5, <1>6, <1>7, <1>8, CallsChange DEF CallsStep

LEMMA QueuedKeep ==
  ASSUME Shapes, [CampaignsNext]_campaignsVars
  PROVE  queued' \in [Campaign -> Nat]
<1>1. ASSUME NEW c \in Call, At(c, "queue"),
             queued' = [queued EXCEPT ![call[c].campaign] = @ + 1]
      PROVE  queued' \in [Campaign -> Nat]
  <2>1. call[c].campaign \in Campaign
    BY <1>1, SendingCall DEF Sending
  <2>. QED  BY <1>1, <2>1 DEF Shapes
<1>. QED  BY <1>1, QueueChange DEF Shapes

(* A request arrives, or the history stands and no idle call gets busy. *)
LEMMA TurnChange ==
  ASSUME Shapes, [CampaignsNext]_campaignsVars
  PROVE  \/ \E c \in Call, k \in Campaign : RequestSend(c, k)
         \/ inTurn' = inTurn /\ \A c \in Call : call[c] = Idle => call'[c] = Idle
<1>1. ASSUME NEW c \in Call, NEW k \in Campaign, CreateCampaign(c, k) \/ RemoveCampaign(c, k)
      PROVE  inTurn' = inTurn /\ call' = call
  BY <1>1 DEF CreateCampaign, RemoveCampaign
<1>2. ASSUME NEW c \in Call,
             CountToday(c) \/ MarkSending(c) \/ QueueMessages(c) \/ MarkSent(c) \/ DieSending(c)
      PROVE  inTurn' = inTurn /\ \A d \in Call : call[d] = Idle => call'[d] = Idle
  <2>1. call[c] # Idle
    BY <1>2 DEF CountToday, MarkSending, QueueMessages, MarkSent, DieSending, At, Idle
  <2>2. inTurn' = inTurn
    BY <1>2 DEF CountToday, MarkSending, QueueMessages, MarkSent, DieSending
  <2>3. \A d \in Call \ {c} : call'[d] = call[d]
    BY <1>2 DEF CountToday, MarkSending, QueueMessages, MarkSent, DieSending, Step, Return, Shapes
  <2>. QED  BY <2>1, <2>2, <2>3
<1>3. CASE Midnight \/ UNCHANGED campaignsVars
  BY <1>3 DEF Midnight, campaignsVars
<1>. QED  BY <1>1, <1>2, <1>3 DEF CampaignsNext

(* Only a mark is put down in the history; a removal may free a place. *)
LEMMA HistoryChange ==
  ASSUME Shapes, [CampaignsNext]_campaignsVars
  PROVE  (went' = went /\ freed \subseteq freed') \/ \E c \in Call : Marks(c)
<1>1. ASSUME NEW c \in Call, NEW k \in Campaign,
             CreateCampaign(c, k) \/ RemoveCampaign(c, k) \/ RequestSend(c, k)
      PROVE  went' = went /\ freed \subseteq freed'
  BY <1>1 DEF CreateCampaign, RemoveCampaign, RequestSend
<1>2. ASSUME NEW c \in Call, CountToday(c) \/ QueueMessages(c) \/ MarkSent(c) \/ DieSending(c)
      PROVE  went' = went /\ freed \subseteq freed'
  BY <1>2 DEF CountToday, QueueMessages, MarkSent, DieSending
<1>3. ASSUME NEW c \in Call, MarkSending(c)
      PROVE  (went' = went /\ freed \subseteq freed') \/ Marks(c)
  BY <1>3 DEF MarkSending, Marks
<1>4. CASE Midnight \/ UNCHANGED campaignsVars
  BY <1>4 DEF Midnight, campaignsVars
<1>. QED  BY <1>1, <1>2, <1>3, <1>4 DEF CampaignsNext

LEMMA HistoryKeep ==
  ASSUME Shapes, [CampaignsNext]_campaignsVars
  PROVE  went' \in [Campaign -> Nat] /\ \A k \in Campaign : went'[k] <= day
<1>1. CASE went' = went
  BY <1>1 DEF Shapes
<1>2. ASSUME NEW c \in Call, Marks(c)
      PROVE  went' \in [Campaign -> Nat] /\ \A k \in Campaign : went'[k] <= day
  BY <1>2, MarkEffect DEF Shapes
<1>. QED  BY <1>1, <1>2, HistoryChange

LEMMA ShapesStep ==
  ASSUME Shapes, [CampaignsNext]_campaignsVars
  PROVE  Shapes'
<1>1. day' \in Nat \ {0} /\ day <= day'
  BY DayChange DEF Shapes
<1>2. inTurn' \in BOOLEAN
  BY TurnChange DEF Shapes, RequestSend
<1>3. \A k \in Campaign : campaign'[k].sent <= day'
  <2>. SUFFICES ASSUME NEW k \in Campaign
                PROVE  campaign'[k].sent <= day'
    OBVIOUS
  <2>1. campaign'[k].sent \in Nat /\ campaign'[k].sent <= day
    BY RowsKeep DEF CampaignRow
  <2>. QED  BY <1>1, <2>1 DEF Shapes
<1>4. \A c \in Call : call'[c].at = "count" => call'[c].from <= day'
  <2>. SUFFICES ASSUME NEW c \in Call, call'[c].at = "count"
                PROVE  call'[c].from <= day'
    OBVIOUS
  <2>1. call'[c] \in Counting /\ call'[c].from <= day
    BY CallsKeep DEF Idle, Sending
  <2>2. call'[c].from \in Nat
    BY <2>1 DEF Counting
  <2>. QED  BY <1>1, <2>1, <2>2 DEF Shapes
<1>5. went' \in [Campaign -> Nat] /\ \A k \in Campaign : went'[k] <= day'
  <2>1. \A k \in Campaign : went'[k] \in Nat /\ went'[k] <= day
    BY HistoryKeep
  <2>. QED  BY <1>1, <2>1, HistoryKeep DEF Shapes
<1>. QED  BY <1>1, <1>2, <1>3, <1>4, <1>5, RowsKeep, CallsKeep, QueuedKeep DEF Shapes, At, Out

(* The rows keep their types, and nothing is stamped later than today. *)
THEOREM CampaignShapes == CampaignsSpec => []Shapes
  BY ShapesInit, ShapesStep, PTL DEF CampaignsSpec

-----------------------------------------------------------------------------
(* One request at most has marked a campaign and not yet queued it. *)
QueueInv ==
    /\ \A k \in Campaign : ~Out(k) => queued[k] = 0
    /\ \A k \in Campaign : queued[k] <= 1
    /\ \A c \in Call : At(c, "queue") => queued[call[c].campaign] = 0
    /\ \A c, d \in Call :
         c # d /\ At(c, "queue") /\ At(d, "queue") => call[c].campaign # call[d].campaign

LEMMA QueueInvInit == CampaignsInit => QueueInv
  BY DEF CampaignsInit, HandlersInit, QueueInv, Out, Gone, At, Idle

(* A call is at "queue" because it was, or because it has just marked. *)
LEMMA AtQueue ==
  ASSUME Shapes, [CampaignsNext]_campaignsVars, NEW d \in Call, call'[d].at = "queue"
  PROVE  (At(d, "queue") /\ call'[d] = call[d]) \/ Marks(d)
<1>1. CASE call' = call
  BY <1>1 DEF At
<1>2. ASSUME NEW c \in Call, NEW k, call' = [call EXCEPT ![c] = k], k.at # "queue"
      PROVE  At(d, "queue") /\ call'[d] = call[d]
  BY <1>2 DEF At, Shapes
<1>3. ASSUME NEW c \in Call, Marks(c)
      PROVE  (At(d, "queue") /\ call'[d] = call[d]) \/ Marks(d)
  BY <1>3, MarkEffect DEF At, Shapes
<1>4. Idle.at # "queue"
  BY DEF Idle
<1>5. \A k : \A f : [at |-> "count", campaign |-> k, from |-> f].at # "queue"
  OBVIOUS
<1>6. \A k : /\ [at |-> "mark", campaign |-> k].at # "queue"
             /\ [at |-> "finish", campaign |-> k].at # "queue"
  OBVIOUS
<1>. QED  BY <1>1, <1>2, <1>3, <1>4, <1>5, <1>6, CallsChange DEF CallsStep

LEMMA AtQueueCampaign ==
  ASSUME Shapes, NEW c \in Call, At(c, "queue")
  PROVE  call[c].campaign \in Campaign /\ Out(call[c].campaign)
  BY SendingCall DEF Sending, Shapes

LEMMA QueueInvStep ==
  ASSUME Shapes, QueueInv, [CampaignsNext]_campaignsVars
  PROVE  QueueInv'
<1>1. CASE queued' = queued
  <2>1. \A k \in Campaign : campaign'[k].status \notin Gone => queued'[k] = 0
    BY <1>1, RowsKeep DEF QueueInv
  <2>2. \A k \in Campaign : queued'[k] <= 1
    BY <1>1 DEF QueueInv
  <2>3. ASSUME NEW c \in Call, call'[c].at = "queue"
        PROVE  queued'[call'[c].campaign] = 0
    <3>1. CASE At(c, "queue") /\ call'[c] = call[c]
      BY <1>1, <3>1 DEF QueueInv
    <3>2. CASE Marks(c)
      <4>1. /\ call[c].campaign \in Campaign
            /\ call' = [call EXCEPT ![c] = [at |-> "queue", campaign |-> call[c].campaign]]
        BY <3>2, MarkEffect
      <4>2. call'[c].campaign = call[c].campaign
        BY <4>1 DEF Shapes
      <4>3. ~Out(call[c].campaign)
        BY <3>2 DEF Marks, Out, Gone
      <4>. QED  BY <1>1, <4>1, <4>2, <4>3 DEF QueueInv
    <3>. QED  BY <2>3, <3>1, <3>2, AtQueue
  <2>4. ASSUME NEW c \in Call, NEW d \in Call, c # d,
               call'[c].at = "queue", call'[d].at = "queue"
        PROVE  call'[c].campaign # call'[d].campaign
    <3>1. ASSUME NEW e \in Call, NEW f \in Call, e # f, Marks(e),
                 call'[e].at = "queue", call'[f].at = "queue"
          PROVE  call'[e].campaign # call'[f].campaign
      <4>1. /\ call' = [call EXCEPT ![e] = [at |-> "queue", campaign |-> call[e].campaign]]
            /\ call[e].campaign \in Campaign
        BY <3>1, MarkEffect
      <4>2. call'[f] = call[f] /\ call'[e].campaign = call[e].campaign
        BY <3>1, <4>1 DEF Shapes
      <4>3. ~Out(call[e].campaign) /\ Out(call[f].campaign)
        BY <3>1, <4>2, AtQueueCampaign DEF Marks, Out, Gone, At
      <4>. QED  BY <4>2, <4>3
    <3>2. CASE ~Marks(c) /\ ~Marks(d)
      <4>1. /\ At(c, "queue") /\ call'[c] = call[c]
            /\ At(d, "queue") /\ call'[d] = call[d]
        BY <2>4, <3>2, AtQueue
      <4>. QED  BY <2>4, <4>1 DEF QueueInv
    <3>. QED  BY <2>4, <3>1, <3>2
  <2>. QED  BY <2>1, <2>2, <2>3, <2>4 DEF QueueInv, Out, At
<1>2. ASSUME NEW c \in Call,
             At(c, "queue"),
             campaign' = campaign,
             call' = [call EXCEPT ![c] = [at |-> "finish", campaign |-> call[c].campaign]],
             queued' = [queued EXCEPT ![call[c].campaign] = @ + 1]
      PROVE  QueueInv'
  <2>. DEFINE k == call[c].campaign
  <2>1. k \in Campaign /\ Out(k) /\ queued[k] = 0
    BY <1>2, AtQueueCampaign DEF QueueInv
  <2>2. \A j \in Campaign : queued'[j] = IF j = k THEN 1 ELSE queued[j]
    BY <1>2, <2>1 DEF Shapes
  <2>3. \A d \in Call : call'[d].at = "queue" => d # c /\ call'[d] = call[d]
    BY <1>2 DEF Shapes
  <2>4. \A d \in Call : call'[d].at = "queue" => call'[d].campaign \in Campaign \ {k}
    BY <1>2, <2>3, AtQueueCampaign DEF QueueInv, At
  <2>5. \A j \in Campaign : campaign'[j].status \notin Gone => queued'[j] = 0
    BY <1>2, <2>1, <2>2 DEF QueueInv, Out
  <2>6. \A j \in Campaign : queued'[j] <= 1
    BY <2>2 DEF QueueInv
  <2>7. \A d \in Call : call'[d].at = "queue" => queued'[call'[d].campaign] = 0
    BY <2>2, <2>3, <2>4 DEF QueueInv, At
  <2>8. \A d, e \in Call :
          d # e /\ call'[d].at = "queue" /\ call'[e].at = "queue"
          => call'[d].campaign # call'[e].campaign
    BY <2>3 DEF QueueInv, At
  <2>. QED  BY <2>5, <2>6, <2>7, <2>8 DEF QueueInv, Out, At
<1>. QED  BY <1>1, <1>2, QueueChange

(* The messages of a campaign are queued once, however many sends of it run *)
(* at the same time and wherever the process dies (Campaigns!QueuedOnce).   *)
THEOREM QueuedOnceHolds == CampaignsSpec => []QueuedOnce
<1>1. CampaignsInit => Shapes /\ QueueInv
  BY ShapesInit, QueueInvInit
<1>2. Shapes /\ QueueInv /\ [CampaignsNext]_campaignsVars => (Shapes /\ QueueInv)'
  BY ShapesStep, QueueInvStep
<1>3. QueueInv => QueuedOnce
  BY DEF QueueInv, QueuedOnce
<1>. QED  BY <1>1, <1>2, <1>3, PTL DEF CampaignsSpec

-----------------------------------------------------------------------------
(* While no two sends have overlapped, one request at most is in flight, and *)
(* when it is about to mark its campaign there is room left today.           *)
TurnInv ==
    inTurn =>
        /\ \A c, d \in Call : c # d => call[c] = Idle \/ call[d] = Idle
        /\ \A d \in Nat \ {0} : Cardinality(WentOn(d)) <= DailyLimit
        /\ \A c \in Call, d \in Nat \ {0} :
             At(c, "mark") /\ d = day => Cardinality(WentOn(d)) < DailyLimit

LEMMA WentOnFinite ==
  ASSUME NEW d
  PROVE  IsFiniteSet(WentOn(d)) /\ Cardinality(WentOn(d)) \in Nat
<1>1. WentOn(d) \subseteq Campaign
  BY DEF WentOn
<1>. QED  BY <1>1, CampaignsAssumption, FS_Subset, FS_CardinalityType

LEMMA SubsetSmaller ==
  ASSUME NEW S, NEW T, S \subseteq T, IsFiniteSet(T)
  PROVE  IsFiniteSet(S) /\ Cardinality(S) \in Nat /\ Cardinality(T) \in Nat /\ Cardinality(S) <= Cardinality(T)
  BY FS_Subset, FS_CardinalityType

LEMMA TurnInvInit == CampaignsInit => TurnInv
<1>. SUFFICES ASSUME CampaignsInit
              PROVE  TurnInv
  OBVIOUS
<1>1. \A d \in Nat \ {0} : WentOn(d) = {}
  BY DEF CampaignsInit, WentOn
<1>2. \A d \in Nat \ {0} : Cardinality(WentOn(d)) = 0
  BY <1>1, FS_EmptySet
<1>3. \A c \in Call : call[c] = Idle /\ ~At(c, "mark")
  BY DEF CampaignsInit, HandlersInit, At, Idle
<1>. QED  BY <1>2, <1>3, CampaignsAssumption DEF TurnInv

(* What went out on a day grows by marks only. *)
LEMMA WentOnKeep ==
  ASSUME went' = went, freed \subseteq freed', NEW d \in Nat
  PROVE  WentOn(d)' \subseteq WentOn(d) /\ Cardinality(WentOn(d)') <= Cardinality(WentOn(d))
<1>1. WentOn(d)' \subseteq WentOn(d)
  BY DEF WentOn
<1>. QED  BY <1>1, WentOnFinite, SubsetSmaller

(* The row of what went out today still counts, unless it was removed today. *)
Standing ==
    \A k \in Campaign : went[k] = day /\ k \notin freed =>
        campaign[k].status \in {"SENDING", "SENT"} /\ campaign[k].sent = day

LEMMA StandingInit == CampaignsInit => Standing
  BY DEF CampaignsInit, Standing

LEMMA StandingStep ==
  ASSUME Shapes, Standing, [CampaignsNext]_campaignsVars
  PROVE  Standing'
<1>1. ASSUME NEW c \in Call, NEW k \in Campaign, CreateCampaign(c, k)
      PROVE  Standing'
  <2>1. /\ Becomes(k, [status |-> "DRAFT", sent |-> campaign[k].sent])
        /\ campaign[k].status = "NONE" /\ UNCHANGED <<day, went, freed>>
    BY <1>1, StatusOnly DEF CreateCampaign
  <2>. QED  BY <2>1 DEF Standing, Becomes, Shapes
<1>2. ASSUME NEW c \in Call, NEW k \in Campaign, RemoveCampaign(c, k)
      PROVE  Standing'
  BY <1>2 DEF RemoveCampaign, Standing, Shapes
<1>3. ASSUME NEW c \in Call, Marks(c)
      PROVE  Standing'
  BY <1>3, MarkEffect DEF Standing, Becomes, Shapes
<1>4. ASSUME NEW c \in Call, MarkSent(c)
      PROVE  Standing'
  <2>. DEFINE k == call[c].campaign
  <2>1. k \in Campaign /\ UNCHANGED <<day, went, freed>>
    BY <1>4, SendingCall DEF MarkSent, Sending
  <2>2. CASE campaign' = campaign
    BY <2>1, <2>2 DEF Standing
  <2>3. CASE campaign' = [campaign EXCEPT ![k].status = "SENT"]
    <3>1. Becomes(k, [status |-> "SENT", sent |-> campaign[k].sent])
      BY <2>1, <2>3, StatusOnly
    <3>. QED  BY <2>1, <3>1 DEF Standing, Becomes, Shapes
  <2>. QED  BY <1>4, <2>2, <2>3 DEF MarkSent
<1>5. ASSUME NEW c \in Call,
             \/ (\E k \in Campaign : RequestSend(c, k)) \/ CountToday(c) \/ QueueMessages(c)
             \/ DieSending(c) \/ (MarkSending(c) /\ ~Marks(c))
      PROVE  Standing'
  BY <1>5 DEF RequestSend, CountToday, QueueMessages, DieSending, MarkSending, Marks, Standing
<1>6. CASE Midnight
  BY <1>6 DEF Midnight, Standing, Shapes
<1>7. CASE UNCHANGED campaignsVars
  BY <1>7 DEF campaignsVars, Standing
<1>. QED  BY <1>1, <1>2, <1>3, <1>4, <1>5, <1>6, <1>7 DEF CampaignsNext

(* A request reaches its mark when it has counted less than the limit. *)
LEMMA AtMark ==
  ASSUME Shapes, [CampaignsNext]_campaignsVars, NEW c \in Call, call'[c].at = "mark"
  PROVE  \/ At(c, "mark")
         \/ /\ At(c, "count")
            /\ Cardinality(SentSince(call[c].from)) < DailyLimit
            /\ campaign' = campaign
            /\ day' = day
<1>1. CASE call'[c] = call[c]
  BY <1>1 DEF At
<1>2. ASSUME NEW d \in Call, NEW n, call' = [call EXCEPT ![d] = n], n.at # "mark"
      PROVE  At(c, "mark")
  BY <1>2 DEF Shapes, At
<1>3. /\ Idle.at # "mark"
      /\ \A k, f : [at |-> "count", campaign |-> k, from |-> f].at # "mark"
      /\ \A k : [at |-> "queue", campaign |-> k].at # "mark"
      /\ \A k : [at |-> "finish", campaign |-> k].at # "mark"
  BY DEF Idle
<1>4. ASSUME NEW d \in Call, CountToday(d), call'[c] # call[c]
      PROVE  /\ At(c, "count")
             /\ Cardinality(SentSince(call[c].from)) < DailyLimit
             /\ campaign' = campaign
             /\ day' = day
  <2>1. c = d
    BY <1>4 DEF CountToday, Step, Return, Shapes
  <2>2. ~(Cardinality(SentSince(call[c].from)) >= DailyLimit)
    <3>. SUFFICES ASSUME Cardinality(SentSince(call[c].from)) >= DailyLimit
                  PROVE  FALSE
      OBVIOUS
    <3>1. call' = [call EXCEPT ![c] = Idle]
      BY <1>4, <2>1 DEF CountToday, Return
    <3>. QED  BY <3>1 DEF Idle, Shapes
  <2>3. SentSince(call[c].from) \subseteq Campaign
    BY DEF SentSince
  <2>4. Cardinality(SentSince(call[c].from)) \in Nat
    BY <2>3, CampaignsAssumption, FS_Subset, FS_CardinalityType
  <2>5. Cardinality(SentSince(call[c].from)) < DailyLimit
    BY <2>2, <2>4, CampaignsAssumption
  <2>. QED  BY <1>4, <2>1, <2>5 DEF CountToday
<1>5. ASSUME NEW d \in Call, NEW k \in Campaign,
             CreateCampaign(d, k) \/ RemoveCampaign(d, k)
      PROVE  call'[c] = call[c]
  BY <1>5 DEF CreateCampaign, RemoveCampaign
<1>6. ASSUME NEW d \in Call, NEW k \in Campaign, RequestSend(d, k)
      PROVE  At(c, "mark")
  <2>. DEFINE n == [at |-> "count", campaign |-> k, from |-> day]
  <2>1. call' = [call EXCEPT ![d] = n] /\ n.at # "mark"
    BY <1>6 DEF RequestSend, Enter
  <2>. HIDE DEF n
  <2>. QED  BY <1>2, <2>1
<1>7. ASSUME NEW d \in Call, MarkSending(d)
      PROVE  At(c, "mark")
  <2>1. CASE campaign[call[d].campaign].status = "DRAFT"
    BY <1>2, <1>7, <1>3, <2>1, MarkEffect DEF Marks, MarkSending
  <2>2. CASE campaign[call[d].campaign].status # "DRAFT"
    BY <1>2, <1>7, <1>3, <2>2 DEF MarkSending, Return
  <2>. QED  BY <2>1, <2>2
<1>8. ASSUME NEW d \in Call, QueueMessages(d) \/ MarkSent(d) \/ DieSending(d)
      PROVE  At(c, "mark")
  <2>1. CASE call' = [call EXCEPT ![d] = Idle]
    BY <1>2, <1>3, <2>1
  <2>2. CASE QueueMessages(d) /\ call' # [call EXCEPT ![d] = Idle]
    <3>1. call[d] \in Sending
      BY <2>2, SendingCall DEF QueueMessages
    <3>2. call' = [call EXCEPT ![d] = [at |-> "finish", campaign |-> call[d].campaign]]
      BY <2>2, <3>1, Onwards DEF QueueMessages, Step, Return
    <3>. QED  BY <1>2, <1>3, <3>2
  <2>. QED  BY <1>8, <2>1, <2>2 DEF MarkSent, DieSending, Return
<1>9. CASE Midnight \/ UNCHANGED campaignsVars
  BY <1>1, <1>9 DEF Midnight, campaignsVars
<1>. QED  BY <1>1, <1>4, <1>5, <1>6, <1>7, <1>8, <1>9 DEF CampaignsNext

LEMMA TurnInvStep ==
  ASSUME Shapes, Shapes', Standing, TurnInv, [CampaignsNext]_campaignsVars
  PROVE  TurnInv'
<1>. SUFFICES ASSUME inTurn'
              PROVE  /\ \A c, d \in Call : c # d => call'[c] = Idle \/ call'[d] = Idle
                     /\ \A d \in Nat \ {0} : Cardinality(WentOn(d)') <= DailyLimit
                     /\ \A c \in Call, d \in Nat \ {0} :
                          call'[c].at = "mark" /\ d = day'
                          => Cardinality(WentOn(d)') < DailyLimit
  BY DEF TurnInv, At
<1>1. inTurn
  BY TurnChange DEF RequestSend, Shapes
<1>2. /\ \A c, d \in Call : c # d => call[c] = Idle \/ call[d] = Idle
      /\ \A d \in Nat \ {0} : Cardinality(WentOn(d)) <= DailyLimit
      /\ \A c \in Call, d \in Nat \ {0} :
           At(c, "mark") /\ d = day => Cardinality(WentOn(d)) < DailyLimit
  BY <1>1 DEF TurnInv
<1>3. \A c, d \in Call : c # d => call'[c] = Idle \/ call'[d] = Idle
  <2>1. ASSUME NEW c \in Call, NEW k \in Campaign, RequestSend(c, k)
        PROVE  \A d \in Call \ {c} : call'[d] = Idle
    <3>1. \A d \in Call \ {c} : call[d] = Idle
      BY <2>1 DEF RequestSend, Shapes
    <3>2. \A d \in Call \ {c} : call'[d] = call[d]
      BY <2>1 DEF RequestSend, Enter, Shapes
    <3>. QED  BY <3>1, <3>2
  <2>. QED  BY <1>2, <2>1, TurnChange
<1>4. \A d \in Nat \ {0} : Cardinality(WentOn(d)') \in Nat /\ IsFiniteSet(WentOn(d)')
  <2>1. ASSUME NEW d \in Nat \ {0}
        PROVE  WentOn(d)' \subseteq Campaign
    BY DEF WentOn
  <2>. QED  BY <2>1, CampaignsAssumption, FS_Subset, FS_CardinalityType
<1>5. CASE went' = went /\ freed \subseteq freed'
  <2>1. \A d \in Nat \ {0} : WentOn(d)' \subseteq WentOn(d)
                       /\ Cardinality(WentOn(d)') <= Cardinality(WentOn(d))
    BY <1>5, WentOnKeep
  <2>2. \A d \in Nat \ {0} : Cardinality(WentOn(d)') <= DailyLimit
    BY <1>2, <1>4, <2>1, WentOnFinite, CampaignsAssumption
  <2>3. ASSUME NEW c \in Call, NEW d \in Nat \ {0}, call'[c].at = "mark", d = day'
        PROVE  Cardinality(WentOn(d)') < DailyLimit
    <3>1. CASE At(c, "mark") /\ day' = day
      BY <1>2, <1>4, <2>1, <2>3, <3>1, WentOnFinite, CampaignsAssumption
    <3>2. CASE day' = day + 1 /\ campaign' = campaign
      <4>1. WentOn(d)' = {}
        BY <1>5, <2>3, <3>2 DEF WentOn, Shapes
      <4>. QED  BY <4>1, FS_EmptySet, CampaignsAssumption
    <3>3. CASE /\ At(c, "count")
               /\ Cardinality(SentSince(call[c].from)) < DailyLimit
               /\ campaign' = campaign
               /\ day' = day
      <4>1. call[c].from \in Nat /\ call[c].from <= day
        BY <3>3, CountingCall DEF Counting, Shapes
      <4>2. WentOn(d)' \subseteq SentSince(call[c].from)
        <5>1. WentOn(d)' \subseteq WentOn(day)
          BY <2>1, <2>3, <3>3
        <5>2. ASSUME NEW k \in WentOn(day)
              PROVE  k \in SentSince(call[c].from)
          <6>1. k \in Campaign /\ went[k] = day /\ k \notin freed
            BY <5>2 DEF WentOn
          <6>2. campaign[k].status \in {"SENDING", "SENT"} /\ campaign[k].sent = day
            BY <6>1 DEF Standing
          <6>. QED  BY <4>1, <6>1, <6>2 DEF SentSince, Shapes
        <5>. QED  BY <5>1, <5>2
      <4>3. IsFiniteSet(SentSince(call[c].from))
        <5>1. SentSince(call[c].from) \subseteq Campaign
          BY DEF SentSince
        <5>. QED  BY <5>1, CampaignsAssumption, FS_Subset
      <4>4. /\ Cardinality(WentOn(d)') <= Cardinality(SentSince(call[c].from))
            /\ Cardinality(SentSince(call[c].from)) \in Nat
        BY <4>2, <4>3, SubsetSmaller
      <4>. QED  BY <1>4, <3>3, <4>4, CampaignsAssumption
    <3>. QED  BY <2>3, <3>1, <3>2, <3>3, AtMark, DayChange
  <2>. QED  BY <1>3, <2>2, <2>3
<1>6. ASSUME NEW c \in Call, Marks(c)
      PROVE  /\ \A d \in Nat \ {0} : Cardinality(WentOn(d)') <= DailyLimit
             /\ \A d \in Call : call'[d].at # "mark"
  <2>. DEFINE k == call[c].campaign
  <2>1. /\ k \in Campaign
        /\ Becomes(k, [status |-> "SENDING", sent |-> day])
        /\ call' = [call EXCEPT ![c] = [at |-> "queue", campaign |-> k]]
        /\ went' = [went EXCEPT ![k] = day] /\ freed' = freed
    BY <1>6, MarkEffect
  <2>2. \A d \in Call : call'[d].at # "mark"
    <3>1. \A d \in Call \ {c} : call'[d] = call[d] /\ call[d] = Idle
      BY <1>2, <1>6, <2>1 DEF Marks, At, Idle, Shapes
    <3>2. call'[c].at = "queue"
      BY <2>1 DEF Shapes
    <3>. QED  BY <3>1, <3>2 DEF Idle
  <2>3. ASSUME NEW d \in Nat \ {0}
        PROVE  Cardinality(WentOn(d)') <= DailyLimit
    <3>1. CASE d = day
      <4>1. WentOn(d)' \subseteq WentOn(d) \cup {k}
        BY <2>1 DEF WentOn, Shapes
      <4>2. /\ IsFiniteSet(WentOn(d) \cup {k})
            /\ Cardinality(WentOn(d) \cup {k}) <= Cardinality(WentOn(d)) + 1
        <5>1. IsFiniteSet(WentOn(d)) /\ Cardinality(WentOn(d)) \in Nat
          BY WentOnFinite
        <5>2. /\ IsFiniteSet(WentOn(d) \cup {k})
              /\ Cardinality(WentOn(d) \cup {k})
                   = IF k \in WentOn(d) THEN Cardinality(WentOn(d)) ELSE Cardinality(WentOn(d)) + 1
          BY <5>1, FS_AddElement, Zenon
        <5>. QED  BY <5>1, <5>2
      <4>3. Cardinality(WentOn(d)) < DailyLimit
        BY <1>2, <1>6, <3>1 DEF Marks
      <4>4. /\ Cardinality(WentOn(d)') <= Cardinality(WentOn(d) \cup {k})
            /\ Cardinality(WentOn(d) \cup {k}) \in Nat
        BY <4>1, <4>2, SubsetSmaller
      <4>. QED  BY <1>4, <4>2, <4>3, <4>4, WentOnFinite, CampaignsAssumption
    <3>2. CASE d # day
      <4>1. WentOn(d)' \subseteq WentOn(d)
        BY <2>1, <3>2 DEF WentOn, Shapes
      <4>2. Cardinality(WentOn(d)') <= Cardinality(WentOn(d))
        BY <4>1, WentOnFinite, SubsetSmaller
      <4>. QED  BY <1>2, <1>4, <4>2, WentOnFinite, CampaignsAssumption
    <3>. QED  BY <3>1, <3>2
  <2>. QED  BY <2>2, <2>3
<1>. QED  BY <1>3, <1>5, <1>6, HistoryChange

(* While no two sends of the business overlap no more than the limit goes    *)
(* out on a day, with those that died half-way and around midnight too; what *)
(* is removed on the day it went out leaves its place to another             *)
(* (Campaigns!LimitHoldsInTurn).                                             *)
THEOREM LimitHoldsInTurnAlways == CampaignsSpec => []LimitHoldsInTurn
<1>. DEFINE Inv == Shapes /\ Standing /\ TurnInv
<1>1. CampaignsInit => Inv
  BY ShapesInit, StandingInit, TurnInvInit
<1>2. Inv /\ [CampaignsNext]_campaignsVars => Inv'
  BY ShapesStep, StandingStep, TurnInvStep
<1>3. Inv => LimitHoldsInTurn
  <2>1. \A d \in 1 .. LastDay : d \in Nat \ {0}
    BY CampaignsAssumption
  <2>. QED  BY <2>1 DEF TurnInv, LimitHoldsInTurn, LimitHolds
<1>. QED  BY <1>1, <1>2, <1>3, PTL DEF CampaignsSpec

-----------------------------------------------------------------------------
(***************************************************************************)
(* Waitlist. Whoever waited when a search began was found by none of its   *)
(* queries so far, and who waits still and is found by the one that found  *)
(* an entry joined after it; and while cancellations do not overlap, each  *)
(* has found an entry of its own.                                          *)
(***************************************************************************)

WaitlistRow == [status : {"NONE", "WAITING", "NOTIFIED", "CANCELLED"},
                finds : [Opening -> SUBSET (1 .. Candidates)]]

Seeking == [at : {"seek"}, opening : Opening, query : 1 .. Candidates, since : Nat]
Offering == [at : {"mark", "tell"}, opening : Opening, query : 1 .. Candidates, since : Nat,
             entry : Entry]
WaitlistCalls == {Idle} \cup Seeking \cup Offering

Made(e) == entry[e].status # "NONE"

(* Entries that were marked for a request. *)
Told == {call[c].entry : c \in {d \in Call : At(d, "tell")}}

(* The entries that were made stand in joined, each of them once. *)
WaitlistShapes ==
    /\ entry \in [Entry -> WaitlistRow]
    /\ joined \in Seq(Entry)
    /\ offers \in Nat
    /\ jobs \subseteq Entry
    /\ oneByOne \in BOOLEAN
    /\ call \in [Call -> WaitlistCalls]
    /\ \A e \in Entry : Made(e) <=> \E i \in 1 .. Len(joined) : joined[i] = e
    /\ \A i, j \in 1 .. Len(joined) : joined[i] = joined[j] => i = j
    /\ \A e \in jobs : Made(e)
    /\ \A c \in Call : At(c, "mark") \/ At(c, "tell") => Made(call[c].entry)
    /\ \A c \in Call : call[c] # Idle => call[c].since <= Len(joined)

(* Who waited when a search began was found by none of the queries so far.   *)
Sought(k) ==
    \A f \in Waiting : Position(f) <= k.since =>
        \A q \in 1 .. k.query - 1 : q \notin entry[f].finds[k.opening]

(* Who the query finds that found an entry joined after that one. *)
Oldest(k) ==
    \A f \in Waiting : Position(f) < Position(k.entry) => k.query \notin entry[f].finds[k.opening]

InOrder ==
    \A c \in Call :
        /\ call[c] # Idle => Sought(call[c])
        /\ At(c, "mark") \/ At(c, "tell") => Oldest(call[c])

(* While nothing overlaps, a request alone finds its entry waiting, and the *)
(* entries that are written to are as many as the openings.                 *)
InTurn ==
    oneByOne =>
        /\ \A c, d \in Call : call[c] # Idle /\ call[d] # Idle => c = d
        /\ \A c \in Call : At(c, "mark") => call[c].entry \in Waiting
        /\ IsFiniteSet(jobs \cup Told)
        /\ offers = Cardinality(jobs \cup Told)
        /\ (jobs \cup Told) \cap Waiting = {}

LEMMA WaitlistInit1 == WaitlistInit => WaitlistShapes /\ InOrder /\ InTurn
<1>. SUFFICES ASSUME WaitlistInit PROVE WaitlistShapes /\ InOrder /\ InTurn
  OBVIOUS
<1>1. WaitlistShapes
  BY DEF WaitlistInit, HandlersInit, WaitlistShapes, WaitlistRow, WaitlistCalls, Idle, At, Made
<1>2. jobs = {} /\ Told = {} /\ \A c \in Call : call[c] = Idle /\ Idle.at = "idle"
  BY DEF WaitlistInit, HandlersInit, Told, At, Idle
<1>3. InOrder
  BY <1>2 DEF InOrder, At
<1>4. InTurn
  BY <1>2, FS_EmptySet DEF InTurn, WaitlistInit, At
<1>. QED  BY <1>1, <1>3, <1>4

LEMMA WaitlistCallTo ==
  ASSUME WaitlistShapes, NEW c \in Call, NEW k \in WaitlistCalls,
         call' = [call EXCEPT ![c] = k]
  PROVE  /\ call' \in [Call -> WaitlistCalls]
         /\ call'[c] = k
         /\ \A d \in Call \ {c} : call'[d] = call[d]
  BY DEF WaitlistShapes

LEMMA OfferingCall ==
  ASSUME WaitlistShapes, NEW c \in Call, At(c, "mark") \/ At(c, "tell")
  PROVE  call[c] \in Offering
  BY DEF WaitlistShapes, WaitlistCalls, Idle, Seeking, At

LEMMA BusyCall ==
  ASSUME WaitlistShapes, NEW c \in Call, call[c] # Idle
  PROVE  /\ call[c] \in Seeking \cup Offering
         /\ call[c].opening \in Opening /\ call[c].query \in 1 .. Candidates
         /\ call[c].since \in 0 .. Len(joined)
<1>1. call[c] \in Seeking \cup Offering
  BY DEF WaitlistShapes, WaitlistCalls
<1>2. call[c].opening \in Opening /\ call[c].query \in 1 .. Candidates /\ call[c].since \in Nat
  BY <1>1 DEF Seeking, Offering
<1>3. call[c].since <= Len(joined) /\ Len(joined) \in Nat
  BY DEF WaitlistShapes
<1>. QED  BY <1>1, <1>2, <1>3

LEMMA PositionIs ==
  ASSUME WaitlistShapes, NEW i \in 1 .. Len(joined)
  PROVE  Position(joined[i]) = i
<1>1. DOMAIN joined = 1 .. Len(joined)
  BY DEF WaitlistShapes
<1>. QED  BY <1>1 DEF WaitlistShapes, Position

LEMMA PositionOf ==
  ASSUME WaitlistShapes, NEW f \in Entry, Made(f)
  PROVE  Position(f) \in 1 .. Len(joined)
  BY PositionIs DEF WaitlistShapes

(* A request goes on, and the entries and their order stay. *)
LEMMA CallMoves ==
  ASSUME WaitlistShapes, InOrder, NEW c \in Call, NEW k \in WaitlistCalls,
         call' = [call EXCEPT ![c] = k], UNCHANGED <<entry, joined>>,
         k.at \in {"mark", "tell"} => Made(k.entry) /\ Oldest(k),
         k # Idle => k.since <= Len(joined) /\ Sought(k),
         offers' \in Nat, jobs' \subseteq Entry, oneByOne' \in BOOLEAN,
         \A e \in jobs' : Made(e)
  PROVE  WaitlistShapes' /\ InOrder'
<1>1. /\ call' \in [Call -> WaitlistCalls]
      /\ call'[c] = k
      /\ \A d \in Call \ {c} : call'[d] = call[d]
  BY WaitlistCallTo
<1>2. \A d \in Call : At(d, "mark")' \/ At(d, "tell")' => Made(call[d].entry)'
  BY <1>1 DEF At, Made, WaitlistShapes
<1>3. \A e : Made(e)' <=> Made(e)
  BY DEF Made
<1>4. \A d \in Call : call'[d] # Idle => call'[d].since <= Len(joined')
  BY <1>1 DEF WaitlistShapes
<1>5. WaitlistShapes'
  BY <1>1, <1>2, <1>3, <1>4 DEF WaitlistShapes
<1>6. Waiting' = Waiting /\ \A f : Position(f)' = Position(f)
  BY DEF Waiting, Position
<1>7. ASSUME NEW d \in Call
      PROVE  /\ call'[d] # Idle => Sought(call[d])'
             /\ At(d, "mark")' \/ At(d, "tell")' => Oldest(call[d])'
  BY <1>1, <1>6 DEF InOrder, Sought, Oldest, At
<1>8. InOrder'
  BY <1>7 DEF InOrder
<1>. QED  BY <1>5, <1>8

-----------------------------------------------------------------------------
LEMMA JoinSteps ==
  ASSUME WaitlistShapes, InOrder, InTurn, NEW e \in Entry, NEW finds \in [Opening -> Matches],
         Join(e, finds)
  PROVE  WaitlistShapes' /\ InOrder' /\ InTurn'
<1>. DEFINE n == Len(joined)
<1>0. finds \in [Opening -> SUBSET (1 .. Candidates)]
  BY WaitlistAssumption
<1>1. /\ joined' \in Seq(Entry) /\ Len(joined') = n + 1
      /\ joined'[n + 1] = e
      /\ \A i \in 1 .. n : joined'[i] = joined[i]
  BY DEF Join, WaitlistShapes
<1>2. ~Made(e) /\ n \in Nat
  BY DEF Join, Made, WaitlistShapes
<1>3. /\ entry' \in [Entry -> WaitlistRow]
      /\ entry'[e] = [status |-> "WAITING", finds |-> finds]
      /\ \A f \in Entry \ {e} : entry'[f] = entry[f]
  BY <1>0 DEF Join, WaitlistShapes, WaitlistRow
<1>4. UNCHANGED <<offers, jobs, oneByOne, call>>
  BY DEF Join
<1>5. \A f \in Entry : Made(f)' <=> Made(f) \/ f = e
  BY <1>3 DEF Made
<1>6. \A i \in 1 .. n : joined[i] \in Entry /\ joined[i] # e
  BY <1>2 DEF WaitlistShapes
<1>7. WaitlistShapes'
  <2>1. \A i, j \in 1 .. n + 1 : joined'[i] = joined'[j] => i = j
    BY <1>1, <1>2, <1>6 DEF WaitlistShapes
  <2>2. \A f \in Entry : Made(f)' <=> \E i \in 1 .. n + 1 : joined'[i] = f
    <3>. TAKE f \in Entry
    <3>1. CASE f = e
      <4>1. n + 1 \in 1 .. n + 1 /\ joined'[n + 1] = f
        BY <1>1, <1>2, <3>1
      <4>. QED  BY <4>1, <3>1, <1>5
    <3>2. CASE f # e
      <4>1. Made(f)' <=> Made(f)
        BY <1>5, <3>2
      <4>2. Made(f) <=> \E i \in 1 .. n : joined[i] = f
        BY DEF WaitlistShapes
      <4>3. (\E i \in 1 .. n : joined[i] = f) => \E i \in 1 .. n + 1 : joined'[i] = f
        BY <1>1, <1>2
      <4>4. ASSUME NEW i \in 1 .. n + 1, joined'[i] = f
            PROVE  i \in 1 .. n /\ joined[i] = f
        <5>1. i # n + 1
          BY <4>4, <1>1, <3>2
        <5>2. i \in 1 .. n
          BY <5>1, <1>2
        <5>. QED  BY <4>4, <5>2, <1>1
      <4>. QED  BY <4>1, <4>2, <4>3, <4>4
    <3>. QED  BY <3>1, <3>2
  <2>3. \A c \in Call : At(c, "mark")' \/ At(c, "tell")' => Made(call[c].entry)'
    <3>. SUFFICES ASSUME NEW c \in Call, At(c, "mark") \/ At(c, "tell")
                  PROVE  Made(call[c].entry)'
      BY <1>4 DEF At
    <3>1. call[c].entry \in Entry /\ Made(call[c].entry)
      BY OfferingCall DEF WaitlistShapes, Offering
    <3>. QED  BY <3>1, <1>5, <1>4
  <2>4. \A f \in jobs' : Made(f)'
    BY <1>4, <1>5 DEF WaitlistShapes
  <2>5. \A c \in Call : call'[c] # Idle => call'[c].since <= n + 1
    BY <1>2, <1>4, BusyCall
  <2>. QED  BY <1>1, <1>3, <1>4, <2>1, <2>2, <2>3, <2>4, <2>5 DEF WaitlistShapes
<1>8. \A f \in Entry : Made(f) => f # e /\ Position(f)' = Position(f) /\ Position(f) \in 1 .. n
  <2>. SUFFICES ASSUME NEW f \in Entry, Made(f)
                PROVE  f # e /\ Position(f)' = Position(f) /\ Position(f) \in 1 .. n
    OBVIOUS
  <2>1. PICK i \in 1 .. n : joined[i] = f
    BY DEF WaitlistShapes
  <2>2. Position(f) = i
    BY <2>1, PositionIs
  <2>3. (i \in 1 .. Len(joined))' /\ joined'[i] = f
    BY <2>1, <1>1, <1>2
  <2>4. DOMAIN joined' = 1 .. n + 1
    BY <1>1
  <2>5. Position(f)' = i
    BY <2>3, <2>4, <1>1, <1>7 DEF Position, WaitlistShapes
  <2>. QED  BY <1>2, <2>2, <2>5
<1>9. Position(e)' = n + 1
  <2>1. (n + 1 \in 1 .. Len(joined)') /\ joined'[n + 1] = e
    BY <1>1, <1>2
  <2>2. DOMAIN joined' = 1 .. n + 1
    BY <1>1
  <2>. QED  BY <2>1, <2>2, <1>7, <1>1 DEF Position, WaitlistShapes
<1>10. Told' = Told /\ \A c \in Call : At(c, "mark")' \/ At(c, "tell")' <=> At(c, "mark") \/ At(c, "tell")
  BY <1>4 DEF Told, At
<1>11. \A f \in jobs \cup Told : f \in Entry /\ Made(f)
  BY OfferingCall DEF WaitlistShapes, Told, Offering
<1>12. Waiting' = Waiting \cup {e} /\ \A f \in Waiting : f \in Entry /\ Made(f)
  BY <1>3 DEF Waiting, Made
<1>13. \A f \in Waiting : f # e /\ Position(f)' = Position(f) /\ entry'[f] = entry[f]
  BY <1>3, <1>8, <1>12
<1>14. ASSUME NEW c \in Call, call[c] # Idle
       PROVE  Sought(call[c])'
  <2>. SUFFICES ASSUME NEW f \in Waiting \cup {e}, Position(f)' <= call[c].since,
                       NEW q \in 1 .. call[c].query - 1
                PROVE  q \notin entry'[f].finds[call[c].opening]
    BY <1>4, <1>12 DEF Sought
  <2>1. call[c].since \in 0 .. n
    BY <1>14, BusyCall
  <2>2. f \in Waiting
    BY <1>2, <1>9, <2>1
  <2>. QED  BY <1>13, <1>14, <2>2 DEF InOrder, Sought
<1>15. ASSUME NEW c \in Call, At(c, "mark") \/ At(c, "tell")
       PROVE  Oldest(call[c])'
  <2>. SUFFICES ASSUME NEW f \in Waiting \cup {e}, Position(f)' < Position(call[c].entry)'
                PROVE  call[c].query \notin entry'[f].finds[call[c].opening]
    BY <1>4, <1>12 DEF Oldest
  <2>1. call[c].entry \in Entry /\ Made(call[c].entry)
    BY <1>15, OfferingCall DEF WaitlistShapes, Offering
  <2>2. Position(call[c].entry)' = Position(call[c].entry) /\ Position(call[c].entry) \in 1 .. n
    BY <1>4, <1>8, <2>1
  <2>3. f \in Waiting
    BY <1>2, <1>9, <2>2
  <2>. QED  BY <1>13, <1>15, <2>2, <2>3 DEF InOrder, Oldest
<1>16. InOrder'
  BY <1>4, <1>10, <1>14, <1>15 DEF InOrder
<1>17. InTurn'
  <2>1. e \notin jobs \cup Told
    BY <1>2, <1>11
  <2>. QED  BY <1>4, <1>10, <1>12, <2>1 DEF InTurn, At
<1>. QED  BY <1>7, <1>16, <1>17

LEMMA LeaveSteps ==
  ASSUME WaitlistShapes, InOrder, InTurn, NEW e \in Entry, Leave(e)
  PROVE  WaitlistShapes' /\ InOrder' /\ InTurn'
<1>1. /\ entry' \in [Entry -> WaitlistRow]
      /\ \A f \in Entry : entry'[f].finds = entry[f].finds /\ (Made(f)' <=> Made(f))
      /\ Waiting' \subseteq Waiting
  BY DEF Leave, WaitlistShapes, WaitlistRow, Made, Waiting
<1>2. UNCHANGED <<joined, offers, jobs, call>>
  BY DEF Leave
<1>3. oneByOne' \in BOOLEAN /\ (oneByOne' => oneByOne /\ \A c \in Call : call[c] = Idle)
  BY DEF Leave, WaitlistShapes
<1>4. WaitlistShapes'
  <2>1. \A c \in Call : At(c, "mark")' \/ At(c, "tell")' => Made(call[c].entry)'
    <3>. SUFFICES ASSUME NEW c \in Call, At(c, "mark") \/ At(c, "tell")
                  PROVE  Made(call[c].entry)'
      BY <1>2 DEF At
    <3>1. call[c].entry \in Entry /\ Made(call[c].entry)
      BY OfferingCall DEF WaitlistShapes, Offering
    <3>. QED  BY <3>1, <1>1, <1>2
  <2>. QED  BY <1>1, <1>2, <1>3, <2>1 DEF WaitlistShapes
<1>5. Told' = Told /\ \A f : Position(f)' = Position(f)
  BY <1>2 DEF Told, At, Position
<1>6. Waiting \subseteq Entry
  BY DEF Waiting
<1>7. InOrder'
  <2>1. \A c \in Call : call[c] # Idle => Sought(call[c])'
    BY <1>1, <1>2, <1>5, <1>6 DEF InOrder, Sought
  <2>2. \A c \in Call : At(c, "mark") \/ At(c, "tell") => Oldest(call[c])'
    BY <1>1, <1>2, <1>5, <1>6 DEF InOrder, Oldest
  <2>. QED  BY <1>2, <2>1, <2>2 DEF InOrder, At
<1>8. InTurn'
  BY <1>1, <1>2, <1>3, <1>5 DEF InTurn, At, Idle
<1>. QED  BY <1>4, <1>7, <1>8

(* What is told, when one call has moved. *)
LEMMA ToldMoves ==
  ASSUME WaitlistShapes, NEW c \in Call, NEW k \in WaitlistCalls, call' = [call EXCEPT ![c] = k]
  PROVE  /\ Told' \subseteq Told \cup (IF k.at = "tell" THEN {k.entry} ELSE {})
         /\ ~At(c, "tell") => Told \subseteq Told'
         /\ k.at = "tell" => k.entry \in Told'
<1>1. /\ call'[c] = k
      /\ \A d \in Call \ {c} : call'[d] = call[d]
  BY WaitlistCallTo
<1>. QED  BY <1>1 DEF Told, At

(* A request that seeks, and so has marked nobody, goes on to k, or ends. *)
LEMMA SeekMoves ==
  ASSUME WaitlistShapes, InOrder, InTurn, NEW c \in Call, NEW k \in WaitlistCalls,
         At(c, "seek") \/ call[c] = Idle, call' = [call EXCEPT ![c] = k],
         UNCHANGED <<entry, joined, offers, jobs>>, k.at # "tell",
         k.at = "mark" => k.entry \in Waiting /\ Oldest(k),
         k # Idle => k.since <= Len(joined) /\ Sought(k),
         oneByOne' \in BOOLEAN,
         oneByOne' => oneByOne /\ (At(c, "seek") \/ \A d \in Call : call[d] = Idle)
  PROVE  WaitlistShapes' /\ InOrder' /\ InTurn'
<1>1. k.at = "mark" => Made(k.entry)
  BY DEF Waiting, Made
<1>2. WaitlistShapes' /\ InOrder'
  BY <1>1, CallMoves DEF WaitlistShapes
<1>3. /\ call' \in [Call -> WaitlistCalls]
      /\ call'[c] = k
      /\ \A d \in Call \ {c} : call'[d] = call[d]
  BY WaitlistCallTo
<1>4. Told' = Told
  <2>1. ~At(c, "tell") /\ (IF k.at = "tell" THEN {k.entry} ELSE {}) = {}
    BY DEF At, Idle
  <2>. QED  BY <2>1, ToldMoves
<1>5. Waiting' = Waiting
  BY DEF Waiting
<1>6. InTurn'
  <2>. SUFFICES ASSUME oneByOne' PROVE InTurn'
    BY DEF InTurn
  <2>1. \A d \in Call \ {c} : call'[d] = Idle
    BY <1>3 DEF InTurn, At, Idle
  <2>2. \A d \in Call : At(d, "mark")' => call'[d].entry \in Waiting
    BY <1>3, <2>1 DEF At, Idle
  <2>3. \A d \in Call, b \in Call : call'[d] # Idle /\ call'[b] # Idle => d = b
    BY <2>1
  <2>. QED  BY <1>4, <1>5, <2>2, <2>3 DEF InTurn
<1>. QED  BY <1>2, <1>6

LEMMA BeginSteps ==
  ASSUME WaitlistShapes, InOrder, InTurn, NEW c \in Call, NEW o \in Opening, CancelForOpening(c, o)
  PROVE  WaitlistShapes' /\ InOrder' /\ InTurn'
<1>. DEFINE k == [at |-> "seek", opening |-> o, query |-> 1, since |-> Len(joined)]
<1>1. /\ call[c] = Idle /\ call' = [call EXCEPT ![c] = k]
      /\ UNCHANGED <<entry, joined, offers, jobs>>
  BY DEF CancelForOpening, Enter
<1>2. oneByOne' \in BOOLEAN /\ (oneByOne' => oneByOne /\ \A d \in Call : call[d] = Idle)
  BY DEF CancelForOpening, WaitlistShapes
<1>3. Candidates \in Nat \ {0} /\ Len(joined) \in Nat
  BY WaitlistAssumption DEF WaitlistShapes
<1>4. k \in WaitlistCalls /\ k.at = "seek" /\ k.since <= Len(joined)
  BY <1>3 DEF WaitlistCalls, Seeking
<1>5. Sought(k)
  <2>1. 1 .. k.query - 1 = {}
    OBVIOUS
  <2>. QED  BY <2>1 DEF Sought
<1>. HIDE DEF k
<1>. QED  BY <1>1, <1>2, <1>4, <1>5, SeekMoves

LEMMA FindSteps ==
  ASSUME WaitlistShapes, InOrder, InTurn, NEW c \in Call, FindFirst(c)
  PROVE  WaitlistShapes' /\ InOrder' /\ InTurn'
<1>1. /\ At(c, "seek") /\ call[c] \in Seeking /\ call[c] # Idle
      /\ UNCHANGED <<entry, joined, offers, jobs, oneByOne>> /\ oneByOne' \in BOOLEAN
  BY BusyCall DEF FindFirst, At, Idle, Offering, WaitlistShapes
<1>2. /\ call[c].opening \in Opening /\ call[c].query \in 1 .. Candidates
      /\ call[c].since \in 0 .. Len(joined) /\ Sought(call[c]) /\ Candidates \in Nat
  BY <1>1, BusyCall, WaitlistAssumption DEF InOrder
<1>3. CASE NextQuery(c) /\ call[c].query < Candidates
  <2>. DEFINE k == [at |-> "seek", opening |-> call[c].opening, query |-> call[c].query + 1,
                    since |-> call[c].since]
  <2>1. call' = [call EXCEPT ![c] = k]
    BY <1>1, <1>3 DEF NextQuery, Step, Seeking
  <2>2. k \in WaitlistCalls /\ k.at = "seek" /\ k.since <= Len(joined)
    BY <1>2, <1>3 DEF WaitlistCalls, Seeking
  <2>3. Sought(k)
    <3>. SUFFICES ASSUME NEW f \in Waiting, Position(f) <= call[c].since, NEW q \in 1 .. call[c].query
                  PROVE  q \notin entry[f].finds[call[c].opening]
      BY <1>2 DEF Sought
    <3>1. call[c].query \notin entry[f].finds[call[c].opening]
      BY <1>3 DEF NextQuery, Hits
    <3>2. q = call[c].query \/ q \in 1 .. call[c].query - 1
      BY <1>2
    <3>. QED  BY <1>2, <3>1, <3>2 DEF Sought
  <2>. HIDE DEF k
  <2>. QED  BY <1>1, <2>1, <2>2, <2>3, SeekMoves
<1>4. CASE NextQuery(c) /\ ~(call[c].query < Candidates)
  <2>1. call' = [call EXCEPT ![c] = Idle] /\ Idle \in WaitlistCalls /\ Idle.at = "idle"
    BY <1>4 DEF NextQuery, Return, WaitlistCalls, Idle
  <2>. QED  BY <1>1, <2>1, SeekMoves
<1>5. ASSUME NEW e \in Hits(call[c]), \A f \in Hits(call[c]) : Position(e) <= Position(f), Found(c, e)
      PROVE  WaitlistShapes' /\ InOrder' /\ InTurn'
  <2>. DEFINE k == [at |-> "mark", opening |-> call[c].opening, query |-> call[c].query,
                    since |-> call[c].since, entry |-> e]
  <2>1. e \in Waiting /\ e \in Entry /\ Made(e)
    BY DEF Hits, Waiting, Made
  <2>2. k \in WaitlistCalls /\ call' = [call EXCEPT ![c] = k] /\ k.at = "mark" /\ k.entry = e
        /\ k.since <= Len(joined)
    BY <1>2, <1>5, <2>1 DEF Found, Step, WaitlistCalls, Offering
  <2>3. Sought(k)
    BY <1>2 DEF Sought
  <2>4. Oldest(k)
    <3>. SUFFICES ASSUME NEW f \in Waiting, Position(f) < Position(e)
                  PROVE  call[c].query \notin entry[f].finds[call[c].opening]
      BY DEF Oldest
    <3>1. Position(e) \in Nat /\ Position(f) \in Nat
      BY <2>1, PositionOf DEF Waiting, Made
    <3>. QED  BY <1>5, <3>1 DEF Hits
  <2>. HIDE DEF k
  <2>. QED  BY <1>1, <2>1, <2>2, <2>3, <2>4, SeekMoves
<1>. QED  BY <1>3, <1>4, <1>5 DEF FindFirst

(* A request dies. *)
LEMMA DieSteps ==
  ASSUME WaitlistShapes, InOrder, InTurn, NEW c \in Call, DieOffering(c)
  PROVE  WaitlistShapes' /\ InOrder' /\ InTurn'
<1>1. Idle \in WaitlistCalls /\ call' = [call EXCEPT ![c] = Idle] /\ Idle.at = "idle"
      /\ UNCHANGED <<entry, joined, offers, jobs>> /\ oneByOne' = FALSE
  BY DEF DieOffering, Return, WaitlistCalls, Idle
<1>2. WaitlistShapes' /\ InOrder'
  BY <1>1, CallMoves DEF WaitlistShapes
<1>. QED  BY <1>1, <1>2 DEF InTurn

LEMMA Retell ==
  ASSUME NEW k \in Offering
  PROVE  [k EXCEPT !.at = "tell"] = [at |-> "tell", opening |-> k.opening, query |-> k.query,
                                     since |-> k.since, entry |-> k.entry]
  BY DEF Offering

LEMMA Remark ==
  ASSUME NEW k \in WaitlistRow
  PROVE  [k EXCEPT !.status = "NOTIFIED"] \in WaitlistRow
  BY DEF WaitlistRow

LEMMA MarkSteps ==
  ASSUME WaitlistShapes, InOrder, InTurn, NEW c \in Call, MarkNotified(c)
  PROVE  WaitlistShapes' /\ InOrder' /\ InTurn'
<1>. DEFINE e == call[c].entry
            k == [at |-> "tell", opening |-> call[c].opening, query |-> call[c].query,
                  since |-> call[c].since, entry |-> e]
<1>1. /\ e \in Entry /\ Made(e) /\ At(c, "mark") /\ call[c] # Idle /\ call[c] \in Offering
      /\ k \in WaitlistCalls /\ call' = [call EXCEPT ![c] = k] /\ k.at = "tell" /\ k.entry = e
  <2>1. At(c, "mark") /\ call[c] # Idle /\ Made(e)
    BY DEF MarkNotified, At, Idle, WaitlistShapes
  <2>2. call[c] \in Offering /\ e \in Entry
    BY <2>1, OfferingCall DEF Offering
  <2>3. call' = [call EXCEPT ![c] = k]
    BY <2>2, Retell DEF MarkNotified, Step
  <2>4. k \in WaitlistCalls
    BY <2>2 DEF WaitlistCalls, Offering
  <2>. QED  BY <2>1, <2>2, <2>3, <2>4
<1>2. UNCHANGED <<joined, jobs, oneByOne>> /\ offers' = offers + 1
  BY DEF MarkNotified
<1>3. /\ entry' \in [Entry -> WaitlistRow]
      /\ \A f \in Entry : entry'[f].finds = entry[f].finds /\ (Made(f)' <=> Made(f))
      /\ Waiting' = Waiting \ {e}
  <2>1. entry' = [entry EXCEPT ![e] = [entry[e] EXCEPT !.status = "NOTIFIED"]]
        /\ entry \in [Entry -> WaitlistRow]
    BY DEF MarkNotified, WaitlistShapes
  <2>2. entry' \in [Entry -> WaitlistRow]
    BY <1>1, <2>1, Remark
  <2>3. /\ entry'[e].finds = entry[e].finds /\ entry'[e].status = "NOTIFIED"
        /\ \A f \in Entry \ {e} : entry'[f] = entry[f]
    BY <1>1, <2>1 DEF WaitlistRow
  <2>. QED  BY <1>1, <2>2, <2>3 DEF Made, Waiting
<1>4. call' \in [Call -> WaitlistCalls] /\ call'[c] = k /\ \A d \in Call \ {c} : call'[d] = call[d]
  BY <1>1, WaitlistCallTo
<1>5. WaitlistShapes'
  <2>1. \A d \in Call : At(d, "mark")' \/ At(d, "tell")' => Made(call[d].entry)'
    <3>. SUFFICES ASSUME NEW d \in Call, At(d, "mark")' \/ At(d, "tell")'
                  PROVE  Made(call[d].entry)'
      OBVIOUS
    <3>1. CASE d = c
      BY <3>1, <1>1, <1>3, <1>4
    <3>2. CASE d # c
      <4>1. call'[d] = call[d] /\ (At(d, "mark") \/ At(d, "tell"))
        BY <3>2, <1>4 DEF At
      <4>2. call[d].entry \in Entry /\ Made(call[d].entry)
        BY <4>1, OfferingCall DEF WaitlistShapes, Offering
      <4>. QED  BY <4>1, <4>2, <1>3
    <3>. QED  BY <3>1, <3>2
  <2>2. \A d \in Call : call'[d] # Idle => call'[d].since <= Len(joined')
    BY <1>1, <1>2, <1>4 DEF WaitlistShapes
  <2>. QED  BY <1>2, <1>3, <1>4, <2>1, <2>2 DEF WaitlistShapes
<1>6. Told' = Told \cup {e}
  BY <1>1, ToldMoves DEF At
<1>7. (\A f : Position(f)' = Position(f)) /\ Waiting \subseteq Entry
  BY <1>2 DEF Position, Waiting
<1>8. InOrder'
  <2>1. ASSUME NEW d \in Call, call'[d] # Idle
        PROVE  Sought(call[d])'
    <3>1. call[d] # Idle /\ call'[d].since = call[d].since /\ call'[d].query = call[d].query
          /\ call'[d].opening = call[d].opening
      BY <1>1, <1>4, <2>1
    <3>2. Sought(call[d])
      BY <3>1 DEF InOrder
    <3>. QED  BY <1>3, <1>7, <3>1, <3>2 DEF Sought
  <2>2. ASSUME NEW d \in Call, At(d, "mark")' \/ At(d, "tell")'
        PROVE  Oldest(call[d])'
    <3>1. (At(d, "mark") \/ At(d, "tell")) /\ call'[d].entry = call[d].entry
          /\ call'[d].query = call[d].query /\ call'[d].opening = call[d].opening
      BY <1>1, <1>4, <2>2 DEF At
    <3>2. Oldest(call[d])
      BY <3>1 DEF InOrder
    <3>. QED  BY <1>3, <1>7, <3>1, <3>2 DEF Oldest
  <2>. QED  BY <2>1, <2>2 DEF InOrder
<1>9. InTurn'
  <2>. SUFFICES ASSUME oneByOne PROVE InTurn'
    BY <1>2 DEF InTurn
  <2>1. /\ e \in Waiting /\ IsFiniteSet(jobs \cup Told) /\ offers = Cardinality(jobs \cup Told)
        /\ (jobs \cup Told) \cap Waiting = {}
        /\ \A d \in Call \ {c} : call'[d] = Idle
    BY <1>1, <1>4 DEF InTurn
  <2>2. (jobs \cup Told)' = (jobs \cup Told) \cup {e}
    BY <1>2, <1>6
  <2>3. IsFiniteSet(jobs \cup Told)' /\ Cardinality(jobs \cup Told)' = Cardinality(jobs \cup Told) + 1
    BY <2>1, <2>2, FS_AddElement
  <2>4. \A d \in Call : ~At(d, "mark")'
    BY <1>1, <1>4, <2>1 DEF At, Idle
  <2>5. (\A d \in Call, b \in Call : call[d] # Idle /\ call[b] # Idle => d = b)'
    BY <2>1
  <2>. QED  BY <1>2, <1>3, <2>1, <2>2, <2>3, <2>4, <2>5 DEF InTurn
<1>. QED  BY <1>5, <1>8, <1>9

LEMMA TellSteps ==
  ASSUME WaitlistShapes, InOrder, InTurn, NEW c \in Call, NotifyWaitlistOpening(c)
  PROVE  WaitlistShapes' /\ InOrder' /\ InTurn'
<1>. DEFINE e == call[c].entry
<1>1. /\ e \in Entry /\ Made(e) /\ At(c, "tell") /\ call[c] # Idle
      /\ Idle \in WaitlistCalls /\ call' = [call EXCEPT ![c] = Idle] /\ Idle.at = "idle"
  <2>1. At(c, "tell") /\ call' = [call EXCEPT ![c] = Idle]
    BY DEF NotifyWaitlistOpening, Return
  <2>2. Idle \in WaitlistCalls /\ Idle.at = "idle"
    BY DEF WaitlistCalls, Idle
  <2>3. call[c] \in Offering /\ Made(e)
    BY <2>1, OfferingCall DEF WaitlistShapes
  <2>4. e \in Entry
    BY <2>3 DEF Offering
  <2>. QED  BY <2>1, <2>2, <2>3, <2>4 DEF At
<1>2. UNCHANGED <<entry, joined, offers, oneByOne>> /\ jobs' = jobs \cup {e}
  BY DEF NotifyWaitlistOpening
<1>3. WaitlistShapes' /\ InOrder'
  BY <1>1, <1>2, CallMoves DEF WaitlistShapes
<1>4. call'[c] = Idle /\ \A d \in Call \ {c} : call'[d] = call[d]
  BY <1>1, WaitlistCallTo
<1>5. Waiting' = Waiting
  BY <1>2 DEF Waiting
<1>6. (jobs \cup Told)' = jobs \cup Told
  BY <1>1, <1>2, <1>4 DEF Told, At, Idle
<1>7. InTurn'
  <2>. SUFFICES ASSUME oneByOne PROVE InTurn'
    BY <1>2 DEF InTurn
  <2>1. \A d \in Call : call'[d] = Idle
    BY <1>1, <1>4 DEF InTurn
  <2>2. \A d \in Call : ~At(d, "mark")'
    BY <2>1 DEF At, Idle
  <2>. QED  BY <1>2, <1>5, <1>6, <2>1, <2>2 DEF InTurn
<1>. QED  BY <1>3, <1>7

WaitlistInv == WaitlistShapes /\ InOrder /\ InTurn

LEMMA WaitlistInvStep == WaitlistInv /\ [WaitlistNext]_waitlistVars => WaitlistInv'
<1>. SUFFICES ASSUME WaitlistShapes, InOrder, InTurn, [WaitlistNext]_waitlistVars
              PROVE  WaitlistShapes' /\ InOrder' /\ InTurn'
  BY DEF WaitlistInv
<1>1. CASE UNCHANGED waitlistVars
  <2>1. Told' = Told /\ Waiting' = Waiting /\ \A f : Position(f)' = Position(f)
    BY <1>1 DEF waitlistVars, Told, Waiting, At, Position
  <2>2. InOrder'
    BY <1>1, <2>1 DEF waitlistVars, InOrder, Sought, Oldest, At
  <2>3. InTurn'
    BY <1>1, <2>1 DEF waitlistVars, InTurn, At
  <2>4. WaitlistShapes'
    BY <1>1 DEF waitlistVars, WaitlistShapes, Made, At
  <2>. QED  BY <2>2, <2>3, <2>4
<1>. QED  BY <1>1, JoinSteps, LeaveSteps, BeginSteps, FindSteps, MarkSteps, TellSteps, DieSteps
          DEF WaitlistNext

LEMMA WaitlistInvInit == WaitlistInit => WaitlistInv
  BY WaitlistInit1 DEF WaitlistInv

LEMMA WaitlistInvAlways == WaitlistSpec => []WaitlistInv
  BY WaitlistInvInit, WaitlistInvStep, PTL DEF WaitlistSpec

(* When cancellations come one after another, each that finds somebody       *)
(* waiting is offered to a client of its own.                                *)
THEOREM OpeningsReachClientsAlways == WaitlistSpec => []OpeningsReachClients
<1>1. WaitlistInv => OpeningsReachClients
  BY DEF WaitlistInv, InTurn, OpeningsReachClients, Told
<1>. QED  BY <1>1, WaitlistInvAlways, PTL

(* Nobody who joined earlier is passed over by the query that finds          *)
(* somebody, and nobody who waited when the search began by one before it,   *)
(* although cancellations overlap and clients join between two queries.      *)
THEOREM OldestFirstAlways == WaitlistSpec => []OldestFirst
<1>1. WaitlistInv => OldestFirst
  <2>1. \A c \in Call : At(c, "mark") \/ At(c, "tell") => call[c] # Idle
    BY DEF At, Idle
  <2>. QED  BY <2>1 DEF WaitlistInv, InOrder, Sought, Oldest, OldestFirst
<1>. QED  BY <1>1, WaitlistInvAlways, PTL

(* One who left is not called back by a cancellation that comes later. *)
THEOREM LeaversStayAwayAlways == WaitlistSpec => LeaversStayAway
<1>. DEFINE Away == oneByOne => \A e \in Entry : entry[e].status = "CANCELLED" =>
                                    entry'[e].status = "CANCELLED"
<1>1. ASSUME WaitlistInv, WaitlistNext
      PROVE  Away
  <2>1. ASSUME NEW e \in Entry, NEW finds \in [Opening -> Matches], Join(e, finds)
        PROVE  Away
    BY <2>1, <1>1 DEF Join, WaitlistInv, WaitlistShapes
  <2>2. ASSUME NEW e \in Entry, Leave(e)
        PROVE  Away
    BY <2>2, <1>1 DEF Leave, WaitlistInv, WaitlistShapes, WaitlistRow
  <2>3. ASSUME NEW c \in Call, MarkNotified(c)
        PROVE  Away
    BY <2>3, <1>1 DEF MarkNotified, WaitlistInv, WaitlistShapes, InTurn, Waiting
  <2>4. ASSUME NEW c \in Call, \/ \E o \in Opening : CancelForOpening(c, o)
                               \/ FindFirst(c) \/ NotifyWaitlistOpening(c) \/ DieOffering(c)
        PROVE  Away
    BY <2>4 DEF CancelForOpening, FindFirst, NotifyWaitlistOpening, DieOffering
  <2>. QED  BY <1>1, <2>1, <2>2, <2>3, <2>4 DEF WaitlistNext
<1>2. WaitlistInv /\ [WaitlistNext]_waitlistVars => [Away]_waitlistVars
  BY <1>1
<1>3. WaitlistSpec => [][Away]_waitlistVars
  BY <1>2, WaitlistInvInit, WaitlistInvStep, PTL DEF WaitlistSpec
<1>. QED  BY <1>3 DEF LeaversStayAway

-----------------------------------------------------------------------------
(***************************************************************************)
(* Imports. A confirmation in flight has read the batch that there is;     *)
(* and the addresses of an imported batch are those of clients, so that its*)
(* rows do not go in again.                                                *)
(***************************************************************************)

Batch == [status : {"NONE", "UPLOADED", "IMPORTED"}, valid : SUBSET ImportRow]
Importing == [at : {"stage", "import"}, valid : SUBSET ImportRow]

HasAddress == \E r \in staged.valid : file[r] # NoEmail

(* A request imports the batch that there is; and when a batch is imported,  *)
(* its addresses are those of clients, so that it does not go in again.      *)
ImportsInv ==
    /\ file \in [ImportRow -> Email \cup {NoEmail}]
    /\ staged \in Batch
    /\ imported \in [ImportRow -> Nat]
    /\ call \in [Call -> {Idle} \cup Importing]
    /\ \A c \in Call : At(c, "import") => staged.status # "NONE" /\ call[c].valid = staged.valid
    /\ staged.status # "IMPORTED" => \A r \in ImportRow : imported[r] = 0
    /\ staged.status = "IMPORTED" =>
         /\ \A r \in ImportRow : imported[r] > 0 <=> r \in staged.valid
         /\ \A r \in staged.valid : file[r] # NoEmail => file[r] \in emails
    /\ HasAddress => \A r \in ImportRow : imported[r] <= 1

LEMMA ImportsInvInit == ImportsInit => ImportsInv
  BY DEF ImportsInit, HandlersInit, ImportsInv, Batch, Idle, At, HasAddress

LEMMA ImportsCallTo ==
  ASSUME ImportsInv, NEW c \in Call, NEW k \in {Idle} \cup Importing,
         call' = [call EXCEPT ![c] = k]
  PROVE  /\ call' \in [Call -> {Idle} \cup Importing]
         /\ call'[c] = k
         /\ \A d \in Call \ {c} : call'[d] = call[d]
  BY DEF ImportsInv

(* A request that ends, and leaves the rest alone. *)
LEMMA ImportsReturn ==
  ASSUME ImportsInv, NEW c \in Call, Return(c), UNCHANGED <<file, staged, emails, imported>>
  PROVE  ImportsInv'
<1>1. /\ call' \in [Call -> {Idle} \cup Importing]
      /\ call'[c] = Idle
      /\ \A d \in Call \ {c} : call'[d] = call[d]
  BY ImportsCallTo, Zenon DEF Return
<1>. QED  BY <1>1 DEF ImportsInv, At, Idle, HasAddress

LEMMA ImportsStage ==
  ASSUME ImportsInv, NEW c \in Call, StageRows(c)
  PROVE  ImportsInv'
<1>1. CASE staged.status # "NONE"
  <2>1. staged' = staged
    BY <1>1 DEF StageRows
  <2>. QED  BY <2>1, ImportsReturn DEF StageRows
<1>2. CASE staged.status = "NONE"
  <2>1. call[c].valid \in SUBSET ImportRow
    BY DEF StageRows, At, ImportsInv, Importing, Idle
  <2>2. staged' = [status |-> "UPLOADED", valid |-> call[c].valid]
    BY <1>2 DEF StageRows
  <2>3. /\ call' \in [Call -> {Idle} \cup Importing]
        /\ call'[c] = Idle
        /\ \A d \in Call \ {c} : call'[d] = call[d]
    BY ImportsCallTo, Zenon DEF StageRows, Return
  <2>4. \A d \in Call : ~At(d, "import")'
    BY <1>2, <2>3 DEF At, Idle, ImportsInv
  <2>5. UNCHANGED <<file, emails, imported>>
    BY DEF StageRows
  <2>6. \A r \in ImportRow : imported[r] = 0
    BY <1>2 DEF ImportsInv
  <2>. QED  BY <2>1, <2>2, <2>3, <2>4, <2>5, <2>6 DEF ImportsInv, Batch, HasAddress
<1>. QED  BY <1>1, <1>2

LEMMA ImportsRead ==
  ASSUME ImportsInv, NEW c \in Call, ReadClients(c) \/ RequestImport(c)
  PROVE  ImportsInv'
<1>1. \E k \in Importing :
        /\ call' = [call EXCEPT ![c] = k]
        /\ k.at = "import" => staged.status # "NONE" /\ k.valid = staged.valid
  BY DEF ReadClients, RequestImport, Enter, Importing, ImportsInv, Batch
<1>2. PICK k \in Importing :
        /\ call' = [call EXCEPT ![c] = k]
        /\ k.at = "import" => staged.status # "NONE" /\ k.valid = staged.valid
  BY <1>1
<1>3. /\ call' \in [Call -> {Idle} \cup Importing]
      /\ call'[c] = k
      /\ \A d \in Call \ {c} : call'[d] = call[d]
  BY <1>2, ImportsCallTo
<1>4. UNCHANGED <<file, staged, emails, imported>>
  BY DEF ReadClients, RequestImport
<1>. QED  BY <1>2, <1>3, <1>4 DEF ImportsInv, At, HasAddress

(* The whole batch goes in, for the first time or without an address. *)
LEMMA ImportsInsert ==
  ASSUME ImportsInv, NEW c \in Call, At(c, "import"), AllNew(call[c].valid),
         Inserted(c, call[c].valid)
  PROVE  ImportsInv'
<1>1. staged.status # "NONE" /\ call[c].valid = staged.valid /\ staged.valid \subseteq ImportRow
  BY DEF ImportsInv, Batch
<1>2. /\ staged' = [status |-> "IMPORTED", valid |-> staged.valid]
      /\ file' = file
      /\ emails' = emails \cup ({file[r] : r \in staged.valid} \ {NoEmail})
      /\ imported' = [r \in ImportRow |->
                        imported[r] + (IF r \in staged.valid THEN 1 ELSE 0)]
  BY <1>1 DEF Inserted, ImportsInv, Batch
<1>3. /\ call' \in [Call -> {Idle} \cup Importing]
      /\ call'[c] = Idle
      /\ \A d \in Call \ {c} : call'[d] = call[d]
  BY ImportsCallTo, Zenon DEF Inserted, Return
<1>4. \A d \in Call : At(d, "import")' => call'[d].valid = staged.valid
  BY <1>3 DEF ImportsInv, At, Idle
<1>5. imported' \in [ImportRow -> Nat]
  BY <1>2 DEF ImportsInv
<1>6. \A r \in ImportRow : imported'[r] > 0 <=> r \in staged.valid
  BY <1>2 DEF ImportsInv, Batch
<1>7. HasAddress => staged.status = "UPLOADED"
  BY <1>1 DEF ImportsInv, Batch, HasAddress, AllNew
<1>8. HasAddress => \A r \in ImportRow : imported'[r] <= 1
  BY <1>2, <1>7 DEF ImportsInv
<1>9. \A r \in staged.valid : file[r] # NoEmail => file[r] \in emails'
  BY <1>2
<1>. QED  BY <1>1, <1>2, <1>3, <1>4, <1>5, <1>6, <1>8, <1>9 DEF ImportsInv, Batch, HasAddress

LEMMA ImportsInvStep == ImportsInv /\ [ImportsNext]_importsVars => ImportsInv'
<1>. SUFFICES ASSUME ImportsInv, [ImportsNext]_importsVars
              PROVE  ImportsInv'
  OBVIOUS
<1>1. ASSUME NEW email \in Email, AddClient(email)
      PROVE  ImportsInv'
  BY <1>1 DEF AddClient, ImportsInv, At, HasAddress
<1>2. ASSUME NEW c \in Call, ConfirmImport(c)
      PROVE  ImportsInv'
  BY <1>2, ImportsInsert, ImportsReturn DEF ConfirmImport
<1>3. ASSUME NEW c \in Call, DieImporting(c)
      PROVE  ImportsInv'
  BY <1>3, ImportsReturn DEF DieImporting
<1>4. CASE UNCHANGED importsVars
  BY <1>4 DEF importsVars, ImportsInv, At, HasAddress
<1>. QED  BY <1>1, <1>2, <1>3, <1>4, ImportsStage, ImportsRead DEF ImportsNext

LEMMA ImportsInvMeans == ImportsInv => ImportedWhole /\ ImportedOnce
  BY DEF ImportsInv, ImportedWhole, ImportedOnce, HasAddress, Batch

LEMMA ImportsInvAlways == ImportsSpec => []ImportsInv
<1>1. ImportsInv /\ [ImportsNext]_importsVars => ImportsInv'
  BY ImportsInvStep
<1>. QED  BY <1>1, ImportsInvInit, PTL DEF ImportsSpec

(* A batch makes a client of every row that it called VALID, or of none,     *)
(* however many requests confirm it at once and whoever registers meanwhile. *)
THEOREM ImportedWholeAlways == ImportsSpec => []ImportedWhole
  BY ImportsInvAlways, ImportsInvMeans, PTL

(* A batch with an address in it is imported once: the second confirmation   *)
(* meets the addresses of the first and fails as a whole.                    *)
THEOREM ImportedOnceAlways == ImportsSpec => []ImportedOnce
  BY ImportsInvAlways, ImportsInvMeans, PTL

-----------------------------------------------------------------------------
(***************************************************************************)
(* FollowUps. A tracker that is owed a message is open, so that no worker  *)
(* throws the message away; and while nothing overlaps, what a call or the *)
(* scan in flight has read or closed is still so.                          *)
(***************************************************************************)

TrackerRow == [status : {"NONE", "SCHEDULED", "DUE", "CANCELLED"},
               repeats : BOOLEAN, ripe : BOOLEAN, of : BOOLEAN]
FollowUpJob == {NoJob} \cup [state : {"wait", "held", "failed"}, left : Nat]

Setting == [at : {"replace", "create"}, of : BOOLEAN]
Handling == [at : {"invite", "advance", "move"}, due : Tracker, repeats : BOOLEAN]
Deleting == [at : {"stop", "drop"}]
FollowUpCalls == {Idle} \cup Setting \cup Handling \cup Deleting

FollowUpShapes ==
    /\ tracker \in [Tracker -> TrackerRow]
    /\ followUp \in [Tracker -> FollowUpJob]
    /\ scan \subseteq Tracker
    /\ orderly \in BOOLEAN
    /\ call \in [Call -> FollowUpCalls]
    /\ \A c \in Call : call[c] \in Handling => FollowUpExists(call[c].due)

(* A tracker that was closed is owed nothing, so that the worker may drop its *)
(* message.                                                                   *)
OwedOpen ==
    /\ owed \subseteq Tracker
    /\ ApprovedIsWritten
    /\ \A t \in owed : tracker[t].status # "CANCELLED"

(* Between a replacement and its new tracker there is no open one of its kind, *)
(* and between the two steps of deleting a policy none of the policy.          *)
Orderly ==
    orderly =>
        /\ \A c, d \in Call : call[c] # Idle /\ call[d] # Idle => c = d
        /\ scan # {} => \A c \in Call : call[c] = Idle
        /\ \A t \in scan : tracker[t].status = "SCHEDULED" /\ tracker[t].ripe
        /\ \A t \in Tracker : tracker[t].status = "DUE" => tracker[t].ripe
        /\ \A t, u \in OpenFollowUps \ visited : tracker[t].of = tracker[u].of => t = u
        /\ \A c \in Call : At(c, "create") =>
             \A t \in OpenFollowUps \ visited : tracker[t].of # call[c].of
        /\ \A c \in Call : At(c, "drop") => \A t \in OpenFollowUps : ~tracker[t].of

LEMMA FollowUpCallTo ==
  ASSUME FollowUpShapes, NEW c \in Call, NEW k \in FollowUpCalls, call' = [call EXCEPT ![c] = k]
  PROVE  /\ call' \in [Call -> FollowUpCalls]
         /\ call'[c] = k
         /\ \A d \in Call \ {c} : call'[d] = call[d]
  BY DEF FollowUpShapes

LEMMA FollowUpCallIs ==
  ASSUME FollowUpShapes, NEW c \in Call
  PROVE  /\ At(c, "replace") \/ At(c, "create") => call[c] \in Setting /\ call[c] # Idle
         /\ At(c, "invite") \/ At(c, "advance") \/ At(c, "move") =>
              call[c] \in Handling /\ call[c] # Idle
         /\ At(c, "stop") \/ At(c, "drop") => call[c] \in Deleting /\ call[c] # Idle
  BY DEF FollowUpShapes, FollowUpCalls, Setting, Handling, Deleting, Idle, At

LEMMA Onward ==
  ASSUME NEW where
  PROVE  /\ \A k \in Setting : [k EXCEPT !.at = where] = [at |-> where, of |-> k.of]
         /\ \A k \in Handling : [k EXCEPT !.at = where] =
                                  [at |-> where, due |-> k.due, repeats |-> k.repeats]
  BY DEF Setting, Handling

-----------------------------------------------------------------------------
(* How a step may change the trackers *)

TrackersStep ==
    /\ tracker' \in [Tracker -> TrackerRow]
    /\ \A t \in Tracker : FollowUpExists(t) => FollowUpExists(t)'

(* How it may change what is in flight *)
FollowUpCallsStep ==
    \/ call' = call
    \/ \E c \in Call, k \in FollowUpCalls :
         call' = [call EXCEPT ![c] = k] /\ (k \in Handling => FollowUpExists(k.due))

LEMMA HandlingIs ==
  ASSUME NEW k \in FollowUpCalls
  PROVE  k \in Handling <=> k.at \in {"invite", "advance", "move"}
  BY DEF FollowUpCalls, Setting, Handling, Deleting, Idle

LEMMA ShapesFrom ==
  ASSUME FollowUpShapes, TrackersStep, FollowUpCallsStep, followUp' \in [Tracker -> FollowUpJob],
         scan' \subseteq Tracker, orderly' \in BOOLEAN
  PROVE  FollowUpShapes'
<1>1. call' \in [Call -> FollowUpCalls]
  BY FollowUpCallTo DEF FollowUpCallsStep, FollowUpShapes
<1>2. \A c \in Call : call'[c] \in Handling => FollowUpExists(call'[c].due)
  BY FollowUpCallTo DEF FollowUpCallsStep, FollowUpShapes
<1>3. \A c \in Call : call'[c] \in Handling => call'[c].due \in Tracker
  BY DEF Handling
<1>4. \A c \in Call : call'[c] \in Handling => FollowUpExists(call[c].due)'
  BY <1>2, <1>3 DEF TrackersStep, FollowUpExists
<1>. QED  BY <1>1, <1>4 DEF FollowUpShapes, TrackersStep

LEMMA ClosedRows ==
  ASSUME FollowUpShapes, NEW closed, NEW of \in BOOLEAN, Closed(closed, of),
         \A t \in closed : t \in Tracker => FollowUpExists(t)
  PROVE  TrackersStep
  BY DEF FollowUpShapes, Closed, TrackersStep, TrackerRow, FollowUpExists

(* The trackers change by one row, which stays one. *)
LEMMA OneRow ==
  ASSUME FollowUpShapes, NEW t \in Tracker, NEW row \in TrackerRow, row.status # "NONE",
         tracker' = [tracker EXCEPT ![t] = row]
  PROVE  TrackersStep
  BY DEF FollowUpShapes, TrackersStep, FollowUpExists

LEMMA ReturnStep ==
  ASSUME NEW c \in Call, Return(c)
  PROVE  FollowUpCallsStep
<1>1. Idle \in FollowUpCalls /\ Idle \notin Handling
  BY DEF FollowUpCalls, Idle, Handling
<1>. QED  BY <1>1 DEF Return, FollowUpCallsStep

LEMMA RequestShapes ==
  ASSUME FollowUpShapes, NEW c \in Call, NEW k \in FollowUpCalls, EnterFollowUp(c, k),
         k \in Handling => FollowUpExists(k.due)
  PROVE  FollowUpShapes'
<1>1. FollowUpCallsStep
  BY DEF EnterFollowUp, Enter, FollowUpCallsStep
<1>2. TrackersStep /\ UNCHANGED <<followUp, scan>>
  BY DEF EnterFollowUp, TrackersStep, FollowUpShapes, FollowUpExists
<1>3. orderly' \in BOOLEAN
  BY DEF EnterFollowUp, Ask, FollowUpShapes
<1>. QED  BY <1>1, <1>2, <1>3, ShapesFrom DEF FollowUpShapes

LEMMA ShapesOfRequests ==
  ASSUME FollowUpShapes, NEW c \in Call, NEW t \in Tracker,
         RequestApprove(c, t) \/ RequestMove(c, t)
  PROVE  FollowUpShapes'
<1>1. CASE RequestApprove(c, t)
  <2>. DEFINE k == [at |-> "invite", due |-> t, repeats |-> tracker[t].repeats]
  <2>1. k \in FollowUpCalls /\ k.due = t
    BY DEF FollowUpShapes, TrackerRow, FollowUpCalls, Handling
  <2>2. EnterFollowUp(c, k) /\ FollowUpExists(t)
    BY <1>1 DEF RequestApprove
  <2>. HIDE DEF k
  <2>. QED  BY <2>1, <2>2, RequestShapes
<1>2. CASE RequestMove(c, t)
  <2>. DEFINE k == [at |-> "move", due |-> t, repeats |-> tracker[t].repeats]
  <2>1. k \in FollowUpCalls /\ k.due = t
    BY DEF FollowUpShapes, TrackerRow, FollowUpCalls, Handling
  <2>2. EnterFollowUp(c, k) /\ FollowUpExists(t)
    BY <1>2 DEF RequestMove
  <2>. HIDE DEF k
  <2>. QED  BY <2>1, <2>2, RequestShapes
<1>. QED  BY <1>1, <1>2

LEMMA ShapesOfReplace ==
  ASSUME FollowUpShapes, NEW c \in Call, ReplaceOpen(c) \/ StopTrackers(c)
  PROVE  FollowUpShapes'
<1>1. CASE ReplaceOpen(c)
  <2>. DEFINE k == [at |-> "create", of |-> call[c].of]
  <2>1. call[c] \in Setting
    BY <1>1, FollowUpCallIs DEF ReplaceOpen
  <2>2. call' = [call EXCEPT ![c] = k]
    BY <1>1, <2>1, Onward DEF ReplaceOpen, Step
  <2>3. k \in FollowUpCalls /\ k \notin Handling
    BY <2>1 DEF FollowUpCalls, Setting, Handling
  <2>4. TrackersStep
    BY <1>1, <2>1, ClosedRows DEF ReplaceOpen, Replaced, OpenFollowUps, FollowUpExists, Setting
  <2>5. FollowUpCallsStep
    BY <2>2, <2>3, Zenon DEF FollowUpCallsStep
  <2>. QED  BY <1>1, <2>4, <2>5, ShapesFrom DEF ReplaceOpen, FollowUpShapes
<1>2. CASE StopTrackers(c)
  <2>. DEFINE k == [at |-> "drop"]
  <2>1. call' = [call EXCEPT ![c] = k] /\ k \in FollowUpCalls /\ k \notin Handling
    BY <1>2 DEF StopTrackers, Step, FollowUpCalls, Deleting, Handling
  <2>2. TrackersStep
    <3>. DEFINE closed == {t \in OpenFollowUps : tracker[t].of}
                of == FALSE
    <3>1. Closed(closed, of) /\ of \in BOOLEAN
      BY <1>2 DEF StopTrackers
    <3>2. \A t \in closed : t \in Tracker => FollowUpExists(t)
      BY DEF OpenFollowUps, FollowUpExists
    <3>. HIDE DEF closed, of
    <3>. QED  BY <3>1, <3>2, ClosedRows
  <2>. QED  BY <1>2, <2>1, <2>2, ShapesFrom DEF StopTrackers, FollowUpCallsStep, FollowUpShapes
<1>. QED  BY <1>1, <1>2

LEMMA ScheduledRow ==
  ASSUME FollowUpShapes, NEW t \in Tracker, NEW repeats \in BOOLEAN, NEW ripe \in BOOLEAN,
         NEW of \in BOOLEAN, Schedule(t, repeats, ripe, of)
  PROVE  TrackersStep
  BY DEF Schedule, FollowUpShapes, TrackerRow, TrackersStep, FollowUpExists

LEMMA ShapesOfEndings ==
  ASSUME FollowUpShapes, NEW c \in Call,
         CreateDue(c) \/ Move(c) \/ DropPolicy(c) \/ DieFollowingUp(c) \/ Advance(c)
  PROVE  FollowUpShapes'
<1>1. FollowUpCallsStep
  BY ReturnStep DEF CreateDue, Move, DropPolicy, DieFollowingUp, Advance
<1>2. TrackersStep
  <2>1. CASE CreateDue(c)
    <3>1. call[c].of \in BOOLEAN
      BY <2>1, FollowUpCallIs DEF CreateDue, Setting
    <3>2. CASE UNCHANGED tracker
      BY <3>2 DEF TrackersStep, FollowUpShapes, FollowUpExists
    <3>. QED  BY <2>1, <3>1, <3>2, ScheduledRow DEF CreateDue
  <2>2. CASE Move(c)
    <3>1. call[c].due \in Tracker /\ call[c].repeats \in BOOLEAN
      BY <2>2, FollowUpCallIs DEF Move, Handling
    <3>. DEFINE t == call[c].due
    <3>2. PICK repeats \in {call[c].repeats, TRUE}, ripe \in BOOLEAN :
            tracker' = [tracker EXCEPT ![t].status = "SCHEDULED",
                                       ![t].repeats = repeats,
                                       ![t].ripe = ripe]
      BY <2>2 DEF Move
    <3>. DEFINE row == [tracker[t] EXCEPT !.status = "SCHEDULED", !.repeats = repeats,
                                          !.ripe = ripe]
    <3>3. tracker[t] \in TrackerRow /\ repeats \in BOOLEAN
      BY <3>1 DEF FollowUpShapes
    <3>4. row \in TrackerRow /\ row.status # "NONE"
      BY <3>3 DEF TrackerRow
    <3>5. tracker' = [tracker EXCEPT ![t] = row]
      BY <3>1, <3>2 DEF FollowUpShapes
    <3>. QED  BY <3>1, <3>4, <3>5, OneRow
  <2>3. CASE DropPolicy(c)
    BY <2>3 DEF DropPolicy, TrackersStep, FollowUpShapes, TrackerRow, FollowUpExists
  <2>4. CASE DieFollowingUp(c)
    BY <2>4 DEF DieFollowingUp, TrackersStep, FollowUpShapes, FollowUpExists
  <2>5. CASE Advance(c)
    <3>. DEFINE t == call[c].due
    <3>1. t \in Tracker /\ tracker[t] \in TrackerRow /\ FollowUpExists(t)
      BY <2>5, FollowUpCallIs DEF Advance, Handling, FollowUpShapes
    <3>2. CASE tracker' = [tracker EXCEPT ![t] = NextDate(@)]
      <4>1. NextDate(tracker[t]) \in TrackerRow /\ NextDate(tracker[t]).status # "NONE"
        BY <3>1 DEF NextDate, TrackerRow
      <4>. QED  BY <3>1, <3>2, <4>1, OneRow DEF FollowUpShapes
    <3>3. CASE Closed({t}, tracker[t].of)
      <4>1. tracker[t].of \in BOOLEAN
        BY <3>1 DEF TrackerRow
      <4>. QED  BY <3>1, <3>3, <4>1, ClosedRows
    <3>. QED  BY <2>5, <3>2, <3>3 DEF Advance
  <2>. QED  BY <2>1, <2>2, <2>3, <2>4, <2>5
<1>3. UNCHANGED <<followUp, scan>>
  BY DEF CreateDue, Move, DropPolicy, DieFollowingUp, Advance
<1>4. orderly' \in BOOLEAN
  <2>1. CASE Move(c) \/ Advance(c)
    BY <2>1 DEF Move, Advance, FollowUpShapes
  <2>2. CASE CreateDue(c) \/ DropPolicy(c) \/ DieFollowingUp(c)
    BY <2>2 DEF CreateDue, DropPolicy, DieFollowingUp, FollowUpShapes
  <2>. QED  BY <2>1, <2>2
<1>. QED  BY <1>1, <1>2, <1>3, <1>4, ShapesFrom DEF FollowUpShapes

LEMMA ShapesOfInvite ==
  ASSUME FollowUpShapes, NEW c \in Call, Invite(c)
  PROVE  FollowUpShapes'
<1>. DEFINE k == [at |-> "advance", due |-> call[c].due, repeats |-> call[c].repeats]
<1>1. call[c] \in Handling /\ FollowUpExists(call[c].due)
  BY FollowUpCallIs DEF Invite, FollowUpShapes
<1>2. call' = [call EXCEPT ![c] = k] /\ k \in FollowUpCalls /\ k.due = call[c].due
  BY <1>1, Onward DEF Invite, Step, FollowUpCalls, Handling
<1>3. FollowUpCallsStep
  <2>. HIDE DEF k
  <2>. QED  BY <1>1, <1>2 DEF FollowUpCallsStep
<1>4. followUp' \in [Tracker -> FollowUpJob]
  BY DEF Invite, FollowUpShapes, FollowUpJob
<1>5. UNCHANGED <<tracker, scan, orderly>>
  BY DEF Invite
<1>6. TrackersStep
  BY <1>5 DEF TrackersStep, FollowUpShapes, FollowUpExists
<1>. QED  BY <1>3, <1>4, <1>5, <1>6, ShapesFrom DEF FollowUpShapes

LEMMA ShapesOfTrackers ==
  ASSUME FollowUpShapes, NEW t \in Tracker,
         DateArrives(t) \/ CancelFollowUp(t) \/ CompleteVisit(t) \/ MarkDue(t)
  PROVE  FollowUpShapes'
<1>1. TrackersStep
  <2>1. CASE DateArrives(t)
    BY <2>1 DEF DateArrives, TrackersStep, FollowUpShapes, TrackerRow, FollowUpExists
  <2>2. CASE CancelFollowUp(t)
    <3>1. tracker[t].of \in BOOLEAN
      BY DEF FollowUpShapes, TrackerRow
    <3>. QED  BY <2>2, <3>1, ClosedRows DEF CancelFollowUp
  <2>3. CASE CompleteVisit(t)
    BY <2>3, ScheduledRow DEF CompleteVisit
  <2>4. CASE MarkDue(t)
    BY <2>4 DEF MarkDue, TrackersStep, FollowUpShapes, TrackerRow, FollowUpExists
  <2>. QED  BY <2>1, <2>2, <2>3, <2>4
<1>2. UNCHANGED <<followUp, call>> /\ scan' \subseteq Tracker
  BY DEF DateArrives, CancelFollowUp, CompleteVisit, MarkDue, FollowUpShapes
<1>3. orderly' \in BOOLEAN
  BY DEF DateArrives, CancelFollowUp, CompleteVisit, MarkDue, Ask, FollowUpShapes
<1>. QED  BY <1>1, <1>2, <1>3, ShapesFrom DEF FollowUpCallsStep, FollowUpShapes

LEMMA ShapesOfWorkers ==
  ASSUME FollowUpShapes, NEW t \in Tracker,
         \/ TakeFollowUp(t) \/ SendFollowUp(t) \/ FailFollowUp(t) \/ LoseWorker(t)
         \/ PurgeFollowUp(t)
  PROVE  FollowUpShapes'
<1>1. UNCHANGED <<tracker, scan, orderly, call>>
  BY DEF TakeFollowUp, SendFollowUp, FailFollowUp, LoseWorker, PurgeFollowUp
<1>2. \E j \in FollowUpJob : JobBecomes(t, j)
  BY DEF TakeFollowUp, SendFollowUp, FailFollowUp, LoseWorker, PurgeFollowUp, FollowUpShapes,
         FollowUpJob, NoJob
<1>3. followUp' \in [Tracker -> FollowUpJob]
  BY <1>2 DEF JobBecomes, FollowUpShapes
<1>4. TrackersStep
  BY <1>1 DEF TrackersStep, FollowUpShapes, FollowUpExists
<1>. QED  BY <1>1, <1>3, <1>4, ShapesFrom DEF FollowUpCallsStep, FollowUpShapes

LEMMA FollowUpShapesStep == FollowUpShapes /\ [FollowUpsNext]_followUpsVars => FollowUpShapes'
<1>. SUFFICES ASSUME FollowUpShapes, [FollowUpsNext]_followUpsVars PROVE FollowUpShapes'
  OBVIOUS
<1>1. ASSUME NEW enabled \in {"on", "off"}, EnablePolicy(enabled)
      PROVE  FollowUpShapes'
  BY <1>1 DEF EnablePolicy, Ask, FollowUpShapes, FollowUpExists
<1>2. CASE RunServiceDueScan \/ DieScanning
  <2>1. orderly' \in BOOLEAN /\ scan' \subseteq Tracker
    BY <1>2 DEF RunServiceDueScan, DieScanning, FollowUpShapes
  <2>2. UNCHANGED <<tracker, followUp, call>>
    BY <1>2 DEF RunServiceDueScan, DieScanning
  <2>. QED  BY <2>1, <2>2 DEF FollowUpShapes, FollowUpExists
<1>3. CASE UNCHANGED followUpsVars
  BY <1>3 DEF followUpsVars, FollowUpShapes, FollowUpExists
<1>4. ASSUME NEW c \in Call, RequestDeletePolicy(c)
      PROVE  FollowUpShapes'
  BY <1>4, RequestShapes DEF RequestDeletePolicy, FollowUpCalls, Deleting, Handling
<1>5. ASSUME NEW c \in Call, NEW of \in BOOLEAN, RequestSetDue(c, of)
      PROVE  FollowUpShapes'
  BY <1>5, RequestShapes DEF RequestSetDue, FollowUpCalls, Setting, Handling
<1>. QED  BY <1>1, <1>2, <1>3, <1>4, <1>5, ShapesOfRequests, ShapesOfReplace,
             ShapesOfEndings, ShapesOfInvite, ShapesOfTrackers, ShapesOfWorkers DEF FollowUpsNext

-----------------------------------------------------------------------------
(* Whatever closes a tracker settles what is owed.                           *)
LEMMA OwedKeeps ==
  ASSUME OwedOpen, owed' \subseteq owed, UNCHANGED <<followUp, written>>,
         \A t \in owed' : tracker'[t].status = "CANCELLED" => tracker[t].status = "CANCELLED"
  PROVE  OwedOpen'
  BY DEF OwedOpen, ApprovedIsWritten

LEMMA OwedByClosing ==
  ASSUME FollowUpShapes, OwedOpen, NEW closed, NEW of, Closed(closed, of),
         UNCHANGED <<followUp, written>>
  PROVE  OwedOpen'
<1>1. owed' \subseteq owed
  BY DEF Closed
<1>2. \A t \in owed' : tracker'[t] = tracker[t]
  BY DEF Closed, OwedOpen
<1>. QED  BY <1>1, <1>2, OwedKeeps

LEMMA OwedByInvite ==
  ASSUME FollowUpShapes, OwedOpen, NEW c \in Call, Invite(c)
  PROVE  OwedOpen'
<1>. DEFINE t == call[c].due
<1>1. t \in Tracker /\ UNCHANGED <<tracker, written>>
  BY FollowUpCallIs DEF Invite, Handling
<1>2. CASE UNCHANGED <<followUp, owed>>
  BY <1>1, <1>2, OwedKeeps
<1>3. CASE /\ followUp' = [followUp EXCEPT ![t] = IF @ = NoJob THEN [state |-> "wait", left |-> 2] ELSE @]
           /\ owed' = IF tracker[t].status = "CANCELLED" \/ followUp[t].state = "failed"
                      THEN owed ELSE owed \cup {t}
  <2>1. \A u \in Tracker \ {t} : followUp'[u] = followUp[u]
    BY <1>3 DEF FollowUpShapes
  <2>2. followUp[t] \in FollowUpJob
    BY <1>1 DEF FollowUpShapes
  <2>3. followUp'[t] = IF followUp[t] = NoJob THEN [state |-> "wait", left |-> 2] ELSE followUp[t]
    BY <1>1, <1>3 DEF FollowUpShapes
  <2>4. followUp[t].state \in {"wait", "held"} => followUp'[t].state \in {"wait", "held"}
    BY <2>3
  <2>5. followUp[t].state # "failed" => followUp'[t].state \in {"wait", "held"}
    BY <2>2, <2>3 DEF FollowUpJob
  <2>6. ASSUME NEW u \in owed'
        PROVE  /\ u \in Tracker /\ tracker[u].status # "CANCELLED"
               /\ followUp'[u].state \in {"wait", "held"} \/ u \in written
    <3>1. CASE u \in owed
      BY <2>1, <2>4, <3>1 DEF OwedOpen, ApprovedIsWritten
    <3>2. CASE u \notin owed
      <4>1. u = t /\ tracker[t].status # "CANCELLED" /\ followUp[t].state # "failed"
        BY <1>3, <2>6, <3>2
      <4>. QED  BY <1>1, <2>5, <4>1
    <3>. QED  BY <3>1, <3>2
  <2>. QED  BY <1>1, <2>6 DEF OwedOpen, ApprovedIsWritten
<1>. QED  BY <1>2, <1>3 DEF Invite

LEMMA OwedByWorkers ==
  ASSUME FollowUpShapes, OwedOpen, NEW t \in Tracker,
         \/ TakeFollowUp(t) \/ SendFollowUp(t) \/ FailFollowUp(t) \/ LoseWorker(t)
         \/ PurgeFollowUp(t)
  PROVE  OwedOpen'
<1>1. PICK j : JobBecomes(t, j)
  BY DEF TakeFollowUp, SendFollowUp, FailFollowUp, LoseWorker, PurgeFollowUp
<1>2. followUp'[t] = j /\ \A u \in Tracker \ {t} : followUp'[u] = followUp[u]
  BY <1>1 DEF JobBecomes, FollowUpShapes
<1>3. UNCHANGED tracker /\ owed' \subseteq owed /\ written \subseteq written'
  BY DEF TakeFollowUp, SendFollowUp, FailFollowUp, LoseWorker, PurgeFollowUp
<1>4. ASSUME t \in owed'
      PROVE  followUp'[t].state \in {"wait", "held"} \/ t \in written'
  <2>1. t \in owed /\ tracker[t].status # "CANCELLED"
    BY <1>3, <1>4 DEF OwedOpen
  <2>2. CASE TakeFollowUp(t)
    BY <2>1, <2>2 DEF TakeFollowUp, DropsMessage, JobBecomes, FollowUpShapes, FollowUpJob, NoJob
  <2>3. CASE SendFollowUp(t)
    BY <2>3 DEF SendFollowUp
  <2>4. CASE FailFollowUp(t)
    BY <1>4, <2>4 DEF FailFollowUp, JobBecomes, FollowUpShapes
  <2>5. CASE LoseWorker(t)
    BY <2>5 DEF LoseWorker, JobBecomes, FollowUpShapes, FollowUpJob, NoJob
  <2>6. CASE PurgeFollowUp(t)
    BY <2>1, <2>6 DEF PurgeFollowUp, OwedOpen, ApprovedIsWritten
  <2>. QED  BY <2>2, <2>3, <2>4, <2>5, <2>6
<1>. QED  BY <1>2, <1>3, <1>4 DEF OwedOpen, ApprovedIsWritten

LEMMA MovedRow ==
  ASSUME FollowUpShapes, NEW c \in Call, Move(c)
  PROVE  /\ call[c].due \in Tracker
         /\ \E repeats, ripe \in BOOLEAN :
              tracker' = [tracker EXCEPT ![call[c].due] =
                            [status |-> "SCHEDULED", repeats |-> repeats, ripe |-> ripe,
                             of |-> tracker[call[c].due].of]]
<1>. DEFINE t == call[c].due
<1>1. t \in Tracker /\ tracker[t] \in TrackerRow /\ call[c].repeats \in BOOLEAN
  BY FollowUpCallIs DEF Move, Handling, FollowUpShapes
<1>2. PICK repeats \in {call[c].repeats, TRUE}, ripe \in BOOLEAN :
        tracker' = [tracker EXCEPT ![t].status = "SCHEDULED", ![t].repeats = repeats, ![t].ripe = ripe]
  BY DEF Move
<1>. DEFINE row == [status |-> "SCHEDULED", repeats |-> repeats, ripe |-> ripe, of |-> tracker[t].of]
            mid == [tracker[t] EXCEPT !.status = "SCHEDULED"]
<1>3. /\ mid = [status |-> "SCHEDULED", repeats |-> tracker[t].repeats,
                ripe |-> tracker[t].ripe, of |-> tracker[t].of]
      /\ [[mid EXCEPT !.repeats = repeats] EXCEPT !.ripe = ripe] = row
  <2>1. mid = [status |-> "SCHEDULED", repeats |-> tracker[t].repeats,
               ripe |-> tracker[t].ripe, of |-> tracker[t].of]
    BY <1>1 DEF TrackerRow
  <2>. HIDE DEF mid
  <2>. DEFINE next == [mid EXCEPT !.repeats = repeats]
  <2>2. next = [status |-> "SCHEDULED", repeats |-> repeats, ripe |-> tracker[t].ripe, of |-> tracker[t].of]
    BY <2>1
  <2>. HIDE DEF next
  <2>3. [next EXCEPT !.ripe = ripe] = row
    BY <2>2
  <2>. QED  BY <2>1, <2>3 DEF next
<1>4. tracker' = [tracker EXCEPT ![t] = row]
  BY <1>1, <1>2, <1>3 DEF FollowUpShapes
<1>. QED  BY <1>1, <1>2, <1>4

LEMMA OwedOpenStep ==
  ASSUME FollowUpShapes, OwedOpen, [FollowUpsNext]_followUpsVars
  PROVE  OwedOpen'
<1>1. ASSUME NEW c \in Call, NEW t \in Tracker, RequestApprove(c, t) \/ RequestMove(c, t)
      PROVE  OwedOpen'
  BY <1>1, OwedKeeps DEF RequestApprove, RequestMove, EnterFollowUp
<1>2. ASSUME NEW c \in Call, RequestDeletePolicy(c) \/ DieFollowingUp(c)
      PROVE  OwedOpen'
  BY <1>2, OwedKeeps DEF RequestDeletePolicy, EnterFollowUp, DieFollowingUp
<1>3. ASSUME NEW c \in Call, NEW of \in BOOLEAN, RequestSetDue(c, of)
      PROVE  OwedOpen'
  BY <1>3, OwedKeeps DEF RequestSetDue, EnterFollowUp
<1>4. ASSUME NEW c \in Call, ReplaceOpen(c) \/ StopTrackers(c)
      PROVE  OwedOpen'
  BY <1>4, OwedByClosing DEF ReplaceOpen, StopTrackers
<1>5. ASSUME NEW c \in Call, CreateDue(c)
      PROVE  OwedOpen'
  <2>1. \A t \in Tracker : tracker'[t].status = "CANCELLED" => tracker[t].status = "CANCELLED"
    BY <1>5 DEF CreateDue, Schedule, FollowUpShapes
  <2>. QED  BY <1>5, <2>1, OwedKeeps DEF CreateDue, OwedOpen
<1>6. ASSUME NEW c \in Call, Move(c) \/ DropPolicy(c)
      PROVE  OwedOpen'
  <2>1. \A t \in Tracker : tracker'[t].status = "CANCELLED" => tracker[t].status = "CANCELLED"
    <3>1. CASE Move(c)
      <4>1. PICK repeats \in BOOLEAN, ripe \in BOOLEAN :
              tracker' = [tracker EXCEPT ![call[c].due] =
                            [status |-> "SCHEDULED", repeats |-> repeats, ripe |-> ripe,
                             of |-> tracker[call[c].due].of]]
        BY <3>1, MovedRow
      <4>. QED  BY <4>1 DEF FollowUpShapes
    <3>2. CASE DropPolicy(c)
      BY <3>2 DEF DropPolicy, FollowUpShapes, TrackerRow
    <3>. QED  BY <1>6, <3>1, <3>2
  <2>. QED  BY <1>6, <2>1, OwedKeeps DEF Move, DropPolicy, OwedOpen
<1>7. ASSUME NEW c \in Call, Advance(c)
      PROVE  OwedOpen'
  <2>. DEFINE t == call[c].due
  <2>1. UNCHANGED <<followUp, written>>
    BY <1>7 DEF Advance
  <2>2. CASE Closed({t}, tracker[t].of)
    BY <2>1, <2>2, OwedByClosing
  <2>3. CASE tracker' = [tracker EXCEPT ![t] = NextDate(@)] /\ UNCHANGED owed
    <3>1. \A u \in Tracker : tracker'[u].status = "CANCELLED" => tracker[u].status = "CANCELLED"
      BY <2>3 DEF NextDate, FollowUpShapes, TrackerRow
    <3>. QED  BY <2>1, <2>3, <3>1, OwedKeeps DEF OwedOpen
  <2>. QED  BY <1>7, <2>2, <2>3 DEF Advance
<1>8. ASSUME NEW t \in Tracker, DateArrives(t) \/ CompleteVisit(t) \/ MarkDue(t)
      PROVE  OwedOpen'
  <2>1. \A u \in Tracker : tracker'[u].status = "CANCELLED" => tracker[u].status = "CANCELLED"
    <3>1. CASE DateArrives(t) \/ MarkDue(t)
      BY <3>1 DEF DateArrives, MarkDue, FollowUpShapes, TrackerRow
    <3>2. CASE CompleteVisit(t)
      BY <3>2 DEF CompleteVisit, Schedule, FollowUpShapes, TrackerRow
    <3>. QED  BY <1>8, <3>1, <3>2
  <2>. QED  BY <1>8, <2>1, OwedKeeps DEF DateArrives, CompleteVisit, MarkDue, OwedOpen
<1>9. ASSUME NEW t \in Tracker, CancelFollowUp(t)
      PROVE  OwedOpen'
  BY <1>9, OwedByClosing DEF CancelFollowUp
<1>10. CASE RunServiceDueScan \/ DieScanning \/ UNCHANGED followUpsVars
  BY <1>10, OwedKeeps DEF RunServiceDueScan, DieScanning, followUpsVars
<1>11. ASSUME NEW enabled \in {"on", "off"}, EnablePolicy(enabled)
       PROVE  OwedOpen'
  BY <1>11, OwedKeeps DEF EnablePolicy
<1>. QED  BY <1>1, <1>2, <1>3, <1>4, <1>5, <1>6, <1>7, <1>8, <1>9, <1>10, <1>11,
             OwedByInvite, OwedByWorkers DEF FollowUpsNext

-----------------------------------------------------------------------------
(* A request that is under way goes on: what it must see to in the trackers. *)
Sees(k) ==
    /\ \A t \in Tracker : tracker[t].status = "DUE" => tracker[t].ripe
    /\ \A t, u \in OpenFollowUps \ visited : tracker[t].of = tracker[u].of => t = u
    /\ k.at = "create" => \A t \in OpenFollowUps \ visited : tracker[t].of # k.of
    /\ k.at = "drop" => \A t \in OpenFollowUps : ~tracker[t].of

LEMMA SeesBefore ==
  ASSUME Orderly, orderly, NEW c \in Call
  PROVE  Sees(call[c])
  BY DEF Orderly, Sees, At

LEMMA OneGoesOn ==
  ASSUME FollowUpShapes, Orderly, NEW c \in Call, NEW k \in FollowUpCalls,
         call' = [call EXCEPT ![c] = k], orderly' => orderly /\ Sees(call[c])',
         scan' = scan,
         call[c] # Idle \/ (orderly' => Undisturbed)
  PROVE  Orderly'
<1>. SUFFICES ASSUME orderly' PROVE Orderly'
  BY DEF Orderly
<1>1. call'[c] = k /\ \A d \in Call \ {c} : call'[d] = call[d]
  BY FollowUpCallTo
<1>2. scan = {} /\ \A d \in Call \ {c} : call[d] = Idle
  BY DEF Orderly, Undisturbed
<1>3. \A d \in Call \ {c} : call'[d] = Idle
  BY <1>1, <1>2
<1>4. \A d \in Call \ {c} : ~At(d, "create")' /\ ~At(d, "drop")'
  BY <1>3 DEF At, Idle
<1>5. /\ (\A t \in Tracker : tracker[t].status = "DUE" => tracker[t].ripe)'
      /\ (\A t, u \in OpenFollowUps \ visited : tracker[t].of = tracker[u].of => t = u)'
      /\ At(c, "create")' => (\A t \in OpenFollowUps \ visited : tracker[t].of # call[c].of)'
      /\ At(c, "drop")' => (\A t \in OpenFollowUps : ~tracker[t].of)'
  BY DEF Sees, At
<1>6. scan' = {}
  BY <1>2
<1>7. (\A d \in Call : At(d, "create") => \A t \in OpenFollowUps \ visited : tracker[t].of # call[d].of)'
  BY <1>4, <1>5
<1>8. (\A d \in Call : At(d, "drop") => \A t \in OpenFollowUps : ~tracker[t].of)'
  BY <1>4, <1>5
<1>9. (\A b, d \in Call : call[b] # Idle /\ call[d] # Idle => b = d)'
  BY <1>3
<1>. QED  BY <1>5, <1>6, <1>7, <1>8, <1>9 DEF Orderly

LEMMA OrderlyOfRequests ==
  ASSUME FollowUpShapes, Orderly, NEW c \in Call, NEW k \in FollowUpCalls,
         EnterFollowUp(c, k), k.at \notin {"create", "drop"}
  PROVE  Orderly'
<1>1. call' = [call EXCEPT ![c] = k] /\ UNCHANGED <<tracker, scan, visited>>
      /\ (orderly' => orderly /\ Undisturbed)
  BY DEF EnterFollowUp, Enter, Ask
<1>2. call'[c] = k
  BY <1>1, FollowUpCallTo
<1>3. ASSUME orderly'
      PROVE  Sees(call[c])'
  <2>1. OpenFollowUps' = OpenFollowUps
    BY <1>1 DEF OpenFollowUps
  <2>2. Sees(call[c])
    BY <1>1, <1>3, SeesBefore
  <2>. QED  BY <1>1, <1>2, <2>1, <2>2 DEF Sees
<1>. QED  BY <1>1, <1>3, OneGoesOn

(* Those that are closed are not open, and the others stay as they were.     *)
LEMMA ClosedLeaves ==
  ASSUME FollowUpShapes, NEW closed, NEW of, Closed(closed, of)
  PROVE  /\ OpenFollowUps' = OpenFollowUps \ closed
         /\ \A t \in OpenFollowUps' : tracker'[t] = tracker[t]
         /\ \A t \in Tracker : tracker'[t].status = "DUE" => tracker'[t] = tracker[t]
  BY DEF FollowUpShapes, Closed, OpenFollowUps, TrackerRow

LEMMA OrderlyOfReplace ==
  ASSUME FollowUpShapes, Orderly, NEW c \in Call, ReplaceOpen(c)
  PROVE  Orderly'
<1>. DEFINE k == [at |-> "create", of |-> call[c].of]
<1>1. call[c] \in Setting /\ call[c] # Idle
  BY FollowUpCallIs DEF ReplaceOpen
<1>2. call' = [call EXCEPT ![c] = k]
  BY <1>1, Onward DEF ReplaceOpen, Step
<1>3. k \in FollowUpCalls
  BY <1>1 DEF FollowUpCalls, Setting
<1>4. call'[c] = k /\ UNCHANGED <<scan, visited, orderly>>
  BY <1>2, <1>3, FollowUpCallTo DEF ReplaceOpen
<1>5. Closed(Replaced(call[c].of), call[c].of)
  BY DEF ReplaceOpen
<1>6. ASSUME orderly
      PROVE  Sees(call[c])'
  BY <1>4, <1>5, <1>6, SeesBefore, ClosedLeaves DEF Sees, Replaced
<1>. QED  BY <1>1, <1>2, <1>3, <1>4, <1>6, OneGoesOn

LEMMA OrderlyOfStop ==
  ASSUME FollowUpShapes, Orderly, NEW c \in Call, StopTrackers(c)
  PROVE  Orderly'
<1>. DEFINE k == [at |-> "drop"]
<1>1. call[c] # Idle /\ k \in FollowUpCalls /\ call' = [call EXCEPT ![c] = k]
  BY FollowUpCallIs DEF StopTrackers, Step, FollowUpCalls, Deleting
<1>2. call'[c] = k /\ UNCHANGED <<scan, visited, orderly>>
  BY <1>1, FollowUpCallTo DEF StopTrackers
<1>. DEFINE closed == {t \in OpenFollowUps : tracker[t].of}
            of == FALSE
<1>3. Closed(closed, of)
  BY DEF StopTrackers
<1>4. ASSUME orderly
      PROVE  Sees(call[c])'
  <2>1. /\ OpenFollowUps' = OpenFollowUps \ closed
        /\ \A t \in OpenFollowUps' : tracker'[t] = tracker[t]
        /\ \A t \in Tracker : tracker'[t].status = "DUE" => tracker'[t] = tracker[t]
    <3>. HIDE DEF closed, of
    <3>. QED  BY <1>3, ClosedLeaves
  <2>2. \A t \in OpenFollowUps' : ~tracker'[t].of
    BY <2>1
  <2>3. Sees(call[c])
    BY <1>4, SeesBefore
  <2>4. \A t \in Tracker : tracker'[t].status = "DUE" => tracker'[t].ripe
    BY <2>1, <2>3 DEF Sees
  <2>5. \A t, u \in OpenFollowUps' \ visited : tracker'[t].of = tracker'[u].of => t = u
    BY <2>1, <2>3 DEF Sees
  <2>. QED  BY <1>2, <2>2, <2>4, <2>5 DEF Sees
<1>. QED  BY <1>1, <1>2, <1>4, OneGoesOn

LEMMA OrderlyOfDrop ==
  ASSUME FollowUpShapes, Orderly, NEW c \in Call, DropPolicy(c)
  PROVE  Orderly'
<1>1. /\ call[c] # Idle /\ call[c].at = "drop"
      /\ Idle \in FollowUpCalls /\ call' = [call EXCEPT ![c] = Idle]
  BY FollowUpCallIs DEF DropPolicy, Return, FollowUpCalls, At
<1>2. call'[c] = Idle /\ UNCHANGED <<scan, visited, orderly>>
  BY <1>1, FollowUpCallTo DEF DropPolicy
<1>3. /\ OpenFollowUps' = OpenFollowUps
      /\ \A t \in Tracker : /\ ~tracker'[t].of /\ tracker'[t].status = tracker[t].status
                            /\ tracker'[t].ripe = tracker[t].ripe
  BY DEF DropPolicy, OpenFollowUps, FollowUpShapes, TrackerRow
<1>4. ASSUME orderly
      PROVE  Sees(call[c])'
  <2>1. Sees(call[c]) /\ OpenFollowUps \subseteq Tracker
    BY <1>4, SeesBefore DEF OpenFollowUps
  <2>2. \A t, u \in OpenFollowUps \ visited : t = u
    <3>1. \A t \in OpenFollowUps : tracker[t].of = FALSE
      BY <1>1, <2>1 DEF Sees, FollowUpShapes, TrackerRow
    <3>. QED  BY <2>1, <3>1 DEF Sees
  <2>. QED  BY <1>1, <1>2, <1>3, <2>1, <2>2 DEF Sees, Idle
<1>. QED  BY <1>1, <1>2, <1>4, OneGoesOn

LEMMA OrderlyOfCreate ==
  ASSUME FollowUpShapes, Orderly, NEW c \in Call, CreateDue(c)
  PROVE  Orderly'
<1>1. /\ call[c] # Idle /\ call[c].at = "create" /\ call[c] \in Setting
      /\ Idle \in FollowUpCalls /\ call' = [call EXCEPT ![c] = Idle]
  BY FollowUpCallIs DEF CreateDue, Return, FollowUpCalls, At
<1>2. call'[c] = Idle /\ UNCHANGED <<scan, visited, orderly>>
  BY <1>1, FollowUpCallTo DEF CreateDue
<1>3. ASSUME orderly
      PROVE  Sees(call[c])'
  <2>1. Sees(call[c])
    BY <1>3, SeesBefore
  <2>2. CASE UNCHANGED tracker
    <3>1. OpenFollowUps' = OpenFollowUps
      BY <2>2 DEF OpenFollowUps
    <3>. QED  BY <1>2, <2>1, <2>2, <3>1 DEF Sees, Idle
  <2>3. ASSUME NEW t \in Tracker, NEW repeats \in BOOLEAN, NEW ripe \in BOOLEAN,
               Schedule(t, repeats, ripe, call[c].of)
        PROVE  Sees(call[c])'
    <3>1. /\ tracker'[t].of = call[c].of /\ tracker'[t].status = "SCHEDULED"
          /\ \A u \in Tracker \ {t} : tracker'[u] = tracker[u]
      BY <2>3 DEF Schedule, FollowUpShapes
    <3>2. OpenFollowUps' \subseteq OpenFollowUps \cup {t} /\ OpenFollowUps \subseteq Tracker
      BY <3>1 DEF OpenFollowUps
    <3>3. \A u \in Tracker : tracker'[u].status = "DUE" => tracker'[u].ripe
      BY <2>1, <3>1 DEF Sees
    <3>4. \A u, v \in (OpenFollowUps \cup {t}) \ visited : tracker'[u].of = tracker'[v].of => u = v
      BY <1>1, <2>1, <3>1, <3>2 DEF Sees
    <3>. QED  BY <1>2, <3>2, <3>3, <3>4 DEF Sees, Idle
  <2>. QED  BY <2>2, <2>3 DEF CreateDue
<1>. QED  BY <1>1, <1>2, <1>3, OneGoesOn

(* The row that an approval or a move goes back to was open, or the history  *)
(* says that it was opened again.                                            *)
LEMMA OrderlyOfReopening ==
  ASSUME FollowUpShapes, Orderly, NEW c \in Call, NEW row \in TrackerRow,
         At(c, "advance") \/ At(c, "move"), Return(c),
         row.status = "SCHEDULED", row.of = tracker[call[c].due].of,
         tracker' = [tracker EXCEPT ![call[c].due] = row],
         orderly' = (orderly /\ ~Reopens(call[c].due)), UNCHANGED <<scan, visited>>
  PROVE  Orderly'
<1>. DEFINE t == call[c].due
<1>1. /\ call[c] # Idle /\ t \in Tracker /\ FollowUpExists(t) /\ tracker[t] \in TrackerRow
      /\ Idle \in FollowUpCalls /\ call' = [call EXCEPT ![c] = Idle]
  BY FollowUpCallIs DEF Return, FollowUpCalls, Handling, FollowUpShapes
<1>2. call'[c] = Idle
  BY <1>1, FollowUpCallTo
<1>3. tracker'[t] = row /\ \A u \in Tracker \ {t} : tracker'[u] = tracker[u]
  BY <1>1 DEF FollowUpShapes
<1>4. ASSUME orderly'
      PROVE  orderly /\ Sees(call[c])'
  <2>1. orderly /\ t \in OpenFollowUps
    BY <1>1, <1>4 DEF Reopens, OpenFollowUps, FollowUpExists, TrackerRow
  <2>2. OpenFollowUps' = OpenFollowUps /\ OpenFollowUps \subseteq Tracker
    BY <1>1, <1>3, <2>1 DEF OpenFollowUps
  <2>3. Sees(call[c])
    BY <2>1, SeesBefore
  <2>4. \A u \in OpenFollowUps : tracker'[u].of = tracker[u].of
    BY <1>3, <2>2
  <2>5. \A u \in Tracker : tracker'[u].status = "DUE" => tracker'[u].ripe
    BY <1>3, <2>3 DEF Sees
  <2>. QED  BY <1>2, <2>1, <2>2, <2>3, <2>4, <2>5 DEF Sees, Idle
<1>. QED  BY <1>1, <1>4, OneGoesOn

LEMMA OrderlyOfAdvance ==
  ASSUME FollowUpShapes, Orderly, NEW c \in Call, Advance(c)
  PROVE  Orderly'
<1>. DEFINE t == call[c].due
<1>1. At(c, "advance") /\ t \in Tracker /\ tracker[t] \in TrackerRow /\ call[c] # Idle
      /\ Return(c) /\ UNCHANGED <<scan, visited>>
  BY FollowUpCallIs DEF Advance, Handling, FollowUpShapes
<1>2. CASE tracker' = [tracker EXCEPT ![t] = NextDate(@)] /\ orderly' = (orderly /\ ~Reopens(t))
  <2>. DEFINE row == NextDate(tracker[t])
  <2>1. row \in TrackerRow /\ row.status = "SCHEDULED" /\ row.of = tracker[t].of
    BY <1>1 DEF NextDate, TrackerRow
  <2>2. tracker' = [tracker EXCEPT ![t] = row]
    BY <1>1, <1>2 DEF FollowUpShapes
  <2>. HIDE DEF row
  <2>. QED  BY <1>1, <1>2, <2>1, <2>2, OrderlyOfReopening
<1>3. CASE Closed({t}, tracker[t].of) /\ UNCHANGED orderly
  <2>1. Idle \in FollowUpCalls /\ call' = [call EXCEPT ![c] = Idle]
    BY <1>1 DEF Return, FollowUpCalls
  <2>2. call'[c] = Idle
    BY <2>1, FollowUpCallTo
  <2>3. ASSUME orderly
        PROVE  Sees(call[c])'
    BY <1>1, <1>3, <2>2, <2>3, SeesBefore, ClosedLeaves DEF Sees, Idle
  <2>. QED  BY <1>1, <1>3, <2>1, <2>3, OneGoesOn
<1>. QED  BY <1>2, <1>3 DEF Advance

LEMMA OrderlyOfMove ==
  ASSUME FollowUpShapes, Orderly, NEW c \in Call, Move(c)
  PROVE  Orderly'
<1>. DEFINE t == call[c].due
<1>1. /\ At(c, "move") /\ t \in Tracker /\ tracker[t] \in TrackerRow /\ call[c].repeats \in BOOLEAN
      /\ Return(c) /\ orderly' = (orderly /\ ~Reopens(t)) /\ UNCHANGED <<scan, visited>>
  BY FollowUpCallIs DEF Move, Handling, FollowUpShapes
<1>2. PICK repeats \in BOOLEAN, ripe \in BOOLEAN :
        tracker' = [tracker EXCEPT ![t] = [status |-> "SCHEDULED", repeats |-> repeats,
                                           ripe |-> ripe, of |-> tracker[t].of]]
  BY MovedRow
<1>. DEFINE row == [status |-> "SCHEDULED", repeats |-> repeats, ripe |-> ripe, of |-> tracker[t].of]
<1>3. row \in TrackerRow /\ row.status = "SCHEDULED" /\ row.of = tracker[t].of
  BY <1>1 DEF TrackerRow
<1>4. tracker' = [tracker EXCEPT ![t] = row]
  BY <1>2
<1>. HIDE DEF row
<1>. QED  BY <1>1, <1>3, <1>4, OrderlyOfReopening

LEMMA OrderlyOfQuietCalls ==
  ASSUME FollowUpShapes, Orderly, NEW c \in Call, Invite(c) \/ DieFollowingUp(c)
  PROVE  Orderly'
<1>1. call[c] # Idle /\ UNCHANGED <<tracker, scan, visited, orderly>>
  BY FollowUpCallIs DEF Invite, DieFollowingUp
<1>2. \E k \in FollowUpCalls : call' = [call EXCEPT ![c] = k] /\ k.at \in {"advance", "idle"}
  <2>1. CASE Invite(c)
    <3>. DEFINE k == [at |-> "advance", due |-> call[c].due, repeats |-> call[c].repeats]
    <3>1. call[c] \in Handling
      BY <2>1, FollowUpCallIs DEF Invite
    <3>2. call' = [call EXCEPT ![c] = k]
      BY <2>1, <3>1, Onward DEF Invite, Step
    <3>3. k \in FollowUpCalls /\ k.at = "advance"
      BY <3>1 DEF FollowUpCalls, Handling
    <3>. HIDE DEF k
    <3>. QED  BY <3>2, <3>3
  <2>2. CASE DieFollowingUp(c)
    <3>1. Idle \in FollowUpCalls /\ Idle.at = "idle" /\ call' = [call EXCEPT ![c] = Idle]
      BY <2>2 DEF DieFollowingUp, Return, FollowUpCalls, Idle
    <3>. QED  BY <3>1
  <2>. QED  BY <2>1, <2>2
<1>3. PICK k \in FollowUpCalls : call' = [call EXCEPT ![c] = k] /\ k.at \in {"advance", "idle"}
  BY <1>2
<1>4. call'[c] = k
  BY <1>3, FollowUpCallTo
<1>5. ASSUME orderly
      PROVE  Sees(call[c])'
  <2>1. OpenFollowUps' = OpenFollowUps
    BY <1>1 DEF OpenFollowUps
  <2>2. Sees(call[c])
    BY <1>5, SeesBefore
  <2>. QED  BY <1>1, <1>3, <1>4, <2>1, <2>2 DEF Sees
<1>. QED  BY <1>1, <1>3, <1>5, OneGoesOn

(* What comes from outside a request, and starts only while nothing runs.    *)
LEMMA OrderlyAtRest ==
  ASSUME FollowUpShapes, Orderly, UNCHANGED <<scan, call>>,
         orderly' => /\ orderly /\ Undisturbed
                     /\ \A t \in Tracker : tracker'[t].status = "DUE" => tracker[t].status = "DUE" /\ tracker'[t] = tracker[t]
                     /\ OpenFollowUps' \ visited' \subseteq OpenFollowUps \ visited
                     /\ \A t \in OpenFollowUps' \ visited' : tracker'[t] = tracker[t]
  PROVE  Orderly'
<1>. SUFFICES ASSUME orderly' PROVE Orderly'
  BY DEF Orderly
<1>1. orderly /\ scan' = {} /\ \A c \in Call : call'[c] = Idle
  BY DEF Undisturbed
<1>2. \A c \in Call : ~At(c, "create")' /\ ~At(c, "drop")'
  BY <1>1 DEF At, Idle
<1>3. \A t \in Tracker : tracker'[t].status = "DUE" => tracker'[t].ripe
  BY <1>1 DEF Orderly
<1>4. \A t, u \in OpenFollowUps' \ visited' : tracker'[t].of = tracker'[u].of => t = u
  BY <1>1 DEF Orderly
<1>. QED  BY <1>1, <1>2, <1>3, <1>4 DEF Orderly

LEMMA OrderlyOfCancel ==
  ASSUME FollowUpShapes, Orderly, NEW t \in Tracker, CancelFollowUp(t)
  PROVE  Orderly'
<1>1. UNCHANGED <<scan, call, visited>> /\ orderly' = (orderly /\ Undisturbed)
      /\ Closed({t}, tracker[t].of)
  BY DEF CancelFollowUp, Ask
<1>2. /\ OpenFollowUps' = OpenFollowUps \ {t}
      /\ \A u \in OpenFollowUps' : tracker'[u] = tracker[u]
      /\ \A u \in Tracker : tracker'[u].status = "DUE" => tracker'[u] = tracker[u]
  BY <1>1, ClosedLeaves
<1>3. \A u \in Tracker : tracker'[u].status = "DUE" =>
        tracker[u].status = "DUE" /\ tracker'[u] = tracker[u]
  BY <1>2
<1>4. OpenFollowUps' \ visited' \subseteq OpenFollowUps \ visited
  BY <1>1, <1>2
<1>5. \A u \in OpenFollowUps' \ visited' : tracker'[u] = tracker[u]
  BY <1>2
<1>. HIDE DEF OpenFollowUps
<1>. QED  BY <1>1, <1>3, <1>4, <1>5, OrderlyAtRest

LEMMA OrderlyOfVisit ==
  ASSUME FollowUpShapes, Orderly, NEW t \in Tracker, CompleteVisit(t)
  PROVE  Orderly'
<1>1. UNCHANGED <<scan, call>> /\ orderly' = (orderly /\ Undisturbed)
      /\ visited' = visited \cup {t}
  BY DEF CompleteVisit, Ask
<1>2. tracker'[t].status = "SCHEDULED" /\ \A u \in Tracker \ {t} : tracker'[u] = tracker[u]
  BY DEF CompleteVisit, Schedule, FollowUpShapes
<1>3. \A u \in Tracker : tracker'[u].status = "DUE" =>
        tracker[u].status = "DUE" /\ tracker'[u] = tracker[u]
  BY <1>2
<1>4. OpenFollowUps' \ visited' \subseteq OpenFollowUps \ visited
  BY <1>1, <1>2 DEF OpenFollowUps
<1>5. \A u \in OpenFollowUps' \ visited' : tracker'[u] = tracker[u]
  BY <1>1, <1>2 DEF OpenFollowUps
<1>. QED  BY <1>1, <1>3, <1>4, <1>5, OrderlyAtRest

(* A date that comes and a scan that marks leave open what was open, of the  *)
(* policy that it was of.                                                    *)
LEMMA OrderlyOfDates ==
  ASSUME FollowUpShapes, Orderly, NEW t \in Tracker, DateArrives(t) \/ MarkDue(t)
  PROVE  Orderly'
<1>. SUFFICES ASSUME orderly PROVE Orderly'
  BY DEF Orderly, DateArrives, MarkDue
<1>1. /\ UNCHANGED <<call, visited, orderly>> /\ scan' \subseteq scan
      /\ \A c \in Call : (At(c, "create")' <=> At(c, "create")) /\ (At(c, "drop")' <=> At(c, "drop"))
  BY DEF DateArrives, MarkDue, At
<1>2. \A u \in Tracker :
        /\ tracker'[u].of = tracker[u].of
        /\ tracker[u].ripe => tracker'[u].ripe
        /\ tracker'[u].status = IF u = t /\ MarkDue(t) THEN "DUE" ELSE tracker[u].status
  <2>1. CASE MarkDue(t)
    BY <2>1 DEF MarkDue, FollowUpShapes, TrackerRow
  <2>2. CASE DateArrives(t) /\ ~MarkDue(t)
    BY <2>2 DEF DateArrives, FollowUpShapes, TrackerRow
  <2>. QED  BY <2>1, <2>2
<1>3. MarkDue(t) => t \in scan /\ t \notin scan' /\ tracker[t].status = "SCHEDULED" /\ tracker[t].ripe
  BY DEF MarkDue, Orderly
<1>4. OpenFollowUps' = OpenFollowUps /\ OpenFollowUps \subseteq Tracker
  BY <1>2, <1>3 DEF OpenFollowUps
<1>5. \A u \in Tracker : tracker'[u].status = "DUE" => tracker'[u].ripe
  BY <1>2, <1>3 DEF Orderly
<1>6. \A u \in scan' : tracker'[u].status = "SCHEDULED" /\ tracker'[u].ripe
  BY <1>1, <1>2, <1>3 DEF Orderly, FollowUpShapes
<1>7. \A u, v \in (OpenFollowUps \ visited)' : tracker'[u].of = tracker'[v].of => u = v
  BY <1>1, <1>2, <1>4 DEF Orderly
<1>8. /\ \A c \in Call : At(c, "create")' => \A u \in (OpenFollowUps \ visited)' : tracker'[u].of # call'[c].of
      /\ \A c \in Call : At(c, "drop")' => \A u \in OpenFollowUps' : ~tracker'[u].of
  BY <1>1, <1>2, <1>4 DEF Orderly
<1>9. scan' # {} => \A c \in Call : call'[c] = Idle
  BY <1>1 DEF Orderly
<1>10. \A c, d \in Call : call'[c] # Idle /\ call'[d] # Idle => c = d
  BY <1>1 DEF Orderly
<1>. QED  BY <1>5, <1>6, <1>7, <1>8, <1>9, <1>10 DEF Orderly

LEMMA OrderlyOfScans ==
  ASSUME FollowUpShapes, Orderly, RunServiceDueScan \/ DieScanning
  PROVE  Orderly'
<1>. SUFFICES ASSUME orderly' PROVE Orderly'
  BY DEF Orderly
<1>1. /\ UNCHANGED <<tracker, call, visited>> /\ OpenFollowUps' = OpenFollowUps /\ orderly
      /\ \A c \in Call : (At(c, "create")' <=> At(c, "create")) /\ (At(c, "drop")' <=> At(c, "drop"))
  BY DEF RunServiceDueScan, DieScanning, OpenFollowUps, At
<1>2. scan' # {} => \A c \in Call : call'[c] = Idle
  BY <1>1 DEF RunServiceDueScan, DieScanning, Undisturbed
<1>3. \A t \in scan' : tracker'[t].status = "SCHEDULED" /\ tracker'[t].ripe
  BY <1>1 DEF RunServiceDueScan, DieScanning
<1>. QED  BY <1>1, <1>2, <1>3 DEF Orderly

(* The workers and the policy's owner leave the trackers alone.              *)
LEMMA OrderlyElsewhere ==
  ASSUME Orderly, UNCHANGED <<tracker, scan, visited, call>>, orderly' => orderly
  PROVE  Orderly'
<1>1. OpenFollowUps' = OpenFollowUps
  BY DEF OpenFollowUps
<1>. QED  BY <1>1 DEF Orderly, At

LEMMA OrderlyStep ==
  ASSUME FollowUpShapes, Orderly, [FollowUpsNext]_followUpsVars
  PROVE  Orderly'
<1>1. ASSUME NEW c \in Call, NEW of \in BOOLEAN, RequestSetDue(c, of)
      PROVE  Orderly'
  <2>. DEFINE k == [at |-> "replace", of |-> of]
  <2>1. k \in FollowUpCalls /\ k.at = "replace" /\ EnterFollowUp(c, k)
    BY <1>1 DEF RequestSetDue, FollowUpCalls, Setting
  <2>. HIDE DEF k
  <2>. QED  BY <2>1, OrderlyOfRequests
<1>2. ASSUME NEW c \in Call, NEW t \in Tracker, RequestApprove(c, t) \/ RequestMove(c, t)
      PROVE  Orderly'
  <2>1. \E k \in Handling : EnterFollowUp(c, k)
    BY <1>2 DEF RequestApprove, RequestMove, Handling, FollowUpShapes, TrackerRow
  <2>2. \A k \in Handling : k \in FollowUpCalls /\ k.at \notin {"create", "drop"}
    BY DEF Handling, FollowUpCalls
  <2>. QED  BY <2>1, <2>2, OrderlyOfRequests
<1>3. ASSUME NEW c \in Call, RequestDeletePolicy(c)
      PROVE  Orderly'
  <2>. DEFINE k == [at |-> "stop"]
  <2>1. k \in FollowUpCalls /\ k.at = "stop" /\ EnterFollowUp(c, k)
    BY <1>3 DEF RequestDeletePolicy, FollowUpCalls, Deleting
  <2>. HIDE DEF k
  <2>. QED  BY <2>1, OrderlyOfRequests
<1>4. ASSUME NEW t \in Tracker,
             \/ TakeFollowUp(t) \/ SendFollowUp(t) \/ FailFollowUp(t) \/ LoseWorker(t)
             \/ PurgeFollowUp(t)
      PROVE  Orderly'
  BY <1>4, OrderlyElsewhere
     DEF TakeFollowUp, SendFollowUp, FailFollowUp, LoseWorker, PurgeFollowUp
<1>5. ASSUME NEW enabled \in {"on", "off"}, EnablePolicy(enabled)
      PROVE  Orderly'
  BY <1>5, OrderlyElsewhere DEF EnablePolicy, Ask
<1>6. CASE UNCHANGED followUpsVars
  BY <1>6, OrderlyElsewhere DEF followUpsVars
<1>. QED  BY <1>1, <1>2, <1>3, <1>4, <1>5, <1>6, OrderlyOfReplace, OrderlyOfStop, OrderlyOfDrop,
             OrderlyOfCreate, OrderlyOfAdvance, OrderlyOfMove, OrderlyOfQuietCalls,
             OrderlyOfCancel, OrderlyOfVisit, OrderlyOfDates, OrderlyOfScans DEF FollowUpsNext

FollowUpsInv == FollowUpShapes /\ OwedOpen /\ Orderly

LEMMA FollowUpsInvInit == FollowUpsInit => FollowUpsInv
<1>. SUFFICES ASSUME FollowUpsInit PROVE FollowUpsInv
  OBVIOUS
<1>1. FollowUpShapes
  BY DEF FollowUpsInit, HandlersInit, FollowUpShapes, NoTracker, TrackerRow, FollowUpJob,
         FollowUpCalls, Handling, Idle
<1>2. OwedOpen
  BY DEF FollowUpsInit, OwedOpen, ApprovedIsWritten
<1>3. Orderly
  BY DEF FollowUpsInit, HandlersInit, Orderly, NoTracker, OpenFollowUps, At, Idle
<1>. QED  BY <1>1, <1>2, <1>3 DEF FollowUpsInv

LEMMA FollowUpsInvStep == FollowUpsInv /\ [FollowUpsNext]_followUpsVars => FollowUpsInv'
  BY FollowUpShapesStep, OwedOpenStep, OrderlyStep DEF FollowUpsInv

LEMMA FollowUpsInvAlways == FollowUpsSpec => []FollowUpsInv
  BY FollowUpsInvInit, FollowUpsInvStep, PTL DEF FollowUpsSpec

(* What the owner approved goes out while its tracker is open, whatever the  *)
(* scan, other requests and dying workers do meanwhile.                      *)
THEOREM ApprovedIsWrittenAlways == FollowUpsSpec => []ApprovedIsWritten
<1>1. FollowUpsInv => ApprovedIsWritten
  BY DEF FollowUpsInv, OwedOpen
<1>. QED  BY <1>1, FollowUpsInvAlways, PTL

(* Where nothing overlapped, what the prompts call due is due.               *)
THEOREM PromptsAreDueAlways == FollowUpsSpec => []PromptsAreDue
<1>1. FollowUpsInv => PromptsAreDue
  BY DEF FollowUpsInv, Orderly, PromptsAreDue
<1>. QED  BY <1>1, FollowUpsInvAlways, PTL

(* Where nothing overlapped, a client has one open tracker of a kind.        *)
THEOREM OneOpenInTurnAlways == FollowUpsSpec => []OneOpenInTurn
<1>1. FollowUpsInv => OneOpenInTurn
  BY DEF FollowUpsInv, Orderly, OneOpenInTurn
<1>. QED  BY <1>1, FollowUpsInvAlways, PTL
=============================================================================
