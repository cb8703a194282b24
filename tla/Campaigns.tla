----------------------------- MODULE Campaigns -----------------------------
(***************************************************************************)
(* Marketing campaigns (campaigns.service.ts).  send counts what went out  *)
(* today and marks the campaign in one transaction, which runs at READ     *)
(* COMMITTED: the count is not repeated when another one commits first.    *)
(***************************************************************************)
EXTENDS Naturals, FiniteSets, Handlers

CONSTANTS
    Campaign,    \* the campaigns of one business
    DailyLimit,  \* DAILY_CAMPAIGN_LIMIT
    LastDay      \* bound on the days that pass

ASSUME CampaignsAssumption ==
    IsFiniteSet(Campaign) /\ DailyLimit \in Nat \ {0} /\ LastDay \in Nat

VARIABLES
    campaign,  \* the Campaign rows: status, and the day of sentAt
    day,       \* the UTC day
    queued,    \* how often its messages were put in the queue
    inTurn,    \* history: no two sends of the business have overlapped
    went,      \* history: the day each campaign went out, 0 before
    freed      \* history: those removed on the day they went out

campaignsVars == <<campaign, day, queued, inTurn, went, freed, call>>

CampaignsInit ==
    /\ campaign = [k \in Campaign |-> [status |-> "NONE", sent |-> 0]]
    /\ day = 1
    /\ queued = [k \in Campaign |-> 0]
    /\ inTurn = TRUE
    /\ went = [k \in Campaign |-> 0]
    /\ freed = {}
    /\ HandlersInit

Midnight ==
    /\ day < LastDay
    /\ day' = day + 1
    /\ UNCHANGED <<campaign, queued, inTurn, went, freed, call>>

CreateCampaign(c, k) ==
    /\ call[c] = Idle
    /\ campaign[k].status = "NONE"
    /\ campaign' = [campaign EXCEPT ![k].status = "DRAFT"]
    /\ UNCHANGED <<day, queued, inTurn, went, freed, call>>

(* remove looks at no status: the row of a campaign that went out today no   *)
(* longer counts.                                                            *)
RemoveCampaign(c, k) ==
    /\ call[c] = Idle
    /\ campaign[k].status \notin {"NONE", "REMOVED"}
    /\ campaign' = [campaign EXCEPT ![k] = [status |-> "REMOVED", sent |-> 0]]
    /\ freed' = IF went[k] = day THEN freed \cup {k} ELSE freed
    /\ UNCHANGED <<day, queued, inTurn, went, call>>

RequestSend(c, k) ==
    /\ campaign[k].status = "DRAFT"
    /\ Enter(c, [at |-> "count", campaign |-> k, from |-> day])
    /\ inTurn' = (inTurn /\ \A d \in Call \ {c} : call[d] = Idle)
    /\ UNCHANGED <<campaign, day, queued, went, freed>>

(* Mutant: what is still being sent does not count. *)
SentOnly(from) == {k \in Campaign : campaign[k].status = "SENT" /\ campaign[k].sent >= from}

SentSince(from) ==
    {k \in Campaign : campaign[k].status \in {"SENDING", "SENT"} /\ campaign[k].sent >= from}

CountToday(c) ==
    /\ At(c, "count")
    /\ IF Cardinality(SentSince(call[c].from)) >= DailyLimit
       THEN Return(c)
       ELSE Step(c, [at |-> "mark", campaign |-> call[c].campaign])
    /\ UNCHANGED <<campaign, day, queued, inTurn, went, freed>>

(* Mutant: the update is not tied to the status. *)
MarkAnySending(c) ==
    /\ At(c, "mark")
    /\ campaign' = [campaign EXCEPT ![call[c].campaign] = [status |-> "SENDING", sent |-> day]]
    /\ went' = [went EXCEPT ![call[c].campaign] = day]
    /\ Step(c, [call[c] EXCEPT !.at = "queue"])
    /\ UNCHANGED <<day, queued, inTurn, freed>>

(* The update finds the row only while it is a DRAFT, and throws otherwise. *)
MarkSending(c) ==
    /\ At(c, "mark")
    /\ IF campaign[call[c].campaign].status = "DRAFT"
       THEN /\ campaign' = [campaign EXCEPT ![call[c].campaign] =
                               [status |-> "SENDING", sent |-> day]]
            /\ went' = [went EXCEPT ![call[c].campaign] = day]
            /\ Step(c, [call[c] EXCEPT !.at = "queue"])
       ELSE Return(c) /\ UNCHANGED <<campaign, went>>
    /\ UNCHANGED <<day, queued, inTurn, freed>>

(* The row is written once more, then the recipients' jobs are added; a      *)
(* campaign that was removed meanwhile throws.                               *)
QueueMessages(c) ==
    /\ At(c, "queue")
    /\ LET k == call[c].campaign
       IN IF campaign[k].status = "REMOVED"
          THEN Return(c) /\ UNCHANGED queued
          ELSE /\ queued' = [queued EXCEPT ![k] = @ + 1]
               /\ Step(c, [call[c] EXCEPT !.at = "finish"])
    /\ UNCHANGED <<campaign, day, inTurn, went, freed>>

MarkSent(c) ==
    /\ At(c, "finish")
    /\ LET k == call[c].campaign
       IN campaign' = IF campaign[k].status = "REMOVED" THEN campaign
                      ELSE [campaign EXCEPT ![k].status = "SENT"]
    /\ Return(c)
    /\ UNCHANGED <<day, queued, inTurn, went, freed>>

(* The process dies; a campaign it was sending stays SENDING. *)
DieSending(c) ==
    /\ call[c] # Idle
    /\ Return(c)
    /\ UNCHANGED <<campaign, day, queued, inTurn, went, freed>>

CampaignsNext ==
    \/ Midnight
    \/ \E c \in Call :
         \/ \E k \in Campaign : CreateCampaign(c, k) \/ RemoveCampaign(c, k) \/ RequestSend(c, k)
         \/ CountToday(c) \/ MarkSending(c) \/ QueueMessages(c) \/ MarkSent(c) \/ DieSending(c)

CampaignsSpec == CampaignsInit /\ [][CampaignsNext]_campaignsVars

-----------------------------------------------------------------------------
(* What went out on a day, without what was removed before that day ended. *)
WentOn(d) == {k \in Campaign : went[k] = d} \ freed

(* campaigns.service.ts:103 says that two sends cannot both read that two    *)
(* campaigns went out today and both proceed.  A campaign that was removed   *)
(* on the day it went out frees its place, and is left out of the count.     *)
LimitHolds == \A d \in 1 .. LastDay : Cardinality(WentOn(d)) <= DailyLimit

(* No more than the limit goes out on a day when the sends of a business     *)
(* come one after another, with those that died half-way counted, and around *)
(* midnight too; removing a campaign on a later day changes nothing, on the  *)
(* same day it lets another one go out (campaigns.service.ts:64).            *)
LimitHoldsInTurn == inTurn => LimitHolds

(* The messages of a campaign are queued once, however many sends of it run  *)
(* at the same time.                                                         *)
QueuedOnce == \A k \in Campaign : queued[k] <= 1
=============================================================================
