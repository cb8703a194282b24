--------------------------- MODULE Subscriptions ---------------------------
(***************************************************************************)
(* The plan of one business: what Stripe reports about its subscription    *)
(* (applySubscription of payments.service.ts), what an administrator sets  *)
(* or grants for a time (verification.service.ts), the daily job that ends *)
(* grants (notifications.processor.ts), and the reward of the business     *)
(* that referred it (referrals.service.ts).  Events of Stripe come in any  *)
(* order and more than once.                                               *)
(***************************************************************************)
EXTENDS Naturals, Handlers

CONSTANT Paid  \* the paid plans

VARIABLES
    subscription,  \* the Subscription row: status and plan
    business,      \* Business.plan, its complimentary grant, the plan before that
    referral,      \* Referral.status of the referral of this business
    credits,       \* credits on the referrer's Stripe balance
    earned,        \* history: the plan that Stripe or an administrator last gave
    calm           \* history: no handlers overlapped since they last agreed, and
                   \* no grant was renewed between its end and the daily job

subscriptionsVars == <<subscription, business, referral, credits, earned, calm, call>>

Plan == Paid \cup {"FREE"}

(* A Stripe subscription, as mapSubStatus and effectiveSubscriptionPlan see  *)
(* it: past due, it keeps its plan for the period that is paid and 3 days.   *)
Event ==
    [status : {"ACTIVE", "TRIALING"}, plan : Paid]
        \cup [status : {"PAST_DUE"}, plan : Plan]
        \cup [status : {"CANCELED", "INCOMPLETE"}, plan : {"FREE"}]

NoSubscription == [status |-> "none", plan |-> "FREE"]

Billed == subscription.status \in {"ACTIVE", "TRIALING", "PAST_DUE"}

SubscriptionsInit ==
    /\ subscription = NoSubscription
    /\ business = [plan |-> "FREE", grant |-> "none", previous |-> "FREE"]
    /\ referral = "none"
    /\ credits = 0
    /\ earned = "FREE"
    /\ calm = TRUE
    /\ HandlersInit

Alone(c) == \A d \in Call \ {c} : call[d] = Idle

(* The end of a grant comes; the row says so only through its date. *)
GrantEnds ==
    /\ business.grant = "current"
    /\ business' = [business EXCEPT !.grant = "past"]
    /\ UNCHANGED <<subscription, referral, credits, earned, calm, call>>

-----------------------------------------------------------------------------
(* applySubscription: the grant is read first, written over last. *)

Applying(event) == [at |-> "apply", event |-> event, granted |-> business.grant = "current"]

(* Alone, and not held back by a grant, it makes everything agree again. *)
CalmApplying(c, event) ==
    Alone(c) /\ (calm \/ event.plan # "FREE" \/ business.grant # "current")

ReceiveEvent(c, event) ==
    /\ Enter(c, Applying(event))
    /\ calm' = CalmApplying(c, event)
    /\ UNCHANGED <<subscription, business, referral, credits, earned>>

ApplyRow(c) ==
    /\ At(c, "apply")
    /\ subscription' = call[c].event
    /\ Step(c, [call[c] EXCEPT !.at = "applied"])
    /\ UNCHANGED <<business, referral, credits, earned, calm>>

(* A plan that is paid for goes on to the referral. *)
AfterApply(c) ==
    IF call[c].event.plan # "FREE" THEN Step(c, [at |-> "reward"]) ELSE Return(c)

(* Mutants: the grant is not cleared; it is not looked at. *)
ApplyBusinessKeepingGrant(c) ==
    /\ At(c, "applied")
    /\ LET plan == call[c].event.plan
       IN IF call[c].granted /\ plan = "FREE"
          THEN UNCHANGED <<business, earned>>
          ELSE business' = [business EXCEPT !.plan = plan] /\ earned' = plan
    /\ AfterApply(c)
    /\ UNCHANGED <<subscription, referral, credits, calm>>

ApplyBusinessAlways(c) ==
    /\ At(c, "applied")
    /\ LET plan == call[c].event.plan
       IN business' = [plan |-> plan, grant |-> "none", previous |-> "FREE"] /\ earned' = plan
    /\ AfterApply(c)
    /\ UNCHANGED <<subscription, referral, credits, calm>>

(* A failed or cancelled subscription leaves a grant that was current alone; *)
(* any other event sets the plan and clears the grant.                       *)
ApplyBusiness(c) ==
    /\ At(c, "applied")
    /\ LET plan == call[c].event.plan
       IN IF call[c].granted /\ plan = "FREE"
          THEN UNCHANGED <<business, earned>>
          ELSE /\ business' = [plan |-> plan, grant |-> "none", previous |-> "FREE"]
               /\ earned' = plan
    /\ AfterApply(c)
    /\ UNCHANGED <<subscription, referral, credits, calm>>

(* Mutant: a reward that was claimed is claimed again. *)
ClaimAnyReward(c) ==
    /\ At(c, "reward")
    /\ IF referral # "none"
       THEN referral' = "REWARDED" /\ Step(c, [at |-> "credit"])
       ELSE UNCHANGED referral /\ Return(c)
    /\ UNCHANGED <<subscription, business, credits, earned, calm>>

(* claimPendingReward: one update with the status in its where clause. *)
ClaimPendingReward(c) ==
    /\ At(c, "reward")
    /\ IF referral = "PENDING"
       THEN referral' = "REWARDED" /\ Step(c, [at |-> "credit"])
       ELSE UNCHANGED referral /\ Return(c)
    /\ UNCHANGED <<subscription, business, credits, earned, calm>>

GrantReferralReward(c) ==
    /\ At(c, "credit")
    /\ credits' = credits + 1
    /\ Return(c)
    /\ UNCHANGED <<subscription, business, referral, earned, calm>>

-----------------------------------------------------------------------------
(* createSubscriptionCheckout *)

RequestCheckout(c) ==
    /\ Enter(c, [at |-> "checkout"])
    /\ calm' = (calm /\ Alone(c))
    /\ UNCHANGED <<subscription, business, referral, credits, earned>>

(* ensureBusinessCustomer: a new row takes the column's default, ACTIVE. *)
EnsureBusinessCustomer(c) ==
    /\ At(c, "checkout")
    /\ subscription' = IF subscription = NoSubscription
                       THEN [status |-> "ACTIVE", plan |-> "FREE"] ELSE subscription
    /\ Step(c, [at |-> "lookup"])
    /\ UNCHANGED <<business, referral, credits, earned, calm>>

(* A live subscription is switched in place; without one a referral may be   *)
(* recorded and a checkout session is opened.                                *)
Checkout(c) ==
    /\ At(c, "lookup")
    /\ \/ \E event \in Event :
            /\ Step(c, Applying(event))
            /\ calm' = CalmApplying(c, event)
            /\ UNCHANGED referral
       \/ /\ referral' \in {referral, IF referral = "none" THEN "PENDING" ELSE referral}
          /\ Return(c)
          /\ UNCHANGED calm
    /\ UNCHANGED <<subscription, business, credits, earned>>

-----------------------------------------------------------------------------
(* The administrator and the daily job *)

RequestSetPlan(c, plan) ==
    /\ ~Billed
    /\ Enter(c, [at |-> "setPlan", plan |-> plan])
    /\ calm' = (calm /\ Alone(c))
    /\ UNCHANGED <<subscription, business, referral, credits, earned>>

SetPlanAdmin(c) ==
    /\ At(c, "setPlan")
    /\ business' = [plan |-> call[c].plan, grant |-> "none", previous |-> "FREE"]
    /\ earned' = call[c].plan
    /\ Return(c)
    /\ UNCHANGED <<subscription, referral, credits, calm>>

(* A grant that is current is extended; otherwise the plan the business has  *)
(* is kept for later, even when that is the plan of a grant that has ended.  *)
RequestGrant(c, plan) ==
    /\ ~Billed
    /\ Enter(c, [at |-> "grant", plan |-> plan,
                 previous |-> IF business.grant = "current" THEN business.previous
                              ELSE business.plan])
    /\ calm' = (calm /\ Alone(c) /\ business.grant # "past")
    /\ UNCHANGED <<subscription, business, referral, credits, earned>>

GrantComplimentaryPlan(c) ==
    /\ At(c, "grant")
    /\ business' = [plan |-> call[c].plan, grant |-> "current", previous |-> call[c].previous]
    /\ Return(c)
    /\ UNCHANGED <<subscription, referral, credits, earned, calm>>

RequestExpiry(c) ==
    /\ business.grant = "past"
    /\ Enter(c, [at |-> "expire", previous |-> business.previous])
    /\ calm' = (calm /\ Alone(c))
    /\ UNCHANGED <<subscription, business, referral, credits, earned>>

ExpireComplimentaryPlan(c) ==
    /\ At(c, "expire")
    /\ business' = [plan |-> call[c].previous, grant |-> "none", previous |-> "FREE"]
    /\ Return(c)
    /\ UNCHANGED <<subscription, referral, credits, earned, calm>>

(* Stripe will send an event again that was not applied to the end. *)
DieBilling(c) ==
    /\ call[c] # Idle
    /\ Return(c)
    /\ calm' = (calm /\ call[c].at \notin {"apply", "applied"})
    /\ UNCHANGED <<subscription, business, referral, credits, earned>>

SubscriptionsNext ==
    \/ GrantEnds
    \/ \E c \in Call :
         \/ \E event \in Event : ReceiveEvent(c, event)
         \/ ApplyRow(c) \/ ApplyBusiness(c) \/ ClaimPendingReward(c) \/ GrantReferralReward(c)
         \/ RequestCheckout(c) \/ EnsureBusinessCustomer(c) \/ Checkout(c)
         \/ \E plan \in Plan : RequestSetPlan(c, plan)
         \/ \E plan \in Paid : RequestGrant(c, plan)
         \/ SetPlanAdmin(c) \/ GrantComplimentaryPlan(c)
         \/ RequestExpiry(c) \/ ExpireComplimentaryPlan(c)
         \/ DieBilling(c)

SubscriptionsSpec == SubscriptionsInit /\ [][SubscriptionsNext]_subscriptionsVars

-----------------------------------------------------------------------------
(* However often Stripe reports that a referred business pays, its referrer  *)
(* is credited at most once.                                                 *)
RewardedOnce == credits <= 1

(* Without a grant the business has the plan that Stripe or an administrator *)
(* last gave it, and a plan that is being paid for has no grant over it that *)
(* could end: across failed payments, grants, renewals and their ends, as    *)
(* long as the handlers run one after another.                               *)
PlanIsEarned ==
    calm /\ (\A c \in Call : call[c] = Idle) =>
        /\ business.grant = "none" => business.plan = earned
        /\ subscription.plan # "FREE" =>
               business.plan = subscription.plan /\ business.grant = "none"

RevokesGrant(c) ==
    /\ At(c, "applied") /\ call[c].event.plan = "FREE"
    /\ business.grant = "current" /\ business'.grant = "none"

(* An event about a failed or cancelled subscription does not end a current  *)
(* grant, when no other handler runs beside its own.                         *)
FailureKeepsGrant == [][calm => \A c \in Call : ~RevokesGrant(c)]_subscriptionsVars
=============================================================================
