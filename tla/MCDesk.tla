------------------------------- MODULE MCDesk -------------------------------
(***************************************************************************)
(* The services around the calendar, for TLC.  They share no table, so one *)
(* of them runs at a time: focus names it and the others rest in their     *)
(* initial states.                                                         *)
(***************************************************************************)
EXTENDS Vouchers, Subscriptions, Campaigns, Invoices, GoogleSync, Waitlist, Imports, Sessions,
        FollowUps, TLC

VARIABLE focus

vouchersOwn == <<voucher, redeemed, expired>>
subscriptionsOwn == <<subscription, business, referral, credits, earned, calm>>
campaignsOwn == <<campaign, day, queued, inTurn, went, freed>>
invoicesOwn == <<invoice, sequence, numbers, mailed, alone>>
googleOwn == <<connected, meeting, events, made, tended>>
waitlistOwn == <<entry, joined, offers, jobs, oneByOne>>
importsOwn == <<file, staged, emails, imported>>
sessionsOwn == <<session, signed, locked, holds, unheard, overtook>>
followUpsOwn == <<tracker, policy, asked, scan, followUp, written, owed, visited, orderly>>

(* What is chosen at random at the start, is so only for its own service. *)
DeskInit ==
    /\ focus \in {"vouchers", "subscriptions", "campaigns", "invoices", "google",
                  "waitlist", "imports", "sessions", "followUps"}
    /\ VouchersInit /\ SubscriptionsInit /\ CampaignsInit /\ InvoicesInit
    /\ GoogleInit /\ WaitlistInit /\ ImportsInit /\ SessionsInit /\ FollowUpsInit
    /\ focus # "google" => connected
    /\ focus # "imports" => \A r \in ImportRow : file[r] = NoEmail

DeskNext ==
    /\ UNCHANGED focus
    /\ \/ /\ focus = "vouchers" /\ VouchersNext
          /\ UNCHANGED <<subscriptionsOwn, campaignsOwn, invoicesOwn, googleOwn,
                         waitlistOwn, importsOwn, sessionsOwn, followUpsOwn>>
       \/ /\ focus = "subscriptions" /\ SubscriptionsNext
          /\ UNCHANGED <<vouchersOwn, campaignsOwn, invoicesOwn, googleOwn,
                         waitlistOwn, importsOwn, sessionsOwn, followUpsOwn>>
       \/ /\ focus = "campaigns" /\ CampaignsNext
          /\ UNCHANGED <<vouchersOwn, subscriptionsOwn, invoicesOwn, googleOwn,
                         waitlistOwn, importsOwn, sessionsOwn, followUpsOwn>>
       \/ /\ focus = "invoices" /\ InvoicesNext
          /\ UNCHANGED <<vouchersOwn, subscriptionsOwn, campaignsOwn, googleOwn,
                         waitlistOwn, importsOwn, sessionsOwn, followUpsOwn>>
       \/ /\ focus = "google" /\ GoogleNext
          /\ UNCHANGED <<vouchersOwn, subscriptionsOwn, campaignsOwn, invoicesOwn,
                         waitlistOwn, importsOwn, sessionsOwn, followUpsOwn>>
       \/ /\ focus = "waitlist" /\ WaitlistNext
          /\ UNCHANGED <<vouchersOwn, subscriptionsOwn, campaignsOwn, invoicesOwn,
                         googleOwn, importsOwn, sessionsOwn, followUpsOwn>>
       \/ /\ focus = "imports" /\ ImportsNext
          /\ UNCHANGED <<vouchersOwn, subscriptionsOwn, campaignsOwn, invoicesOwn,
                         googleOwn, waitlistOwn, sessionsOwn, followUpsOwn>>
       \/ /\ focus = "sessions" /\ SessionsNext
          /\ UNCHANGED <<vouchersOwn, subscriptionsOwn, campaignsOwn, invoicesOwn,
                         googleOwn, waitlistOwn, importsOwn, followUpsOwn>>
       \/ /\ focus = "followUps" /\ FollowUpsNext
          /\ UNCHANGED <<vouchersOwn, subscriptionsOwn, campaignsOwn, invoicesOwn,
                         googleOwn, waitlistOwn, importsOwn, sessionsOwn>>

deskVars == <<focus, call, vouchersOwn, subscriptionsOwn, campaignsOwn, invoicesOwn,
              googleOwn, waitlistOwn, importsOwn, sessionsOwn, followUpsOwn>>

DeskSpec == DeskInit /\ [][DeskNext]_deskVars

Symmetry == Permutations(Call)
=============================================================================
