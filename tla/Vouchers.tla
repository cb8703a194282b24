------------------------------ MODULE Vouchers ------------------------------
(***************************************************************************)
(* Gift cards (gift-cards.service.ts) and client packages                  *)
(* (packages.service.ts).  redeem reads the row, checks it and writes the  *)
(* balance it has computed in a SERIALIZABLE transaction that is tried up  *)
(* to three times; issue and void are plain writes.                        *)
(***************************************************************************)
EXTENDS Accounts, Handlers

CONSTANT Package  \* the vouchers that are packages: one credit at a time

ASSUME VouchersAssumption == Package \subseteq Voucher

VARIABLE expired  \* vouchers whose expiresAt has passed

vouchersVars == <<voucher, redeemed, expired, call>>

Attempts == 3

VouchersInit == AccountsInit /\ expired = {} /\ HandlersInit

IssueVoucher(c, v, amount) ==
    /\ call[c] = Idle
    /\ Issue(v, amount)
    /\ UNCHANGED <<expired, call>>

Expire(v) ==
    /\ v \notin expired
    /\ expired' = expired \cup {v}
    /\ UNCHANGED <<voucher, redeemed, call>>

VoidVoucher(c, v) ==
    /\ call[c] = Idle
    /\ Void(v)
    /\ UNCHANGED <<expired, call>>

RequestRedeem(c, v, amount) ==
    /\ voucher[v] # Unissued
    /\ v \in Package => amount = 1
    /\ Enter(c, [at |-> "redeem", voucher |-> v, amount |-> amount, tries |-> 1])
    /\ UNCHANGED <<voucher, redeemed, expired>>

(* The transaction takes its snapshot; a check that fails throws. *)
BeginRedeem(c) ==
    /\ At(c, "redeem")
    /\ LET k == call[c]
       IN IF Covers(voucher[k.voucher], k.amount) /\ k.voucher \notin expired
          THEN Step(c, [at |-> "redeemTx", voucher |-> k.voucher, amount |-> k.amount,
                        tries |-> k.tries, row |-> voucher[k.voucher]])
          ELSE Return(c)
    /\ UNCHANGED <<voucher, redeemed, expired>>

Redeemed(c) ==
    LET k == call[c]
    IN /\ voucher' = [voucher EXCEPT ![k.voucher] = Less(k.row, k.amount)]
       /\ redeemed' = [redeemed EXCEPT ![k.voucher] = @ + k.amount]

(* Mutant: the transaction runs at READ COMMITTED. *)
CommitRedeemUnchecked(c) ==
    /\ At(c, "redeemTx")
    /\ Redeemed(c)
    /\ Return(c)
    /\ UNCHANGED expired

(* A row that was written after the snapshot cannot be written. *)
CommitRedeem(c) ==
    /\ At(c, "redeemTx")
    /\ voucher[call[c].voucher] = call[c].row
    /\ Redeemed(c)
    /\ Return(c)
    /\ UNCHANGED expired

(* A write conflict, real or presumed; the third one is thrown. *)
ConflictRedeem(c) ==
    /\ At(c, "redeemTx")
    /\ LET k == call[c]
       IN IF k.tries < Attempts
          THEN Step(c, [at |-> "redeem", voucher |-> k.voucher, amount |-> k.amount,
                        tries |-> k.tries + 1])
          ELSE Return(c)
    /\ UNCHANGED <<voucher, redeemed, expired>>

DieRedeeming(c) ==
    /\ call[c] # Idle
    /\ Return(c)
    /\ UNCHANGED <<voucher, redeemed, expired>>

VouchersNext ==
    \/ \E v \in Voucher : Expire(v)
    \/ \E c \in Call :
         \/ \E v \in Voucher : VoidVoucher(c, v)
         \/ \E v \in Voucher, amount \in Amount : IssueVoucher(c, v, amount) \/ RequestRedeem(c, v, amount)
         \/ BeginRedeem(c) \/ CommitRedeem(c) \/ ConflictRedeem(c) \/ DieRedeeming(c)

VouchersSpec == VouchersInit /\ [][VouchersNext]_vouchersVars

-----------------------------------------------------------------------------
(* The calls implement an account whose amounts are taken one at a time: no   *)
(* redemption is lost, applied twice, or applied to a balance it did not read. *)
ImplementsAccounts == AccountsSpec
=============================================================================
