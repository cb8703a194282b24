------------------------------ MODULE Accounts ------------------------------
(***************************************************************************)
(* What a gift card or a package promises: an account that is opened with  *)
(* an amount, from which amounts are taken one at a time and only while it *)
(* is open and covers them, and that can be closed for good.  There are no *)
(* requests, transactions or retries here; Vouchers implements it.         *)
(***************************************************************************)
EXTENDS Naturals

CONSTANTS
    Voucher,  \* gift cards and packages
    Largest   \* the largest amount a voucher is issued with

ASSUME AccountsAssumption == Largest \in Nat \ {0}

VARIABLES
    voucher,  \* its row: status, the amount it was issued with and what is left
    redeemed  \* the sum of its redemption rows

accountsVars == <<voucher, redeemed>>

Amount == 1 .. Largest

Unissued == [status |-> "NONE", initial |-> 0, left |-> 0]

AccountsInit ==
    /\ voucher = [v \in Voucher |-> Unissued]
    /\ redeemed = [v \in Voucher |-> 0]

(* The row after amount has been taken: REDEEMED (a package: USED) at zero. *)
Less(row, amount) ==
    [status |-> IF row.left = amount THEN "SPENT" ELSE "ACTIVE",
     initial |-> row.initial, left |-> row.left - amount]

(* Mutant: compared with what the voucher was issued with. *)
CoversInitially(row, amount) ==
    /\ row.status \notin {"NONE", "VOID"}
    /\ amount <= row.initial

(* Voided, or without enough left: nothing can be taken. *)
Covers(row, amount) ==
    /\ row.status \notin {"NONE", "VOID"}
    /\ amount <= row.left

Issue(v, amount) ==
    /\ voucher[v] = Unissued
    /\ voucher' = [voucher EXCEPT ![v] =
                      [status |-> "ACTIVE", initial |-> amount, left |-> amount]]
    /\ UNCHANGED redeemed

Spend(v, amount) ==
    /\ Covers(voucher[v], amount)
    /\ voucher' = [voucher EXCEPT ![v] = Less(@, amount)]
    /\ redeemed' = [redeemed EXCEPT ![v] = @ + amount]

Void(v) ==
    /\ voucher[v] # Unissued
    /\ voucher' = [voucher EXCEPT ![v].status = "VOID"]
    /\ UNCHANGED redeemed

AccountsNext ==
    \E v \in Voucher : Void(v) \/ \E amount \in Amount : Issue(v, amount) \/ Spend(v, amount)

AccountsSpec == AccountsInit /\ [][AccountsNext]_accountsVars

-----------------------------------------------------------------------------
VoucherTypeOK ==
    /\ voucher \in [Voucher -> [status : {"NONE", "ACTIVE", "SPENT", "VOID"},
                                initial : 0 .. Largest, left : 0 .. Largest]]
    /\ redeemed \in [Voucher -> 0 .. Largest]

(* What was taken from a voucher and what is left of it make up what it was *)
(* issued with, whichever redemptions raced with each other and with a void; *)
(* it is SPENT only when nothing is left.                                    *)
Balanced ==
    \A v \in Voucher :
        /\ redeemed[v] + voucher[v].left = voucher[v].initial
        /\ voucher[v].status = "SPENT" => voucher[v].left = 0

(* A voided voucher stays void and gives nothing more. *)
VoidIsFinal ==
    [][\A v \in Voucher : voucher[v].status = "VOID" =>
            voucher'[v] = voucher[v] /\ redeemed'[v] = redeemed[v]]_accountsVars
=============================================================================
