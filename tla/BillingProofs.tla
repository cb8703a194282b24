---------------------------- MODULE BillingProofs -----------------------------
(***************************************************************************)
(* Proofs about what clients and businesses pay for besides appointments:  *)
(* Accounts and Vouchers, Invoices, Subscriptions; for every set of        *)
(* vouchers, invoices, businesses, events and requests, and all amounts.   *)
(***************************************************************************)
EXTENDS Vouchers, Invoices, Subscriptions, FiniteSetTheorems, TLAPS

-----------------------------------------------------------------------------
(***************************************************************************)
(* Vouchers. First the promises of an account, then that the calls         *)
(* implement one: a transaction in flight holds a row that covers its      *)
(* amount, and commits only while that row is the row.                     *)
(***************************************************************************)

AccountRow == [status : {"NONE", "ACTIVE", "SPENT", "VOID"},
               initial : 0 .. Largest, left : 0 .. Largest]

(* The inductive invariant of an account: a redeemed sum is within its bound *)
(* because of the balance, and the balance is kept because of the types.     *)
AccountsInv == VoucherTypeOK /\ Balanced

LEMMA AccountsInvInit == AccountsInit => AccountsInv
  BY AccountsAssumption DEF AccountsInit, AccountsInv, VoucherTypeOK, Balanced, Unissued

(* Taking an amount that a row covers leaves a row, with that much less in it. *)
LEMMA LessFacts ==
  ASSUME NEW row \in AccountRow, NEW amount \in Amount, Covers(row, amount)
  PROVE  /\ Less(row, amount) \in AccountRow
         /\ Less(row, amount).left = row.left - amount
         /\ Less(row, amount).initial = row.initial
         /\ Less(row, amount).status = "SPENT" => Less(row, amount).left = 0
         /\ Less(row, amount).status \in {"ACTIVE", "SPENT"}
<1>1. row.left - amount \in 0 .. Largest
  BY AccountsAssumption DEF Covers, AccountRow, Amount
<1>. QED  BY <1>1, AccountsAssumption DEF Less, AccountRow, Covers, Amount

LEMMA AccountsInvStep == AccountsInv /\ [AccountsNext]_accountsVars => AccountsInv'
<1>. SUFFICES ASSUME AccountsInv, [AccountsNext]_accountsVars
              PROVE  AccountsInv'
  OBVIOUS
<1>. USE AccountsAssumption
<1>0. /\ voucher \in [Voucher -> AccountRow]
      /\ redeemed \in [Voucher -> 0 .. Largest]
  BY DEF AccountsInv, VoucherTypeOK, AccountRow
<1>b. ASSUME NEW v \in Voucher
      PROVE  /\ redeemed[v] + voucher[v].left = voucher[v].initial
             /\ voucher[v].status = "SPENT" => voucher[v].left = 0
  BY DEF AccountsInv, Balanced
<1>1. ASSUME NEW v \in Voucher, Void(v)
      PROVE  AccountsInv'
  <2>1. voucher' = [voucher EXCEPT ![v] = [voucher[v] EXCEPT !.status = "VOID"]] /\ redeemed' = redeemed
    BY <1>1 DEF Void
  <2>2. [voucher[v] EXCEPT !.status = "VOID"] = [status |-> "VOID", initial |-> voucher[v].initial,
                                                 left |-> voucher[v].left]
    BY <1>0 DEF AccountRow
  <2>3. VoucherTypeOK'
    BY <1>0, <2>1, <2>2 DEF VoucherTypeOK, AccountRow
  <2>4. Balanced'
    BY <1>0, <1>b, <2>1, <2>2 DEF Balanced
  <2>. QED  BY <2>3, <2>4 DEF AccountsInv
<1>2. ASSUME NEW v \in Voucher, NEW amount \in Amount, Issue(v, amount)
      PROVE  AccountsInv'
  <2>1. /\ voucher[v] = Unissued
        /\ voucher' = [voucher EXCEPT ![v] = [status |-> "ACTIVE", initial |-> amount, left |-> amount]]
        /\ redeemed' = redeemed
    BY <1>2 DEF Issue
  <2>2. redeemed[v] = 0
    <3>1. redeemed[v] + voucher[v].left = voucher[v].initial
      BY <1>b
    <3>2. voucher[v].left = 0 /\ voucher[v].initial = 0
      BY <2>1 DEF Unissued
    <3>. QED  BY <1>0, <3>1, <3>2
  <2>3. VoucherTypeOK'
    BY <1>0, <2>1 DEF VoucherTypeOK, AccountRow, Amount
  <2>4. Balanced'
    BY <1>0, <1>b, <2>1, <2>2 DEF Balanced, Amount
  <2>. QED  BY <2>3, <2>4 DEF AccountsInv
<1>3. ASSUME NEW v \in Voucher, NEW amount \in Amount, Spend(v, amount)
      PROVE  AccountsInv'
  <2>1. /\ Covers(voucher[v], amount)
        /\ voucher' = [voucher EXCEPT ![v] = Less(voucher[v], amount)]
        /\ redeemed' = [redeemed EXCEPT ![v] = redeemed[v] + amount]
    BY <1>3 DEF Spend
  <2>2. /\ Less(voucher[v], amount) \in AccountRow
        /\ Less(voucher[v], amount).left = voucher[v].left - amount
        /\ Less(voucher[v], amount).initial = voucher[v].initial
        /\ Less(voucher[v], amount).status = "SPENT" => Less(voucher[v], amount).left = 0
    BY <1>0, <2>1, LessFacts
  <2>3. redeemed[v] + amount + Less(voucher[v], amount).left = voucher[v].initial
    BY <1>0, <1>b, <2>2 DEF AccountRow, Amount
  <2>4. redeemed[v] + amount \in 0 .. Largest
    <3>1. redeemed[v] \in Nat /\ amount \in Nat
      BY <1>0 DEF Amount
    <3>2. Less(voucher[v], amount).left \in Nat /\ voucher[v].initial \in 0 .. Largest
      BY <1>0, <2>2 DEF AccountRow
    <3>. QED  BY <2>3, <3>1, <3>2
  <2>5. VoucherTypeOK'
    BY <1>0, <2>1, <2>2, <2>4 DEF VoucherTypeOK, AccountRow
  <2>6. Balanced'
    <3>. SUFFICES ASSUME NEW w \in Voucher
                  PROVE  /\ redeemed'[w] + voucher'[w].left = voucher'[w].initial
                         /\ voucher'[w].status = "SPENT" => voucher'[w].left = 0
      BY DEF Balanced
    <3>1. CASE w = v
      BY <1>0, <2>1, <2>2, <2>3, <3>1
    <3>2. CASE w # v
      BY <1>0, <1>b, <2>1, <3>2
    <3>. QED  BY <3>1, <3>2
  <2>. QED  BY <2>5, <2>6 DEF AccountsInv
<1>4. CASE UNCHANGED accountsVars
  BY <1>4 DEF AccountsInv, VoucherTypeOK, Balanced, accountsVars
<1>. QED  BY <1>1, <1>2, <1>3, <1>4 DEF AccountsNext

(* An account is of its type and balanced: what was taken and what is left   *)
(* make up what it was opened with.                                          *)
THEOREM AccountsSafe == AccountsSpec => [](VoucherTypeOK /\ Balanced)
<1>1. AccountsInv => VoucherTypeOK /\ Balanced
  BY DEF AccountsInv
<1>. QED  BY AccountsInvInit, AccountsInvStep, <1>1, PTL DEF AccountsSpec

(* One step: from an account that is void nothing is taken any more.         *)
LEMMA VoidStep ==
  AccountsInv /\ [AccountsNext]_accountsVars =>
    \A v \in Voucher : voucher[v].status = "VOID" =>
        voucher'[v] = voucher[v] /\ redeemed'[v] = redeemed[v]
<1>. SUFFICES ASSUME AccountsInv, [AccountsNext]_accountsVars,
                     NEW v \in Voucher, voucher[v].status = "VOID"
              PROVE  voucher'[v] = voucher[v] /\ redeemed'[v] = redeemed[v]
  OBVIOUS
<1>0. voucher \in [Voucher -> AccountRow] /\ redeemed \in [Voucher -> 0 .. Largest]
  BY DEF AccountsInv, VoucherTypeOK, AccountRow
<1>1. ASSUME NEW w \in Voucher, Void(w)
      PROVE  voucher'[v] = voucher[v] /\ redeemed'[v] = redeemed[v]
  <2>1. [voucher[v] EXCEPT !.status = "VOID"] = voucher[v]
    BY <1>0 DEF AccountRow
  <2>. QED  BY <1>0, <1>1, <2>1 DEF Void
<1>2. ASSUME NEW w \in Voucher, NEW amount \in Amount, Issue(w, amount)
      PROVE  voucher'[v] = voucher[v] /\ redeemed'[v] = redeemed[v]
  <2>1. w # v
    BY <1>2 DEF Issue, Unissued
  <2>. QED  BY <1>0, <1>2, <2>1 DEF Issue
<1>3. ASSUME NEW w \in Voucher, NEW amount \in Amount, Spend(w, amount)
      PROVE  voucher'[v] = voucher[v] /\ redeemed'[v] = redeemed[v]
  <2>1. w # v
    BY <1>3 DEF Spend, Covers
  <2>. QED  BY <1>0, <1>3, <2>1 DEF Spend
<1>4. CASE UNCHANGED accountsVars
  BY <1>4 DEF accountsVars
<1>. QED  BY <1>1, <1>2, <1>3, <1>4 DEF AccountsNext

(* A void account stays void and gives nothing more.                         *)
THEOREM AccountsVoidIsFinal == AccountsSpec => VoidIsFinal
<1>1. AccountsInv /\ [AccountsNext]_accountsVars =>
        [\A v \in Voucher : voucher[v].status = "VOID" =>
            voucher'[v] = voucher[v] /\ redeemed'[v] = redeemed[v]]_accountsVars
  BY VoidStep
<1>. QED  BY AccountsInvInit, AccountsInvStep, <1>1, PTL DEF AccountsSpec, VoidIsFinal

-----------------------------------------------------------------------------
(***************************************************************************)
(* The calls.  A redemption in its transaction holds a snapshot that       *)
(* covers what it takes; BeginRedeem checks that, and nobody else writes   *)
(* the snapshot of a call.                                                 *)
(***************************************************************************)
Redeeming == [at : {"redeem"}, voucher : Voucher, amount : Amount, tries : Nat]

InTransaction ==
    {k \in [at : {"redeemTx"}, voucher : Voucher, amount : Amount, tries : Nat, row : AccountRow] :
        Covers(k.row, k.amount)}

CallsHoldCover == call \in [Call -> {Idle} \cup Redeeming \cup InTransaction]

VouchersInv == AccountsInv /\ CallsHoldCover

LEMMA RedeemingCall ==
  ASSUME CallsHoldCover, NEW c \in Call, At(c, "redeem")
  PROVE  call[c] \in Redeeming
  BY DEF CallsHoldCover, At, Idle, InTransaction

LEMMA TransactionCall ==
  ASSUME CallsHoldCover, NEW c \in Call, At(c, "redeemTx")
  PROVE  call[c] \in InTransaction
  BY DEF CallsHoldCover, At, Idle, Redeeming

(* The only write of a call to the rows takes a covered amount from the row  *)
(* that it has read; every other step is one of an account or none.          *)
LEMMA VouchersStepIsAccountsStep ==
  CallsHoldCover /\ [VouchersNext]_vouchersVars => [AccountsNext]_accountsVars
<1>. SUFFICES ASSUME CallsHoldCover, [VouchersNext]_vouchersVars
              PROVE  [AccountsNext]_accountsVars
  OBVIOUS
<1>1. ASSUME NEW v \in Voucher, Expire(v)
      PROVE  UNCHANGED accountsVars
  BY <1>1 DEF Expire, accountsVars
<1>2. ASSUME NEW c \in Call, NEW v \in Voucher, VoidVoucher(c, v)
      PROVE  AccountsNext
  BY <1>2 DEF VoidVoucher, AccountsNext
<1>3. ASSUME NEW c \in Call, NEW v \in Voucher, NEW amount \in Amount, IssueVoucher(c, v, amount)
      PROVE  AccountsNext
  BY <1>3 DEF IssueVoucher, AccountsNext
<1>4. ASSUME NEW c \in Call, NEW v \in Voucher, NEW amount \in Amount, RequestRedeem(c, v, amount)
      PROVE  UNCHANGED accountsVars
  BY <1>4 DEF RequestRedeem, accountsVars
<1>5. ASSUME NEW c \in Call, BeginRedeem(c) \/ ConflictRedeem(c) \/ DieRedeeming(c)
      PROVE  UNCHANGED accountsVars
  BY <1>5 DEF BeginRedeem, ConflictRedeem, DieRedeeming, accountsVars
<1>6. ASSUME NEW c \in Call, CommitRedeem(c)
      PROVE  AccountsNext
  <2>. DEFINE k == call[c]
  <2>1. k \in InTransaction
    BY <1>6, TransactionCall DEF CommitRedeem
  <2>2. /\ k.voucher \in Voucher /\ k.amount \in Amount
        /\ Covers(k.row, k.amount)
    BY <2>1 DEF InTransaction
  <2>3. /\ voucher[k.voucher] = k.row
        /\ voucher' = [voucher EXCEPT ![k.voucher] = Less(k.row, k.amount)]
        /\ redeemed' = [redeemed EXCEPT ![k.voucher] = @ + k.amount]
    BY <1>6 DEF CommitRedeem, Redeemed
  <2>4. Spend(k.voucher, k.amount)
    BY <2>2, <2>3 DEF Spend
  <2>. QED  BY <2>2, <2>4 DEF AccountsNext
<1>7. CASE UNCHANGED vouchersVars
  BY <1>7 DEF vouchersVars, accountsVars
<1>. QED  BY <1>1, <1>2, <1>3, <1>4, <1>5, <1>6, <1>7 DEF VouchersNext

LEMMA VouchersInvInit == VouchersInit => VouchersInv
  BY AccountsInvInit DEF VouchersInit, VouchersInv, HandlersInit, CallsHoldCover

LEMMA CallsHoldCoverStep ==
  AccountsInv /\ CallsHoldCover /\ [VouchersNext]_vouchersVars => CallsHoldCover'
<1>. SUFFICES ASSUME AccountsInv, CallsHoldCover, [VouchersNext]_vouchersVars
              PROVE  CallsHoldCover'
  OBVIOUS
<1>0. /\ call \in [Call -> {Idle} \cup Redeeming \cup InTransaction]
      /\ voucher \in [Voucher -> AccountRow]
  BY DEF CallsHoldCover, AccountsInv, VoucherTypeOK, AccountRow
<1>1. ASSUME NEW v \in Voucher, Expire(v)
      PROVE  call' = call
  BY <1>1 DEF Expire
<1>2. ASSUME NEW c \in Call, NEW v \in Voucher, VoidVoucher(c, v)
      PROVE  call' = call
  BY <1>2 DEF VoidVoucher
<1>3. ASSUME NEW c \in Call, NEW v \in Voucher, NEW amount \in Amount, IssueVoucher(c, v, amount)
      PROVE  call' = call
  BY <1>3 DEF IssueVoucher
<1>4. ASSUME NEW c \in Call, NEW v \in Voucher, NEW amount \in Amount, RequestRedeem(c, v, amount)
      PROVE  CallsHoldCover'
  <2>1. call' = [call EXCEPT ![c] = [at |-> "redeem", voucher |-> v, amount |-> amount, tries |-> 1]]
    BY <1>4 DEF RequestRedeem, Enter
  <2>2. [at |-> "redeem", voucher |-> v, amount |-> amount, tries |-> 1] \in Redeeming
    BY DEF Redeeming
  <2>. QED  BY <1>0, <2>1, <2>2 DEF CallsHoldCover
<1>5. ASSUME NEW c \in Call, BeginRedeem(c)
      PROVE  CallsHoldCover'
  <2>. DEFINE k == call[c]
              tx == [at |-> "redeemTx", voucher |-> k.voucher, amount |-> k.amount,
                     tries |-> k.tries, row |-> voucher[k.voucher]]
  <2>1. k \in Redeeming
    BY <1>5, RedeemingCall DEF BeginRedeem
  <2>2. CASE Covers(voucher[k.voucher], k.amount) /\ k.voucher \notin expired
    <3>1. call' = [call EXCEPT ![c] = tx]
      BY <1>5, <2>2 DEF BeginRedeem, Step
    <3>2. tx \in InTransaction
      BY <1>0, <2>1, <2>2 DEF Redeeming, InTransaction
    <3>. QED  BY <1>0, <3>1, <3>2 DEF CallsHoldCover
  <2>3. CASE ~(Covers(voucher[k.voucher], k.amount) /\ k.voucher \notin expired)
    <3>1. call' = [call EXCEPT ![c] = Idle]
      BY <1>5, <2>3 DEF BeginRedeem, Return
    <3>. QED  BY <1>0, <3>1 DEF CallsHoldCover
  <2>. QED  BY <2>2, <2>3
<1>6. ASSUME NEW c \in Call, CommitRedeem(c) \/ DieRedeeming(c)
      PROVE  CallsHoldCover'
  <2>1. call' = [call EXCEPT ![c] = Idle]
    BY <1>6 DEF CommitRedeem, DieRedeeming, Return
  <2>. QED  BY <1>0, <2>1 DEF CallsHoldCover
<1>7. ASSUME NEW c \in Call, ConflictRedeem(c)
      PROVE  CallsHoldCover'
  <2>. DEFINE k == call[c]
              again == [at |-> "redeem", voucher |-> k.voucher, amount |-> k.amount,
                        tries |-> k.tries + 1]
  <2>1. k \in InTransaction
    BY <1>7, TransactionCall DEF ConflictRedeem
  <2>2. again \in Redeeming
    BY <2>1 DEF InTransaction, Redeeming
  <2>3. call' = [call EXCEPT ![c] = again] \/ call' = [call EXCEPT ![c] = Idle]
    BY <1>7 DEF ConflictRedeem, Step, Return
  <2>. QED  BY <1>0, <2>2, <2>3 DEF CallsHoldCover
<1>8. CASE UNCHANGED vouchersVars
  BY <1>8 DEF vouchersVars, CallsHoldCover
<1>9. call' = call => CallsHoldCover'
  BY DEF CallsHoldCover
<1>. QED  BY <1>1, <1>2, <1>3, <1>4, <1>5, <1>6, <1>7, <1>8, <1>9 DEF VouchersNext

LEMMA VouchersInvStep == VouchersInv /\ [VouchersNext]_vouchersVars => VouchersInv'
  BY VouchersStepIsAccountsStep, AccountsInvStep, CallsHoldCoverStep DEF VouchersInv

(* The calls of gift-cards.service.ts and packages.service.ts implement      *)
(* accounts: no redemption is lost, applied twice or based on a stale row.   *)
THEOREM VouchersImplementAccounts == VouchersSpec => ImplementsAccounts
<1>1. VouchersInit => AccountsInit
  BY DEF VouchersInit
<1>2. VouchersInv => CallsHoldCover
  BY DEF VouchersInv
<1>. QED  BY VouchersInvInit, VouchersInvStep, VouchersStepIsAccountsStep, <1>1, <1>2, PTL
          DEF VouchersSpec, ImplementsAccounts, AccountsSpec

(* The rows of vouchers, and what is left on them, have their types, with    *)
(* every number of calls in flight.                                          *)
THEOREM VouchersTyped == VouchersSpec => []VoucherTypeOK
  BY VouchersImplementAccounts, AccountsSafe, PTL DEF ImplementsAccounts

(* What was taken from a voucher by the calls and what is left on it make up *)
(* what it was issued with.                                                  *)
THEOREM VouchersBalanced == VouchersSpec => []Balanced
  BY VouchersImplementAccounts, AccountsSafe, PTL DEF ImplementsAccounts

(* A voucher that was voided stays void, and no call takes from it.          *)
THEOREM VouchersVoidIsFinal == VouchersSpec => VoidIsFinal
  BY VouchersImplementAccounts, AccountsVoidIsFinal, PTL DEF ImplementsAccounts

-----------------------------------------------------------------------------
(***************************************************************************)
(* Invoices. The row of the business is locked while a number is given     *)
(* out, so that the next one is always the sequence and one; and while     *)
(* handlers do not overlap on an invoice, what each has read still stands. *)
(***************************************************************************)

InvoiceRow == [status : {"NONE"} \cup Status, subtotal : Nat, discount : Nat, total : Nat]

Creating == [at : {"create"}, invoice : Invoice, number : Nat]
Updating == [at : {"update"}, invoice : Invoice, subtotal : Nat, discount : Nat]
Changing == [at : {"status"}, invoice : Invoice, status : Status]
Mailing == [at : {"mail", "sent"}, invoice : Invoice, draft : BOOLEAN, total : Nat]
Busy == Creating \cup Updating \cup Changing \cup Mailing

InvoiceShapes ==
    /\ invoice \in [Invoice -> InvoiceRow]
    /\ sequence \in Nat
    /\ numbers \in [DOMAIN numbers -> Nat]
    /\ DOMAIN numbers \subseteq Invoice
    /\ IsFiniteSet(DOMAIN numbers)
    /\ mailed \in [Invoice -> Nat]
    /\ alone \in [Invoice -> BOOLEAN]
    /\ call \in [Call -> {Idle} \cup Busy]
    /\ \A i \in Invoice : invoice[i].status = "NONE" <=> invoice[i] = NoInvoice

(* A call that is not at "create" works on an invoice that has its number. *)
Numbered ==
    /\ \A i \in Invoice : invoice[i] # NoInvoice => i \in DOMAIN numbers
    /\ \A c \in Call : call[c] \in Busy \ Creating => call[c].invoice \in DOMAIN numbers
    /\ \A c \in Call : At(c, "create") => /\ call[c].number = sequence + 1
                                          /\ call[c].invoice \notin DOMAIN numbers
    /\ \A c, d \in Call : At(c, "create") /\ At(d, "create") => c = d

-----------------------------------------------------------------------------
(* Which call is where. *)

LEMMA CallAt ==
  ASSUME InvoiceShapes, NEW c \in Call
  PROVE  /\ call[c] = Idle \/ call[c] \in Busy
         /\ call[c] # Idle => call[c] \in Busy
         /\ At(c, "create") => call[c] \in Creating
         /\ At(c, "update") => call[c] \in Updating
         /\ At(c, "status") => call[c] \in Changing
         /\ At(c, "mail") \/ At(c, "sent") => call[c] \in Mailing
<1>1. call[c] = Idle \/ call[c] \in Busy
  BY DEF InvoiceShapes
<1>2. call[c] = Idle => call[c].at = "idle"
  BY DEF Idle
<1>. QED  BY <1>1, <1>2 DEF Busy, Creating, Updating, Changing, Mailing, At

LEMMA BusyIsNotIdle ==
  ASSUME NEW k \in Busy
  PROVE  k # Idle /\ k.invoice \in Invoice /\ "invoice" \in DOMAIN k
  BY DEF Busy, Creating, Updating, Changing, Mailing, Idle

LEMMA OnMeans ==
  ASSUME InvoiceShapes, NEW c \in Call, NEW i
  PROVE  c \in On(i) <=> call[c] \in Busy /\ call[c].invoice = i
<1>1. "invoice" \notin DOMAIN Idle
  BY DEF Idle
<1>. QED  BY <1>1, CallAt, BusyIsNotIdle DEF On

LEMMA CallMove ==
  ASSUME InvoiceShapes, NEW c \in Call, NEW k \in {Idle} \cup Busy,
         call' = [call EXCEPT ![c] = k]
  PROVE  /\ call' \in [Call -> {Idle} \cup Busy]
         /\ call'[c] = k
         /\ \A d \in Call \ {c} : call'[d] = call[d]
  BY DEF InvoiceShapes

LEMMA RowMove ==
  ASSUME InvoiceShapes, NEW i \in Invoice, NEW row \in InvoiceRow,
         row.status = "NONE" <=> row = NoInvoice,
         invoice' = [invoice EXCEPT ![i] = row]
  PROVE  /\ invoice' \in [Invoice -> InvoiceRow]
         /\ invoice'[i] = row
         /\ \A j \in Invoice \ {i} : invoice'[j] = invoice[j]
         /\ \A j \in Invoice : invoice'[j].status = "NONE" <=> invoice'[j] = NoInvoice
  BY DEF InvoiceShapes

LEMMA TotalNat ==
  ASSUME NEW s \in Nat, NEW d \in Nat
  PROVE  Total(s, d) \in Nat
  BY DEF Total

-----------------------------------------------------------------------------
(* What each step does to a row. *)

LEMMA NoInvoiceRow == NoInvoice \in InvoiceRow /\ NoInvoice.status = "NONE"
  BY DEF NoInvoice, InvoiceRow

LEMMA CommitRow ==
  ASSUME NEW s \in Nat, NEW d \in Nat
  PROVE  LET row == [status |-> "DRAFT", subtotal |-> s, discount |-> d, total |-> Total(s, d)]
         IN row \in InvoiceRow /\ (row.status = "NONE" <=> row = NoInvoice)
  BY TotalNat DEF InvoiceRow, NoInvoice, Status

LEMMA UpdatedRow ==
  ASSUME NEW old \in InvoiceRow, NEW s \in Nat, NEW d \in Nat, old.status # "NONE"
  PROVE  LET row == [status |-> old.status, subtotal |-> s, discount |-> d,
                     total |-> Total(s, d)]
         IN row \in InvoiceRow /\ (row.status = "NONE" <=> row = NoInvoice)
  BY TotalNat DEF InvoiceRow, NoInvoice

LEMMA StatusRow ==
  ASSUME InvoiceShapes, NEW i \in Invoice, NEW status \in Status, invoice[i] # NoInvoice,
         invoice' = [invoice EXCEPT ![i].status = status]
  PROVE  LET row == [status |-> status, subtotal |-> invoice[i].subtotal,
                     discount |-> invoice[i].discount, total |-> invoice[i].total]
         IN /\ row \in InvoiceRow
            /\ row.status = "NONE" <=> row = NoInvoice
            /\ invoice' = [invoice EXCEPT ![i] = row]
<1>1. invoice[i] \in InvoiceRow
  BY DEF InvoiceShapes
<1>2. [invoice[i] EXCEPT !.status = status]
        = [status |-> status, subtotal |-> invoice[i].subtotal,
           discount |-> invoice[i].discount, total |-> invoice[i].total]
  BY <1>1 DEF InvoiceRow
<1>3. invoice' = [invoice EXCEPT ![i] = [invoice[i] EXCEPT !.status = status]]
  BY DEF InvoiceShapes
<1>4. status # "NONE"
  BY DEF Status
<1>. QED  BY <1>1, <1>2, <1>3, <1>4 DEF InvoiceRow, NoInvoice

-----------------------------------------------------------------------------
LEMMA InvoiceShapesInit == InvoicesInit => InvoiceShapes /\ Numbered
<1>. SUFFICES ASSUME InvoicesInit
              PROVE  InvoiceShapes /\ Numbered
  OBVIOUS
<1>1. DOMAIN numbers = {} /\ numbers \in [DOMAIN numbers -> Nat]
  BY DEF InvoicesInit
<1>2. IsFiniteSet(DOMAIN numbers)
  BY <1>1, FS_EmptySet
<1>3. \A c \in Call : call[c] = Idle /\ call[c].at = "idle"
  BY DEF InvoicesInit, HandlersInit, Idle
<1>4. Idle \notin Busy
  BY BusyIsNotIdle
<1>5. InvoiceShapes
  BY <1>1, <1>2, NoInvoiceRow DEF InvoicesInit, HandlersInit, InvoiceShapes
<1>6. Numbered
  BY <1>3, <1>4 DEF InvoicesInit, Numbered, At
<1>. QED  BY <1>5, <1>6

(* Rows, numbers and mail, when the calls move on from a step. *)
LEMMA IdleMove ==
  ASSUME InvoiceShapes, Numbered, NEW c \in Call, call' = [call EXCEPT ![c] = Idle],
         sequence' = sequence, numbers' = numbers,
         \A i \in Invoice : invoice'[i] # NoInvoice => invoice[i] # NoInvoice
  PROVE  Numbered'
<1>1. /\ call'[c] = Idle /\ \A d \in Call \ {c} : call'[d] = call[d]
  BY CallMove
<1>2. Idle \notin Busy /\ Idle.at = "idle"
  BY BusyIsNotIdle DEF Idle
<1>. QED  BY <1>1, <1>2 DEF Numbered, At

(* A call goes on with an invoice that has its number. *)
LEMMA BusyMove ==
  ASSUME InvoiceShapes, Numbered, NEW c \in Call, NEW k \in Busy \ Creating,
         k.at # "create", k.invoice \in DOMAIN numbers,
         call' = [call EXCEPT ![c] = k],
         sequence' = sequence, numbers' = numbers, invoice' = invoice
  PROVE  Numbered'
<1>1. /\ call'[c] = k /\ \A d \in Call \ {c} : call'[d] = call[d]
  BY CallMove
<1>. QED  BY <1>1 DEF Numbered, At

-----------------------------------------------------------------------------
(* create *)

LEMMA TakeStep ==
  ASSUME InvoiceShapes, Numbered, NEW c \in Call, NEW i \in Invoice, TakeNumber(c, i)
  PROVE  InvoiceShapes' /\ Numbered'
<1>. DEFINE k == [at |-> "create", invoice |-> i, number |-> sequence + 1]
<1>1. k \in Creating /\ k.at = "create" /\ k.invoice = i /\ k.number = sequence + 1
  BY DEF InvoiceShapes, Creating
<1>2. call' = [call EXCEPT ![c] = k]
  BY DEF TakeNumber, Enter
<1>. HIDE DEF k
<1>3. /\ call' \in [Call -> {Idle} \cup Busy]
      /\ call'[c] = k
      /\ \A d \in Call \ {c} : call'[d] = call[d]
  BY <1>1, <1>2, CallMove DEF Busy
<1>4. InvoiceShapes'
  BY <1>3 DEF TakeNumber, InvoiceShapes
<1>5. Numbered'
  BY <1>1, <1>3 DEF TakeNumber, Numbered, At
<1>. QED  BY <1>4, <1>5

LEMMA CommitEffect ==
  ASSUME InvoiceShapes, Numbered, NEW c \in Call, NEW s \in Nat, NEW d \in Nat,
         CommitInvoice(c, s, d)
  PROVE  /\ call[c] \in Creating
         /\ call[c].invoice \in Invoice \ DOMAIN numbers
         /\ invoice[call[c].invoice] = NoInvoice
         /\ sequence' = sequence + 1
         /\ DOMAIN numbers' = DOMAIN numbers \cup {call[c].invoice}
         /\ numbers' = [j \in DOMAIN numbers \cup {call[c].invoice} |->
                           IF j = call[c].invoice THEN sequence + 1 ELSE numbers[j]]
         /\ invoice' = [invoice EXCEPT ![call[c].invoice] =
                           [status |-> "DRAFT", subtotal |-> s, discount |-> d, total |-> Total(s, d)]]
         /\ call' = [call EXCEPT ![c] = Idle]
         /\ mailed' = mailed
         /\ alone' = alone
<1>. DEFINE i == call[c].invoice
<1>1. call[c] \in Creating /\ At(c, "create")
  BY CallAt DEF CommitInvoice
<1>2. i \in Invoice /\ i \notin DOMAIN numbers /\ call[c].number = sequence + 1
  BY <1>1 DEF Creating, Numbered
<1>3. invoice[i] = NoInvoice
  BY <1>2 DEF Numbered
<1>4. /\ numbers' = [j \in DOMAIN numbers \cup {i} |->
                        IF j = i THEN sequence + 1 ELSE numbers[j]]
      /\ sequence' = sequence + 1
  BY <1>2 DEF CommitInvoice
<1>. QED  BY <1>1, <1>2, <1>3, <1>4 DEF CommitInvoice, Return

LEMMA CommitStep ==
  ASSUME InvoiceShapes, Numbered, NEW c \in Call, NEW s \in Nat, NEW d \in Nat,
         CommitInvoice(c, s, d)
  PROVE  InvoiceShapes' /\ Numbered'
<1>. DEFINE row == [status |-> "DRAFT", subtotal |-> s, discount |-> d, total |-> Total(s, d)]
<1>. DEFINE i == call[c].invoice
<1>1. /\ call[c] \in Creating
      /\ i \in Invoice \ DOMAIN numbers
      /\ sequence' = sequence + 1
      /\ DOMAIN numbers' = DOMAIN numbers \cup {i}
      /\ numbers' = [j \in DOMAIN numbers \cup {i} |->
                        IF j = i THEN sequence + 1 ELSE numbers[j]]
      /\ invoice' = [invoice EXCEPT ![i] = row]
      /\ call' = [call EXCEPT ![c] = Idle]
      /\ mailed' = mailed
      /\ alone' = alone
  BY CommitEffect
<1>2. row \in InvoiceRow /\ (row.status = "NONE" <=> row = NoInvoice)
  BY CommitRow
<1>. HIDE DEF row
<1>3. /\ invoice' \in [Invoice -> InvoiceRow]
      /\ \A j \in Invoice \ {i} : invoice'[j] = invoice[j]
      /\ \A j \in Invoice : invoice'[j].status = "NONE" <=> invoice'[j] = NoInvoice
  BY <1>1, <1>2, RowMove
<1>4. /\ call' \in [Call -> {Idle} \cup Busy]
      /\ call'[c] = Idle
      /\ \A e \in Call \ {c} : call'[e] = call[e]
  BY <1>1, CallMove
<1>5. IsFiniteSet(DOMAIN numbers')
  BY <1>1, FS_AddElement DEF InvoiceShapes
<1>6. sequence' \in Nat /\ numbers' \in [DOMAIN numbers' -> Nat] /\ DOMAIN numbers' \subseteq Invoice
  BY <1>1 DEF InvoiceShapes
<1>7. InvoiceShapes'
  BY <1>1, <1>3, <1>4, <1>5, <1>6 DEF InvoiceShapes
<1>8. \A e \in Call : call'[e].at # "create"
  <2>1. At(c, "create")
    BY <1>1 DEF Creating, At
  <2>. QED  BY <1>4, <2>1 DEF Numbered, At, Idle
<1>9. Idle \notin Busy
  BY BusyIsNotIdle
<1>. QED  BY <1>1, <1>3, <1>4, <1>7, <1>8, <1>9 DEF Numbered, At

-----------------------------------------------------------------------------
(* The handlers that read the row first *)

(* What a handler may carry on from its read. *)
Carries(k, i) ==
    \/ k \in Updating /\ k.invoice = i /\ invoice[i].status = "DRAFT"
    \/ k \in Changing /\ k.invoice = i
    \/ /\ k \in Mailing /\ k.invoice = i /\ k.at = "mail"
       /\ k.total = invoice[i].total
       /\ k.draft <=> invoice[i].status = "DRAFT"

Reads(c, i) == \E k : Carries(k, i) /\ Read(c, i, k)

LEMMA UpdateReads ==
  ASSUME InvoiceShapes, NEW c \in Call, NEW i \in Invoice, NEW s \in Nat, NEW d \in Nat,
         RequestUpdate(c, i, s, d)
  PROVE  Reads(c, i)
<1>. DEFINE k == [at |-> "update", invoice |-> i, subtotal |-> s, discount |-> d]
<1>1. k \in Updating /\ k.invoice = i
  BY DEF Updating
<1>2. Read(c, i, k) /\ invoice[i].status = "DRAFT"
  BY DEF RequestUpdate
<1>. HIDE DEF k
<1>. QED  BY <1>1, <1>2 DEF Reads, Carries

LEMMA ChangeReads ==
  ASSUME InvoiceShapes, NEW c \in Call, NEW i \in Invoice, NEW status \in Status,
         RequestStatusChange(c, i, status)
  PROVE  Reads(c, i)
<1>. DEFINE k == [at |-> "status", invoice |-> i, status |-> status]
<1>1. k \in Changing /\ k.invoice = i
  BY DEF Changing
<1>2. Read(c, i, k)
  BY DEF RequestStatusChange
<1>. HIDE DEF k
<1>. QED  BY <1>1, <1>2 DEF Reads, Carries

LEMMA MailReads ==
  ASSUME InvoiceShapes, NEW c \in Call, NEW i \in Invoice, RequestMail(c, i)
  PROVE  Reads(c, i)
<1>. DEFINE k == [at |-> "mail", invoice |-> i, draft |-> invoice[i].status = "DRAFT",
                  total |-> invoice[i].total]
<1>1. invoice[i].total \in Nat /\ (invoice[i].status = "DRAFT") \in BOOLEAN
  BY DEF InvoiceShapes, InvoiceRow
<1>2. /\ k \in Mailing /\ k.invoice = i /\ k.at = "mail"
      /\ k.total = invoice[i].total
      /\ k.draft = (invoice[i].status = "DRAFT")
  BY <1>1 DEF Mailing
<1>3. Read(c, i, k)
  BY DEF RequestMail
<1>. HIDE DEF k
<1>4. k.draft <=> invoice[i].status = "DRAFT"
  BY <1>2
<1>. QED  BY <1>2, <1>3, <1>4 DEF Reads, Carries

LEMMA ReadStep ==
  ASSUME InvoiceShapes, Numbered, NEW c \in Call, NEW i \in Invoice, Reads(c, i)
  PROVE  InvoiceShapes' /\ Numbered'
<1>1. PICK k : Carries(k, i) /\ Read(c, i, k)
  BY DEF Reads
<1>2. k \in Busy /\ k \notin Creating /\ k.at # "create" /\ k.invoice = i
  BY <1>1 DEF Carries, Busy, Creating, Updating, Changing, Mailing
<1>3. call' = [call EXCEPT ![c] = k]
  BY <1>1 DEF Read, Enter
<1>4. i \in DOMAIN numbers
  BY <1>1 DEF Read, Numbered
<1>5. /\ call' \in [Call -> {Idle} \cup Busy]
      /\ call'[c] = k
      /\ \A d \in Call \ {c} : call'[d] = call[d]
  BY <1>2, <1>3, CallMove
<1>6. alone' \in [Invoice -> BOOLEAN]
  BY <1>1 DEF Read, InvoiceShapes
<1>7. InvoiceShapes'
  BY <1>1, <1>5, <1>6 DEF Read, InvoiceShapes
<1>8. Numbered'
  BY <1>1, <1>2, <1>3, <1>4, BusyMove DEF Read
<1>. QED  BY <1>7, <1>8

-----------------------------------------------------------------------------
(* The writes *)

(* What a write does to the row it was meant for, if that is still there. *)
Writes(i, row) == invoice[i] # NoInvoice /\ invoice' = [invoice EXCEPT ![i] = row]

LEMMA UpdateEffect ==
  ASSUME InvoiceShapes, NEW c \in Call, UpdateInvoice(c)
  PROVE  /\ call[c] \in Updating
         /\ call[c].invoice \in Invoice
         /\ \/ invoice' = invoice /\ invoice[call[c].invoice] = NoInvoice
            \/ \E s, d \in Nat :
                 LET row == [status |-> invoice[call[c].invoice].status, subtotal |-> s,
                             discount |-> d, total |-> Total(s, d)]
                 IN /\ row \in InvoiceRow
                    /\ row.status = "NONE" <=> row = NoInvoice
                    /\ Writes(call[c].invoice, row)
<1>1. call[c] \in Updating
  BY CallAt DEF UpdateInvoice
<1>2. call[c].invoice \in Invoice /\ call[c].subtotal \in Nat /\ call[c].discount \in Nat
  BY <1>1 DEF Updating
<1>3. CASE invoice[call[c].invoice] = NoInvoice
  BY <1>1, <1>2, <1>3 DEF UpdateInvoice
<1>4. CASE invoice[call[c].invoice] # NoInvoice
  <2>1. PICK i \in Invoice, s \in Nat, d \in Nat :
           i = call[c].invoice /\ s = call[c].subtotal /\ d = call[c].discount
    BY <1>2
  <2>2. invoice' = [invoice EXCEPT ![i].subtotal = s, ![i].discount = d, ![i].total = Total(s, d)]
    BY <1>4, <2>1 DEF UpdateInvoice
  <2>. DEFINE row == [status |-> invoice[i].status, subtotal |-> s,
                      discount |-> d, total |-> Total(s, d)]
  <2>3. /\ row \in InvoiceRow
        /\ row.status = "NONE" <=> row = NoInvoice
        /\ invoice' = [invoice EXCEPT ![i] = row]
    <3>1. invoice[i] \in InvoiceRow /\ invoice[i].status # "NONE"
      BY <1>4, <2>1 DEF InvoiceShapes
    <3>2. invoice' = [invoice EXCEPT ![i] =
              [[[invoice[i] EXCEPT !.subtotal = s] EXCEPT !.discount = d]
                  EXCEPT !.total = Total(s, d)]]
      BY <2>2 DEF InvoiceShapes
    <3>3. [invoice[i] EXCEPT !.subtotal = s]
            = [status |-> invoice[i].status, subtotal |-> s,
               discount |-> invoice[i].discount, total |-> invoice[i].total]
      BY <3>1 DEF InvoiceRow
    <3>4. [[status |-> invoice[i].status, subtotal |-> s,
            discount |-> invoice[i].discount, total |-> invoice[i].total] EXCEPT !.discount = d]
            = [status |-> invoice[i].status, subtotal |-> s,
               discount |-> d, total |-> invoice[i].total]
      OBVIOUS
    <3>5. [[status |-> invoice[i].status, subtotal |-> s,
            discount |-> d, total |-> invoice[i].total] EXCEPT !.total = Total(s, d)]
            = row
      OBVIOUS
    <3>6. [[[invoice[i] EXCEPT !.subtotal = s] EXCEPT !.discount = d] EXCEPT !.total = Total(s, d)]
            = row
      BY <3>3, <3>4, <3>5, Zenon
    <3>7. invoice' = [invoice EXCEPT ![i] = row]
      BY <3>2, <3>6, Zenon
    <3>8. row \in InvoiceRow /\ (row.status = "NONE" <=> row = NoInvoice)
      BY <3>1, UpdatedRow
    <3>. QED  BY <3>7, <3>8
  <2>4. Writes(i, row)
    BY <1>4, <2>1, <2>3 DEF Writes
  <2>. QED  BY <1>1, <1>2, <2>1, <2>3, <2>4
<1>. QED  BY <1>3, <1>4

LEMMA StatusEffect ==
  ASSUME InvoiceShapes, NEW c, NEW i \in Invoice, NEW status \in Status,
         WriteInvoiceStatus(c, i, status)
  PROVE  \/ invoice' = invoice /\ invoice[i] = NoInvoice
         \/ LET row == [status |-> status, subtotal |-> invoice[i].subtotal,
                        discount |-> invoice[i].discount, total |-> invoice[i].total]
            IN /\ row \in InvoiceRow
               /\ row.status = "NONE" <=> row = NoInvoice
               /\ Writes(i, row)
<1>1. CASE invoice[i] = NoInvoice
  BY <1>1 DEF WriteInvoiceStatus
<1>2. CASE invoice[i] # NoInvoice
  <2>1. invoice' = [invoice EXCEPT ![i].status = status]
    BY <1>2 DEF WriteInvoiceStatus
  <2>. QED  BY <1>2, <2>1, StatusRow DEF Writes
<1>. QED  BY <1>1, <1>2

(* The rows keep their types through a write. *)
LEMMA WriteKeeps ==
  ASSUME InvoiceShapes, NEW i \in Invoice, NEW row \in InvoiceRow,
         row.status = "NONE" <=> row = NoInvoice, Writes(i, row)
  PROVE  /\ invoice' \in [Invoice -> InvoiceRow]
         /\ invoice'[i] = row
         /\ \A j \in Invoice \ {i} : invoice'[j] = invoice[j]
         /\ \A j \in Invoice : invoice'[j].status = "NONE" <=> invoice'[j] = NoInvoice
         /\ \A j \in Invoice : invoice'[j] # NoInvoice => invoice[j] # NoInvoice
  BY RowMove DEF Writes

LEMMA UpdateStep ==
  ASSUME InvoiceShapes, Numbered, NEW c \in Call, UpdateInvoice(c)
  PROVE  InvoiceShapes' /\ Numbered'
<1>1. /\ invoice' \in [Invoice -> InvoiceRow]
      /\ \A j \in Invoice : invoice'[j].status = "NONE" <=> invoice'[j] = NoInvoice
      /\ \A j \in Invoice : invoice'[j] # NoInvoice => invoice[j] # NoInvoice
  <2>1. CASE invoice' = invoice
    BY <2>1 DEF InvoiceShapes
  <2>. QED  BY <2>1, UpdateEffect, WriteKeeps
<1>2. call' = [call EXCEPT ![c] = Idle] /\ UNCHANGED <<sequence, numbers, mailed, alone>>
  BY DEF UpdateInvoice, Return
<1>. QED  BY <1>1, <1>2, CallMove, IdleMove DEF InvoiceShapes

LEMMA StatusStep ==
  ASSUME InvoiceShapes, Numbered, NEW c \in Call, UpdateInvoiceStatus(c)
  PROVE  InvoiceShapes' /\ Numbered'
<1>1. call[c] \in Changing
  BY CallAt DEF UpdateInvoiceStatus
<1>2. call[c].invoice \in Invoice /\ call[c].status \in Status
  BY <1>1 DEF Changing
<1>3. /\ invoice' \in [Invoice -> InvoiceRow]
      /\ \A j \in Invoice : invoice'[j].status = "NONE" <=> invoice'[j] = NoInvoice
      /\ \A j \in Invoice : invoice'[j] # NoInvoice => invoice[j] # NoInvoice
  <2>1. CASE invoice' = invoice
    BY <2>1 DEF InvoiceShapes
  <2>2. WriteInvoiceStatus(c, call[c].invoice, call[c].status)
    BY DEF UpdateInvoiceStatus
  <2>. DEFINE i == call[c].invoice
              row == [status |-> call[c].status, subtotal |-> invoice[i].subtotal,
                      discount |-> invoice[i].discount, total |-> invoice[i].total]
  <2>3. \/ invoice' = invoice
        \/ /\ row \in InvoiceRow
           /\ row.status = "NONE" <=> row = NoInvoice
           /\ Writes(i, row)
    BY <1>2, <2>2, StatusEffect
  <2>. HIDE DEF row
  <2>. QED  BY <1>2, <2>1, <2>3, WriteKeeps
<1>4. call' = [call EXCEPT ![c] = Idle] /\ UNCHANGED <<sequence, numbers, alone>>
  BY DEF UpdateInvoiceStatus, Return
<1>5. mailed' \in [Invoice -> Nat]
  BY DEF UpdateInvoiceStatus, InvoiceShapes
<1>. QED  BY <1>3, <1>4, <1>5, CallMove, IdleMove DEF InvoiceShapes

LEMMA MarkStep ==
  ASSUME InvoiceShapes, Numbered, NEW c \in Call, MarkInvoiceSent(c)
  PROVE  InvoiceShapes' /\ Numbered'
<1>1. call[c] \in Mailing
  BY CallAt DEF MarkInvoiceSent
<1>2. call[c].invoice \in Invoice /\ "SENT" \in Status
  BY <1>1 DEF Mailing, Status
<1>3. /\ invoice' \in [Invoice -> InvoiceRow]
      /\ \A j \in Invoice : invoice'[j].status = "NONE" <=> invoice'[j] = NoInvoice
      /\ \A j \in Invoice : invoice'[j] # NoInvoice => invoice[j] # NoInvoice
  <2>1. CASE invoice' = invoice
    BY <2>1 DEF InvoiceShapes
  <2>2. WriteInvoiceStatus(c, call[c].invoice, "SENT")
    BY DEF MarkInvoiceSent
  <2>. DEFINE i == call[c].invoice
              row == [status |-> "SENT", subtotal |-> invoice[i].subtotal,
                      discount |-> invoice[i].discount, total |-> invoice[i].total]
  <2>3. \/ invoice' = invoice
        \/ /\ row \in InvoiceRow
           /\ row.status = "NONE" <=> row = NoInvoice
           /\ Writes(i, row)
    BY <1>2, <2>2, StatusEffect
  <2>. HIDE DEF row
  <2>. QED  BY <1>2, <2>1, <2>3, WriteKeeps
<1>4. call' = [call EXCEPT ![c] = Idle] /\ UNCHANGED <<sequence, numbers, mailed, alone>>
  BY DEF MarkInvoiceSent, Return
<1>. QED  BY <1>3, <1>4, CallMove, IdleMove DEF InvoiceShapes

(* The mail is out: the handler goes on to its mark, or is done. *)
LEMMA MailEffect ==
  ASSUME InvoiceShapes, NEW c \in Call, MailInvoice(c)
  PROVE  /\ call[c] \in Mailing
         /\ call[c].invoice \in Invoice /\ call[c].total \in Nat
         /\ mailed' = [mailed EXCEPT ![call[c].invoice] = call[c].total]
         /\ \/ ~call[c].draft /\ call' = [call EXCEPT ![c] = Idle]
            \/ /\ call[c].draft
               /\ \E k \in Mailing : /\ k.at = "sent" /\ k.invoice = call[c].invoice
                                      /\ call' = [call EXCEPT ![c] = k]
<1>1. call[c] \in Mailing
  BY CallAt DEF MailInvoice
<1>2. call[c].invoice \in Invoice /\ call[c].total \in Nat /\ call[c].draft \in BOOLEAN
  BY <1>1 DEF Mailing
<1>3. CASE call[c].draft
  <2>. DEFINE k == [at |-> "sent", invoice |-> call[c].invoice, draft |-> call[c].draft,
                    total |-> call[c].total]
  <2>1. [call[c] EXCEPT !.at = "sent"] = k
    BY <1>1 DEF Mailing
  <2>2. k \in Mailing /\ k.at = "sent" /\ k.invoice = call[c].invoice
    BY <1>2 DEF Mailing
  <2>3. call' = [call EXCEPT ![c] = k]
    BY <1>3, <2>1 DEF MailInvoice, Step
  <2>. HIDE DEF k
  <2>. QED  BY <1>1, <1>2, <1>3, <2>2, <2>3 DEF MailInvoice
<1>4. CASE ~call[c].draft
  BY <1>1, <1>2, <1>4 DEF MailInvoice, Return
<1>. QED  BY <1>3, <1>4

LEMMA MailStep ==
  ASSUME InvoiceShapes, Numbered, NEW c \in Call, MailInvoice(c)
  PROVE  InvoiceShapes' /\ Numbered'
<1>1. UNCHANGED <<invoice, sequence, numbers, alone>>
  BY DEF MailInvoice
<1>2. mailed' \in [Invoice -> Nat]
  BY MailEffect DEF InvoiceShapes
<1>3. CASE call' = [call EXCEPT ![c] = Idle]
  BY <1>1, <1>2, <1>3, CallMove, IdleMove DEF InvoiceShapes
<1>4. ASSUME NEW k \in Mailing, k.at = "sent", k.invoice = call[c].invoice,
             call' = [call EXCEPT ![c] = k]
      PROVE  InvoiceShapes' /\ Numbered'
  <2>1. k \in Busy \ Creating /\ k.at # "create" /\ call[c] \in Busy \ Creating
    BY <1>4, MailEffect DEF Busy, Mailing, Creating
  <2>2. k.invoice \in DOMAIN numbers
    BY <1>4, <2>1 DEF Numbered
  <2>3. call' \in [Call -> {Idle} \cup Busy]
    BY <1>4, <2>1, CallMove
  <2>4. InvoiceShapes'
    BY <1>1, <1>2, <2>3 DEF InvoiceShapes
  <2>. QED  BY <1>1, <1>4, <2>1, <2>2, <2>4, BusyMove
<1>. QED  BY <1>3, <1>4, MailEffect

LEMMA RemoveStep ==
  ASSUME InvoiceShapes, Numbered, NEW c \in Call, NEW i \in Invoice, RemoveInvoice(c, i)
  PROVE  InvoiceShapes' /\ Numbered'
<1>1. Writes(i, NoInvoice) /\ UNCHANGED <<sequence, numbers, mailed, alone, call>>
  BY DEF RemoveInvoice, Writes
<1>2. /\ invoice' \in [Invoice -> InvoiceRow]
      /\ \A j \in Invoice : invoice'[j].status = "NONE" <=> invoice'[j] = NoInvoice
      /\ \A j \in Invoice : invoice'[j] # NoInvoice => invoice[j] # NoInvoice
  BY <1>1, NoInvoiceRow, WriteKeeps
<1>3. InvoiceShapes'
  BY <1>1, <1>2 DEF InvoiceShapes
<1>4. Numbered'
  BY <1>1, <1>2 DEF Numbered, At
<1>. QED  BY <1>3, <1>4

LEMMA DieStep ==
  ASSUME InvoiceShapes, Numbered, NEW c \in Call, DieInvoicing(c)
  PROVE  InvoiceShapes' /\ Numbered'
<1>1. call' = [call EXCEPT ![c] = Idle] /\ UNCHANGED <<invoice, sequence, numbers, mailed>>
  BY DEF DieInvoicing, Return
<1>2. alone' \in [Invoice -> BOOLEAN]
  BY DEF DieInvoicing, InvoiceShapes
<1>3. InvoiceShapes'
  BY <1>1, <1>2, CallMove DEF InvoiceShapes
<1>. QED  BY <1>1, <1>3, IdleMove

-----------------------------------------------------------------------------
(* The steps by what they do, with the amounts and statuses as typed values. *)
LEMMA StepCases ==
  ASSUME InvoiceShapes, [InvoicesNext]_invoicesVars
  PROVE  \/ \E c \in Call, i \in Invoice : TakeNumber(c, i)
         \/ \E c \in Call, s, d \in Nat : CommitInvoice(c, s, d)
         \/ \E c \in Call, i \in Invoice : Reads(c, i)
         \/ \E c \in Call : \/ UpdateInvoice(c) \/ UpdateInvoiceStatus(c)
                            \/ MailInvoice(c) \/ MarkInvoiceSent(c) \/ DieInvoicing(c)
         \/ \E c \in Call, i \in Invoice : RemoveInvoice(c, i)
         \/ UNCHANGED invoicesVars
<1>1. Subtotal \subseteq Nat /\ Discount \subseteq Nat /\ Asked \subseteq Status
  BY InvoicesAssumption
<1>. QED  BY <1>1, UpdateReads, ChangeReads, MailReads DEF InvoicesNext

LEMMA InvoiceShapesStep ==
  ASSUME InvoiceShapes, Numbered, [InvoicesNext]_invoicesVars
  PROVE  InvoiceShapes' /\ Numbered'
<1>1. CASE UNCHANGED invoicesVars
  BY <1>1 DEF invoicesVars, InvoiceShapes, Numbered, At
<1>. QED  BY <1>1, StepCases, TakeStep, CommitStep, ReadStep, UpdateStep, StatusStep, MailStep,
             MarkStep, DieStep, RemoveStep

-----------------------------------------------------------------------------
LEMMA NumbersStep ==
  ASSUME InvoiceShapes, Numbered, NumbersWithoutGap, [InvoicesNext]_invoicesVars
  PROVE  NumbersWithoutGap'
<1>1. ASSUME NEW c \in Call, NEW s \in Nat, NEW d \in Nat, CommitInvoice(c, s, d)
      PROVE  NumbersWithoutGap'
  <2>. DEFINE i == call[c].invoice
  <2>1. /\ i \in Invoice \ DOMAIN numbers
        /\ sequence' = sequence + 1
        /\ DOMAIN numbers' = DOMAIN numbers \cup {i}
        /\ numbers' = [j \in DOMAIN numbers \cup {i} |->
                          IF j = i THEN sequence + 1 ELSE numbers[j]]
    BY <1>1, CommitEffect
  <2>. HIDE DEF i
  <2>2. {numbers'[j] : j \in DOMAIN numbers'} = {numbers[j] : j \in DOMAIN numbers} \cup {sequence + 1}
    BY <2>1
  <2>3. (1 .. sequence) \cup {sequence + 1} = 1 .. sequence + 1
    BY DEF InvoiceShapes
  <2>4. Cardinality(DOMAIN numbers \cup {i}) = Cardinality(DOMAIN numbers) + 1
    BY <2>1, FS_AddElement DEF InvoiceShapes
  <2>. QED  BY <2>1, <2>2, <2>3, <2>4 DEF NumbersWithoutGap
<1>2. CASE numbers' = numbers /\ sequence' = sequence
  BY <1>2 DEF NumbersWithoutGap
<1>3. ASSUME NEW c \in Call, NEW i \in Invoice,
             TakeNumber(c, i) \/ Reads(c, i) \/ RemoveInvoice(c, i)
      PROVE  numbers' = numbers /\ sequence' = sequence
  BY <1>3 DEF TakeNumber, Reads, Read, RemoveInvoice
<1>4. ASSUME NEW c \in Call,
             \/ UpdateInvoice(c) \/ UpdateInvoiceStatus(c)
             \/ MailInvoice(c) \/ MarkInvoiceSent(c) \/ DieInvoicing(c)
      PROVE  numbers' = numbers /\ sequence' = sequence
  BY <1>4 DEF UpdateInvoice, UpdateInvoiceStatus, MailInvoice, MarkInvoiceSent, DieInvoicing
<1>5. CASE UNCHANGED invoicesVars
  BY <1>2, <1>5 DEF invoicesVars
<1>. QED  BY <1>1, <1>2, <1>3, <1>4, <1>5, StepCases

(* The invoices of a business are numbered 1, 2, 3 ..., whichever creates    *)
(* run at once or fail (Invoices!NumbersWithoutGap).                         *)
THEOREM NumbersWithoutGapAlways == InvoicesSpec => []NumbersWithoutGap
<1>1. InvoicesInit => NumbersWithoutGap
  <2>. SUFFICES ASSUME InvoicesInit
                PROVE  NumbersWithoutGap
    OBVIOUS
  <2>1. DOMAIN numbers = {} /\ sequence = 0
    BY DEF InvoicesInit
  <2>. QED  BY <2>1, FS_EmptySet DEF NumbersWithoutGap
<1>. DEFINE Inv == InvoiceShapes /\ Numbered /\ NumbersWithoutGap
<1>2. InvoicesInit => Inv
  BY <1>1, InvoiceShapesInit
<1>3. Inv /\ [InvoicesNext]_invoicesVars => Inv'
  BY InvoiceShapesStep, NumbersStep
<1>4. Inv => NumbersWithoutGap
  OBVIOUS
<1>. QED  BY <1>2, <1>3, <1>4, PTL DEF InvoicesSpec

-----------------------------------------------------------------------------
Holds(c, i) == call[c] \in Busy /\ call[c].invoice = i

(* While handlers do not overlap on an invoice, what the one on it has read   *)
(* still stands; one that is about to mark the invoice has just mailed it.   *)
MailOf(i) ==
    alone[i] /\ invoice[i] # NoInvoice =>
        /\ \A c, d \in Call : Holds(c, i) /\ Holds(d, i) => c = d
        /\ \A c \in Call : Holds(c, i) =>
             /\ At(c, "update") => invoice[i].status = "DRAFT"
             /\ At(c, "mail") => /\ call[c].total = invoice[i].total
                                 /\ call[c].draft <=> invoice[i].status = "DRAFT"
             /\ At(c, "sent") => mailed[i] = invoice[i].total
        /\ \/ mailed[i] = 0
           \/ \E c \in Call : Holds(c, i) /\ At(c, "sent")
           \/ mailed[i] = invoice[i].total /\ invoice[i].status # "DRAFT"

MailInv ==
    /\ \A i \in Invoice \ DOMAIN numbers : mailed[i] = 0
    /\ \A i \in Invoice : MailOf(i)

(* A step that passes invoice i by. *)
LEMMA Elsewhere ==
  ASSUME InvoiceShapes, NEW i \in Invoice, MailOf(i),
         invoice'[i] = invoice[i], mailed'[i] = mailed[i], alone'[i] => alone[i],
         \A d \in Call : call'[d] \in Busy /\ call'[d].invoice = i
                          => Holds(d, i) /\ call'[d] = call[d],
         \A d \in Call : Holds(d, i) /\ At(d, "sent") => call'[d] = call[d]
  PROVE  MailOf(i)'
  BY DEF MailOf, Holds, At

LEMMA PassesBy ==
  ASSUME InvoiceShapes, NEW i \in Invoice, MailOf(i), NEW c \in Call,
         NEW k \in {Idle} \cup Busy, call' = [call EXCEPT ![c] = k],
         k = Idle \/ k.invoice # i, ~Holds(c, i) \/ ~At(c, "sent"),
         invoice'[i] = invoice[i], mailed'[i] = mailed[i], alone'[i] => alone[i]
  PROVE  MailOf(i)'
<1>1. call'[c] = k /\ \A d \in Call \ {c} : call'[d] = call[d]
  BY CallMove
<1>2. Idle \notin Busy
  BY BusyIsNotIdle
<1>. QED  BY <1>1, <1>2, Elsewhere DEF Holds

(* The handler on i is done; what it leaves behind. *)
LEMMA IsDone ==
  ASSUME InvoiceShapes, NEW i \in Invoice, MailOf(i), NEW c \in Call, Holds(c, i),
         call' = [call EXCEPT ![c] = Idle], alone'[i] => alone[i],
         invoice[i] # NoInvoice,
         alone[i] => mailed'[i] = 0 \/ (mailed'[i] = invoice'[i].total /\ invoice'[i].status # "DRAFT")
  PROVE  MailOf(i)'
<1>1. CASE ~alone'[i]
  BY <1>1 DEF MailOf
<1>2. CASE alone'[i]
  <2>1. \A d \in Call : Holds(d, i) => d = c
    BY <1>2 DEF MailOf
  <2>2. call'[c] = Idle /\ \A d \in Call \ {c} : call'[d] = call[d]
    BY CallMove
  <2>3. \A d \in Call : ~(call'[d] \in Busy /\ call'[d].invoice = i)
    BY <2>1, <2>2, BusyIsNotIdle DEF Holds
  <2>4. mailed'[i] = 0 \/ (mailed'[i] = invoice'[i].total /\ invoice'[i].status # "DRAFT")
    BY <1>2
  <2>. QED  BY <2>3, <2>4 DEF MailOf, Holds
<1>. QED  BY <1>1, <1>2

LEMMA OnlyHolder ==
  ASSUME NEW i \in Invoice, MailOf(i), NEW c \in Call, Holds(c, i),
         alone[i], invoice[i] # NoInvoice, ~At(c, "sent")
  PROVE  mailed[i] = 0 \/ (mailed[i] = invoice[i].total /\ invoice[i].status # "DRAFT")
  BY DEF MailOf

LEMMA MailTake ==
  ASSUME InvoiceShapes, Numbered, NEW i \in Invoice, MailOf(i),
         NEW c \in Call, NEW j \in Invoice, TakeNumber(c, j)
  PROVE  MailOf(i)'
<1>1. CASE j = i
  BY <1>1 DEF TakeNumber, Numbered, MailOf
<1>2. CASE j # i
  <2>. DEFINE k == [at |-> "create", invoice |-> j, number |-> sequence + 1]
  <2>1. k \in Busy /\ k.invoice # i
    BY <1>2 DEF InvoiceShapes, Creating, Busy
  <2>2. call' = [call EXCEPT ![c] = k] /\ call[c] = Idle
    BY DEF TakeNumber, Enter
  <2>3. ~Holds(c, i)
    BY <2>2, BusyIsNotIdle DEF Holds
  <2>. HIDE DEF k
  <2>. QED  BY <2>1, <2>2, <2>3, PassesBy DEF TakeNumber
<1>. QED  BY <1>1, <1>2

LEMMA MailCommit ==
  ASSUME InvoiceShapes, Numbered, MailInv, NEW i \in Invoice,
         NEW c \in Call, NEW s \in Nat, NEW d \in Nat, CommitInvoice(c, s, d)
  PROVE  MailOf(i)'
<1>. DEFINE j == call[c].invoice
<1>1. /\ call[c] \in Creating /\ j \in Invoice \ DOMAIN numbers
      /\ call' = [call EXCEPT ![c] = Idle]
      /\ mailed' = mailed /\ alone' = alone
      /\ \A k \in Invoice \ {j} : invoice'[k] = invoice[k]
  BY CommitEffect DEF InvoiceShapes
<1>2. CASE j # i
  <2>1. ~Holds(c, i)
    BY <1>2 DEF Holds
  <2>. QED  BY <1>1, <1>2, <2>1, PassesBy DEF MailInv
<1>3. CASE j = i
  <2>1. mailed'[i] = 0
    BY <1>1, <1>3 DEF MailInv
  <2>2. At(c, "create")
    BY DEF CommitInvoice
  <2>3. \A e \in Call : Holds(e, i) => e = c
    <3>. SUFFICES ASSUME NEW e \in Call, Holds(e, i)
                  PROVE  e = c
      OBVIOUS
    <3>1. call[e] \in Creating
      BY <1>1, <1>3 DEF Numbered, Holds
    <3>2. At(e, "create")
      BY <3>1 DEF Creating, At
    <3>. QED  BY <2>2, <3>2 DEF Numbered
  <2>4. call'[c] = Idle /\ \A e \in Call \ {c} : call'[e] = call[e]
    BY <1>1, CallMove
  <2>5. \A e \in Call : ~(call'[e] \in Busy /\ call'[e].invoice = i)
    BY <2>3, <2>4, BusyIsNotIdle DEF Holds
  <2>. QED  BY <2>1, <2>5 DEF MailOf, Holds
<1>. QED  BY <1>2, <1>3

LEMMA MailRead ==
  ASSUME InvoiceShapes, Numbered, NEW i \in Invoice, MailOf(i),
         NEW c \in Call, NEW j \in Invoice, Reads(c, j)
  PROVE  MailOf(i)'
<1>1. PICK k : Carries(k, j) /\ Read(c, j, k)
  BY DEF Reads
<1>2. k \in Busy /\ k.invoice = j
  BY <1>1 DEF Carries, Busy
<1>3. /\ call' = [call EXCEPT ![c] = k] /\ call[c] = Idle
      /\ UNCHANGED <<invoice, mailed>>
      /\ alone' = [alone EXCEPT ![j] = @ /\ On(j) = {}]
  BY <1>1 DEF Read, Enter
<1>4. CASE j # i
  <2>1. alone'[i] = alone[i]
    BY <1>3, <1>4 DEF InvoiceShapes
  <2>2. ~Holds(c, i)
    BY <1>3, BusyIsNotIdle DEF Holds
  <2>. QED  BY <1>2, <1>3, <1>4, <2>1, <2>2, PassesBy
<1>5. CASE j = i
  <2>. SUFFICES ASSUME alone'[i], invoice[i] # NoInvoice
                PROVE  MailOf(i)'
    BY <1>3 DEF MailOf
  <2>1. alone[i] /\ On(i) = {}
    BY <1>3, <1>5 DEF InvoiceShapes
  <2>2. \A d \in Call : ~Holds(d, i)
    BY <2>1, OnMeans DEF Holds
  <2>3. call'[c] = k /\ \A d \in Call \ {c} : call'[d] = call[d]
    BY <1>2, <1>3, CallMove
  <2>4. \A d \in Call : call'[d] \in Busy /\ call'[d].invoice = i => d = c
    BY <2>2, <2>3 DEF Holds
  <2>5. /\ k.at = "update" => invoice[i].status = "DRAFT"
        /\ k.at = "mail" => /\ k.total = invoice[i].total
                            /\ k.draft <=> invoice[i].status = "DRAFT"
        /\ k.at # "sent"
    BY <1>1, <1>5 DEF Carries, Updating, Changing, Mailing
  <2>6. mailed[i] = 0 \/ (mailed[i] = invoice[i].total /\ invoice[i].status # "DRAFT")
    <3>1. \/ mailed[i] = 0
          \/ \E e \in Call : Holds(e, i) /\ At(e, "sent")
          \/ mailed[i] = invoice[i].total /\ invoice[i].status # "DRAFT"
      BY <2>1 DEF MailOf
    <3>. QED  BY <2>2, <3>1
  <2>. QED  BY <1>3, <2>3, <2>4, <2>5, <2>6 DEF MailOf, Holds, At
<1>. QED  BY <1>4, <1>5

LEMMA MailUpdate ==
  ASSUME InvoiceShapes, Numbered, NEW i \in Invoice, MailOf(i), NEW c \in Call, UpdateInvoice(c)
  PROVE  MailOf(i)'
<1>. DEFINE j == call[c].invoice
<1>1. call[c] \in Updating /\ j \in Invoice
  BY UpdateEffect
<1>2. /\ call' = [call EXCEPT ![c] = Idle] /\ UNCHANGED <<mailed, alone>>
      /\ At(c, "update")
  BY DEF UpdateInvoice, Return
<1>3. \/ invoice' = invoice
      \/ \E row : invoice' = [invoice EXCEPT ![j] = row]
  BY UpdateEffect DEF Writes
<1>4. CASE j # i
  <2>1. invoice'[i] = invoice[i]
    BY <1>3, <1>4 DEF InvoiceShapes
  <2>2. ~Holds(c, i)
    BY <1>4 DEF Holds
  <2>. QED  BY <1>2, <2>1, <2>2, PassesBy
<1>5. CASE j = i /\ invoice[i] = NoInvoice
  <2>1. invoice' = invoice
    BY <1>5, UpdateEffect DEF Writes
  <2>. QED  BY <1>5, <2>1 DEF MailOf
<1>6. CASE j = i /\ invoice[i] # NoInvoice
  <2>1. Holds(c, i)
    BY <1>1, <1>6 DEF Holds, Busy
  <2>2. ASSUME alone[i]
        PROVE  mailed'[i] = 0
    <3>1. invoice[i].status = "DRAFT"
      BY <1>2, <1>6, <2>1, <2>2 DEF MailOf
    <3>. QED  BY <1>2, <1>6, <2>1, <2>2, <3>1, OnlyHolder DEF At
  <2>. QED  BY <1>2, <1>6, <2>1, <2>2, IsDone
<1>. QED  BY <1>4, <1>5, <1>6

(* The two writes of a status. *)
LEMMA MailStatus ==
  ASSUME InvoiceShapes, Numbered, NEW i \in Invoice, MailOf(i), NEW c \in Call, call[c] \in Busy,
         NEW status \in Status, WriteInvoiceStatus(c, call[c].invoice, status),
         call' = [call EXCEPT ![c] = Idle], alone' = alone,
         \A k \in Invoice \ {call[c].invoice} : mailed'[k] = mailed[k],
         call[c].invoice = i /\ alone[i] /\ invoice[i] # NoInvoice
             => mailed'[i] = 0 \/ (mailed'[i] = invoice[i].total /\ status # "DRAFT")
  PROVE  MailOf(i)'
<1>. DEFINE j == call[c].invoice
<1>1. j \in Invoice
  BY BusyIsNotIdle
<1>2. CASE invoice[j] = NoInvoice
  <2>1. invoice' = invoice
    BY <1>1, <1>2, StatusEffect DEF Writes
  <2>2. CASE j = i
    BY <1>2, <2>1, <2>2 DEF MailOf
  <2>3. CASE j # i
    <3>1. ~Holds(c, i)
      BY <2>3 DEF Holds
    <3>. QED  BY <2>1, <2>3, <3>1, PassesBy
  <2>. QED  BY <2>2, <2>3
<1>3. CASE invoice[j] # NoInvoice
  <2>. DEFINE row == [status |-> status, subtotal |-> invoice[j].subtotal,
                      discount |-> invoice[j].discount, total |-> invoice[j].total]
  <2>1. /\ invoice' = [invoice EXCEPT ![j].status = status]
        /\ invoice[j] \in InvoiceRow
    BY <1>1, <1>3 DEF WriteInvoiceStatus, InvoiceShapes
  <2>2. [invoice[j] EXCEPT !.status = status] = row
    BY <2>1 DEF InvoiceRow
  <2>3. invoice' = [invoice EXCEPT ![j] = [invoice[j] EXCEPT !.status = status]]
    BY <2>1 DEF InvoiceShapes
  <2>4. invoice'[j] = row /\ \A k \in Invoice \ {j} : invoice'[k] = invoice[k]
    BY <1>1, <2>2, <2>3 DEF InvoiceShapes
  <2>5. row.status = status /\ row.total = invoice[j].total
    OBVIOUS
  <2>. HIDE DEF row
  <2>6. CASE j # i
    <3>1. ~Holds(c, i)
      BY <2>6 DEF Holds
    <3>. QED  BY <2>4, <2>6, <3>1, PassesBy
  <2>7. CASE j = i
    <3>1. Holds(c, i)
      BY <2>7 DEF Holds
    <3>2. alone[i] => mailed'[i] = 0
                      \/ (mailed'[i] = invoice'[i].total /\ invoice'[i].status # "DRAFT")
      BY <1>3, <2>4, <2>5, <2>7
    <3>. QED  BY <1>3, <2>7, <3>1, <3>2, IsDone
  <2>. QED  BY <2>6, <2>7
<1>. QED  BY <1>2, <1>3

LEMMA MailChange ==
  ASSUME InvoiceShapes, Numbered, NEW i \in Invoice, MailOf(i), NEW c \in Call,
         UpdateInvoiceStatus(c)
  PROVE  MailOf(i)'
<1>1. call[c] \in Changing /\ At(c, "status")
  BY CallAt DEF UpdateInvoiceStatus
<1>2. call[c].invoice \in Invoice /\ call[c].status \in Status /\ call[c] \in Busy
  BY <1>1 DEF Changing, Busy
<1>3. \A k \in Invoice \ {call[c].invoice} : mailed'[k] = mailed[k]
  BY DEF UpdateInvoiceStatus, InvoiceShapes
<1>4. ASSUME call[c].invoice = i, alone[i], invoice[i] # NoInvoice
      PROVE  mailed'[i] = 0 \/ (mailed'[i] = invoice[i].total /\ call[c].status # "DRAFT")
  <2>1. CASE call[c].status = "DRAFT"
    BY <1>4, <2>1 DEF UpdateInvoiceStatus, InvoiceShapes
  <2>2. CASE call[c].status # "DRAFT"
    <3>1. Holds(c, i) /\ ~At(c, "sent")
      BY <1>1, <1>2, <1>4 DEF Holds, At
    <3>2. mailed[i] = 0 \/ mailed[i] = invoice[i].total
      BY <1>4, <3>1, OnlyHolder
    <3>. QED  BY <2>2, <3>2 DEF UpdateInvoiceStatus
  <2>. QED  BY <2>1, <2>2
<1>5. /\ WriteInvoiceStatus(c, call[c].invoice, call[c].status)
      /\ call' = [call EXCEPT ![c] = Idle] /\ alone' = alone
  BY DEF UpdateInvoiceStatus, Return
<1>. QED  BY <1>2, <1>3, <1>4, <1>5, MailStatus

LEMMA MailMark ==
  ASSUME InvoiceShapes, Numbered, NEW i \in Invoice, MailOf(i), NEW c \in Call, MarkInvoiceSent(c)
  PROVE  MailOf(i)'
<1>1. call[c] \in Busy /\ At(c, "sent") /\ "SENT" \in Status
  BY CallAt DEF MarkInvoiceSent, Busy, Status
<1>2. ASSUME call[c].invoice = i, alone[i], invoice[i] # NoInvoice
      PROVE  mailed[i] = invoice[i].total
  BY <1>1, <1>2 DEF MailOf, Holds
<1>3. /\ WriteInvoiceStatus(c, call[c].invoice, "SENT")
      /\ call' = [call EXCEPT ![c] = Idle] /\ alone' = alone /\ mailed' = mailed
  BY DEF MarkInvoiceSent, Return
<1>. QED  BY <1>1, <1>2, <1>3, MailStatus

LEMMA MailSend ==
  ASSUME InvoiceShapes, Numbered, NEW i \in Invoice, MailOf(i), NEW c \in Call, MailInvoice(c)
  PROVE  MailOf(i)'
<1>1. /\ call[c] \in Mailing /\ call[c].invoice \in Invoice
      /\ mailed' = [mailed EXCEPT ![call[c].invoice] = call[c].total]
  BY MailEffect
<1>2. UNCHANGED <<invoice, alone>> /\ At(c, "mail") /\ ~At(c, "sent")
  BY DEF MailInvoice, At
<1>3. PICK k \in {Idle} \cup Mailing :
         /\ call' = [call EXCEPT ![c] = k]
         /\ k = Idle => ~call[c].draft
         /\ k # Idle => call[c].draft /\ k.at = "sent" /\ k.invoice = call[c].invoice
  <2>1. \A k \in Mailing : k # Idle
    BY BusyIsNotIdle DEF Busy
  <2>. QED  BY <2>1, MailEffect
<1>4. k \in {Idle} \cup Busy /\ call[c] \in Busy
  BY <1>1, <1>3 DEF Busy
<1>5. CASE call[c].invoice # i
  <2>1. mailed'[i] = mailed[i]
    BY <1>1, <1>5 DEF InvoiceShapes
  <2>. QED  BY <1>2, <1>3, <1>4, <1>5, <2>1, PassesBy
<1>6. CASE call[c].invoice = i
  <2>1. mailed'[i] = call[c].total /\ Holds(c, i)
    BY <1>1, <1>4, <1>6 DEF InvoiceShapes, Holds
  <2>2. CASE ~(alone[i] /\ invoice[i] # NoInvoice)
    BY <1>2, <2>2 DEF MailOf
  <2>3. CASE alone[i] /\ invoice[i] # NoInvoice
    <3>1. call[c].total = invoice[i].total /\ (call[c].draft <=> invoice[i].status = "DRAFT")
      BY <1>2, <2>1, <2>3 DEF MailOf
    <3>2. CASE k = Idle
      BY <1>2, <1>3, <2>1, <2>3, <3>1, <3>2, IsDone
    <3>3. CASE k # Idle
      <4>1. call'[c] = k /\ \A d \in Call \ {c} : call'[d] = call[d]
        BY <1>3, <1>4, CallMove
      <4>2. \A d \in Call \ {c} : ~Holds(d, i)
        BY <2>1, <2>3 DEF MailOf
      <4>3. \A d \in Call : call'[d] \in Busy /\ call'[d].invoice = i => d = c
        BY <4>1, <4>2 DEF Holds
      <4>4. call'[c] \in Busy /\ call'[c].invoice = i /\ call'[c].at = "sent"
        BY <1>3, <1>4, <1>6, <3>3, <4>1
      <4>5. mailed'[i] = invoice'[i].total
        BY <1>2, <2>1, <3>1
      <4>. QED  BY <4>3, <4>4, <4>5 DEF MailOf, Holds, At
    <3>. QED  BY <3>2, <3>3
  <2>. QED  BY <2>2, <2>3
<1>. QED  BY <1>5, <1>6

LEMMA MailRemove ==
  ASSUME InvoiceShapes, NEW i \in Invoice, MailOf(i),
         NEW c \in Call, NEW j \in Invoice, RemoveInvoice(c, j)
  PROVE  MailOf(i)'
<1>1. CASE j = i
  <2>1. invoice'[i] = NoInvoice
    BY <1>1 DEF RemoveInvoice, InvoiceShapes
  <2>. QED  BY <2>1 DEF MailOf
<1>2. CASE j # i
  <2>1. invoice'[i] = invoice[i] /\ UNCHANGED <<mailed, alone, call>>
    BY <1>2 DEF RemoveInvoice, InvoiceShapes
  <2>. QED  BY <2>1, Elsewhere DEF Holds
<1>. QED  BY <1>1, <1>2

LEMMA MailDie ==
  ASSUME InvoiceShapes, NEW i \in Invoice, MailOf(i), NEW c \in Call, DieInvoicing(c)
  PROVE  MailOf(i)'
<1>1. /\ call' = [call EXCEPT ![c] = Idle] /\ UNCHANGED <<invoice, mailed>>
      /\ alone' = [alone EXCEPT ![call[c].invoice] = @ /\ ~At(c, "sent")]
      /\ call[c] \in Busy
  BY CallAt DEF DieInvoicing, Return
<1>2. alone'[i] => alone[i]
  BY <1>1 DEF InvoiceShapes
<1>3. CASE Holds(c, i) /\ At(c, "sent")
  <2>1. ~alone'[i]
    BY <1>1, <1>3 DEF InvoiceShapes, Holds
  <2>. QED  BY <2>1 DEF MailOf
<1>4. CASE ~Holds(c, i) \/ ~At(c, "sent")
  BY <1>1, <1>2, <1>4, PassesBy
<1>. QED  BY <1>3, <1>4

LEMMA MailInvStep ==
  ASSUME InvoiceShapes, Numbered, MailInv, [InvoicesNext]_invoicesVars
  PROVE  MailInv'
<1>1. ASSUME NEW i \in Invoice
      PROVE  MailOf(i)'
  <2>1. MailOf(i)
    BY DEF MailInv
  <2>2. CASE UNCHANGED invoicesVars
    BY <2>1, <2>2 DEF invoicesVars, MailOf, Holds, At
  <2>. QED  BY <2>1, <2>2, StepCases, MailTake, MailCommit, MailRead, MailUpdate, MailChange,
               MailSend, MailMark, MailRemove, MailDie
<1>2. \A i \in Invoice : i \notin DOMAIN numbers' => mailed'[i] = 0
  <2>1. CASE mailed' = mailed /\ DOMAIN numbers \subseteq DOMAIN numbers'
    BY <2>1 DEF MailInv
  <2>2. ASSUME NEW c \in Call, NEW s \in Nat, NEW d \in Nat, CommitInvoice(c, s, d)
        PROVE  mailed' = mailed /\ DOMAIN numbers \subseteq DOMAIN numbers'
    BY <2>2, CommitEffect
  <2>3. ASSUME NEW c \in Call, NEW i \in Invoice,
               TakeNumber(c, i) \/ Reads(c, i) \/ RemoveInvoice(c, i)
        PROVE  mailed' = mailed /\ numbers' = numbers
    BY <2>3 DEF TakeNumber, Reads, Read, RemoveInvoice
  <2>4. ASSUME NEW c \in Call, UpdateInvoice(c) \/ MarkInvoiceSent(c) \/ DieInvoicing(c)
        PROVE  mailed' = mailed /\ numbers' = numbers
    BY <2>4 DEF UpdateInvoice, MarkInvoiceSent, DieInvoicing
  <2>5. ASSUME NEW c \in Call, UpdateInvoiceStatus(c)
        PROVE  \A i \in Invoice : i \notin DOMAIN numbers' => mailed'[i] = 0
    <3>1. call[c].invoice \in Invoice
      BY <2>5, CallAt DEF UpdateInvoiceStatus, Changing
    <3>2. numbers' = numbers /\ \A i \in Invoice : mailed'[i] \in {mailed[i], 0}
      BY <2>5, <3>1 DEF UpdateInvoiceStatus, InvoiceShapes
    <3>. QED  BY <3>2 DEF MailInv
  <2>6. ASSUME NEW c \in Call, MailInvoice(c)
        PROVE  \A i \in Invoice : i \notin DOMAIN numbers' => mailed'[i] = 0
    <3>1. call[c] \in Busy \ Creating /\ numbers' = numbers
      BY <2>6, MailEffect DEF MailInvoice, Busy, Mailing, Creating
    <3>2. call[c].invoice \in DOMAIN numbers
      BY <3>1 DEF Numbered
    <3>3. \A i \in Invoice \ {call[c].invoice} : mailed'[i] = mailed[i]
      BY <2>6, MailEffect DEF InvoiceShapes
    <3>. QED  BY <3>1, <3>2, <3>3 DEF MailInv
  <2>7. CASE UNCHANGED invoicesVars
    BY <2>1, <2>7 DEF invoicesVars
  <2>. QED  BY <2>1, <2>2, <2>3, <2>4, <2>5, <2>6, <2>7, StepCases
<1>. QED  BY <1>1, <1>2 DEF MailInv

(* What the client was mailed stands until the owner makes the invoice a     *)
(* draft again, unless handlers overlapped on it or one died                 *)
(* (Invoices!MailedStands).                                                  *)
THEOREM MailedStandsAlways == InvoicesSpec => []MailedStands
<1>1. InvoicesInit => MailInv
  BY DEF InvoicesInit, MailInv, MailOf
<1>. DEFINE Inv == InvoiceShapes /\ Numbered /\ MailInv
<1>2. InvoicesInit => Inv
  BY <1>1, InvoiceShapesInit
<1>3. Inv /\ [InvoicesNext]_invoicesVars => Inv'
  BY InvoiceShapesStep, MailInvStep
<1>4. Inv => MailedStands
  <2>. SUFFICES ASSUME InvoiceShapes, MailInv, NEW i \in Invoice,
                       alone[i], On(i) = {}, mailed[i] # 0, invoice[i] # NoInvoice
                PROVE  invoice[i].total = mailed[i] /\ invoice[i].status # "DRAFT"
    BY DEF MailedStands
  <2>1. \A c \in Call : ~Holds(c, i)
    BY OnMeans DEF Holds
  <2>. QED  BY <2>1 DEF MailInv, MailOf
<1>. QED  BY <1>2, <1>3, <1>4, PTL DEF InvoicesSpec

-----------------------------------------------------------------------------
(***************************************************************************)
(* Subscriptions. A delivery in flight has read what is still true of the  *)
(* row, as long as no other has written it; and a referral that was claimed*)
(* is paid out by the one that claimed it.                                 *)
(***************************************************************************)

SubscriptionRow == Event \cup {NoSubscription, [status |-> "ACTIVE", plan |-> "FREE"]}
BusinessRow == [plan : Plan, grant : {"none", "current", "past"}, previous : Plan]

ApplyCalls == [at : {"apply", "applied"}, event : Event, granted : BOOLEAN]
PlainCalls == [at : {"reward", "credit", "checkout", "lookup"}]
SetPlanCalls == [at : {"setPlan"}, plan : Plan]
GrantCalls == [at : {"grant"}, plan : Plan, previous : Plan]
ExpireCalls == [at : {"expire"}, previous : Plan]
BillingCalls ==
    {Idle} \cup ApplyCalls \cup PlainCalls \cup SetPlanCalls \cup GrantCalls \cup ExpireCalls

SubscriptionShapes ==
    /\ subscription \in SubscriptionRow
    /\ business \in BusinessRow
    /\ referral \in {"none", "PENDING", "REWARDED"}
    /\ credits \in Nat
    /\ earned \in Plan
    /\ calm \in BOOLEAN
    /\ call \in [Call -> BillingCalls]

(* The one who claimed the reward is the one who credits it.                 *)
RewardClaimed ==
    /\ credits <= 1
    /\ credits = 1 => referral = "REWARDED"
    /\ \A c \in Call : At(c, "credit") => referral = "REWARDED" /\ credits = 0
    /\ \A c, d \in Call : At(c, "credit") /\ At(d, "credit") => c = d

(* A grant goes back to the plan that was earned before it. *)
GrantKeepsEarned ==
    IF business.grant = "none" THEN business.plan = earned ELSE business.previous = earned

Agreed ==
    /\ GrantKeepsEarned
    /\ subscription.plan # "FREE" =>
         business.plan = subscription.plan /\ business.grant = "none"

(* What the one handler that runs has seen is still so.                      *)
StillTrue(k) ==
    CASE k.at = "apply" ->
           /\ business.grant = "current" => k.granted
           /\ k.granted /\ k.event.plan = "FREE" => Agreed
      [] k.at = "applied" ->
           /\ business.grant = "current" => k.granted
           /\ subscription = k.event
           /\ k.granted /\ k.event.plan = "FREE" => GrantKeepsEarned
      [] k.at = "setPlan" -> Agreed /\ subscription.plan = "FREE"
      [] k.at \in {"grant", "expire"} ->
           Agreed /\ subscription.plan = "FREE" /\ k.previous = earned
      [] OTHER -> Agreed

Calm ==
    calm => \/ Agreed /\ \A c \in Call : call[c] = Idle
            \/ \E c \in Call : Alone(c) /\ StillTrue(call[c])

LEMMA BillingCallTo ==
  ASSUME SubscriptionShapes, NEW c \in Call, NEW k \in BillingCalls, call' = [call EXCEPT ![c] = k]
  PROVE  /\ call' \in [Call -> BillingCalls]
         /\ call'[c] = k
         /\ \A d \in Call \ {c} : call'[d] = call[d]
  BY DEF SubscriptionShapes

LEMMA BillingCallIs ==
  ASSUME SubscriptionShapes, NEW c \in Call
  PROVE  /\ At(c, "apply") \/ At(c, "applied") => call[c] \in ApplyCalls
         /\ At(c, "setPlan") => call[c] \in SetPlanCalls
         /\ At(c, "grant") => call[c] \in GrantCalls
         /\ At(c, "expire") => call[c] \in ExpireCalls
         /\ At(c, "idle") <=> call[c] = Idle
  BY DEF SubscriptionShapes, BillingCalls, ApplyCalls, PlainCalls, SetPlanCalls, GrantCalls,
         ExpireCalls, Idle, At

LEMMA RestIsAgreed ==
  ASSUME Calm, calm, \A c \in Call : call[c] = Idle
  PROVE  Agreed
<1>1. StillTrue(Idle) => Agreed
  BY DEF StillTrue, Idle
<1>. QED  BY <1>1 DEF Calm

LEMMA AloneIsTrue ==
  ASSUME Calm, calm, NEW c \in Call, call[c] # Idle
  PROVE  Alone(c) /\ StillTrue(call[c])
  BY DEF Calm, Alone

(* A handler has come to k, and nobody else runs while all is calm. *)
LEMMA CalmAt ==
  ASSUME SubscriptionShapes, NEW c \in Call, NEW k \in BillingCalls, call' = [call EXCEPT ![c] = k],
         calm' => Alone(c) /\ StillTrue(call[c])'
  PROVE  Calm'
<1>1. call'[c] = k /\ \A d \in Call \ {c} : call'[d] = call[d]
  BY BillingCallTo
<1>2. Alone(c) => Alone(c)'
  BY <1>1 DEF Alone
<1>. QED  BY <1>2 DEF Calm

LEMMA UnbilledIsFree ==
  ASSUME SubscriptionShapes, ~Billed
  PROVE  subscription.plan = "FREE"
  BY DEF SubscriptionShapes, SubscriptionRow, Event, NoSubscription, Billed

LEMMA ApplyingIs ==
  ASSUME SubscriptionShapes, NEW event \in Event
  PROVE  /\ Applying(event) \in BillingCalls
         /\ Applying(event).at = "apply" /\ Applying(event).event = event
         /\ Applying(event).granted <=> business.grant = "current"
  BY DEF Applying, BillingCalls, ApplyCalls

LEMMA Applied ==
  ASSUME NEW k \in ApplyCalls
  PROVE  [k EXCEPT !.at = "applied"] = [at |-> "applied", event |-> k.event, granted |-> k.granted]
  BY DEF ApplyCalls

-----------------------------------------------------------------------------
(* Types, and what runs afterwards *)

LEMMA EventSteps ==
  ASSUME SubscriptionShapes, Calm, NEW c \in Call, NEW event \in Event,
         call[c] = Idle \/ At(c, "lookup"),
         call' = [call EXCEPT ![c] = Applying(event)], calm' = CalmApplying(c, event),
         UNCHANGED <<subscription, business, credits, earned, referral>>
  PROVE  SubscriptionShapes' /\ Calm'
<1>. DEFINE k == Applying(event)
<1>1. /\ k \in BillingCalls /\ k.at = "apply" /\ k.event = event
      /\ k.granted <=> business.grant = "current"
  BY ApplyingIs
<1>2. call' \in [Call -> BillingCalls] /\ call'[c] = k
  BY <1>1, BillingCallTo
<1>3. calm' \in BOOLEAN
  BY DEF CalmApplying, Alone
<1>4. SubscriptionShapes'
  BY <1>2, <1>3 DEF SubscriptionShapes
<1>5. ASSUME calm'
      PROVE  Alone(c) /\ StillTrue(call[c])'
  <2>1. Alone(c) /\ (calm \/ event.plan # "FREE" \/ business.grant # "current")
    BY <1>5 DEF CalmApplying
  <2>2. CASE business.grant = "current" /\ event.plan = "FREE"
    <3>1. Agreed
      <4>1. CASE call[c] = Idle
        <5>1. \A d \in Call : call[d] = Idle
          BY <2>1, <4>1 DEF Alone
        <5>. QED  BY <2>1, <2>2, <5>1, RestIsAgreed
      <4>2. CASE At(c, "lookup")
        <5>1. call[c] # Idle /\ call[c].at = "lookup"
          BY <4>2 DEF At, Idle
        <5>2. StillTrue(call[c])
          BY <2>1, <2>2, <5>1, AloneIsTrue
        <5>. QED  BY <5>1, <5>2 DEF StillTrue
      <4>. QED  BY <4>1, <4>2
    <3>2. Agreed'
      BY <3>1 DEF Agreed, GrantKeepsEarned
    <3>. QED  BY <1>1, <1>2, <2>1, <3>2 DEF StillTrue
  <2>3. CASE ~(business.grant = "current" /\ event.plan = "FREE")
    BY <1>1, <1>2, <2>1, <2>3 DEF StillTrue
  <2>. QED  BY <2>2, <2>3
<1>6. Calm'
  BY <1>1, <1>5, CalmAt
<1>. QED  BY <1>4, <1>6

(* A handler begins, or goes on, or ends, where the plans agree.             *)
LEMMA AgreedSteps ==
  ASSUME SubscriptionShapes, Calm, NEW c \in Call, NEW k \in BillingCalls,
         call' = [call EXCEPT ![c] = k], k.at \notin {"apply", "applied"},
         subscription' \in SubscriptionRow, subscription'.plan = subscription.plan,
         UNCHANGED <<business, earned>>,
         referral' \in {"none", "PENDING", "REWARDED"}, credits' \in Nat, calm' \in BOOLEAN,
         calm' => calm /\ Alone(c) /\ ~At(c, "apply") /\ ~At(c, "applied"),
         k.at \in {"setPlan", "grant", "expire"} => subscription.plan = "FREE",
         calm' /\ Agreed /\ k.at \in {"grant", "expire"} => k.previous = earned
  PROVE  SubscriptionShapes' /\ Calm'
<1>1. call' \in [Call -> BillingCalls] /\ call'[c] = k
  BY BillingCallTo
<1>2. SubscriptionShapes'
  BY <1>1 DEF SubscriptionShapes
<1>3. ASSUME calm'
      PROVE  Alone(c) /\ StillTrue(call[c])'
  <2>1. Agreed
    <3>1. CASE call[c] = Idle
      <4>1. \A d \in Call : call[d] = Idle
        BY <1>3, <3>1 DEF Alone
      <4>. QED  BY <1>3, <4>1, RestIsAgreed
    <3>2. CASE call[c] # Idle
      <4>1. StillTrue(call[c])
        BY <1>3, <3>2, AloneIsTrue
      <4>. QED  BY <1>3, <4>1 DEF StillTrue, At
    <3>. QED  BY <3>1, <3>2
  <2>2. Agreed'
    BY <2>1 DEF Agreed, GrantKeepsEarned
  <2>. QED  BY <1>1, <1>3, <2>1, <2>2 DEF StillTrue
<1>4. Calm'
  BY <1>3, CalmAt
<1>. QED  BY <1>2, <1>4

LEMMA PlainIs ==
  ASSUME NEW where \in {"reward", "credit", "checkout", "lookup"}
  PROVE  [at |-> where] \in BillingCalls /\ [at |-> where].at = where
  BY DEF BillingCalls, PlainCalls

LEMMA IdleIs == Idle \in BillingCalls /\ Idle.at = "idle"
  BY DEF BillingCalls, Idle

LEMMA BeginBilling ==
  ASSUME SubscriptionShapes, Calm, NEW c \in Call, NEW plan \in Plan,
         \/ RequestCheckout(c) \/ RequestSetPlan(c, plan)
         \/ RequestGrant(c, plan) \/ RequestExpiry(c)
  PROVE  SubscriptionShapes' /\ Calm'
<1>1. /\ call[c] = Idle /\ UNCHANGED <<subscription, business, referral, credits, earned>>
      /\ (calm' => calm /\ Alone(c)) /\ ~At(c, "apply") /\ ~At(c, "applied")
  <2>1. call[c] = Idle /\ UNCHANGED <<subscription, business, referral, credits, earned>>
    BY DEF RequestCheckout, RequestSetPlan, RequestGrant, RequestExpiry, Enter
  <2>2. calm' => calm /\ Alone(c)
    BY Zenon DEF RequestCheckout, RequestSetPlan, RequestGrant, RequestExpiry
  <2>. QED  BY <2>1, <2>2 DEF At, Idle
<1>2. calm' \in BOOLEAN
  <2>1. CASE RequestCheckout(c)
    BY <2>1 DEF RequestCheckout
  <2>2. CASE RequestSetPlan(c, plan)
    BY <2>2 DEF RequestSetPlan
  <2>3. CASE RequestGrant(c, plan)
    BY <2>3 DEF RequestGrant
  <2>4. CASE RequestExpiry(c)
    BY <2>4 DEF RequestExpiry
  <2>. QED  BY <2>1, <2>2, <2>3, <2>4
<1>3. /\ subscription' \in SubscriptionRow /\ subscription'.plan = subscription.plan
      /\ referral' \in {"none", "PENDING", "REWARDED"} /\ credits' \in Nat
      /\ business \in BusinessRow
  BY <1>1 DEF SubscriptionShapes
<1>4. CASE RequestCheckout(c)
  <2>. DEFINE k == [at |-> "checkout"]
  <2>1. k \in BillingCalls /\ k.at = "checkout" /\ call' = [call EXCEPT ![c] = k]
    BY <1>4, PlainIs DEF RequestCheckout, Enter
  <2>. HIDE DEF k
  <2>. QED  BY <1>1, <1>2, <1>3, <2>1, AgreedSteps
<1>5. CASE RequestSetPlan(c, plan)
  <2>. DEFINE k == [at |-> "setPlan", plan |-> plan]
  <2>1. k \in BillingCalls /\ k.at = "setPlan" /\ call' = [call EXCEPT ![c] = k]
    BY <1>5 DEF RequestSetPlan, Enter, BillingCalls, SetPlanCalls
  <2>2. subscription.plan = "FREE"
    BY <1>5, UnbilledIsFree DEF RequestSetPlan
  <2>. HIDE DEF k
  <2>. QED  BY <1>1, <1>2, <1>3, <2>1, <2>2, AgreedSteps
<1>6. CASE RequestGrant(c, plan)
  <2>. DEFINE k == [at |-> "grant", plan |-> plan,
                    previous |-> IF business.grant = "current" THEN business.previous
                                 ELSE business.plan]
  <2>1. k \in BillingCalls /\ k.at = "grant" /\ call' = [call EXCEPT ![c] = k]
    BY <1>3, <1>6 DEF RequestGrant, Enter, BillingCalls, GrantCalls, BusinessRow
  <2>2. subscription.plan = "FREE"
    BY <1>6, UnbilledIsFree DEF RequestGrant
  <2>3. calm' /\ Agreed => k.previous = earned
    <3>1. calm' => business.grant \in {"none", "current"}
      BY <1>3, <1>6 DEF RequestGrant, BusinessRow
    <3>. QED  BY <3>1 DEF Agreed, GrantKeepsEarned
  <2>. HIDE DEF k
  <2>. QED  BY <1>1, <1>2, <1>3, <2>1, <2>2, <2>3, AgreedSteps
<1>7. CASE RequestExpiry(c)
  <2>. DEFINE k == [at |-> "expire", previous |-> business.previous]
  <2>1. k \in BillingCalls /\ k.at = "expire" /\ call' = [call EXCEPT ![c] = k]
    BY <1>3, <1>7 DEF RequestExpiry, Enter, BillingCalls, ExpireCalls, BusinessRow
  <2>2. business.grant = "past"
    BY <1>7 DEF RequestExpiry
  <2>3. Agreed => k.previous = earned
    BY <2>2 DEF Agreed, GrantKeepsEarned
  <2>4. Agreed => subscription.plan = "FREE"
    BY <2>2 DEF Agreed
  <2>. HIDE DEF k
  <2>5. call' \in [Call -> BillingCalls] /\ call'[c] = k
    BY <2>1, BillingCallTo
  <2>6. SubscriptionShapes'
    BY <1>1, <1>2, <2>5 DEF SubscriptionShapes
  <2>7. ASSUME calm'
        PROVE  Alone(c) /\ StillTrue(call[c])'
    <3>1. \A d \in Call : call[d] = Idle
      BY <1>1, <2>7 DEF Alone
    <3>2. Agreed
      BY <1>1, <2>7, <3>1, RestIsAgreed
    <3>3. Agreed'
      BY <1>1, <3>2 DEF Agreed, GrantKeepsEarned
    <3>. QED  BY <1>1, <2>1, <2>3, <2>4, <2>5, <2>7, <3>2, <3>3 DEF StillTrue
  <2>. QED  BY <2>1, <2>6, <2>7, CalmAt
<1>. QED  BY <1>4, <1>5, <1>6, <1>7

LEMMA ApplyRowSteps ==
  ASSUME SubscriptionShapes, Calm, NEW c \in Call, ApplyRow(c)
  PROVE  SubscriptionShapes' /\ Calm'
<1>. DEFINE event == call[c].event
            k == [at |-> "applied", event |-> event, granted |-> call[c].granted]
<1>1. At(c, "apply") /\ call[c] \in ApplyCalls /\ call[c] # Idle /\ call[c].at = "apply"
  BY BillingCallIs DEF ApplyRow, At, Idle
<1>2. call' = [call EXCEPT ![c] = k]
  BY <1>1, Applied DEF ApplyRow, Step
<1>3. k \in BillingCalls /\ event \in Event
  BY <1>1 DEF BillingCalls, ApplyCalls
<1>4. call' \in [Call -> BillingCalls] /\ call'[c] = k
  BY <1>2, <1>3, BillingCallTo
<1>5. subscription' = event /\ UNCHANGED <<business, referral, credits, earned, calm>>
  BY DEF ApplyRow
<1>6. SubscriptionShapes'
  BY <1>3, <1>4, <1>5 DEF SubscriptionShapes, SubscriptionRow
<1>7. ASSUME calm
      PROVE  Alone(c) /\ StillTrue(call[c])'
  <2>1. Alone(c) /\ StillTrue(call[c])
    BY <1>1, <1>7, AloneIsTrue
  <2>2. /\ business.grant = "current" => call[c].granted
        /\ call[c].granted /\ event.plan = "FREE" => GrantKeepsEarned
    BY <1>1, <2>1 DEF StillTrue, Agreed
  <2>3. GrantKeepsEarned' <=> GrantKeepsEarned
    BY <1>5 DEF GrantKeepsEarned
  <2>. QED  BY <1>4, <1>5, <2>1, <2>2, <2>3 DEF StillTrue
<1>8. Calm'
  BY <1>2, <1>3, <1>5, <1>7, CalmAt
<1>. QED  BY <1>6, <1>8

(* The plans agree afterwards, and the handler ends or rewards. *)
LEMMA WrittenSteps ==
  ASSUME SubscriptionShapes, Calm, NEW c \in Call, NEW k \in BillingCalls,
         call' = [call EXCEPT ![c] = k], k.at \in {"idle", "reward"}, call[c] # Idle,
         business' \in BusinessRow, earned' \in Plan,
         UNCHANGED <<subscription, referral, credits>>, calm' \in BOOLEAN,
         calm' => calm /\ (StillTrue(call[c]) => Agreed')
  PROVE  SubscriptionShapes' /\ Calm'
<1>1. call' \in [Call -> BillingCalls] /\ call'[c] = k
  BY BillingCallTo
<1>2. SubscriptionShapes'
  BY <1>1 DEF SubscriptionShapes
<1>3. ASSUME calm'
      PROVE  Alone(c) /\ StillTrue(call[c])'
  <2>1. Alone(c) /\ Agreed'
    BY <1>3, AloneIsTrue
  <2>. QED  BY <1>1, <2>1 DEF StillTrue
<1>4. Calm'
  BY <1>3, CalmAt
<1>. QED  BY <1>2, <1>4

LEMMA ApplyBusinessSteps ==
  ASSUME SubscriptionShapes, Calm, NEW c \in Call, ApplyBusiness(c)
  PROVE  SubscriptionShapes' /\ Calm'
<1>. DEFINE plan == call[c].event.plan
            kept == call[c].granted /\ plan = "FREE"
<1>1. At(c, "applied") /\ call[c] \in ApplyCalls /\ call[c] # Idle /\ call[c].at = "applied"
  BY BillingCallIs DEF ApplyBusiness, At, Idle
<1>2. plan \in Plan
  BY <1>1 DEF ApplyCalls, Event, Plan
<1>3. \E k \in BillingCalls : call' = [call EXCEPT ![c] = k] /\ k.at \in {"idle", "reward"}
  <2>1. CASE plan # "FREE"
    <3>. DEFINE k == [at |-> "reward"]
    <3>1. k \in BillingCalls /\ k.at = "reward" /\ call' = [call EXCEPT ![c] = k]
      BY <2>1, PlainIs DEF ApplyBusiness, AfterApply, Step
    <3>. HIDE DEF k
    <3>. QED  BY <3>1
  <2>2. CASE plan = "FREE"
    <3>1. call' = [call EXCEPT ![c] = Idle]
      BY <2>2 DEF ApplyBusiness, AfterApply, Return
    <3>. QED  BY <3>1, IdleIs
  <2>. QED  BY <2>1, <2>2
<1>4. /\ kept => UNCHANGED <<business, earned>>
      /\ ~kept => business' = [plan |-> plan, grant |-> "none", previous |-> "FREE"] /\ earned' = plan
      /\ UNCHANGED <<subscription, referral, credits, calm>>
  BY DEF ApplyBusiness
<1>5. business' \in BusinessRow /\ earned' \in Plan
  BY <1>2, <1>4 DEF SubscriptionShapes, BusinessRow, Plan
<1>6. ASSUME StillTrue(call[c])
      PROVE  Agreed'
  <2>1. subscription = call[c].event /\ (kept => GrantKeepsEarned)
    BY <1>1, <1>6 DEF StillTrue
  <2>2. CASE kept
    BY <1>4, <2>1, <2>2 DEF Agreed, GrantKeepsEarned
  <2>3. CASE ~kept
    BY <1>4, <2>1, <2>3 DEF Agreed, GrantKeepsEarned
  <2>. QED  BY <2>2, <2>3
<1>7. calm' = calm /\ calm \in BOOLEAN
  BY <1>4 DEF SubscriptionShapes
<1>. HIDE DEF plan, kept
<1>8. PICK k \in BillingCalls : call' = [call EXCEPT ![c] = k] /\ k.at \in {"idle", "reward"}
  BY <1>3
<1>9. UNCHANGED <<subscription, referral, credits>> /\ calm' \in BOOLEAN
  BY <1>4, <1>7
<1>10. calm' => calm /\ (StillTrue(call[c]) => Agreed')
  BY <1>6, <1>7
<1>. QED  BY <1>1, <1>5, <1>8, <1>9, <1>10, WrittenSteps

LEMMA AdministratorSteps ==
  ASSUME SubscriptionShapes, Calm, NEW c \in Call,
         SetPlanAdmin(c) \/ GrantComplimentaryPlan(c) \/ ExpireComplimentaryPlan(c)
  PROVE  SubscriptionShapes' /\ Calm'
<1>1. /\ Idle \in BillingCalls /\ Idle.at = "idle" /\ call' = [call EXCEPT ![c] = Idle]
      /\ UNCHANGED <<subscription, referral, credits, calm>> /\ calm \in BOOLEAN
  BY IdleIs DEF SetPlanAdmin, GrantComplimentaryPlan, ExpireComplimentaryPlan, Return,
                SubscriptionShapes
<1>2. CASE SetPlanAdmin(c)
  <2>1. call[c] \in SetPlanCalls /\ call[c] # Idle /\ call[c].at = "setPlan"
    BY <1>2, BillingCallIs DEF SetPlanAdmin, At, Idle
  <2>2. business' = [plan |-> call[c].plan, grant |-> "none", previous |-> "FREE"]
        /\ earned' = call[c].plan
    BY <1>2 DEF SetPlanAdmin
  <2>3. business' \in BusinessRow /\ earned' \in Plan
    BY <2>1, <2>2 DEF SetPlanCalls, BusinessRow, Plan
  <2>4. StillTrue(call[c]) => Agreed'
    BY <1>1, <2>1, <2>2 DEF StillTrue, Agreed, GrantKeepsEarned
  <2>. QED  BY <1>1, <2>1, <2>3, <2>4, WrittenSteps
<1>3. CASE GrantComplimentaryPlan(c)
  <2>1. call[c] \in GrantCalls /\ call[c] # Idle /\ call[c].at = "grant"
    BY <1>3, BillingCallIs DEF GrantComplimentaryPlan, At, Idle
  <2>2. business' = [plan |-> call[c].plan, grant |-> "current", previous |-> call[c].previous]
        /\ earned' = earned
    BY <1>3 DEF GrantComplimentaryPlan
  <2>3. business' \in BusinessRow /\ earned' \in Plan
    BY <2>1, <2>2 DEF GrantCalls, BusinessRow, SubscriptionShapes
  <2>4. StillTrue(call[c]) => Agreed'
    BY <1>1, <2>1, <2>2 DEF StillTrue, Agreed, GrantKeepsEarned
  <2>. QED  BY <1>1, <2>1, <2>3, <2>4, WrittenSteps
<1>4. CASE ExpireComplimentaryPlan(c)
  <2>1. call[c] \in ExpireCalls /\ call[c] # Idle /\ call[c].at = "expire"
    BY <1>4, BillingCallIs DEF ExpireComplimentaryPlan, At, Idle
  <2>2. business' = [plan |-> call[c].previous, grant |-> "none", previous |-> "FREE"]
        /\ earned' = earned
    BY <1>4 DEF ExpireComplimentaryPlan
  <2>3. business' \in BusinessRow /\ earned' \in Plan
    BY <2>1, <2>2 DEF ExpireCalls, BusinessRow, SubscriptionShapes, Plan
  <2>4. StillTrue(call[c]) => Agreed'
    BY <1>1, <2>1, <2>2 DEF StillTrue, Agreed, GrantKeepsEarned
  <2>. QED  BY <1>1, <2>1, <2>3, <2>4, WrittenSteps
<1>. QED  BY <1>2, <1>3, <1>4

LEMMA OtherBillingSteps ==
  ASSUME SubscriptionShapes, Calm, NEW c \in Call,
         \/ ClaimPendingReward(c) \/ GrantReferralReward(c)
         \/ EnsureBusinessCustomer(c) \/ DieBilling(c)
  PROVE  SubscriptionShapes' /\ Calm'
<1>1. call[c] # Idle /\ UNCHANGED <<business, earned>>
  BY DEF ClaimPendingReward, GrantReferralReward, EnsureBusinessCustomer, DieBilling, At, Idle
<1>2. \E k \in BillingCalls :
        /\ call' = [call EXCEPT ![c] = k]
        /\ k.at \in {"idle", "credit", "lookup"}
  BY IdleIs, PlainIs
     DEF ClaimPendingReward, GrantReferralReward, EnsureBusinessCustomer, DieBilling, Step, Return
<1>3. /\ subscription' \in SubscriptionRow /\ subscription'.plan = subscription.plan
      /\ referral' \in {"none", "PENDING", "REWARDED"} /\ credits' \in Nat
  BY DEF ClaimPendingReward, GrantReferralReward, EnsureBusinessCustomer, DieBilling,
         SubscriptionShapes, SubscriptionRow, NoSubscription
<1>4. calm' \in BOOLEAN /\ (calm' => calm /\ ~At(c, "apply") /\ ~At(c, "applied"))
  <2>1. CASE DieBilling(c)
    BY <2>1 DEF DieBilling, At
  <2>2. CASE ClaimPendingReward(c) \/ GrantReferralReward(c) \/ EnsureBusinessCustomer(c)
    BY <2>2 DEF ClaimPendingReward, GrantReferralReward, EnsureBusinessCustomer,
                SubscriptionShapes, At
  <2>. QED  BY <2>1, <2>2
<1>5. calm' => Alone(c)
  BY <1>1, <1>4, AloneIsTrue
<1>. QED  BY <1>1, <1>2, <1>3, <1>4, <1>5, AgreedSteps

LEMMA CheckoutSteps ==
  ASSUME SubscriptionShapes, Calm, NEW c \in Call, Checkout(c)
  PROVE  SubscriptionShapes' /\ Calm'
<1>1. At(c, "lookup") /\ call[c] # Idle /\ call[c].at = "lookup"
      /\ UNCHANGED <<subscription, business, credits, earned>>
  BY DEF Checkout, At, Idle
<1>2. ASSUME NEW event \in Event, Step(c, Applying(event)), calm' = CalmApplying(c, event),
             UNCHANGED referral
      PROVE  SubscriptionShapes' /\ Calm'
  BY <1>1, <1>2, EventSteps DEF Step
<1>3. CASE /\ referral' \in {referral, IF referral = "none" THEN "PENDING" ELSE referral}
           /\ Return(c) /\ calm' = calm
  <2>1. /\ Idle \in BillingCalls /\ Idle.at = "idle" /\ call' = [call EXCEPT ![c] = Idle]
        /\ referral' \in {"none", "PENDING", "REWARDED"} /\ calm' \in BOOLEAN
        /\ credits' \in Nat /\ subscription' \in SubscriptionRow
        /\ ~At(c, "apply") /\ ~At(c, "applied")
    BY <1>1, <1>3, IdleIs DEF Return, SubscriptionShapes, At
  <2>2. calm' => calm /\ Alone(c)
    BY <1>1, <1>3, AloneIsTrue
  <2>. QED  BY <1>1, <2>1, <2>2, AgreedSteps
<1>. QED  BY <1>2, <1>3 DEF Checkout

(* The date of a grant passes: who read it before has read no less. *)
LEMMA GrantEndSteps ==
  ASSUME SubscriptionShapes, Calm, GrantEnds
  PROVE  SubscriptionShapes' /\ Calm'
<1>1. /\ UNCHANGED <<subscription, referral, credits, earned, calm, call>>
      /\ business \in BusinessRow /\ business.grant = "current"
      /\ business' = [plan |-> business.plan, grant |-> "past", previous |-> business.previous]
  BY DEF GrantEnds, SubscriptionShapes, BusinessRow
<1>2. SubscriptionShapes'
  BY <1>1 DEF SubscriptionShapes, BusinessRow
<1>3. (GrantKeepsEarned => GrantKeepsEarned') /\ (Agreed => Agreed')
  BY <1>1 DEF Agreed, GrantKeepsEarned
<1>4. ASSUME NEW c \in Call, StillTrue(call[c])
      PROVE  StillTrue(call[c])'
  BY <1>1, <1>3, <1>4 DEF StillTrue
<1>5. \A c \in Call : Alone(c)' <=> Alone(c)
  BY <1>1 DEF Alone
<1>6. Calm'
  BY <1>1, <1>3, <1>4, <1>5 DEF Calm
<1>. QED  BY <1>2, <1>6

-----------------------------------------------------------------------------
SubscriptionsInv == SubscriptionShapes /\ Calm /\ RewardClaimed

(* Only who claims the reward comes to where it is credited. *)
ToNoCredit(c) == \E k \in BillingCalls : call' = [call EXCEPT ![c] = k] /\ k.at # "credit"

LEMMA HandlerComesTo ==
  ASSUME SubscriptionShapes, NEW c \in Call,
         \/ \E event \in Event : ReceiveEvent(c, event)
         \/ \E plan \in Plan : RequestSetPlan(c, plan)
         \/ \E plan \in Paid : RequestGrant(c, plan)
         \/ RequestCheckout(c) \/ RequestExpiry(c)
  PROVE  ToNoCredit(c)
<1>0. business \in BusinessRow
  BY DEF SubscriptionShapes
<1>1. ASSUME NEW event \in Event, ReceiveEvent(c, event)
      PROVE  ToNoCredit(c)
  BY <1>1, ApplyingIs DEF ReceiveEvent, Enter, ToNoCredit
<1>2. ASSUME NEW plan \in Plan, RequestSetPlan(c, plan)
      PROVE  ToNoCredit(c)
  <2>. DEFINE k == [at |-> "setPlan", plan |-> plan]
  <2>1. k \in BillingCalls /\ k.at # "credit" /\ call' = [call EXCEPT ![c] = k]
    BY <1>2 DEF RequestSetPlan, Enter, BillingCalls, SetPlanCalls
  <2>. HIDE DEF k
  <2>. QED  BY <2>1 DEF ToNoCredit
<1>3. ASSUME NEW plan \in Paid, RequestGrant(c, plan)
      PROVE  ToNoCredit(c)
  <2>. DEFINE k == [at |-> "grant", plan |-> plan,
                    previous |-> IF business.grant = "current" THEN business.previous
                                 ELSE business.plan]
  <2>1. k \in BillingCalls /\ k.at # "credit"
    BY <1>0 DEF BillingCalls, GrantCalls, BusinessRow, Plan
  <2>2. call' = [call EXCEPT ![c] = k]
    BY <1>3 DEF RequestGrant, Enter
  <2>. HIDE DEF k
  <2>. QED  BY <2>1, <2>2 DEF ToNoCredit
<1>4. CASE RequestCheckout(c)
  <2>. DEFINE k == [at |-> "checkout"]
  <2>1. k \in BillingCalls /\ k.at # "credit" /\ call' = [call EXCEPT ![c] = k]
    BY <1>4, PlainIs DEF RequestCheckout, Enter
  <2>. HIDE DEF k
  <2>. QED  BY <2>1 DEF ToNoCredit
<1>5. CASE RequestExpiry(c)
  <2>. DEFINE k == [at |-> "expire", previous |-> business.previous]
  <2>1. k \in BillingCalls /\ k.at # "credit" /\ call' = [call EXCEPT ![c] = k]
    BY <1>0, <1>5 DEF RequestExpiry, Enter, BillingCalls, ExpireCalls, BusinessRow
  <2>. HIDE DEF k
  <2>. QED  BY <2>1 DEF ToNoCredit
<1>. QED  BY <1>1, <1>2, <1>3, <1>4, <1>5

LEMMA HandlerGoesTo ==
  ASSUME SubscriptionShapes, NEW c \in Call,
         \/ ApplyRow(c) \/ ApplyBusiness(c) \/ Checkout(c) \/ SetPlanAdmin(c)
         \/ GrantComplimentaryPlan(c) \/ ExpireComplimentaryPlan(c) \/ DieBilling(c)
         \/ EnsureBusinessCustomer(c) \/ RequestCheckout(c) \/ RequestExpiry(c)
  PROVE  ToNoCredit(c)
<1>1. Return(c) => ToNoCredit(c)
  BY IdleIs DEF Return, ToNoCredit
<1>2. CASE ApplyRow(c)
  <2>. DEFINE k == [at |-> "applied", event |-> call[c].event, granted |-> call[c].granted]
  <2>1. call[c] \in ApplyCalls
    BY <1>2, BillingCallIs DEF ApplyRow
  <2>2. k \in BillingCalls /\ k.at # "credit"
    BY <2>1 DEF BillingCalls, ApplyCalls
  <2>3. call' = [call EXCEPT ![c] = k]
    BY <1>2, <2>1, Applied DEF ApplyRow, Step
  <2>. HIDE DEF k
  <2>. QED  BY <2>2, <2>3 DEF ToNoCredit
<1>3. CASE ApplyBusiness(c)
  <2>1. Step(c, [at |-> "reward"]) => ToNoCredit(c)
    <3>. DEFINE k == [at |-> "reward"]
    <3>1. k \in BillingCalls /\ k.at # "credit"
      BY PlainIs
    <3>. HIDE DEF k
    <3>2. Step(c, k) => ToNoCredit(c)
      BY <3>1 DEF Step, ToNoCredit
    <3>. QED  BY <3>2 DEF k
  <2>. QED  BY <1>1, <1>3, <2>1 DEF ApplyBusiness, AfterApply
<1>4. CASE Checkout(c)
  <2>1. ASSUME NEW event \in Event, Step(c, Applying(event))
        PROVE  ToNoCredit(c)
    BY <2>1, ApplyingIs DEF Step, ToNoCredit
  <2>. QED  BY <1>1, <1>4, <2>1 DEF Checkout
<1>5. CASE EnsureBusinessCustomer(c)
  <2>. DEFINE k == [at |-> "lookup"]
  <2>1. k \in BillingCalls /\ k.at # "credit" /\ call' = [call EXCEPT ![c] = k]
    BY <1>5, PlainIs DEF EnsureBusinessCustomer, Step
  <2>. HIDE DEF k
  <2>. QED  BY <2>1 DEF ToNoCredit
<1>6. CASE SetPlanAdmin(c) \/ GrantComplimentaryPlan(c) \/ ExpireComplimentaryPlan(c) \/ DieBilling(c)
  BY <1>1, <1>6 DEF SetPlanAdmin, GrantComplimentaryPlan, ExpireComplimentaryPlan, DieBilling
<1>. QED  BY <1>2, <1>3, <1>4, <1>5, <1>6, HandlerComesTo

LEMMA RewardSteps ==
  ASSUME SubscriptionShapes, RewardClaimed, [SubscriptionsNext]_subscriptionsVars
  PROVE  RewardClaimed'
<1>1. ASSUME UNCHANGED credits, referral = "REWARDED" => referral' = "REWARDED",
             \A d \in Call : At(d, "credit")' => At(d, "credit")
      PROVE  RewardClaimed'
  BY <1>1 DEF RewardClaimed
<1>2. ASSUME NEW c \in Call, NEW k \in BillingCalls, call' = [call EXCEPT ![c] = k],
             k.at # "credit"
      PROVE  \A d \in Call : At(d, "credit")' => At(d, "credit") /\ d # c
  BY <1>2, BillingCallTo DEF At
<1>3. ASSUME NEW c \in Call, ClaimPendingReward(c)
      PROVE  RewardClaimed'
  <2>1. CASE referral = "PENDING"
    <3>. DEFINE k == [at |-> "credit"]
    <3>1. k \in BillingCalls /\ call' = [call EXCEPT ![c] = k] /\ UNCHANGED credits
          /\ referral' = "REWARDED"
      BY <1>3, <2>1, PlainIs DEF ClaimPendingReward, Step
    <3>2. \A d \in Call \ {c} : call'[d] = call[d]
      BY <3>1, BillingCallTo
    <3>3. \A d \in Call : ~At(d, "credit")
      BY <2>1 DEF RewardClaimed
    <3>4. credits = 0
      BY <2>1 DEF RewardClaimed, SubscriptionShapes
    <3>5. \A d \in Call : At(d, "credit")' => d = c
      BY <3>2, <3>3 DEF At
    <3>. QED  BY <3>1, <3>4, <3>5 DEF RewardClaimed
  <2>2. CASE referral # "PENDING"
    BY <1>1, <1>2, <1>3, <2>2, IdleIs DEF ClaimPendingReward, Return
  <2>. QED  BY <2>1, <2>2
<1>4. ASSUME NEW c \in Call, GrantReferralReward(c)
      PROVE  RewardClaimed'
  <2>1. /\ At(c, "credit") /\ credits' = credits + 1 /\ UNCHANGED referral
        /\ call' = [call EXCEPT ![c] = Idle]
    BY <1>4 DEF GrantReferralReward, Return
  <2>2. \A d \in Call : At(d, "credit")' => At(d, "credit") /\ d # c
    BY <1>2, <2>1, IdleIs
  <2>. QED  BY <2>1, <2>2 DEF RewardClaimed
<1>5. ASSUME NEW c \in Call,
             \/ ApplyRow(c) \/ ApplyBusiness(c) \/ Checkout(c) \/ SetPlanAdmin(c)
             \/ GrantComplimentaryPlan(c) \/ ExpireComplimentaryPlan(c) \/ DieBilling(c)
             \/ EnsureBusinessCustomer(c) \/ RequestCheckout(c) \/ RequestExpiry(c)
      PROVE  RewardClaimed'
  <2>1. UNCHANGED credits /\ (referral = "REWARDED" => referral' = "REWARDED")
    BY <1>5 DEF ApplyRow, ApplyBusiness, Checkout, SetPlanAdmin, GrantComplimentaryPlan,
                ExpireComplimentaryPlan, DieBilling, EnsureBusinessCustomer, RequestCheckout,
                RequestExpiry
  <2>2. PICK k \in BillingCalls : call' = [call EXCEPT ![c] = k] /\ k.at # "credit"
    BY <1>5, HandlerGoesTo DEF ToNoCredit
  <2>. QED  BY <1>1, <1>2, <2>1, <2>2
<1>6. ASSUME NEW c \in Call,
             \/ \E event \in Event : ReceiveEvent(c, event)
             \/ \E plan \in Plan : RequestSetPlan(c, plan)
             \/ \E plan \in Paid : RequestGrant(c, plan)
      PROVE  RewardClaimed'
  <2>1. UNCHANGED <<credits, referral>>
    BY <1>6 DEF ReceiveEvent, RequestSetPlan, RequestGrant
  <2>2. PICK k \in BillingCalls : call' = [call EXCEPT ![c] = k] /\ k.at # "credit"
    BY <1>6, HandlerComesTo DEF ToNoCredit
  <2>. QED  BY <1>1, <1>2, <2>1, <2>2
<1>7. CASE GrantEnds \/ UNCHANGED subscriptionsVars
  BY <1>7 DEF GrantEnds, subscriptionsVars, RewardClaimed, At
<1>. QED  BY <1>3, <1>4, <1>5, <1>6, <1>7 DEF SubscriptionsNext

LEMMA SubscriptionsInvInit == SubscriptionsInit => SubscriptionsInv
<1>. SUFFICES ASSUME SubscriptionsInit PROVE SubscriptionsInv
  OBVIOUS
<1>1. SubscriptionShapes
  BY DEF SubscriptionsInit, HandlersInit, SubscriptionShapes, SubscriptionRow, BusinessRow, Plan,
         BillingCalls
<1>2. Calm
  BY DEF SubscriptionsInit, HandlersInit, Calm, Agreed, GrantKeepsEarned, NoSubscription
<1>3. RewardClaimed
  BY DEF SubscriptionsInit, HandlersInit, RewardClaimed, At, Idle
<1>. QED  BY <1>1, <1>2, <1>3 DEF SubscriptionsInv

LEMMA SubscriptionsInvStep ==
  SubscriptionsInv /\ [SubscriptionsNext]_subscriptionsVars => SubscriptionsInv'
<1>. SUFFICES ASSUME SubscriptionShapes, Calm, RewardClaimed,
                     [SubscriptionsNext]_subscriptionsVars
              PROVE  SubscriptionShapes' /\ Calm'
  BY RewardSteps DEF SubscriptionsInv
<1>1. ASSUME NEW c \in Call, NEW event \in Event, ReceiveEvent(c, event)
      PROVE  SubscriptionShapes' /\ Calm'
  BY <1>1, EventSteps DEF ReceiveEvent, Enter
<1>2. ASSUME NEW c \in Call, NEW plan \in Paid, RequestGrant(c, plan)
      PROVE  SubscriptionShapes' /\ Calm'
  <2>1. plan \in Plan
    BY DEF Plan
  <2>. QED  BY <1>2, <2>1, BeginBilling
<1>3. ASSUME NEW c \in Call, RequestCheckout(c) \/ RequestExpiry(c)
      PROVE  SubscriptionShapes' /\ Calm'
  <2>1. "FREE" \in Plan
    BY DEF Plan
  <2>. QED  BY <1>3, <2>1, BeginBilling
<1>4. CASE UNCHANGED subscriptionsVars
  <2>1. (Agreed' <=> Agreed) /\ (GrantKeepsEarned' <=> GrantKeepsEarned)
    BY <1>4 DEF subscriptionsVars, Agreed, GrantKeepsEarned
  <2>2. \A c \in Call : (Alone(c)' <=> Alone(c)) /\ (StillTrue(call[c])' <=> StillTrue(call[c]))
    BY <1>4, <2>1 DEF subscriptionsVars, Alone, StillTrue
  <2>. QED  BY <1>4, <2>1, <2>2 DEF subscriptionsVars, SubscriptionShapes, Calm
<1>. QED  BY <1>1, <1>2, <1>3, <1>4, BeginBilling, ApplyRowSteps, ApplyBusinessSteps,
             AdministratorSteps, OtherBillingSteps, CheckoutSteps, GrantEndSteps
          DEF SubscriptionsNext

(* A referrer is credited at most once, however often Stripe reports.        *)
THEOREM RewardedOnceAlways == SubscriptionsSpec => []RewardedOnce
<1>1. SubscriptionsInv => RewardedOnce
  BY DEF SubscriptionsInv, RewardClaimed, RewardedOnce
<1>. QED  BY <1>1, SubscriptionsInvInit, SubscriptionsInvStep, PTL DEF SubscriptionsSpec

(* The plan is the one that was earned, and what is paid for has no grant    *)
(* over it, wherever handlers ran one after another.                         *)
THEOREM PlanIsEarnedAlways == SubscriptionsSpec => []PlanIsEarned
<1>1. SubscriptionsInv => PlanIsEarned
  BY RestIsAgreed DEF SubscriptionsInv, PlanIsEarned, Agreed, GrantKeepsEarned
<1>. QED  BY <1>1, SubscriptionsInvInit, SubscriptionsInvStep, PTL DEF SubscriptionsSpec

(* A failed or cancelled subscription ends no current grant, because the     *)
(* handler read the grant before, and no grant begins beside it.             *)
THEOREM FailureKeepsGrantAlways == SubscriptionsSpec => FailureKeepsGrant
<1>. DEFINE Kept == calm => \A c \in Call : ~RevokesGrant(c)
<1>1. ASSUME SubscriptionsInv, [SubscriptionsNext]_subscriptionsVars, calm,
             NEW c \in Call, RevokesGrant(c)
      PROVE  FALSE
  <2>1. call[c] # Idle /\ call[c].at = "applied" /\ business'.grant # business.grant
        /\ call[c].event.plan = "FREE" /\ business.grant = "current" /\ business'.grant = "none"
    BY <1>1 DEF RevokesGrant, At, Idle
  <2>2. Alone(c) /\ call[c].granted
    BY <1>1, <2>1, AloneIsTrue DEF SubscriptionsInv, StillTrue
  <2>3. \A d \in Call : d # c => call[d] = Idle /\ call[d].at = "idle"
    BY <2>2 DEF Alone, Idle
  <2>4. PICK d \in Call : \/ ApplyBusiness(d) \/ SetPlanAdmin(d) \/ ExpireComplimentaryPlan(d)
                          \/ GrantComplimentaryPlan(d)
    <3>1. business' # business
      BY <2>1
    <3>2. ~GrantEnds
      BY <1>1, <2>1 DEF GrantEnds, SubscriptionsInv, SubscriptionShapes, BusinessRow
    <3>3. ASSUME NEW d \in Call,
                 \/ \E event \in Event : ReceiveEvent(d, event)
                 \/ \E plan \in Plan : RequestSetPlan(d, plan)
                 \/ \E plan \in Paid : RequestGrant(d, plan)
                 \/ RequestCheckout(d) \/ RequestExpiry(d)
          PROVE  business' = business
      BY <3>3 DEF ReceiveEvent, RequestCheckout, RequestSetPlan, RequestGrant, RequestExpiry
    <3>4. ASSUME NEW d \in Call,
                 \/ ApplyRow(d) \/ ClaimPendingReward(d) \/ GrantReferralReward(d)
                 \/ EnsureBusinessCustomer(d) \/ Checkout(d) \/ DieBilling(d)
          PROVE  business' = business
      BY <3>4 DEF ApplyRow, ClaimPendingReward, GrantReferralReward, EnsureBusinessCustomer,
                  Checkout, DieBilling
    <3>5. SubscriptionsNext
      BY <1>1, <3>1 DEF subscriptionsVars
    <3>. QED  BY <3>1, <3>2, <3>3, <3>4, <3>5 DEF SubscriptionsNext
  <2>5. d = c
    BY <2>3, <2>4 DEF ApplyBusiness, SetPlanAdmin, ExpireComplimentaryPlan,
                      GrantComplimentaryPlan, At
  <2>6. ApplyBusiness(c)
    BY <2>1, <2>4, <2>5 DEF SetPlanAdmin, ExpireComplimentaryPlan, GrantComplimentaryPlan, At
  <2>. QED  BY <2>1, <2>2, <2>6 DEF ApplyBusiness
<1>2. SubscriptionsInv /\ [SubscriptionsNext]_subscriptionsVars => [Kept]_subscriptionsVars
  BY <1>1
<1>3. SubscriptionsSpec => [][Kept]_subscriptionsVars
  BY <1>2, SubscriptionsInvInit, SubscriptionsInvStep, PTL DEF SubscriptionsSpec
<1>. QED  BY <1>3 DEF FailureKeepsGrant
=============================================================================
