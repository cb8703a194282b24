------------------------------ MODULE Invoices ------------------------------
(***************************************************************************)
(* Invoices of one business (invoices.service.ts).  A number is taken from *)
(* the sequence of the business in the transaction that creates the row;   *)
(* the other handlers read the row, check its status and later write it.   *)
(***************************************************************************)
EXTENDS Naturals, FiniteSets, Handlers

CONSTANTS
    Invoice,   \* invoices that may be created
    Subtotal,  \* what the line items may add up to
    Discount,  \* discounts that may be given
    Asked      \* statuses that the callers of updateStatus ask for

Status == {"DRAFT", "SENT", "PAID", "VOID"}

ASSUME InvoicesAssumption ==
    Subtotal \subseteq Nat /\ Discount \subseteq Nat /\ Asked \subseteq Status

VARIABLES
    invoice,  \* the Invoice rows; a removed one is empty again
    sequence, \* Business.invoiceSeq
    numbers,  \* history: the number each invoice was created with
    mailed,   \* history: the total the client was last mailed since it was a draft
    alone     \* history: no two handlers have overlapped on an invoice

invoicesVars == <<invoice, sequence, numbers, mailed, alone, call>>

NoInvoice == [status |-> "NONE", subtotal |-> 0, discount |-> 0, total |-> 0]

InvoicesInit ==
    /\ invoice = [i \in Invoice |-> NoInvoice]
    /\ sequence = 0
    /\ numbers = << >>
    /\ mailed = [i \in Invoice |-> 0]
    /\ alone = [i \in Invoice |-> TRUE]
    /\ HandlersInit

(* Tax is proportional to what is left and adds nothing to the cases. *)
Total(subtotal, discount) == IF subtotal > discount THEN subtotal - discount ELSE 0

On(i) == {c \in Call : "invoice" \in DOMAIN call[c] /\ call[c].invoice = i}

-----------------------------------------------------------------------------
(* create *)

(* Mutant: the update of the sequence does not wait for its row. *)
TakeNumberAtOnce(c, i) ==
    /\ i \notin DOMAIN numbers
    /\ Enter(c, [at |-> "create", invoice |-> i, number |-> sequence + 1])
    /\ UNCHANGED <<invoice, sequence, numbers, mailed, alone>>

(* The row of the business is locked from here to the commit. *)
TakeNumber(c, i) ==
    /\ i \notin DOMAIN numbers
    /\ \A d \in Call : ~At(d, "create")
    /\ Enter(c, [at |-> "create", invoice |-> i, number |-> sequence + 1])
    /\ UNCHANGED <<invoice, sequence, numbers, mailed, alone>>

CommitInvoice(c, subtotal, discount) ==
    /\ At(c, "create")
    /\ LET i == call[c].invoice
       IN /\ sequence' = call[c].number
          /\ numbers' = [j \in DOMAIN numbers \cup {i} |->
                            IF j = i THEN call[c].number ELSE numbers[j]]
          /\ invoice' = [invoice EXCEPT ![i] =
                            [status |-> "DRAFT", subtotal |-> subtotal, discount |-> discount,
                             total |-> Total(subtotal, discount)]]
    /\ Return(c)
    /\ UNCHANGED <<mailed, alone>>

-----------------------------------------------------------------------------
(* The handlers that read the row first *)

Read(c, i, k) ==
    /\ invoice[i] # NoInvoice
    /\ Enter(c, k)
    /\ alone' = [alone EXCEPT ![i] = @ /\ On(i) = {}]
    /\ UNCHANGED <<invoice, sequence, numbers, mailed>>

(* An update gives new line items, a new discount, both or neither; what it  *)
(* leaves out is taken from the row that was read.                           *)
RequestUpdate(c, i, subtotal, discount) ==
    /\ invoice[i].status = "DRAFT"
    /\ Read(c, i, [at |-> "update", invoice |-> i, subtotal |-> subtotal, discount |-> discount])

(* Items, discount and totals are written together; the status is not. *)
UpdateInvoice(c) ==
    /\ At(c, "update")
    /\ LET k == call[c]
       IN invoice' = IF invoice[k.invoice] = NoInvoice THEN invoice
                     ELSE [invoice EXCEPT
                        ![k.invoice].subtotal = k.subtotal,
                        ![k.invoice].discount = k.discount,
                        ![k.invoice].total = Total(k.subtotal, k.discount)]
    /\ Return(c)
    /\ UNCHANGED <<sequence, numbers, mailed, alone>>

RequestStatusChange(c, i, status) ==
    /\ ~(invoice[i].status \in {"PAID", "VOID"} /\ status \in {"DRAFT", "SENT"})
    /\ Read(c, i, [at |-> "status", invoice |-> i, status |-> status])

WriteInvoiceStatus(c, i, status) ==
    invoice' = IF invoice[i] = NoInvoice THEN invoice
               ELSE [invoice EXCEPT ![i].status = status]

UpdateInvoiceStatus(c) ==
    /\ At(c, "status")
    /\ WriteInvoiceStatus(c, call[c].invoice, call[c].status)
    /\ mailed' = IF call[c].status = "DRAFT"
                 THEN [mailed EXCEPT ![call[c].invoice] = 0] ELSE mailed
    /\ Return(c)
    /\ UNCHANGED <<sequence, numbers, alone>>

RequestMail(c, i) ==
    Read(c, i, [at |-> "mail", invoice |-> i, draft |-> invoice[i].status = "DRAFT",
                total |-> invoice[i].total])

MailInvoice(c) ==
    /\ At(c, "mail")
    /\ mailed' = [mailed EXCEPT ![call[c].invoice] = call[c].total]
    /\ IF call[c].draft THEN Step(c, [call[c] EXCEPT !.at = "sent"]) ELSE Return(c)
    /\ UNCHANGED <<invoice, sequence, numbers, alone>>

(* Mutant: the draft that was mailed stays a draft. *)
MarkNothing(c) ==
    /\ At(c, "sent")
    /\ Return(c)
    /\ UNCHANGED <<invoice, sequence, numbers, mailed, alone>>

(* What was a DRAFT when it was read is SENT now, whatever it has become. *)
MarkInvoiceSent(c) ==
    /\ At(c, "sent")
    /\ WriteInvoiceStatus(c, call[c].invoice, "SENT")
    /\ Return(c)
    /\ UNCHANGED <<sequence, numbers, mailed, alone>>

RemoveInvoice(c, i) ==
    /\ call[c] = Idle
    /\ invoice[i] # NoInvoice
    /\ invoice' = [invoice EXCEPT ![i] = NoInvoice]
    /\ UNCHANGED <<sequence, numbers, mailed, alone, call>>

(* The transaction of create is rolled back; mail may be out unrecorded. *)
DieInvoicing(c) ==
    /\ call[c] # Idle
    /\ Return(c)
    /\ alone' = [alone EXCEPT ![call[c].invoice] = @ /\ ~At(c, "sent")]
    /\ UNCHANGED <<invoice, sequence, numbers, mailed>>

InvoicesNext ==
    \E c \in Call :
        \/ \E i \in Invoice :
             \/ TakeNumber(c, i) \/ RequestMail(c, i) \/ RemoveInvoice(c, i)
             \/ \E status \in Asked : RequestStatusChange(c, i, status)
             \/ \E subtotal \in Subtotal, discount \in Discount :
                    RequestUpdate(c, i, subtotal, discount)
        \/ \E subtotal \in Subtotal, discount \in Discount : CommitInvoice(c, subtotal, discount)
        \/ UpdateInvoice(c) \/ UpdateInvoiceStatus(c) \/ MailInvoice(c) \/ MarkInvoiceSent(c)
        \/ DieInvoicing(c)

InvoicesSpec == InvoicesInit /\ [][InvoicesNext]_invoicesVars

-----------------------------------------------------------------------------
(* The invoices of a business are numbered 1, 2, 3 ... without a gap and     *)
(* without a number that is given twice, whichever creates run at once or    *)
(* fail; a removed invoice does not give its number back.                    *)
NumbersWithoutGap ==
    /\ {numbers[i] : i \in DOMAIN numbers} = 1 .. sequence
    /\ Cardinality(DOMAIN numbers) = sequence

(* What the client was mailed stands: the invoice keeps that total and is no *)
(* draft that could be edited, until the owner makes it one again; unless    *)
(* handlers overlapped on it or one died.                                    *)
MailedStands ==
    \A i \in Invoice :
        alone[i] /\ On(i) = {} /\ mailed[i] # 0 /\ invoice[i] # NoInvoice
            => invoice[i].total = mailed[i] /\ invoice[i].status # "DRAFT"
=============================================================================
