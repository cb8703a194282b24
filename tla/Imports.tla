------------------------------ MODULE Imports ------------------------------
(***************************************************************************)
(* Importing clients (migrations.service.ts): stageRows compares the rows  *)
(* of a file with the clients there are, confirmImport inserts those that  *)
(* were new.  The inserts are one transaction of PostgreSQL, in which a    *)
(* unique violation spoils every later statement: the handler's catch      *)
(* cannot go on to the next row, and nothing is imported.                  *)
(***************************************************************************)
EXTENDS Naturals, Handlers

CONSTANTS
    ImportRow,  \* the rows of the file
    Email,      \* e-mail addresses
    NoEmail     \* what a row without an address has

ASSUME ImportsAssumption == NoEmail \notin Email

VARIABLES
    file,      \* row |-> its address, after normalisation
    staged,    \* the batch: its status, and the rows it holds as VALID
    emails,    \* addresses of the Client rows of the business
    imported   \* row |-> how many clients were made of it

importsVars == <<file, staged, emails, imported, call>>

ImportsInit ==
    /\ file \in [ImportRow -> Email \cup {NoEmail}]
    /\ staged = [status |-> "NONE", valid |-> {}]
    /\ emails = {}
    /\ imported = [r \in ImportRow |-> 0]
    /\ HandlersInit

(* A client registers, or is added at the desk. *)
AddClient(email) ==
    /\ emails' = emails \cup {email}
    /\ UNCHANGED <<file, staged, imported, call>>

(* Only the clients are looked at, not the other rows of the file. *)
ReadClients(c) ==
    /\ staged.status = "NONE"
    /\ Enter(c, [at |-> "stage", valid |-> {r \in ImportRow : file[r] \notin emails}])
    /\ UNCHANGED <<file, staged, emails, imported>>

(* A second staging makes a batch of its own, which is not followed. *)
StageRows(c) ==
    /\ At(c, "stage")
    /\ staged' = IF staged.status = "NONE"
                 THEN [status |-> "UPLOADED", valid |-> call[c].valid] ELSE staged
    /\ Return(c)
    /\ UNCHANGED <<file, emails, imported>>

RequestImport(c) ==
    /\ staged.status = "UPLOADED"
    /\ Enter(c, [at |-> "import", valid |-> staged.valid])
    /\ UNCHANGED <<file, staged, emails, imported>>

Inserted(c, rows) ==
    /\ imported' = [r \in ImportRow |-> imported[r] + (IF r \in rows THEN 1 ELSE 0)]
    /\ emails' = emails \cup ({file[r] : r \in rows} \ {NoEmail})
    /\ staged' = [staged EXCEPT !.status = "IMPORTED"]
    /\ Return(c)
    /\ UNCHANGED file

(* The unique index on the addresses of a business lets all of them in. *)
AllNew(rows) ==
    /\ \A r \in rows : file[r] \notin emails
    /\ \A r, q \in rows : r # q /\ file[r] = file[q] => file[r] = NoEmail

(* Mutant: rows whose address is taken are left out and the rest goes in. *)
ImportWhatIsNew(c) ==
    /\ At(c, "import")
    /\ Inserted(c, {r \in call[c].valid : file[r] \notin emails})

ConfirmImport(c) ==
    /\ At(c, "import")
    /\ IF AllNew(call[c].valid)
       THEN Inserted(c, call[c].valid)
       ELSE Return(c) /\ UNCHANGED <<file, staged, emails, imported>>

DieImporting(c) ==
    /\ call[c] # Idle
    /\ Return(c)
    /\ UNCHANGED <<file, staged, emails, imported>>

ImportsNext ==
    \/ \E email \in Email : AddClient(email)
    \/ \E c \in Call : ReadClients(c) \/ StageRows(c) \/ RequestImport(c) \/ ConfirmImport(c)
                         \/ DieImporting(c)

ImportsSpec == ImportsInit /\ [][ImportsNext]_importsVars

-----------------------------------------------------------------------------
(* An imported batch has made a client of every row that it called VALID,    *)
(* and a batch that was refused has made none.                               *)
ImportedWhole ==
    {r \in ImportRow : imported[r] > 0} = IF staged.status = "IMPORTED" THEN staged.valid ELSE {}

(* A batch with an address in it is imported once, however many times and    *)
(* however close together it is confirmed.                                   *)
ImportedOnce ==
    (\E r \in staged.valid : file[r] # NoEmail) => \A r \in ImportRow : imported[r] <= 1
=============================================================================
