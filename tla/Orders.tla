------------------------------- MODULE Orders -------------------------------
(***************************************************************************)
(* How work becomes an order and an order is billed and handed over: a     *)
(* note is billed, an accepted quotation or a client's job request is      *)
(* converted, a project is invoiced, designed, printed and delivered.      *)
(*                                                                         *)
(* The routes run in a pool of threads, each with a transaction of its     *)
(* own.  A service first reads and checks, then writes and commits, with   *)
(* no lock in between: a request that does both is two steps here, `Ask`   *)
(* (the service's guards) and `Write` (the repository's changes).  With    *)
(* one thread that is the sequential program.  Requests that only write    *)
(* are one step, and so is a move to the bin or back: RecordBin.tla takes  *)
(* those apart.  Money is in Billing.tla and the bytes in ProjectFiles.tla *)
(***************************************************************************)
EXTENDS Naturals

CONSTANTS
    Threads,    \* the requests there may be at once
    Projects,   \* project ids, handed out in increasing order
    Invoices,   \* invoice ids, handed out in increasing order
    Sources,    \* the notes, quotations and job requests
    Kinds,      \* which of the three they may be
    Files,      \* names of a client's uploads
    None        \* SQL's NULL

ASSUME OrdersAssumption ==
    /\ Projects \subseteq Nat /\ Invoices \subseteq Nat
    /\ Kinds \subseteq {"note", "quotation", "job"}
    /\ None \notin Nat /\ None \notin Sources

VARIABLES
    project,   \* the project rows
    invoice,   \* the invoice rows
    source,    \* the rows of notes, quotations and job requests
    file,      \* the client's uploads and the rows that name them
    req        \* what each thread has checked and not yet written

vars == <<project, invoice, source, file, req>>

----------------------------------------------------------------------------
(* Rows.  `waiting` is the bin item's list of links to put back.           *)

Places == {"unborn", "live", "bin"}

ProjectRow ==
    [place : Places, billOnly : BOOLEAN, designed : BOOLEAN, printed : BOOLEAN,
     delivered : {"no", "paid", "credit"}, waiting : SUBSET Sources]

(* `source` and the two flags are history: what an invoice was made from,  *)
(* whether it came back from the bin, and whether it was opened when its   *)
(* project was already delivered or had a newer invoice.                   *)
InvoiceRow ==
    [place : Places, project : Projects \cup {None},
     status : {"pending", "paid", "cancelled"}, waiting : SUBSET Sources,
     source : Sources \cup {None}, back : BOOLEAN, late : BOOLEAN]

NoteRow ==
    [kind : {"note"}, place : Places, status : {"pending"}, project : {None},
     invoice : Invoices \cup {None}, back : BOOLEAN]
QuotationRow ==
    [kind : {"quotation"}, place : Places, status : {"pending", "accepted", "rejected"},
     project : {None}, invoice : {None}, back : BOOLEAN] \cup
    [kind : {"quotation"}, place : Places, status : {"converted"},
     project : Projects \cup {None}, invoice : Invoices \cup {None}, back : BOOLEAN]
JobRequestRow ==
    [kind : {"job"}, place : Places, status : {"pending", "rejected"},
     project : {None}, invoice : {None}, back : {FALSE}] \cup
    [kind : {"job"}, place : Places, status : {"converted"},
     project : Projects \cup {None}, invoice : {None}, back : {FALSE}]

(* One path, one name: it may be on a job request and on the project made  *)
(* of it.  `late`: attached when the request was already reviewed.         *)
FileRow ==
    [bytes : {"unborn", "uploads", "bin", "gone"}, job : Sources \cup {None},
     project : Projects \cup {None}, late : BOOLEAN]

Idle == [op |-> "idle"]

Live(row, x) == row[x].place = "live"

NextId(row, x) ==
    /\ row[x].place = "unborn"
    /\ \A y \in DOMAIN row : y < x => row[y].place # "unborn"

NewProject(billOnly, designed, printed) ==
    [place |-> "live", billOnly |-> billOnly, designed |-> designed,
     printed |-> printed, delivered |-> "no", waiting |-> {}]

NewInvoice(j, s) ==
    [place |-> "live", project |-> j, status |-> "pending", waiting |-> {},
     source |-> s, back |-> FALSE, late |-> project[j].delivered # "no"]

(* get_latest_invoice_for_project: by created_at, which ids follow.        *)
IsLatest(i, j) ==
    /\ Live(invoice, i) /\ invoice[i].project = j
    /\ \A k \in Invoices : Live(invoice, k) /\ invoice[k].project = j => k <= i

LatestIs(j, status) == \E i \in Invoices : IsLatest(i, j) /\ invoice[i].status = status

(* Rows of these that a foreign key without an ON DELETE rule protects.    *)
ProjectInUse(j) ==
    \/ \E i \in Invoices : Live(invoice, i) /\ invoice[i].project = j
    \/ \E s \in Sources :
           source[s].kind = "quotation" /\ Live(source, s) /\ source[s].project = j
InvoiceInUse(i) ==
    \E s \in Sources :
        source[s].kind = "quotation" /\ Live(source, s) /\ source[s].invoice = i

----------------------------------------------------------------------------
(* What the services check *)

\* Mutant: nobody looks whether the note already has an invoice.
MayBillAnyNote(o) ==
    /\ o.source # None =>
        /\ source[o.source].kind = "note" /\ Live(source, o.source)
    /\ o.project # None =>
        /\ Live(project, o.project)
        /\ ~LatestIs(o.project, "pending")
(* service_create: of a note that is not billed yet, for a new project or  *)
(* for one whose latest invoice is not open.                               *)
MayBill(o) ==
    /\ o.source # None =>
        /\ source[o.source].kind = "note" /\ Live(source, o.source)
        /\ source[o.source].invoice = None
    /\ o.project # None =>
        /\ Live(project, o.project)
        /\ ~LatestIs(o.project, "pending")

(* Of a quotation's status: only while it is pending.                      *)
MayAnswer(o) ==
    /\ source[o.source].kind = "quotation" /\ Live(source, o.source)
    /\ source[o.source].status = "pending"

MayConvertQuotation(o) ==
    /\ source[o.source].kind = "quotation" /\ Live(source, o.source)
    /\ source[o.source].status = "accepted"

(* Of a job request: to convert and to reject it.                          *)
MayReview(o) ==
    /\ source[o.source].kind = "job" /\ Live(source, o.source)
    /\ source[o.source].status = "pending"

\* Mutant: an unpaid invoice is delivered like a paid one.
MayDeliverUnpaid(o) ==
    /\ Live(project, o.project)
    /\ project[o.project].designed /\ project[o.project].printed
    /\ o.repeated <=> project[o.project].delivered # "no"
    /\ ~o.repeated =>
        \/ LatestIs(o.project, "pending")
        \/ ~o.credit /\ LatestIs(o.project, "paid")

(* service_mark_delivered: the lifecycle, and on the transition itself the *)
(* state of the latest invoice.                                            *)
MayDeliver(o) ==
    /\ Live(project, o.project)
    /\ project[o.project].designed /\ project[o.project].printed
    /\ o.repeated <=> project[o.project].delivered # "no"
    /\ ~o.repeated =>
        LatestIs(o.project, IF o.credit THEN "pending" ELSE "paid")

(* A client's own request, whether or not it is still open, and an upload  *)
(* that is on no request and no project.                                   *)
OnProject(f) == file[f].project # None /\ Live(project, file[f].project)

Unattached(f) ==
    file[f].bytes = "uploads" /\ file[f].job = None /\ ~OnProject(f)

MayAttach(o) ==
    /\ source[o.source].kind = "job" /\ Live(source, o.source)
    /\ Unattached(o.file)

\* Mutant: only the projects' files are looked through.
MayDropIfOnNoProject(o) == file[o.file].bytes = "uploads" /\ ~OnProject(o.file)

MayDrop(o) == Unattached(o.file)

Requests ==
    [op : {"bill"}, project : Projects \cup {None},
     source : Sources \cup {None}] \cup
    [op : {"answer"}, source : Sources, status : {"accepted", "rejected"}] \cup
    [op : {"convert", "review", "reject"}, source : Sources] \cup
    [op : {"deliver"}, project : Projects, credit : BOOLEAN, repeated : BOOLEAN] \cup
    [op : {"attach"}, source : Sources, file : Files] \cup
    [op : {"drop"}, file : Files]

Allowed(o) ==
    CASE o.op = "bill"    -> MayBill(o)
      [] o.op = "answer"  -> MayAnswer(o)
      [] o.op = "convert" -> MayConvertQuotation(o)
      [] o.op \in {"review", "reject"} -> MayReview(o)
      [] o.op = "deliver" -> MayDeliver(o)
      [] o.op = "attach"  -> MayAttach(o)
      [] o.op = "drop"    -> MayDrop(o)

Ask(t, o) ==
    /\ req[t] = Idle /\ Allowed(o)
    /\ req' = [req EXCEPT ![t] = o]
    /\ UNCHANGED <<project, invoice, source, file>>

----------------------------------------------------------------------------
(* What the repositories write.  A row that has gone meanwhile, or a path  *)
(* that is taken, makes the commit fail: these are then not enabled, and   *)
(* the request can only give up.                                           *)

(* create_invoice: the project, if it has none yet, the invoice and the    *)
(* note's link, in one transaction.                                        *)
WriteInvoice(o) ==
    \E i \in Invoices, j \in Projects :
        /\ NextId(invoice, i)
        /\ \/ /\ o.project = None /\ NextId(project, j)
              /\ project' = [project EXCEPT ![j] = NewProject(TRUE, TRUE, FALSE)]
           \/ /\ o.project = j /\ Live(project, j)
              /\ UNCHANGED project
        /\ invoice' = [invoice EXCEPT ![i] = NewInvoice(j, o.source)]
        /\ o.source # None => Live(source, o.source)
        /\ source' = IF o.source = None THEN source
                     ELSE [source EXCEPT ![o.source].invoice = i]
        /\ UNCHANGED file

WriteStatus(o, status) ==
    /\ Live(source, o.source)
    /\ source' = [source EXCEPT ![o.source].status = status]
    /\ UNCHANGED <<project, invoice, file>>

(* convert_quotation_to_invoice *)
WriteConversion(o) ==
    \E i \in Invoices, j \in Projects :
        /\ Live(source, o.source)
        /\ NextId(invoice, i) /\ NextId(project, j)
        /\ project' = [project EXCEPT ![j] = NewProject(FALSE, TRUE, FALSE)]
        /\ invoice' = [invoice EXCEPT ![i] = NewInvoice(j, o.source)]
        /\ source' = [source EXCEPT ![o.source].status = "converted",
                                    ![o.source].project = j,
                                    ![o.source].invoice = i]
        /\ UNCHANGED file

FilesOf(s) == {f \in Files : file[f].job = s}

(* convert_to_project: the request's files are the project's too, by the   *)
(* same path, and a path is on one project only.                           *)
WriteJobProject(o) ==
    \E j \in Projects :
        /\ Live(source, o.source) /\ NextId(project, j)
        /\ \A f \in FilesOf(o.source) : ~OnProject(f)
        /\ project' = [project EXCEPT ![j] = NewProject(FALSE, FALSE, FALSE)]
        /\ file' = [f \in Files |-> IF f \in FilesOf(o.source)
                                    THEN [file[f] EXCEPT !.project = j] ELSE file[f]]
        /\ source' = [source EXCEPT ![o.source].status = "converted",
                                    ![o.source].project = j]
        /\ UNCHANGED invoice

(* mark_delivered: a repeated call changes nothing. *)
WriteDelivery(o) ==
    /\ Live(project, o.project)
    /\ project' = IF o.repeated THEN project
                  ELSE [project EXCEPT ![o.project].delivered =
                            IF o.credit THEN "credit" ELSE "paid"]
    /\ UNCHANGED <<invoice, source, file>>

(* attach_files: paths are unique among the job requests' files.           *)
WriteAttachment(o) ==
    /\ file[o.file].job = None
    /\ file' = [file EXCEPT ![o.file].job = o.source,
                            ![o.file].late = source[o.source].status # "pending"]
    /\ UNCHANGED <<project, invoice, source>>

WriteDrop(o) ==
    /\ file' = [file EXCEPT ![o.file].bytes = "gone"]
    /\ UNCHANGED <<project, invoice, source>>

Write(t) ==
    LET o == req[t] IN
    /\ o # Idle
    /\ req' = [req EXCEPT ![t] = Idle]
    /\ \/ o.op = "bill"    /\ WriteInvoice(o)
       \/ o.op = "answer"  /\ WriteStatus(o, o.status)
       \/ o.op = "convert" /\ WriteConversion(o)
       \/ o.op = "review"  /\ WriteJobProject(o)
       \/ o.op = "reject"  /\ WriteStatus(o, "rejected")
       \/ o.op = "deliver" /\ WriteDelivery(o)
       \/ o.op = "attach"  /\ WriteAttachment(o)
       \/ o.op = "drop"    /\ WriteDrop(o)

(* A failed write, or the end of the server: everything is rolled back.    *)
Abandon(t) ==
    /\ req[t] # Idle
    /\ req' = [req EXCEPT ![t] = Idle]
    /\ UNCHANGED <<project, invoice, source, file>>

----------------------------------------------------------------------------
(* Requests of one step *)

(* The form may already say that it is printed. *)
CreateProject(j, printed) ==
    /\ NextId(project, j)
    /\ project' = [project EXCEPT ![j] = NewProject(FALSE, FALSE, printed)]
    /\ UNCHANGED <<invoice, source, file, req>>

MarkDesigned(j) ==
    /\ Live(project, j)
    /\ project' = [project EXCEPT ![j].designed = TRUE]
    /\ UNCHANGED <<invoice, source, file, req>>

(* Marked printed, or edited to be: after the design. *)
MarkPrinted(j) ==
    /\ Live(project, j)
    /\ project[j].printed \/ project[j].designed
    /\ project' = [project EXCEPT ![j].printed = TRUE]
    /\ UNCHANGED <<invoice, source, file, req>>

EditNotPrinted(j) ==
    /\ Live(project, j)
    /\ project' = [project EXCEPT ![j].printed = FALSE]
    /\ UNCHANGED <<invoice, source, file, req>>

(* What money does to a status: Billing.tla says when.                     *)
Pay(i) ==
    /\ Live(invoice, i) /\ invoice[i].status = "pending"
    /\ invoice' = [invoice EXCEPT ![i].status = "paid"]
    /\ UNCHANGED <<project, source, file, req>>

Cancel(i) ==
    /\ Live(invoice, i) /\ invoice[i].status = "pending"
    /\ invoice' = [invoice EXCEPT ![i].status = "cancelled"]
    /\ UNCHANGED <<project, source, file, req>>

(* The customer payment that covered it is deleted.                        *)
Reopen(i) ==
    /\ Live(invoice, i) /\ invoice[i].status = "paid"
    /\ invoice' = [invoice EXCEPT ![i].status = "pending",
                    ![i].late = \/ @ \/ ~IsLatest(i, invoice[i].project)
                                \/ project[invoice[i].project].delivered # "no"]
    /\ UNCHANGED <<project, source, file, req>>

Created(s, kind) ==
    /\ source[s].place = "unborn" /\ source[s].kind = kind
    /\ source' = [source EXCEPT ![s].place = "live"]
    /\ UNCHANGED <<project, invoice, file, req>>

CreateNote(s) == Created(s, "note")
CreateQuotation(s) == Created(s, "quotation")
CreateJobRequest(s) == Created(s, "job")

(* Bound: uploads matter only where there are job requests.                *)
Upload(f) ==
    /\ file[f].bytes = "unborn" /\ \E s \in Sources : source[s].kind = "job"
    /\ file' = [file EXCEPT ![f].bytes = "uploads"]
    /\ UNCHANGED <<project, invoice, source, req>>

----------------------------------------------------------------------------
(* Deleting and restoring, as _capture and restore do it for these tables  *)

(* job_requests.project_id is set to NULL; the files go along.             *)
DeleteProject(j) ==
    LET made == {s \in Sources : source[s].kind = "job" /\ source[s].project = j} IN
    /\ Live(project, j) /\ ~ProjectInUse(j)
    /\ project' = [project EXCEPT ![j].place = "bin", ![j].waiting = made]
    /\ source' = [s \in Sources |-> IF s \in made
                      THEN [source[s] EXCEPT !.project = None] ELSE source[s]]
    /\ file' = [f \in Files |-> IF file[f].project = j /\ file[f].bytes = "uploads"
                    THEN [file[f] EXCEPT !.bytes = "bin"] ELSE file[f]]
    /\ UNCHANGED <<invoice, req>>

RestoreProject(j) ==
    /\ project[j].place = "bin"
    /\ project' = [project EXCEPT ![j].place = "live", ![j].waiting = {}]
    /\ source' = [s \in Sources |->
                     IF s \in project[j].waiting /\ source[s].project = None
                     THEN [source[s] EXCEPT !.project = j] ELSE source[s]]
    /\ file' = [f \in Files |-> IF file[f].project = j /\ file[f].bytes = "bin"
                    THEN [file[f] EXCEPT !.bytes = "uploads"] ELSE file[f]]
    /\ UNCHANGED <<invoice, req>>

(* notes.invoice_id is set to NULL, so that the note can be billed again;  *)
(* a quotation that was converted into it keeps it here.                   *)
DeleteInvoice(i) ==
    LET billed == {s \in Sources : /\ source[s].kind = "note" /\ Live(source, s)
                                   /\ source[s].invoice = i} IN
    /\ Live(invoice, i) /\ ~InvoiceInUse(i)
    /\ invoice' = [invoice EXCEPT ![i].place = "bin", ![i].waiting = billed]
    /\ source' = [s \in Sources |-> IF s \in billed
                      THEN [source[s] EXCEPT !.invoice = None] ELSE source[s]]
    /\ UNCHANGED <<project, file, req>>

RestoreInvoice(i) ==
    /\ invoice[i].place = "bin" /\ Live(project, invoice[i].project)
    /\ invoice' = [invoice EXCEPT ![i].place = "live", ![i].waiting = {},
                                  ![i].back = TRUE]
    /\ source' = [s \in Sources |->
                     IF s \in invoice[i].waiting /\ Live(source, s) /\ source[s].invoice = None
                     THEN [source[s] EXCEPT !.invoice = i] ELSE source[s]]
    /\ UNCHANGED <<project, file, req>>

(* Nothing refers to a note or a quotation.  A job request goes only with  *)
(* its customer: RecordBin.tla.                                            *)
DeleteSource(s, kind) ==
    /\ Live(source, s) /\ source[s].kind = kind
    /\ source' = [source EXCEPT ![s].place = "bin"]
    /\ UNCHANGED <<project, invoice, file, req>>
DeleteNote(s) == DeleteSource(s, "note")
DeleteQuotation(s) == DeleteSource(s, "quotation")

\* Mutant: the old links are put back whether or not their rows exist.
RestoreSourceBlindly(s) ==
    /\ source[s].place = "bin"
    /\ source' = [source EXCEPT ![s].place = "live", ![s].back = TRUE]
    /\ UNCHANGED <<project, invoice, file, req>>

(* Links to rows that have gone come back as NULL.                         *)
RestoreSource(s) ==
    LET j == source[s].project
        i == source[s].invoice
    IN
    /\ source[s].place = "bin"
    /\ source' = [source EXCEPT
           ![s].place = "live", ![s].back = TRUE,
           ![s].project = IF j # None /\ Live(project, j) THEN j ELSE None,
           ![s].invoice = IF i # None /\ Live(invoice, i) THEN i ELSE None]
    /\ UNCHANGED <<project, invoice, file, req>>

----------------------------------------------------------------------------
Init ==
    /\ project = [j \in Projects |->
           [NewProject(FALSE, FALSE, FALSE) EXCEPT !.place = "unborn"]]
    /\ invoice = [i \in Invoices |->
           [place |-> "unborn", project |-> None, status |-> "pending", waiting |-> {},
            source |-> None, back |-> FALSE, late |-> FALSE]]
    /\ source \in [Sources ->
           [kind : Kinds, place : {"unborn"}, status : {"pending"}, project : {None},
            invoice : {None}, back : {FALSE}]]
    /\ file = [f \in Files |->
           [bytes |-> "unborn", job |-> None, project |-> None, late |-> FALSE]]
    /\ req = [t \in Threads |-> Idle]

(* A request of one step takes a thread too.                               *)
AtOnce ==
    \/ \E j \in Projects :
           \/ MarkDesigned(j) \/ MarkPrinted(j) \/ EditNotPrinted(j)
           \/ DeleteProject(j) \/ RestoreProject(j)
           \/ \E printed \in BOOLEAN : CreateProject(j, printed)
    \/ \E i \in Invoices :
           \/ Pay(i) \/ Cancel(i) \/ Reopen(i)
           \/ DeleteInvoice(i) \/ RestoreInvoice(i)
    \/ \E s \in Sources :
           \/ CreateNote(s) \/ CreateQuotation(s) \/ CreateJobRequest(s)
           \/ DeleteNote(s) \/ DeleteQuotation(s) \/ RestoreSource(s)
    \/ \E f \in Files : Upload(f)

Next ==
    \/ \E t \in Threads : Write(t) \/ Abandon(t) \/ \E o \in Requests : Ask(t, o)
    \/ (\E t \in Threads : req[t] = Idle) /\ AtOnce

Spec == Init /\ [][Next]_vars

----------------------------------------------------------------------------
(* Views *)

(* The dashboard's list of orders that need attention: late work, and work *)
(* handed over on credit that is still not paid.                           *)
NeedsAttention(j, overdue) ==
    /\ Live(project, j) /\ ~project[j].billOnly
    /\ \/ project[j].delivered = "no" /\ overdue
       \/ project[j].delivered = "credit" /\ LatestIs(j, "pending")

(* The Ongoing Activities board, which finished work leaves after a week.  *)
OnOngoingBoard(j, aged) ==
    /\ Live(project, j) /\ ~project[j].billOnly
    /\ \/ project[j].delivered = "no"
       \/ ~aged

----------------------------------------------------------------------------
(* Properties *)

OrdersTypeOK ==
    /\ project \in [Projects -> ProjectRow]
    /\ invoice \in [Invoices -> InvoiceRow]
    /\ source \in [Sources -> NoteRow \cup QuotationRow \cup JobRequestRow]
    /\ file \in [Files -> FileRow]
    /\ req \in [Threads -> Requests \cup {Idle}]

(* A note or a quotation is billed once: two of its invoices exist side by *)
(* side only after it, or one of them, was restored from the bin.          *)
BilledOnce ==
    \A i, k \in Invoices :
        /\ Live(invoice, i) /\ Live(invoice, k) /\ i # k
        /\ invoice[i].source # None /\ invoice[i].source = invoice[k].source
        => invoice[i].back \/ invoice[k].back \/ source[invoice[i].source].back

(* Work that is not delivered or not paid, however old, is on the ongoing  *)
(* board or flagged on the dashboard, unless its invoice was opened after  *)
(* the delivery or behind a newer one, or it or a newer one came back from *)
(* the bin: delivery and dashboard look at the newest invoice only.        *)
OpenOrdersAreShown ==
    \A j \in Projects : \A old \in BOOLEAN : Live(project, j) /\ ~project[j].billOnly =>
        /\ project[j].delivered = "no" => OnOngoingBoard(j, old)
        /\ \A i \in Invoices :
               /\ Live(invoice, i) /\ invoice[i].project = j
               /\ invoice[i].status = "pending"
               => \/ OnOngoingBoard(j, old) \/ NeedsAttention(j, old)
                  \/ invoice[i].late
                  \/ \E k \in Invoices : /\ invoice[k].place # "unborn"
                                        /\ invoice[k].project = j
                                        /\ k >= i /\ invoice[k].back

(* Rows keep their shape; every link of a row that exists names a row that *)
(* exists; a quotation's invoice is an invoice of its project; and a       *)
(* project made only to hang an invoice on, which no list of work shows,   *)
(* has got that invoice.                                                   *)
LinksAgree ==
    /\ OrdersTypeOK
    /\ \A j \in Projects :
           Live(project, j) /\ project[j].billOnly
           => \E i \in Invoices : invoice[i].place # "unborn" /\ invoice[i].project = j
    /\ \A i \in Invoices : Live(invoice, i) => Live(project, invoice[i].project)
    /\ \A s \in Sources : Live(source, s) =>
           /\ source[s].project # None => Live(project, source[s].project)
           /\ source[s].invoice # None => Live(invoice, source[s].invoice)
           /\ source[s].project # None /\ source[s].invoice # None
              => invoice[source[s].invoice].project = source[s].project

(* What a client attached to a request is kept: with the request until it  *)
(* is converted and, from then on, on the project too, unless it came      *)
(* after the conversion; its bytes are in place or in the bin.             *)
RequestFilesSurvive ==
    \A f \in Files : file[f].job # None =>
        /\ file[f].bytes \in {"uploads", "bin"}
        /\ source[file[f].job].status = "converted"
           => file[f].late \/ file[f].project # None

=============================================================================
