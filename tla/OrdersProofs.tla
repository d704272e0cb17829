----------------------------- MODULE OrdersProofs -----------------------------
(***************************************************************************)
(* One request at a time keeps the orders in order, for any number of      *)
(* projects, invoices, sources and files: what a request has checked still *)
(* holds when it writes, so each property is one of the single writes.     *)
(***************************************************************************)
EXTENDS Orders, TLAPS

(* With one thread nothing comes between the check and the write.          *)
OneAtATime == \A t, u \in Threads : t = u

----------------------------------------------------------------------------
Born(rows, x) == rows[x].place # "unborn"

(* Links are to rows that there are, and a bin item gives back only links  *)
(* of the kind that a deletion cuts.                                       *)
ProjectLinks ==
    \A j \in Projects :
        /\ Born(project, j) /\ project[j].billOnly
           => \E i \in Invoices : Born(invoice, i) /\ invoice[i].project = j
        /\ \A s \in project[j].waiting :
               source[s].kind = "job" /\ source[s].status = "converted" /\ Born(source, s)

InvoiceLinks ==
    \A i \in Invoices :
        /\ Born(invoice, i) => invoice[i].project \in Projects /\ Born(project, invoice[i].project)
        /\ Live(invoice, i) => Live(project, invoice[i].project)
        /\ \A s \in invoice[i].waiting : source[s].kind = "note"

SourceLinks ==
    \A s \in Sources :
        /\ ~Born(source, s) => source[s].project = None /\ source[s].invoice = None
        /\ source[s].kind = "job" => source[s].place # "bin"
        /\ source[s].project # None => /\ Born(project, source[s].project)
                                       /\ Live(source, s) => Live(project, source[s].project)
        /\ source[s].invoice # None => /\ Born(invoice, source[s].invoice)
                                       /\ Live(source, s) => Live(invoice, source[s].invoice)
        /\ source[s].project # None /\ source[s].invoice # None
           => invoice[source[s].invoice].project = source[s].project

(* A source that never left knows its invoice. *)
Billed ==
    \A i \in Invoices :
        /\ Live(invoice, i) /\ ~invoice[i].back
        /\ invoice[i].source # None /\ ~source[invoice[i].source].back
        => source[invoice[i].source].invoice = i

FilesKept ==
    \A f \in Files : file[f].job # None =>
        /\ source[file[f].job].kind = "job"
        /\ file[f].bytes \in {"uploads", "bin"}
        /\ source[file[f].job].status = "converted" => file[f].late \/ file[f].project # None

(* An open invoice that nothing excuses is its project's latest, and the   *)
(* project was not delivered as paid.                                      *)
Excused(i) ==
    \/ invoice[i].late
    \/ \E k \in Invoices : /\ Born(invoice, k) /\ invoice[k].project = invoice[i].project
                           /\ k >= i /\ invoice[k].back

IdsInOrder == \A i, k \in Invoices : i < k /\ Born(invoice, k) => Born(invoice, i)

Shown ==
    \A i \in Invoices :
        Live(invoice, i) /\ invoice[i].status = "pending" /\ ~Excused(i)
        => /\ IsLatest(i, invoice[i].project)
           /\ project[invoice[i].project].delivered # "paid"

RowsOK ==
    /\ project \in [Projects -> ProjectRow]
    /\ invoice \in [Invoices -> InvoiceRow]
    /\ source \in [Sources -> NoteRow \cup QuotationRow \cup JobRequestRow]
    /\ file \in [Files -> FileRow]

Rest ==
    /\ RowsOK
    /\ ProjectLinks /\ InvoiceLinks /\ SourceLinks
    /\ Billed /\ FilesKept /\ IdsInOrder /\ Shown

(* What was checked is still so. *)
Checked ==
    /\ req \in [Threads -> Requests \cup {Idle}]
    /\ \A t \in Threads : req[t] # Idle => Allowed(req[t])

OrdersInv == Rest /\ Checked

----------------------------------------------------------------------------
(* Rows. *)
LEMMA SourceRows ==
    ASSUME NEW x \in NoteRow \cup QuotationRow \cup JobRequestRow
    PROVE  /\ x.kind \in {"note", "quotation", "job"}
           /\ x.place \in Places /\ x.back \in BOOLEAN
           /\ x.project \in Projects \cup {None} /\ x.invoice \in Invoices \cup {None}
           /\ x.kind = "note" <=> x \in NoteRow
           /\ x.kind = "quotation" <=> x \in QuotationRow
           /\ x.kind = "job" <=> x \in JobRequestRow
           /\ x.kind = "note" => x.project = None /\ x.status = "pending"
           /\ x.kind = "job" => x.invoice = None
           /\ x.status # "converted" => x.project = None /\ (x.kind # "note" => x.invoice = None)
  BY DEF NoteRow, QuotationRow, JobRequestRow

LEMMA JobLink ==
    ASSUME NEW x \in JobRequestRow, x.status = "converted", NEW j \in Projects \cup {None}
    PROVE  /\ [x EXCEPT !.project = j] \in JobRequestRow
           /\ [x EXCEPT !.project = j].project = j
           /\ [x EXCEPT !.project = j].kind = x.kind
           /\ [x EXCEPT !.project = j].place = x.place
           /\ [x EXCEPT !.project = j].status = x.status
           /\ [x EXCEPT !.project = j].invoice = x.invoice
           /\ [x EXCEPT !.project = j].back = x.back
  BY DEF JobRequestRow

LEMMA NothingIsNoId == None \notin Projects /\ None \notin Invoices /\ None \notin Sources
  BY OrdersAssumption

LEMMA OrdersStart == Init => OrdersInv
<1> SUFFICES ASSUME Init PROVE OrdersInv
  OBVIOUS
<1>1. RowsOK /\ req \in [Threads -> Requests \cup {Idle}]
  <2>1. project \in [Projects -> ProjectRow]
    BY DEF Init, NewProject, ProjectRow, Places
  <2>2. invoice \in [Invoices -> InvoiceRow]
    BY DEF Init, InvoiceRow, Places
  <2>3. source \in [Sources -> NoteRow \cup QuotationRow \cup JobRequestRow]
    BY OrdersAssumption DEF Init, NoteRow, QuotationRow, JobRequestRow, Places
  <2>4. file \in [Files -> FileRow] /\ req \in [Threads -> Requests \cup {Idle}]
    BY DEF Init, FileRow
  <2> QED
    BY <2>1, <2>2, <2>3, <2>4 DEF RowsOK
<1>2. /\ \A j \in Projects : project[j].place = "unborn" /\ project[j].waiting = {}
      /\ \A i \in Invoices : invoice[i].place = "unborn" /\ invoice[i].waiting = {}
      /\ \A s \in Sources : /\ source[s].project = None /\ source[s].invoice = None
                           /\ source[s].place = "unborn"
      /\ \A f \in Files : file[f].job = None
      /\ \A t \in Threads : req[t] = Idle
  BY DEF Init, NewProject
<1>3. ProjectLinks /\ InvoiceLinks /\ SourceLinks
  BY <1>2 DEF ProjectLinks, InvoiceLinks, SourceLinks, Born, Live
<1>4. Billed /\ FilesKept /\ IdsInOrder /\ Shown /\ Checked
  BY <1>1, <1>2 DEF Billed, FilesKept, IdsInOrder, Shown, Checked, Born, Live
<1> QED
  BY <1>1, <1>3, <1>4 DEF OrdersInv, Rest

----------------------------------------------------------------------------
(* Moves: what a step of one table may do, whichever step it is. *)

(* Projects come and are worked on; none is delivered as paid while an     *)
(* invoice of it is open and nothing excuses that.                         *)
LEMMA ProjectMoves ==
    ASSUME Rest, UNCHANGED <<invoice, source, file>>,
           project' \in [Projects -> ProjectRow],
           \A j \in Projects :
               /\ Born(project, j) => /\ project'[j].place = project[j].place
                                      /\ project'[j].billOnly = project[j].billOnly
               /\ ~Born(project, j) => ~project'[j].billOnly \/ ~Born(project', j)
               /\ project'[j].waiting \subseteq project[j].waiting
               /\ project'[j].delivered = "paid" =>
                      \/ project[j].delivered = "paid"
                      \/ \A i \in Invoices :
                             Live(invoice, i) /\ invoice[i].project = j
                             /\ invoice[i].status = "pending" => Excused(i)
    PROVE  Rest'
<1>1. RowsOK'
  BY DEF Rest, RowsOK
<1>2. ProjectLinks'
  BY DEF Rest, ProjectLinks, Born
<1>3. InvoiceLinks'
  BY DEF Rest, InvoiceLinks, Born, Live
<1>6. SourceLinks'
  BY SourceRows DEF Rest, RowsOK, SourceLinks, Born, Live
<1>4. Billed' /\ FilesKept' /\ IdsInOrder'
  BY DEF Rest, Billed, FilesKept, IdsInOrder, Born, Live
<1>5. Shown'
  BY DEF Rest, Shown, Excused, InvoiceLinks, IsLatest, Born, Live
<1> QED
  BY <1>1, <1>2, <1>3, <1>4, <1>5, <1>6 DEF Rest

(* Invoices keep their place and their links; one that is open afterwards  *)
(* was so before, or is the latest of a project not delivered as paid, or  *)
(* is marked.                                                              *)
LEMMA StatusMoves ==
    ASSUME Rest, UNCHANGED <<project, source, file>>,
           invoice' \in [Invoices -> InvoiceRow],
           \A i \in Invoices :
               /\ invoice'[i].place = invoice[i].place
               /\ invoice'[i].project = invoice[i].project
               /\ invoice'[i].waiting = invoice[i].waiting
               /\ invoice'[i].source = invoice[i].source
               /\ invoice'[i].back = invoice[i].back
               /\ invoice[i].late => invoice'[i].late
               /\ Live(invoice, i) /\ invoice'[i].status = "pending" =>
                      \/ invoice[i].status = "pending"
                      \/ invoice'[i].late
                      \/ /\ IsLatest(i, invoice[i].project)
                         /\ project[invoice[i].project].delivered # "paid"
    PROVE  Rest'
<1>1. RowsOK'
  BY DEF Rest, RowsOK
<1>2. ProjectLinks'
  BY DEF Rest, ProjectLinks, Born
<1>3. InvoiceLinks'
  BY DEF Rest, InvoiceLinks, Born, Live
<1>4. SourceLinks'
  BY NothingIsNoId, SourceRows DEF Rest, RowsOK, SourceLinks, Born, Live
<1>5. Billed' /\ FilesKept' /\ IdsInOrder'
  BY DEF Rest, Billed, FilesKept, IdsInOrder, Born, Live
<1>6. Shown'
  BY DEF Rest, Shown, Excused, IsLatest, Born, Live
<1> QED
  BY <1>1, <1>2, <1>3, <1>4, <1>5, <1>6 DEF Rest

(* Sources come, go to the bin and come back with links to what there is.  *)
LEMMA SourceMoves ==
    ASSUME Rest, UNCHANGED <<project, invoice, file>>,
           source' \in [Sources -> NoteRow \cup QuotationRow \cup JobRequestRow],
           \A s \in Sources :
               /\ source'[s].kind = source[s].kind
               /\ Born(source, s) => Born(source', s)
               /\ source[s].kind = "job" => /\ source'[s].place # "bin"
                                            /\ source'[s].status = "converted" <=>
                                               source[s].status = "converted"
               /\ ~Born(source', s) => source'[s].project = None /\ source'[s].invoice = None
               /\ \/ source'[s].project = None
                  \/ /\ source'[s].project = source[s].project
                     /\ Live(source', s) => Live(source, s) \/ Live(project, source[s].project)
               /\ \/ source'[s].invoice = None
                  \/ /\ source'[s].invoice = source[s].invoice
                     /\ Live(source', s) => Live(source, s) \/ Live(invoice, source[s].invoice)
               /\ source'[s].back \/ source[s].invoice = None
                  \/ source'[s].invoice = source[s].invoice
               /\ source[s].back => source'[s].back
    PROVE  Rest'
<1>1. RowsOK'
  BY DEF Rest, RowsOK
<1>2. ProjectLinks'
  BY DEF Rest, ProjectLinks, RowsOK, ProjectRow, Born
<1>3. InvoiceLinks'
  BY DEF Rest, InvoiceLinks, RowsOK, InvoiceRow, Born, Live
<1>4. SourceLinks'
  BY DEF Rest, SourceLinks, Born, Live
<1>5. Billed'
  BY NothingIsNoId DEF Rest, RowsOK, InvoiceRow, Billed, Live
<1>6. FilesKept'
  BY DEF Rest, RowsOK, FileRow, FilesKept
<1>7. IdsInOrder' /\ Shown'
  BY DEF Rest, IdsInOrder, Shown, Excused, IsLatest, Born, Live
<1> QED
  BY <1>1, <1>2, <1>3, <1>4, <1>5, <1>6, <1>7 DEF Rest

(* Uploads that are on a job request stay, and get a project with it.      *)
LEMMA FileMoves ==
    ASSUME Rest, UNCHANGED <<project, invoice, source>>,
           file' \in [Files -> FileRow],
           \A f \in Files : file'[f].job # None =>
               \/ /\ file[f].job = file'[f].job
                  /\ file'[f].bytes = file[f].bytes \/ file'[f].bytes \in {"uploads", "bin"}
                  /\ file'[f].project = file[f].project /\ file'[f].late = file[f].late
               \/ /\ source[file'[f].job].kind = "job"
                  /\ file'[f].bytes = "uploads"
                  /\ source[file'[f].job].status = "converted" => file'[f].late
    PROVE  Rest'
<1>1. RowsOK'
  BY DEF Rest, RowsOK
<1>2. ProjectLinks' /\ InvoiceLinks' /\ SourceLinks'
  BY DEF Rest, ProjectLinks, InvoiceLinks, SourceLinks, Born, Live
<1>3. Billed' /\ IdsInOrder' /\ Shown'
  BY DEF Rest, Billed, IdsInOrder, Shown, Excused, IsLatest, Born, Live
<1>4. FilesKept'
  BY DEF Rest, FilesKept
<1> QED
  BY <1>1, <1>2, <1>3, <1>4 DEF Rest

----------------------------------------------------------------------------
(* Steps that are one of these moves. *)

LEMMA ProjectEdits ==
    ASSUME NEW x \in ProjectRow, NEW b \in BOOLEAN, NEW d \in {"no", "paid", "credit"}
    PROVE  LET y == [x EXCEPT !.designed = b]
               z == [x EXCEPT !.printed = b]
               v == [x EXCEPT !.delivered = d]
           IN  /\ y \in ProjectRow /\ z \in ProjectRow /\ v \in ProjectRow
               /\ y.place = x.place /\ z.place = x.place /\ v.place = x.place
               /\ y.billOnly = x.billOnly /\ z.billOnly = x.billOnly /\ v.billOnly = x.billOnly
               /\ y.waiting = x.waiting /\ z.waiting = x.waiting /\ v.waiting = x.waiting
               /\ y.delivered = x.delivered /\ z.delivered = x.delivered
               /\ v.delivered = d
  BY DEF ProjectRow

LEMMA ProjectIsNew ==
    ASSUME NEW b \in BOOLEAN, NEW d \in BOOLEAN, NEW p \in BOOLEAN
    PROVE  LET x == NewProject(b, d, p)
           IN  /\ x \in ProjectRow /\ x.place = "live" /\ x.billOnly = b
               /\ x.delivered = "no" /\ x.waiting = {}
  BY DEF NewProject, ProjectRow, Places

LEMMA WorkIsAMove ==
    ASSUME Rest, NEW j \in Projects,
           \/ MarkDesigned(j) \/ MarkPrinted(j) \/ EditNotPrinted(j)
           \/ \E printed \in BOOLEAN : CreateProject(j, printed)
    PROVE  Rest'
<1>1. project \in [Projects -> ProjectRow]
  BY DEF Rest, RowsOK
<1>2. ASSUME NEW q \in ProjectRow, project' = [project EXCEPT ![j] = q],
             UNCHANGED <<invoice, source, file>>, q.waiting \subseteq project[j].waiting,
             Born(project, j) => q.place = project[j].place /\ q.billOnly = project[j].billOnly,
             ~Born(project, j) => ~q.billOnly,
             q.delivered \in {"no", project[j].delivered}
      PROVE  Rest'
  <2>1. /\ project' \in [Projects -> ProjectRow]
        /\ \A k \in Projects : project'[k] = IF k = j THEN q ELSE project[k]
    BY <1>1, <1>2
  <2> HIDE DEF Born
  <2>2. \A k \in Projects :
            /\ Born(project, k) => /\ project'[k].place = project[k].place
                                   /\ project'[k].billOnly = project[k].billOnly
            /\ ~Born(project, k) => ~project'[k].billOnly \/ ~Born(project', k)
            /\ project'[k].waiting \subseteq project[k].waiting
            /\ project'[k].delivered = "paid" => project[k].delivered = "paid"
    BY <1>2, <2>1 DEF Born
  <2> QED
    BY <1>2, <2>1, <2>2, ProjectMoves
<1>3. CASE MarkDesigned(j)
  <2> DEFINE q == [project[j] EXCEPT !.designed = TRUE]
  <2>1. /\ q \in ProjectRow /\ q.waiting = project[j].waiting /\ q.place = project[j].place
        /\ q.billOnly = project[j].billOnly /\ q.delivered = project[j].delivered
    BY <1>1, ProjectEdits
  <2>2. project' = [project EXCEPT ![j] = q] /\ UNCHANGED <<invoice, source, file>> /\ Born(project, j)
    BY <1>3 DEF MarkDesigned, Live, Born
  <2> HIDE DEF q
  <2> QED
    BY <2>1, <2>2, <1>2
<1>4. CASE MarkPrinted(j) \/ EditNotPrinted(j)
  <2>1. PICK b \in BOOLEAN : project' = [project EXCEPT ![j].printed = b]
    BY <1>4 DEF MarkPrinted, EditNotPrinted
  <2> DEFINE q == [project[j] EXCEPT !.printed = b]
  <2>a. project[j] \in ProjectRow
    BY <1>1
  <2>2. /\ q \in ProjectRow /\ q.waiting = project[j].waiting /\ q.place = project[j].place
        /\ q.billOnly = project[j].billOnly /\ q.delivered = project[j].delivered
    BY <2>a DEF ProjectRow
  <2>3. project' = [project EXCEPT ![j] = q] /\ UNCHANGED <<invoice, source, file>> /\ Born(project, j)
    BY <1>4, <2>1 DEF MarkPrinted, EditNotPrinted, Live, Born
  <2> HIDE DEF q
  <2> QED
    BY <2>2, <2>3, <1>2
<1>5. CASE \E printed \in BOOLEAN : CreateProject(j, printed)
  <2>1. PICK printed \in BOOLEAN : CreateProject(j, printed)
    BY <1>5
  <2> DEFINE q == NewProject(FALSE, FALSE, printed)
  <2>2. q \in ProjectRow /\ q.place = "live" /\ ~q.billOnly /\ q.delivered = "no" /\ q.waiting = {}
    BY ProjectIsNew
  <2> HIDE DEF q
  <2>3. project' = [project EXCEPT ![j] = q] /\ UNCHANGED <<invoice, source, file>> /\ ~Born(project, j)
    BY <2>1 DEF CreateProject, NextId, Born, q
  <2> QED
    BY <2>2, <2>3, <1>2
<1> QED
  BY <1>3, <1>4, <1>5

(* Delivered as paid: then the latest invoice is paid, and an open one     *)
(* that nothing excuses would be the latest.                               *)
LEMMA DeliveryIsAMove ==
    ASSUME Rest, NEW o \in Requests, o.op = "deliver", Allowed(o), WriteDelivery(o)
    PROVE  Rest'
<1>1. project \in [Projects -> ProjectRow]
  BY DEF Rest, RowsOK
<1>2. /\ o.project \in Projects /\ o.credit \in BOOLEAN
      /\ UNCHANGED <<invoice, source, file>>
  BY DEF Requests, WriteDelivery
<1>3. MayDeliver(o)
  BY DEF Allowed
<1> DEFINE j == o.project
           d == IF o.credit THEN "credit" ELSE "paid"
           q == [project[j] EXCEPT !.delivered = d]
<1>4. CASE o.repeated
  <2>1. project' = project
    BY <1>4 DEF WriteDelivery
  <2> QED
    BY <1>1, <1>2, <2>1, ProjectMoves
<1>5. CASE ~o.repeated
  <2>1. /\ q \in ProjectRow /\ q.waiting = project[j].waiting /\ q.place = project[j].place
        /\ q.billOnly = project[j].billOnly /\ q.delivered = d
    <3>1. project[j] \in ProjectRow /\ d \in {"no", "paid", "credit"}
      BY <1>1, <1>2
    <3> HIDE DEF d
    <3> QED
      BY <3>1, ProjectEdits
  <2>2. project' = [project EXCEPT ![j] = q] /\ Born(project, j)
    BY <1>5, <1>2 DEF WriteDelivery, Live, Born
  <2>3. ~o.credit => LatestIs(j, "paid")
    BY <1>3, <1>5 DEF MayDeliver
  <2>4. d = "paid" => ~o.credit
    OBVIOUS
  <2> HIDE DEF q, d
  <2>5. /\ project' \in [Projects -> ProjectRow]
        /\ \A k \in Projects : project'[k] = IF k = j THEN q ELSE project[k]
    BY <1>1, <1>2, <2>1, <2>2
  <2>6. ASSUME d = "paid", NEW i \in Invoices, Live(invoice, i), invoice[i].project = j,
               invoice[i].status = "pending"
        PROVE  Excused(i)
    <3>1. PICK k \in Invoices : IsLatest(k, j) /\ invoice[k].status = "paid"
      BY <2>3, <2>4, <2>6 DEF LatestIs
    <3>2. ~IsLatest(i, j)
      BY <3>1, <2>6, OrdersAssumption DEF IsLatest
    <3> QED
      BY <2>6, <3>2 DEF Rest, Shown
  <2>7. \A k \in Projects :
            /\ project'[k].place = project[k].place
            /\ project'[k].billOnly = project[k].billOnly
            /\ project'[k].waiting = project[k].waiting
    BY <2>1, <2>5
  <2>9. ASSUME NEW k \in Projects, project'[k].delivered = "paid"
        PROVE  \/ project[k].delivered = "paid"
               \/ \A i \in Invoices :
                      Live(invoice, i) /\ invoice[i].project = k
                      /\ invoice[i].status = "pending" => Excused(i)
    <3>1. CASE k # j
      BY <2>5, <2>9, <3>1
    <3>2. CASE k = j
      <4>1. d = "paid"
        BY <1>2, <2>1, <2>5, <2>9, <3>2
      <4> QED
        BY <2>6, <3>2, <4>1
    <3> QED
      BY <3>1, <3>2
  <2>8. \A k \in Projects : Born(project', k) <=> Born(project, k)
    BY <2>7 DEF Born
  <2> QED
    BY <1>2, <2>5, <2>7, <2>8, <2>9, ProjectMoves
<1> QED
  BY <1>2, <1>4, <1>5

LEMMA InvoiceStatus ==
    ASSUME NEW x \in InvoiceRow, NEW st \in {"pending", "paid", "cancelled"}
    PROVE  LET y == [x EXCEPT !.status = st]
           IN  /\ y \in InvoiceRow /\ y.place = x.place /\ y.project = x.project
               /\ y.waiting = x.waiting /\ y.source = x.source /\ y.back = x.back
               /\ y.status = st /\ y.late = x.late
  BY DEF InvoiceRow, Places

LEMMA MoneyIsAMove ==
    ASSUME Rest, NEW i \in Invoices, Pay(i) \/ Cancel(i) \/ Reopen(i)
    PROVE  Rest'
<1>1. invoice \in [Invoices -> InvoiceRow] /\ invoice[i] \in InvoiceRow
  BY DEF Rest, RowsOK
<1>2. ASSUME NEW q \in InvoiceRow, invoice' = [invoice EXCEPT ![i] = q],
             UNCHANGED <<project, source, file>>,
             q.place = invoice[i].place, q.project = invoice[i].project,
             q.waiting = invoice[i].waiting, q.source = invoice[i].source,
             q.back = invoice[i].back, invoice[i].late => q.late,
             \/ q.status # "pending"
             \/ q.late
             \/ /\ IsLatest(i, invoice[i].project)
                /\ project[invoice[i].project].delivered # "paid"
      PROVE  Rest'
  <2>1. /\ invoice' \in [Invoices -> InvoiceRow]
        /\ \A k \in Invoices : invoice'[k] = IF k = i THEN q ELSE invoice[k]
    BY <1>1, <1>2
  <2>2. \A k \in Invoices :
            /\ invoice'[k].place = invoice[k].place
            /\ invoice'[k].project = invoice[k].project
            /\ invoice'[k].waiting = invoice[k].waiting
            /\ invoice'[k].source = invoice[k].source
            /\ invoice'[k].back = invoice[k].back
            /\ invoice[k].late => invoice'[k].late
            /\ Live(invoice, k) /\ invoice'[k].status = "pending" =>
                   \/ invoice[k].status = "pending"
                   \/ invoice'[k].late
                   \/ /\ IsLatest(k, invoice[k].project)
                      /\ project[invoice[k].project].delivered # "paid"
    BY <1>2, <2>1
  <2> QED
    BY <1>2, <2>1, <2>2, StatusMoves
<1>3. CASE Pay(i) \/ Cancel(i)
  <2>1. PICK st \in {"paid", "cancelled"} : invoice' = [invoice EXCEPT ![i].status = st]
    BY <1>3 DEF Pay, Cancel
  <2>4. st \in {"pending", "paid", "cancelled"}
    BY <2>1
  <2> DEFINE q == [invoice[i] EXCEPT !.status = st]
  <2>2. /\ q \in InvoiceRow /\ q.place = invoice[i].place /\ q.project = invoice[i].project
        /\ q.waiting = invoice[i].waiting /\ q.source = invoice[i].source
        /\ q.back = invoice[i].back /\ q.late = invoice[i].late /\ q.status = st
    BY <1>1, <2>4, InvoiceStatus
  <2>3. invoice' = [invoice EXCEPT ![i] = q] /\ UNCHANGED <<project, source, file>>
    BY <1>3, <2>1 DEF Pay, Cancel
  <2> HIDE DEF q
  <2> QED
    BY <2>2, <2>3, <1>2
<1>4. CASE Reopen(i)
  <2> DEFINE j == invoice[i].project
             b == \/ invoice[i].late \/ ~IsLatest(i, j)
                  \/ project[j].delivered # "no"
             q == [invoice[i] EXCEPT !.status = "pending", !.late = b]
  <2>1. b \in BOOLEAN
    BY <1>1 DEF InvoiceRow, IsLatest
  <2>2. invoice' = [invoice EXCEPT ![i] = q] /\ UNCHANGED <<project, source, file>>
    BY <1>1, <1>4 DEF Reopen
  <2> HIDE DEF b
  <2>3. /\ q \in InvoiceRow /\ q.place = invoice[i].place /\ q.project = invoice[i].project
        /\ q.waiting = invoice[i].waiting /\ q.source = invoice[i].source
        /\ q.back = invoice[i].back /\ q.late = b /\ q.status = "pending"
    <3>1. invoice[i] \in InvoiceRow
      BY <1>1
    <3> QED
      BY <2>1, <3>1 DEF InvoiceRow, Places
  <2> HIDE DEF q
  <2>4. \/ q.late
        \/ IsLatest(i, j) /\ project[j].delivered # "paid"
    BY <2>3 DEF b
  <2>5. invoice[i].late => q.late
    BY <2>3 DEF b
  <2> QED
    BY <2>2, <2>3, <2>4, <2>5, <1>2
<1> QED
  BY <1>3, <1>4

(* A source row with another place, status or links is a source row. *)
LEMMA SourceEdits ==
    ASSUME NEW x \in NoteRow \cup QuotationRow \cup JobRequestRow,
           NEW p \in Places
    PROVE  LET y == [x EXCEPT !.place = p]
           IN  /\ y \in NoteRow \cup QuotationRow \cup JobRequestRow
               /\ y.kind = x.kind /\ y.place = p /\ y.status = x.status
               /\ y.project = x.project /\ y.invoice = x.invoice /\ y.back = x.back
<1>1. CASE x \in NoteRow
  BY <1>1 DEF NoteRow
<1>2. CASE x \in QuotationRow
  BY <1>2 DEF QuotationRow
<1>3. CASE x \in JobRequestRow
  BY <1>3 DEF JobRequestRow
<1> QED
  BY <1>1, <1>2, <1>3

(* Only one source changes. *)
LEMMA OneSourceMoves ==
    ASSUME Rest, NEW s \in Sources, UNCHANGED <<project, invoice, file>>,
           NEW q \in NoteRow \cup QuotationRow \cup JobRequestRow,
           source' = [source EXCEPT ![s] = q],
           q.kind = source[s].kind, q.place # "unborn",
           q.kind = "job" => /\ q.place # "bin"
                             /\ q.status = "converted" <=> source[s].status = "converted",
           \/ q.project = None
           \/ /\ q.project = source[s].project
              /\ q.place = "live" => Live(source, s) \/ Live(project, source[s].project),
           \/ q.invoice = None
           \/ /\ q.invoice = source[s].invoice
              /\ q.place = "live" => Live(source, s) \/ Live(invoice, source[s].invoice),
           q.back \/ source[s].invoice = None \/ q.invoice = source[s].invoice,
           source[s].back => q.back
    PROVE  Rest'
<1>1. /\ source' \in [Sources -> NoteRow \cup QuotationRow \cup JobRequestRow]
      /\ \A u \in Sources : source'[u] = IF u = s THEN q ELSE source[u]
  BY DEF Rest, RowsOK
<1>2. ASSUME NEW u \in Sources
      PROVE  /\ source'[u].kind = source[u].kind
             /\ Born(source, u) => Born(source', u)
             /\ source[u].kind = "job" => /\ source'[u].place # "bin"
                                          /\ source'[u].status = "converted" <=>
                                             source[u].status = "converted"
             /\ ~Born(source', u) => source'[u].project = None /\ source'[u].invoice = None
             /\ \/ source'[u].project = None
                \/ /\ source'[u].project = source[u].project
                   /\ Live(source', u) => Live(source, u) \/ Live(project, source[u].project)
             /\ \/ source'[u].invoice = None
                \/ /\ source'[u].invoice = source[u].invoice
                   /\ Live(source', u) => Live(source, u) \/ Live(invoice, source[u].invoice)
             /\ source'[u].back \/ source[u].invoice = None
                \/ source'[u].invoice = source[u].invoice
             /\ source[u].back => source'[u].back
  <2>1. CASE u = s
    BY <1>1, <2>1 DEF Born, Live
  <2>2. CASE u # s
    BY <1>1, <2>2 DEF Rest, SourceLinks, Born, Live
  <2> QED
    BY <2>1, <2>2
<1> QED
  BY <1>1, <1>2, SourceMoves

LEMMA CreatedIsAMove ==
    ASSUME Rest, NEW s \in Sources,
           CreateNote(s) \/ CreateQuotation(s) \/ CreateJobRequest(s)
    PROVE  Rest'
<1> DEFINE q == [source[s] EXCEPT !.place = "live"]
<1>1. source \in [Sources -> NoteRow \cup QuotationRow \cup JobRequestRow]
  BY DEF Rest, RowsOK
<1>2. /\ source' = [source EXCEPT ![s] = q] /\ UNCHANGED <<project, invoice, file>>
      /\ source[s].place = "unborn"
  BY <1>1 DEF CreateNote, CreateQuotation, CreateJobRequest, Created
<1>3. "live" \in Places
  BY DEF Places
<1>4. /\ q \in NoteRow \cup QuotationRow \cup JobRequestRow
      /\ q.kind = source[s].kind /\ q.place = "live" /\ q.status = source[s].status
      /\ q.project = source[s].project /\ q.invoice = source[s].invoice
      /\ q.back = source[s].back
  BY <1>1, <1>3, SourceEdits
<1> HIDE DEF q
<1>5. source[s].project = None /\ source[s].invoice = None
  BY <1>2 DEF Rest, SourceLinks, Born
<1> QED
  BY <1>2, <1>4, <1>5, OneSourceMoves

LEMMA DeletedSourceIsAMove ==
    ASSUME Rest, NEW s \in Sources, DeleteNote(s) \/ DeleteQuotation(s)
    PROVE  Rest'
<1> DEFINE q == [source[s] EXCEPT !.place = "bin"]
<1>1. source \in [Sources -> NoteRow \cup QuotationRow \cup JobRequestRow]
  BY DEF Rest, RowsOK
<1>2. /\ source' = [source EXCEPT ![s] = q] /\ UNCHANGED <<project, invoice, file>>
      /\ source[s].kind # "job" /\ Live(source, s)
  BY <1>1 DEF DeleteNote, DeleteQuotation, DeleteSource
<1>3. "bin" \in Places
  BY DEF Places
<1>4. /\ q \in NoteRow \cup QuotationRow \cup JobRequestRow
      /\ q.kind = source[s].kind /\ q.place = "bin" /\ q.status = source[s].status
      /\ q.project = source[s].project /\ q.invoice = source[s].invoice
      /\ q.back = source[s].back
  BY <1>1, <1>3, SourceEdits
<1> HIDE DEF q
<1> QED
  BY <1>2, <1>4, OneSourceMoves

LEMMA RestoredSourceIsAMove ==
    ASSUME Rest, NEW s \in Sources, RestoreSource(s)
    PROVE  Rest'
<1> DEFINE x == source[s]
           j == IF x.project # None /\ Live(project, x.project) THEN x.project ELSE None
           i == IF x.invoice # None /\ Live(invoice, x.invoice) THEN x.invoice ELSE None
           q == [x EXCEPT !.place = "live", !.back = TRUE, !.project = j, !.invoice = i]
<1>1. /\ source \in [Sources -> NoteRow \cup QuotationRow \cup JobRequestRow]
      /\ x \in NoteRow \cup QuotationRow \cup JobRequestRow
  BY DEF Rest, RowsOK
<1>2. /\ source' = [source EXCEPT ![s] = q] /\ UNCHANGED <<project, invoice, file>>
      /\ x.place = "bin"
  BY <1>1 DEF RestoreSource
<1>3. x.kind # "job"
  BY <1>2 DEF Rest, SourceLinks
<1>4. x \in NoteRow \cup QuotationRow
  BY <1>1, <1>3 DEF JobRequestRow
<1>5. j \in {None, x.project} /\ i \in {None, x.invoice}
  OBVIOUS
<1>6. /\ j # None => Live(project, x.project)
      /\ i # None => Live(invoice, x.invoice)
  OBVIOUS
<1>7. /\ q \in NoteRow \cup QuotationRow
      /\ q.kind = x.kind /\ q.place = "live" /\ q.project = j /\ q.invoice = i /\ q.back
  <2> HIDE DEF i, j
  <2>1. CASE x \in NoteRow
    BY <1>5, <2>1 DEF NoteRow, Places
  <2>2. CASE x \in QuotationRow
    BY <1>5, <2>2 DEF QuotationRow, Places
  <2> QED
    BY <1>4, <2>1, <2>2
<1> HIDE DEF q, i, j
<1> QED
  BY <1>2, <1>3, <1>5, <1>6, <1>7, OneSourceMoves

(* A quotation is answered, or a job request rejected.                     *)
LEMMA StatusIsAMove ==
    ASSUME Rest, NEW o \in Requests, Allowed(o),
           \/ o.op = "answer" /\ WriteStatus(o, o.status)
           \/ o.op = "reject" /\ WriteStatus(o, "rejected")
    PROVE  Rest'
<1> DEFINE x == source[o.source]
<1>1. /\ o.source \in Sources
      /\ o.op = "answer" => o.status \in {"accepted", "rejected"}
  BY DEF Requests
<1>2. PICK st \in {"accepted", "rejected"} :
          WriteStatus(o, st) /\ (o.op = "reject" => st = "rejected")
  BY <1>1
<1> DEFINE q == [x EXCEPT !.status = st]
<1>3. /\ source \in [Sources -> NoteRow \cup QuotationRow \cup JobRequestRow]
      /\ x \in NoteRow \cup QuotationRow \cup JobRequestRow
  BY <1>1 DEF Rest, RowsOK
<1>4. /\ source' = [source EXCEPT ![o.source] = q] /\ UNCHANGED <<project, invoice, file>>
      /\ x.place = "live"
  BY <1>2, <1>3 DEF WriteStatus, Live
<1>5. /\ x.status = "pending"
      /\ \/ x.kind = "quotation"
         \/ x.kind = "job" /\ st = "rejected"
  BY <1>2 DEF Allowed, MayAnswer, MayReview
<1>6. /\ q \in NoteRow \cup QuotationRow \cup JobRequestRow
      /\ q.kind = x.kind /\ q.place = "live" /\ q.status = st
      /\ q.project = x.project /\ q.invoice = x.invoice /\ q.back = x.back
  <2>1. CASE x.kind = "quotation"
    <3>1. x \in QuotationRow
      BY <1>3, <2>1 DEF NoteRow, JobRequestRow
    <3>2. st \in {"accepted", "rejected"}
      BY <1>2
    <3> QED
      BY <1>4, <1>5, <3>1, <3>2 DEF QuotationRow
  <2>2. CASE x.kind = "job" /\ st = "rejected"
    <3>1. x \in JobRequestRow
      BY <1>3, <2>2 DEF NoteRow, QuotationRow
    <3> QED
      BY <1>4, <1>5, <2>2, <3>1 DEF JobRequestRow
  <2> QED
    BY <1>5, <2>1, <2>2
<1> HIDE DEF q
<1>7. st # "converted"
  BY <1>2
<1> QED
  BY <1>1, <1>4, <1>5, <1>6, <1>7, OneSourceMoves DEF Live

(* Only what is on no job request is dropped or attached.                  *)
LEMMA FileIsAMove ==
    ASSUME Rest,
           \/ \E f \in Files : Upload(f)
           \/ \E o \in Requests : /\ Allowed(o)
                                   /\ \/ o.op = "attach" /\ WriteAttachment(o)
                                      \/ o.op = "drop" /\ WriteDrop(o)
    PROVE  Rest'
<1>1. file \in [Files -> FileRow]
  BY DEF Rest, RowsOK
<1>2. ASSUME NEW f \in Files, NEW q \in FileRow, file' = [file EXCEPT ![f] = q],
             UNCHANGED <<project, invoice, source>>,
             q.job # None =>
                 \/ /\ q.job = file[f].job /\ q.bytes \in {"uploads", "bin"}
                    /\ q.project = file[f].project /\ q.late = file[f].late
                 \/ /\ source[q.job].kind = "job" /\ q.bytes = "uploads"
                    /\ source[q.job].status = "converted" => q.late
      PROVE  Rest'
  <2>1. /\ file' \in [Files -> FileRow]
        /\ \A g \in Files : file'[g] = IF g = f THEN q ELSE file[g]
    BY <1>1, <1>2
  <2>2. \A g \in Files : file'[g].job # None =>
            \/ /\ file[g].job = file'[g].job
               /\ file'[g].bytes = file[g].bytes \/ file'[g].bytes \in {"uploads", "bin"}
               /\ file'[g].project = file[g].project /\ file'[g].late = file[g].late
            \/ /\ source[file'[g].job].kind = "job"
               /\ file'[g].bytes = "uploads"
               /\ source[file'[g].job].status = "converted" => file'[g].late
    BY <1>2, <2>1
  <2> QED
    BY <1>2, <2>1, <2>2, FileMoves
<1>3. ASSUME NEW f \in Files, Upload(f)
      PROVE  Rest'
  <2> DEFINE q == [file[f] EXCEPT !.bytes = "uploads"]
  <2>1. file' = [file EXCEPT ![f] = q] /\ UNCHANGED <<project, invoice, source>>
    BY <1>3 DEF Upload
  <2>2. /\ q \in FileRow /\ q.bytes = "uploads" /\ q.job = file[f].job
        /\ q.project = file[f].project /\ q.late = file[f].late
    BY <1>1 DEF FileRow
  <2> HIDE DEF q
  <2> QED
    BY <1>2, <2>1, <2>2
<1>4. ASSUME NEW o \in Requests, Allowed(o), o.op = "attach", WriteAttachment(o)
      PROVE  Rest'
  <2>1. o.file \in Files /\ o.source \in Sources
    BY <1>4 DEF Requests
  <2> DEFINE f == o.file
             b == source[o.source].status # "pending"
             q == [file[f] EXCEPT !.job = o.source, !.late = b]
  <2>2. file' = [file EXCEPT ![f] = q] /\ UNCHANGED <<project, invoice, source>>
    BY <1>4 DEF WriteAttachment
  <2>3. b \in BOOLEAN /\ (~b => source[o.source].status = "pending")
    OBVIOUS
  <2>4. source[o.source].kind = "job" /\ file[f].bytes = "uploads"
    BY <1>4 DEF Allowed, MayAttach, Unattached
  <2> HIDE DEF b
  <2>5. /\ q \in FileRow /\ q.bytes = file[f].bytes /\ q.job = o.source
        /\ q.project = file[f].project /\ q.late = b
    <3>1. file[f] \in FileRow /\ o.source \in Sources
      BY <1>1, <2>1
    <3>2. b \in BOOLEAN
      BY <2>3
    <3> QED
      BY <3>1, <3>2 DEF FileRow
  <2> HIDE DEF q, f
  <2>6. f \in Files
    BY <2>1 DEF f
  <2>7. /\ source[q.job].kind = "job" /\ q.bytes = "uploads"
        /\ source[q.job].status = "converted" => q.late
    BY <2>3, <2>4, <2>5
  <2> QED
    BY <1>2, <2>2, <2>5, <2>6, <2>7
<1>5. ASSUME NEW o \in Requests, Allowed(o), o.op = "drop", WriteDrop(o)
      PROVE  Rest'
  <2>1. o.file \in Files
    BY <1>5 DEF Requests
  <2> DEFINE f == o.file
             q == [file[f] EXCEPT !.bytes = "gone"]
  <2>2. file' = [file EXCEPT ![f] = q] /\ UNCHANGED <<project, invoice, source>>
    BY <1>5 DEF WriteDrop
  <2>3. file[f].job = None
    BY <1>5 DEF Allowed, MayDrop, Unattached
  <2>4. q \in FileRow /\ q.job = file[f].job
    BY <1>1, <2>1 DEF FileRow
  <2> HIDE DEF q, f
  <2>5. f \in Files
    BY <2>1 DEF f
  <2> QED
    BY <1>2, <2>2, <2>3, <2>4, <2>5
<1> QED
  BY <1>3, <1>4, <1>5

----------------------------------------------------------------------------
(* Steps that make an invoice.                                             *)

(* A new invoice has the greatest id there is, and nothing names it yet.   *)
LEMMA NewInvoiceId ==
    ASSUME Rest, NEW i \in Invoices, NextId(invoice, i)
    PROVE  /\ ~Born(invoice, i) /\ i \in Nat
           /\ \A k \in Invoices : k \in Nat /\ (Born(invoice, k) => k < i)
           /\ \A k \in Invoices : k < i => Born(invoice, k)
           /\ \A s \in Sources : source[s].invoice # i
<1>1. invoice \in [Invoices -> InvoiceRow] /\ i \in Nat /\ \A k \in Invoices : k \in Nat
  BY OrdersAssumption DEF Rest, RowsOK
<1>2. ~Born(invoice, i) /\ \A k \in Invoices : k < i => Born(invoice, k)
  BY <1>1 DEF NextId, Born
<1>3. ASSUME NEW k \in Invoices, Born(invoice, k) PROVE k < i
  <2>1. ~(i < k)
    BY <1>2, <1>3 DEF Rest, IdsInOrder
  <2>2. k # i
    BY <1>2, <1>3
  <2> QED
    BY <1>1, <2>1, <2>2
<1>4. \A s \in Sources : source[s].invoice # i
  BY <1>2, NothingIsNoId DEF Rest, SourceLinks
<1> QED
  BY <1>1, <1>2, <1>3, <1>4

(* The project of a new invoice is there already, with no open invoice     *)
(* that nothing excuses, or it is made with the invoice.                   *)
HomeOf(j, q, p) ==
    \/ /\ Live(project, j) /\ project' = project
       /\ project[j].delivered = "no" \/ q.late
       /\ \A k \in Invoices : Live(invoice, k) /\ invoice[k].project = j
                              /\ invoice[k].status = "pending" => Excused(k)
    \/ /\ ~Born(project, j) /\ project' = [project EXCEPT ![j] = p]
       /\ p.place = "live" /\ p.delivered = "no" /\ p.waiting = {}

(* The source it is made of had no invoice and names this one now.         *)
Names(s, x, i, j) ==
    IF s = None THEN source' = source
    ELSE /\ Live(source, s) /\ source[s].invoice = None
         /\ source' = [source EXCEPT ![s] = x]
         /\ x.kind = source[s].kind /\ x.kind # "job"
         /\ x.place = source[s].place /\ x.back = source[s].back
         /\ x.invoice = i /\ x.project \in {None, j}

LEMMA NewInvoiceMoves ==
    ASSUME Rest, NEW i \in Invoices, NEW j \in Projects, NEW s \in Sources \cup {None},
           NextId(invoice, i), UNCHANGED file,
           NEW q \in InvoiceRow, invoice' = [invoice EXCEPT ![i] = q],
           q.place = "live", q.project = j, q.source = s, q.waiting = {}, ~q.back,
           NEW p \in ProjectRow,
           HomeOf(j, q, p),
           NEW x \in NoteRow \cup QuotationRow \cup JobRequestRow,
           Names(s, x, i, j)
    PROVE  Rest'
<1>1. /\ project \in [Projects -> ProjectRow] /\ invoice \in [Invoices -> InvoiceRow]
      /\ source \in [Sources -> NoteRow \cup QuotationRow \cup JobRequestRow]
  BY DEF Rest, RowsOK
<1>2. /\ ~Born(invoice, i) /\ i \in Nat
      /\ \A k \in Invoices : k \in Nat /\ (Born(invoice, k) => k < i)
      /\ \A k \in Invoices : k < i => Born(invoice, k)
      /\ \A u \in Sources : source[u].invoice # i
  BY NewInvoiceId
<1>3. /\ invoice' \in [Invoices -> InvoiceRow]
      /\ invoice'[i] = q
      /\ \A k \in Invoices : k # i => invoice'[k] = invoice[k]
  BY <1>1
<1>4. /\ project' \in [Projects -> ProjectRow] /\ project'[j].place = "live"
      /\ \A k \in Projects : k # j => project'[k] = project[k]
      /\ \A k \in Projects : Born(project, k) => project'[k] = project[k]
      /\ ~Born(project, j) => project'[j] = p /\ p.waiting = {} /\ p.delivered = "no"
      /\ Born(project, j) => project[j].place = "live"
  <2>1. CASE Live(project, j) /\ project' = project
    BY <1>1, <2>1 DEF Live, Born
  <2>2. CASE /\ ~Born(project, j) /\ project' = [project EXCEPT ![j] = p]
             /\ p.place = "live" /\ p.delivered = "no" /\ p.waiting = {}
    BY <1>1, <2>2 DEF Live, Born
  <2> QED
    BY <2>1, <2>2 DEF HomeOf
<1>5. /\ source' \in [Sources -> NoteRow \cup QuotationRow \cup JobRequestRow]
      /\ \A u \in Sources : u # s => source'[u] = source[u]
      /\ \A u \in Sources : u = s => /\ source[u].place = "live" /\ source[u].invoice = None
                                     /\ source'[u] = x /\ x.kind = source[u].kind
                                     /\ x.kind # "job" /\ x.place = source[u].place
                                     /\ x.back = source[u].back /\ x.invoice = i
                                     /\ x.project \in {None, j}
  BY <1>1, NothingIsNoId DEF Live, Names
<1>6. RowsOK'
  BY <1>3, <1>4, <1>5 DEF Rest, RowsOK
<1>7. ProjectLinks'
  <2>1. ASSUME NEW k \in Projects, Born(project', k), project'[k].billOnly
        PROVE  \E h \in Invoices : Born(invoice', h) /\ invoice'[h].project = k
    <3>1. CASE k = j
      BY <1>3, <3>1 DEF Born
    <3>2. CASE k # j
      <4>1. PICK h \in Invoices : Born(invoice, h) /\ invoice[h].project = k
        BY <1>4, <2>1, <3>2 DEF Rest, ProjectLinks, Born
      <4> QED
        BY <1>2, <1>3, <4>1 DEF Born
    <3> QED
      BY <3>1, <3>2
  <2>2. ASSUME NEW k \in Projects, NEW u \in project'[k].waiting
        PROVE  source'[u].kind = "job" /\ source'[u].status = "converted" /\ Born(source', u)
    <3>1. u \in project[k].waiting
      BY <1>4, <2>2
    <3>2. u \in Sources
      BY <1>1, <3>1 DEF ProjectRow
    <3>3. source[u].kind = "job" /\ source[u].status = "converted" /\ Born(source, u)
      BY <3>1 DEF Rest, ProjectLinks
    <3> QED
      BY <1>5, <3>2, <3>3 DEF Born
  <2> QED
    BY <2>1, <2>2 DEF ProjectLinks
<1>8. InvoiceLinks'
  <2> SUFFICES ASSUME NEW k \in Invoices
               PROVE  /\ Born(invoice', k) => /\ invoice'[k].project \in Projects
                                              /\ Born(project', invoice'[k].project)
                      /\ Live(invoice', k) => Live(project', invoice'[k].project)
                      /\ \A u \in invoice'[k].waiting : source'[u].kind = "note"
    BY DEF InvoiceLinks, Born, Live
  <2>1. CASE k = i
    BY <1>3, <1>4, <2>1 DEF Born, Live
  <2>2. CASE k # i
    <3>1. invoice'[k] = invoice[k]
      BY <1>3, <2>2
    <3>2. /\ Born(invoice, k) => invoice[k].project \in Projects /\ Born(project, invoice[k].project)
          /\ Live(invoice, k) => Live(project, invoice[k].project)
          /\ \A u \in invoice[k].waiting : source[u].kind = "note"
      BY DEF Rest, InvoiceLinks
    <3>3. \A u \in invoice[k].waiting : u \in Sources
      BY <1>1 DEF InvoiceRow
    <3>4. \A u \in Sources : source'[u].kind = source[u].kind
      BY <1>5
    <3>5. Live(invoice, k) => Born(invoice, k)
      BY DEF Live, Born
    <3> QED
      BY <1>4, <3>1, <3>2, <3>3, <3>4, <3>5 DEF Born, Live
  <2> QED
    BY <2>1, <2>2
<1>9. SourceLinks'
  <2> SUFFICES ASSUME NEW u \in Sources
               PROVE  /\ ~Born(source', u) => source'[u].project = None /\ source'[u].invoice = None
                      /\ source'[u].kind = "job" => source'[u].place # "bin"
                      /\ source'[u].project # None =>
                            /\ Born(project', source'[u].project)
                            /\ Live(source', u) => Live(project', source'[u].project)
                      /\ source'[u].invoice # None =>
                            /\ Born(invoice', source'[u].invoice)
                            /\ Live(source', u) => Live(invoice', source'[u].invoice)
                      /\ source'[u].project # None /\ source'[u].invoice # None
                         => invoice'[source'[u].invoice].project = source'[u].project
    BY DEF SourceLinks, Born, Live
  <2>1. CASE u = s
    BY <1>3, <1>4, <1>5, <2>1, NothingIsNoId DEF Born, Live
  <2>2. CASE u # s
    <3>1. source'[u] = source[u]
      BY <1>5, <2>2
    <3>2. /\ source[u].project # None => source[u].project \in Projects
          /\ source[u].invoice # None => source[u].invoice \in Invoices
      BY <1>1, SourceRows
    <3> QED
      BY <1>2, <1>3, <1>4, <3>1, <3>2 DEF Rest, SourceLinks, Born, Live
  <2> QED
    BY <2>1, <2>2
<1>10. Billed'
  <2> SUFFICES ASSUME NEW k \in Invoices, Live(invoice', k), ~invoice'[k].back,
                      invoice'[k].source # None, ~source'[invoice'[k].source].back
               PROVE  source'[invoice'[k].source].invoice = k
    BY DEF Billed, Live
  <2>1. CASE k = i
    BY <1>3, <1>5, <2>1
  <2>2. CASE k # i
    <3> DEFINE u == invoice[k].source
    <3>1. invoice'[k] = invoice[k] /\ Live(invoice, k) /\ u \in Sources
      BY <1>1, <1>3, <2>2 DEF InvoiceRow, Live
    <3>2. source'[u].back = source[u].back
      BY <1>5, <3>1
    <3>3. source[u].invoice = k
      BY <3>1, <3>2 DEF Rest, Billed
    <3>4. u # s
      BY <1>5, <3>1, <3>3, NothingIsNoId
    <3> QED
      BY <1>5, <3>1, <3>3, <3>4
  <2> QED
    BY <2>1, <2>2
<1>11. FilesKept'
  <2>1. \A u \in Sources : source[u].kind = "job" => source'[u] = source[u]
    BY <1>5
  <2>2. \A f \in Files : file[f].job # None => file[f].job \in Sources
    BY DEF Rest, RowsOK, FileRow
  <2> QED
    BY <2>1, <2>2 DEF Rest, FilesKept
<1>12. IdsInOrder'
  BY <1>2, <1>3 DEF Rest, IdsInOrder, Born
<1>13. Shown'
  <2> SUFFICES ASSUME NEW k \in Invoices, Live(invoice', k), invoice'[k].status = "pending",
                      ~Excused(k)'
               PROVE  /\ IsLatest(k, invoice[k].project)'
                      /\ project'[invoice'[k].project].delivered # "paid"
    BY DEF Shown, Live
  <2>1. CASE k = i
    <3>1. ~q.late
      BY <1>3, <2>1 DEF Excused
    <3>2. project'[j].delivered = "no"
      BY <1>4, <3>1 DEF HomeOf, Live, Born
    <3>3. \A h \in Invoices : Live(invoice', h) => h <= i
      BY <1>2, <1>3 DEF Live, Born
    <3> QED
      BY <1>3, <2>1, <3>2, <3>3 DEF IsLatest
  <2>2. CASE k # i
    <3>1. invoice'[k] = invoice[k] /\ Live(invoice, k) /\ Born(invoice, k)
      BY <1>3, <2>2 DEF Live, Born
    <3>2. ~Excused(k)
      BY <1>2, <1>3, <3>1 DEF Excused, Born
    <3>3. /\ IsLatest(k, invoice[k].project)
          /\ project[invoice[k].project].delivered # "paid"
      BY <2>2, <3>1, <3>2 DEF Rest, Shown
    <3>4. invoice[k].project \in Projects /\ Born(project, invoice[k].project)
      BY <3>1 DEF Rest, InvoiceLinks
    <3>5. invoice[k].project # j
      BY <3>1, <3>2, <3>4, <2>2 DEF HomeOf
    <3>6. IsLatest(k, invoice[k].project)'
      BY <1>3, <3>1, <3>3, <3>5 DEF IsLatest, Live
    <3> QED
      BY <1>4, <3>1, <3>3, <3>4, <3>6
  <2> QED
    BY <2>1, <2>2
<1> QED
  BY <1>6, <1>7, <1>8, <1>9, <1>10, <1>11, <1>12, <1>13 DEF Rest

LEMMA InvoiceIsNew ==
    ASSUME NEW j \in Projects, NEW s \in Sources \cup {None}
    PROVE  LET q == NewInvoice(j, s)
           IN  /\ q \in InvoiceRow /\ q.place = "live" /\ q.project = j /\ q.source = s
               /\ q.waiting = {} /\ ~q.back
               /\ q.late \/ project[j].delivered = "no"
  BY DEF NewInvoice, InvoiceRow, Places

(* The check that the latest invoice of the project is not open leaves     *)
(* only excused ones.                                                      *)
LEMMA BillingKeepsRest ==
    ASSUME Rest, NEW o \in Requests, o.op = "bill", Allowed(o), WriteInvoice(o)
    PROVE  Rest'
<1> DEFINE s == o.source
           p == NewProject(TRUE, TRUE, FALSE)
<1>1. /\ s \in Sources \cup {None}
      /\ MayBill(o)
  BY DEF Requests, Allowed
<1>2. PICK i \in Invoices, j \in Projects :
          /\ NextId(invoice, i)
          /\ \/ /\ o.project = None /\ NextId(project, j)
                /\ project' = [project EXCEPT ![j] = p]
             \/ o.project = j /\ Live(project, j) /\ project' = project
          /\ invoice' = [invoice EXCEPT ![i] = NewInvoice(j, s)]
          /\ s # None => Live(source, s)
          /\ source' = IF s = None THEN source ELSE [source EXCEPT ![s].invoice = i]
          /\ UNCHANGED file
  BY DEF WriteInvoice
<1> DEFINE q == NewInvoice(j, s)
           blank == [kind |-> "note", place |-> "live", status |-> "pending",
                     project |-> None, invoice |-> None, back |-> FALSE]
           x == IF s = None THEN blank ELSE [source[s] EXCEPT !.invoice = i]
<1>3. /\ p \in ProjectRow /\ p.place = "live" /\ p.delivered = "no" /\ p.waiting = {}
  BY ProjectIsNew
<1>4. /\ q \in InvoiceRow /\ q.place = "live" /\ q.project = j /\ q.source = s
      /\ q.waiting = {} /\ ~q.back /\ (q.late \/ project[j].delivered = "no")
  BY <1>1, InvoiceIsNew
<1>5. s # None =>
          /\ s \in Sources /\ source[s].kind = "note" /\ source[s].invoice = None
          /\ source[s] \in NoteRow
  <2>1. s # None => /\ s \in Sources /\ source[s].kind = "note" /\ source[s].invoice = None
    BY <1>1 DEF MayBill
  <2>2. s # None => source[s] \in NoteRow
    BY <2>1 DEF Rest, RowsOK, QuotationRow, JobRequestRow
  <2> QED
    BY <2>1, <2>2
<1>6. /\ x \in NoteRow \cup QuotationRow \cup JobRequestRow
      /\ s # None => /\ x.kind = source[s].kind /\ x.kind # "job" /\ x.place = source[s].place
                     /\ x.back = source[s].back /\ x.invoice = i /\ x.project \in {None, j}
  <2>1. CASE s = None
    BY <2>1 DEF NoteRow, Places
  <2>2. CASE s # None
    BY <1>2, <1>5, <2>2 DEF NoteRow
  <2> QED
    BY <2>1, <2>2
<1>7. s # None => source' = [source EXCEPT ![s] = x]
  BY <1>2
<1>8. ASSUME Live(project, j), o.project = j, NEW k \in Invoices, Live(invoice, k),
             invoice[k].project = j, invoice[k].status = "pending"
      PROVE  Excused(k)
  <2>1. ~LatestIs(j, "pending")
    BY <1>1, <1>8, NothingIsNoId DEF MayBill
  <2>2. ~IsLatest(k, j)
    BY <1>8, <2>1 DEF LatestIs
  <2> QED
    BY <1>8, <2>2 DEF Rest, Shown
<1>9. HomeOf(j, q, p)
  <2> USE DEF HomeOf
  <2> HIDE DEF p, q
  <2>1. CASE o.project = j /\ Live(project, j) /\ project' = project
    BY <1>4, <1>8, <2>1
  <2>2. CASE NextId(project, j) /\ project' = [project EXCEPT ![j] = p]
    BY <1>3, <2>2 DEF NextId, Born
  <2> QED
    BY <1>2, <2>1, <2>2
<1>10. Names(s, x, i, j)
  <2> HIDE DEF x
  <2> QED
    BY <1>2, <1>5, <1>6, <1>7 DEF Names
<1>11. invoice' = [invoice EXCEPT ![i] = q] /\ NextId(invoice, i) /\ UNCHANGED file
  BY <1>2
<1>12. s \in Sources \cup {None}
  BY <1>1
<1> HIDE DEF p, q, x, s
<1> QED
  BY <1>3, <1>4, <1>6, <1>9, <1>10, <1>11, <1>12, NewInvoiceMoves

(* Only an accepted quotation is converted, and that has no invoice yet.   *)
LEMMA ConversionKeepsRest ==
    ASSUME Rest, NEW o \in Requests, o.op = "convert", Allowed(o), WriteConversion(o)
    PROVE  Rest'
<1> DEFINE s == o.source
           p == NewProject(FALSE, TRUE, FALSE)
<1>1. s \in Sources /\ MayConvertQuotation(o)
  BY DEF Requests, Allowed
<1>2. PICK i \in Invoices, j \in Projects :
          /\ Live(source, s) /\ NextId(invoice, i) /\ NextId(project, j)
          /\ project' = [project EXCEPT ![j] = p]
          /\ invoice' = [invoice EXCEPT ![i] = NewInvoice(j, s)]
          /\ source' = [source EXCEPT ![s].status = "converted", ![s].project = j,
                                      ![s].invoice = i]
          /\ UNCHANGED file
  BY DEF WriteConversion
<1> DEFINE q == NewInvoice(j, s)
           x == [source[s] EXCEPT !.status = "converted", !.project = j, !.invoice = i]
<1>3. /\ p \in ProjectRow /\ p.place = "live" /\ p.delivered = "no" /\ p.waiting = {}
  BY ProjectIsNew
<1>4. /\ q \in InvoiceRow /\ q.place = "live" /\ q.project = j /\ q.source = s
      /\ q.waiting = {} /\ ~q.back
  BY <1>1, InvoiceIsNew
<1>5. /\ source[s] \in QuotationRow /\ source[s].status = "accepted"
      /\ source \in [Sources -> NoteRow \cup QuotationRow \cup JobRequestRow]
  BY <1>1 DEF MayConvertQuotation, Rest, RowsOK, NoteRow, JobRequestRow
<1>6. /\ source[s].invoice = None
      /\ x \in QuotationRow
      /\ x.kind = source[s].kind /\ x.kind # "job" /\ x.place = source[s].place
      /\ x.back = source[s].back /\ x.invoice = i /\ x.project = j
  BY <1>2, <1>5 DEF QuotationRow
<1>7. source' = [source EXCEPT ![s] = x]
  BY <1>1, <1>2, <1>5
<1>8. ~Born(project, j)
  BY <1>2 DEF NextId, Born
<1>9. s # None
  BY <1>1, NothingIsNoId
<1> HIDE DEF p, q, x, s
<1>10. /\ invoice' = [invoice EXCEPT ![i] = q] /\ NextId(invoice, i) /\ UNCHANGED file
       /\ Live(source, s) /\ project' = [project EXCEPT ![j] = p]
  BY <1>2 DEF q
<1>11. /\ s \in Sources \cup {None}
       /\ x \in NoteRow \cup QuotationRow \cup JobRequestRow
  BY <1>1, <1>6
<1>12. HomeOf(j, q, p)
  BY <1>3, <1>8, <1>10 DEF HomeOf
<1>13. Names(s, x, i, j)
  BY <1>6, <1>7, <1>9, <1>10 DEF Names
<1> QED
  BY <1>3, <1>4, <1>10, <1>11, <1>12, <1>13, NewInvoiceMoves

----------------------------------------------------------------------------
(* Steps that move a project and the job requests and files that go along. *)

LEMMA JobMoves ==
    ASSUME Rest, invoice' = invoice, RowsOK', FilesKept',
           \A k \in Projects :
               /\ Born(project, k) => /\ Born(project', k)
                                      /\ project'[k].billOnly = project[k].billOnly
                                      /\ project'[k].delivered = project[k].delivered
               /\ ~Born(project, k) => ~project'[k].billOnly \/ ~Born(project', k)
               /\ \A u \in project'[k].waiting :
                      /\ source'[u].kind = "job" /\ source'[u].status = "converted"
                      /\ Born(source', u),
           \A i \in Invoices : Live(invoice, i) => Live(project', invoice[i].project),
           \A u \in Sources :
               /\ source'[u].kind = source[u].kind /\ source'[u].place = source[u].place
               /\ source'[u].back = source[u].back /\ source'[u].invoice = source[u].invoice
               /\ source'[u].project = source[u].project \/ source[u].kind = "job"
               /\ source'[u].project # None =>
                      /\ Born(source, u) /\ Born(project', source'[u].project)
                      /\ Live(source, u) => Live(project', source'[u].project)
    PROVE  Rest'
<1>1. /\ project \in [Projects -> ProjectRow] /\ invoice \in [Invoices -> InvoiceRow]
      /\ source \in [Sources -> NoteRow \cup QuotationRow \cup JobRequestRow]
  BY DEF Rest, RowsOK
<1>2. ProjectLinks'
  BY DEF Rest, ProjectLinks, Born
<1>3. InvoiceLinks'
  <2>1. \A i \in Invoices : invoice[i].waiting \subseteq Sources
    BY <1>1 DEF InvoiceRow
  <2> QED
    BY <2>1 DEF Rest, InvoiceLinks, Born, Live
<1>4. SourceLinks'
  <2> SUFFICES ASSUME NEW u \in Sources
               PROVE  /\ ~Born(source', u) => source'[u].project = None /\ source'[u].invoice = None
                      /\ source'[u].kind = "job" => source'[u].place # "bin"
                      /\ source'[u].project # None =>
                            /\ Born(project', source'[u].project)
                            /\ Live(source', u) => Live(project', source'[u].project)
                      /\ source'[u].invoice # None =>
                            /\ Born(invoice', source'[u].invoice)
                            /\ Live(source', u) => Live(invoice', source'[u].invoice)
                      /\ source'[u].project # None /\ source'[u].invoice # None
                         => invoice'[source'[u].invoice].project = source'[u].project
    BY DEF SourceLinks, Born, Live
  <2>1. source[u].kind = "job" => source[u].invoice = None
    BY <1>1, SourceRows
  <2> QED
    BY <2>1 DEF Rest, SourceLinks, Born, Live
<1>5. Billed'
  <2>1. \A i \in Invoices : invoice[i].source # None => invoice[i].source \in Sources
    BY <1>1 DEF InvoiceRow
  <2> QED
    BY <2>1 DEF Rest, Billed, Live
<1>6. IdsInOrder'
  BY DEF Rest, IdsInOrder, Born
<1>7. Shown'
  BY DEF Rest, Shown, InvoiceLinks, Excused, IsLatest, Born, Live
<1> QED
  BY <1>2, <1>3, <1>4, <1>5, <1>6, <1>7 DEF Rest

LEMMA ProjectPlaced ==
    ASSUME NEW x \in ProjectRow, NEW w \in SUBSET Sources, NEW pl \in {"live", "bin"}
    PROVE  LET y == [x EXCEPT !.place = pl, !.waiting = w]
           IN  /\ y \in ProjectRow /\ y.place = pl /\ y.waiting = w
               /\ y.billOnly = x.billOnly /\ y.delivered = x.delivered
  BY DEF ProjectRow, Places

(* What a project takes along to the bin was converted into it.            *)
LEMMA DeletedProjectKeepsRest ==
    ASSUME Rest, NEW j \in Projects, DeleteProject(j)
    PROVE  Rest'
<1> DEFINE made == {u \in Sources : source[u].kind = "job" /\ source[u].project = j}
           q == [project[j] EXCEPT !.place = "bin", !.waiting = made]
<1>1. /\ project \in [Projects -> ProjectRow] /\ invoice \in [Invoices -> InvoiceRow]
      /\ source \in [Sources -> NoteRow \cup QuotationRow \cup JobRequestRow]
      /\ file \in [Files -> FileRow]
  BY DEF Rest, RowsOK
<1>2. /\ Live(project, j) /\ ~ProjectInUse(j) /\ invoice' = invoice
      /\ project' = [project EXCEPT ![j] = q]
      /\ source' = [u \in Sources |-> IF u \in made
                        THEN [source[u] EXCEPT !.project = None] ELSE source[u]]
      /\ file' = [f \in Files |-> IF file[f].project = j /\ file[f].bytes = "uploads"
                      THEN [file[f] EXCEPT !.bytes = "bin"] ELSE file[f]]
  BY <1>1 DEF DeleteProject
<1>3. /\ q \in ProjectRow /\ q.place = "bin" /\ q.waiting = made
      /\ q.billOnly = project[j].billOnly /\ q.delivered = project[j].delivered
  <2>1. made \in SUBSET Sources /\ project[j] \in ProjectRow
    BY <1>1
  <2> HIDE DEF made
  <2>2. "bin" \in {"live", "bin"}
    OBVIOUS
  <2> QED
    BY <2>1, <2>2, ProjectPlaced
<1>4. \A u \in made :
          /\ u \in Sources /\ source[u].kind = "job" /\ source[u].status = "converted"
          /\ source[u] \in JobRequestRow /\ source[u].project = j /\ Born(source, u)
  <2> SUFFICES ASSUME NEW u \in Sources, source[u].kind = "job", source[u].project = j
               PROVE  /\ source[u].status = "converted" /\ source[u] \in JobRequestRow
                      /\ Born(source, u)
    OBVIOUS
  <2>1. source[u] \in NoteRow \cup QuotationRow \cup JobRequestRow /\ source[u].project # None
    BY <1>1, NothingIsNoId
  <2> QED
    BY <2>1, SourceRows DEF Rest, SourceLinks
<1>5. \A u \in Sources :
          /\ u \in made => /\ source'[u] \in JobRequestRow /\ source'[u].project = None
                           /\ source'[u].kind = "job" /\ source'[u].status = "converted"
                           /\ source'[u].place = source[u].place
                           /\ source'[u].invoice = source[u].invoice
                           /\ source'[u].back = source[u].back
          /\ u \notin made => source'[u] = source[u]
  <2> HIDE DEF made
  <2> TAKE u \in Sources
  <2>1. CASE u \in made
    <3>1. source'[u] = [source[u] EXCEPT !.project = None]
      BY <1>2, <2>1
    <3>2. source[u] \in JobRequestRow /\ source[u].status = "converted" /\ source[u].kind = "job"
      BY <1>4, <2>1
    <3>3. None \in Projects \cup {None}
      OBVIOUS
    <3> QED
      BY <2>1, <3>1, <3>2, <3>3, JobLink
  <2>2. CASE u \notin made
    BY <1>2, <2>2
  <2> QED
    BY <2>1, <2>2
<1>6. \A f \in Files :
          /\ file'[f] \in FileRow /\ file'[f].job = file[f].job
          /\ file'[f].project = file[f].project /\ file'[f].late = file[f].late
          /\ file'[f].bytes \in {file[f].bytes, "bin"}
  <2> TAKE f \in Files
  <2>1. CASE file[f].project = j /\ file[f].bytes = "uploads"
    BY <1>1, <1>2, <2>1 DEF FileRow
  <2>2. CASE ~(file[f].project = j /\ file[f].bytes = "uploads")
    BY <1>1, <1>2, <2>2
  <2> QED
    BY <2>1, <2>2
<1> HIDE DEF q
<1>7. /\ project' \in [Projects -> ProjectRow]
      /\ \A k \in Projects : project'[k] = IF k = j THEN q ELSE project[k]
  BY <1>1, <1>2, <1>3
<1>8. RowsOK'
  <2>1. source' \in [Sources -> NoteRow \cup QuotationRow \cup JobRequestRow]
    BY <1>1, <1>2, <1>5
  <2>2. file' \in [Files -> FileRow]
    BY <1>2, <1>6
  <2> QED
    BY <1>1, <1>2, <1>7, <2>1, <2>2 DEF RowsOK
<1>9. FilesKept'
  <2>1. \A u \in Sources : source'[u].kind = source[u].kind /\ source'[u].status = source[u].status
    BY <1>4, <1>5
  <2>2. \A f \in Files : file[f].job # None => file[f].job \in Sources
    BY <1>1 DEF FileRow
  <2> QED
    BY <1>6, <2>1, <2>2 DEF Rest, FilesKept
<1>10. \A k \in Projects :
           /\ Born(project, k) => /\ Born(project', k)
                                  /\ project'[k].billOnly = project[k].billOnly
                                  /\ project'[k].delivered = project[k].delivered
           /\ ~Born(project, k) => ~Born(project', k)
           /\ k # j => (Live(project, k) => Live(project', k))
  BY <1>2, <1>3, <1>7 DEF Born, Live
<1>11. \A k \in Projects : \A u \in project'[k].waiting :
           /\ source'[u].kind = "job" /\ source'[u].status = "converted" /\ Born(source', u)
  <2> TAKE k \in Projects
  <2> TAKE u \in project'[k].waiting
  <2>1. u \in Sources /\ source[u].kind = "job" /\ source[u].status = "converted" /\ Born(source, u)
    <3>1. CASE k = j
      BY <1>3, <1>4, <1>7, <3>1
    <3>2. CASE k # j
      BY <1>1, <1>7, <3>2 DEF Rest, ProjectLinks, ProjectRow
    <3> QED
      BY <3>1, <3>2
  <2> QED
    BY <1>5, <2>1 DEF Born
<1>12. \A i \in Invoices : Live(invoice, i) => Live(project', invoice[i].project)
  <2>1. \A i \in Invoices : Live(invoice, i) =>
            /\ invoice[i].project \in Projects /\ invoice[i].project # j
            /\ Live(project, invoice[i].project)
    BY <1>2 DEF Rest, InvoiceLinks, ProjectInUse, Live, Born
  <2> QED
    BY <1>10, <2>1
<1>13. \A u \in Sources :
           /\ source'[u].kind = source[u].kind /\ source'[u].place = source[u].place
           /\ source'[u].back = source[u].back /\ source'[u].invoice = source[u].invoice
           /\ source'[u].project = source[u].project \/ source[u].kind = "job"
           /\ source'[u].project # None =>
                  /\ Born(source, u) /\ Born(project', source'[u].project)
                  /\ Live(source, u) => Live(project', source'[u].project)
  <2> TAKE u \in Sources
  <2>1. CASE u \in made
    BY <1>4, <1>5, <2>1
  <2>2. CASE u \notin made
    <3>1. source'[u] = source[u]
      BY <1>5, <2>2
    <3>2. source[u].project # None => /\ source[u].project \in Projects /\ Born(source, u)
                                     /\ source[u].kind \in {"quotation", "job"}
      BY <1>1, SourceRows DEF Rest, SourceLinks
    <3>3. source[u].project # None =>
              /\ Born(project, source[u].project)
              /\ Live(source, u) => Live(project, source[u].project)
      BY DEF Rest, SourceLinks
    <3>4. source[u].project # None /\ Live(source, u) => source[u].project # j
      BY <1>2, <2>2, <3>2 DEF ProjectInUse
    <3> QED
      BY <1>10, <3>1, <3>2, <3>3, <3>4
  <2> QED
    BY <2>1, <2>2
<1> QED
  BY <1>2, <1>8, <1>9, <1>10, <1>11, <1>12, <1>13, JobMoves

(* What the bin item has waiting was converted too.                        *)
LEMMA RestoredProjectKeepsRest ==
    ASSUME Rest, NEW j \in Projects, RestoreProject(j)
    PROVE  Rest'
<1> DEFINE linked(u) == u \in project[j].waiting /\ source[u].project = None
           none == {}
           q == [project[j] EXCEPT !.place = "live", !.waiting = none]
<1>1. /\ project \in [Projects -> ProjectRow] /\ invoice \in [Invoices -> InvoiceRow]
      /\ source \in [Sources -> NoteRow \cup QuotationRow \cup JobRequestRow]
      /\ file \in [Files -> FileRow]
  BY DEF Rest, RowsOK
<1>2. /\ project[j].place = "bin" /\ invoice' = invoice
      /\ project' = [project EXCEPT ![j] = q]
      /\ source' = [u \in Sources |-> IF linked(u)
                        THEN [source[u] EXCEPT !.project = j] ELSE source[u]]
      /\ file' = [f \in Files |-> IF file[f].project = j /\ file[f].bytes = "bin"
                      THEN [file[f] EXCEPT !.bytes = "uploads"] ELSE file[f]]
  BY <1>1 DEF RestoreProject
<1>3. /\ q \in ProjectRow /\ q.place = "live" /\ q.waiting = {}
      /\ q.billOnly = project[j].billOnly /\ q.delivered = project[j].delivered
  <2>1. none \in SUBSET Sources /\ project[j] \in ProjectRow
    BY <1>1
  <2>2. none = {}
    OBVIOUS
  <2>3. "live" \in {"live", "bin"}
    OBVIOUS
  <2> HIDE DEF none
  <2>4. /\ q \in ProjectRow /\ q.place = "live" /\ q.waiting = none
        /\ q.billOnly = project[j].billOnly /\ q.delivered = project[j].delivered
    BY <2>1, <2>3, ProjectPlaced
  <2> HIDE DEF q
  <2> QED
    BY <2>2, <2>4
<1>4. \A k \in Projects : \A u \in project[k].waiting :
          /\ u \in Sources /\ source[u].kind = "job" /\ source[u].status = "converted"
          /\ Born(source, u)
  BY <1>1 DEF Rest, ProjectLinks, ProjectRow
<1>5. \A u \in Sources :
          /\ linked(u) => /\ source'[u] \in JobRequestRow /\ source'[u].project = j
                          /\ source'[u].kind = "job" /\ source[u].kind = "job"
                          /\ source'[u].status = "converted" /\ source[u].status = "converted"
                          /\ source'[u].place = source[u].place /\ Born(source, u)
                          /\ source'[u].invoice = source[u].invoice
                          /\ source'[u].back = source[u].back
          /\ ~linked(u) => source'[u] = source[u]
  <2> TAKE u \in Sources
  <2>1. CASE linked(u)
    <3>1. source'[u] = [source[u] EXCEPT !.project = j]
      BY <1>2, <2>1
    <3>2. source[u].status = "converted" /\ source[u].kind = "job" /\ Born(source, u)
      BY <1>4, <2>1
    <3>3. source[u] \in NoteRow \cup QuotationRow \cup JobRequestRow
      BY <1>1
    <3>4. source[u] \in JobRequestRow
      BY <3>2, <3>3, SourceRows
    <3>5. j \in Projects \cup {None}
      OBVIOUS
    <3> QED
      BY <2>1, <3>1, <3>2, <3>4, <3>5, JobLink
  <2>2. CASE ~linked(u)
    BY <1>2, <2>2
  <2> QED
    BY <2>1, <2>2
<1>6. \A f \in Files :
          /\ file'[f] \in FileRow /\ file'[f].job = file[f].job
          /\ file'[f].project = file[f].project /\ file'[f].late = file[f].late
          /\ file'[f].bytes \in {file[f].bytes, "uploads"}
  <2> TAKE f \in Files
  <2>1. CASE file[f].project = j /\ file[f].bytes = "bin"
    BY <1>1, <1>2, <2>1 DEF FileRow
  <2>2. CASE ~(file[f].project = j /\ file[f].bytes = "bin")
    BY <1>1, <1>2, <2>2
  <2> QED
    BY <2>1, <2>2
<1> HIDE DEF q
<1>7. /\ project' \in [Projects -> ProjectRow]
      /\ \A k \in Projects : project'[k] = IF k = j THEN q ELSE project[k]
  BY <1>1, <1>2, <1>3
<1>8. RowsOK'
  <2>1. source' \in [Sources -> NoteRow \cup QuotationRow \cup JobRequestRow]
    BY <1>1, <1>2, <1>5
  <2>2. file' \in [Files -> FileRow]
    BY <1>2, <1>6
  <2> QED
    BY <1>1, <1>2, <1>7, <2>1, <2>2 DEF RowsOK
<1> HIDE DEF linked
<1>9. FilesKept'
  <2>1. \A u \in Sources : source'[u].kind = source[u].kind /\ source'[u].status = source[u].status
    BY <1>5
  <2>2. \A f \in Files : file[f].job # None => file[f].job \in Sources
    BY <1>1 DEF FileRow
  <2> QED
    BY <1>6, <2>1, <2>2 DEF Rest, FilesKept
<1>10. \A k \in Projects :
           /\ Born(project, k) => /\ Born(project', k)
                                  /\ project'[k].billOnly = project[k].billOnly
                                  /\ project'[k].delivered = project[k].delivered
           /\ ~Born(project, k) => ~Born(project', k)
           /\ Live(project, k) => Live(project', k)
  BY <1>2, <1>3, <1>7 DEF Born, Live
<1>11. \A k \in Projects : \A u \in project'[k].waiting :
           /\ source'[u].kind = "job" /\ source'[u].status = "converted" /\ Born(source', u)
  <2> TAKE k \in Projects
  <2> TAKE u \in project'[k].waiting
  <2>1. u \in Sources /\ source[u].kind = "job" /\ source[u].status = "converted" /\ Born(source, u)
    BY <1>3, <1>4, <1>7
  <2> QED
    BY <1>5, <2>1 DEF Born
<1>12. \A i \in Invoices : Live(invoice, i) => Live(project', invoice[i].project)
  BY <1>10 DEF Rest, InvoiceLinks, Live, Born
<1>13. \A u \in Sources :
           /\ source'[u].kind = source[u].kind /\ source'[u].place = source[u].place
           /\ source'[u].back = source[u].back /\ source'[u].invoice = source[u].invoice
           /\ source'[u].project = source[u].project \/ source[u].kind = "job"
           /\ source'[u].project # None =>
                  /\ Born(source, u) /\ Born(project', source'[u].project)
                  /\ Live(source, u) => Live(project', source'[u].project)
  <2> TAKE u \in Sources
  <2>1. CASE linked(u)
    <3>1. Born(project', j) /\ Live(project', j)
      BY <1>3, <1>7 DEF Born, Live
    <3> QED
      BY <1>5, <2>1, <3>1
  <2>2. CASE ~linked(u)
    <3>1. source'[u] = source[u]
      BY <1>5, <2>2
    <3>2. source[u].project # None => source[u].project \in Projects /\ Born(source, u)
      BY <1>1, SourceRows DEF Rest, SourceLinks
    <3>3. source[u].project # None =>
              /\ Born(project, source[u].project)
              /\ Live(source, u) => Live(project, source[u].project)
      BY DEF Rest, SourceLinks
    <3> QED
      BY <1>10, <3>1, <3>2, <3>3
  <2> QED
    BY <2>1, <2>2
<1> QED
  BY <1>2, <1>8, <1>9, <1>10, <1>11, <1>12, <1>13, JobMoves

(* A job request's files are on the project from the moment it is one.     *)
LEMMA JobProjectKeepsRest ==
    ASSUME Rest, NEW o \in Requests, o.op = "review", Allowed(o), WriteJobProject(o)
    PROVE  Rest'
<1> DEFINE s == o.source
           q == NewProject(FALSE, FALSE, FALSE)
<1>1. /\ project \in [Projects -> ProjectRow] /\ invoice \in [Invoices -> InvoiceRow]
      /\ source \in [Sources -> NoteRow \cup QuotationRow \cup JobRequestRow]
      /\ file \in [Files -> FileRow]
  BY DEF Rest, RowsOK
<1>2. s \in Sources /\ source[s].kind = "job" /\ source[s].status = "pending"
  BY DEF Requests, Allowed, MayReview
<1>3. PICK j \in Projects :
          /\ Live(source, s) /\ NextId(project, j) /\ invoice' = invoice
          /\ project' = [project EXCEPT ![j] = q]
          /\ file' = [f \in Files |-> IF f \in FilesOf(s)
                                     THEN [file[f] EXCEPT !.project = j] ELSE file[f]]
          /\ source' = [source EXCEPT ![s].status = "converted", ![s].project = j]
  BY DEF WriteJobProject
<1> DEFINE x == [source[s] EXCEPT !.status = "converted", !.project = j]
<1>4. q \in ProjectRow /\ q.place = "live" /\ ~q.billOnly /\ q.waiting = {}
  BY ProjectIsNew
<1>5. ~Born(project, j)
  BY <1>3 DEF NextId, Born
<1>6. source[s] \in JobRequestRow
  BY <1>1, <1>2 DEF NoteRow, QuotationRow
<1>7. /\ x \in JobRequestRow /\ x.kind = "job" /\ x.status = "converted" /\ x.project = j
      /\ x.place = source[s].place /\ x.back = source[s].back /\ x.invoice = source[s].invoice
  BY <1>6 DEF JobRequestRow
<1>8. /\ source' \in [Sources -> NoteRow \cup QuotationRow \cup JobRequestRow]
      /\ source'[s] = x
      /\ \A u \in Sources : u # s => source'[u] = source[u]
  <2>1. source' = [source EXCEPT ![s] = x]
    BY <1>1, <1>2, <1>3
  <2>2. x \in NoteRow \cup QuotationRow \cup JobRequestRow
    BY <1>7
  <2> HIDE DEF x
  <2> QED
    BY <1>1, <1>2, <2>1, <2>2
<1> HIDE DEF q, x
<1>9. /\ project' \in [Projects -> ProjectRow]
      /\ \A k \in Projects : project'[k] = IF k = j THEN q ELSE project[k]
  BY <1>1, <1>3, <1>4 DEF q
<1>10. \A f \in Files :
           /\ file'[f] \in FileRow /\ file'[f].job = file[f].job
           /\ file'[f].bytes = file[f].bytes /\ file'[f].late = file[f].late
           /\ file'[f].project = IF file[f].job = s THEN j ELSE file[f].project
  <2> TAKE f \in Files
  <2>1. CASE file[f].job = s
    <3>1. file'[f] = [file[f] EXCEPT !.project = j]
      BY <1>3, <2>1 DEF FilesOf
    <3>2. file[f] \in FileRow
      BY <1>1
    <3> QED
      BY <2>1, <3>1, <3>2 DEF FileRow
  <2>2. CASE file[f].job # s
    <3>1. file'[f] = file[f]
      BY <1>3, <2>2 DEF FilesOf
    <3> QED
      BY <1>1, <2>2, <3>1
  <2> QED
    BY <2>1, <2>2
<1>11. RowsOK'
  <2>1. file' \in [Files -> FileRow]
    BY <1>3, <1>10
  <2> QED
    BY <1>1, <1>3, <1>8, <1>9, <2>1 DEF RowsOK
<1>12. FilesKept'
  <2> SUFFICES ASSUME NEW f \in Files, file'[f].job # None
               PROVE  /\ source'[file'[f].job].kind = "job"
                      /\ file'[f].bytes \in {"uploads", "bin"}
                      /\ source'[file'[f].job].status = "converted" =>
                             file'[f].late \/ file'[f].project # None
    BY DEF FilesKept
  <2>1. CASE file[f].job = s
    <3>1. file'[f].project # None
      BY <1>10, <2>1, NothingIsNoId
    <3> QED
      BY <1>7, <1>8, <1>10, <2>1, <3>1 DEF Rest, FilesKept
  <2>2. CASE file[f].job # s
    <3>1. file[f].job \in Sources
      BY <1>1, <1>10 DEF FileRow
    <3> QED
      BY <1>8, <1>10, <2>2, <3>1 DEF Rest, FilesKept
  <2> QED
    BY <2>1, <2>2
<1>13. \A k \in Projects :
           /\ Born(project, k) => /\ k # j /\ Born(project', k)
                                  /\ project'[k].billOnly = project[k].billOnly
                                  /\ project'[k].delivered = project[k].delivered
           /\ ~Born(project, k) => ~project'[k].billOnly \/ ~Born(project', k)
           /\ Live(project, k) => Live(project', k)
  BY <1>4, <1>5, <1>9 DEF Born, Live
<1>14. \A k \in Projects : \A u \in project'[k].waiting :
           /\ source'[u].kind = "job" /\ source'[u].status = "converted" /\ Born(source', u)
  <2> TAKE k \in Projects
  <2> TAKE u \in project'[k].waiting
  <2>1. u \in Sources /\ source[u].kind = "job" /\ source[u].status = "converted" /\ Born(source, u)
    BY <1>1, <1>4, <1>9 DEF Rest, ProjectLinks, ProjectRow
  <2> QED
    BY <1>2, <1>8, <2>1 DEF Born
<1>15. \A i \in Invoices : Live(invoice, i) => Live(project', invoice[i].project)
  BY <1>13 DEF Rest, InvoiceLinks, Live, Born
<1>16. \A u \in Sources :
           /\ source'[u].kind = source[u].kind /\ source'[u].place = source[u].place
           /\ source'[u].back = source[u].back /\ source'[u].invoice = source[u].invoice
           /\ source'[u].project = source[u].project \/ source[u].kind = "job"
           /\ source'[u].project # None =>
                  /\ Born(source, u) /\ Born(project', source'[u].project)
                  /\ Live(source, u) => Live(project', source'[u].project)
  <2> TAKE u \in Sources
  <2>1. CASE u = s
    <3>1. Born(project', j) /\ Live(project', j) /\ Born(source, s)
      BY <1>3, <1>4, <1>9 DEF Born, Live
    <3> QED
      BY <1>2, <1>7, <1>8, <2>1, <3>1
  <2>2. CASE u # s
    <3>1. source'[u] = source[u]
      BY <1>8, <2>2
    <3>2. source[u].project # None => source[u].project \in Projects /\ Born(source, u)
      BY <1>1, SourceRows DEF Rest, SourceLinks
    <3>3. source[u].project # None =>
              /\ Born(project, source[u].project)
              /\ Live(source, u) => Live(project, source[u].project)
      BY DEF Rest, SourceLinks
    <3> QED
      BY <1>13, <3>1, <3>2, <3>3
  <2> QED
    BY <2>1, <2>2
<1> QED
  BY <1>3, <1>11, <1>12, <1>13, <1>14, <1>15, <1>16, JobMoves

----------------------------------------------------------------------------
(* Steps that move an invoice to the bin and back with its notes' links. *)

LEMMA NoteMoves ==
    ASSUME Rest, UNCHANGED <<project, file>>, RowsOK',
           \A k \in Invoices :
               /\ Born(invoice', k) <=> Born(invoice, k)
               /\ invoice'[k].project = invoice[k].project
               /\ invoice'[k].status = invoice[k].status
               /\ invoice'[k].source = invoice[k].source
               /\ invoice'[k].late = invoice[k].late
               /\ invoice[k].back => invoice'[k].back
               /\ \A u \in invoice'[k].waiting : source'[u].kind = "note"
               /\ Live(invoice', k) /\ ~Live(invoice, k) =>
                      Live(project, invoice[k].project) /\ invoice'[k].back,
           \A u \in Sources :
               /\ source'[u].kind = source[u].kind /\ source'[u].place = source[u].place
               /\ source'[u].status = source[u].status /\ source'[u].back = source[u].back
               /\ source'[u].project = source[u].project
               /\ \/ source'[u].invoice = source[u].invoice
                  \/ /\ source[u].kind = "note"
                     /\ \/ source[u].invoice = None
                        \/ ~Live(invoice', source[u].invoice)
               /\ source'[u].invoice # None =>
                      /\ Born(source, u) /\ Born(invoice, source'[u].invoice)
                      /\ Live(source, u) => Live(invoice', source'[u].invoice)
    PROVE  Rest'
<1>1. /\ project \in [Projects -> ProjectRow] /\ invoice \in [Invoices -> InvoiceRow]
      /\ source \in [Sources -> NoteRow \cup QuotationRow \cup JobRequestRow]
      /\ file \in [Files -> FileRow]
      /\ source' \in [Sources -> NoteRow \cup QuotationRow \cup JobRequestRow]
      /\ \A k \in Invoices : k \in Nat
  BY OrdersAssumption DEF Rest, RowsOK
<1>2. ProjectLinks'
  <2>1. \A k \in Projects : \A u \in project[k].waiting : u \in Sources
    BY <1>1 DEF ProjectRow
  <2>2. \A u \in Sources : Born(source', u) <=> Born(source, u)
    BY DEF Born
  <2>3. \A k \in Projects : Born(project', k) <=> Born(project, k)
    BY DEF Born
  <2> QED
    BY <2>1, <2>2, <2>3 DEF Rest, ProjectLinks, Born
<1>3. InvoiceLinks'
  <2>1. \A k \in Invoices :
            /\ Born(invoice', k) => invoice'[k].project \in Projects /\ Born(project', invoice'[k].project)
            /\ \A u \in invoice'[k].waiting : source'[u].kind = "note"
    BY DEF Rest, InvoiceLinks, Born
  <2>2. \A k \in Invoices : Live(invoice', k) => Live(project, invoice[k].project)
    BY DEF Rest, InvoiceLinks
  <2>3. \A k \in Invoices : Live(invoice', k) => Live(project', invoice'[k].project)
    BY <2>2 DEF Live
  <2> QED
    BY <2>1, <2>3 DEF InvoiceLinks, Born, Live
<1>4. SourceLinks'
  <2> SUFFICES ASSUME NEW u \in Sources
               PROVE  /\ ~Born(source', u) => source'[u].project = None /\ source'[u].invoice = None
                      /\ source'[u].kind = "job" => source'[u].place # "bin"
                      /\ source'[u].project # None =>
                            /\ Born(project', source'[u].project)
                            /\ Live(source', u) => Live(project', source'[u].project)
                      /\ source'[u].invoice # None =>
                            /\ Born(invoice', source'[u].invoice)
                            /\ Live(source', u) => Live(invoice', source'[u].invoice)
                      /\ source'[u].project # None /\ source'[u].invoice # None
                         => invoice'[source'[u].invoice].project = source'[u].project
    BY DEF SourceLinks, Born, Live
  <2>1. source'[u].invoice # None => source'[u].invoice \in Invoices
    BY <1>1, SourceRows
  <2>2. source[u].kind = "note" => source[u].project = None
    BY <1>1, SourceRows
  <2>3. /\ source'[u].invoice # None =>
             /\ Born(invoice', source'[u].invoice)
             /\ Live(source', u) => Live(invoice', source'[u].invoice)
    BY <2>1 DEF Live
  <2>4. /\ ~Born(source', u) => source'[u].project = None /\ source'[u].invoice = None
        /\ source'[u].kind = "job" => source'[u].place # "bin"
        /\ source'[u].project # None =>
              /\ Born(project', source'[u].project)
              /\ Live(source', u) => Live(project', source'[u].project)
    BY DEF Rest, SourceLinks, Born, Live
  <2>5. source'[u].project # None /\ source'[u].invoice # None
        => invoice'[source'[u].invoice].project = source'[u].project
    BY <2>1, <2>2 DEF Rest, SourceLinks
  <2> QED
    BY <2>3, <2>4, <2>5
<1>5. Billed'
  <2> SUFFICES ASSUME NEW k \in Invoices, Live(invoice', k), ~invoice'[k].back,
                      invoice'[k].source # None, ~source'[invoice'[k].source].back
               PROVE  source'[invoice'[k].source].invoice = k
    BY DEF Billed, Live
  <2> DEFINE u == invoice[k].source
  <2>1. u \in Sources /\ invoice'[k].source = u
    BY <1>1 DEF InvoiceRow
  <2>2. source[u].invoice = k
    BY <2>1 DEF Rest, Billed
  <2> QED
    BY <2>1, <2>2, NothingIsNoId
<1>6. FilesKept'
  <2>1. \A f \in Files : file[f].job # None => file[f].job \in Sources
    BY <1>1 DEF FileRow
  <2> QED
    BY <2>1 DEF Rest, FilesKept
<1>7. IdsInOrder'
  BY DEF Rest, IdsInOrder, Born
<1>8. Shown'
  <2> SUFFICES ASSUME NEW k \in Invoices, Live(invoice', k), invoice'[k].status = "pending",
                      ~Excused(k)'
               PROVE  /\ IsLatest(k, invoice[k].project)'
                      /\ project[invoice[k].project].delivered # "paid"
    BY DEF Shown, Live, IsLatest
  <2>1. ~invoice[k].late
    BY DEF Excused
  <2>2. \A h \in Invoices : Born(invoice, h) /\ invoice[h].project = invoice[k].project /\ h >= k
                           => ~invoice'[h].back
    BY DEF Excused, Born
  <2>3. Born(invoice, k) /\ \A h \in Invoices : Live(invoice', h) => Born(invoice, h)
    BY DEF Born, Live
  <2>4. Live(invoice, k) /\ ~Excused(k)
    <3>1. ~invoice'[k].back
      BY <1>1, <2>2, <2>3
    <3>2. Live(invoice, k)
      BY <3>1
    <3> QED
      BY <2>1, <2>2, <3>2 DEF Excused
  <2>5. IsLatest(k, invoice[k].project) /\ project[invoice[k].project].delivered # "paid"
    BY <2>4 DEF Rest, Shown
  <2>6. ASSUME NEW h \in Invoices, Live(invoice', h), invoice[h].project = invoice[k].project
        PROVE  h <= k
    <3>1. CASE Live(invoice, h)
      BY <2>5, <2>6, <3>1 DEF IsLatest
    <3>2. CASE ~Live(invoice, h)
      BY <1>1, <2>2, <2>3, <2>6, <3>2
    <3> QED
      BY <3>1, <3>2
  <2> QED
    BY <2>5, <2>6 DEF IsLatest, Live
<1> QED
  BY <1>2, <1>3, <1>4, <1>5, <1>6, <1>7, <1>8 DEF Rest

LEMMA NoteLink ==
    ASSUME NEW x \in NoteRow, NEW i \in Invoices \cup {None}
    PROVE  LET y == [x EXCEPT !.invoice = i]
           IN  /\ y \in NoteRow /\ y.kind = x.kind /\ y.place = x.place
               /\ y.status = x.status /\ y.project = x.project /\ y.back = x.back
               /\ y.invoice = i
  BY DEF NoteRow

LEMMA InvoiceBinned ==
    ASSUME NEW x \in InvoiceRow, NEW w \in SUBSET Sources
    PROVE  LET y == [x EXCEPT !.place = "bin", !.waiting = w]
           IN  /\ y \in InvoiceRow /\ y.place = "bin" /\ y.waiting = w /\ y.back = x.back
               /\ y.project = x.project /\ y.status = x.status /\ y.source = x.source
               /\ y.late = x.late
  BY DEF InvoiceRow, Places

LEMMA InvoiceRestored ==
    ASSUME NEW x \in InvoiceRow, NEW w \in SUBSET Sources
    PROVE  LET y == [x EXCEPT !.place = "live", !.waiting = w, !.back = TRUE]
           IN  /\ y \in InvoiceRow /\ y.place = "live" /\ y.waiting = w /\ y.back
               /\ y.project = x.project /\ y.status = x.status /\ y.source = x.source
               /\ y.late = x.late
  BY DEF InvoiceRow, Places

(* A quotation's invoice stays where it is, and a note's is cut.           *)
LEMMA DeletedInvoiceKeepsRest ==
    ASSUME Rest, NEW i \in Invoices, DeleteInvoice(i)
    PROVE  Rest'
<1> DEFINE billed == {u \in Sources : /\ source[u].kind = "note" /\ Live(source, u)
                                      /\ source[u].invoice = i}
           q == [invoice[i] EXCEPT !.place = "bin", !.waiting = billed]
<1>1. /\ project \in [Projects -> ProjectRow] /\ invoice \in [Invoices -> InvoiceRow]
      /\ source \in [Sources -> NoteRow \cup QuotationRow \cup JobRequestRow]
      /\ file \in [Files -> FileRow]
  BY DEF Rest, RowsOK
<1>2. /\ Live(invoice, i) /\ ~InvoiceInUse(i) /\ UNCHANGED <<project, file>>
      /\ invoice' = [invoice EXCEPT ![i] = q]
      /\ source' = [u \in Sources |-> IF u \in billed
                        THEN [source[u] EXCEPT !.invoice = None] ELSE source[u]]
  BY <1>1 DEF DeleteInvoice
<1>3. /\ q \in InvoiceRow /\ q.place = "bin" /\ q.waiting = billed
      /\ q.back = invoice[i].back /\ q.project = invoice[i].project
      /\ q.status = invoice[i].status /\ q.source = invoice[i].source
      /\ q.late = invoice[i].late
  <2>1. billed \in SUBSET Sources /\ invoice[i] \in InvoiceRow
    BY <1>1
  <2> HIDE DEF billed
  <2> QED
    BY <2>1, InvoiceBinned
<1>4. \A u \in Sources :
          u \in billed <=> source[u].kind = "note" /\ Live(source, u) /\ source[u].invoice = i
  OBVIOUS
<1>5. \A u \in billed : u \in Sources
  OBVIOUS
<1> HIDE DEF q, billed
<1>6. \A u \in Sources :
          /\ u \in billed => /\ source'[u] \in NoteRow /\ source'[u].kind = "note"
                             /\ source'[u].place = source[u].place
                             /\ source'[u].status = source[u].status
                             /\ source'[u].back = source[u].back
                             /\ source'[u].project = source[u].project
                             /\ source'[u].invoice = None
          /\ u \notin billed => source'[u] = source[u]
  <2> TAKE u \in Sources
  <2>1. CASE u \in billed
    <3>1. source'[u] = [source[u] EXCEPT !.invoice = None]
      BY <1>2, <2>1
    <3>2. source[u] \in NoteRow /\ source[u].kind = "note"
      BY <1>1, <1>4, <2>1, SourceRows
    <3>3. None \in Invoices \cup {None}
      OBVIOUS
    <3> QED
      BY <2>1, <3>1, <3>2, <3>3, NoteLink
  <2>2. CASE u \notin billed
    BY <1>2, <2>2
  <2> QED
    BY <2>1, <2>2
<1>7. /\ invoice' \in [Invoices -> InvoiceRow]
      /\ \A k \in Invoices : invoice'[k] = IF k = i THEN q ELSE invoice[k]
  BY <1>1, <1>2, <1>3
<1>8. RowsOK'
  <2>1. source' \in [Sources -> NoteRow \cup QuotationRow \cup JobRequestRow]
    BY <1>1, <1>2, <1>6
  <2> QED
    BY <1>1, <1>2, <1>7, <2>1 DEF RowsOK
<1>9. \A k \in Invoices :
          /\ Born(invoice', k) <=> Born(invoice, k)
          /\ invoice'[k].project = invoice[k].project
          /\ invoice'[k].status = invoice[k].status
          /\ invoice'[k].source = invoice[k].source
          /\ invoice'[k].late = invoice[k].late
          /\ invoice[k].back => invoice'[k].back
          /\ Live(invoice', k) => Live(invoice, k)
          /\ k = i => ~Live(invoice', k)
          /\ k # i => (Live(invoice, k) => Live(invoice', k))
  BY <1>2, <1>3, <1>7 DEF Born, Live
<1>10. \A k \in Invoices : \A u \in invoice'[k].waiting : source'[u].kind = "note"
  <2> TAKE k \in Invoices
  <2> TAKE u \in invoice'[k].waiting
  <2>1. u \in Sources /\ source[u].kind = "note"
    <3>1. CASE k = i
      BY <1>3, <1>4, <1>5, <1>7, <3>1
    <3>2. CASE k # i
      BY <1>1, <1>7, <3>2 DEF Rest, InvoiceLinks, InvoiceRow
    <3> QED
      BY <3>1, <3>2
  <2> QED
    BY <1>6, <2>1
<1>11. \A u \in Sources :
           /\ source'[u].kind = source[u].kind /\ source'[u].place = source[u].place
           /\ source'[u].status = source[u].status /\ source'[u].back = source[u].back
           /\ source'[u].project = source[u].project
           /\ \/ source'[u].invoice = source[u].invoice
              \/ /\ source[u].kind = "note"
                 /\ \/ source[u].invoice = None
                    \/ ~Live(invoice', source[u].invoice)
           /\ source'[u].invoice # None =>
                  /\ Born(source, u) /\ Born(invoice, source'[u].invoice)
                  /\ Live(source, u) => Live(invoice', source'[u].invoice)
  <2> TAKE u \in Sources
  <2>1. CASE u \in billed
    BY <1>4, <1>6, <1>9, <2>1
  <2>2. CASE u \notin billed
    <3>1. source'[u] = source[u]
      BY <1>6, <2>2
    <3>2. source[u].invoice # None => /\ source[u].invoice \in Invoices /\ Born(source, u)
                                     /\ source[u].kind \in {"note", "quotation"}
      BY <1>1, SourceRows DEF Rest, SourceLinks
    <3>3. source[u].invoice # None =>
              /\ Born(invoice, source[u].invoice)
              /\ Live(source, u) => Live(invoice, source[u].invoice)
      BY DEF Rest, SourceLinks
    <3>4. source[u].invoice # None /\ Live(source, u) => source[u].invoice # i
      BY <1>2, <1>4, <2>2, <3>2 DEF InvoiceInUse
    <3> QED
      BY <1>9, <3>1, <3>2, <3>3, <3>4
  <2> QED
    BY <2>1, <2>2
<1> QED
  BY <1>2, <1>8, <1>9, <1>10, <1>11, NoteMoves

(* A note that was billed again meanwhile keeps its newer invoice.         *)
LEMMA RestoredInvoiceKeepsRest ==
    ASSUME Rest, NEW i \in Invoices, RestoreInvoice(i)
    PROVE  Rest'
<1> DEFINE linked(u) == u \in invoice[i].waiting /\ Live(source, u) /\ source[u].invoice = None
           none == {}
           q == [invoice[i] EXCEPT !.place = "live", !.waiting = none, !.back = TRUE]
<1>1. /\ project \in [Projects -> ProjectRow] /\ invoice \in [Invoices -> InvoiceRow]
      /\ source \in [Sources -> NoteRow \cup QuotationRow \cup JobRequestRow]
      /\ file \in [Files -> FileRow]
  BY DEF Rest, RowsOK
<1>2. /\ invoice[i].place = "bin" /\ Live(project, invoice[i].project)
      /\ UNCHANGED <<project, file>>
      /\ invoice' = [invoice EXCEPT ![i] = q]
      /\ source' = [u \in Sources |-> IF linked(u)
                        THEN [source[u] EXCEPT !.invoice = i] ELSE source[u]]
  BY <1>1 DEF RestoreInvoice
<1>3. /\ q \in InvoiceRow /\ q.place = "live" /\ q.waiting = {} /\ q.back
      /\ q.project = invoice[i].project /\ q.status = invoice[i].status
      /\ q.source = invoice[i].source /\ q.late = invoice[i].late
  <2>1. none \in SUBSET Sources /\ invoice[i] \in InvoiceRow
    BY <1>1
  <2>2. none = {}
    OBVIOUS
  <2> HIDE DEF none
  <2>3. /\ q \in InvoiceRow /\ q.place = "live" /\ q.waiting = none /\ q.back
        /\ q.project = invoice[i].project /\ q.status = invoice[i].status
        /\ q.source = invoice[i].source /\ q.late = invoice[i].late
    BY <2>1, InvoiceRestored
  <2> HIDE DEF q
  <2> QED
    BY <2>2, <2>3
<1>4. \A k \in Invoices : \A u \in invoice[k].waiting : u \in Sources /\ source[u].kind = "note"
  BY <1>1 DEF Rest, InvoiceLinks, InvoiceRow
<1>5. \A u \in Sources :
          /\ linked(u) => /\ source'[u] \in NoteRow /\ source'[u].kind = "note"
                          /\ source[u].kind = "note" /\ Live(source, u)
                          /\ source[u].invoice = None
                          /\ source'[u].place = source[u].place
                          /\ source'[u].status = source[u].status
                          /\ source'[u].back = source[u].back
                          /\ source'[u].project = source[u].project
                          /\ source'[u].invoice = i
          /\ ~linked(u) => source'[u] = source[u]
  <2> TAKE u \in Sources
  <2>1. CASE linked(u)
    <3>1. source'[u] = [source[u] EXCEPT !.invoice = i]
      BY <1>2, <2>1
    <3>2. source[u] \in NoteRow /\ source[u].kind = "note"
      BY <1>1, <1>4, <2>1, SourceRows
    <3>3. i \in Invoices \cup {None}
      OBVIOUS
    <3> QED
      BY <2>1, <3>1, <3>2, <3>3, NoteLink
  <2>2. CASE ~linked(u)
    BY <1>2, <2>2
  <2> QED
    BY <2>1, <2>2
<1> HIDE DEF q, linked
<1>6. /\ invoice' \in [Invoices -> InvoiceRow]
      /\ \A k \in Invoices : invoice'[k] = IF k = i THEN q ELSE invoice[k]
  BY <1>1, <1>2, <1>3
<1>7. RowsOK'
  <2>1. source' \in [Sources -> NoteRow \cup QuotationRow \cup JobRequestRow]
    BY <1>1, <1>2, <1>5
  <2> QED
    BY <1>1, <1>2, <1>6, <2>1 DEF RowsOK
<1>8. \A k \in Invoices :
          /\ Born(invoice', k) <=> Born(invoice, k)
          /\ invoice'[k].project = invoice[k].project
          /\ invoice'[k].status = invoice[k].status
          /\ invoice'[k].source = invoice[k].source
          /\ invoice'[k].late = invoice[k].late
          /\ invoice[k].back => invoice'[k].back
          /\ Live(invoice', k) /\ ~Live(invoice, k) =>
                 Live(project, invoice[k].project) /\ invoice'[k].back
          /\ Live(invoice, k) => Live(invoice', k)
          /\ k = i => Live(invoice', k) /\ Born(invoice, k)
  BY <1>2, <1>3, <1>6 DEF Born, Live
<1>9. \A k \in Invoices : \A u \in invoice'[k].waiting : source'[u].kind = "note"
  <2> TAKE k \in Invoices
  <2> TAKE u \in invoice'[k].waiting
  <2>1. u \in Sources /\ source[u].kind = "note"
    BY <1>3, <1>4, <1>6
  <2> QED
    BY <1>5, <2>1
<1>10. \A u \in Sources :
           /\ source'[u].kind = source[u].kind /\ source'[u].place = source[u].place
           /\ source'[u].status = source[u].status /\ source'[u].back = source[u].back
           /\ source'[u].project = source[u].project
           /\ \/ source'[u].invoice = source[u].invoice
              \/ /\ source[u].kind = "note"
                 /\ \/ source[u].invoice = None
                    \/ ~Live(invoice', source[u].invoice)
           /\ source'[u].invoice # None =>
                  /\ Born(source, u) /\ Born(invoice, source'[u].invoice)
                  /\ Live(source, u) => Live(invoice', source'[u].invoice)
  <2> TAKE u \in Sources
  <2>1. CASE linked(u)
    <3>1. Born(source, u)
      BY <1>5, <2>1 DEF Live, Born
    <3> QED
      BY <1>5, <1>8, <2>1, <3>1
  <2>2. CASE ~linked(u)
    <3>1. source'[u] = source[u]
      BY <1>5, <2>2
    <3>2. source[u].invoice # None => /\ source[u].invoice \in Invoices /\ Born(source, u)
                                     /\ Born(invoice, source[u].invoice)
                                     /\ (Live(source, u) => Live(invoice, source[u].invoice))
      BY <1>1, SourceRows DEF Rest, SourceLinks
    <3> QED
      BY <1>8, <3>1, <3>2
  <2> QED
    BY <2>1, <2>2
<1>11. \A k \in Invoices :
           /\ Born(invoice', k) <=> Born(invoice, k)
           /\ invoice'[k].project = invoice[k].project
           /\ invoice'[k].status = invoice[k].status
           /\ invoice'[k].source = invoice[k].source
           /\ invoice'[k].late = invoice[k].late
           /\ invoice[k].back => invoice'[k].back
           /\ \A u \in invoice'[k].waiting : source'[u].kind = "note"
           /\ Live(invoice', k) /\ ~Live(invoice, k) =>
                  Live(project, invoice[k].project) /\ invoice'[k].back
  BY <1>8, <1>9
<1>12. UNCHANGED <<project, file>>
  BY <1>2
<1> QED
  BY <1>7, <1>10, <1>11, <1>12, NoteMoves

----------------------------------------------------------------------------
(* Every step. *)

LEMMA NothingMoves ==
    ASSUME Rest, UNCHANGED <<project, invoice, source, file>>
    PROVE  Rest'
<1>1. project' \in [Projects -> ProjectRow]
  BY DEF Rest, RowsOK
<1> QED
  BY <1>1, ProjectMoves DEF Born

(* A check depends on the rows only. *)
LEMMA ChecksLast ==
    ASSUME UNCHANGED <<project, invoice, source, file>>, NEW o \in Requests
    PROVE  Allowed(o)' <=> Allowed(o)
  BY DEF Allowed, MayBill, MayAnswer, MayConvertQuotation, MayReview, MayDeliver, MayAttach,
         MayDrop, Unattached, OnProject, LatestIs, IsLatest, Live

LEMMA WritingKeepsRest ==
    ASSUME OrdersInv, NEW t \in Threads, Write(t)
    PROVE  Rest'
<1> DEFINE o == req[t]
<1>1. o \in Requests /\ Allowed(o) /\ Rest
  BY DEF Write, OrdersInv, Checked
<1>2. CASE o.op = "bill" /\ WriteInvoice(o)
  BY <1>1, <1>2, BillingKeepsRest
<1>3. CASE \/ o.op = "answer" /\ WriteStatus(o, o.status)
           \/ o.op = "reject" /\ WriteStatus(o, "rejected")
  BY <1>1, <1>3, StatusIsAMove
<1>4. CASE o.op = "convert" /\ WriteConversion(o)
  BY <1>1, <1>4, ConversionKeepsRest
<1>5. CASE o.op = "review" /\ WriteJobProject(o)
  BY <1>1, <1>5, JobProjectKeepsRest
<1>6. CASE o.op = "deliver" /\ WriteDelivery(o)
  BY <1>1, <1>6, DeliveryIsAMove
<1>7. CASE \/ o.op = "attach" /\ WriteAttachment(o)
           \/ o.op = "drop" /\ WriteDrop(o)
  BY <1>1, <1>7, FileIsAMove
<1> QED
  BY <1>2, <1>3, <1>4, <1>5, <1>6, <1>7 DEF Write

LEMMA ActingKeepsRest ==
    ASSUME Rest, AtOnce
    PROVE  Rest'
<1>1. CASE \E j \in Projects :
               \/ MarkDesigned(j) \/ MarkPrinted(j) \/ EditNotPrinted(j)
               \/ DeleteProject(j) \/ RestoreProject(j)
               \/ \E printed \in BOOLEAN : CreateProject(j, printed)
  BY <1>1, WorkIsAMove, DeletedProjectKeepsRest, RestoredProjectKeepsRest
<1>2. CASE \E i \in Invoices :
               \/ Pay(i) \/ Cancel(i) \/ Reopen(i)
               \/ DeleteInvoice(i) \/ RestoreInvoice(i)
  BY <1>2, MoneyIsAMove, DeletedInvoiceKeepsRest, RestoredInvoiceKeepsRest
<1>3. CASE \E s \in Sources :
               \/ CreateNote(s) \/ CreateQuotation(s) \/ CreateJobRequest(s)
               \/ DeleteNote(s) \/ DeleteQuotation(s) \/ RestoreSource(s)
  BY <1>3, CreatedIsAMove, DeletedSourceIsAMove, RestoredSourceIsAMove
<1>4. CASE \E f \in Files : Upload(f)
  BY <1>4, FileIsAMove
<1> QED
  BY <1>1, <1>2, <1>3, <1>4 DEF AtOnce

(* One thread: what it has checked is still so when it writes, and nothing *)
(* else runs before.                                                       *)
LEMMA OrdersSteps ==
    ASSUME OneAtATime, OrdersInv, [Next]_vars
    PROVE  OrdersInv'
<1>1. Rest /\ req \in [Threads -> Requests \cup {Idle}]
      /\ \A t \in Threads : req[t] # Idle => Allowed(req[t])
  BY DEF OrdersInv, Checked
<1>2. ASSUME NEW t \in Threads, Write(t) \/ Abandon(t)
      PROVE  OrdersInv'
  <2>1. Rest'
    <3>1. CASE Write(t)
      BY <3>1, WritingKeepsRest
    <3>2. CASE Abandon(t)
      <4>1. UNCHANGED <<project, invoice, source, file>>
        BY <3>2 DEF Abandon
      <4> QED
        BY <1>1, <4>1, NothingMoves
    <3> QED
      BY <1>2, <3>1, <3>2
  <2>2. req' = [req EXCEPT ![t] = Idle]
    BY <1>2 DEF Write, Abandon
  <2>3. \A u \in Threads : req'[u] = Idle
    BY <1>1, <2>2 DEF OneAtATime
  <2>4. req' \in [Threads -> Requests \cup {Idle}]
    BY <1>1, <2>2
  <2> QED
    BY <2>1, <2>3, <2>4 DEF OrdersInv, Checked
<1>3. ASSUME NEW t \in Threads, NEW o \in Requests, Ask(t, o)
      PROVE  OrdersInv'
  <2>1. /\ UNCHANGED <<project, invoice, source, file>>
        /\ Allowed(o) /\ req' = [req EXCEPT ![t] = o]
    BY <1>3 DEF Ask
  <2>2. Rest'
    BY <1>1, <2>1, NothingMoves
  <2>3. /\ req' \in [Threads -> Requests \cup {Idle}]
        /\ \A u \in Threads : req'[u] = o
    BY <1>1, <2>1 DEF OneAtATime
  <2>4. Allowed(o)'
    BY <2>1, ChecksLast
  <2>5. \A u \in Threads : Allowed(req[u])'
    BY <2>1, <2>3, <2>4, ChecksLast
  <2> QED
    BY <2>2, <2>3, <2>5 DEF OrdersInv, Checked
<1>4. CASE (\E t \in Threads : req[t] = Idle) /\ AtOnce
  <2>1. Rest'
    BY <1>1, <1>4, ActingKeepsRest
  <2>2. \A u \in Threads : req[u] = Idle
    BY <1>4 DEF OneAtATime
  <2>3. req' = req
    BY <1>4 DEF AtOnce, MarkDesigned, MarkPrinted, EditNotPrinted, DeleteProject, RestoreProject,
                CreateProject, Pay, Cancel, Reopen, DeleteInvoice, RestoreInvoice, CreateNote,
                CreateQuotation, CreateJobRequest, Created, DeleteNote, DeleteQuotation,
                DeleteSource, RestoreSource, Upload
  <2> QED
    BY <1>1, <2>1, <2>2, <2>3 DEF OrdersInv, Checked
<1>5. CASE UNCHANGED vars
  <2>1. UNCHANGED <<project, invoice, source, file>> /\ req' = req
    BY <1>5 DEF vars
  <2>2. Rest'
    BY <1>1, <2>1, NothingMoves
  <2>3. \A t \in Threads : req[t] # Idle => Allowed(req[t])'
    BY <1>1, <2>1, ChecksLast
  <2> QED
    BY <1>1, <2>1, <2>2, <2>3 DEF OrdersInv, Checked
<1> QED
  BY <1>2, <1>3, <1>4, <1>5 DEF Next

LEMMA OrdersHold == ASSUME OneAtATime PROVE Spec => []OrdersInv
<1>1. OrdersInv /\ [Next]_vars => OrdersInv'
  BY OrdersSteps
<1> QED
  BY <1>1, OrdersStart, PTL DEF Spec

----------------------------------------------------------------------------
(* No note or quotation is billed twice, but by way of the bin: whoever    *)
(* never left names the one invoice that was made of it.                   *)
THEOREM NothingIsBilledTwice == ASSUME OneAtATime PROVE Spec => []BilledOnce
<1>1. OrdersInv => BilledOnce
  BY DEF OrdersInv, Rest, Billed, BilledOnce
<1> QED
  BY <1>1, OrdersHold, PTL

(* Every link of a row that exists is to a row that exists, whatever is    *)
(* deleted, restored and converted.                                        *)
THEOREM LinksStay == ASSUME OneAtATime PROVE Spec => []LinksAgree
<1>1. OrdersInv => LinksAgree
  <2> SUFFICES ASSUME OrdersInv PROVE LinksAgree
    OBVIOUS
  <2>1. OrdersTypeOK
    BY DEF OrdersInv, Rest, RowsOK, Checked, OrdersTypeOK
  <2>2. /\ \A j \in Projects :
               Live(project, j) /\ project[j].billOnly
               => \E i \in Invoices : invoice[i].place # "unborn" /\ invoice[i].project = j
        /\ \A i \in Invoices : Live(invoice, i) => Live(project, invoice[i].project)
    BY DEF OrdersInv, Rest, ProjectLinks, InvoiceLinks, Born, Live
  <2>3. \A s \in Sources : Live(source, s) =>
            /\ source[s].project # None => Live(project, source[s].project)
            /\ source[s].invoice # None => Live(invoice, source[s].invoice)
            /\ source[s].project # None /\ source[s].invoice # None
               => invoice[source[s].invoice].project = source[s].project
    BY DEF OrdersInv, Rest, SourceLinks
  <2> QED
    BY <2>1, <2>2, <2>3 DEF LinksAgree
<1> QED
  BY <1>1, OrdersHold, PTL

(* What a client attached to a job request is kept, and is on the project  *)
(* that the request became.                                                *)
THEOREM AttachedFilesStay == ASSUME OneAtATime PROVE Spec => []RequestFilesSurvive
<1>1. OrdersInv => RequestFilesSurvive
  BY DEF OrdersInv, Rest, FilesKept, RequestFilesSurvive
<1> QED
  BY <1>1, OrdersHold, PTL

(* An open invoice that nothing excuses is its project's latest, so        *)
(* delivery and dashboard, which look at that one only, see it.            *)
THEOREM OpenOrdersStayInSight == ASSUME OneAtATime PROVE Spec => []OpenOrdersAreShown
<1>1. OrdersInv => OpenOrdersAreShown
  <2> SUFFICES ASSUME OrdersInv, NEW j \in Projects, NEW old \in BOOLEAN,
                      Live(project, j), ~project[j].billOnly
               PROVE  /\ project[j].delivered = "no" => OnOngoingBoard(j, old)
                      /\ \A i \in Invoices :
                             /\ Live(invoice, i) /\ invoice[i].project = j
                             /\ invoice[i].status = "pending"
                             => \/ OnOngoingBoard(j, old) \/ NeedsAttention(j, old)
                                \/ invoice[i].late
                                \/ \E k \in Invoices : /\ invoice[k].place # "unborn"
                                                      /\ invoice[k].project = j
                                                      /\ k >= i /\ invoice[k].back
    BY DEF OpenOrdersAreShown
  <2>1. project[j].delivered \in {"no", "paid", "credit"}
    BY DEF OrdersInv, Rest, RowsOK, ProjectRow
  <2>2. project[j].delivered = "no" => OnOngoingBoard(j, old)
    BY DEF OnOngoingBoard
  <2>3. ASSUME NEW i \in Invoices, Live(invoice, i), invoice[i].project = j,
               invoice[i].status = "pending", ~Excused(i)
        PROVE  OnOngoingBoard(j, old) \/ NeedsAttention(j, old)
    <3>1. IsLatest(i, j) /\ project[j].delivered # "paid"
      BY <2>3 DEF OrdersInv, Rest, Shown
    <3>2. LatestIs(j, "pending")
      BY <2>3, <3>1 DEF LatestIs
    <3> QED
      BY <2>1, <2>2, <3>1, <3>2 DEF NeedsAttention
  <2>4. \A i \in Invoices :
            Excused(i) => \/ invoice[i].late
                          \/ \E k \in Invoices : /\ invoice[k].place # "unborn"
                                                /\ invoice[k].project = invoice[i].project
                                                /\ k >= i /\ invoice[k].back
    BY DEF Excused, Born
  <2> QED
    BY <2>2, <2>3, <2>4
<1> QED
  BY <1>1, OrdersHold, PTL

=============================================================================
