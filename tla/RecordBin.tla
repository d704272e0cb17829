----------------------------- MODULE RecordBin -----------------------------
(***************************************************************************)
(* The bin as a protocol between requests: deleting takes a snapshot of a  *)
(* record and of the rows that belong to it, then removes the rows;        *)
(* restoring puts the snapshot back; erasing drops it.                     *)
(*                                                                         *)
(* A deletion reads (`Capture`) and later writes and commits (`Remove`); a *)
(* restore reads the bin item without a lock (`Open`), then writes         *)
(* (`PutBack`); an erase commits (`DropNext`), then removes the directory  *)
(* (`RemoveDirectory`).  Other requests run in between.  The statements of *)
(* one write are one step: the rows they touch are locked until the        *)
(* commit.  ProjectFiles.tla takes that step apart, with failures.         *)
(***************************************************************************)
EXTENDS FiniteSets, Naturals

CONSTANTS
    Rows,       \* the ids of all rows there may be
    TableOf,    \* the table of each
    Items,      \* bin item ids (bound: how often something is deleted)
    Requests,   \* the requests there may be at once
    Past,       \* which rows may have come and gone before
    None        \* SQL's NULL

Tables == {"companies", "customers", "customer_payments", "job_requests",
           "projects", "bills", "invoices"}

ASSUME RecordBinAssumption ==
    /\ TableOf \in [Rows -> Tables]
    /\ Past \subseteq SUBSET Rows
    /\ None \notin Rows \cup Requests
    /\ Items \cap {"none", "uploads", "gone"} = {}

VARIABLES
    live,     \* the rows that are in their table
    up,       \* the foreign key of each row
    bytes,    \* where the upload of a job request is
    item,     \* the bin
    req,      \* how far each request is
    born,     \* history: the rows there ever were
    erased,   \* history: rows somebody erased from the bin
    swept,    \* history: hidden projects removed with their customer
    late,     \* history: rows that came under a record being deleted
    crossed   \* history: rows two requests of the bin held at once

history == <<born, erased, swept, late, crossed>>
vars == <<live, up, bytes, item, req, born, erased, swept, late, crossed>>

----------------------------------------------------------------------------
(* The schema.  Each of these tables has one foreign key that matters here.*)
(* "bills" are the hidden projects of bills without a job (bill_only).     *)

(* The table a foreign key refers to. *)
ParentOf(table) ==
    CASE table = "customers" -> "companies"
      [] table \in {"customer_payments", "job_requests", "projects", "bills"} -> "customers"
      [] table = "invoices" -> "bills"
      [] OTHER -> None

Cascades == {"customer_payments", "job_requests"}   \* ON DELETE CASCADE
Unlinks == {"customers"}                            \* ON DELETE SET NULL
Restricts == {"projects", "bills", "invoices"}      \* no ON DELETE
Nullable == {"customers", "projects", "bills"}

In(table) == {r \in Rows : TableOf[r] = table}

Below(tables, S) == {r \in live : TableOf[r] \in tables /\ up[r] \in S}

NoItem == [state |-> "unborn", root |-> None, rows |-> <<>>, links |-> {}]

Idle == [step |-> "idle"]

InBin(k) == item[k].state \in {"kept", "old"}

Snapshot(k) == DOMAIN item[k].rows

----------------------------------------------------------------------------
(* What the requests hold. *)

(* The rows a request has read from the bin, or is about to put there. *)
Holds(q) ==
    CASE q.step = "staged" -> DOMAIN q.rows
      [] q.step = "opened" -> Snapshot(q.item)
      [] q.step = "erasing" -> UNION {Snapshot(k) : k \in q.todo \cup q.dir}
      [] OTHER -> {}

HeldByOthers(t) == UNION {Holds(req[u]) : u \in Requests \ {t}}

(* The records that are being deleted, looked up or captured already. *)
BeingDeleted(q) ==
    CASE q.step = "checked" -> {q.root}
      [] q.step = "staged" -> DOMAIN q.rows
      [] OTHER -> {}

(* Hidden projects a deletion has removed and not committed: their rows    *)
(* are locked.                                                             *)
SweptBy(q) == IF q.step \in {"checked", "staged"} THEN q.swept ELSE {}

Unlocked(t, S) == \A u \in Requests \ {t} : SweptBy(req[u]) \cap S = {}

Arrives(t, S) ==
    late' = late \cup {r \in S : \E u \in Requests \ {t} : up'[r] \in BeingDeleted(req[u])}

----------------------------------------------------------------------------
(* Work on the records. *)

Insert(S, parent) ==
    /\ S \cap born = {}
    /\ live' = live \cup S
    /\ born' = born \cup S
    /\ up' = [r \in Rows |-> IF r \in S THEN parent[r] ELSE up[r]]
    /\ bytes' = [r \in Rows |-> IF r \in S \cap In("job_requests") THEN "uploads" ELSE bytes[r]]
    /\ Arrives(None, S)
    /\ UNCHANGED <<item, req, erased, swept, crossed>>

(* A row is made, under a record of the right table or on its own. *)
Create(r) ==
    /\ TableOf[r] \notin {"bills", "invoices"}
    /\ \E p \in live \cup {None} :
        /\ p = None => ParentOf(TableOf[r]) = None \/ TableOf[r] \in Nullable
        /\ p # None => TableOf[p] = ParentOf(TableOf[r])
        /\ Insert({r}, [x \in {r} |-> p])

(* A bill without a job: the invoice and its hidden project at once. *)
CreateBill(b, i) ==
    /\ b \in In("bills") /\ i \in In("invoices")
    /\ \E c \in live \cap In("customers") :
        Insert({b, i}, [x \in {b, i} |-> IF x = b THEN c ELSE b])

(* A contact is moved to a company, or out of one. *)
UpdateCustomer(c, company) ==
    /\ c \in live \cap In("customers")
    /\ company \in (live \cap In("companies")) \cup {None}
    /\ up' = [up EXCEPT ![c] = company]
    /\ UNCHANGED <<live, bytes, item, req, history>>

----------------------------------------------------------------------------
(* Deleting. *)

(* Only customers are checked before the snapshot: payments stay on file.  *)
(* Hidden projects whose bill is gone would block the deletion and are     *)
(* removed, without a bin item.                                            *)
(* Mutant: nobody looks for payments. *)
DeleteCustomerUnchecked(t, c) ==
    /\ req[t] = Idle
    /\ c \in live \cap In("customers")
    /\ LET empty == {b \in Below({"bills"}, {c}) : Below({"invoices"}, {b}) = {}} IN
        /\ Unlocked(t, empty)
        /\ req' = [req EXCEPT ![t] = [step |-> "checked", root |-> c, swept |-> empty]]
    /\ UNCHANGED <<live, up, bytes, item, history>>

DeleteCustomer(t, c) ==
    /\ req[t] = Idle
    /\ c \in live \cap In("customers")
    /\ Below({"customer_payments"}, {c}) = {}
    /\ LET empty == {b \in Below({"bills"}, {c}) : Below({"invoices"}, {b}) = {}} IN
        /\ Unlocked(t, empty)
        /\ req' = [req EXCEPT ![t] = [step |-> "checked", root |-> c, swept |-> empty]]
    /\ UNCHANGED <<live, up, bytes, item, history>>

(* The record and the rows that go with it. *)
(* Mutant: the walk does not go down the cascades. *)
BelongingAlone(r) == {r}
Belonging(r) == {r} \cup Below(Cascades, {r})

(* The walk; the deletion is refused when a row that would stay refers to  *)
(* one that would go.  References set to NULL are noted as links.          *)
Capture(t, r, gone) ==
    LET own == Belonging(r)
        inUse == Below(Restricts, own) \ gone
    IN  /\ r \in live
        /\ req' = [req EXCEPT ![t] =
               IF inUse # {} THEN Idle
               ELSE [step |-> "staged", root |-> r, swept |-> gone,
                     rows |-> [x \in own |-> up[x]],
                     links |-> Below(Unlinks, own)]]
        /\ crossed' = crossed \cup (own \cap HeldByOthers(t))
        /\ UNCHANGED <<live, up, bytes, item, born, erased, swept, late>>

CaptureCustomer(t) ==
    /\ req[t].step = "checked"
    /\ Capture(t, req[t].root, req[t].swept)

(* A customer that went in the meantime: the walk finds no row. *)
CustomerGone(t) ==
    /\ req[t].step = "checked" /\ req[t].root \notin live
    /\ req' = [req EXCEPT ![t] = Idle]
    /\ UNCHANGED <<live, up, bytes, item, history>>

(* Other records: captured at once.  A payment is locked first, so only    *)
(* one request deletes it.                                                 *)
Delete(t, r) ==
    /\ req[t] = Idle
    /\ TableOf[r] \in {"companies", "customer_payments", "projects", "invoices"}
    /\ TableOf[r] = "customer_payments" =>
        \A u \in Requests : r \notin BeingDeleted(req[u])
    /\ Capture(t, r, {})

Renamed(S, k) == [r \in Rows |-> IF r \in S /\ bytes[r] = "uploads" THEN k ELSE bytes[r]]

(* The item is written, the links are cleared, the rows deleted and their  *)
(* files moved.  Nobody checks that a DELETE hit a row.  The database      *)
(* deletes or unlinks what came under the record since the walk, and       *)
(* refuses when that is a restricting reference.                           *)
Remove(t, k) ==
    LET q == req[t]
        own == DOMAIN q.rows
        rest == live \ q.swept
        dead == own \cup (Below(Cascades, own) \cap rest)
        refused == \E r \in Below(Restricts, dead) \cap rest : r \notin dead
    IN  /\ q.step = "staged"
        /\ Unlocked(t, own)
        /\ item[k].state = "unborn"
        /\ req' = [req EXCEPT ![t] = Idle]
        /\ IF refused
           THEN UNCHANGED <<live, up, bytes, item, history>>
           ELSE /\ live' = rest \ dead
                /\ up' = [r \in Rows |->
                       IF r \in q.links \cup Below(Unlinks, dead) THEN None ELSE up[r]]
                /\ bytes' = Renamed(own, k)
                /\ item' = [item EXCEPT ![k] =
                       [state |-> "kept", root |-> q.root, rows |-> q.rows, links |-> q.links]]
                /\ swept' = swept \cup q.swept
                /\ UNCHANGED <<born, erased, late, crossed>>

----------------------------------------------------------------------------
(* Restoring. *)

Open(t, k) ==
    /\ req[t] = Idle /\ InBin(k)
    /\ req' = [req EXCEPT ![t] = [step |-> "opened", item |-> k]]
    /\ crossed' = crossed \cup (Snapshot(k) \cap HeldByOthers(t))
    /\ UNCHANGED <<live, up, bytes, item, born, erased, swept, late>>

(* References of a snapshot to rows that are not there (any more). *)
Missing(k) ==
    {r \in Snapshot(k) :
        item[k].rows[r] \notin Snapshot(k) \cup live \cup {None}}

Refused(k) ==
    \/ \E r \in Missing(k) : TableOf[r] \notin Nullable
    \/ Snapshot(k) \cap live # {}           \* the primary key is taken

(* Mutant: the files stay where they are. *)
MovedBackNever(k) == bytes
MovedBack(k) ==
    [r \in Rows |-> IF r \in Snapshot(k) /\ bytes[r] = k THEN "uploads" ELSE bytes[r]]

(* Rows with their old ids, parents first; a reference that is gone is     *)
(* dropped or the restore refused.  Links come back only where nothing     *)
(* else was put.  Deleting an item that is already gone is only a warning. *)
PutBack(t) ==
    LET k == req[t].item
        rows == Snapshot(k)
    IN  /\ req[t].step = "opened"
        /\ Unlocked(t, {item[k].rows[r] : r \in rows})
        /\ req' = [req EXCEPT ![t] = Idle]
        /\ IF Refused(k)
           THEN UNCHANGED <<live, up, bytes, item, history>>
           ELSE /\ live' = live \cup rows
                /\ up' = [r \in Rows |->
                       IF r \in Missing(k) THEN None
                       ELSE IF r \in rows THEN item[k].rows[r]
                       ELSE IF r \in item[k].links \cap live /\ up[r] = None THEN item[k].root
                       ELSE up[r]]
                /\ bytes' = MovedBack(k)
                /\ item' = [item EXCEPT ![k].state = "gone"]
                /\ Arrives(t, rows)
                /\ UNCHANGED <<born, erased, swept, crossed>>

----------------------------------------------------------------------------
(* Erasing: one item, the whole bin, or what is past its date. *)

Expire(k) ==
    /\ item[k].state = "kept"
    /\ item' = [item EXCEPT ![k].state = "old"]
    /\ UNCHANGED <<live, up, bytes, req, history>>

Loop(todo, dir, read) ==
    [step |-> "erasing", todo |-> todo, dir |-> dir, read |-> read]

StartErasing(t, items) ==
    /\ req[t] = Idle /\ items # {}
    /\ req' = [req EXCEPT ![t] = Loop(items, {}, TRUE)]
    /\ crossed' = crossed \cup {r \in HeldByOthers(t) : \E k \in items : r \in Snapshot(k)}
    /\ UNCHANGED <<live, up, bytes, item, born, erased, swept, late>>

EraseItem(t, k) == InBin(k) /\ StartErasing(t, {k})
EmptyBin(t) == StartErasing(t, {k \in Items : InBin(k)})
EraseExpired(t) == StartErasing(t, {k \in Items : item[k].state = "old"})

(* An item is deleted and that is committed.  The commit forgets what the  *)
(* query had read of the other items: from the second on, one that went in *)
(* the meantime stops the loop (the handler trips over it too).            *)
(* Mutant: the loop goes on without its commit. *)
DropNextUncommitted(t, k) ==
    /\ req[t].step = "erasing" /\ req[t].dir = {} /\ k \in req[t].todo
    /\ req' = [req EXCEPT ![t] = Loop(@.todo \ {k}, {k}, FALSE)]
    /\ UNCHANGED <<live, up, bytes, item, history>>

DropNext(t, k) ==
    /\ req[t].step = "erasing" /\ req[t].dir = {} /\ k \in req[t].todo
    /\ IF InBin(k) \/ req[t].read
       THEN /\ req' = [req EXCEPT ![t] = Loop(@.todo \ {k}, {k}, FALSE)]
            /\ item' = [item EXCEPT ![k].state = "gone"]
            /\ erased' = erased \cup (IF InBin(k) THEN Snapshot(k) ELSE {})
       ELSE /\ req' = [req EXCEPT ![t] = Idle]
            /\ UNCHANGED <<item, erased>>
    /\ UNCHANGED <<live, up, bytes, born, swept, late, crossed>>

RemoveDirectory(t) ==
    /\ req[t].step = "erasing" /\ req[t].dir # {}
    /\ bytes' = [r \in Rows |-> IF bytes[r] \in req[t].dir THEN "gone" ELSE bytes[r]]
    /\ req' = [req EXCEPT ![t] = IF @.todo = {} THEN Idle ELSE [@ EXCEPT !.dir = {}]]
    /\ UNCHANGED <<live, up, item, history>>

----------------------------------------------------------------------------
Init ==
    /\ live = {}
    /\ up = [r \in Rows |-> None]
    /\ bytes = [r \in Rows |-> "none"]
    /\ item = [k \in Items |-> NoItem]
    /\ req = [t \in Requests |-> Idle]
    /\ born \in Past /\ erased = born
    /\ swept = {} /\ late = {} /\ crossed = {}

Next ==
    \/ \E r \in Rows : Create(r)
    \/ \E b, i \in Rows : CreateBill(b, i)
    \/ \E c \in Rows, company \in Rows \cup {None} : UpdateCustomer(c, company)
    \/ \E k \in Items : Expire(k)
    \/ \E t \in Requests :
        \/ \E r \in Rows : DeleteCustomer(t, r) \/ Delete(t, r)
        \/ CaptureCustomer(t) \/ CustomerGone(t) \/ PutBack(t)
        \/ \E k \in Items : Remove(t, k) \/ Open(t, k) \/ EraseItem(t, k) \/ DropNext(t, k)
        \/ EmptyBin(t) \/ EraseExpired(t) \/ RemoveDirectory(t)

Spec == Init /\ [][Next]_vars

----------------------------------------------------------------------------
(* Types. *)
RecordsTypeOK ==
    /\ live \subseteq born /\ born \subseteq Rows
    /\ up \in [Rows -> Rows \cup {None}]
    /\ bytes \in [Rows -> {"none", "uploads", "gone"} \cup Items]
    /\ DOMAIN item = Items /\ DOMAIN req = Requests

(* Nothing is lost: a row is in its table or in the bin, unless somebody   *)
(* erased it, it is the hidden project of a deleted bill and went with its *)
(* customer, or it came under a record that was being deleted.             *)
RowsAreKept ==
    /\ RecordsTypeOK
    /\ \A r \in born :
           \/ r \in live
           \/ \E k \in Items : InBin(k) /\ r \in Snapshot(k)
           \/ r \in erased \cup swept \cup late

(* The upload goes where its row goes: it is in uploads while the row is   *)
(* there and in the directory of the item that holds it, unless two        *)
(* requests deleted, restored or erased it at once.                        *)
BytesFollowTheRow ==
    \A r \in In("job_requests") \ (crossed \cup late) :
        /\ r \in live => bytes[r] = "uploads"
        /\ \A k \in Items : InBin(k) /\ r \in Snapshot(k) => bytes[r] = k

(* Money stays on file: no payment goes to the bin with its customer,      *)
(* unless it was recorded while the customer was being deleted.            *)
MoneyStaysOnFile ==
    \A k \in Items : InBin(k) /\ TableOf[item[k].root] = "customers" =>
        Snapshot(k) \cap In("customer_payments") \subseteq late

=============================================================================
