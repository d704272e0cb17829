------------------------- MODULE ConcurrentBilling -------------------------
(***************************************************************************)
(* The handlers of Billing.tla as the worker threads run them: a request   *)
(* is a transaction (cancelling is two) that reads, decides and writes in  *)
(* separate steps, against PostgreSQL at READ COMMITTED.                   *)
(*                                                                         *)
(*   - A plain read takes no lock.  The session writes when it commits: an *)
(*     UPDATE of the columns whose value changed since it read them.       *)
(*   - FOR UPDATE, and an UPDATE, wait for and then hold the row's lock    *)
(*     until the transaction ends.  The rows of one statement are locked   *)
(*     one at a time, in an order the query plan picks.                    *)
(*   - A ledger row's foreign key makes its INSERT wait for a lock held on *)
(*     the payment it points to, and fail if that payment is gone.         *)
(*   - Of requests waiting in a circle the database fails one.             *)
(*   - A request may die at any step: its open transaction is undone.      *)
(***************************************************************************)
EXTENDS Billing, SequencesExt

CONSTANTS
    Requests,      \* the requests in flight at once, each run once
    Jobs,          \* what they may be asked to do
    MayDie,        \* whether a request may be cut off
    Total,         \* what each invoice asks for at the start
    Worth          \* what each payment is worth at the start

(* What may be asked: what the request bodies accept.  The requests of the *)
(* second kind lock what they read, those of the first do not.             *)
OnInvoice ==
    [kind : {"record"}, i : Invoices, x : Money \ {0}]
        \cup [kind : {"mark paid"}, i : Invoices]
        \cup [kind : {"patch"}, i : Invoices, q : Patch]

Receipt == [kind : {"receive"}, p : Payments, c : Customers, x : Money \ {0}, split : Splits]
Application == [kind : {"apply"}, p : Payments,
                split : {s \in Splits : \E i \in Invoices : s[i] > 0}]
Deletion == [kind : {"delete"}, p : Payments]
OnPayment == Receipt \cup Application \cup Deletion

ASSUME ConcurrencyAssumption ==
    /\ MayDie \in BOOLEAN
    /\ Invoices \cap Payments = {}
    /\ Total \in Nat /\ Worth \in Nat
    /\ "no one" \notin Requests
    /\ Jobs \subseteq OnInvoice \cup OnPayment

VARIABLES
    job,     \* job[r]: how far request r is, and what it has read so far
    lock     \* lock[row]: the request that holds the row, or NoOne

allVars == <<invoice, payment, share, owner, job, lock>>

Rows == Invoices \cup Payments

NoOne == "no one"

Idle == [step |-> "idle"]
Over == [step |-> "over"]

----------------------------------------------------------------------------
(* The start: open invoices, with some of the payments' money on them.     *)

Starts ==
    {s \in [Payments -> [Invoices -> Money]] :
        /\ \A i \in Invoices : SumFunction([p \in Payments |-> s[p][i]]) < Total
        /\ \A p \in Payments : SumFunction(s[p]) <= Worth}

ConcurrentInit ==
    /\ share \in Starts
    /\ owner \in [Projects -> Customers]
    /\ \E c \in Customers : \E there \in SUBSET Payments :
         /\ payment = [p \in Payments |->
                [place |-> IF p \in there THEN "live" ELSE "unborn",
                 customer |-> c, amount |-> IF p \in there THEN Worth ELSE 0]]
         /\ \A p \in Payments \ there : SumFunction(share[p]) = 0
    /\ \E j \in Projects :
         invoice = [i \in Invoices |->
             LET paid == SumFunction([p \in Payments |-> share[p][i]])
             IN [NewInvoice(j, Total, 0, 0) EXCEPT !.advance = paid, !.history = paid]]
    /\ job = [r \in Requests |-> Idle]
    /\ lock = [row \in Rows |-> NoOne]

----------------------------------------------------------------------------
(* Locks *)

Free(r, row) == lock[row] \in {NoOne, r}

Wants(r) ==
    CASE job[r].step = "payment" -> {job[r].todo.p}
      [] job[r].step = "lock" /\ job[r].order # <<>> -> {Head(job[r].order)}
      [] job[r].step \in {"write", "release"} -> {job[r].todo.i}
      [] job[r].step = "give back" -> {p \in Payments : job[r].back[p] > 0}
      [] OTHER -> {}

WaitsFor(r, s) == r # s /\ \E row \in Wants(r) : lock[row] = s

InCircle(r) ==
    \E circle \in SUBSET Requests :
        /\ r \in circle
        /\ \A a \in circle :
             (\E b \in circle : WaitsFor(a, b)) /\ (\E b \in circle : WaitsFor(b, a))

Goto(r, next) == job' = [job EXCEPT ![r] = next]

Take(r, row) == Free(r, row) /\ lock' = [lock EXCEPT ![row] = r]

\* Mutant: a transaction that ends keeps its locks.
EndKeepsLocks(r) == Goto(r, Over) /\ UNCHANGED lock

(* Commit or rollback: the transaction's locks go. *)
End(r) ==
    /\ Goto(r, Over)
    /\ lock' = [row \in Rows |-> IF lock[row] = r THEN NoOne ELSE lock[row]]

Unchanged == UNCHANGED <<invoice, payment, share, owner>>

(* An UPDATE names the columns the request changed since it read them; the *)
(* ledger rows it inserts add to the sums whatever else has been inserted. *)
Merged(current, read, new) ==
    LET kept(f) == IF new[f] = read[f] THEN current[f] ELSE new[f]
    IN  [current EXCEPT !.status = kept("status"), !.subtotal = kept("subtotal"),
                        !.discount = kept("discount"), !.amount = kept("amount"),
                        !.advance = kept("advance"), !.paidAt = kept("paidAt"),
                        !.direct = @ + (new.direct - read.direct),
                        !.history = @ + (new.history - read.history)]

----------------------------------------------------------------------------
(* Requests that read an invoice without a lock and save it:               *)
(* record-payment, mark-paid and the admin's PATCH.                        *)

Decided(todo, row) ==
    Saved(row, CASE todo.kind = "record" -> Instalment(row, todo.x)
                 [] todo.kind = "mark paid" -> Settled(row)
                 [] todo.kind = "patch" -> Patched(row, todo.q))

Accepted(todo) ==
    CASE todo.kind = "record" -> Pending(todo.i) /\ todo.x <= BalanceDue(invoice[todo.i])
      [] todo.kind = "mark paid" -> Pending(todo.i)
      [] todo.kind = "patch" -> Live(todo.i) /\ PatchAllowed(invoice[todo.i], todo.q)

ReadInvoice(r, todo) ==
    /\ job[r] = Idle
    /\ todo.kind \in {"record", "mark paid", "patch"}
    /\ Accepted(todo)
    /\ Goto(r, [step |-> "write", todo |-> todo, row |-> invoice[todo.i]])
    /\ UNCHANGED lock /\ Unchanged

WriteInvoice(r) ==
    LET todo == job[r].todo
        read == job[r].row
        new == Decided(todo, read)
    IN  /\ job[r].step = "write"
        /\ Free(r, todo.i)
        /\ invoice' = [invoice EXCEPT ![todo.i] = Merged(@, read, new)]
        /\ IF new.status = "cancelled" /\ read.status = "pending"
           THEN Goto(r, [step |-> "refresh", todo |-> todo])
           ELSE Goto(r, Over)
        /\ UNCHANGED <<payment, share, owner, lock>>

----------------------------------------------------------------------------
(* Cancelling goes on in a second transaction: the invoice is read again,  *)
(* its shares are summed, and what they come to is taken off.              *)

Refresh(r) ==
    /\ job[r].step = "refresh"
    /\ Goto(r, [step |-> "sum", todo |-> job[r].todo, row |-> invoice[job[r].todo.i]])
    /\ UNCHANGED lock /\ Unchanged

SumShares(r) ==
    LET back == [p \in Payments |-> LET x == share[p][job[r].todo.i] IN IF x > 0 THEN x ELSE 0]
    IN  /\ job[r].step = "sum"
        /\ IF SumFunction(back) = 0
           THEN Goto(r, Over)
           ELSE Goto(r, [step |-> "release", todo |-> job[r].todo, row |-> job[r].row, back |-> back])
        /\ UNCHANGED lock /\ Unchanged

ReleaseUpdate(r) ==
    /\ job[r].step = "release"
    /\ Take(r, job[r].todo.i)
    /\ Goto(r, [job[r] EXCEPT !.step = "give back"])
    /\ Unchanged

(* Its negative ledger rows point to the payments: without one of those    *)
(* the whole transaction fails.                                            *)
ReleaseCommit(r) ==
    LET i == job[r].todo.i
        read == job[r].row
        back == job[r].back
    IN  /\ job[r].step = "give back"
        /\ \A row \in Wants(r) : Free(r, row)
        /\ IF \A p \in Wants(r) : payment[p].place = "live"
           THEN /\ invoice' = [invoice EXCEPT
                       ![i] = Merged(@, read, Reversed(read, SumFunction(back)))]
                /\ share' = [p \in Payments |-> [share[p] EXCEPT ![i] = @ - back[p]]]
           ELSE UNCHANGED <<invoice, share>>
        /\ End(r)
        /\ UNCHANGED <<payment, owner>>

----------------------------------------------------------------------------
(* Customer payments: the payment is locked, then the invoices, and what   *)
(* is decided is decided on the locked rows.                               *)

Orders(split) == SetToSeqs({i \in Invoices : split[i] > 0})

LockNext(todo, order, split) ==
    [step |-> "lock", todo |-> todo, order |-> order, split |-> split, rows |-> <<>>]

StartReceive(r, todo) ==
    /\ job[r] = Idle
    /\ todo.kind = "receive"
    /\ payment[todo.p].place = "unborn"
    /\ \A s \in Requests \ {r} : job[s].step = "lock" => job[s].todo.p # todo.p
    /\ SumFunction(todo.split) <= todo.x
    /\ \E order \in Orders(todo.split) :
         Goto(r, LockNext(todo, order, todo.split))
    /\ UNCHANGED lock /\ Unchanged

StartOnPayment(r, todo) ==
    /\ job[r] = Idle
    /\ todo.kind \in {"apply", "delete"}
    /\ payment[todo.p].place # "unborn"
    /\ Goto(r, [step |-> "payment", todo |-> todo])
    /\ UNCHANGED lock /\ Unchanged

\* Mutant: no FOR UPDATE on the payment.
LockPaymentUnlocked(r) ==
    LET todo == job[r].todo
        split == IF todo.kind = "apply" THEN todo.split ELSE share[todo.p]
    IN  /\ job[r].step = "payment"
        /\ IF \/ payment[todo.p].place # "live"
              \/ todo.kind = "apply" /\ SumFunction(split) > UnusedOf(todo.p)
           THEN End(r)
           ELSE /\ \E order \in Orders(split) : Goto(r, LockNext(todo, order, split))
                /\ UNCHANGED lock
        /\ Unchanged

(* With the payment locked, what is left of it (or where it went) is read. *)
LockPayment(r) ==
    LET todo == job[r].todo
        p == todo.p
        split == IF todo.kind = "apply" THEN todo.split ELSE share[p]
        refused == \/ payment[p].place # "live"
                   \/ todo.kind = "apply" /\ SumFunction(split) > UnusedOf(p)
    IN  /\ job[r].step = "payment"
        /\ Free(r, p)
        /\ IF refused
           THEN End(r)
           ELSE /\ Take(r, p)
                /\ \E order \in Orders(split) :
                     Goto(r, LockNext(todo, order, split))
        /\ Unchanged

LockInvoice(r) ==
    LET i == Head(job[r].order)
        rows == job[r].rows
        read == [j \in DOMAIN rows \cup {i} |-> IF j = i THEN invoice[i] ELSE rows[j]]
    IN  /\ job[r].step = "lock"
        /\ job[r].order # <<>>
        /\ Take(r, i)
        /\ Goto(r, [job[r] EXCEPT !.order = Tail(@), !.rows = read])
        /\ Unchanged

AllLocked(r) == job[r].step = "lock" /\ job[r].order = <<>>

CommitSplit(r) ==
    LET todo == job[r].todo
        p == todo.p
        rows == job[r].rows
        customer == IF todo.kind = "receive" THEN todo.c ELSE payment[p].customer
        allowed == \A i \in DOMAIN rows : ShareAllowed(rows[i], customer, todo.split[i])
    IN  /\ AllLocked(r)
        /\ todo.kind \in {"receive", "apply"}
        /\ IF ~allowed
           THEN Unchanged
           ELSE /\ invoice' = [i \in Invoices |->
                     IF i \in DOMAIN rows
                     THEN Merged(invoice[i], rows[i], Credited(rows[i], todo.split[i]))
                     ELSE invoice[i]]
                /\ share' = [share EXCEPT ![p] = [i \in Invoices |-> @[i] + todo.split[i]]]
                /\ payment' = IF todo.kind = "apply" THEN payment ELSE
                     [payment EXCEPT ![p] =
                        [place |-> "live", customer |-> todo.c, amount |-> todo.x]]
                /\ UNCHANGED owner
        /\ End(r)

(* What was read of the shares is reversed; rows of the payment that do    *)
(* not cancel out stay behind, pointing to no payment.                     *)
CommitDelete(r) ==
    LET p == job[r].todo.p
        rows == job[r].rows
        split == job[r].split
        reversed(i) == IF i \in DOMAIN rows THEN split[i] ELSE 0
        row(i) == IF i \in DOMAIN rows
                  THEN Merged(invoice[i], rows[i], Reversed(rows[i], split[i]))
                  ELSE invoice[i]
    IN  /\ AllLocked(r)
        /\ job[r].todo.kind = "delete"
        /\ invoice' = [i \in Invoices |->
             [row(i) EXCEPT !.direct = @ + (share[p][i] - reversed(i))]]
        /\ share' = [share EXCEPT ![p] = [i \in Invoices |-> 0]]
        /\ payment' = [payment EXCEPT ![p].place = "bin"]
        /\ UNCHANGED owner
        /\ End(r)

----------------------------------------------------------------------------
Begin(r) ==
    \E todo \in Jobs : ReadInvoice(r, todo) \/ StartReceive(r, todo) \/ StartOnPayment(r, todo)

Proceed(r) ==
    \/ WriteInvoice(r) \/ Refresh(r) \/ SumShares(r) \/ ReleaseUpdate(r) \/ ReleaseCommit(r)
    \/ LockPayment(r) \/ LockInvoice(r) \/ CommitSplit(r) \/ CommitDelete(r)

Victim(r) == InCircle(r) /\ End(r) /\ Unchanged

Die(r) == MayDie /\ job[r] \notin {Idle, Over} /\ End(r) /\ Unchanged

ConcurrentNext == \E r \in Requests : Begin(r) \/ Proceed(r) \/ Victim(r) \/ Die(r)

(* A thread that can go on does; the database finds every circle. *)
ConcurrentSpec ==
    /\ ConcurrentInit /\ [][ConcurrentNext]_allVars
    /\ \A r \in Requests : WF_allVars(Proceed(r)) /\ WF_allVars(Victim(r))

----------------------------------------------------------------------------
(* Properties *)

(* Requests that lock what they read (receiving, applying and deleting     *)
(* customer payments) are serializable: every commit is one atomic step of *)
(* Billing.tla, on the rows as they are when it happens.                   *)
CommitsAreAtomic == [][Next]_vars

(* The other promise of the payment lock: what is left of a payment is     *)
(* never offered twice, even beside requests that take no lock.            *)
(* (SharesWithinPayment, of Billing.tla.)                                  *)

(* No request waits forever: locks are given up, circles are broken.       *)
EveryRequestEnds == \A r \in Requests : (job[r] # Idle) ~> (job[r] = Over)

=============================================================================
