------------------------------ MODULE Billing ------------------------------
(***************************************************************************)
(* Invoices and the money put on them, one request handler per action.     *)
(*                                                                         *)
(* An invoice carries a running total of money received (`advance`) and a  *)
(* ledger of signed payment rows.  A row either stands on its own (an      *)
(* advance, an instalment, an admin's correction) or is a share of a       *)
(* customer payment: one sum split over several invoices, the rest kept as *)
(* credit.  Nothing stores what is used of a payment: it is the sum of the *)
(* rows that point to it.                                                  *)
(*                                                                         *)
(* The ledger is kept as the three sums the code reads from it:            *)
(*   history    all rows of an invoice,                                    *)
(*   direct     its rows that point to no customer payment,                *)
(*   share      its rows grouped by the payment they point to.             *)
(* Money is a whole number of paise; a request is one atomic step here     *)
(* (ConcurrentBilling.tla interleaves them).                               *)
(***************************************************************************)
EXTENDS Integers, FiniteSets, Functions

CONSTANTS
    Invoices,      \* invoice ids, handed out in increasing order
    Payments,      \* customer payment ids
    Projects,
    Customers,
    Totals,        \* what the line items of an invoice add up to
    Discounts,     \* the discounts people give
    Money,         \* the amounts people pay
    StatusEdits,   \* the statuses an admin asks for in a PATCH
    AdvanceEdits,  \* the advances an admin types over the recorded one
    RawAmounts,    \* values a PATCH puts in `amount` itself
    RawSubtotals,  \* values a PATCH puts in `subtotal` itself
    RawPaidAt,     \* what a PATCH does to `paid_at` itself
    LedgerFloor    \* bound: no correction takes `direct` below -LedgerFloor

ASSUME IdsAssumption ==
    /\ Invoices \subseteq Nat
    /\ IsFiniteSet(Invoices) /\ IsFiniteSet(Payments) /\ IsFiniteSet(Customers)
    /\ Projects # {}
    /\ Customers # {}
ASSUME MoneyAssumption ==
    /\ Totals \cup Discounts \cup Money \subseteq Nat
    /\ 0 \in Money
    /\ AdvanceEdits \subseteq Nat
    /\ RawAmounts \cup RawSubtotals \subseteq Nat
    /\ LedgerFloor \in Nat
ASSUME EditsAssumption ==
    /\ StatusEdits \subseteq {"pending", "paid", "cancelled"}
    /\ RawPaidAt \subseteq {"set", "clear"}

VARIABLES
    invoice,   \* the invoice rows
    payment,   \* the customer payment rows
    share,     \* share[p][i]: sum of invoice i's rows that point to payment p
    owner      \* the customer a project belongs to

vars == <<invoice, payment, share, owner>>

----------------------------------------------------------------------------
(* Rows *)

Absent == -1          \* a money field the PATCH body leaves out

Places == {"unborn", "live", "bin"}

InvoiceRow ==
    [place : Places, project : Projects,
     status : {"pending", "paid", "cancelled"},
     subtotal : Nat, discount : Nat, amount : Nat, advance : Nat,
     paidAt : BOOLEAN, direct : Int, history : Int]

PaymentRow == [place : Places, customer : Customers, amount : Nat]

Patch ==
    [status : StatusEdits \cup {"keep"},
     items : Totals \cup {Absent},        \* the total of the new line items
     discount : Discounts \cup {Absent},
     advance : AdvanceEdits \cup {Absent},
     amount : RawAmounts \cup {Absent},
     subtotal : RawSubtotals \cup {Absent},
     paidAt : RawPaidAt \cup {"keep"}]

NewInvoice(j, total, discount, advance) ==
    [place |-> "live", project |-> j, status |-> "pending",
     subtotal |-> total, discount |-> discount, amount |-> total - discount,
     advance |-> advance, paidAt |-> FALSE,
     direct |-> advance, history |-> advance]

Live(i) == invoice[i].place = "live"

Pending(i) == Live(i) /\ invoice[i].status = "pending"

(* Ids come from a sequence: the next one is the smallest never used. *)
NextId(i) ==
    /\ invoice[i].place = "unborn"
    /\ \A k \in Invoices : k < i => invoice[k].place # "unborn"

BalanceDue(r) == IF r.amount > r.advance THEN r.amount - r.advance ELSE 0

\* Mutant: the reversal forgets to stop at zero.
TakenOffUnclamped(a, x) == a - x

(* What `advance` is left with when x is taken off: never below zero. *)
TakenOff(a, x) == IF a > x THEN a - x ELSE 0

\* Mutant: a correction downward writes no ledger row.
SavedWhenRaised(r, new) ==
    LET change == IF new.advance > r.advance THEN new.advance - r.advance ELSE 0
    IN [new EXCEPT !.direct = r.direct + change, !.history = r.history + change]

(* update_invoice: the new values, and one ledger row for the difference   *)
(* they make to `advance`.                                                 *)
Saved(r, new) ==
    [new EXCEPT !.direct  = r.direct + (new.advance - r.advance),
                !.history = r.history + (new.advance - r.advance)]

\* Mutant: the status says paid and the balance stays.
SettledKeepsAdvance(r) == [r EXCEPT !.status = "paid", !.paidAt = TRUE]

(* What mark-paid and record-payment ask update_invoice to save. *)
Settled(r) == [r EXCEPT !.status = "paid", !.advance = r.amount, !.paidAt = TRUE]
Instalment(r, x) ==
    IF r.advance + x >= r.amount THEN Settled(r) ELSE [r EXCEPT !.advance = @ + x]

(* One of a payment's shares reaches an invoice: settled when it covers it. *)
Credited(r, x) ==
    LET settled == r.advance + x >= r.amount IN
    [r EXCEPT !.advance = IF settled THEN r.amount ELSE r.advance + x,
              !.status  = IF settled THEN "paid" ELSE r.status,
              !.paidAt  = settled \/ r.paidAt,
              !.history = r.history + x]

\* Mutants: the invoice is not reopened; the share goes without a ledger row.
ReversedStaysPaid(r, x) ==
    [r EXCEPT !.advance = TakenOff(r.advance, x), !.history = r.history - x]
ReversedSilently(r, x) ==
    LET reopened == r.status = "paid" /\ TakenOff(r.advance, x) < r.amount IN
    [r EXCEPT !.advance = TakenOff(r.advance, x),
              !.status  = IF reopened THEN "pending" ELSE r.status,
              !.paidAt  = r.paidAt /\ ~reopened]

(* A share comes back off: a paid invoice that is now short is open again. *)
Reversed(r, x) ==
    LET reopened == r.status = "paid" /\ TakenOff(r.advance, x) < r.amount IN
    [r EXCEPT !.advance = TakenOff(r.advance, x),
              !.status  = IF reopened THEN "pending" ELSE r.status,
              !.paidAt  = r.paidAt /\ ~reopened,
              !.history = r.history - x]

(* The rows that point to a payment, summed: what cancelling gives back. *)
FromPayments(r) == r.history - r.direct

(* Everything a payment has put on invoices that still exist. *)
UsedOf(p) == SumFunction([i \in Invoices |-> IF Live(i) THEN share[p][i] ELSE 0])

\* Mutant: credit is what was paid, whatever is used of it.
UnusedIsAll(p) == payment[p].amount

UnusedOf(p) ==
    IF payment[p].amount > UsedOf(p) THEN payment[p].amount - UsedOf(p) ELSE 0

(* The project's most recent invoice: the only one creation looks at. *)
IsLatest(i, j) ==
    /\ Live(i) /\ invoice[i].project = j
    /\ \A k \in Invoices : Live(k) /\ invoice[k].project = j => k <= i

----------------------------------------------------------------------------
Init ==
    /\ invoice \in [Invoices ->
           [place : {"unborn"}, project : {CHOOSE j \in Projects : TRUE},
            status : {"pending"}, subtotal : {0}, discount : {0}, amount : {0},
            advance : {0}, paidAt : {FALSE}, direct : {0}, history : {0}]]
    /\ payment \in [Payments ->
           [place : {"unborn"}, customer : {CHOOSE c \in Customers : TRUE},
            amount : {0}]]
    /\ share = [p \in Payments |-> [i \in Invoices |-> 0]]
    /\ owner \in [Projects -> Customers]

(* An invoice for a project; refused while the project's latest is open. *)
CreateInvoice(i, j, total, discount, advance) ==
    /\ NextId(i)
    /\ ~\E k \in Invoices : IsLatest(k, j) /\ invoice[k].status = "pending"
    /\ discount <= total
    /\ advance <= total - discount
    /\ invoice' = [invoice EXCEPT ![i] = NewInvoice(j, total, discount, advance)]
    /\ UNCHANGED <<payment, share, owner>>

Or(value, default) == IF value = Absent THEN default ELSE value

\* Mutant: a new discount is saved beside the old amount.
PatchedStaleAmount(r, q) ==
    LET discount == Or(q.discount, r.discount)
    IN  [r EXCEPT
           !.status = IF q.status = "keep" THEN r.status ELSE q.status,
           !.subtotal = IF q.items # Absent THEN q.items ELSE r.subtotal,
           !.discount = discount,
           !.amount = IF q.items # Absent THEN q.items - discount ELSE r.amount,
           !.advance = Or(q.advance, r.advance),
           !.paidAt = r.paidAt \/ (q.status = "paid" /\ r.status = "pending")]

(* The row as the setattr loop leaves it.  `amount` is recomputed when the *)
(* items or the discount change and taken as sent otherwise.               *)
Patched(r, q) ==
    LET discount == Or(q.discount, r.discount)
        subtotal == IF q.items # Absent THEN q.items ELSE Or(q.subtotal, r.subtotal)
    IN  [r EXCEPT
           !.status = IF q.status = "keep" THEN r.status ELSE q.status,
           !.subtotal = subtotal,
           !.discount = discount,
           !.amount = CASE q.items # Absent -> q.items - discount
                        [] q.items = Absent /\ discount # r.discount -> r.subtotal - discount
                        [] OTHER -> Or(q.amount, r.amount),
           !.advance = Or(q.advance, r.advance),
           !.paidAt = \/ q.status = "paid" /\ r.status = "pending"
                      \/ q.paidAt = "set"
                      \/ q.paidAt = "keep" /\ r.paidAt]

\* Mutants: a discount below the advance; a closed invoice's status.
PatchIgnoresAdvance(r, q) ==
    LET new == Patched(r, q) IN
    /\ new.status # r.status => r.status = "pending"
    /\ q.items # Absent => r.status = "pending" /\ new.discount <= new.subtotal
    /\ new.discount # r.discount => r.status = "pending" /\ new.discount <= new.subtotal
    /\ new.advance # r.advance => r.status = "pending" /\ new.advance <= new.amount
PatchReopensClosed(r, q) ==
    LET new == Patched(r, q) IN
    /\ new.discount <= new.subtotal
    /\ new.advance <= new.amount
    /\ <<new.subtotal, new.discount, new.advance>> # <<r.subtotal, r.discount, r.advance>>
         => r.status = "pending"

(* The checks of service_update, on the row it read. *)
PatchAllowed(r, q) ==
    LET new == Patched(r, q) IN
    /\ new.status # r.status => r.status = "pending"
    /\ q.items # Absent =>
         /\ r.status = "pending"
         /\ new.discount <= new.subtotal
         /\ new.advance <= new.amount
    /\ q.items = Absent /\ new.discount # r.discount =>
         /\ r.status = "pending"
         /\ new.discount <= r.subtotal
         /\ r.advance <= new.amount
    /\ q.items = Absent /\ new.advance # r.advance =>
         /\ r.status = "pending"
         /\ new.advance <= new.amount

(* Cancelling gives every share of a customer payment back as credit. *)
Released(r) ==
    IF FromPayments(r) > 0 THEN Reversed(r, FromPayments(r)) ELSE r

\* Mutant: cancelling leaves the customer's money on the invoice.
UpdateWithoutRelease(i, q) ==
    LET saved == Saved(invoice[i], Patched(invoice[i], q)) IN
    /\ Live(i)
    /\ PatchAllowed(invoice[i], q)
    /\ saved.direct >= -LedgerFloor
    /\ invoice' = [invoice EXCEPT ![i] = saved]
    /\ UNCHANGED <<payment, share, owner>>

UpdateInvoice(i, q) ==
    LET saved == Saved(invoice[i], Patched(invoice[i], q))
        cancelling == Pending(i) /\ q.status = "cancelled"
    IN  /\ Live(i)
        /\ PatchAllowed(invoice[i], q)
        /\ saved.direct >= -LedgerFloor
        /\ IF cancelling
           THEN /\ invoice' = [invoice EXCEPT ![i] = Released(saved)]
                /\ share' = [p \in Payments |-> [share[p] EXCEPT ![i] = 0]]
           ELSE /\ invoice' = [invoice EXCEPT ![i] = saved]
                /\ UNCHANGED share
        /\ UNCHANGED <<payment, owner>>

MarkPaid(i) ==
    LET r == invoice[i] IN
    /\ Pending(i)
    /\ invoice' = [invoice EXCEPT ![i] = Saved(r, Settled(r))]
    /\ UNCHANGED <<payment, share, owner>>

(* An instalment taken on the invoice itself; the last one settles it. *)
RecordPayment(i, x) ==
    /\ Pending(i)
    /\ x > 0
    /\ x <= BalanceDue(invoice[i])
    /\ invoice' = [invoice EXCEPT ![i] = Saved(@, Instalment(@, x))]
    /\ UNCHANGED <<payment, share, owner>>

DeleteInvoice(i) ==
    /\ Live(i)
    /\ invoice' = [invoice EXCEPT ![i].place = "bin"]
    /\ UNCHANGED <<payment, share, owner>>

(* alloc[i] is payment p's new share of invoice i; 0: not among them. *)
Splits == [Invoices -> Money]

ShareAllowed(r, customer, x) ==
    /\ r.place = "live" /\ r.status = "pending"
    /\ owner[r.project] = customer
    /\ x <= BalanceDue(r)

SplitAllowed(customer, available, alloc) ==
    /\ SumFunction(alloc) <= available
    /\ \A i \in Invoices : alloc[i] > 0 => ShareAllowed(invoice[i], customer, alloc[i])

Apply(p, alloc) ==
    /\ invoice' = [i \in Invoices |->
           IF alloc[i] > 0 THEN Credited(invoice[i], alloc[i]) ELSE invoice[i]]
    /\ share' = [share EXCEPT ![p] = [i \in Invoices |-> share[p][i] + alloc[i]]]

ReceivePayment(p, customer, amount, alloc) ==
    /\ payment[p].place = "unborn"
    /\ amount > 0
    /\ SplitAllowed(customer, amount, alloc)
    /\ Apply(p, alloc)
    /\ payment' = [payment EXCEPT ![p] =
           [place |-> "live", customer |-> customer, amount |-> amount]]
    /\ UNCHANGED owner

ApplyCredit(p, alloc) ==
    /\ payment[p].place = "live"
    /\ \E i \in Invoices : alloc[i] > 0
    /\ SplitAllowed(payment[p].customer, UnusedOf(p), alloc)
    /\ Apply(p, alloc)
    /\ UNCHANGED <<payment, owner>>

(* Takes every share back off the invoices it can still reach, and bins   *)
(* the payment, in one transaction.                                       *)
DeletePayment(p) ==
    /\ payment[p].place = "live"
    /\ invoice' = [i \in Invoices |->
           IF Live(i) /\ share[p][i] > 0
           THEN Reversed(invoice[i], share[p][i])
           ELSE invoice[i]]
    /\ share' = [share EXCEPT ![p] =
           [i \in Invoices |-> IF Live(i) THEN 0 ELSE share[p][i]]]
    /\ payment' = [payment EXCEPT ![p].place = "bin"]
    /\ UNCHANGED owner

(* A restored payment is all credit: no share comes back with it. *)
RestorePayment(p) ==
    /\ payment[p].place = "bin"
    /\ payment' = [payment EXCEPT ![p].place = "live"]
    /\ UNCHANGED <<invoice, share, owner>>

(* A project's edit form may give it to another customer at any time. *)
ReassignProject(j, c) ==
    /\ owner' = [owner EXCEPT ![j] = c]
    /\ UNCHANGED <<invoice, payment, share>>

InvoiceStep(i) ==
    \/ \E j \in Projects, total \in Totals, discount \in Discounts, advance \in Money :
         CreateInvoice(i, j, total, discount, advance)
    \/ \E q \in Patch : UpdateInvoice(i, q)
    \/ MarkPaid(i)
    \/ \E x \in Money : RecordPayment(i, x)
    \/ DeleteInvoice(i)

PaymentStep(p) ==
    \/ \E c \in Customers, amount \in Money, alloc \in Splits :
         ReceivePayment(p, c, amount, alloc)
    \/ \E alloc \in Splits : ApplyCredit(p, alloc)
    \/ DeletePayment(p)
    \/ RestorePayment(p)

Next ==
    \/ \E i \in Invoices : InvoiceStep(i)
    \/ \E p \in Payments : PaymentStep(p)
    \/ \E j \in Projects, c \in Customers : ReassignProject(j, c)

Spec == Init /\ [][Next]_vars

----------------------------------------------------------------------------
(* Properties *)

(* Every row has the shape its table gives it, and no share is negative.   *)
TypeOK ==
    /\ invoice \in [Invoices -> InvoiceRow]
    /\ payment \in [Payments -> PaymentRow]
    /\ share \in [Payments -> [Invoices -> Nat]]
    /\ owner \in [Projects -> Customers]

(* What an invoice asks for is always its items less its discount, through *)
(* every order of item, discount and advance edits, and nobody has paid    *)
(* more than that: creation, edits, instalments, shares and reversals all  *)
(* compute it separately.                                                  *)
AmountFollowsItems ==
    \A i \in Invoices :
        invoice[i].amount = invoice[i].subtotal - invoice[i].discount
AdvanceWithinAmount == \A i \in Invoices : invoice[i].advance <= invoice[i].amount

(* The payment history of an invoice never adds up to more than the total  *)
(* received it shows, even after an admin lowered that total under the     *)
(* shares and the shares were taken back (where _reverse stops at zero).   *)
HistoryWithinAdvance == \A i \in Invoices : invoice[i].history <= invoice[i].advance

(* While nobody types over the advance or the amount, the history adds up  *)
(* to exactly the advance: create_invoice, update_invoice, _apply and      *)
(* _reverse each write a row for what they change.                         *)
HistoryMatchesAdvance == \A i \in Invoices : invoice[i].history = invoice[i].advance

(* The shares of a payment never add up to more than the payment, however  *)
(* often its credit is spent, released by a cancelled invoice, freed by a  *)
(* deleted one and spent again.                                            *)
SharesWithinPayment ==
    \A p \in Payments : payment[p].place = "live" => UsedOf(p) <= payment[p].amount

(* A cancelled invoice was never owed: no customer payment stays on it.    *)
CancelledHoldsNoShare ==
    \A i \in Invoices, p \in Payments :
        Live(i) /\ invoice[i].status = "cancelled" => share[p][i] = 0

(* A deleted payment has nothing left on any invoice that exists, so that  *)
(* restoring it brings it back as credit and pays nothing a second time.   *)
BinnedPaymentHoldsNothing ==
    \A i \in Invoices, p \in Payments :
        Live(i) /\ payment[p].place = "bin" => share[p][i] = 0

(* "Paid" means nothing is owed: every way to it but the PATCH of `status` *)
(* moves the advance to the amount, and a reversal reopens the invoice.    *)
PaidMeansSettled ==
    \A i \in Invoices :
        invoice[i].status = "paid" => invoice[i].advance = invoice[i].amount

(* Revenue is counted by `paid_at`: it is there exactly while the invoice  *)
(* is paid, through settling, reopening and settling again.                *)
PaidAtWhilePaid ==
    \A i \in Invoices : invoice[i].paidAt <=> invoice[i].status = "paid"

(* Paid and cancelled are final.  Nothing moves the status or the money of *)
(* a closed invoice but deleting a payment that has a share of a paid one, *)
(* which opens it again with no more received than before.                 *)
Standing(r) == <<r.status, r.amount, r.advance>>
ClosedStep ==
    \A i \in Invoices :
        /\ Live(i) /\ invoice[i].status # "pending"
        /\ Standing(invoice[i]) # Standing(invoice'[i])
        => /\ invoice[i].status = "paid"
           /\ invoice'[i].status = "pending"
           /\ invoice'[i].amount = invoice[i].amount
           /\ invoice'[i].advance <= invoice[i].advance
           /\ \E p \in Payments :
                /\ share[p][i] > 0 /\ share'[p][i] = 0
                /\ payment[p].place = "live" /\ payment'[p].place = "bin"
ClosedStaysClosed == [][ClosedStep]_vars

(* Where nobody forces a value, an invoice keeps what InvoiceAccount.tla   *)
(* promises, whichever of the ways money reaches and leaves it is taken.   *)
State(r) ==
    IF r.place = "unborn" THEN "none"
    ELSE [pending |-> "open", paid |-> "settled", cancelled |-> "void"][r.status]
AccountOf(r) ==
    [state |-> State(r), here |-> r.place = "live",
     owed |-> r.amount, received |-> r.advance]
Promise == INSTANCE InvoiceAccount WITH
    account <- [i \in Invoices |-> AccountOf(invoice[i])]
PromiseKept == Promise!Spec

=============================================================================
