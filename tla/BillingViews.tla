---------------------------- MODULE BillingViews ----------------------------
(***************************************************************************)
(* What the screens say about the state of BillingBin.tla.  Each computes  *)
(* the customers' money by a query of its own: the customer list, the      *)
(* profiles of a customer and of a company, the statement, the figures on  *)
(* top of the invoice list and on the dashboard, and the description of a  *)
(* payment.  Nothing here changes state.                                   *)
(***************************************************************************)
EXTENDS BillingBin, FiniteSets

Sum(S, value(_)) == SumFunction([x \in S |-> value(x)])

Of(customers) == {i \in Invoices : Live(i) /\ owner[invoice[i].project] \in customers}

With(invoices, status) == {i \in invoices : invoice[i].status = status}

Amount(i) == invoice[i].amount
Balance(i) == BalanceDue(invoice[i])

(* What credit_of and unused_of show: never negative.                      *)
PaymentsOf(customers) ==
    {p \in Payments : payment[p].place = "live" /\ payment[p].customer \in customers}
Credit(c) == Sum(PaymentsOf({c}), UnusedOf)

(* describe: where a payment went, and what is left of it.                 *)
Described(p) ==
    [applied |-> [i \in {k \in Invoices : Live(k) /\ share[p][k] > 0} |-> share[p][i]],
     unused  |-> UnusedOf(p)]

----------------------------------------------------------------------------
(* The customers' table: one badge per customer.                           *)
ListRow(c) ==
    LET outstanding == Sum(With(Of({c}), "pending"), Balance) IN
    [outstanding |-> outstanding,
     invoices |-> Cardinality(Of({c})),
     status |-> IF outstanding > 0 THEN "pending"
                ELSE IF With(Of({c}), "paid") # {} THEN "paid" ELSE "no_invoices"]

(* The invoices a payment may be split over.                               *)
OpenInvoices(c) == {i \in With(Of({c}), "pending") : Balance(i) > 0}

Profile(c) ==
    [total_spent |-> Sum(With(Of({c}), "paid"), Amount),
     outstanding |-> Sum(With(Of({c}), "pending"), Balance),
     pending |-> Cardinality(With(Of({c}), "pending")),
     credit |-> Credit(c)]

CompanyProfile(contacts) ==
    [total_spent |-> Sum(With(Of(contacts), "paid"), Amount),
     outstanding |-> Sum(With(Of(contacts), "pending"), Balance),
     invoices |-> Cardinality(Of(contacts)),
     pending |-> Cardinality(With(Of(contacts), "pending"))]

----------------------------------------------------------------------------
(* The statement, over the invoices of a period.                           *)

\* Mutant: a paid invoice shows what it has received.
PaidAsReceived(i) == invoice[i].advance

Paid(i) == IF invoice[i].status = "paid" THEN Amount(i) ELSE Amount(i) - Balance(i)
Unpaid(i) == Amount(i) - Paid(i)

\* Mutant: a cancelled invoice is listed as owed.
OnStatementAll(c) == Of({c})

(* Cancelled invoices were never owed.                                     *)
OnStatement(c) == With(Of({c}), "pending") \cup With(Of({c}), "paid")

Statement(c, period) ==
    LET rows == OnStatement(c) \cap period IN
    [total_billed |-> Sum(rows, Amount),
     total_paid |-> Sum(rows, Paid),
     total_balance |-> Sum(rows, Unpaid),
     total_outstanding |-> Sum(With(OnStatement(c), "pending"), Balance),
     credit |-> Sum(PaymentsOf({c}), LAMBDA p : Described(p).unused)]

----------------------------------------------------------------------------
(* The figures of the whole shop.                                          *)
AllInvoices == {i \in Invoices : Live(i)}

InvoiceSummary ==
    [total_outstanding |-> Sum(With(AllInvoices, "pending"),
                               LAMBDA i : IF Amount(i) > invoice[i].advance
                                          THEN Amount(i) - invoice[i].advance ELSE 0),
     all |-> Cardinality(AllInvoices),
     unpaid |-> Cardinality(With(AllInvoices, "pending")),
     paid |-> Cardinality(With(AllInvoices, "paid")),
     cancelled |-> Cardinality(With(AllInvoices, "cancelled"))]

Dashboard ==
    [revenue |-> Sum(With(AllInvoices, "paid"), Amount),
     outstanding |-> Sum(With(AllInvoices, "pending"), Balance),
     pending |-> Cardinality(With(AllInvoices, "pending"))]

TopCustomers == [c \in Customers |-> Sum(With(Of({c}), "paid"), Amount)]

----------------------------------------------------------------------------
(* Properties *)

(* Whichever screen is asked, a customer owes the same, also when only     *)
(* part of it is in a statement's period, and the customers' figures add   *)
(* up to the shop's.                                                       *)
ViewsAgree ==
    /\ \A c \in Customers :
         LET whole == Statement(c, Invoices) IN
         /\ ListRow(c).outstanding = Profile(c).outstanding
         /\ whole.total_outstanding = Profile(c).outstanding
         /\ whole.total_balance = whole.total_outstanding
         /\ whole.credit = Profile(c).credit
         /\ ListRow(c).status = "pending" <=> OpenInvoices(c) # {}
         /\ \A k \in Invoices :
              LET part == Statement(c, {i \in Invoices : i <= k}) IN
              /\ part.total_billed = part.total_paid + part.total_balance
              /\ part.total_balance <= part.total_outstanding
    /\ Sum(Customers, LAMBDA c : Profile(c).outstanding) = Dashboard.outstanding
    /\ CompanyProfile(Customers).outstanding = InvoiceSummary.total_outstanding
    /\ InvoiceSummary.total_outstanding = Dashboard.outstanding
    /\ CompanyProfile(Customers).total_spent = Dashboard.revenue
    /\ Sum(Customers, LAMBDA c : TopCustomers[c]) = Dashboard.revenue
    /\ InvoiceSummary.all = InvoiceSummary.unpaid + InvoiceSummary.paid + InvoiceSummary.cancelled

(* All that the statements show as paid was either taken on an invoice     *)
(* itself or is listed under the payment it came from, through every way   *)
(* money is applied, reversed, released, binned and restored.              *)
StatementsReconcile ==
    Sum(Customers, LAMBDA c : Statement(c, Invoices).total_paid)
      = Sum(AllInvoices \ With(AllInvoices, "cancelled"), LAMBDA i : invoice[i].direct)
        + Sum(PaymentsOf(Customers),
              LAMBDA p : SumFunction(Described(p).applied))

=============================================================================
