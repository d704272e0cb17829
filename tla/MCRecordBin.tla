---------------------------- MODULE MCRecordBin ----------------------------
(* Instances of RecordBin.tla for TLC. *)
EXTENDS RecordBin, TLC

OneOfEach ==
    {"a company", "a customer", "a payment", "a request", "a bill", "an invoice"}

OneOfEachTable ==
    [r \in OneOfEach |->
        CASE r = "a company" -> "companies" [] r = "a customer" -> "customers"
          [] r = "a payment" -> "customer_payments" [] r = "a request" -> "job_requests"
          [] r = "a bill" -> "bills" [] r = "an invoice" -> "invoices"]

(* Without the company, or without the bill and the payment. *)
TwoViews == {{"a company"}, {"a payment", "a bill", "an invoice"}}

Interchangeable == Permutations(Items) \cup Permutations(Requests)

=============================================================================
