---------------------------- MODULE BillingBin ----------------------------
(***************************************************************************)
(* Billing.tla with the bin's other half: a deleted invoice can come back. *)
(*                                                                         *)
(* Deleting an invoice takes a snapshot of its row and of its ledger rows  *)
(* and removes them, so the payments those rows point to have that money   *)
(* as credit again.  Restoring it inserts the rows with their old ids.  A  *)
(* ledger row whose payment is gone by then comes back pointing to nothing *)
(* (customer_payment_id is nullable): what it carried counts as money      *)
(* taken on the invoice itself from then on.                               *)
(*                                                                         *)
(* An item erased from the bin, by hand or after its 14 days, is one that  *)
(* is never restored: nothing else reads it.                               *)
(***************************************************************************)
EXTENDS Billing

\* Mutant: the snapshot's link is put back whether or not its payment exists.
LostLinksNone(i) == [p \in Payments |-> 0]

(* The rows of a binned invoice whose payment is not there to point to. *)
LostLinks(i) ==
    [p \in Payments |-> IF payment[p].place = "live" THEN 0 ELSE share[p][i]]

\* Mutant: rows whose payment is gone are not put back.
RestoreInvoiceLosingRows(i) ==
    LET lost == LostLinks(i) IN
    /\ invoice[i].place = "bin"
    /\ invoice' = [invoice EXCEPT ![i].place = "live"]
    /\ share' = [p \in Payments |-> [share[p] EXCEPT ![i] = @ - lost[p]]]
    /\ UNCHANGED <<payment, owner>>

RestoreInvoice(i) ==
    LET lost == LostLinks(i) IN
    /\ invoice[i].place = "bin"
    /\ invoice' = [invoice EXCEPT ![i].place = "live",
                                  ![i].direct = @ + SumFunction(lost)]
    /\ share' = [p \in Payments |-> [share[p] EXCEPT ![i] = @ - lost[p]]]
    /\ UNCHANGED <<payment, owner>>

BinNext ==
    \/ Next
    \/ \E i \in Invoices : RestoreInvoice(i)

BinSpec == Init /\ [][BinNext]_vars

----------------------------------------------------------------------------
(* Properties: those of Billing.tla that survive a restored invoice are    *)
(* checked as they are; these are about the restoring itself.              *)

(* Only a restored invoice, whose money was spent elsewhere while it was   *)
(* in the bin, can take a payment's shares above the payment: no split, no *)
(* use of credit and no reversal does, not even on a payment that already  *)
(* is over-used.                                                           *)
OverUse(p) == IF UsedOf(p) > payment[p].amount THEN UsedOf(p) - payment[p].amount ELSE 0
OverUseStep ==
    \A p \in Payments :
        payment[p].place = "live" /\ OverUse(p)' > OverUse(p)
        => \E i \in Invoices : invoice[i].place = "bin" /\ Live(i)'
OverUseOnlyByRestore == [][OverUseStep]_vars

=============================================================================
