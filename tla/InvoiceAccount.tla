--------------------------- MODULE InvoiceAccount ---------------------------
(***************************************************************************)
(* What an invoice promises the person who reads it, with nothing said of  *)
(* how the money got there: an open invoice may be amended and paid up to  *)
(* what it asks for; it is settled only in full; a void one is final; a    *)
(* settled one opens again only by giving money back; one that is put away *)
(* comes back as it was.  One step may move several invoices, as one       *)
(* customer payment does.                                                  *)
(***************************************************************************)
EXTENDS Integers

CONSTANT Invoices

VARIABLE account

States == {"none", "open", "settled", "void"}

Account == [state : States, here : BOOLEAN, owed : Nat, received : Nat]

Covered(a) == a.received <= a.owed

Raise(a, b) == a.state = "none" /\ b.state = "open" /\ b.here /\ Covered(b)

Amend(a, b) == a.state = "open" /\ b.state = "open" /\ Covered(b)

Settle(a, b) ==
    /\ a.state = "open" /\ b.state = "settled"
    /\ b.owed = a.owed /\ b.received = b.owed

Cancel(a, b) == a.state = "open" /\ b.state = "void" /\ Covered(b)

Reopen(a, b) ==
    /\ a.state = "settled" /\ b.state = "open"
    /\ b.owed = a.owed /\ b.received < a.received

(* Only an invoice that is here changes, and it stays here. *)
Change(a, b) ==
    /\ a.here /\ b.here
    /\ Amend(a, b) \/ Settle(a, b) \/ Cancel(a, b) \/ Reopen(a, b)

(* Into the bin, or out of it: nothing else of it changes. *)
PutAway(a, b) ==
    /\ a.state # "none"
    /\ b.here # a.here
    /\ b.state = a.state /\ b.owed = a.owed /\ b.received = a.received

Move(a, b) == Raise(a, b) \/ Change(a, b) \/ PutAway(a, b)

Init == account = [i \in Invoices |->
           [state |-> "none", here |-> FALSE, owed |-> 0, received |-> 0]]

Next ==
    /\ account' \in [Invoices -> Account]
    /\ \A i \in Invoices : account'[i] = account[i] \/ Move(account[i], account'[i])

Spec == Init /\ [][Next]_account

=============================================================================
