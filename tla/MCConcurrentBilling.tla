------------------------ MODULE MCConcurrentBilling ------------------------
(* Small instances of ConcurrentBilling: see the .cfg files that use it. *)
EXTENDS ConcurrentBilling, TLC

RequestSymmetry == Permutations(Requests)

Splits1 == {s \in Splits : \E i \in Invoices : s[i] > 0}

Keep == [status |-> "keep", items |-> Absent, discount |-> Absent, advance |-> Absent,
         amount |-> Absent, subtotal |-> Absent, paidAt |-> "keep"]

Instalments == [kind : {"record"}, i : Invoices, x : Money \ {0}]
Settlements == [kind : {"mark paid"}, i : Invoices]
Cancellations == [kind : {"patch"}, i : Invoices, q : {[Keep EXCEPT !.status = "cancelled"]}]
Receipts == [kind : {"receive"}, p : Payments, c : Customers, x : {Worth}, split : Splits1]
Applications == [kind : {"apply"}, p : Payments, split : Splits1]
Deletions == [kind : {"delete"}, p : Payments]

LockedJobs == Receipts \cup Applications \cup Deletions
UnlockedJobs == Instalments \cup Settlements \cup Cancellations
AllJobs == LockedJobs \cup UnlockedJobs

=============================================================================
