----------------------- MODULE ConcurrentBillingProofs -----------------------
(***************************************************************************)
(* What the locks of ConcurrentBilling.tla are good for, with any number   *)
(* of requests, invoices and payments:                                     *)
(*                                                                         *)
(*   - beside every other request, and whichever of them die, a payment is *)
(*     never spent twice (CreditIsSpentOnceByMany, by SplitsInv);          *)
(*   - requests that all lock what they read are serializable: each commit *)
(*     is one step of Billing.tla (LockedRequestsAreSerial, by LockedInv), *)
(*     so that what its steps keep is kept (LockedRequestsLoseNothing).    *)
(***************************************************************************)
EXTENDS ConcurrentBilling, BillingProofs

----------------------------------------------------------------------------
(***************************************************************************)
(* The invariant.  It follows each request from its locks to its commit:   *)
(* what was decided on a locked payment still holds when the request       *)
(* commits (Decides), and no two requests receive one payment.             *)

Step(r) == job[r].step

(* Every row of this model is an invoice that is there.                    *)
RowsStay ==
    /\ DOMAIN invoice = Invoices
    /\ \A i \in Invoices : "place" \in DOMAIN invoice[i] /\ invoice[i].place = "live"

ShapesOK ==
    /\ payment \in [Payments -> PaymentRow]
    /\ share \in [Payments -> [Invoices -> Int]]
    /\ lock \in [Rows -> Requests \cup {NoOne}]
    /\ DOMAIN job = Requests

(* What a request has been asked and has read, by its step.                *)
TodoOK(r) ==
    /\ Step(r) \in {"idle", "over", "write", "refresh", "sum", "release", "give back",
                    "payment", "lock"}
    /\ Step(r) \in {"write", "refresh", "sum", "release", "give back"} => job[r].todo \in OnInvoice
    /\ Step(r) \in {"release", "give back"} =>
         job[r].back \in [Payments -> Nat] /\ {"step", "todo", "back"} \subseteq DOMAIN job[r]
    /\ Step(r) = "payment" => job[r].todo \in Application \cup Deletion
    /\ Step(r) = "lock" =>
         /\ job[r].todo \in OnPayment /\ job[r].order \in Seq(Invoices)
         /\ DOMAIN job[r] = {"step", "todo", "order", "split", "rows"}

(* What a request with a payment decided on is still so.                   *)
Decides(r) ==
    LET todo == job[r].todo
        split == job[r].split
    IN  Step(r) = "lock" =>
        /\ todo.kind \in {"receive", "apply"} => split = todo.split
        /\ todo.kind = "receive" =>
             payment[todo.p].place = "unborn" /\ SumFunction(split) <= todo.x
        /\ todo.kind \in {"apply", "delete"} =>
             payment[todo.p].place = "live" /\ lock[todo.p] = r
        /\ todo.kind = "apply" => SumFunction(split) <= UnusedOf(todo.p)

ReceivedByOne ==
    \A r, s \in Requests :
        /\ Step(r) = "lock" /\ Step(s) = "lock"
        /\ job[r].todo.kind = "receive" /\ job[s].todo.kind = "receive"
        /\ job[r].todo.p = job[s].todo.p
        => r = s

UnreceivedHoldsNothing ==
    \A p \in Payments : payment[p].place = "unborn" => \A i \in Invoices : share[p][i] = 0

SplitsInv ==
    /\ RowsStay /\ ShapesOK
    /\ \A r \in Requests : TodoOK(r) /\ Decides(r)
    /\ ReceivedByOne /\ UnreceivedHoldsNothing /\ SharesWithinPayment

----------------------------------------------------------------------------
(* Where every request locks what it reads, what it has locked is still    *)
(* what it read.                                                           *)

Locked(r) ==
    LET split == job[r].split
        rows == job[r].rows
        order == job[r].order
    IN  Step(r) = "lock" =>
        /\ job[r].todo.kind = "delete" => split = share[job[r].todo.p]
        /\ DOMAIN rows \cup Range(order) = {i \in Invoices : split[i] > 0}
        /\ \A i \in DOMAIN rows : lock[i] = r /\ rows[i] = invoice[i]

LockedInv ==
    /\ TypeOK /\ SplitsInv
    /\ \A r \in Requests : Locked(r) /\ Step(r) \in {"idle", "over", "payment", "lock"}

----------------------------------------------------------------------------
(* Requests *)

LEMMA PaymentTodo ==
    ASSUME NEW todo \in OnPayment
    PROVE  /\ todo.p \in Payments /\ todo.kind \in {"receive", "apply", "delete"}
           /\ todo.kind = "receive" =>
                todo \in Receipt /\ todo.c \in Customers /\ todo.x \in Money \ {0}
                /\ todo.split \in Splits
           /\ todo.kind = "apply" =>
                todo \in Application /\ todo.split \in Splits
                /\ \E i \in Invoices : todo.split[i] > 0
           /\ todo.kind = "delete" => todo \in Deletion
<1>1. CASE todo \in Receipt
  BY <1>1 DEF Receipt
<1>2. CASE todo \in Application
  BY <1>2 DEF Application
<1>3. CASE todo \in Deletion
  BY <1>3 DEF Deletion
<1> QED
  BY <1>1, <1>2, <1>3 DEF OnPayment

LEMMA InvoiceTodo ==
    ASSUME NEW todo \in OnInvoice
    PROVE  todo.i \in Invoices /\ todo.kind \in {"record", "mark paid", "patch"}
  BY DEF OnInvoice

LEMMA JobKinds ==
    ASSUME NEW todo \in Jobs
    PROVE  /\ todo.kind \in {"record", "mark paid", "patch"} => todo \in OnInvoice
           /\ todo.kind = "receive" => todo \in Receipt
           /\ todo.kind \in {"apply", "delete"} => todo \in Application \cup Deletion
<1>1. todo \in OnInvoice \/ todo \in OnPayment
  BY ConcurrencyAssumption
<1>2. CASE todo \in OnInvoice
  BY <1>2, InvoiceTodo
<1>3. CASE todo \in OnPayment
  BY <1>3, PaymentTodo
<1> QED
  BY <1>1, <1>2, <1>3

(* No two requests have decided on the same payment.                       *)
LEMMA OnePayment ==
    ASSUME SplitsInv, NEW r \in Requests, NEW s \in Requests, r # s,
           Step(r) = "lock", Step(s) = "lock"
    PROVE  job[r].todo.p # job[s].todo.p
<1>1. /\ job[r].todo \in OnPayment /\ Decides(r)
      /\ job[s].todo \in OnPayment /\ Decides(s)
  BY DEF SplitsInv, TodoOK
<1>2. /\ job[r].todo.kind \in {"receive", "apply", "delete"}
      /\ job[s].todo.kind \in {"receive", "apply", "delete"}
  BY <1>1, PaymentTodo
<1> QED
  BY <1>1, <1>2 DEF Decides, SplitsInv, ReceivedByOne

(* Rows are locked in an order that names each of them.                    *)
LEMMA OrderOfSplit ==
    ASSUME NEW split, NEW order \in Orders(split)
    PROVE  /\ order \in Seq(Invoices)
           /\ Range(order) = {i \in Invoices : split[i] > 0}
<1> DEFINE S == {i \in Invoices : split[i] > 0}
           D == 1..Cardinality(S)
<1>1. IsFiniteSet(S) /\ Cardinality(S) \in Nat
  BY FS_Subset, FS_CardinalityType, IdsAssumption
<1>2. order \in [D -> S] /\ \A i, j \in D : i # j => order[i] # order[j]
  BY DEF Orders, SetToSeqs
<1>3. IsFiniteSet(D) /\ Cardinality(D) = Cardinality(S)
  BY <1>1, FS_Interval
<1>4. order \in Seq(Invoices)
  BY <1>1, <1>2
<1>5. order \in Injection(D, S)
  BY <1>2 DEF Injection, IsInjective
<1>6. order \in Surjection(D, S)
  <2> HIDE DEF D, S
  <2> QED
    BY <1>1, <1>3, <1>5, FS_Injection
<1>7. \A i \in S : \E k \in D : order[k] = i
  BY <1>6 DEF Surjection
<1> QED
  BY <1>2, <1>4, <1>7 DEF Range

(* Locks *)

LEMMA TakenLock ==
    ASSUME ShapesOK, NEW r \in Requests, NEW row \in Rows, Take(r, row)
    PROVE  /\ lock' \in [Rows -> Requests \cup {NoOne}] /\ lock'[row] = r
           /\ \A other \in Rows : lock[other] = r => lock'[other] = r
           /\ \A other \in Rows, s \in Requests \ {r} : lock[other] = s => lock'[other] = s
  BY ConcurrencyAssumption DEF Take, Free, ShapesOK, NoOne

LEMMA EndedLocks ==
    ASSUME ShapesOK, NEW r \in Requests, End(r)
    PROVE  /\ job' = [job EXCEPT ![r] = Over]
           /\ lock' \in [Rows -> Requests \cup {NoOne}]
           /\ \A row \in Rows, s \in Requests \ {r} : lock[row] = s => lock'[row] = s
  BY DEF End, Goto, ShapesOK, NoOne

(* What is used of a payment is all of its shares: every invoice is there. *)
LEMMA UsedIsAll ==
    ASSUME NEW rows, NEW shares,
           \A i \in Invoices : rows[i].place = "live" /\ shares[i] \in Int
    PROVE  /\ SumFunction([i \in Invoices |-> IF rows[i].place = "live" THEN shares[i] ELSE 0])
                = SumFunctionOnSet(shares, Invoices)
           /\ SumFunctionOnSet(shares, Invoices) \in Int
<1> DEFINE here == [i \in Invoices |-> IF rows[i].place = "live" THEN shares[i] ELSE 0]
<1>1. DOMAIN here = Invoices /\ \A i \in Invoices : here[i] = shares[i]
  OBVIOUS
<1> HIDE DEF here
<1>2. SumFunction(here) = SumFunctionOnSet(shares, Invoices)
  BY <1>1, SumOfTable, IdsAssumption
<1>3. SumFunctionOnSet(shares, Invoices) \in Int
  BY SumIsInt, IdsAssumption
<1> QED
  BY <1>2, <1>3 DEF here

LEMMA UsedNow ==
    ASSUME RowsStay, ShapesOK, NEW p \in Payments
    PROVE  UsedOf(p) = SumFunctionOnSet(share[p], Invoices) /\ UsedOf(p) \in Int
<1>1. \A i \in Invoices : invoice[i].place = "live" /\ share[p][i] \in Int
  BY DEF RowsStay, ShapesOK
<1>2. /\ SumFunction([i \in Invoices |-> IF invoice[i].place = "live" THEN share[p][i] ELSE 0])
           = SumFunctionOnSet(share[p], Invoices)
      /\ SumFunctionOnSet(share[p], Invoices) \in Int
  BY <1>1, UsedIsAll
<1> QED
  BY <1>2 DEF UsedOf, Live

LEMMA UsedNext ==
    ASSUME RowsStay', ShapesOK', NEW p \in Payments
    PROVE  UsedOf(p)' = SumFunctionOnSet(share'[p], Invoices) /\ UsedOf(p)' \in Int
<1>1. \A i \in Invoices : invoice'[i].place = "live" /\ share'[p][i] \in Int
  BY DEF RowsStay, ShapesOK
<1>2. /\ SumFunction([i \in Invoices |-> IF invoice'[i].place = "live" THEN share'[p][i] ELSE 0])
           = SumFunctionOnSet(share'[p], Invoices)
      /\ SumFunctionOnSet(share'[p], Invoices) \in Int
  BY <1>1, UsedIsAll
<1> QED
  BY <1>2 DEF UsedOf, Live

LEMMA UnusedNat ==
    ASSUME RowsStay, ShapesOK, NEW p \in Payments
    PROVE  UnusedOf(p) \in Nat /\ payment[p].amount \in Nat
  BY UsedNow DEF UnusedOf, ShapesOK, PaymentRow

----------------------------------------------------------------------------
(* A step of one request, seen by the others: a payment either stays with  *)
(* no more used of it, or nobody else has decided on it.                   *)

LEMMA OthersGoOn ==
    ASSUME SplitsInv, NEW r \in Requests, NEW next, job' = [job EXCEPT ![r] = next],
           RowsStay', ShapesOK',
           \A row \in Rows, s \in Requests \ {r} : lock[row] = s => lock'[row] = s,
           \A p \in Payments :
               \/ payment'[p] = payment[p] /\ UsedOf(p)' <= UsedOf(p)
               \/ \A s \in Requests \ {r} : Step(s) = "lock" => job[s].todo.p # p,
           next.step = "lock" =>
               \A s \in Requests \ {r} : Step(s) = "lock" => job[s].todo.p # next.todo.p,
           TodoOK(r)', Decides(r)', UnreceivedHoldsNothing', SharesWithinPayment'
    PROVE  SplitsInv'
<1>1. DOMAIN job = Requests /\ job'[r] = next /\ \A s \in Requests \ {r} : job'[s] = job[s]
  BY DEF SplitsInv, ShapesOK
<1>2. ASSUME NEW s \in Requests \ {r} PROVE TodoOK(s)' /\ Decides(s)'
  <2>1. TodoOK(s)'
    BY <1>1 DEF SplitsInv, TodoOK, Step
  <2>2. CASE Step(s) # "lock"
    BY <1>1, <2>1, <2>2 DEF Decides, Step
  <2>3. CASE Step(s) = "lock"
    <3> DEFINE p == job[s].todo.p
    <3>1. p \in Payments /\ Decides(s) /\ p \in Rows
      BY <2>3, PaymentTodo DEF SplitsInv, TodoOK, Rows
    <3>2. payment'[p] = payment[p] /\ UsedOf(p)' <= UsedOf(p)
      BY <2>3, <3>1
    <3>3. UsedOf(p) \in Int /\ UsedOf(p)' \in Int /\ payment[p].amount \in Nat
      BY <3>1, UsedNow, UsedNext DEF SplitsInv, ShapesOK, PaymentRow
    <3>4. UnusedOf(p)' = IF payment'[p].amount > UsedOf(p)'
                         THEN payment'[p].amount - UsedOf(p)' ELSE 0
      BY DEF UnusedOf
    <3>5. UnusedOf(p) <= UnusedOf(p)' /\ UnusedOf(p) \in Int /\ UnusedOf(p)' \in Int
      BY <3>2, <3>3, <3>4 DEF UnusedOf
    <3>6. job[s].todo.kind = "apply" => SumFunction(job[s].split) \in Int
      <4> SUFFICES ASSUME job[s].todo.kind = "apply" PROVE SumFunction(job[s].split) \in Int
        OBVIOUS
      <4>1. job[s].split \in Splits
        BY <2>3, <3>1, PaymentTodo DEF SplitsInv, TodoOK, Decides
      <4>2. \A i \in Invoices : job[s].split[i] \in Int
        BY <4>1, MoneyAssumption DEF Splits
      <4> QED
        BY <4>1, <4>2, SumIsInt, IdsAssumption DEF SumFunction, Splits
    <3>7. job[s].todo.kind = "apply" => SumFunction(job[s].split) <= UnusedOf(p)'
      BY <2>3, <3>1, <3>5, <3>6 DEF Decides
    <3>8. lock[p] = s => lock'[p] = s
      BY <3>1
    <3>9. Decides(s)'
      BY <1>1, <2>3, <3>1, <3>2, <3>7, <3>8 DEF Decides, Step
    <3> QED
      BY <2>1, <3>9
  <2> QED
    BY <2>1, <2>2, <2>3
<1>3. ReceivedByOne'
  BY <1>1 DEF SplitsInv, ReceivedByOne, Step
<1> QED
  BY <1>2, <1>3 DEF SplitsInv

(* A step that leaves the payments and their shares alone.                 *)
LEMMA QuietStep ==
    ASSUME SplitsInv, NEW r \in Requests, NEW next, job' = [job EXCEPT ![r] = next],
           RowsStay', UNCHANGED <<payment, share>>,
           lock' \in [Rows -> Requests \cup {NoOne}],
           \A row \in Rows, s \in Requests \ {r} : lock[row] = s => lock'[row] = s,
           next.step = "lock" =>
               \A s \in Requests \ {r} : Step(s) = "lock" => job[s].todo.p # next.todo.p,
           TodoOK(r)', Decides(r)'
    PROVE  SplitsInv'
<1>1. RowsStay /\ ShapesOK /\ UnreceivedHoldsNothing /\ SharesWithinPayment
  BY DEF SplitsInv
<1>2. ShapesOK'
  BY <1>1 DEF ShapesOK
<1>3. \A p \in Payments : payment'[p] = payment[p] /\ UsedOf(p)' <= UsedOf(p)
                          /\ UsedOf(p)' = UsedOf(p)
  BY <1>1, <1>2, UsedNow, UsedNext
<1>4. UnreceivedHoldsNothing'
  BY <1>1 DEF UnreceivedHoldsNothing
<1>5. SharesWithinPayment'
  BY <1>1, <1>3 DEF SharesWithinPayment
<1> QED
  BY <1>2, <1>3, <1>4, <1>5, OthersGoOn

----------------------------------------------------------------------------
(* The start *)

LEMMA SplitsStart == ConcurrentInit => SplitsInv
<1> SUFFICES ASSUME ConcurrentInit PROVE SplitsInv
  OBVIOUS
<1>1. share \in [Payments -> [Invoices -> Nat]]
  <2>1. share \in [Payments -> [Invoices -> Money]]
    BY DEF ConcurrentInit, Starts
  <2> QED
    BY <2>1, MoneyAssumption
<1>2. RowsStay
  <2> DEFINE paid(i) == SumFunction([p \in Payments |-> share[p][i]])
  <2>1. PICK j \in Projects :
          invoice = [i \in Invoices |->
              [NewInvoice(j, Total, 0, 0) EXCEPT !.advance = paid(i), !.history = paid(i)]]
    BY DEF ConcurrentInit
  <2> HIDE DEF paid
  <2> QED
    BY <2>1 DEF RowsStay, NewInvoice
<1>3. PICK c \in Customers, there \in SUBSET Payments :
        /\ payment = [p \in Payments |->
               [place |-> IF p \in there THEN "live" ELSE "unborn",
                customer |-> c, amount |-> IF p \in there THEN Worth ELSE 0]]
        /\ \A p \in Payments \ there : SumFunction(share[p]) = 0
  BY DEF ConcurrentInit
<1>4. ShapesOK
  <2>1. payment \in [Payments -> PaymentRow]
    BY <1>3, ConcurrencyAssumption DEF PaymentRow, Places
  <2>2. lock \in [Rows -> Requests \cup {NoOne}] /\ DOMAIN job = Requests
    BY DEF ConcurrentInit
  <2> QED
    BY <1>1, <2>1, <2>2 DEF ShapesOK
<1>5. \A p \in Payments : SumFunction(share[p]) = SumFunctionOnSet(share[p], Invoices)
  BY <1>1 DEF SumFunction
<1>6. ASSUME NEW p \in Payments, payment[p].place = "unborn", NEW i \in Invoices
      PROVE  share[p][i] = 0
  <2>1. SumFunctionOnSet(share[p], Invoices) = 0
    BY <1>3, <1>5, <1>6
  <2>2. share[p][i] <= SumFunctionOnSet(share[p], Invoices)
    BY <1>1, PartOfSum, IdsAssumption
  <2> QED
    BY <1>1, <2>1, <2>2
<1>7. ASSUME NEW p \in Payments, payment[p].place = "live"
      PROVE  UsedOf(p) <= payment[p].amount
  <2>1. UsedOf(p) = SumFunction(share[p])
    BY <1>2, <1>4, <1>5, UsedNow
  <2>2. SumFunction(share[p]) <= Worth
    BY DEF ConcurrentInit, Starts
  <2> QED
    BY <1>3, <1>7, <2>1, <2>2
<1>8. \A r \in Requests : Step(r) = "idle"
  BY DEF ConcurrentInit, Step, Idle
<1> QED
  BY <1>2, <1>4, <1>6, <1>7, <1>8
  DEF SplitsInv, TodoOK, Decides, ReceivedByOne, UnreceivedHoldsNothing, SharesWithinPayment

----------------------------------------------------------------------------
(* Requests that take no lock *)

LEMMA MergedStays ==
    ASSUME NEW current, NEW read, NEW new, "place" \in DOMAIN current
    PROVE  /\ "place" \in DOMAIN Merged(current, read, new)
           /\ Merged(current, read, new).place = current.place
  BY DEF Merged

LEMMA RowsStayBut ==
    ASSUME RowsStay, NEW i \in Invoices, NEW row, "place" \in DOMAIN row, row.place = "live",
           invoice' = [invoice EXCEPT ![i] = row]
    PROVE  RowsStay'
  BY DEF RowsStay

LEMMA ReadInvoiceSplits ==
    ASSUME SplitsInv, NEW r \in Requests, NEW todo \in Jobs, ReadInvoice(r, todo)
    PROVE  SplitsInv'
<1> DEFINE next == [step |-> "write", todo |-> todo, row |-> invoice[todo.i]]
<1>1. job' = [job EXCEPT ![r] = next] /\ UNCHANGED <<invoice, payment, share, lock>>
  BY DEF ReadInvoice, Goto, Unchanged
<1>2. todo \in OnInvoice
  BY JobKinds DEF ReadInvoice
<1>3. job'[r] = next /\ next.step = "write" /\ next.todo = todo
  BY <1>1 DEF SplitsInv, ShapesOK
<1> HIDE DEF next
<1>4. TodoOK(r)' /\ Decides(r)'
  BY <1>2, <1>3 DEF TodoOK, Decides, Step
<1>5. RowsStay'
  BY <1>1 DEF SplitsInv, RowsStay
<1> QED
  BY <1>1, <1>3, <1>4, <1>5, QuietStep DEF SplitsInv, ShapesOK

LEMMA WriteInvoiceSplits ==
    ASSUME SplitsInv, NEW r \in Requests, WriteInvoice(r)
    PROVE  SplitsInv'
<1> DEFINE todo == job[r].todo
           read == job[r].row
           new == Decided(todo, read)
           row == Merged(invoice[todo.i], read, new)
<1>1. todo \in OnInvoice /\ todo.i \in Invoices
  BY InvoiceTodo DEF SplitsInv, TodoOK, WriteInvoice, Step
<1>2. invoice' = [invoice EXCEPT ![todo.i] = row] /\ UNCHANGED <<payment, share, lock>>
  BY DEF WriteInvoice
<1>3. "place" \in DOMAIN row /\ row.place = "live"
  BY <1>1, MergedStays DEF SplitsInv, RowsStay
<1>4. RowsStay'
  <2> HIDE DEF row, todo
  <2> QED
    BY <1>1, <1>2, <1>3, RowsStayBut DEF SplitsInv
<1>5. PICK next : /\ job' = [job EXCEPT ![r] = next]
                  /\ next = Over \/ next = [step |-> "refresh", todo |-> todo]
  BY DEF WriteInvoice, Goto
<1>6. job'[r] = next
  BY <1>5 DEF SplitsInv, ShapesOK
<1>7. next.step \in {"over", "refresh"} /\ (next.step = "refresh" => next.todo = todo)
  BY <1>5 DEF Over
<1> HIDE DEF todo, read, new, row
<1>8. TodoOK(r)' /\ Decides(r)'
  BY <1>1, <1>6, <1>7 DEF TodoOK, Decides, Step
<1> QED
  BY <1>2, <1>4, <1>5, <1>7, <1>8, QuietStep DEF SplitsInv, ShapesOK

LEMMA RefreshSplits ==
    ASSUME SplitsInv, NEW r \in Requests, Refresh(r)
    PROVE  SplitsInv'
<1> DEFINE todo == job[r].todo
           next == [step |-> "sum", todo |-> todo, row |-> invoice[todo.i]]
<1>1. job' = [job EXCEPT ![r] = next] /\ UNCHANGED <<invoice, payment, share, lock>>
  BY DEF Refresh, Goto, Unchanged
<1>2. todo \in OnInvoice
  BY DEF SplitsInv, TodoOK, Refresh, Step
<1>3. job'[r] = next /\ next.step = "sum" /\ next.todo = todo
  BY <1>1 DEF SplitsInv, ShapesOK
<1> HIDE DEF next, todo
<1>4. TodoOK(r)' /\ Decides(r)'
  BY <1>2, <1>3 DEF TodoOK, Decides, Step
<1>5. RowsStay'
  BY <1>1 DEF SplitsInv, RowsStay
<1> QED
  BY <1>1, <1>3, <1>4, <1>5, QuietStep DEF SplitsInv, ShapesOK

LEMMA SumSharesSplits ==
    ASSUME SplitsInv, NEW r \in Requests, SumShares(r)
    PROVE  SplitsInv'
<1> DEFINE todo == job[r].todo
           back == [p \in Payments |-> LET x == share[p][todo.i] IN IF x > 0 THEN x ELSE 0]
           release == [step |-> "release", todo |-> todo, row |-> job[r].row, back |-> back]
<1>1. todo \in OnInvoice /\ todo.i \in Invoices
  BY InvoiceTodo DEF SplitsInv, TodoOK, SumShares, Step
<1>2. back \in [Payments -> Nat]
  BY <1>1 DEF SplitsInv, ShapesOK
<1>3. PICK next : /\ job' = [job EXCEPT ![r] = next]
                  /\ next = Over \/ next = release
  BY DEF SumShares, Goto
<1>4. UNCHANGED <<invoice, payment, share, lock>>
  BY DEF SumShares, Unchanged
<1>5. job'[r] = next
  BY <1>3 DEF SplitsInv, ShapesOK
<1>6. /\ next.step \in {"over", "release"}
      /\ next.step = "release" =>
           next.todo = todo /\ next.back = back /\ {"step", "todo", "back"} \subseteq DOMAIN next
  BY <1>3 DEF Over
<1> HIDE DEF todo, back, release
<1>7. TodoOK(r)' /\ Decides(r)'
  BY <1>1, <1>2, <1>5, <1>6 DEF TodoOK, Decides, Step
<1>8. RowsStay'
  BY <1>4 DEF SplitsInv, RowsStay
<1> QED
  BY <1>3, <1>4, <1>6, <1>7, <1>8, QuietStep DEF SplitsInv, ShapesOK

LEMMA ReleaseUpdateSplits ==
    ASSUME SplitsInv, NEW r \in Requests, ReleaseUpdate(r)
    PROVE  SplitsInv'
<1> DEFINE next == [job[r] EXCEPT !.step = "give back"]
<1>1. /\ job' = [job EXCEPT ![r] = next] /\ UNCHANGED <<invoice, payment, share>>
      /\ Take(r, job[r].todo.i)
  BY DEF ReleaseUpdate, Goto, Unchanged
<1>2. job[r].todo \in OnInvoice /\ job[r].todo.i \in Rows /\ job[r].back \in [Payments -> Nat]
  BY InvoiceTodo DEF SplitsInv, TodoOK, ReleaseUpdate, Step, Rows
<1>3. job'[r] = next
  BY <1>1 DEF SplitsInv, ShapesOK
<1>4. /\ next.step = "give back" /\ next.todo = job[r].todo /\ next.back = job[r].back
      /\ DOMAIN next = DOMAIN job[r] /\ {"step", "todo", "back"} \subseteq DOMAIN job[r]
  BY DEF ReleaseUpdate, SplitsInv, TodoOK, Step
<1> HIDE DEF next
<1>5. TodoOK(r)' /\ Decides(r)'
  BY <1>2, <1>3, <1>4 DEF TodoOK, Decides, Step
<1>6. RowsStay'
  BY <1>1 DEF SplitsInv, RowsStay
<1>7. /\ lock' \in [Rows -> Requests \cup {NoOne}]
      /\ \A row \in Rows, s \in Requests \ {r} : lock[row] = s => lock'[row] = s
  BY <1>1, <1>2, TakenLock DEF SplitsInv
<1> QED
  BY <1>1, <1>4, <1>5, <1>6, <1>7, QuietStep

(* The second commit of cancelling gives shares back, and only to payments *)
(* that are there.                                                         *)
LEMMA ReleaseCommitSplits ==
    ASSUME SplitsInv, NEW r \in Requests, ReleaseCommit(r)
    PROVE  SplitsInv'
<1> DEFINE i == job[r].todo.i
           back == job[r].back
           row == Merged(invoice[i], job[r].row, Reversed(job[r].row, SumFunction(back)))
           given == [p \in Payments |-> [share[p] EXCEPT ![i] = @ - back[p]]]
<1>1. /\ i \in Invoices /\ back \in [Payments -> Nat] /\ RowsStay /\ ShapesOK
      /\ UnreceivedHoldsNothing /\ SharesWithinPayment
  BY InvoiceTodo DEF SplitsInv, TodoOK, ReleaseCommit, Step
<1>2. End(r) /\ payment' = payment
  BY DEF ReleaseCommit
<1>3. CASE UNCHANGED <<invoice, share>>
  <2>1. RowsStay' /\ ShapesOK'
    BY <1>1, <1>2, <1>3, EndedLocks DEF RowsStay, ShapesOK
  <2>2. job'[r] = Over
    BY <1>1, <1>2, EndedLocks DEF ShapesOK
  <2>3. TodoOK(r)' /\ Decides(r)'
    BY <2>2 DEF TodoOK, Decides, Step, Over
  <2> QED
    BY <1>1, <1>2, <1>3, <2>1, <2>3, EndedLocks, QuietStep DEF Over
<1>4. CASE /\ \A p \in Payments : back[p] > 0 => payment[p].place = "live"
           /\ invoice' = [invoice EXCEPT ![i] = row]
           /\ share' = given
  <2>1. "place" \in DOMAIN row /\ row.place = "live"
    BY <1>1, MergedStays DEF RowsStay
  <2>2. \A p \in Payments, k \in Invoices :
          share'[p][k] = IF k = i THEN share[p][k] - back[p] ELSE share[p][k]
    BY <1>1, <1>4 DEF ShapesOK
  <2>3. share' \in [Payments -> [Invoices -> Int]]
    <3>1. \A p \in Payments : [share[p] EXCEPT ![i] = @ - back[p]] \in [Invoices -> Int]
      BY <1>1 DEF ShapesOK
    <3> HIDE DEF i, back
    <3> QED
      BY <1>4, <3>1
  <2> HIDE DEF i, back, row, given
  <2>4. RowsStay'
    BY <1>1, <1>4, <2>1, RowsStayBut
  <2>5. ShapesOK' /\ job' = [job EXCEPT ![r] = Over]
    BY <1>1, <1>2, <2>3, EndedLocks DEF ShapesOK
  <2>6. \A p \in Payments : UsedOf(p)' <= UsedOf(p)
    <3> TAKE p \in Payments
    <3>1. \A k \in Invoices : share'[p][k] \in Int /\ share[p][k] \in Int
                              /\ share'[p][k] <= share[p][k]
      BY <1>1, <2>2, <2>3 DEF ShapesOK
    <3>2. SumFunctionOnSet(share'[p], Invoices) <= SumFunctionOnSet(share[p], Invoices)
      BY <3>1, SumAtMost, IdsAssumption
    <3> QED
      BY <1>1, <2>4, <2>5, <3>2, UsedNow, UsedNext
  <2>7. UnreceivedHoldsNothing'
    <3> SUFFICES ASSUME NEW p \in Payments, payment[p].place = "unborn", NEW k \in Invoices
                 PROVE  share'[p][k] = 0
      BY <1>2 DEF UnreceivedHoldsNothing
    <3>1. back[p] = 0
      BY <1>1, <1>4
    <3>2. share[p][k] = 0
      BY <1>1 DEF UnreceivedHoldsNothing
    <3> QED
      BY <2>2, <3>1, <3>2
  <2>8. SharesWithinPayment'
    <3> SUFFICES ASSUME NEW p \in Payments, payment[p].place = "live"
                 PROVE  UsedOf(p)' <= payment[p].amount
      BY <1>2 DEF SharesWithinPayment
    <3>1. UsedOf(p) <= payment[p].amount /\ payment[p].amount \in Int
      BY <1>1 DEF SharesWithinPayment, ShapesOK, PaymentRow
    <3> QED
      BY <1>1, <2>4, <2>5, <2>6, <3>1, UsedNow, UsedNext
  <2>9. TodoOK(r)' /\ Decides(r)'
    <3>1. job'[r] = Over
      BY <1>1, <2>5 DEF ShapesOK
    <3> QED
      BY <3>1 DEF TodoOK, Decides, Step, Over
  <2>10. Over.step # "lock"
    BY DEF Over
  <2> QED
    BY <1>1, <1>2, <2>4, <2>5, <2>6, <2>7, <2>8, <2>9, <2>10, EndedLocks, OthersGoOn
<1> QED
  <2>1. Wants(r) = {p \in Payments : back[p] > 0}
    BY DEF Wants, ReleaseCommit
  <2> QED
    BY <1>3, <1>4, <2>1 DEF ReleaseCommit

----------------------------------------------------------------------------
(* Requests that lock *)

LEMMA StartReceiveSplits ==
    ASSUME SplitsInv, NEW r \in Requests, NEW todo \in Jobs, StartReceive(r, todo)
    PROVE  SplitsInv'
<1>1. PICK order \in Orders(todo.split) : job' = [job EXCEPT ![r] = LockNext(todo, order, todo.split)]
  BY DEF StartReceive, Goto
<1> DEFINE next == LockNext(todo, order, todo.split)
<1>2. /\ UNCHANGED <<invoice, payment, share, lock>> /\ todo.kind = "receive"
      /\ payment[todo.p].place = "unborn" /\ SumFunction(todo.split) <= todo.x
      /\ \A s \in Requests \ {r} : Step(s) = "lock" => job[s].todo.p # todo.p
  BY DEF StartReceive, Unchanged, Step
<1>3. todo \in OnPayment
  BY <1>2, JobKinds DEF OnPayment
<1>4. /\ job'[r] = next /\ next.step = "lock" /\ next.todo = todo /\ next.split = todo.split
      /\ DOMAIN next = {"step", "todo", "order", "split", "rows"} /\ next.order = order
  BY <1>1 DEF SplitsInv, ShapesOK, LockNext
<1> HIDE DEF next
<1>5. TodoOK(r)' /\ Decides(r)'
  BY <1>2, <1>3, <1>4, OrderOfSplit DEF TodoOK, Decides, Step
<1>6. RowsStay'
  BY <1>2 DEF SplitsInv, RowsStay
<1> QED
  BY <1>1, <1>2, <1>4, <1>5, <1>6, QuietStep DEF SplitsInv, ShapesOK, next

LEMMA StartOnPaymentSplits ==
    ASSUME SplitsInv, NEW r \in Requests, NEW todo \in Jobs, StartOnPayment(r, todo)
    PROVE  SplitsInv'
<1> DEFINE next == [step |-> "payment", todo |-> todo]
<1>1. job' = [job EXCEPT ![r] = next] /\ UNCHANGED <<invoice, payment, share, lock>>
  BY DEF StartOnPayment, Goto, Unchanged
<1>2. todo \in Application \cup Deletion
  BY JobKinds DEF StartOnPayment
<1>3. job'[r] = next /\ next.step = "payment" /\ next.todo = todo
  BY <1>1 DEF SplitsInv, ShapesOK
<1> HIDE DEF next
<1>4. TodoOK(r)' /\ Decides(r)'
  BY <1>2, <1>3 DEF TodoOK, Decides, Step
<1>5. RowsStay'
  BY <1>1 DEF SplitsInv, RowsStay
<1> QED
  BY <1>1, <1>3, <1>4, <1>5, QuietStep DEF SplitsInv, ShapesOK

(* A request that ends and has changed nothing. *)
LEMMA EndSplits ==
    ASSUME SplitsInv, NEW r \in Requests, End(r), Unchanged
    PROVE  SplitsInv'
<1>1. RowsStay' /\ UNCHANGED <<payment, share>>
  BY DEF SplitsInv, RowsStay, Unchanged
<1>2. job' = [job EXCEPT ![r] = Over] /\ job'[r] = Over /\ Over.step = "over"
  BY EndedLocks DEF SplitsInv, ShapesOK, Over
<1>3. TodoOK(r)' /\ Decides(r)'
  BY <1>2 DEF TodoOK, Decides, Step
<1>4. /\ lock' \in [Rows -> Requests \cup {NoOne}]
      /\ \A row \in Rows, s \in Requests \ {r} : lock[row] = s => lock'[row] = s
  BY EndedLocks DEF SplitsInv
<1> QED
  BY <1>1, <1>2, <1>3, <1>4, QuietStep

(* Where a payment is locked, what is decided is decided on the locked row.*)
LEMMA LockPaymentSplits ==
    ASSUME SplitsInv, NEW r \in Requests, LockPayment(r)
    PROVE  SplitsInv'
<1> DEFINE todo == job[r].todo
           p == todo.p
           split == IF todo.kind = "apply" THEN todo.split ELSE share[p]
           refused == \/ payment[p].place # "live"
                      \/ todo.kind = "apply" /\ SumFunction(split) > UnusedOf(p)
<1>1. CASE refused
  BY <1>1, EndSplits DEF LockPayment
<1>2. CASE ~refused
  <2>1. PICK order \in Orders(split) : job' = [job EXCEPT ![r] = LockNext(todo, order, split)]
    BY <1>2 DEF LockPayment, Goto
  <2>2. /\ Take(r, p) /\ UNCHANGED <<invoice, payment, share>> /\ Step(r) = "payment"
        /\ payment[p].place = "live"
        /\ todo.kind = "apply" => ~(SumFunction(split) > UnusedOf(p))
    BY <1>2 DEF LockPayment, Unchanged, Step
  <2>3. todo \in Application \cup Deletion
    BY <2>2 DEF SplitsInv, TodoOK
  <2>4. todo \in OnPayment /\ todo.kind \in {"apply", "delete"} /\ p \in Payments
    BY <2>3, PaymentTodo DEF OnPayment, Application, Deletion
  <2>5. todo.kind = "apply" => split = todo.split /\ SumFunction(split) <= UnusedOf(p)
    <3> SUFFICES ASSUME todo.kind = "apply" PROVE SumFunction(split) <= UnusedOf(p)
      OBVIOUS
    <3>1. split \in Splits
      BY <2>4, PaymentTodo
    <3>2. \A i \in Invoices : split[i] \in Int
      BY <3>1, MoneyAssumption DEF Splits
    <3>3. SumFunction(split) \in Int
      BY <3>1, <3>2, SumIsInt, IdsAssumption DEF SumFunction, Splits
    <3>4. UnusedOf(p) \in Nat
      BY <2>4, UnusedNat DEF SplitsInv
    <3> QED
      BY <2>2, <3>3, <3>4
  <2> DEFINE next == LockNext(todo, order, split)
  <2>6. /\ job'[r] = next /\ next.step = "lock" /\ next.todo = todo /\ next.split = split
        /\ DOMAIN next = {"step", "todo", "order", "split", "rows"}
        /\ job' = [job EXCEPT ![r] = next] /\ next.order = order
    BY <2>1 DEF SplitsInv, ShapesOK, LockNext
  <2>7. p \in Rows /\ ShapesOK
    BY <2>4 DEF Rows, SplitsInv
  <2>8. /\ lock' \in [Rows -> Requests \cup {NoOne}] /\ lock'[p] = r
        /\ \A row \in Rows, s \in Requests \ {r} : lock[row] = s => lock'[row] = s
    BY <2>2, <2>7, TakenLock
  <2>9. RowsStay'
    BY <2>2 DEF SplitsInv, RowsStay
  <2>10. \A d \in Payments : UnusedOf(d)' = UnusedOf(d)
    BY <2>2 DEF UnusedOf, UsedOf, Live
  <2>11. lock[p] \in {NoOne, r}
    BY <2>2 DEF Take, Free
  <2>12. ASSUME NEW s \in Requests \ {r}, Step(s) = "lock"
         PROVE  job[s].todo.p # p
    <3>1. Decides(s) /\ job[s].todo.kind \in {"receive", "apply", "delete"}
      BY <2>12, PaymentTodo DEF SplitsInv, TodoOK
    <3> QED
      BY <2>2, <2>11, <2>12, <3>1, ConcurrencyAssumption DEF Decides, NoOne
  <2>13. TodoOK(r)'
    <3>1. order \in Seq(Invoices)
      BY OrderOfSplit
    <3> HIDE DEF split, next, refused
    <3> QED
      BY <2>4, <2>6, <3>1 DEF TodoOK, Step
  <2>14. Decides(r)'
    <3> HIDE DEF split, next, refused
    <3> QED
      BY <2>2, <2>4, <2>5, <2>6, <2>8, <2>10 DEF Decides, Step
  <2>15. \A s \in Requests \ {r} : Step(s) = "lock" => job[s].todo.p # next.todo.p
    BY <2>6, <2>12
  <2>16. UNCHANGED <<payment, share>>
    BY <2>2
  <2> HIDE DEF todo, split, next, refused
  <2> QED
    BY <2>6, <2>8, <2>9, <2>13, <2>14, <2>15, <2>16, QuietStep
<1> QED
  BY <1>1, <1>2

LEMMA LockInvoiceSplits ==
    ASSUME SplitsInv, NEW r \in Requests, LockInvoice(r)
    PROVE  SplitsInv'
<1> DEFINE i == Head(job[r].order)
           rows == job[r].rows
           read == [j \in DOMAIN rows \cup {i} |-> IF j = i THEN invoice[i] ELSE rows[j]]
           next == [job[r] EXCEPT !.order = Tail(@), !.rows = read]
<1>1. /\ job' = [job EXCEPT ![r] = next] /\ Take(r, i) /\ Step(r) = "lock"
      /\ UNCHANGED <<invoice, payment, share>>
  BY DEF LockInvoice, Goto, Unchanged, Step
<1>2. /\ job[r].todo \in OnPayment /\ Decides(r)
      /\ DOMAIN job[r] = {"step", "todo", "order", "split", "rows"}
      /\ job[r].order \in Seq(Invoices) /\ job[r].order # <<>>
  BY <1>1 DEF SplitsInv, TodoOK, LockInvoice
<1>3. /\ job'[r] = next /\ next.step = "lock" /\ next.todo = job[r].todo
      /\ next.split = job[r].split /\ DOMAIN next = DOMAIN job[r]
      /\ next.order = Tail(job[r].order)
  BY <1>1, <1>2 DEF SplitsInv, ShapesOK, Step
<1> HIDE DEF next
<1>4. i \in Rows /\ next.order \in Seq(Invoices)
  BY <1>2, <1>3 DEF Rows
<1>5. /\ lock' \in [Rows -> Requests \cup {NoOne}]
      /\ \A row \in Rows : lock[row] = r => lock'[row] = r
      /\ \A row \in Rows, s \in Requests \ {r} : lock[row] = s => lock'[row] = s
  BY <1>1, <1>4, TakenLock DEF SplitsInv
<1> HIDE DEF i
<1>6. RowsStay'
  BY <1>1 DEF SplitsInv, RowsStay
<1>7. \A p \in Payments : UnusedOf(p)' = UnusedOf(p)
  BY <1>1 DEF UnusedOf, UsedOf, Live
<1>8. job[r].todo.p \in Payments /\ job[r].todo.p \in Rows
  BY <1>2, PaymentTodo DEF Rows
<1>9. TodoOK(r)'
  BY <1>2, <1>3, <1>4 DEF TodoOK, Step
<1>10. Decides(r)'
  BY <1>1, <1>2, <1>3, <1>5, <1>7, <1>8 DEF Decides, Step
<1>11. \A s \in Requests \ {r} : Step(s) = "lock" => job[s].todo.p # next.todo.p
  BY <1>1, <1>3, OnePayment
<1> QED
  BY <1>1, <1>3, <1>5, <1>6, <1>9, <1>10, <1>11, QuietStep

(* What a locked row becomes by a split and by a deletion keeps its place. *)
LEMMA CommitSplitRows ==
    ASSUME SplitsInv, NEW r \in Requests, CommitSplit(r)
    PROVE  RowsStay'
<1> DEFINE rows == job[r].rows
           split == job[r].todo.split
           merged(i) == Merged(invoice[i], rows[i], Credited(rows[i], split[i]))
<1>1. RowsStay
  BY DEF SplitsInv
<1>2. CASE invoice' = invoice
  BY <1>1, <1>2 DEF RowsStay
<1>3. CASE invoice' = [i \in Invoices |-> IF i \in DOMAIN rows THEN merged(i) ELSE invoice[i]]
  <2>1. \A i \in Invoices : "place" \in DOMAIN merged(i) /\ merged(i).place = "live"
    BY <1>1, MergedStays DEF RowsStay
  <2> HIDE DEF merged, rows
  <2> QED
    BY <1>1, <1>3, <2>1 DEF RowsStay
<1> QED
  BY <1>2, <1>3 DEF CommitSplit, Unchanged

LEMMA CommitSplitSplits ==
    ASSUME SplitsInv, NEW r \in Requests, CommitSplit(r)
    PROVE  SplitsInv'
<1>0. PICK todo, p, split : todo = job[r].todo /\ p = todo.p /\ split = todo.split
  OBVIOUS
<1>1. /\ Step(r) = "lock" /\ todo.kind \in {"receive", "apply"} /\ End(r)
  BY <1>0 DEF CommitSplit, AllLocked, Step
<1>2. /\ todo \in OnPayment /\ Decides(r) /\ p \in Payments /\ split \in Splits
      /\ job[r].split = split
  BY <1>0, <1>1, PaymentTodo DEF SplitsInv, TodoOK, Decides
<1>3. CASE Unchanged
  BY <1>1, <1>3, EndSplits
<1>4. CASE /\ share' = [share EXCEPT ![p] = [i \in Invoices |-> @[i] + split[i]]]
           /\ payment' = IF todo.kind = "apply" THEN payment ELSE
                [payment EXCEPT ![p] =
                   [place |-> "live", customer |-> todo.c, amount |-> todo.x]]
  <2>1. RowsStay' /\ RowsStay /\ ShapesOK /\ UnreceivedHoldsNothing /\ SharesWithinPayment
    BY CommitSplitRows DEF SplitsInv
  <2>2. \A i \in Invoices : split[i] \in Nat
    BY <1>2, MoneyAssumption DEF Splits
  <2>3. /\ share' \in [Payments -> [Invoices -> Int]]
        /\ \A i \in Invoices : share'[p][i] = share[p][i] + split[i]
        /\ \A d \in Payments : d # p => share'[d] = share[d]
    BY <1>2, <1>4, <2>1, <2>2 DEF ShapesOK
  <2>4. payment' \in [Payments -> PaymentRow]
    <3>1. CASE todo.kind = "apply"
      BY <1>4, <2>1, <3>1 DEF ShapesOK
    <3>2. CASE todo.kind = "receive"
      <4>1. todo.c \in Customers /\ todo.x \in Nat
        BY <1>2, <3>2, PaymentTodo, MoneyAssumption
      <4>2. [place |-> "live", customer |-> todo.c, amount |-> todo.x] \in PaymentRow
        BY <4>1 DEF PaymentRow, Places
      <4> QED
        BY <1>4, <2>1, <3>2, <4>2 DEF ShapesOK
    <3> QED
      BY <1>1, <3>1, <3>2
  <2>5. /\ ShapesOK' /\ job'[r] = Over /\ job' = [job EXCEPT ![r] = Over]
        /\ \A row \in Rows, s \in Requests \ {r} : lock[row] = s => lock'[row] = s
    BY <1>1, <2>1, <2>3, <2>4, EndedLocks DEF ShapesOK
  <2>6. /\ SumFunction(split) \in Int
        /\ UsedOf(p)' = UsedOf(p) + SumFunction(split)
    <3>1. \A i \in Invoices : share[p][i] \in Int /\ split[i] \in Int
                              /\ share'[p][i] = share[p][i] + split[i]
      BY <1>2, <2>1, <2>2, <2>3 DEF ShapesOK
    <3>2. SumFunctionOnSet(share'[p], Invoices)
            = SumFunctionOnSet(share[p], Invoices) + SumFunctionOnSet(split, Invoices)
      BY <3>1, SumOfSums, IdsAssumption
    <3>3. SumFunction(split) = SumFunctionOnSet(split, Invoices)
      BY <1>2 DEF SumFunction, Splits
    <3>4. SumFunctionOnSet(split, Invoices) \in Int
      BY <3>1, SumIsInt, IdsAssumption
    <3>5. UsedOf(p) = SumFunctionOnSet(share[p], Invoices)
      BY <1>2, <2>1, UsedNow
    <3>6. UsedOf(p)' = SumFunctionOnSet(share'[p], Invoices)
      BY <1>2, <2>1, <2>5, UsedNext
    <3> QED
      BY <3>2, <3>3, <3>4, <3>5, <3>6
  <2>7. \A d \in Payments : d # p => payment'[d] = payment[d] /\ UsedOf(d)' = UsedOf(d)
                                     /\ UsedOf(d) \in Int
    BY <1>1, <1>4, <2>1, <2>3, <2>5, UsedNow, UsedNext DEF ShapesOK
  <2>8. payment'[p].place = "live" /\ UsedOf(p)' <= payment'[p].amount
    <3>1. UsedOf(p) \in Int /\ UnusedOf(p) \in Nat /\ payment[p].amount \in Nat
      BY <1>2, <2>1, UsedNow, UnusedNat
    <3>2. CASE todo.kind = "apply"
      <4>1. payment'[p] = payment[p] /\ payment[p].place = "live"
            /\ SumFunction(split) <= UnusedOf(p)
        BY <1>0, <1>1, <1>2, <1>4, <3>2 DEF Decides
      <4>2. UsedOf(p) <= payment[p].amount
        BY <1>2, <2>1, <4>1 DEF SharesWithinPayment
      <4> QED
        BY <2>6, <3>1, <4>1, <4>2 DEF UnusedOf
    <3>3. CASE todo.kind = "receive"
      <4>1. payment'[p].place = "live" /\ payment'[p].amount = todo.x
        BY <1>2, <1>4, <2>1, <3>3 DEF ShapesOK
      <4>2. payment[p].place = "unborn" /\ SumFunction(split) <= todo.x
        BY <1>0, <1>1, <1>2, <3>3 DEF Decides
      <4>3. UsedOf(p) = 0
        <5>1. \A i \in Invoices : share[p][i] = 0
          BY <1>2, <2>1, <4>2 DEF UnreceivedHoldsNothing
        <5> QED
          BY <1>2, <2>1, <5>1, UsedNow, SumOfZeros, IdsAssumption
      <4> QED
        BY <2>6, <4>1, <4>2, <4>3
    <3> QED
      BY <1>1, <3>2, <3>3
  <2>9. UnreceivedHoldsNothing'
    <3> SUFFICES ASSUME NEW d \in Payments, payment'[d].place = "unborn", NEW i \in Invoices
                 PROVE  share'[d][i] = 0
      BY DEF UnreceivedHoldsNothing
    <3>1. d # p
      BY <2>8
    <3> QED
      BY <2>1, <2>3, <2>7, <3>1 DEF UnreceivedHoldsNothing
  <2>10. SharesWithinPayment'
    <3> SUFFICES ASSUME NEW d \in Payments, payment'[d].place = "live"
                 PROVE  UsedOf(d)' <= payment'[d].amount
      BY DEF SharesWithinPayment
    <3>1. CASE d = p
      BY <2>8, <3>1
    <3>2. CASE d # p
      BY <2>1, <2>7, <3>2 DEF SharesWithinPayment
    <3> QED
      BY <3>1, <3>2
  <2>11. TodoOK(r)' /\ Decides(r)' /\ Over.step # "lock"
    BY <2>5 DEF TodoOK, Decides, Step, Over
  <2>12. \A s \in Requests \ {r} : Step(s) = "lock" => job[s].todo.p # p
    BY <1>0, <1>1, OnePayment
  <2>13. \A d \in Payments : \/ payment'[d] = payment[d] /\ UsedOf(d)' <= UsedOf(d)
                             \/ \A s \in Requests \ {r} : Step(s) = "lock" => job[s].todo.p # d
    BY <2>7, <2>12
  <2> QED
    BY <2>1, <2>5, <2>9, <2>10, <2>11, <2>13, OthersGoOn
<1> QED
  BY <1>0, <1>3, <1>4 DEF CommitSplit

LEMMA CommitDeleteRows ==
    ASSUME SplitsInv, NEW r \in Requests, CommitDelete(r)
    PROVE  RowsStay'
<1> DEFINE rows == job[r].rows
           split == job[r].split
           p == job[r].todo.p
           reversed(i) == IF i \in DOMAIN rows THEN split[i] ELSE 0
           row(i) == IF i \in DOMAIN rows
                     THEN Merged(invoice[i], rows[i], Reversed(rows[i], split[i]))
                     ELSE invoice[i]
           left(i) == [row(i) EXCEPT !.direct = @ + (share[p][i] - reversed(i))]
<1>1. RowsStay
  BY DEF SplitsInv
<1>2. invoice' = [i \in Invoices |-> left(i)]
  BY DEF CommitDelete
<1>3. \A i \in Invoices : "place" \in DOMAIN row(i) /\ row(i).place = "live"
  BY <1>1, MergedStays DEF RowsStay
<1> HIDE DEF row, reversed, rows, split, p
<1>4. \A i \in Invoices : "place" \in DOMAIN left(i) /\ left(i).place = "live"
  BY <1>3
<1> HIDE DEF left
<1> QED
  BY <1>2, <1>4 DEF RowsStay

LEMMA CommitDeleteSplits ==
    ASSUME SplitsInv, NEW r \in Requests, CommitDelete(r)
    PROVE  SplitsInv'
<1>0. PICK todo, p : todo = job[r].todo /\ p = todo.p
  OBVIOUS
<1>1. /\ Step(r) = "lock" /\ todo.kind = "delete" /\ End(r)
      /\ share' = [share EXCEPT ![p] = [i \in Invoices |-> 0]]
      /\ payment' = [payment EXCEPT ![p].place = "bin"]
  BY <1>0 DEF CommitDelete, AllLocked, Step
<1>2. p \in Payments
  BY <1>0, <1>1, PaymentTodo DEF SplitsInv, TodoOK
<1>3. RowsStay' /\ RowsStay /\ ShapesOK /\ UnreceivedHoldsNothing /\ SharesWithinPayment
  BY CommitDeleteRows DEF SplitsInv
<1>4. /\ share' \in [Payments -> [Invoices -> Int]]
      /\ \A d \in Payments : d # p => share'[d] = share[d] /\ payment'[d] = payment[d]
      /\ payment'[p].place = "bin"
  BY <1>1, <1>2, <1>3 DEF ShapesOK, PaymentRow
<1>5. payment' \in [Payments -> PaymentRow]
  BY <1>1, <1>2, <1>3 DEF ShapesOK, PaymentRow, Places
<1>6. /\ ShapesOK' /\ job'[r] = Over /\ job' = [job EXCEPT ![r] = Over]
      /\ \A row \in Rows, s \in Requests \ {r} : lock[row] = s => lock'[row] = s
  BY <1>1, <1>3, <1>4, <1>5, EndedLocks DEF ShapesOK
<1>7. \A d \in Payments : d # p => UsedOf(d)' = UsedOf(d) /\ UsedOf(d) \in Int
  BY <1>3, <1>4, <1>6, UsedNow, UsedNext
<1>8. UnreceivedHoldsNothing'
  <2> SUFFICES ASSUME NEW d \in Payments, payment'[d].place = "unborn", NEW i \in Invoices
               PROVE  share'[d][i] = 0
    BY DEF UnreceivedHoldsNothing
  <2> QED
    BY <1>3, <1>4 DEF UnreceivedHoldsNothing
<1>9. SharesWithinPayment'
  <2> SUFFICES ASSUME NEW d \in Payments, payment'[d].place = "live"
               PROVE  UsedOf(d)' <= payment'[d].amount
    BY DEF SharesWithinPayment
  <2>1. d # p
    BY <1>4
  <2> QED
    BY <1>3, <1>4, <1>7, <2>1 DEF SharesWithinPayment
<1>10. TodoOK(r)' /\ Decides(r)' /\ Over.step # "lock"
  BY <1>6 DEF TodoOK, Decides, Step, Over
<1>11. \A s \in Requests \ {r} : Step(s) = "lock" => job[s].todo.p # p
  BY <1>0, <1>1, OnePayment
<1>12. \A d \in Payments : \/ payment'[d] = payment[d] /\ UsedOf(d)' <= UsedOf(d)
                           \/ \A s \in Requests \ {r} : Step(s) = "lock" => job[s].todo.p # d
  BY <1>4, <1>7, <1>11
<1> QED
  BY <1>3, <1>6, <1>8, <1>9, <1>10, <1>12, OthersGoOn

----------------------------------------------------------------------------
LEMMA SplitsStep == SplitsInv /\ [ConcurrentNext]_allVars => SplitsInv'
<1> SUFFICES ASSUME SplitsInv, [ConcurrentNext]_allVars PROVE SplitsInv'
  OBVIOUS
<1>1. CASE UNCHANGED allVars
  <2>1. UNCHANGED <<invoice, payment, share, job, lock>>
    BY <1>1 DEF allVars
  <2>2. \A p \in Payments : UsedOf(p)' = UsedOf(p)
    BY <2>1 DEF UsedOf, Live
  <2>3. \A p \in Payments : UnusedOf(p)' = UnusedOf(p)
    BY <2>1, <2>2 DEF UnusedOf
  <2>4. ASSUME NEW r \in Requests PROVE TodoOK(r)' /\ Decides(r)'
    <3>1. TodoOK(r) /\ Decides(r) /\ (Step(r) = "lock" => job[r].todo.p \in Payments)
      BY PaymentTodo DEF SplitsInv, TodoOK
    <3> QED
      BY <2>1, <2>3, <3>1 DEF TodoOK, Decides, Step
  <2> QED
    BY <2>1, <2>2, <2>4
    DEF SplitsInv, RowsStay, ShapesOK, ReceivedByOne, UnreceivedHoldsNothing,
        SharesWithinPayment, Step
<1>2. ASSUME NEW r \in Requests, Begin(r) PROVE SplitsInv'
  BY <1>2, ReadInvoiceSplits, StartReceiveSplits, StartOnPaymentSplits DEF Begin
<1>3. ASSUME NEW r \in Requests, Proceed(r) PROVE SplitsInv'
  BY <1>3, WriteInvoiceSplits, RefreshSplits, SumSharesSplits, ReleaseUpdateSplits,
     ReleaseCommitSplits, LockPaymentSplits, LockInvoiceSplits, CommitSplitSplits,
     CommitDeleteSplits
  DEF Proceed
<1>4. ASSUME NEW r \in Requests, Victim(r) \/ Die(r) PROVE SplitsInv'
  BY <1>4, EndSplits DEF Victim, Die
<1> QED
  BY <1>1, <1>2, <1>3, <1>4 DEF ConcurrentNext

(* However many requests run at once, and whichever of them die, a payment *)
(* is never spent beyond its amount.                                       *)
THEOREM CreditIsSpentOnceByMany == ConcurrentSpec => []SharesWithinPayment
<1>1. SplitsInv => SharesWithinPayment
  BY DEF SplitsInv
<1> QED
  BY <1>1, SplitsStart, SplitsStep, PTL DEF ConcurrentSpec

----------------------------------------------------------------------------
(* Locked requests: what they merge into the rows is what they computed.   *)

LEMMA SameRow ==
    ASSUME NEW a \in InvoiceRow, NEW b \in InvoiceRow,
           a.place = b.place, a.project = b.project, a.status = b.status,
           a.subtotal = b.subtotal, a.discount = b.discount, a.amount = b.amount,
           a.advance = b.advance, a.paidAt = b.paidAt, a.direct = b.direct,
           a.history = b.history
    PROVE  a = b
  BY DEF InvoiceRow

LEMMA MergedIsNew ==
    ASSUME NEW row \in InvoiceRow, NEW new \in InvoiceRow,
           new.place = row.place, new.project = row.project
    PROVE  Merged(row, row, new) = new
<1> DEFINE merged == Merged(row, row, new)
<1> DEFINE kept(f) == IF new[f] = row[f] THEN row[f] ELSE new[f]
<1>1. /\ kept("status") = new.status /\ kept("subtotal") = new.subtotal
      /\ kept("discount") = new.discount /\ kept("amount") = new.amount
      /\ kept("advance") = new.advance /\ kept("paidAt") = new.paidAt
      /\ row.direct + (new.direct - row.direct) = new.direct
      /\ row.history + (new.history - row.history) = new.history
  BY DEF InvoiceRow
<1>a. merged = [row EXCEPT !.status = new.status, !.subtotal = new.subtotal,
                           !.discount = new.discount, !.amount = new.amount,
                           !.advance = new.advance, !.paidAt = new.paidAt,
                           !.direct = new.direct, !.history = new.history]
  BY <1>1 DEF Merged
<1>b. /\ new.status \in {"pending", "paid", "cancelled"}
      /\ new.subtotal \in Nat /\ new.discount \in Nat /\ new.amount \in Nat
      /\ new.advance \in Nat /\ new.paidAt \in BOOLEAN
      /\ new.direct \in Int /\ new.history \in Int
  BY DEF InvoiceRow
<1> HIDE DEF merged, kept
<1>c. merged \in InvoiceRow
  BY <1>a, <1>b DEF InvoiceRow
<1>2. /\ merged.place = new.place /\ merged.project = new.project
      /\ merged.status = new.status /\ merged.subtotal = new.subtotal
      /\ merged.discount = new.discount /\ merged.amount = new.amount
      /\ merged.advance = new.advance /\ merged.paidAt = new.paidAt
      /\ merged.direct = new.direct /\ merged.history = new.history
  BY <1>a DEF InvoiceRow
<1>3. merged = new
  BY <1>2, <1>c, SameRow
<1> QED
  BY <1>3 DEF merged

(* What a request with all its locks is about to commit.                   *)
LEMMA AllRowsLocked ==
    ASSUME LockedInv, NEW r \in Requests, AllLocked(r)
    PROVE  /\ job[r].todo \in OnPayment /\ Decides(r) /\ job[r].todo.p \in Payments
           /\ \A i \in Invoices : i \in DOMAIN job[r].rows <=> job[r].split[i] > 0
           /\ DOMAIN job[r].rows \subseteq Invoices
           /\ \A i \in DOMAIN job[r].rows : lock[i] = r /\ job[r].rows[i] = invoice[i]
           /\ job[r].todo.kind = "delete" => job[r].split = share[job[r].todo.p]
<1>1. Step(r) = "lock" /\ Locked(r) /\ job[r].order = <<>>
  BY DEF LockedInv, AllLocked, Step
<1>2. job[r].todo \in OnPayment /\ Decides(r) /\ job[r].todo.p \in Payments
  BY <1>1, PaymentTodo DEF LockedInv, SplitsInv, TodoOK
<1>3. Range(job[r].order) = {}
  BY <1>1 DEF Range
<1>4. DOMAIN job[r].rows = {i \in Invoices : job[r].split[i] > 0}
  BY <1>1, <1>3 DEF Locked
<1> QED
  BY <1>1, <1>2, <1>4 DEF Locked

LEMMA SplitIsAtomic ==
    ASSUME LockedInv, NEW r \in Requests, CommitSplit(r)
    PROVE  /\ Next \/ UNCHANGED vars
           /\ \A i \in Invoices : lock[i] # r => invoice'[i] = invoice[i]
           /\ \A d \in Payments : d # job[r].todo.p => share'[d] = share[d]
<1>0. PICK todo, p, split, rows :
        todo = job[r].todo /\ p = todo.p /\ split = todo.split /\ rows = job[r].rows
  OBVIOUS
<1>1. /\ todo \in OnPayment /\ Decides(r) /\ p \in Payments
      /\ todo.kind \in {"receive", "apply"} /\ split \in Splits /\ job[r].split = split
      /\ Step(r) = "lock"
  BY <1>0, AllRowsLocked, PaymentTodo DEF CommitSplit, Decides, AllLocked, Step
<1>2. /\ \A i \in Invoices : i \in DOMAIN rows <=> split[i] > 0
      /\ \A i \in Invoices : i \in DOMAIN rows => rows[i] = invoice[i]
  BY <1>0, <1>1, AllRowsLocked DEF CommitSplit
<1>3. CASE Unchanged
  BY <1>3 DEF Unchanged, vars
<1> DEFINE customer == IF todo.kind = "receive" THEN todo.c ELSE payment[p].customer
<1>4. CASE /\ \A i \in DOMAIN rows : ShareAllowed(rows[i], customer, split[i])
           /\ invoice' = [i \in Invoices |->
                IF i \in DOMAIN rows
                THEN Merged(invoice[i], rows[i], Credited(rows[i], split[i]))
                ELSE invoice[i]]
           /\ share' = [share EXCEPT ![p] = [i \in Invoices |-> @[i] + split[i]]]
           /\ payment' = IF todo.kind = "apply" THEN payment ELSE
                [payment EXCEPT ![p] =
                   [place |-> "live", customer |-> todo.c, amount |-> todo.x]]
           /\ UNCHANGED owner
  <2>1. \A i \in Invoices : split[i] \in Nat
    BY <1>1, MoneyAssumption DEF Splits
  <2>2. \A i \in Invoices : invoice[i] \in InvoiceRow
    BY DEF LockedInv, TypeOK
  <2>3. \A i \in Invoices : split[i] > 0 => ShareAllowed(invoice[i], customer, split[i])
    BY <1>2, <1>4
  <2>4. ASSUME NEW i \in Invoices, split[i] > 0
        PROVE  Merged(invoice[i], rows[i], Credited(rows[i], split[i]))
                 = Credited(invoice[i], split[i])
    <3>1. rows[i] = invoice[i]
      BY <1>2, <2>4
    <3>2. Credited(invoice[i], split[i]) \in InvoiceRow
      BY <2>1, <2>2, CreditedType
    <3>3. /\ Credited(invoice[i], split[i]).place = invoice[i].place
          /\ Credited(invoice[i], split[i]).project = invoice[i].project
      BY <2>2 DEF Credited, InvoiceRow
    <3> QED
      BY <2>2, <3>1, <3>2, <3>3, MergedIsNew
  <2>5. invoice' = [i \in Invoices |->
            IF split[i] > 0 THEN Credited(invoice[i], split[i]) ELSE invoice[i]]
    BY <1>2, <1>4, <2>4
  <2>6. share' = [share EXCEPT ![p] = [i \in Invoices |-> share[p][i] + split[i]]]
    BY <1>1, <1>4 DEF LockedInv, TypeOK
  <2>7. Apply(p, split)
    BY <2>5, <2>6 DEF Apply
  <2>a. /\ \A i \in Invoices : lock[i] # r => invoice'[i] = invoice[i]
        /\ \A d \in Payments : d # p => share'[d] = share[d]
    <3>1. \A i \in Invoices : split[i] > 0 => lock[i] = r
      <4>1. \A i \in DOMAIN job[r].rows : lock[i] = r
        BY <1>1, <1>0, AllRowsLocked DEF CommitSplit
      <4> QED
        BY <1>0, <1>2, <4>1
    <3>2. /\ invoice \in [Invoices -> InvoiceRow]
          /\ share \in [Payments -> [Invoices -> Nat]]
      BY DEF LockedInv, TypeOK
    <3> QED
      BY <2>5, <2>6, <3>1, <3>2
  <2>8. CASE todo.kind = "receive"
    <3>1. todo.c \in Customers /\ todo.x \in Money /\ todo.x > 0
      BY <1>1, <2>8, PaymentTodo, MoneyAssumption
    <3>2. payment[p].place = "unborn" /\ SumFunction(split) <= todo.x
      BY <1>0, <1>1, <2>8 DEF Decides
    <3>3. ReceivePayment(p, todo.c, todo.x, split)
      BY <1>4, <2>3, <2>7, <2>8, <3>1, <3>2 DEF ReceivePayment, SplitAllowed
    <3>4. PaymentStep(p)
      BY <1>1, <3>1, <3>3 DEF PaymentStep
    <3> QED
      BY <1>0, <1>1, <2>a, <3>4 DEF Next
  <2>9. CASE todo.kind = "apply"
    <3>1. /\ payment[p].place = "live" /\ SumFunction(split) <= UnusedOf(p)
          /\ \E i \in Invoices : split[i] > 0
      BY <1>0, <1>1, <2>9, PaymentTodo DEF Decides
    <3>2. ApplyCredit(p, split)
      BY <1>4, <2>3, <2>7, <2>9, <3>1 DEF ApplyCredit, SplitAllowed
    <3>3. PaymentStep(p)
      BY <1>1, <3>2 DEF PaymentStep
    <3> QED
      BY <1>0, <1>1, <2>a, <3>3 DEF Next
  <2> QED
    BY <1>1, <2>8, <2>9
<1> QED
  BY <1>0, <1>3, <1>4 DEF CommitSplit

LEMMA DeleteIsAtomic ==
    ASSUME LockedInv, NEW r \in Requests, CommitDelete(r)
    PROVE  /\ Next
           /\ \A i \in Invoices : lock[i] # r => invoice'[i] = invoice[i]
           /\ \A d \in Payments : d # job[r].todo.p => share'[d] = share[d]
<1>0. PICK todo, p, split, rows :
        todo = job[r].todo /\ p = todo.p /\ split = job[r].split /\ rows = job[r].rows
  OBVIOUS
<1>1. /\ todo.kind = "delete" /\ Decides(r) /\ p \in Payments /\ split = share[p]
      /\ Step(r) = "lock"
  BY <1>0, AllRowsLocked DEF CommitDelete, AllLocked, Step
<1>2. /\ \A i \in Invoices : i \in DOMAIN rows <=> split[i] > 0
      /\ \A i \in Invoices : i \in DOMAIN rows => rows[i] = invoice[i]
  BY <1>0, <1>1, AllRowsLocked DEF CommitDelete
<1>3. /\ \A i \in Invoices : invoice[i] \in InvoiceRow /\ Live(i) /\ share[p][i] \in Nat
      /\ share \in [Payments -> [Invoices -> Nat]]
  BY <1>1 DEF LockedInv, TypeOK, SplitsInv, RowsStay, Live
<1> DEFINE reversed(i) == IF i \in DOMAIN rows THEN split[i] ELSE 0
           row(i) == IF i \in DOMAIN rows
                     THEN Merged(invoice[i], rows[i], Reversed(rows[i], split[i]))
                     ELSE invoice[i]
           left(i) == [row(i) EXCEPT !.direct = @ + (share[p][i] - reversed(i))]
           back(i) == IF Live(i) /\ share[p][i] > 0
                      THEN Reversed(invoice[i], share[p][i])
                      ELSE invoice[i]
<1>4. /\ invoice' = [i \in Invoices |-> left(i)]
      /\ share' = [share EXCEPT ![p] = [i \in Invoices |-> 0]]
      /\ payment' = [payment EXCEPT ![p].place = "bin"]
      /\ UNCHANGED owner
  BY <1>0 DEF CommitDelete
<1>5. ASSUME NEW i \in Invoices
      PROVE  left(i) = back(i)
  <2>1. share[p][i] - reversed(i) = 0
    BY <1>1, <1>2, <1>3
  <2>2. row(i) = back(i) /\ back(i) \in InvoiceRow
    <3>1. CASE split[i] > 0
      <4>1. rows[i] = invoice[i] /\ i \in DOMAIN rows
        BY <1>2, <3>1
      <4>2. Reversed(invoice[i], split[i]) \in InvoiceRow
        BY <1>1, <1>3, ReversedType
      <4>3. /\ Reversed(invoice[i], split[i]).place = invoice[i].place
            /\ Reversed(invoice[i], split[i]).project = invoice[i].project
        BY <1>3 DEF Reversed, InvoiceRow
      <4>4. Merged(invoice[i], rows[i], Reversed(rows[i], split[i]))
              = Reversed(invoice[i], split[i])
        BY <1>3, <4>1, <4>2, <4>3, MergedIsNew
      <4> QED
        BY <1>1, <1>3, <3>1, <4>1, <4>2, <4>4
    <3>2. CASE ~(split[i] > 0)
      BY <1>1, <1>2, <1>3, <3>2
    <3> QED
      BY <3>1, <3>2
  <2> HIDE DEF row, back, reversed
  <2>3. left(i) \in InvoiceRow
    BY <2>1, <2>2 DEF InvoiceRow
  <2>4. /\ left(i).place = back(i).place /\ left(i).project = back(i).project
        /\ left(i).status = back(i).status /\ left(i).subtotal = back(i).subtotal
        /\ left(i).discount = back(i).discount /\ left(i).amount = back(i).amount
        /\ left(i).advance = back(i).advance /\ left(i).paidAt = back(i).paidAt
        /\ left(i).direct = back(i).direct /\ left(i).history = back(i).history
    BY <2>1, <2>2 DEF InvoiceRow
  <2> HIDE DEF left
  <2> QED
    BY <2>2, <2>3, <2>4, SameRow
<1>6. invoice' = [i \in Invoices |-> back(i)]
  <2>1. invoice' = [i \in Invoices |-> left(i)]
    BY <1>4
  <2>2. \A i \in Invoices : left(i) = back(i)
    BY <1>5
  <2> HIDE DEF left, back
  <2> QED
    BY <2>1, <2>2
<1>7. share' = [share EXCEPT ![p] = [i \in Invoices |-> IF Live(i) THEN 0 ELSE share[p][i]]]
  BY <1>3, <1>4
<1>8. payment[p].place = "live"
  BY <1>0, <1>1 DEF Decides
<1>9. /\ \A i \in Invoices : lock[i] # r => invoice'[i] = invoice[i]
      /\ \A d \in Payments : d # p => share'[d] = share[d]
  <2>1. \A i \in Invoices : split[i] > 0 => lock[i] = r
    <3>1. \A i \in DOMAIN job[r].rows : lock[i] = r
      BY AllRowsLocked DEF CommitDelete
    <3> QED
      BY <1>0, <1>2, <3>1
  <2>2. \A i \in Invoices : lock[i] # r => back(i) = invoice[i]
    BY <1>1, <1>3, <2>1
  <2> HIDE DEF left, back
  <2> QED
    BY <1>3, <1>4, <1>6, <2>2
<1> QED
  <2>1. DeletePayment(p)
    BY <1>4, <1>6, <1>7, <1>8 DEF DeletePayment
  <2> QED
    BY <1>0, <1>1, <1>9, <2>1 DEF Next, PaymentStep

----------------------------------------------------------------------------
(* The start, and the steps that lock.                                     *)

LEMMA LockedStart == ConcurrentInit => LockedInv
<1> SUFFICES ASSUME ConcurrentInit PROVE LockedInv
  OBVIOUS
<1>1. SplitsInv
  BY SplitsStart
<1>2. /\ share \in [Payments -> [Invoices -> Nat]] /\ owner \in [Projects -> Customers]
      /\ payment \in [Payments -> PaymentRow]
  <2>1. share \in [Payments -> [Invoices -> Money]]
    BY DEF ConcurrentInit, Starts
  <2>2. share \in [Payments -> [Invoices -> Nat]]
    BY <2>1, MoneyAssumption
  <2> QED
    BY <1>1, <2>2 DEF ConcurrentInit, SplitsInv, ShapesOK
<1>3. invoice \in [Invoices -> InvoiceRow]
  <2> DEFINE paid(i) == SumFunction([p \in Payments |-> share[p][i]])
  <2>1. PICK j \in Projects :
          invoice = [i \in Invoices |->
             [NewInvoice(j, Total, 0, 0) EXCEPT !.advance = paid(i), !.history = paid(i)]]
    BY DEF ConcurrentInit
  <2>2. ASSUME NEW i \in Invoices PROVE paid(i) \in Nat
    <3> DEFINE f == [p \in Payments |-> share[p][i]]
    <3>1. DOMAIN f = Payments /\ \A p \in Payments : f[p] \in Nat
      BY <1>2
    <3> HIDE DEF f
    <3>2. SumFunction(f) \in Nat
      BY <3>1, SumIsNat, IdsAssumption DEF SumFunction
    <3> QED
      BY <3>2 DEF f
  <2> HIDE DEF paid
  <2>3. ASSUME NEW n \in Nat
        PROVE  [NewInvoice(j, Total, 0, 0) EXCEPT !.advance = n, !.history = n] \in InvoiceRow
    <3>1. Total \in Nat
      BY ConcurrencyAssumption
    <3>2. Total - 0 \in Nat /\ n \in Int
      BY <3>1
    <3>3. NewInvoice(j, Total, 0, 0) \in InvoiceRow
      BY <3>1, <3>2 DEF NewInvoice, InvoiceRow, Places
    <3> QED
      BY <3>2, <3>3 DEF InvoiceRow
  <2> QED
    BY <2>1, <2>2, <2>3
<1>4. \A r \in Requests : Locked(r) /\ Step(r) = "idle"
  BY DEF ConcurrentInit, Idle, Locked, Step
<1> QED
  BY <1>1, <1>2, <1>3, <1>4 DEF LockedInv, TypeOK

(* A step of one request, seen by the others: their rows stay as they are. *)
LEMMA OthersStayLocked ==
    ASSUME LockedInv, NEW r \in Requests, NEW next, job' = [job EXCEPT ![r] = next],
           next.step \in {"idle", "over", "payment", "lock"},
           SplitsInv', TypeOK', Locked(r)',
           \A row \in Rows, s \in Requests \ {r} : lock[row] = s => lock'[row] = s,
           \A i \in Invoices : lock[i] # r => invoice'[i] = invoice[i],
           \A d \in Payments :
               \/ share'[d] = share[d]
               \/ \A s \in Requests \ {r} : Step(s) = "lock" => job[s].todo.p # d
    PROVE  LockedInv'
<1>1. DOMAIN job = Requests /\ job'[r] = next /\ \A s \in Requests \ {r} : job'[s] = job[s]
  BY DEF LockedInv, SplitsInv, ShapesOK
<1>2. ASSUME NEW s \in Requests \ {r}, Step(s) = "lock"
      PROVE  Locked(s)'
  <2>1. Locked(s) /\ job[s].todo.p \in Payments
    BY <1>2, PaymentTodo DEF LockedInv, SplitsInv, TodoOK
  <2>2. share'[job[s].todo.p] = share[job[s].todo.p]
    BY <1>2, <2>1
  <2>3. DOMAIN job[s].rows \subseteq Invoices
    BY <1>2, <2>1 DEF Locked
  <2>4. \A i \in DOMAIN job[s].rows : lock'[i] = s /\ invoice'[i] = invoice[i]
    BY <1>2, <2>1, <2>3 DEF Locked, Rows
  <2> QED
    BY <1>1, <1>2, <2>1, <2>2, <2>4 DEF Locked, Step
<1>3. \A s \in Requests \ {r} : Locked(s)'
  BY <1>1, <1>2 DEF Locked, Step
<1>4. \A s \in Requests : Step(s)' \in {"idle", "over", "payment", "lock"}
  BY <1>1 DEF LockedInv, Step
<1> QED
  BY <1>3, <1>4 DEF LockedInv

(* A step that writes nothing.                                             *)
LEMMA OthersSeeNothing ==
    ASSUME LockedInv, NEW r \in Requests, NEW next, job' = [job EXCEPT ![r] = next],
           next.step \in {"idle", "over", "payment", "lock"},
           SplitsInv', Locked(r)', Unchanged,
           \A row \in Rows, s \in Requests \ {r} : lock[row] = s => lock'[row] = s
    PROVE  LockedInv'
<1>1. TypeOK'
  BY DEF LockedInv, TypeOK, Unchanged
<1>2. invoice' = invoice /\ share' = share
  BY DEF Unchanged
<1> QED
  BY <1>1, <1>2, OthersStayLocked

LEMMA EndLocked ==
    ASSUME LockedInv, NEW r \in Requests, End(r), Unchanged, SplitsInv'
    PROVE  LockedInv'
<1>1. /\ job' = [job EXCEPT ![r] = Over] /\ job'[r] = Over
      /\ \A row \in Rows, s \in Requests \ {r} : lock[row] = s => lock'[row] = s
  BY EndedLocks DEF LockedInv, SplitsInv, ShapesOK
<1>2. Locked(r)'
  BY <1>1 DEF Locked, Step, Over
<1>3. Over.step = "over"
  BY DEF Over
<1> QED
  BY <1>1, <1>2, <1>3, OthersSeeNothing

LEMMA StartReceiveLocked ==
    ASSUME LockedInv, NEW r \in Requests, NEW todo \in Jobs, StartReceive(r, todo), SplitsInv'
    PROVE  LockedInv'
<1>1. PICK order \in Orders(todo.split) :
        job' = [job EXCEPT ![r] = LockNext(todo, order, todo.split)]
  BY DEF StartReceive, Goto
<1>2. /\ UNCHANGED lock /\ Unchanged /\ todo.kind = "receive" /\ DOMAIN job = Requests
  BY DEF StartReceive, LockedInv, SplitsInv, ShapesOK
<1>3. Range(order) = {i \in Invoices : todo.split[i] > 0}
  BY OrderOfSplit
<1>4. Locked(r)'
  <2>1. job'[r] = LockNext(todo, order, todo.split)
    BY <1>1, <1>2
  <2>2. /\ job'[r].step = "lock" /\ job'[r].todo = todo /\ job'[r].order = order
        /\ job'[r].split = todo.split /\ job'[r].rows = <<>>
    BY <2>1 DEF LockNext
  <2>3. DOMAIN job'[r].rows = {}
    BY <2>2
  <2> QED
    BY <1>2, <1>3, <2>2, <2>3 DEF Locked, Step
<1>5. LockNext(todo, order, todo.split).step = "lock"
  BY DEF LockNext
<1> QED
  BY <1>1, <1>2, <1>4, <1>5, OthersSeeNothing

LEMMA StartOnPaymentLocked ==
    ASSUME LockedInv, NEW r \in Requests, NEW todo \in Jobs, StartOnPayment(r, todo), SplitsInv'
    PROVE  LockedInv'
<1> DEFINE next == [step |-> "payment", todo |-> todo]
<1>1. /\ job' = [job EXCEPT ![r] = next] /\ UNCHANGED lock /\ Unchanged
      /\ DOMAIN job = Requests
  BY DEF StartOnPayment, Goto, LockedInv, SplitsInv, ShapesOK
<1>2. Locked(r)'
  BY <1>1 DEF Locked, Step
<1> QED
  BY <1>1, <1>2, OthersSeeNothing

LEMMA LockPaymentLocked ==
    ASSUME LockedInv, NEW r \in Requests, LockPayment(r), SplitsInv'
    PROVE  LockedInv'
<1>0. PICK todo, p, split :
        /\ todo = job[r].todo /\ p = todo.p
        /\ split = IF todo.kind = "apply" THEN todo.split ELSE share[p]
  OBVIOUS
<1>1. Unchanged
  BY DEF LockPayment
<1>2. CASE End(r)
  BY <1>1, <1>2, EndLocked
<1>3. CASE Take(r, p) /\ \E order \in Orders(split) : Goto(r, LockNext(todo, order, split))
  <2>1. PICK order \in Orders(split) : job' = [job EXCEPT ![r] = LockNext(todo, order, split)]
    BY <1>3 DEF Goto
  <2>2. Range(order) = {i \in Invoices : split[i] > 0}
    BY OrderOfSplit
  <2>3. /\ p \in Payments /\ p \in Rows /\ todo.kind \in {"apply", "delete"}
        /\ DOMAIN job = Requests /\ ShapesOK
    <3>1. todo \in Application \cup Deletion /\ Step(r) = "payment"
      BY <1>0 DEF LockPayment, Step, LockedInv, SplitsInv, TodoOK
    <3>2. p \in Payments /\ todo.kind \in {"apply", "delete"}
      BY <1>0, <3>1 DEF Application, Deletion
    <3> QED
      BY <3>2 DEF Rows, LockedInv, SplitsInv, ShapesOK
  <2>4. \A row \in Rows, s \in Requests \ {r} : lock[row] = s => lock'[row] = s
    BY <1>3, <2>3, TakenLock
  <2>5. /\ job'[r].step = "lock" /\ job'[r].todo = todo /\ job'[r].order = order
        /\ job'[r].split = split /\ job'[r].rows = <<>>
    BY <2>1, <2>3 DEF LockNext
  <2>6. todo.kind = "delete" => split = share'[p]
    BY <1>0, <1>1 DEF Unchanged
  <2>7. DOMAIN job'[r].rows = {}
    BY <2>5
  <2>8. Locked(r)'
    BY <1>0, <2>2, <2>5, <2>6, <2>7 DEF Locked, Step
  <2>9. LockNext(todo, order, split).step = "lock"
    BY DEF LockNext
  <2> QED
    BY <1>1, <2>1, <2>4, <2>8, <2>9, OthersSeeNothing
<1> QED
  BY <1>0, <1>2, <1>3 DEF LockPayment

LEMMA LockInvoiceLocked ==
    ASSUME LockedInv, NEW r \in Requests, LockInvoice(r), SplitsInv'
    PROVE  LockedInv'
<1>0. PICK old, order, rows, i, value :
        old = job[r] /\ order = old.order /\ rows = old.rows /\ i = Head(order)
        /\ value = invoice[i]
  OBVIOUS
<1> DEFINE read == [j \in DOMAIN rows \cup {i} |-> IF j = i THEN value ELSE rows[j]]
           next == [old EXCEPT !.order = Tail(order), !.rows = read]
<1>1. /\ Step(r) = "lock" /\ order # <<>> /\ Take(r, i) /\ Unchanged
      /\ job' = [job EXCEPT ![r] = next]
  BY <1>0 DEF LockInvoice, Step, Goto
<1>2. /\ Locked(r) /\ order \in Seq(Invoices) /\ old.todo \in OnPayment /\ ShapesOK
      /\ DOMAIN old = {"step", "todo", "order", "split", "rows"}
  BY <1>0, <1>1 DEF LockedInv, SplitsInv, TodoOK
<1>3. i \in Invoices /\ i \in Rows /\ Range(order) = {i} \cup Range(Tail(order))
  <2>1. i \in Invoices /\ i = order[1]
    BY <1>0, <1>1, <1>2
  <2>2. \A k \in DOMAIN order : k = 1 \/ (k - 1 \in DOMAIN Tail(order)
                                           /\ order[k] = Tail(order)[k - 1])
    BY <1>1, <1>2
  <2>3. \A k \in DOMAIN Tail(order) : k + 1 \in DOMAIN order
                                       /\ Tail(order)[k] = order[k + 1]
    BY <1>1, <1>2
  <2>4. 1 \in DOMAIN order
    BY <1>1, <1>2
  <2>5. Range(order) = {order[k] : k \in DOMAIN order}
    BY DEF Range
  <2>6. Range(Tail(order)) = {Tail(order)[k] : k \in DOMAIN Tail(order)}
    BY DEF Range
  <2>7. ASSUME NEW x \in Range(order) PROVE x \in {i} \cup Range(Tail(order))
    <3>1. PICK k \in DOMAIN order : x = order[k]
      BY <2>5, <2>7
    <3>2. CASE k = 1
      BY <2>1, <3>1, <3>2
    <3>3. CASE k - 1 \in DOMAIN Tail(order) /\ order[k] = Tail(order)[k - 1]
      BY <2>6, <3>1, <3>3
    <3> QED
      BY <2>2, <3>1, <3>2, <3>3
  <2>8. ASSUME NEW x \in {i} \cup Range(Tail(order)) PROVE x \in Range(order)
    BY <2>1, <2>3, <2>4, <2>5, <2>6, <2>8
  <2> QED
    BY <2>1, <2>7, <2>8 DEF Rows
<1>4. /\ lock'[i] = r
      /\ \A row \in Rows : lock[row] = r => lock'[row] = r
      /\ \A row \in Rows, s \in Requests \ {r} : lock[row] = s => lock'[row] = s
  BY <1>1, <1>2, <1>3, TakenLock
<1>5. /\ job'[r] = next /\ next.step = "lock" /\ next.todo = old.todo /\ next.split = old.split
      /\ next.order = Tail(order) /\ next.rows = read
  BY <1>0, <1>1, <1>2 DEF ShapesOK, Step
<1>6. /\ DOMAIN next.rows = DOMAIN rows \cup {i}
      /\ \A k \in DOMAIN rows : k # i => next.rows[k] = rows[k]
      /\ next.rows[i] = value
  BY <1>5
<1>7. /\ DOMAIN rows \cup Range(order) = {k \in Invoices : old.split[k] > 0}
      /\ \A k \in DOMAIN rows : lock[k] = r /\ rows[k] = invoice[k]
      /\ old.todo.kind = "delete" => old.split = share[old.todo.p]
  BY <1>0, <1>1, <1>2 DEF Locked
<1>8. invoice' = invoice /\ share' = share
  BY <1>1 DEF Unchanged
<1> HIDE DEF next, read
<1>9. Locked(r)'
  <2>1. DOMAIN next.rows \cup Range(next.order) = {k \in Invoices : next.split[k] > 0}
    BY <1>3, <1>5, <1>6, <1>7
  <2>2. \A k \in DOMAIN next.rows : lock'[k] = r /\ next.rows[k] = invoice'[k]
    BY <1>0, <1>3, <1>4, <1>6, <1>7, <1>8 DEF Rows
  <2> QED
    BY <1>5, <1>7, <1>8, <2>1, <2>2 DEF Locked, Step
<1> QED
  BY <1>1, <1>4, <1>5, <1>9, OthersSeeNothing

(* A commit is a step of Billing.tla, on rows nobody else has locked.      *)
LEMMA CommitLocked ==
    ASSUME LockedInv, NEW r \in Requests, CommitSplit(r) \/ CommitDelete(r), SplitsInv'
    PROVE  LockedInv'
<1>1. /\ Next \/ UNCHANGED vars
      /\ \A i \in Invoices : lock[i] # r => invoice'[i] = invoice[i]
      /\ \A d \in Payments : d # job[r].todo.p => share'[d] = share[d]
  BY SplitIsAtomic, DeleteIsAtomic
<1>2. TypeOK'
  <2>1. [BinNext]_vars
    BY <1>1 DEF BinNext
  <2> QED
    BY <2>1, TypeStep DEF LockedInv
<1>3. End(r) /\ Step(r) = "lock"
  BY DEF CommitSplit, CommitDelete, AllLocked, Step
<1>4. /\ job' = [job EXCEPT ![r] = Over] /\ job'[r] = Over
      /\ \A row \in Rows, s \in Requests \ {r} : lock[row] = s => lock'[row] = s
  BY <1>3, EndedLocks DEF LockedInv, SplitsInv, ShapesOK
<1>5. \A s \in Requests \ {r} : Step(s) = "lock" => job[s].todo.p # job[r].todo.p
  BY <1>3, OnePayment DEF LockedInv
<1>6. Locked(r)'
  BY <1>4 DEF Locked, Step, Over
<1>7. Over.step = "over"
  BY DEF Over
<1>8. \A d \in Payments :
        \/ share'[d] = share[d]
        \/ \A s \in Requests \ {r} : Step(s) = "lock" => job[s].todo.p # d
  BY <1>1, <1>5
<1> QED
  BY <1>1, <1>2, <1>4, <1>6, <1>7, <1>8, OthersStayLocked

----------------------------------------------------------------------------
LEMMA LockedStep ==
    ASSUME Jobs \subseteq OnPayment
    PROVE  LockedInv /\ [ConcurrentNext]_allVars => LockedInv' /\ [Next]_vars
<1> SUFFICES ASSUME LockedInv, [ConcurrentNext]_allVars PROVE LockedInv' /\ [Next]_vars
  OBVIOUS
<1>1. SplitsInv'
  BY SplitsStep DEF LockedInv
<1>2. CASE UNCHANGED allVars
  <2>1. UNCHANGED <<invoice, payment, share, owner, job, lock>>
    BY <1>2 DEF allVars
  <2>2. TypeOK'
    BY <2>1 DEF LockedInv, TypeOK
  <2>3. \A r \in Requests : Locked(r)' /\ Step(r)' \in {"idle", "over", "payment", "lock"}
    BY <2>1 DEF LockedInv, Locked, Step
  <2> QED
    BY <1>1, <2>1, <2>2, <2>3 DEF LockedInv, vars
<1>3. ASSUME NEW r \in Requests, Begin(r) PROVE LockedInv' /\ UNCHANGED vars
  <2>1. PICK todo \in Jobs :
          ReadInvoice(r, todo) \/ StartReceive(r, todo) \/ StartOnPayment(r, todo)
    BY <1>3 DEF Begin
  <2>2. ~ReadInvoice(r, todo)
    BY PaymentTodo DEF ReadInvoice
  <2>3. UNCHANGED vars
    BY <2>1, <2>2 DEF StartReceive, StartOnPayment, Unchanged, vars
  <2> QED
    BY <1>1, <2>1, <2>2, <2>3, StartReceiveLocked, StartOnPaymentLocked
<1>4. ASSUME NEW r \in Requests, Proceed(r) PROVE LockedInv' /\ [Next]_vars
  <2>1. Step(r) \in {"idle", "over", "payment", "lock"}
    BY DEF LockedInv
  <2>2. LockPayment(r) \/ LockInvoice(r) \/ CommitSplit(r) \/ CommitDelete(r)
    BY <1>4, <2>1
    DEF Proceed, WriteInvoice, Refresh, SumShares, ReleaseUpdate, ReleaseCommit, Step
  <2>3. CASE LockPayment(r) \/ LockInvoice(r)
    <3>1. UNCHANGED vars
      BY <2>3 DEF LockPayment, LockInvoice, Unchanged, vars
    <3> QED
      BY <1>1, <2>3, <3>1, LockPaymentLocked, LockInvoiceLocked
  <2>4. CASE CommitSplit(r) \/ CommitDelete(r)
    BY <1>1, <2>4, CommitLocked, SplitIsAtomic, DeleteIsAtomic
  <2> QED
    BY <2>2, <2>3, <2>4
<1>5. ASSUME NEW r \in Requests, Victim(r) \/ Die(r) PROVE LockedInv' /\ UNCHANGED vars
  <2>1. End(r) /\ Unchanged
    BY <1>5 DEF Victim, Die
  <2> QED
    BY <1>1, <2>1, EndLocked DEF Unchanged, vars
<1> QED
  BY <1>2, <1>3, <1>4, <1>5 DEF ConcurrentNext

(* Requests that lock what they read are serializable: each commit is one  *)
(* step of Billing.tla, on the rows as they are when it happens.           *)
THEOREM LockedRequestsAreSerial ==
    ASSUME Jobs \subseteq OnPayment
    PROVE  ConcurrentSpec => CommitsAreAtomic
<1> QED
  BY LockedStart, LockedStep, PTL DEF ConcurrentSpec, CommitsAreAtomic

----------------------------------------------------------------------------
(* What follows for the ledger: the invariants of Billing.tla hold at the  *)
(* start, and every commit is a step that keeps them.                      *)

LedgerInv ==
    /\ LockedInv /\ SharesInv /\ SharesAreTheRest
    /\ AdvanceWithinAmount /\ HistoryMatchesAdvance /\ DirectIsNat

LEMMA LedgerStart == ConcurrentInit => LedgerInv
<1> SUFFICES ASSUME ConcurrentInit PROVE LedgerInv
  OBVIOUS
<1>1. LockedInv /\ SplitsInv /\ TypeOK
  BY LockedStart DEF LockedInv
<1>2. ASSUME NEW i \in Invoices
      PROVE  /\ invoice[i].place = "live" /\ invoice[i].status = "pending"
             /\ invoice[i].direct = 0 /\ invoice[i].amount = Total
             /\ invoice[i].advance = SumFunctionOnSet(SharesOf(i), Payments)
             /\ invoice[i].history = invoice[i].advance
             /\ invoice[i].advance < Total
  <2> DEFINE paid(k) == SumFunction([p \in Payments |-> share[p][k]])
  <2>1. PICK j \in Projects :
          invoice = [k \in Invoices |->
             [NewInvoice(j, Total, 0, 0) EXCEPT !.advance = paid(k), !.history = paid(k)]]
    BY DEF ConcurrentInit
  <2>2. paid(i) < Total
    BY DEF ConcurrentInit, Starts
  <2>3. paid(i) = SumFunctionOnSet(SharesOf(i), Payments)
    BY DEF SumFunction, SharesOf
  <2>4. Total - 0 = Total
    <3>1. Total \in Nat
      BY ConcurrencyAssumption
    <3> QED
      BY <3>1
  <2> HIDE DEF paid
  <2>5. invoice[i] = [NewInvoice(j, Total, 0, 0) EXCEPT !.advance = paid(i), !.history = paid(i)]
    BY <2>1
  <2>6. /\ invoice[i].place = "live" /\ invoice[i].status = "pending"
        /\ invoice[i].direct = 0 /\ invoice[i].amount = Total
        /\ invoice[i].advance = paid(i) /\ invoice[i].history = paid(i)
    BY <2>4, <2>5 DEF NewInvoice
  <2> QED
    BY <2>2, <2>3, <2>6
<1>3. SharesInv
  <2>1. BinnedPaymentHoldsNothing
    <3>1. PICK c \in Customers, there \in SUBSET Payments :
            payment = [p \in Payments |->
               [place |-> IF p \in there THEN "live" ELSE "unborn",
                customer |-> c, amount |-> IF p \in there THEN Worth ELSE 0]]
      BY DEF ConcurrentInit
    <3>2. \A p \in Payments : payment[p].place # "bin"
      BY <3>1
    <3> QED
      BY <3>2 DEF BinnedPaymentHoldsNothing
  <2> QED
    BY <1>2, <2>1 DEF SharesInv, UnbornHoldsNothing, VoidHoldsNothing
<1>4. SharesAreTheRest
  <2> SUFFICES ASSUME NEW i \in Invoices
               PROVE  FromPayments(invoice[i]) = SumFunctionOnSet(SharesOf(i), Payments)
    BY DEF SharesAreTheRest
  <2>1. invoice[i].history \in Int
    BY <1>1 DEF TypeOK, InvoiceRow
  <2> QED
    BY <1>2, <2>1 DEF FromPayments
<1>5. AdvanceWithinAmount
  <2> SUFFICES ASSUME NEW i \in Invoices PROVE invoice[i].advance <= invoice[i].amount
    BY DEF AdvanceWithinAmount
  <2>1. invoice[i].advance \in Nat /\ invoice[i].amount \in Nat
    BY <1>1 DEF TypeOK, InvoiceRow
  <2> QED
    BY <1>2, <2>1
<1>6. HistoryMatchesAdvance /\ DirectIsNat
  BY <1>2 DEF HistoryMatchesAdvance, DirectIsNat
<1> QED
  BY <1>1, <1>3, <1>4, <1>5, <1>6 DEF LedgerInv

LEMMA LedgerStep ==
    ASSUME Jobs \subseteq OnPayment, AdvanceEdits = {}, RawAmounts = {}
    PROVE  LedgerInv /\ [ConcurrentNext]_allVars => LedgerInv'
<1> SUFFICES ASSUME LedgerInv, [ConcurrentNext]_allVars PROVE LedgerInv'
  OBVIOUS
<1>1. LockedInv' /\ [Next]_vars
  BY LockedStep DEF LedgerInv
<1>2. [BinNext]_vars /\ TypeOK /\ TypeOK'
  BY <1>1 DEF BinNext, LedgerInv, LockedInv
<1>3. SharesInv' /\ SharesAreTheRest' /\ AdvanceWithinAmount'
  BY <1>2, SharesStep, RestStep, WithinAmountStep DEF LedgerInv
<1> QED
  BY <1>1, <1>2, <1>3, HistoryStep DEF LedgerInv

(* Requests that lock what they read lose no update: however many run at   *)
(* once, the payment history of each invoice adds up to what it shows as   *)
(* received, which is what two instalments at once break.                  *)
THEOREM LockedRequestsLoseNothing ==
    ASSUME Jobs \subseteq OnPayment, AdvanceEdits = {}, RawAmounts = {}
    PROVE  ConcurrentSpec => []HistoryMatchesAdvance
<1>1. LedgerInv => HistoryMatchesAdvance
  BY DEF LedgerInv
<1> QED
  BY <1>1, LedgerStart, LedgerStep, PTL DEF ConcurrentSpec

=============================================================================
