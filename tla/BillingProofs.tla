--------------------------- MODULE BillingProofs ---------------------------
(***************************************************************************)
(* What Billing.tla, with invoices restored from the bin (BillingBin.tla)  *)
(* and seen on the screens (BillingViews.tla), keeps for every value of    *)
(* its constants.                                                          *)
(*                                                                         *)
(* Whatever the request, one step does one of seven things to an invoice   *)
(* row, or nothing (lemma EveryStepMoves); the bin adds an eighth, putting *)
(* it back.  Each property of a row is then an invariant because each of   *)
(* the eight keeps it.  Shares and screens are sums over the rows: see     *)
(* FiniteSums.tla.                                                         *)
(***************************************************************************)
EXTENDS BillingViews, FiniteSums, TLAPS

----------------------------------------------------------------------------
(* The things a step can do to an invoice row *)

Created(r, s) ==
    /\ r.place = "unborn"
    /\ \E j \in Projects, total \in Totals, discount \in Discounts, advance \in Money :
         /\ discount <= total
         /\ advance <= total - discount
         /\ s = NewInvoice(j, total, discount, advance)

Edited(r, s) ==
    /\ r.place = "live"
    /\ \E q \in Patch :
         LET saved == Saved(r, Patched(r, q)) IN
         /\ PatchAllowed(r, q)
         /\ saved.direct >= -LedgerFloor
         /\ IF r.status = "pending" /\ q.status = "cancelled"
            THEN s = Released(saved)
            ELSE s = saved

PaidUp(r, s) ==
    /\ r.place = "live" /\ r.status = "pending"
    /\ s = Saved(r, Settled(r))

PaidInPart(r, s) ==
    /\ r.place = "live" /\ r.status = "pending"
    /\ \E x \in Money :
         /\ x > 0 /\ x <= BalanceDue(r)
         /\ s = Saved(r, Instalment(r, x))

Binned(r, s) == r.place = "live" /\ s = [r EXCEPT !.place = "bin"]

GivenShare(r, s) ==
    /\ r.place = "live" /\ r.status = "pending"
    /\ \E x \in Money : x > 0 /\ x <= BalanceDue(r) /\ s = Credited(r, x)

GivenBack(r, s) ==
    /\ r.place = "live"
    /\ \E x \in Nat : x > 0 /\ s = Reversed(r, x)

Moved(r, s) ==
    \/ Created(r, s)
    \/ Edited(r, s)
    \/ PaidUp(r, s)
    \/ PaidInPart(r, s)
    \/ Binned(r, s)
    \/ GivenShare(r, s)
    \/ GivenBack(r, s)

(* The eighth is the bin's: a row comes back, some of its shares as money  *)
(* taken on the invoice itself.                                            *)
PutBack(r, s) ==
    /\ r.place = "bin"
    /\ \E x \in Nat : s = [r EXCEPT !.place = "live", !.direct = @ + x]

----------------------------------------------------------------------------
(* The row operations keep a row a row *)

LEMMA CreatedType ==
    ASSUME NEW r \in InvoiceRow, NEW s, Created(r, s)
    PROVE  s \in InvoiceRow
<1>1. PICK j \in Projects, total \in Totals, discount \in Discounts, advance \in Money :
         /\ discount <= total
         /\ advance <= total - discount
         /\ s = NewInvoice(j, total, discount, advance)
   BY DEF Created
<1>2. total \in Nat /\ discount \in Nat /\ advance \in Nat /\ total - discount \in Nat
   BY <1>1, MoneyAssumption
<1> QED
  BY <1>1, <1>2 DEF NewInvoice, InvoiceRow, Places

LEMMA SavedType ==
    ASSUME NEW r \in InvoiceRow, NEW new \in InvoiceRow
    PROVE  Saved(r, new) \in InvoiceRow
<1>1. /\ r.direct + (new.advance - r.advance) \in Int
      /\ r.history + (new.advance - r.advance) \in Int
  BY DEF InvoiceRow
<1> QED
  BY <1>1 DEF Saved, InvoiceRow

LEMMA ReversedType ==
    ASSUME NEW r \in InvoiceRow, NEW x \in Nat
    PROVE  Reversed(r, x) \in InvoiceRow
<1>1. TakenOff(r.advance, x) \in Nat /\ r.history - x \in Int
  BY DEF TakenOff, InvoiceRow
<1>2. \A b : (r.paidAt /\ b) \in BOOLEAN
  OBVIOUS
<1> QED
  BY <1>1, <1>2 DEF Reversed, InvoiceRow

LEMMA CreditedType ==
    ASSUME NEW r \in InvoiceRow, NEW x \in Nat
    PROVE  Credited(r, x) \in InvoiceRow
<1>1. r.advance + x \in Nat /\ r.history + x \in Int
  BY DEF InvoiceRow
<1>2. \A b : (b \/ r.paidAt) \in BOOLEAN
  OBVIOUS
<1> QED
  BY <1>1, <1>2 DEF Credited, InvoiceRow

LEMMA SettledType ==
    ASSUME NEW r \in InvoiceRow
    PROVE  Settled(r) \in InvoiceRow
  BY DEF Settled, InvoiceRow

LEMMA InstalmentType ==
    ASSUME NEW r \in InvoiceRow, NEW x \in Nat
    PROVE  Instalment(r, x) \in InvoiceRow
  BY SettledType DEF Instalment, InvoiceRow

LEMMA ReleasedType ==
    ASSUME NEW r \in InvoiceRow
    PROVE  Released(r) \in InvoiceRow
  BY ReversedType DEF Released, FromPayments, InvoiceRow

LEMMA PatchedType ==
    ASSUME NEW r \in InvoiceRow, NEW q \in Patch, PatchAllowed(r, q)
    PROVE  Patched(r, q) \in InvoiceRow
<1> DEFINE new == Patched(r, q)
<1>1. /\ Or(q.discount, r.discount) \in Nat
      /\ Or(q.advance, r.advance) \in Nat
      /\ Or(q.amount, r.amount) \in Nat
      /\ Or(q.subtotal, r.subtotal) \in Nat
      /\ q.items # Absent => q.items \in Nat
      /\ r.subtotal \in Nat /\ r.discount \in Nat
  BY MoneyAssumption DEF Patch, InvoiceRow, Or
<1>2. /\ new.subtotal \in Nat /\ new.discount \in Nat /\ new.advance \in Nat
  BY <1>1 DEF Patched, InvoiceRow
<1>3. new.amount \in Nat
  BY <1>1 DEF Patched, InvoiceRow, PatchAllowed
<1>4. new.status \in {"pending", "paid", "cancelled"}
  BY EditsAssumption DEF Patched, InvoiceRow, Patch
<1>5. new.paidAt \in BOOLEAN
  BY EditsAssumption DEF Patched, InvoiceRow, Patch
<1> QED
  BY <1>2, <1>3, <1>4, <1>5 DEF Patched, InvoiceRow

LEMMA MovedType ==
    ASSUME NEW r \in InvoiceRow, NEW s, Moved(r, s)
    PROVE  s \in InvoiceRow
<1>1. CASE Created(r, s)
  BY <1>1, CreatedType
<1>2. CASE Edited(r, s)
  <2>1. PICK q \in Patch :
          /\ PatchAllowed(r, q)
          /\ \/ s = Released(Saved(r, Patched(r, q)))
             \/ s = Saved(r, Patched(r, q))
    BY <1>2 DEF Edited
  <2>2. Saved(r, Patched(r, q)) \in InvoiceRow
    BY <2>1, PatchedType, SavedType
  <2> QED
    BY <2>1, <2>2, ReleasedType
<1>3. CASE PaidUp(r, s)
  BY <1>3, SettledType, SavedType DEF PaidUp
<1>4. CASE PaidInPart(r, s)
  BY <1>4, InstalmentType, SavedType, MoneyAssumption DEF PaidInPart
<1>5. CASE Binned(r, s)
  BY <1>5 DEF Binned, InvoiceRow, Places
<1>6. CASE GivenShare(r, s)
  BY <1>6, CreditedType, MoneyAssumption DEF GivenShare
<1>7. CASE GivenBack(r, s)
  BY <1>7, ReversedType DEF GivenBack
<1> QED
  BY <1>1, <1>2, <1>3, <1>4, <1>5, <1>6, <1>7 DEF Moved

----------------------------------------------------------------------------
(* Every step moves every row so, or leaves it as it is *)

LEMMA EveryStepMoves ==
    ASSUME TypeOK, Next, NEW i \in Invoices
    PROVE  invoice'[i] = invoice[i] \/ Moved(invoice[i], invoice'[i])
<1> USE DEF TypeOK
<1>1. ASSUME NEW k \in Invoices, NEW j \in Projects, NEW total \in Totals,
             NEW discount \in Discounts, NEW advance \in Money,
             CreateInvoice(k, j, total, discount, advance)
      PROVE  invoice'[i] = invoice[i] \/ Created(invoice[i], invoice'[i])
  BY <1>1 DEF CreateInvoice, NextId, Created
<1>2. ASSUME NEW k \in Invoices, NEW q \in Patch, UpdateInvoice(k, q)
      PROVE  invoice'[i] = invoice[i] \/ Edited(invoice[i], invoice'[i])
  BY <1>2 DEF UpdateInvoice, Edited, Live, Pending
<1>3. ASSUME NEW k \in Invoices, MarkPaid(k)
      PROVE  invoice'[i] = invoice[i] \/ PaidUp(invoice[i], invoice'[i])
  BY <1>3 DEF MarkPaid, PaidUp, Live, Pending
<1>4. ASSUME NEW k \in Invoices, NEW x \in Money, RecordPayment(k, x)
      PROVE  invoice'[i] = invoice[i] \/ PaidInPart(invoice[i], invoice'[i])
  BY <1>4 DEF RecordPayment, PaidInPart, Live, Pending
<1>5. ASSUME NEW k \in Invoices, DeleteInvoice(k)
      PROVE  invoice'[i] = invoice[i] \/ Binned(invoice[i], invoice'[i])
  BY <1>5 DEF DeleteInvoice, Binned, Live
<1>6. ASSUME NEW p \in Payments, NEW c, NEW available, NEW alloc \in Splits,
             SplitAllowed(c, available, alloc), Apply(p, alloc)
      PROVE  invoice'[i] = invoice[i] \/ GivenShare(invoice[i], invoice'[i])
  BY <1>6 DEF SplitAllowed, ShareAllowed, Apply, Splits, GivenShare
<1>7. ASSUME NEW p \in Payments, DeletePayment(p)
      PROVE  invoice'[i] = invoice[i] \/ GivenBack(invoice[i], invoice'[i])
  BY <1>7 DEF DeletePayment, GivenBack, Live
<1>8. CASE \E k \in Invoices : InvoiceStep(k)
  BY <1>1, <1>2, <1>3, <1>4, <1>5, <1>8 DEF InvoiceStep, Moved
<1>9. CASE \E p \in Payments : PaymentStep(p)
  BY <1>6, <1>7, <1>9
     DEF PaymentStep, ReceivePayment, ApplyCredit, RestorePayment, Moved
<1>10. CASE \E j \in Projects, c \in Customers : ReassignProject(j, c)
  BY <1>10 DEF ReassignProject
<1> QED
  BY <1>8, <1>9, <1>10 DEF Next

LEMMA LostIsNat ==
    ASSUME TypeOK, NEW i \in Invoices
    PROVE  SumFunction(LostLinks(i)) \in Nat
<1>1. \A p \in Payments : LostLinks(i)[p] \in Nat
  BY DEF TypeOK, LostLinks
<1>2. DOMAIN LostLinks(i) = Payments
  BY DEF LostLinks
<1> QED
  BY <1>1, <1>2, SumIsNat, IdsAssumption DEF SumFunction

LEMMA RestoredRow ==
    ASSUME TypeOK, NEW k \in Invoices, RestoreInvoice(k), NEW i \in Invoices
    PROVE  invoice'[i] = invoice[i] \/ PutBack(invoice[i], invoice'[i])
<1>1. SumFunction(LostLinks(k)) \in Nat
  BY LostIsNat
<1>2. CASE i = k
  <2>1. invoice'[k] = [invoice[k] EXCEPT !.place = "live",
                                         !.direct = @ + SumFunction(LostLinks(k))]
    BY DEF RestoreInvoice, TypeOK
  <2>2. invoice[k].place = "bin"
    BY DEF RestoreInvoice
  <2> QED
    BY <1>1, <1>2, <2>1, <2>2 DEF PutBack
<1>3. CASE i # k
  BY <1>3 DEF RestoreInvoice, TypeOK
<1> QED
  BY <1>2, <1>3

LEMMA PutBackKeeps ==
    ASSUME NEW r \in InvoiceRow, NEW s, PutBack(r, s)
    PROVE  /\ s \in InvoiceRow
           /\ s.place = "live" /\ s.status = r.status
           /\ s.subtotal = r.subtotal /\ s.discount = r.discount
           /\ s.amount = r.amount /\ s.advance = r.advance
           /\ s.paidAt = r.paidAt /\ s.history = r.history
<1>1. PICK x \in Nat : s = [r EXCEPT !.place = "live", !.direct = @ + x]
  BY DEF PutBack
<1>2. r.direct + x \in Int
  BY DEF InvoiceRow
<1> QED
  BY <1>1, <1>2 DEF InvoiceRow, Places

LEMMA EveryBinStepMoves ==
    ASSUME TypeOK, BinNext, NEW i \in Invoices
    PROVE  \/ invoice'[i] = invoice[i]
           \/ Moved(invoice[i], invoice'[i])
           \/ PutBack(invoice[i], invoice'[i])
  BY EveryStepMoves, RestoredRow DEF BinNext

----------------------------------------------------------------------------
(* Type correctness.  The sums in the guards are never needed: a share is  *)
(* a natural number because money is added to it or it is reset to zero.   *)

LEMMA InitRow ==
    ASSUME Init, NEW i \in Invoices
    PROVE  invoice[i] =
        [place |-> "unborn", project |-> CHOOSE j \in Projects : TRUE,
         status |-> "pending", subtotal |-> 0, discount |-> 0, amount |-> 0,
         advance |-> 0, paidAt |-> FALSE, direct |-> 0, history |-> 0]
  BY DEF Init

LEMMA InitSums ==
    ASSUME Init, NEW i \in Invoices
    PROVE  /\ invoice[i].subtotal = 0 /\ invoice[i].discount = 0
           /\ invoice[i].amount = 0 /\ invoice[i].advance = 0
           /\ invoice[i].history = 0
<1>1. PICK j :
        invoice[i] =
          [place |-> "unborn", project |-> j, status |-> "pending", subtotal |-> 0,
           discount |-> 0, amount |-> 0, advance |-> 0, paidAt |-> FALSE,
           direct |-> 0, history |-> 0]
  BY InitRow
<1> QED
  BY <1>1

LEMMA TypeInit == Init => TypeOK
<1> SUFFICES ASSUME Init PROVE TypeOK
  OBVIOUS
<1>1. invoice \in [Invoices -> InvoiceRow]
  <2>1. (CHOOSE j \in Projects : TRUE) \in Projects
    BY IdsAssumption
  <2>3. invoice = [i \in Invoices |-> invoice[i]]
    BY DEF Init
  <2>4. \A j \in Projects :
          [place |-> "unborn", project |-> j, status |-> "pending", subtotal |-> 0,
           discount |-> 0, amount |-> 0, advance |-> 0, paidAt |-> FALSE,
           direct |-> 0, history |-> 0] \in InvoiceRow
    BY DEF InvoiceRow, Places
  <2>5. \A i \in Invoices : invoice[i] \in InvoiceRow
    BY <2>1, <2>4, InitRow
  <2> QED
    BY <2>3, <2>5
<1>2. payment \in [Payments -> PaymentRow]
  <2>1. (CHOOSE c \in Customers : TRUE) \in Customers
    BY IdsAssumption
  <2> QED
    BY <2>1 DEF Init, PaymentRow, Places
<1> QED
  BY <1>1, <1>2 DEF Init, TypeOK

LEMMA TypeStep == TypeOK /\ [BinNext]_vars => TypeOK'
<1> SUFFICES ASSUME TypeOK, [BinNext]_vars PROVE TypeOK'
  OBVIOUS
<1> USE DEF TypeOK
<1>1. CASE UNCHANGED vars
  BY <1>1 DEF vars
<1>2. CASE Next
  <2>1. invoice' \in [Invoices -> InvoiceRow]
    <3>1. invoice' = [i \in Invoices |-> invoice'[i]]
      <4>1. ASSUME NEW k \in Invoices, InvoiceStep(k)
            PROVE  invoice' = [i \in Invoices |-> invoice'[i]]
        BY <4>1 DEF InvoiceStep, CreateInvoice, UpdateInvoice, MarkPaid,
                    RecordPayment, DeleteInvoice
      <4>2. ASSUME NEW p \in Payments, PaymentStep(p)
            PROVE  invoice' = [i \in Invoices |-> invoice'[i]]
        BY <4>2 DEF PaymentStep, ReceivePayment, ApplyCredit, Apply, DeletePayment,
                    RestorePayment
      <4> QED
        BY <1>2, <4>1, <4>2 DEF Next, ReassignProject
    <3>2. \A i \in Invoices : invoice'[i] \in InvoiceRow
      BY <1>2, EveryStepMoves, MovedType
    <3> QED
      BY <3>1, <3>2
  <2>2. payment' \in [Payments -> PaymentRow]
    <3>1. ASSUME NEW k \in Invoices, InvoiceStep(k)
          PROVE  payment' = payment
      BY <3>1 DEF InvoiceStep, CreateInvoice, UpdateInvoice, MarkPaid, RecordPayment,
                  DeleteInvoice
    <3>2. ASSUME NEW p \in Payments, PaymentStep(p)
          PROVE  payment' \in [Payments -> PaymentRow]
      <4>1. ASSUME NEW c \in Customers, NEW amount \in Money, NEW alloc \in Splits,
                   ReceivePayment(p, c, amount, alloc)
            PROVE  payment' \in [Payments -> PaymentRow]
        BY <4>1, MoneyAssumption DEF ReceivePayment, PaymentRow, Places
      <4>2. CASE DeletePayment(p)
        BY <4>2 DEF DeletePayment, PaymentRow, Places
      <4>3. CASE RestorePayment(p)
        BY <4>3 DEF RestorePayment, PaymentRow, Places
      <4> QED
        BY <3>2, <4>1, <4>2, <4>3 DEF PaymentStep, ApplyCredit
    <3> QED
      BY <1>2, <3>1, <3>2 DEF Next, ReassignProject
  <2>3. share' \in [Payments -> [Invoices -> Nat]]
    <3>1. ASSUME NEW k \in Invoices, InvoiceStep(k)
          PROVE  share' \in [Payments -> [Invoices -> Nat]]
      BY <3>1 DEF InvoiceStep, CreateInvoice, UpdateInvoice, MarkPaid, RecordPayment,
                  DeleteInvoice
    <3>2. ASSUME NEW p \in Payments, NEW alloc \in Splits, Apply(p, alloc)
          PROVE  share' \in [Payments -> [Invoices -> Nat]]
      BY <3>2, MoneyAssumption DEF Apply, Splits
    <3>3. ASSUME NEW p \in Payments, PaymentStep(p)
          PROVE  share' \in [Payments -> [Invoices -> Nat]]
      BY <3>2, <3>3
         DEF PaymentStep, ReceivePayment, ApplyCredit, DeletePayment, RestorePayment
    <3> QED
      BY <1>2, <3>1, <3>3 DEF Next, ReassignProject
  <2>4. owner' \in [Projects -> Customers]
    BY <1>2, SMTT(30) DEF Next, InvoiceStep, PaymentStep, CreateInvoice, UpdateInvoice, MarkPaid,
                RecordPayment, DeleteInvoice, ReceivePayment, ApplyCredit, DeletePayment,
                RestorePayment, ReassignProject
  <2> QED
    BY <2>1, <2>2, <2>3, <2>4
<1>3. ASSUME NEW k \in Invoices, RestoreInvoice(k)
      PROVE  TypeOK'
  <2>1. invoice' = [i \in Invoices |-> invoice'[i]]
    BY <1>3 DEF RestoreInvoice
  <2>2. \A i \in Invoices : invoice'[i] \in InvoiceRow
    BY <1>3, RestoredRow, PutBackKeeps
  <2>3. invoice' \in [Invoices -> InvoiceRow]
    BY <2>1, <2>2
  <2>4. share' \in [Payments -> [Invoices -> Nat]]
    BY <1>3 DEF RestoreInvoice, LostLinks
  <2> QED
    BY <1>3, <2>3, <2>4 DEF RestoreInvoice
<1> QED
  BY <1>1, <1>2, <1>3 DEF BinNext

(* The rows keep their shape, and no money field or share goes below zero. *)
THEOREM TypeCorrect == BinSpec => []TypeOK
  BY TypeInit, TypeStep, PTL DEF BinSpec

(* Without the bin's other half: what holds of BillingBin holds of Billing. *)
LEMMA BillingIsPart == Spec => BinSpec
<1>1. [Next]_vars => [BinNext]_vars
  BY DEF BinNext
<1> QED
  BY <1>1, PTL DEF Spec, BinSpec

----------------------------------------------------------------------------
(* The history of an invoice never exceeds what it says was received.  A   *)
(* row written beside a changed advance carries the change itself; only    *)
(* _reverse writes more than it takes off, and that lowers the history.    *)

LEMMA MovedHistory ==
    ASSUME NEW r \in InvoiceRow, NEW s, Moved(r, s), r.history <= r.advance
    PROVE  s.history <= s.advance
<1> USE DEF InvoiceRow
<1>0. \A new \in InvoiceRow : Saved(r, new).history <= Saved(r, new).advance
  BY DEF Saved
<1>1. CASE Created(r, s)
  BY <1>1, MoneyAssumption DEF Created, NewInvoice
<1>2. CASE Edited(r, s)
  <2>1. PICK q \in Patch :
          /\ PatchAllowed(r, q)
          /\ \/ s = Released(Saved(r, Patched(r, q)))
             \/ s = Saved(r, Patched(r, q))
    BY <1>2 DEF Edited
  <2>2. Saved(r, Patched(r, q)) \in InvoiceRow
    BY <2>1, PatchedType, SavedType
  <2>3. Saved(r, Patched(r, q)).history <= Saved(r, Patched(r, q)).advance
    BY <1>0, <2>1, PatchedType
  <2>4. ASSUME NEW t \in InvoiceRow, t.history <= t.advance
        PROVE  Released(t).history <= Released(t).advance
    BY <2>4 DEF Released, FromPayments, Reversed, TakenOff
  <2> QED
    BY <2>1, <2>2, <2>3, <2>4
<1>3. CASE PaidUp(r, s)
  BY <1>0, <1>3, SettledType DEF PaidUp
<1>4. CASE PaidInPart(r, s)
  BY <1>0, <1>4, InstalmentType, MoneyAssumption DEF PaidInPart
<1>5. CASE Binned(r, s)
  BY <1>5 DEF Binned
<1>6. CASE GivenShare(r, s)
  BY <1>6, MoneyAssumption DEF GivenShare, Credited, BalanceDue
<1>7. CASE GivenBack(r, s)
  BY <1>7 DEF GivenBack, Reversed, TakenOff
<1> QED
  BY <1>1, <1>2, <1>3, <1>4, <1>5, <1>6, <1>7 DEF Moved

(* An invoice's history never adds up to more than the advance it shows.   *)
THEOREM HistoryIsCovered == BinSpec => []HistoryWithinAdvance
<1>1. Init => HistoryWithinAdvance
  BY InitSums DEF HistoryWithinAdvance
<1>2. TypeOK /\ HistoryWithinAdvance /\ [BinNext]_vars => HistoryWithinAdvance'
  <2> SUFFICES ASSUME TypeOK, HistoryWithinAdvance, [BinNext]_vars, NEW i \in Invoices
               PROVE  invoice'[i].history <= invoice'[i].advance
    BY DEF HistoryWithinAdvance
  <2>1. invoice[i] \in InvoiceRow /\ invoice[i].history <= invoice[i].advance
    BY DEF TypeOK, HistoryWithinAdvance
  <2>2. CASE UNCHANGED vars
    BY <2>1, <2>2 DEF vars
  <2>3. CASE BinNext
    BY <2>1, <2>3, EveryBinStepMoves, MovedHistory, PutBackKeeps
  <2> QED
    BY <2>2, <2>3
<1> QED
  BY <1>1, <1>2, TypeCorrect, PTL DEF BinSpec

----------------------------------------------------------------------------
(* What an invoice asks for, where no PATCH carries `amount` itself        *)

LEMMA NoRawPatch ==
    ASSUME NEW q \in Patch
    PROVE  /\ RawAmounts = {} => q.amount = Absent
           /\ RawSubtotals = {} => q.subtotal = Absent
  BY DEF Patch

LEMMA MovedAmount ==
    ASSUME RawAmounts = {}, RawSubtotals = {}, NEW r \in InvoiceRow, NEW s, Moved(r, s),
           r.amount = r.subtotal - r.discount
    PROVE  s.amount = s.subtotal - s.discount
<1> USE DEF InvoiceRow
<1>1. CASE Created(r, s)
  BY <1>1, MoneyAssumption DEF Created, NewInvoice
<1>2. CASE Edited(r, s)
  <2>1. PICK q \in Patch :
          /\ PatchAllowed(r, q)
          /\ \/ s = Released(Saved(r, Patched(r, q)))
             \/ s = Saved(r, Patched(r, q))
    BY <1>2 DEF Edited
  <2>2. q.items \in Totals \cup {Absent}
    BY DEF Patch
  <2>3. Patched(r, q).amount = Patched(r, q).subtotal - Patched(r, q).discount
    BY <2>2, NoRawPatch DEF Patched, Or
  <2>4. /\ Saved(r, Patched(r, q)).amount = Patched(r, q).amount
        /\ Saved(r, Patched(r, q)).subtotal = Patched(r, q).subtotal
        /\ Saved(r, Patched(r, q)).discount = Patched(r, q).discount
    BY <2>1, PatchedType DEF Saved
  <2>5. Saved(r, Patched(r, q)) \in InvoiceRow
    BY <2>1, PatchedType, SavedType
  <2>6. ASSUME NEW t \in InvoiceRow
        PROVE  /\ Released(t).amount = t.amount
               /\ Released(t).subtotal = t.subtotal
               /\ Released(t).discount = t.discount
    BY DEF Released, Reversed
  <2> QED
    BY <2>1, <2>3, <2>4, <2>5, <2>6
<1>3. CASE PaidUp(r, s)
  BY <1>3 DEF PaidUp, Saved, Settled
<1>4. CASE PaidInPart(r, s)
  BY <1>4 DEF PaidInPart, Saved, Instalment, Settled
<1>5. CASE Binned(r, s)
  BY <1>5 DEF Binned
<1>6. CASE GivenShare(r, s)
  BY <1>6 DEF GivenShare, Credited
<1>7. CASE GivenBack(r, s)
  BY <1>7 DEF GivenBack, Reversed
<1> QED
  BY <1>1, <1>2, <1>3, <1>4, <1>5, <1>6, <1>7 DEF Moved

(* No order of item, discount and advance edits leaves an invoice asking   *)
(* for anything but its items less its discount.                           *)
THEOREM AmountIsItems ==
    ASSUME RawAmounts = {}, RawSubtotals = {}
    PROVE  BinSpec => []AmountFollowsItems
<1>1. Init => AmountFollowsItems
  BY InitSums DEF AmountFollowsItems
<1>2. TypeOK /\ AmountFollowsItems /\ [BinNext]_vars => AmountFollowsItems'
  <2> SUFFICES ASSUME TypeOK, AmountFollowsItems, [BinNext]_vars, NEW i \in Invoices
               PROVE  invoice'[i].amount = invoice'[i].subtotal - invoice'[i].discount
    BY DEF AmountFollowsItems
  <2>1. /\ invoice[i] \in InvoiceRow
        /\ invoice[i].amount = invoice[i].subtotal - invoice[i].discount
    BY DEF TypeOK, AmountFollowsItems
  <2>2. CASE UNCHANGED vars
    BY <2>1, <2>2 DEF vars
  <2>3. CASE BinNext
    BY <2>1, <2>3, EveryBinStepMoves, MovedAmount, PutBackKeeps
  <2> QED
    BY <2>2, <2>3
<1> QED
  BY <1>1, <1>2, TypeCorrect, PTL DEF BinSpec

LEMMA MovedCovered ==
    ASSUME RawAmounts = {}, NEW r \in InvoiceRow, NEW s, Moved(r, s),
           r.advance <= r.amount
    PROVE  s.advance <= s.amount
<1> USE DEF InvoiceRow
<1>1. CASE Created(r, s)
  BY <1>1, MoneyAssumption DEF Created, NewInvoice
<1>2. CASE Edited(r, s)
  <2>1. PICK q \in Patch :
          /\ PatchAllowed(r, q)
          /\ \/ s = Released(Saved(r, Patched(r, q)))
             \/ s = Saved(r, Patched(r, q))
    BY <1>2 DEF Edited
  <2>2. Patched(r, q).advance <= Patched(r, q).amount
    BY <2>1, NoRawPatch DEF Patched, PatchAllowed, Or
  <2>3. Saved(r, Patched(r, q)) \in InvoiceRow
    BY <2>1, PatchedType, SavedType
  <2>4. Saved(r, Patched(r, q)).advance <= Saved(r, Patched(r, q)).amount
    BY <2>2 DEF Saved
  <2>5. ASSUME NEW t \in InvoiceRow, t.advance <= t.amount
        PROVE  Released(t).advance <= Released(t).amount
    BY <2>5 DEF Released, FromPayments, Reversed, TakenOff
  <2> QED
    BY <2>1, <2>3, <2>4, <2>5
<1>3. CASE PaidUp(r, s)
  BY <1>3 DEF PaidUp, Saved, Settled
<1>4. CASE PaidInPart(r, s)
  BY <1>4, MoneyAssumption DEF PaidInPart, Saved, Instalment, Settled
<1>5. CASE Binned(r, s)
  BY <1>5 DEF Binned
<1>6. CASE GivenShare(r, s)
  BY <1>6, MoneyAssumption DEF GivenShare, Credited
<1>7. CASE GivenBack(r, s)
  BY <1>7 DEF GivenBack, Reversed, TakenOff
<1> QED
  BY <1>1, <1>2, <1>3, <1>4, <1>5, <1>6, <1>7 DEF Moved

LEMMA WithinAmountStep ==
    ASSUME RawAmounts = {}
    PROVE  TypeOK /\ AdvanceWithinAmount /\ [BinNext]_vars => AdvanceWithinAmount'
<1> SUFFICES ASSUME TypeOK, AdvanceWithinAmount, [BinNext]_vars, NEW i \in Invoices
             PROVE  invoice'[i].advance <= invoice'[i].amount
  BY DEF AdvanceWithinAmount
<1>1. invoice[i] \in InvoiceRow /\ invoice[i].advance <= invoice[i].amount
  BY DEF TypeOK, AdvanceWithinAmount
<1>2. CASE UNCHANGED vars
  BY <1>1, <1>2 DEF vars
<1>3. CASE BinNext
  BY <1>1, <1>3, EveryBinStepMoves, MovedCovered, PutBackKeeps
<1> QED
  BY <1>2, <1>3

(* Nobody ever pays more than an invoice asks for, by whichever way.       *)
THEOREM NothingOverpaid ==
    ASSUME RawAmounts = {}
    PROVE  BinSpec => []AdvanceWithinAmount
<1>1. Init => AdvanceWithinAmount
  BY InitSums DEF AdvanceWithinAmount
<1> QED
  BY <1>1, WithinAmountStep, TypeCorrect, PTL DEF BinSpec

----------------------------------------------------------------------------
(* Where the money of a customer payment can be.  Alone, neither property  *)
(* is inductive: an invoice that is created must not find shares waiting.  *)

UnbornHoldsNothing ==
    \A i \in Invoices, p \in Payments :
        invoice[i].place = "unborn" => share[p][i] = 0

VoidHoldsNothing ==
    \A i \in Invoices, p \in Payments :
        invoice[i].status = "cancelled" => share[p][i] = 0

SharesInv ==
    /\ UnbornHoldsNothing
    /\ VoidHoldsNothing
    /\ BinnedPaymentHoldsNothing

LEMMA CancelKeepsStatus ==
    ASSUME NEW t \in InvoiceRow, t.status = "cancelled"
    PROVE  Released(t).status = "cancelled" /\ Released(t).place = t.place
  BY DEF Released, Reversed, InvoiceRow

LEMMA SharesInvoiceStep ==
    ASSUME TypeOK, SharesInv, NEW k \in Invoices, InvoiceStep(k)
    PROVE  SharesInv'
<1> USE DEF TypeOK, SharesInv, UnbornHoldsNothing, VoidHoldsNothing,
            BinnedPaymentHoldsNothing, Live, Pending
<1>1. ASSUME NEW j \in Projects, NEW total \in Totals, NEW discount \in Discounts,
             NEW advance \in Money, CreateInvoice(k, j, total, discount, advance)
      PROVE  SharesInv'
  BY <1>1 DEF CreateInvoice, NextId, NewInvoice
<1>2. ASSUME NEW q \in Patch, UpdateInvoice(k, q)
      PROVE  SharesInv'
  <2> DEFINE saved == Saved(invoice[k], Patched(invoice[k], q))
  <2>1. saved \in InvoiceRow
    BY <1>2, PatchedType, SavedType DEF UpdateInvoice
  <2>2. /\ saved.place = "live"
        /\ saved.status = IF q.status = "keep" THEN invoice[k].status ELSE q.status
    BY <1>2 DEF UpdateInvoice, Saved, Patched, InvoiceRow
  <2>3. CASE Pending(k) /\ q.status = "cancelled"
    <3>1. /\ invoice' = [invoice EXCEPT ![k] = Released(saved)]
          /\ share' = [p \in Payments |-> [share[p] EXCEPT ![k] = 0]]
          /\ payment' = payment
      BY <1>2, <2>3 DEF UpdateInvoice
    <3>2. Released(saved).place = "live"
      BY <2>1, <2>2, <2>3, CancelKeepsStatus
    <3> HIDE DEF saved
    <3> QED
      BY <2>3, <3>1, <3>2
  <2>4. CASE ~(Pending(k) /\ q.status = "cancelled")
    <3>1. /\ invoice' = [invoice EXCEPT ![k] = saved]
          /\ share' = share
          /\ payment' = payment
          /\ Live(k)
      BY <1>2, <2>4 DEF UpdateInvoice
    <3>2. saved.status = "cancelled" => invoice[k].status = "cancelled"
      <4>1. saved.status # invoice[k].status => invoice[k].status = "pending"
        BY <1>2, <2>2 DEF UpdateInvoice, PatchAllowed, Patched, InvoiceRow
      <4> QED
        BY <2>2, <2>4, <3>1, <4>1
    <3> HIDE DEF saved
    <3> QED
      BY <2>2, <3>1, <3>2
  <2> QED
    BY <2>3, <2>4
<1>3. CASE MarkPaid(k)
  BY <1>3 DEF MarkPaid, Saved, Settled, InvoiceRow
<1>4. ASSUME NEW x \in Money, RecordPayment(k, x)
      PROVE  SharesInv'
  BY <1>4 DEF RecordPayment, Saved, Instalment, Settled, InvoiceRow
<1>5. CASE DeleteInvoice(k)
  BY <1>5 DEF DeleteInvoice, InvoiceRow
<1> QED
  BY <1>1, <1>2, <1>3, <1>4, <1>5 DEF InvoiceStep

LEMMA SharesPaymentStep ==
    ASSUME TypeOK, SharesInv, NEW p \in Payments, PaymentStep(p)
    PROVE  SharesInv'
<1> USE DEF TypeOK, SharesInv, UnbornHoldsNothing, VoidHoldsNothing,
            BinnedPaymentHoldsNothing, Live, Pending
<1>1. ASSUME NEW c, NEW available, NEW alloc \in Splits, SplitAllowed(c, available, alloc),
             Apply(p, alloc), payment'[p].place = "live",
             \A d \in Payments : d # p => payment'[d] = payment[d]
      PROVE  SharesInv'
  <2>1. ASSUME NEW i \in Invoices, alloc[i] > 0
        PROVE  /\ invoice[i].place = "live" /\ invoice'[i].place = "live"
               /\ invoice'[i].status # "cancelled"
    BY <1>1, <2>1 DEF SplitAllowed, ShareAllowed, Apply, Credited, InvoiceRow
  <2>2. ASSUME NEW i \in Invoices, ~(alloc[i] > 0)
        PROVE  alloc[i] = 0 /\ invoice'[i] = invoice[i]
    BY <1>1, <2>2, MoneyAssumption DEF Apply, Splits
  <2>3. \A d \in Payments, i \in Invoices :
          share'[d][i] = IF d = p THEN share[d][i] + alloc[i] ELSE share[d][i]
    BY <1>1 DEF Apply
  <2> SUFFICES ASSUME NEW i \in Invoices, NEW d \in Payments
               PROVE  /\ invoice'[i].place = "unborn" => share'[d][i] = 0
                      /\ invoice'[i].status = "cancelled" => share'[d][i] = 0
                      /\ invoice'[i].place = "live" /\ payment'[d].place = "bin"
                           => share'[d][i] = 0
    OBVIOUS
  <2>4. CASE alloc[i] > 0
    BY <1>1, <2>1, <2>3, <2>4
  <2>5. CASE ~(alloc[i] > 0)
    BY <1>1, <2>2, <2>3, <2>5
  <2> QED
    BY <2>4, <2>5
<1>2. ASSUME NEW c \in Customers, NEW amount \in Money, NEW alloc \in Splits,
             ReceivePayment(p, c, amount, alloc)
      PROVE  SharesInv'
  BY <1>1, <1>2 DEF ReceivePayment
<1>3. ASSUME NEW alloc \in Splits, ApplyCredit(p, alloc)
      PROVE  SharesInv'
  BY <1>1, <1>3 DEF ApplyCredit
<1>4. CASE DeletePayment(p)
  <2> DEFINE taken(i) == Reversed(invoice[i], share[p][i])
  <2>a. \A i \in Invoices : /\ taken(i).place = invoice[i].place
                            /\ taken(i).status = "cancelled"
                                 => invoice[i].status = "cancelled"
    BY DEF Reversed, InvoiceRow
  <2>b. \A i \in Invoices : invoice'[i] = IF Live(i) /\ share[p][i] > 0
                                          THEN taken(i) ELSE invoice[i]
    BY <1>4 DEF DeletePayment
  <2> HIDE DEF taken
  <2>1. \A i \in Invoices : /\ invoice'[i].place = invoice[i].place
                            /\ invoice'[i].status = "cancelled"
                                 => invoice[i].status = "cancelled"
    BY <2>a, <2>b
  <2>2. \A d \in Payments, i \in Invoices :
          share'[d][i] = IF d = p /\ Live(i) THEN 0 ELSE share[d][i]
    BY <1>4 DEF DeletePayment
  <2>3. \A d \in Payments : d # p => payment'[d] = payment[d]
    BY <1>4 DEF DeletePayment
  <2> SUFFICES ASSUME NEW i \in Invoices, NEW d \in Payments
               PROVE  /\ invoice'[i].place = "unborn" => share'[d][i] = 0
                      /\ invoice'[i].status = "cancelled" => share'[d][i] = 0
                      /\ invoice'[i].place = "live" /\ payment'[d].place = "bin"
                           => share'[d][i] = 0
    OBVIOUS
  <2>4. CASE Live(i) /\ d = p
    BY <2>1, <2>2, <2>4
  <2>5. CASE ~Live(i)
    BY <2>1, <2>2, <2>5
  <2>6. CASE d # p
    BY <2>1, <2>2, <2>3, <2>6
  <2> QED
    BY <2>4, <2>5, <2>6
<1>5. CASE RestorePayment(p)
  BY <1>5 DEF RestorePayment, PaymentRow
<1> QED
  BY <1>2, <1>3, <1>4, <1>5 DEF PaymentStep

LEMMA SharesRestoreStep ==
    ASSUME TypeOK, SharesInv, NEW k \in Invoices, RestoreInvoice(k)
    PROVE  SharesInv'
<1> USE DEF TypeOK, SharesInv, UnbornHoldsNothing, VoidHoldsNothing,
            BinnedPaymentHoldsNothing, Live
<1> SUFFICES ASSUME NEW i \in Invoices, NEW p \in Payments
             PROVE  /\ invoice'[i].place = "unborn" => share'[p][i] = 0
                    /\ invoice'[i].status = "cancelled" => share'[p][i] = 0
                    /\ invoice'[i].place = "live" /\ payment'[p].place = "bin"
                         => share'[p][i] = 0
  OBVIOUS
<1>1. payment' = payment /\ invoice[k].place = "bin"
  BY DEF RestoreInvoice
<1>2. share'[p][i] = IF i = k /\ payment[p].place # "live" THEN 0 ELSE share[p][i]
  BY DEF RestoreInvoice, LostLinks
<1>3. CASE i # k
  BY <1>1, <1>2, <1>3 DEF RestoreInvoice
<1>4. CASE i = k
  BY <1>1, <1>2, <1>4, RestoredRow, PutBackKeeps
<1> QED
  BY <1>3, <1>4

LEMMA SharesStep == TypeOK /\ SharesInv /\ [BinNext]_vars => SharesInv'
<1> SUFFICES ASSUME TypeOK, SharesInv, [BinNext]_vars PROVE SharesInv'
  OBVIOUS
<1>1. CASE UNCHANGED <<invoice, payment, share>>
  BY <1>1 DEF SharesInv, UnbornHoldsNothing, VoidHoldsNothing,
              BinnedPaymentHoldsNothing, Live
<1> QED
  BY <1>1, SharesInvoiceStep, SharesPaymentStep, SharesRestoreStep
     DEF BinNext, Next, ReassignProject, vars

(* The money of a customer payment is on no invoice that is not yet there, *)
(* none that is cancelled, and, once the payment is deleted, none at all.  *)
THEOREM SharesAlways == BinSpec => []SharesInv
<1>1. Init => SharesInv
  BY DEF Init, SharesInv, UnbornHoldsNothing, VoidHoldsNothing,
         BinnedPaymentHoldsNothing
<1> QED
  BY <1>1, SharesStep, TypeCorrect, PTL DEF BinSpec

(* No money of a customer payment is ever left on a cancelled invoice.     *)
THEOREM CancelledGivesBackAll == BinSpec => []CancelledHoldsNoShare
<1>1. SharesInv => CancelledHoldsNoShare
  BY DEF SharesInv, VoidHoldsNothing, CancelledHoldsNoShare
<1> QED
  BY <1>1, SharesAlways, PTL

(* A deleted customer payment has nothing left on an invoice that exists.  *)
THEOREM DeletedPaymentHoldsNothing == BinSpec => []BinnedPaymentHoldsNothing
  BY SharesAlways, PTL DEF SharesInv

----------------------------------------------------------------------------
(* Closed invoices *)

LEMMA ClosedPatch ==
    ASSUME RawAmounts = {}, NEW r \in InvoiceRow, NEW q \in Patch,
           PatchAllowed(r, q), r.status # "pending"
    PROVE  Standing(Saved(r, Patched(r, q))) = Standing(r)
<1> DEFINE new == Patched(r, q)
<1>1. new.status = r.status
  BY DEF PatchAllowed
<1>2. new.advance = r.advance
  <2>1. q.items = Absent
    BY DEF PatchAllowed
  <2> QED
    BY <2>1 DEF PatchAllowed
<1>3. new.amount = r.amount
  BY NoRawPatch DEF PatchAllowed, Patched, Or, InvoiceRow
<1>4. /\ Saved(r, new).status = new.status
      /\ Saved(r, new).advance = new.advance
      /\ Saved(r, new).amount = new.amount
  BY PatchedType DEF Saved, InvoiceRow
<1> QED
  BY <1>1, <1>2, <1>3, <1>4 DEF Standing

LEMMA ClosedInvoiceStep ==
    ASSUME RawAmounts = {}, TypeOK, NEW k \in Invoices, InvoiceStep(k),
           NEW i \in Invoices, Live(i), invoice[i].status # "pending"
    PROVE  Standing(invoice'[i]) = Standing(invoice[i])
<1> USE DEF TypeOK, Live, Pending
<1>1. ASSUME NEW j \in Projects, NEW total \in Totals, NEW discount \in Discounts,
             NEW advance \in Money, CreateInvoice(k, j, total, discount, advance)
      PROVE  invoice'[i] = invoice[i]
  BY <1>1 DEF CreateInvoice, NextId
<1>2. ASSUME NEW q \in Patch, UpdateInvoice(k, q), k = i
      PROVE  Standing(invoice'[i]) = Standing(invoice[i])
  <2>1. invoice'[i] = Saved(invoice[i], Patched(invoice[i], q))
    BY <1>2 DEF UpdateInvoice
  <2>2. invoice[i] \in InvoiceRow /\ PatchAllowed(invoice[i], q)
    BY <1>2 DEF UpdateInvoice
  <2> QED
    BY <2>1, <2>2, ClosedPatch
<1>3. ASSUME NEW q \in Patch, UpdateInvoice(k, q), k # i
      PROVE  invoice'[i] = invoice[i]
  BY <1>3 DEF UpdateInvoice
<1>4. CASE MarkPaid(k)
  BY <1>4 DEF MarkPaid
<1>5. ASSUME NEW x \in Money, RecordPayment(k, x)
      PROVE  invoice'[i] = invoice[i]
  BY <1>5 DEF RecordPayment
<1>6. CASE DeleteInvoice(k)
  BY <1>6 DEF DeleteInvoice, Standing, InvoiceRow
<1> QED
  BY <1>1, <1>2, <1>3, <1>4, <1>5, <1>6 DEF InvoiceStep

LEMMA ReversedStanding ==
    ASSUME NEW r \in InvoiceRow, NEW x \in Nat, x > 0, r.status = "paid",
           r.advance <= r.amount, Standing(Reversed(r, x)) # Standing(r)
    PROVE  /\ Reversed(r, x).status = "pending"
           /\ Reversed(r, x).amount = r.amount
           /\ Reversed(r, x).advance <= r.advance
<1>1. /\ Reversed(r, x).advance = TakenOff(r.advance, x)
      /\ Reversed(r, x).amount = r.amount
      /\ Reversed(r, x).status =
           IF TakenOff(r.advance, x) < r.amount THEN "pending" ELSE r.status
  BY DEF Reversed, InvoiceRow
<1>2. TakenOff(r.advance, x) <= r.advance /\ TakenOff(r.advance, x) \in Nat
  BY DEF TakenOff, InvoiceRow
<1>3. TakenOff(r.advance, x) < r.amount
  BY <1>1, <1>2 DEF Standing, InvoiceRow
<1> QED
  BY <1>1, <1>2, <1>3

LEMMA ClosedPaymentStep ==
    ASSUME TypeOK, AdvanceWithinAmount, CancelledHoldsNoShare,
           NEW p \in Payments, PaymentStep(p),
           NEW i \in Invoices, Live(i), invoice[i].status # "pending",
           Standing(invoice'[i]) # Standing(invoice[i])
    PROVE  /\ invoice[i].status = "paid"
           /\ invoice'[i].status = "pending"
           /\ invoice'[i].amount = invoice[i].amount
           /\ invoice'[i].advance <= invoice[i].advance
           /\ share[p][i] > 0 /\ share'[p][i] = 0
           /\ payment[p].place = "live" /\ payment'[p].place = "bin"
<1> USE DEF TypeOK, Live, Pending
<1>1. ASSUME NEW c, NEW available, NEW alloc \in Splits,
             SplitAllowed(c, available, alloc), Apply(p, alloc)
      PROVE  invoice'[i] = invoice[i]
  BY <1>1 DEF SplitAllowed, ShareAllowed, Apply
<1>2. DeletePayment(p)
  BY <1>1 DEF PaymentStep, ReceivePayment, ApplyCredit, RestorePayment
<1>3. share[p][i] > 0 /\ invoice'[i] = Reversed(invoice[i], share[p][i])
  BY <1>2 DEF DeletePayment
<1>4. invoice[i].status = "paid"
  BY <1>3 DEF CancelledHoldsNoShare, InvoiceRow
<1>5. share[p][i] \in Nat /\ invoice[i] \in InvoiceRow
  OBVIOUS
<1>6. invoice[i].advance <= invoice[i].amount
  BY DEF AdvanceWithinAmount
<1>7. /\ invoice'[i].status = "pending"
      /\ invoice'[i].amount = invoice[i].amount
      /\ invoice'[i].advance <= invoice[i].advance
  BY <1>3, <1>4, <1>5, <1>6, ReversedStanding
<1>8. share'[p][i] = 0 /\ payment[p].place = "live" /\ payment'[p].place = "bin"
  BY <1>2 DEF DeletePayment
<1> QED
  BY <1>3, <1>4, <1>7, <1>8

(* Paid and cancelled are final, but for a deleted customer payment.       *)
THEOREM ClosedIsFinal ==
    ASSUME RawAmounts = {}
    PROVE  BinSpec => ClosedStaysClosed
<1>1. TypeOK /\ AdvanceWithinAmount /\ CancelledHoldsNoShare /\ [BinNext]_vars
        => [ClosedStep]_vars
  <2> SUFFICES ASSUME TypeOK, AdvanceWithinAmount, CancelledHoldsNoShare, BinNext,
                      NEW i \in Invoices, Live(i), invoice[i].status # "pending",
                      Standing(invoice[i]) # Standing(invoice'[i])
               PROVE  /\ invoice[i].status = "paid"
                      /\ invoice'[i].status = "pending"
                      /\ invoice'[i].amount = invoice[i].amount
                      /\ invoice'[i].advance <= invoice[i].advance
                      /\ \E p \in Payments :
                           /\ share[p][i] > 0 /\ share'[p][i] = 0
                           /\ payment[p].place = "live" /\ payment'[p].place = "bin"
    BY DEF ClosedStep
  <2>1. ASSUME NEW k \in Invoices, InvoiceStep(k) PROVE FALSE
    BY <2>1, ClosedInvoiceStep
  <2>2. ASSUME NEW k \in Invoices, RestoreInvoice(k) PROVE FALSE
    <3>1. invoice[i] \in InvoiceRow /\ invoice[i].place = "live"
      BY DEF TypeOK, Live
    <3>2. invoice'[i] = invoice[i]
      BY <2>2, <3>1, RestoredRow DEF PutBack
    <3> QED
      BY <3>2
  <2>3. PICK p \in Payments : PaymentStep(p)
    BY <2>1, <2>2 DEF BinNext, Next, ReassignProject
  <2> QED
    BY <2>3, ClosedPaymentStep
<1> QED
  BY <1>1, TypeCorrect, NothingOverpaid, CancelledGivesBackAll, PTL
     DEF BinSpec, ClosedStaysClosed

----------------------------------------------------------------------------
(* "Paid" means nothing is owed, where no PATCH asks for "paid" itself     *)

LEMMA PatchNeverPays ==
    ASSUME "paid" \notin StatusEdits, NEW r \in InvoiceRow, r.status = "pending",
           NEW q \in Patch, PatchAllowed(r, q)
    PROVE  Saved(r, Patched(r, q)).status # "paid"
<1>1. q.status # "paid"
  BY DEF Patch
<1>2. Patched(r, q) \in InvoiceRow
  BY PatchedType
<1>3. Patched(r, q).status = IF q.status = "keep" THEN r.status ELSE q.status
  BY DEF Patched
<1>4. Saved(r, Patched(r, q)).status = Patched(r, q).status
  BY <1>2 DEF Saved, InvoiceRow
<1> QED
  BY <1>1, <1>3, <1>4

LEMMA MovedPaid ==
    ASSUME RawAmounts = {}, "paid" \notin StatusEdits,
           NEW r \in InvoiceRow, NEW s, Moved(r, s), r.advance <= r.amount,
           r.status = "paid" => r.advance = r.amount
    PROVE  s.status = "paid" => s.advance = s.amount
<1> USE DEF InvoiceRow
<1>1. CASE Created(r, s)
  BY <1>1 DEF Created, NewInvoice
<1>2. CASE Edited(r, s)
  <2>1. PICK q \in Patch :
          /\ PatchAllowed(r, q)
          /\ IF r.status = "pending" /\ q.status = "cancelled"
             THEN s = Released(Saved(r, Patched(r, q)))
             ELSE s = Saved(r, Patched(r, q))
    BY <1>2 DEF Edited
  <2> DEFINE saved == Saved(r, Patched(r, q))
  <2>2. saved \in InvoiceRow
    BY <2>1, PatchedType, SavedType
  <2>3. CASE r.status # "pending"
    <3>1. s = saved /\ Standing(saved) = Standing(r)
      BY <2>1, <2>3, ClosedPatch
    <3> QED
      BY <3>1 DEF Standing
  <2>4. CASE r.status = "pending"
    <3>2. saved.status # "paid"
      BY <2>1, <2>4, PatchNeverPays
    <3>3. s.status # "paid"
      BY <2>1, <2>2, <3>2 DEF Released, Reversed
    <3> QED
      BY <3>3
  <2> QED
    BY <2>3, <2>4
<1>3. CASE PaidUp(r, s)
  BY <1>3 DEF PaidUp, Saved, Settled
<1>4. CASE PaidInPart(r, s)
  BY <1>4 DEF PaidInPart, Saved, Instalment, Settled
<1>5. CASE Binned(r, s)
  BY <1>5 DEF Binned
<1>6. CASE GivenShare(r, s)
  BY <1>6 DEF GivenShare, Credited
<1>7. CASE GivenBack(r, s)
  BY <1>7 DEF GivenBack, Reversed, TakenOff
<1> QED
  BY <1>1, <1>2, <1>3, <1>4, <1>5, <1>6, <1>7 DEF Moved

(* Every way to "paid" but that PATCH brings the advance to the amount,    *)
(* and no share is taken back without opening the invoice again.           *)
THEOREM PaidIsSettled ==
    ASSUME RawAmounts = {}, "paid" \notin StatusEdits
    PROVE  BinSpec => []PaidMeansSettled
<1>1. Init => PaidMeansSettled
  BY InitSums DEF PaidMeansSettled
<1>2. /\ TypeOK /\ AdvanceWithinAmount /\ PaidMeansSettled
      /\ [BinNext]_vars
      => PaidMeansSettled'
  <2> SUFFICES ASSUME TypeOK, AdvanceWithinAmount, PaidMeansSettled, [BinNext]_vars,
                      NEW i \in Invoices, invoice'[i].status = "paid"
               PROVE  invoice'[i].advance = invoice'[i].amount
    BY DEF PaidMeansSettled
  <2>1. /\ invoice[i] \in InvoiceRow
        /\ invoice[i].advance <= invoice[i].amount
        /\ invoice[i].status = "paid" => invoice[i].advance = invoice[i].amount
    BY DEF TypeOK, AdvanceWithinAmount, PaidMeansSettled
  <2>2. CASE UNCHANGED vars
    BY <2>1, <2>2 DEF vars
  <2>3. CASE BinNext
    BY <2>1, <2>3, EveryBinStepMoves, MovedPaid, PutBackKeeps
  <2> QED
    BY <2>2, <2>3
<1> QED
  BY <1>1, <1>2, TypeCorrect, NothingOverpaid, PTL DEF BinSpec

----------------------------------------------------------------------------
(* `paid_at`, where no PATCH sets or clears it by hand                     *)

LEMMA EditedPaidAt ==
    ASSUME RawPaidAt = {}, NEW r \in InvoiceRow, NEW s, Edited(r, s),
           r.paidAt <=> r.status = "paid"
    PROVE  s.paidAt <=> s.status = "paid"
<1> USE DEF InvoiceRow
<1>1. PICK q \in Patch :
        /\ PatchAllowed(r, q)
        /\ IF r.status = "pending" /\ q.status = "cancelled"
           THEN s = Released(Saved(r, Patched(r, q)))
           ELSE s = Saved(r, Patched(r, q))
  BY DEF Edited
<1> DEFINE saved == Saved(r, Patched(r, q))
<1>2. saved \in InvoiceRow
  BY <1>1, PatchedType, SavedType
<1>3. q.paidAt = "keep"
  BY DEF Patch
<1>4. Patched(r, q).paidAt <=> (q.status = "paid" /\ r.status = "pending") \/ r.paidAt
  BY <1>3 DEF Patched
<1>5. /\ Patched(r, q).status = IF q.status = "keep" THEN r.status ELSE q.status
      /\ Patched(r, q).status # r.status => r.status = "pending"
  BY <1>1 DEF Patched, PatchAllowed
<1>6. saved.paidAt = Patched(r, q).paidAt /\ saved.status = Patched(r, q).status
  BY <1>1, PatchedType DEF Saved
<1>7. saved.paidAt <=> saved.status = "paid"
  BY <1>4, <1>5, <1>6
<1>8. CASE r.status = "pending" /\ q.status = "cancelled"
  <2>1. saved.status = "cancelled" /\ ~saved.paidAt
    BY <1>5, <1>6, <1>7, <1>8
  <2>2. s.status = "cancelled"
    BY <1>1, <1>2, <1>8, <2>1 DEF Released, Reversed
  <2>3. ~s.paidAt
    BY <1>1, <1>2, <1>8, <2>1 DEF Released, Reversed
  <2> QED
    BY <2>2, <2>3
<1> QED
  BY <1>1, <1>7, <1>8

LEMMA MovedPaidAt ==
    ASSUME RawPaidAt = {}, NEW r \in InvoiceRow, NEW s, Moved(r, s),
           r.paidAt <=> r.status = "paid"
    PROVE  s.paidAt <=> s.status = "paid"
<1> USE DEF InvoiceRow
<1>1. CASE Created(r, s)
  BY <1>1 DEF Created, NewInvoice
<1>2. CASE Edited(r, s)
  BY <1>2, EditedPaidAt
<1>3. CASE PaidUp(r, s)
  BY <1>3 DEF PaidUp, Saved, Settled
<1>4. CASE PaidInPart(r, s)
  BY <1>4 DEF PaidInPart, Saved, Instalment, Settled
<1>5. CASE Binned(r, s)
  BY <1>5 DEF Binned
<1>6. CASE GivenShare(r, s)
  <2>1. PICK x \in Money : s = Credited(r, x)
    BY <1>6 DEF GivenShare
  <2>2. r.status = "pending" /\ ~r.paidAt
    BY <1>6 DEF GivenShare
  <2>3. CASE r.advance + x >= r.amount
    BY <2>1, <2>3 DEF Credited
  <2>4. CASE ~(r.advance + x >= r.amount)
    BY <2>1, <2>2, <2>4 DEF Credited
  <2> QED
    BY <2>3, <2>4
<1>7. CASE GivenBack(r, s)
  <2>1. PICK x \in Nat : s = Reversed(r, x)
    BY <1>7 DEF GivenBack
  <2>2. CASE r.status = "paid" /\ TakenOff(r.advance, x) < r.amount
    BY <2>1, <2>2 DEF Reversed
  <2>3. CASE ~(r.status = "paid" /\ TakenOff(r.advance, x) < r.amount)
    BY <2>1, <2>3 DEF Reversed
  <2> QED
    BY <2>2, <2>3
<1> QED
  BY <1>1, <1>2, <1>3, <1>4, <1>5, <1>6, <1>7 DEF Moved

(* `paid_at` is there exactly while the invoice is paid.                   *)
THEOREM PaidAtIsTheStatus ==
    ASSUME RawPaidAt = {}
    PROVE  BinSpec => []PaidAtWhilePaid
<1>1. Init => PaidAtWhilePaid
  BY DEF Init, PaidAtWhilePaid
<1>2. TypeOK /\ PaidAtWhilePaid /\ [BinNext]_vars => PaidAtWhilePaid'
  <2> SUFFICES ASSUME TypeOK, PaidAtWhilePaid, [BinNext]_vars, NEW i \in Invoices
               PROVE  invoice'[i].paidAt <=> invoice'[i].status = "paid"
    BY DEF PaidAtWhilePaid
  <2>1. /\ invoice[i] \in InvoiceRow
        /\ invoice[i].paidAt <=> invoice[i].status = "paid"
    BY DEF TypeOK, PaidAtWhilePaid
  <2>2. CASE UNCHANGED vars
    BY <2>1, <2>2 DEF vars
  <2>3. CASE BinNext
    BY <2>1, <2>3, EveryBinStepMoves, MovedPaidAt, PutBackKeeps
  <2> QED
    BY <2>2, <2>3
<1> QED
  BY <1>1, <1>2, TypeCorrect, PTL DEF BinSpec

----------------------------------------------------------------------------
(* Billing implements InvoiceAccount *)

Account == Promise!Account
AccountMove(a, b) == Promise!Move(a, b)

LEMMA AccountType ==
    ASSUME NEW r \in InvoiceRow
    PROVE  AccountOf(r) \in Account
<1>1. State(r) \in Promise!States
  BY DEF State, InvoiceRow, Places, Promise!States
<1> QED
  BY <1>1 DEF AccountOf, Account, Promise!Account, InvoiceRow

(* A change of a row that stays where it is, as its account sees it. *)
ChangedRow(r, s) ==
    /\ r.place = "live" /\ s.place = "live"
    /\ \/ /\ r.status = "pending" /\ s.status \in {"pending", "cancelled"}
          /\ s.advance <= s.amount
       \/ /\ r.status = "pending" /\ s.status = "paid"
          /\ s.amount = r.amount /\ s.advance = s.amount
       \/ /\ r.status = "paid" /\ s.status = "pending"
          /\ s.amount = r.amount /\ s.advance < r.advance

LEMMA ChangedAccount ==
    ASSUME NEW r \in InvoiceRow, NEW s \in InvoiceRow, ChangedRow(r, s)
    PROVE  AccountMove(AccountOf(r), AccountOf(s))
<1> DEFINE a == AccountOf(r)
           b == AccountOf(s)
<1>1. /\ a.here = (r.place = "live") /\ b.here = (s.place = "live")
      /\ a.owed = r.amount /\ b.owed = s.amount
      /\ a.received = r.advance /\ b.received = s.advance
      /\ a.state = State(r) /\ b.state = State(s)
  BY DEF AccountOf
<1>2. a.here /\ b.here
  BY <1>1 DEF ChangedRow
<1>3. Promise!Amend(a, b) \/ Promise!Settle(a, b) \/ Promise!Cancel(a, b) \/ Promise!Reopen(a, b)
  <2> HIDE DEF a, b
  <2> QED
    BY <1>1 DEF ChangedRow, State, Promise!Amend, Promise!Settle, Promise!Cancel,
                Promise!Reopen, Promise!Covered
<1> QED
  BY <1>2, <1>3 DEF AccountMove, Promise!Move, Promise!Change

LEMMA MovedAccount ==
    ASSUME RawAmounts = {}, "paid" \notin StatusEdits,
           NEW r \in InvoiceRow, NEW s, Moved(r, s), r.advance <= r.amount,
           r.status = "paid" => r.advance = r.amount,
           r.place = "live" /\ r.status = "cancelled" => Standing(s) = Standing(r)
    PROVE  AccountOf(s) = AccountOf(r) \/ AccountMove(AccountOf(r), AccountOf(s))
<1> USE DEF InvoiceRow
<1>0. /\ s \in InvoiceRow /\ s.advance <= s.amount
      /\ s.status = "paid" => s.advance = s.amount
  BY MovedType, MovedCovered, MovedPaid
<1>8. ASSUME ChangedRow(r, s)
      PROVE  AccountMove(AccountOf(r), AccountOf(s))
  BY <1>0, <1>8, ChangedAccount
<1>9. ASSUME r.place = "live", s.place = "live", Standing(s) = Standing(r)
      PROVE  AccountOf(s) = AccountOf(r)
  BY <1>9 DEF AccountOf, Standing, State
<1>1. CASE Created(r, s)
  <2>1. State(r) = "none" /\ State(s) = "open" /\ s.place = "live"
    BY <1>1 DEF Created, NewInvoice, State
  <2>2. Promise!Raise(AccountOf(r), AccountOf(s))
    BY <1>0, <2>1 DEF AccountOf, Promise!Raise, Promise!Covered
  <2> QED
    BY <2>2 DEF AccountMove, Promise!Move
<1>2. CASE Edited(r, s)
  <2>1. PICK q \in Patch :
          /\ PatchAllowed(r, q)
          /\ IF r.status = "pending" /\ q.status = "cancelled"
             THEN s = Released(Saved(r, Patched(r, q)))
             ELSE s = Saved(r, Patched(r, q))
    BY <1>2 DEF Edited
  <2> DEFINE saved == Saved(r, Patched(r, q))
  <2>2. saved \in InvoiceRow /\ r.place = "live" /\ saved.place = "live"
    <3>1. saved \in InvoiceRow
      BY <2>1, PatchedType, SavedType
    <3>2. r.place = "live"
      BY <1>2 DEF Edited
    <3>3. Patched(r, q).place = r.place
      BY DEF Patched
    <3>4. saved.place = Patched(r, q).place
      BY <2>1, PatchedType DEF Saved
    <3> QED
      BY <3>1, <3>2, <3>3, <3>4
  <2>3. s.place = "live"
    BY <2>1, <2>2 DEF Released, Reversed
  <2>4. CASE r.status # "pending"
    <3>1. s = saved /\ Standing(saved) = Standing(r)
      BY <2>1, <2>4, ClosedPatch
    <3> QED
      BY <1>9, <2>2, <2>3, <3>1
  <2>5. CASE r.status = "pending"
    <3>2. saved.status # "paid"
      BY <2>1, <2>5, PatchNeverPays
    <3>3. s.status \in {"pending", "cancelled"}
      BY <1>0, <2>1, <2>2, <3>2 DEF Released, Reversed
    <3> QED
      BY <1>0, <1>8, <2>2, <2>3, <2>5, <3>3 DEF ChangedRow
  <2> QED
    BY <2>4, <2>5
<1>3. CASE PaidUp(r, s)
  <2>1. /\ r.place = "live" /\ s.place = "live" /\ s.amount = r.amount
        /\ r.status = "pending" /\ s.status = "paid"
    BY <1>3 DEF PaidUp, Saved, Settled
  <2> QED
    BY <1>0, <1>8, <2>1 DEF ChangedRow
<1>4. CASE PaidInPart(r, s)
  <2>1. PICK x \in Money : /\ x > 0 /\ x <= BalanceDue(r)
                           /\ s = Saved(r, Instalment(r, x))
    BY <1>4 DEF PaidInPart
  <2>2. /\ r.place = "live" /\ s.place = "live" /\ s.amount = r.amount
        /\ r.status = "pending" /\ s.status \in {"pending", "paid"}
    BY <1>4, <2>1 DEF PaidInPart, Saved, Instalment, Settled
  <2> QED
    BY <1>0, <1>8, <2>2 DEF ChangedRow
<1>5. CASE Binned(r, s)
  <2>1. /\ r.place = "live" /\ s.place = "bin" /\ s.status = r.status
        /\ s.amount = r.amount /\ s.advance = r.advance
    BY <1>5 DEF Binned
  <2>2. State(s) = State(r) /\ State(r) # "none"
    BY <2>1 DEF State
  <2>3. AccountOf(r).here /\ ~AccountOf(s).here
    BY <2>1 DEF AccountOf
  <2>4. /\ AccountOf(s).state = AccountOf(r).state /\ AccountOf(r).state # "none"
        /\ AccountOf(s).owed = AccountOf(r).owed
        /\ AccountOf(s).received = AccountOf(r).received
    BY <2>1, <2>2 DEF AccountOf
  <2>5. Promise!PutAway(AccountOf(r), AccountOf(s))
    BY <2>3, <2>4 DEF Promise!PutAway
  <2> QED
    BY <2>5 DEF AccountMove, Promise!Move
<1>6. CASE GivenShare(r, s)
  <2>1. /\ r.place = "live" /\ s.place = "live" /\ s.amount = r.amount
        /\ r.status = "pending" /\ s.status \in {"pending", "paid"}
    BY <1>6 DEF GivenShare, Credited
  <2> QED
    BY <1>0, <1>8, <2>1 DEF ChangedRow
<1>7. CASE GivenBack(r, s)
  <2>1. PICK x \in Nat : x > 0 /\ s = Reversed(r, x)
    BY <1>7 DEF GivenBack
  <2>2. r.place = "live" /\ s.place = "live" /\ s.amount = r.amount
    BY <1>7, <2>1 DEF GivenBack, Reversed
  <2>3. CASE r.status = "pending"
    <3>1. s.status = "pending"
      BY <2>1, <2>3 DEF Reversed
    <3> QED
      BY <1>0, <1>8, <2>2, <2>3, <3>1 DEF ChangedRow
  <2>4. CASE r.status = "paid"
    <3>1. Standing(s) = Standing(r) \/ s.status = "pending"
      BY <2>1, <2>4, ReversedStanding
    <3>2. CASE Standing(s) = Standing(r)
      BY <1>9, <2>2, <3>2
    <3>3. CASE s.status = "pending"
      <4>1. s.advance < r.advance
        BY <2>1, <2>4, <3>3 DEF Reversed, TakenOff
      <4> QED
        BY <1>8, <2>2, <2>4, <3>3, <4>1 DEF ChangedRow
    <3> QED
      BY <3>1, <3>2, <3>3
  <2>5. CASE r.status = "cancelled"
    BY <1>9, <2>2, <2>5
  <2> QED
    BY <2>3, <2>4, <2>5
<1> QED
  BY <1>1, <1>2, <1>3, <1>4, <1>5, <1>6, <1>7 DEF Moved

LEMMA PutBackAccount ==
    ASSUME NEW r \in InvoiceRow, NEW s, PutBack(r, s)
    PROVE  AccountMove(AccountOf(r), AccountOf(s))
<1>1. /\ r.place = "bin" /\ s.place = "live" /\ s.status = r.status
      /\ s.amount = r.amount /\ s.advance = r.advance
  BY PutBackKeeps DEF PutBack
<1>2. State(s) = State(r) /\ State(r) # "none"
  BY <1>1 DEF State, InvoiceRow
<1>3. ~AccountOf(r).here /\ AccountOf(s).here
  BY <1>1 DEF AccountOf
<1>4. /\ AccountOf(s).state = AccountOf(r).state /\ AccountOf(r).state # "none"
      /\ AccountOf(s).owed = AccountOf(r).owed
      /\ AccountOf(s).received = AccountOf(r).received
  BY <1>1, <1>2 DEF AccountOf
<1> QED
  BY <1>3, <1>4 DEF AccountMove, Promise!Move, Promise!PutAway

LEMMA VoidIsNeverGivenBack ==
    ASSUME TypeOK, CancelledHoldsNoShare, Next, NEW i \in Invoices, Live(i),
           invoice[i].status = "cancelled", RawAmounts = {}, AdvanceWithinAmount
    PROVE  Standing(invoice'[i]) = Standing(invoice[i])
<1>1. ASSUME NEW k \in Invoices, InvoiceStep(k)
      PROVE  Standing(invoice'[i]) = Standing(invoice[i])
  BY <1>1, ClosedInvoiceStep
<1>2. ASSUME NEW p \in Payments, PaymentStep(p)
      PROVE  Standing(invoice'[i]) = Standing(invoice[i])
  BY <1>2, ClosedPaymentStep
<1> QED
  BY <1>1, <1>2 DEF Next, ReassignProject

(* Where nobody forces a value, Billing implements InvoiceAccount: every   *)
(* invoice goes only where its account may go.                             *)
THEOREM BillingKeepsThePromise ==
    ASSUME RawAmounts = {}, "paid" \notin StatusEdits
    PROVE  BinSpec => PromiseKept
<1>1. Init => Promise!Init
  <2> SUFFICES ASSUME Init, NEW i \in Invoices
               PROVE  AccountOf(invoice[i]) =
                       [state |-> "none", here |-> FALSE, owed |-> 0, received |-> 0]
    BY DEF Promise!Init
  <2>1. invoice[i].place = "unborn"
    BY DEF Init
  <2> QED
    BY <2>1, InitSums DEF AccountOf, State
<1>2. /\ TypeOK /\ TypeOK' /\ AdvanceWithinAmount /\ CancelledHoldsNoShare
      /\ PaidMeansSettled
      /\ [BinNext]_vars
      => [Promise!Next]_([i \in Invoices |-> AccountOf(invoice[i])])
  <2> SUFFICES ASSUME TypeOK, TypeOK', AdvanceWithinAmount, CancelledHoldsNoShare,
                      PaidMeansSettled, [BinNext]_vars
               PROVE  \/ Promise!Next
                      \/ UNCHANGED [i \in Invoices |-> AccountOf(invoice[i])]
    OBVIOUS
  <2>1. CASE UNCHANGED vars
    BY <2>1 DEF vars
  <2>2. CASE BinNext
    <3>1. [i \in Invoices |-> AccountOf(invoice'[i])] \in [Invoices -> Account]
      <4>1. \A i \in Invoices : invoice'[i] \in InvoiceRow
        BY DEF TypeOK
      <4> QED
        BY <4>1, AccountType
    <3>2. ASSUME NEW i \in Invoices
          PROVE  \/ AccountOf(invoice'[i]) = AccountOf(invoice[i])
                 \/ AccountMove(AccountOf(invoice[i]), AccountOf(invoice'[i]))
      <4>1. /\ invoice[i] \in InvoiceRow
            /\ invoice[i].advance <= invoice[i].amount
            /\ invoice[i].status = "paid" => invoice[i].advance = invoice[i].amount
        BY DEF TypeOK, AdvanceWithinAmount, PaidMeansSettled
      <4>2. invoice[i].place = "live" /\ invoice[i].status = "cancelled"
              => Standing(invoice'[i]) = Standing(invoice[i])
        BY <2>2, <4>1, VoidIsNeverGivenBack, RestoredRow DEF BinNext, Live, PutBack
      <4>3. \/ invoice'[i] = invoice[i]
            \/ Moved(invoice[i], invoice'[i])
            \/ PutBack(invoice[i], invoice'[i])
        BY <2>2, EveryBinStepMoves
      <4> QED
        BY <4>1, <4>2, <4>3, MovedAccount, PutBackAccount
    <3> QED
      BY <3>1, <3>2 DEF Promise!Next, Account, AccountMove
  <2> QED
    BY <2>1, <2>2
<1> QED
  BY <1>1, <1>2, TypeCorrect, NothingOverpaid, CancelledGivesBackAll, PaidIsSettled, PTL
     DEF BinSpec, PromiseKept, Promise!Spec

----------------------------------------------------------------------------
(* What is used of a payment.  The sum over the invoices changes only as   *)
(* its terms do (FiniteSums), so it is enough to follow the terms.         *)

LiveShares(p) == [i \in Invoices |-> IF Live(i) THEN share[p][i] ELSE 0]

LEMMA UsedIsSum ==
    ASSUME NEW p \in Payments
    PROVE  /\ UsedOf(p) = SumFunctionOnSet(LiveShares(p), Invoices)
           /\ UsedOf(p)' = SumFunctionOnSet(LiveShares(p)', Invoices)
  BY DEF UsedOf, SumFunction, LiveShares

LEMMA UsedIsNat ==
    ASSUME TypeOK, NEW p \in Payments
    PROVE  UsedOf(p) \in Nat
<1>1. \A i \in Invoices : LiveShares(p)[i] \in Nat
  BY DEF TypeOK, LiveShares
<1> QED
  BY <1>1, UsedIsSum, SumIsNat, IdsAssumption

LEMMA NoMoreUsed ==
    ASSUME TypeOK, TypeOK', NEW p \in Payments,
           \A i \in Invoices : LiveShares(p)'[i] <= LiveShares(p)[i]
    PROVE  UsedOf(p)' <= UsedOf(p)
<1>1. \A i \in Invoices : LiveShares(p)[i] \in Int /\ LiveShares(p)'[i] \in Int
  BY DEF TypeOK, LiveShares
<1>2. SumFunctionOnSet(LiveShares(p)', Invoices) <= SumFunctionOnSet(LiveShares(p), Invoices)
  BY <1>1, SumAtMost, IdsAssumption
<1> QED
  BY <1>2, UsedIsSum

LEMMA UnheldIsUnused ==
    ASSUME NEW p \in Payments, \A i \in Invoices : LiveShares(p)[i] = 0
    PROVE  UsedOf(p) = 0
  BY UsedIsSum, SumOfZeros, IdsAssumption

(* A split adds what it adds up to. *)
LEMMA SplitIsUsed ==
    ASSUME TypeOK, TypeOK', NEW p \in Payments, NEW alloc \in Splits, NEW c, NEW available,
           SplitAllowed(c, available, alloc), Apply(p, alloc)
    PROVE  /\ UsedOf(p)' = UsedOf(p) + SumFunction(alloc)
           /\ SumFunction(alloc) \in Nat
           /\ \A d \in Payments : d # p => UsedOf(d)' <= UsedOf(d)
<1> USE DEF Live
<1>1. ASSUME NEW i \in Invoices, alloc[i] > 0
      PROVE  Live(i) /\ invoice'[i].place = "live"
  BY <1>1 DEF SplitAllowed, ShareAllowed, Apply, Credited, TypeOK, InvoiceRow
<1>2. \A i \in Invoices : invoice'[i].place = invoice[i].place
  BY <1>1 DEF Apply
<1>3. \A i \in Invoices : alloc[i] \in Nat
  BY MoneyAssumption DEF Splits
<1>4. \A d \in Payments, i \in Invoices :
        share'[d][i] = IF d = p THEN share[d][i] + alloc[i] ELSE share[d][i]
  BY DEF Apply, TypeOK
<1>5. \A i \in Invoices :
        /\ LiveShares(p)[i] \in Int /\ alloc[i] \in Int
        /\ LiveShares(p)'[i] = LiveShares(p)[i] + alloc[i]
  <2> TAKE i \in Invoices
  <2>1. share[p][i] \in Nat
    BY DEF TypeOK
  <2>2. CASE alloc[i] > 0
    BY <1>1, <1>3, <1>4, <2>1, <2>2 DEF LiveShares
  <2>3. CASE ~(alloc[i] > 0)
    <3>1. alloc[i] = 0
      BY <1>3, <2>3
    <3> QED
      BY <1>2, <1>4, <2>1, <3>1 DEF LiveShares
  <2> QED
    BY <2>2, <2>3
<1>6. SumFunctionOnSet(LiveShares(p)', Invoices)
        = SumFunctionOnSet(LiveShares(p), Invoices) + SumFunctionOnSet(alloc, Invoices)
  BY <1>5, SumOfSums, IdsAssumption
<1>7. SumFunction(alloc) = SumFunctionOnSet(alloc, Invoices)
  BY DEF SumFunction, Splits
<1>8. SumFunctionOnSet(alloc, Invoices) \in Nat
  BY <1>3, SumIsNat, IdsAssumption
<1>9. ASSUME NEW d \in Payments, d # p
      PROVE  UsedOf(d)' <= UsedOf(d)
  <2>1. \A i \in Invoices : LiveShares(d)'[i] <= LiveShares(d)[i]
    BY <1>2, <1>4, <1>9 DEF LiveShares, TypeOK
  <2> QED
    BY <2>1, NoMoreUsed
<1> QED
  BY <1>6, <1>7, <1>8, <1>9, UsedIsSum

(* What a step of Billing.tla does to a payment and to what is used of it. *)
UsedMoves(p) ==
    \/ payment'[p] = payment[p] /\ UsedOf(p)' <= UsedOf(p)
    \/ /\ payment[p].place = "live" /\ payment'[p] = payment[p]
       /\ \E x \in Nat : UsedOf(p)' = UsedOf(p) + x /\ x <= UnusedOf(p)
    \/ /\ payment[p].place = "unborn" /\ payment'[p].place = "live"
       /\ UsedOf(p)' <= UsedOf(p) + payment'[p].amount
    \/ payment'[p].place = "bin"
    \/ /\ payment[p].place = "bin" /\ payment'[p].place = "live"
       /\ payment'[p].amount = payment[p].amount
       /\ share' = share /\ invoice' = invoice

LEMMA InvoiceStepUses ==
    ASSUME TypeOK, TypeOK', SharesInv, NEW k \in Invoices, InvoiceStep(k), NEW p \in Payments
    PROVE  payment' = payment /\ UsedOf(p)' <= UsedOf(p)
<1> USE DEF TypeOK
<1>1. SUFFICES payment' = payment
               /\ \A i \in Invoices : LiveShares(p)'[i] <= LiveShares(p)[i]
  BY NoMoreUsed
<1>2. ASSUME NEW j \in Projects, NEW total \in Totals, NEW discount \in Discounts,
             NEW advance \in Money, CreateInvoice(k, j, total, discount, advance)
      PROVE  payment' = payment
             /\ \A i \in Invoices : LiveShares(p)'[i] <= LiveShares(p)[i]
  BY <1>2 DEF CreateInvoice, NextId, LiveShares, Live, SharesInv, UnbornHoldsNothing
<1>3. ASSUME NEW q \in Patch, UpdateInvoice(k, q)
      PROVE  payment' = payment
             /\ \A i \in Invoices : LiveShares(p)'[i] <= LiveShares(p)[i]
  <2>1. \A i \in Invoices : share'[p][i] = share[p][i] \/ share'[p][i] = 0
    BY <1>3 DEF UpdateInvoice
  <2>2. \A i \in Invoices : i # k => invoice'[i] = invoice[i]
    BY <1>3 DEF UpdateInvoice
  <2>3. Live(k) /\ payment' = payment
    BY <1>3 DEF UpdateInvoice
  <2> QED
    BY <2>1, <2>2, <2>3 DEF LiveShares, Live
<1>4. CASE MarkPaid(k) \/ \E x \in Money : RecordPayment(k, x)
  <2>1. share' = share /\ payment' = payment /\ Live(k)
    BY <1>4 DEF MarkPaid, RecordPayment, Pending
  <2>2. \A i \in Invoices : i # k => invoice'[i] = invoice[i]
    BY <1>4 DEF MarkPaid, RecordPayment
  <2> QED
    BY <2>1, <2>2 DEF LiveShares, Live
<1>5. CASE DeleteInvoice(k)
  BY <1>5 DEF DeleteInvoice, LiveShares, Live
<1> QED
  BY <1>2, <1>3, <1>4, <1>5 DEF InvoiceStep

LEMMA EveryStepUses ==
    ASSUME TypeOK, TypeOK', SharesInv, Next, NEW p \in Payments
    PROVE  UsedMoves(p)
<1>1. ASSUME NEW k \in Invoices, InvoiceStep(k)
      PROVE  UsedMoves(p)
  BY <1>1, InvoiceStepUses DEF UsedMoves
<1>2. ASSUME NEW d \in Payments, NEW c \in Customers, NEW amount \in Money, NEW alloc \in Splits,
             ReceivePayment(d, c, amount, alloc)
      PROVE  UsedMoves(p)
  <2>1. SplitAllowed(c, amount, alloc) /\ Apply(d, alloc)
    BY <1>2 DEF ReceivePayment
  <2>2. CASE d = p
    <3>1. UsedOf(p)' = UsedOf(p) + SumFunction(alloc) /\ SumFunction(alloc) \in Nat
      BY <2>1, <2>2, SplitIsUsed
    <3>2. SumFunction(alloc) <= amount /\ amount \in Nat
      BY <2>1, MoneyAssumption DEF SplitAllowed
    <3>3. payment[p].place = "unborn" /\ payment'[p].place = "live" /\ payment'[p].amount = amount
      BY <1>2, <2>2 DEF ReceivePayment, TypeOK
    <3>4. UsedOf(p) \in Nat
      BY UsedIsNat
    <3> QED
      BY <3>1, <3>2, <3>3, <3>4 DEF UsedMoves
  <2>3. CASE d # p
    <3>1. UsedOf(p)' <= UsedOf(p)
      BY <2>1, <2>3, SplitIsUsed
    <3> QED
      BY <1>2, <2>3, <3>1 DEF ReceivePayment, UsedMoves
  <2> QED
    BY <2>2, <2>3
<1>3. ASSUME NEW d \in Payments, NEW alloc \in Splits, ApplyCredit(d, alloc)
      PROVE  UsedMoves(p)
  <2>1. SplitAllowed(payment[d].customer, UnusedOf(d), alloc) /\ Apply(d, alloc)
    BY <1>3 DEF ApplyCredit
  <2>2. payment' = payment
    BY <1>3 DEF ApplyCredit
  <2>3. CASE d = p
    <3>1. UsedOf(p)' = UsedOf(p) + SumFunction(alloc) /\ SumFunction(alloc) \in Nat
      BY <2>1, <2>3, SplitIsUsed
    <3>2. SumFunction(alloc) <= UnusedOf(p) /\ payment[p].place = "live"
      BY <1>3, <2>1, <2>3 DEF SplitAllowed, ApplyCredit
    <3> QED
      BY <2>2, <3>1, <3>2 DEF UsedMoves
  <2>4. CASE d # p
    <3>1. UsedOf(p)' <= UsedOf(p)
      BY <2>1, <2>4, SplitIsUsed
    <3> QED
      BY <2>2, <3>1 DEF UsedMoves
  <2> QED
    BY <2>3, <2>4
<1>4. ASSUME NEW d \in Payments, DeletePayment(d)
      PROVE  UsedMoves(p)
  <2>1. CASE d = p
    BY <1>4, <2>1 DEF DeletePayment, UsedMoves, TypeOK, PaymentRow
  <2>2. CASE d # p
    <3>1. \A i \in Invoices : invoice'[i].place = invoice[i].place
      BY <1>4 DEF DeletePayment, Reversed, TypeOK, InvoiceRow
    <3>2. \A i \in Invoices : LiveShares(p)'[i] <= LiveShares(p)[i]
      BY <1>4, <2>2, <3>1 DEF DeletePayment, LiveShares, Live, TypeOK
    <3> QED
      BY <1>4, <2>2, <3>2, NoMoreUsed DEF DeletePayment, UsedMoves
  <2> QED
    BY <2>1, <2>2
<1>5. ASSUME NEW d \in Payments, RestorePayment(d)
      PROVE  UsedMoves(p)
  <2>1. CASE d = p
    BY <1>5, <2>1 DEF RestorePayment, UsedMoves, TypeOK, PaymentRow
  <2>2. CASE d # p
    <3>1. \A i \in Invoices : LiveShares(p)'[i] <= LiveShares(p)[i]
      BY <1>5 DEF RestorePayment, LiveShares, Live, TypeOK
    <3> QED
      BY <1>5, <2>2, <3>1, NoMoreUsed DEF RestorePayment, UsedMoves
  <2> QED
    BY <2>1, <2>2
<1>6. ASSUME NEW j \in Projects, NEW c \in Customers, ReassignProject(j, c)
      PROVE  UsedMoves(p)
  <2>1. \A i \in Invoices : LiveShares(p)'[i] <= LiveShares(p)[i]
    BY <1>6 DEF ReassignProject, LiveShares, Live, TypeOK
  <2> QED
    BY <1>6, <2>1, NoMoreUsed DEF ReassignProject, UsedMoves
<1> QED
  BY <1>1, <1>2, <1>3, <1>4, <1>5, <1>6 DEF Next, PaymentStep

(* What is not received yet is nowhere. *)
UnreceivedIsNowhere ==
    \A p \in Payments, i \in Invoices : payment[p].place = "unborn" => share[p][i] = 0

LEMMA UnreceivedStays == BinSpec => []UnreceivedIsNowhere
<1>1. Init => UnreceivedIsNowhere
  BY DEF Init, UnreceivedIsNowhere
<1>2. TypeOK /\ UnreceivedIsNowhere /\ [BinNext]_vars => UnreceivedIsNowhere'
  <2> SUFFICES ASSUME TypeOK, UnreceivedIsNowhere, [BinNext]_vars,
                      NEW p \in Payments, NEW i \in Invoices, payment'[p].place = "unborn"
               PROVE  share'[p][i] = 0
    BY DEF UnreceivedIsNowhere
  <2> USE DEF TypeOK, UnreceivedIsNowhere
  <2>1. CASE UNCHANGED vars
    BY <2>1 DEF vars
  <2>2. ASSUME NEW k \in Invoices, InvoiceStep(k) PROVE share'[p][i] = 0
    BY <2>2 DEF InvoiceStep, CreateInvoice, UpdateInvoice, MarkPaid, RecordPayment,
                DeleteInvoice
  <2>3. ASSUME NEW d \in Payments, PaymentStep(d) PROVE share'[p][i] = 0
    <3>1. payment'[p].place = payment[p].place /\ d # p
      BY <2>3 DEF PaymentStep, ReceivePayment, ApplyCredit, DeletePayment, RestorePayment,
                  PaymentRow
    <3> QED
      BY <2>3, <3>1 DEF PaymentStep, ReceivePayment, ApplyCredit, Apply, DeletePayment,
                        RestorePayment
  <2>4. ASSUME NEW k \in Invoices, RestoreInvoice(k) PROVE share'[p][i] = 0
    BY <2>4 DEF RestoreInvoice, LostLinks
  <2> QED
    BY <2>1, <2>2, <2>3, <2>4 DEF BinNext, Next, ReassignProject
<1> QED
  BY <1>1, <1>2, TypeCorrect, PTL DEF BinSpec

(* The shares of a payment never add up to more than the payment, whatever *)
(* is applied, cancelled, deleted and applied again.                       *)
THEOREM CreditIsSpentOnce == Spec => []SharesWithinPayment
<1>1. Init => SharesWithinPayment
  BY DEF Init, SharesWithinPayment
<1>2. /\ TypeOK /\ TypeOK' /\ SharesInv /\ UnreceivedIsNowhere /\ SharesWithinPayment
      /\ [Next]_vars
      => SharesWithinPayment'
  <2> SUFFICES ASSUME TypeOK, TypeOK', SharesInv, UnreceivedIsNowhere, SharesWithinPayment,
                      [Next]_vars, NEW p \in Payments, payment'[p].place = "live"
               PROVE  UsedOf(p)' <= payment'[p].amount
    BY DEF SharesWithinPayment
  <2>0. /\ UsedOf(p) \in Nat /\ UsedOf(p)' \in Nat
        /\ payment[p].amount \in Nat /\ payment'[p].amount \in Nat
        /\ payment[p].place = "live" => UsedOf(p) <= payment[p].amount
    <3>1. UsedOf(p) \in Nat
      BY UsedIsNat
    <3>2. UsedOf(p)' \in Nat
      <4>1. \A i \in Invoices : LiveShares(p)'[i] \in Nat
        BY DEF TypeOK, LiveShares
      <4> QED
        BY <4>1, UsedIsSum, SumIsNat, IdsAssumption
    <3> QED
      BY <3>1, <3>2 DEF TypeOK, PaymentRow, SharesWithinPayment
  <2>1. CASE UNCHANGED vars
    <3>1. \A i \in Invoices : LiveShares(p)'[i] <= LiveShares(p)[i]
      BY <2>1 DEF vars, LiveShares, Live, TypeOK
    <3> QED
      BY <2>0, <2>1, <3>1, NoMoreUsed DEF vars
  <2>2. CASE Next
    <3>1. UsedMoves(p)
      BY <2>2, EveryStepUses
    <3>2. payment[p].place = "unborn" => UsedOf(p) = 0
      <4>1. payment[p].place = "unborn" => \A i \in Invoices : LiveShares(p)[i] = 0
        BY DEF UnreceivedIsNowhere, LiveShares
      <4> QED
        BY <4>1, UnheldIsUnused
    <3>3. payment[p].place = "bin" /\ share' = share /\ invoice' = invoice => UsedOf(p)' = 0
      <4> SUFFICES ASSUME payment[p].place = "bin", share' = share, invoice' = invoice
                   PROVE  UsedOf(p)' = 0
        OBVIOUS
      <4>1. \A i \in Invoices : LiveShares(p)'[i] = 0
        BY DEF SharesInv, BinnedPaymentHoldsNothing, LiveShares, Live
      <4> QED
        BY <4>1, UsedIsSum, SumOfZeros, IdsAssumption
    <3> QED
      BY <2>0, <3>1, <3>2, <3>3 DEF UsedMoves, UnusedOf
  <2> QED
    BY <2>1, <2>2
<1>3. Spec => [](TypeOK /\ SharesInv /\ UnreceivedIsNowhere)
  BY BillingIsPart, TypeCorrect, SharesAlways, UnreceivedStays, PTL
<1> QED
  BY <1>1, <1>2, <1>3, PTL DEF Spec

(* Only a restored invoice takes the shares of a payment further above it. *)
THEOREM OnlyRestoringOverUses == BinSpec => OverUseOnlyByRestore
<1>1. /\ TypeOK /\ TypeOK' /\ SharesInv /\ [BinNext]_vars
      => [OverUseStep]_vars
  <2> SUFFICES ASSUME TypeOK, TypeOK', SharesInv, BinNext, NEW p \in Payments,
                      payment[p].place = "live", OverUse(p)' > OverUse(p)
               PROVE  \E i \in Invoices : invoice[i].place = "bin" /\ Live(i)'
    BY DEF OverUseStep
  <2>1. UsedOf(p) \in Nat /\ payment[p].amount \in Nat
    BY UsedIsNat DEF TypeOK, PaymentRow
  <2>2. UsedOf(p)' \in Nat /\ payment'[p].amount \in Nat
    <3>1. \A i \in Invoices : LiveShares(p)'[i] \in Nat
      BY DEF TypeOK, LiveShares
    <3>2. UsedOf(p)' \in Nat
      BY <3>1, UsedIsSum, SumIsNat, IdsAssumption
    <3> QED
      BY <3>2 DEF TypeOK, PaymentRow
  <2>3. CASE Next
    <3>1. UsedMoves(p)
      BY <2>3, EveryStepUses
    <3>2. payment'[p].place = "bin" => payment'[p].amount = payment[p].amount /\ UsedOf(p)' <= UsedOf(p)
      <4> SUFFICES ASSUME payment'[p].place = "bin"
                   PROVE  payment'[p].amount = payment[p].amount /\ UsedOf(p)' <= UsedOf(p)
        OBVIOUS
      <4>1. DeletePayment(p)
        BY <2>3 DEF Next, InvoiceStep, CreateInvoice, UpdateInvoice, MarkPaid, RecordPayment,
                    DeleteInvoice, PaymentStep, ReceivePayment, ApplyCredit, DeletePayment,
                    RestorePayment, ReassignProject, TypeOK, PaymentRow
      <4>2. \A i \in Invoices : invoice'[i].place = invoice[i].place
        BY <4>1 DEF DeletePayment, Reversed, TypeOK, InvoiceRow
      <4>3. \A i \in Invoices : LiveShares(p)'[i] <= LiveShares(p)[i]
        BY <4>1, <4>2 DEF DeletePayment, LiveShares, Live, TypeOK
      <4>4. payment'[p].amount = payment[p].amount
        BY <4>1 DEF DeletePayment, TypeOK, PaymentRow
      <4> QED
        BY <4>3, <4>4, NoMoreUsed
    <3> QED
      BY <2>1, <2>2, <3>1, <3>2 DEF UsedMoves, UnusedOf, OverUse
  <2>4. CASE \E k \in Invoices : RestoreInvoice(k)
    <3>1. PICK k \in Invoices : RestoreInvoice(k)
      BY <2>4
    <3>2. invoice[k].place = "bin" /\ invoice'[k].place = "live"
      BY <3>1 DEF RestoreInvoice, TypeOK, InvoiceRow
    <3> QED
      BY <3>2 DEF Live
  <2> QED
    BY <2>3, <2>4 DEF BinNext
<1> QED
  BY <1>1, TypeCorrect, SharesAlways, PTL DEF BinSpec, OverUseOnlyByRestore


----------------------------------------------------------------------------
(* The ledger of an invoice, row by row.  What its rows add up to is what  *)
(* was taken on the invoice itself and its shares of every payment.        *)

SharesOf(i) == [p \in Payments |-> share[p][i]]

SharesAreTheRest ==
    \A i \in Invoices :
        FromPayments(invoice[i]) = SumFunctionOnSet(SharesOf(i), Payments)

(* The shares of an invoice add up to a natural number. *)
LEMMA SharesAreNat ==
    ASSUME TypeOK, NEW i \in Invoices
    PROVE  SumFunctionOnSet(SharesOf(i), Payments) \in Nat
<1>1. \A p \in Payments : SharesOf(i)[p] \in Nat
  BY DEF TypeOK, SharesOf
<1> QED
  BY <1>1, SumIsNat, IdsAssumption

(* The same of the state after a step. *)
LEMMA SharesAreNatNext ==
    ASSUME TypeOK', NEW i \in Invoices
    PROVE  SumFunctionOnSet(SharesOf(i)', Payments) \in Nat
<1>1. \A p \in Payments : SharesOf(i)'[p] \in Nat
  BY DEF TypeOK, SharesOf
<1> QED
  BY <1>1, SumIsNat, IdsAssumption

(* A row written by update_invoice changes no share. *)
LEMMA SavedKeepsTheRest ==
    ASSUME NEW r \in InvoiceRow, NEW new \in InvoiceRow
    PROVE  FromPayments(Saved(r, new)) = FromPayments(r)
  BY DEF Saved, FromPayments, InvoiceRow

(* An invoice whose shares stay what they are. *)
LEMMA RestUntouched ==
    ASSUME TypeOK, TypeOK', SharesAreTheRest, NEW i \in Invoices,
           \A p \in Payments : share'[p][i] = share[p][i],
           FromPayments(invoice'[i]) = FromPayments(invoice[i])
    PROVE  FromPayments(invoice'[i]) = SumFunctionOnSet(SharesOf(i)', Payments)
<1>1. \A p \in Payments : SharesOf(i)[p] \in Int /\ SharesOf(i)'[p] = SharesOf(i)[p]
  BY DEF TypeOK, SharesOf
<1>2. SumFunctionOnSet(SharesOf(i)', Payments) = SumFunctionOnSet(SharesOf(i), Payments)
  BY <1>1, SumsAgree, IdsAssumption
<1> QED
  BY <1>2 DEF SharesAreTheRest

(* One of its shares changes, and its history by as much. *)
LEMMA RestChanges ==
    ASSUME TypeOK, TypeOK', SharesAreTheRest, NEW i \in Invoices, NEW p \in Payments,
           \A d \in Payments : d # p => share'[d][i] = share[d][i],
           FromPayments(invoice'[i])
             = FromPayments(invoice[i]) + (share'[p][i] - share[p][i])
    PROVE  FromPayments(invoice'[i]) = SumFunctionOnSet(SharesOf(i)', Payments)
<1>1. SharesOf(i)[p] \in Int /\ SharesOf(i)'[p] \in Int
  BY DEF TypeOK, SharesOf
<1>2. \A d \in Payments : d # p => SharesOf(i)[d] \in Int /\ SharesOf(i)'[d] = SharesOf(i)[d]
  BY DEF TypeOK, SharesOf
<1>3. SumFunctionOnSet(SharesOf(i)', Payments)
        = SumFunctionOnSet(SharesOf(i), Payments) + (SharesOf(i)'[p] - SharesOf(i)[p])
  BY <1>1, <1>2, SumChanges, IdsAssumption
<1>4. SharesOf(i)[p] = share[p][i] /\ SharesOf(i)'[p] = share'[p][i]
  BY DEF SharesOf
<1> QED
  BY <1>3, <1>4 DEF SharesAreTheRest

(* All its shares are gone, and its history is what was taken on it. *)
LEMMA RestIsGone ==
    ASSUME NEW i \in Invoices, \A p \in Payments : share'[p][i] = 0,
           FromPayments(invoice'[i]) = 0
    PROVE  FromPayments(invoice'[i]) = SumFunctionOnSet(SharesOf(i)', Payments)
<1>1. \A p \in Payments : SharesOf(i)'[p] = 0
  BY DEF SharesOf
<1> QED
  BY <1>1, SumOfZeros, IdsAssumption

LEMMA RestInvoiceStep ==
    ASSUME TypeOK, TypeOK', SharesInv, SharesAreTheRest, NEW k \in Invoices, InvoiceStep(k)
    PROVE  SharesAreTheRest'
<1> SUFFICES ASSUME NEW i \in Invoices
             PROVE  FromPayments(invoice'[i]) = SumFunctionOnSet(SharesOf(i)', Payments)
  BY DEF SharesAreTheRest, SharesOf, FromPayments
<1>0. invoice[i] \in InvoiceRow
  BY DEF TypeOK
<1>1. CASE i # k
  <2>1. invoice'[i] = invoice[i] /\ \A p \in Payments : share'[p][i] = share[p][i]
    BY <1>1 DEF InvoiceStep, CreateInvoice, UpdateInvoice, MarkPaid, RecordPayment,
                DeleteInvoice, TypeOK
  <2> QED
    BY <2>1, RestUntouched
<1>2. ASSUME NEW j \in Projects, NEW total \in Totals, NEW discount \in Discounts,
             NEW advance \in Money, i = k, CreateInvoice(k, j, total, discount, advance)
      PROVE  FromPayments(invoice'[i]) = SumFunctionOnSet(SharesOf(i)', Payments)
  <2>1. \A p \in Payments : share'[p][i] = 0
    BY <1>2 DEF CreateInvoice, NextId, SharesInv, UnbornHoldsNothing
  <2>2. invoice'[i] = NewInvoice(j, total, discount, advance)
    BY <1>2 DEF CreateInvoice, TypeOK
  <2>3. FromPayments(invoice'[i]) = 0
    BY <2>2, MoneyAssumption DEF FromPayments, NewInvoice
  <2> QED
    BY <2>1, <2>3, RestIsGone
<1>3. ASSUME NEW q \in Patch, i = k, UpdateInvoice(k, q)
      PROVE  FromPayments(invoice'[i]) = SumFunctionOnSet(SharesOf(i)', Payments)
  <2> DEFINE saved == Saved(invoice[k], Patched(invoice[k], q))
  <2>1. saved \in InvoiceRow /\ FromPayments(saved) = FromPayments(invoice[k])
    BY <1>0, <1>3, PatchedType, SavedType, SavedKeepsTheRest DEF UpdateInvoice
  <2>2. CASE Pending(k) /\ q.status = "cancelled"
    <3>1. invoice'[k] = Released(saved) /\ \A p \in Payments : share'[p][k] = 0
      BY <1>3, <2>2 DEF UpdateInvoice, TypeOK
    <3>2. FromPayments(saved) \in Nat
      BY <1>3, <2>1, SharesAreNat DEF SharesAreTheRest
    <3>3. FromPayments(Released(saved)) = 0
      <4> HIDE DEF saved
      <4> QED
        BY <2>1, <3>2 DEF Released, Reversed, FromPayments, InvoiceRow
    <3> QED
      BY <1>3, <3>1, <3>3, RestIsGone
  <2>3. CASE ~(Pending(k) /\ q.status = "cancelled")
    <3>1. invoice'[k] = saved /\ share' = share
      BY <1>3, <2>3 DEF UpdateInvoice, TypeOK
    <3> QED
      BY <1>3, <2>1, <3>1, RestUntouched
  <2> QED
    BY <2>2, <2>3
<1>4. CASE i = k /\ (MarkPaid(k) \/ \E x \in Money : RecordPayment(k, x))
  <2>1. share' = share
    BY <1>4 DEF MarkPaid, RecordPayment
  <2>2. \/ invoice'[k] = Saved(invoice[k], Settled(invoice[k]))
        \/ \E x \in Money : invoice'[k] = Saved(invoice[k], Instalment(invoice[k], x))
    BY <1>4 DEF MarkPaid, RecordPayment, TypeOK
  <2>3. FromPayments(invoice'[k]) = FromPayments(invoice[k])
    BY <1>0, <1>4, <2>2, SettledType, InstalmentType, SavedKeepsTheRest, MoneyAssumption
  <2> QED
    BY <1>4, <2>1, <2>3, RestUntouched
<1>5. CASE i = k /\ DeleteInvoice(k)
  <2>1. share' = share /\ FromPayments(invoice'[i]) = FromPayments(invoice[i])
    BY <1>5 DEF DeleteInvoice, FromPayments, TypeOK, InvoiceRow
  <2> QED
    BY <2>1, RestUntouched
<1> QED
  BY <1>1, <1>2, <1>3, <1>4, <1>5 DEF InvoiceStep

LEMMA RestPaymentStep ==
    ASSUME TypeOK, TypeOK', SharesInv, SharesAreTheRest, NEW p \in Payments, PaymentStep(p)
    PROVE  SharesAreTheRest'
<1> SUFFICES ASSUME NEW i \in Invoices
             PROVE  FromPayments(invoice'[i]) = SumFunctionOnSet(SharesOf(i)', Payments)
  BY DEF SharesAreTheRest, SharesOf, FromPayments
<1>0. invoice[i] \in InvoiceRow /\ \A d \in Payments : share[d][i] \in Nat
  BY DEF TypeOK
<1>1. ASSUME NEW alloc \in Splits, Apply(p, alloc)
      PROVE  FromPayments(invoice'[i]) = SumFunctionOnSet(SharesOf(i)', Payments)
  <2>1. \A d \in Payments : share'[d][i] = IF d = p THEN share[d][i] + alloc[i] ELSE share[d][i]
    BY <1>1 DEF Apply, TypeOK
  <2>2. alloc[i] \in Nat
    BY MoneyAssumption DEF Splits
  <2>3. invoice'[i] = IF alloc[i] > 0 THEN Credited(invoice[i], alloc[i]) ELSE invoice[i]
    BY <1>1 DEF Apply
  <2>4. FromPayments(invoice'[i]) = FromPayments(invoice[i]) + alloc[i]
    BY <1>0, <2>2, <2>3 DEF Credited, FromPayments, InvoiceRow
  <2>5. share'[p][i] - share[p][i] = alloc[i]
    BY <1>0, <2>1, <2>2
  <2> QED
    BY <2>1, <2>4, <2>5, RestChanges
<1>2. CASE DeletePayment(p)
  <2>1. /\ \A d \in Payments : d # p => share'[d][i] = share[d][i]
        /\ share'[p][i] = IF Live(i) THEN 0 ELSE share[p][i]
        /\ invoice'[i] = IF Live(i) /\ share[p][i] > 0
                         THEN Reversed(invoice[i], share[p][i]) ELSE invoice[i]
    BY <1>2 DEF DeletePayment, TypeOK
  <2>2. CASE Live(i) /\ share[p][i] > 0
    <3>1. FromPayments(invoice'[i]) = FromPayments(invoice[i]) - share[p][i]
      BY <1>0, <2>1, <2>2 DEF Reversed, FromPayments, InvoiceRow
    <3>2. FromPayments(invoice[i]) \in Int /\ share'[p][i] - share[p][i] = 0 - share[p][i]
      BY <1>0, <2>1, <2>2 DEF FromPayments, InvoiceRow
    <3>3. FromPayments(invoice'[i]) = FromPayments(invoice[i]) + (share'[p][i] - share[p][i])
      BY <1>0, <3>1, <3>2
    <3> QED
      BY <2>1, <3>3, RestChanges
  <2>3. CASE ~(Live(i) /\ share[p][i] > 0)
    <3>1. share'[p][i] = share[p][i] /\ invoice'[i] = invoice[i]
      BY <1>0, <2>1, <2>3
    <3> QED
      BY <2>1, <3>1, RestUntouched
  <2> QED
    BY <2>2, <2>3
<1>3. CASE RestorePayment(p)
  BY <1>3, RestUntouched DEF RestorePayment
<1> QED
  BY <1>1, <1>2, <1>3 DEF PaymentStep, ReceivePayment, ApplyCredit

LEMMA RestRestoreStep ==
    ASSUME TypeOK, TypeOK', SharesAreTheRest, NEW k \in Invoices, RestoreInvoice(k)
    PROVE  SharesAreTheRest'
<1> SUFFICES ASSUME NEW i \in Invoices
             PROVE  FromPayments(invoice'[i]) = SumFunctionOnSet(SharesOf(i)', Payments)
  BY DEF SharesAreTheRest, SharesOf, FromPayments
<1>1. CASE i # k
  <2>1. invoice'[i] = invoice[i] /\ \A p \in Payments : share'[p][i] = share[p][i]
    BY <1>1 DEF RestoreInvoice, TypeOK
  <2> QED
    BY <2>1, RestUntouched
<1>2. CASE i = k
  <2>1. \A p \in Payments : share'[p][i] = share[p][i] - LostLinks(i)[p]
    BY <1>2 DEF RestoreInvoice, TypeOK
  <2>2. \A p \in Payments : LostLinks(i)[p] \in Nat
    BY DEF TypeOK, LostLinks
  <2>3. \A p \in Payments : /\ SharesOf(i)'[p] \in Int /\ LostLinks(i)[p] \in Int
                            /\ SharesOf(i)[p] = SharesOf(i)'[p] + LostLinks(i)[p]
    BY <2>1, <2>2 DEF TypeOK, SharesOf
  <2>4. SumFunctionOnSet(SharesOf(i), Payments)
          = SumFunctionOnSet(SharesOf(i)', Payments) + SumFunctionOnSet(LostLinks(i), Payments)
    BY <2>3, SumOfSums, IdsAssumption
  <2>5. SumFunction(LostLinks(i)) = SumFunctionOnSet(LostLinks(i), Payments)
    BY DEF SumFunction, LostLinks
  <2>6. SumFunction(LostLinks(i)) \in Nat
    BY LostIsNat
  <2>7. FromPayments(invoice'[i]) = FromPayments(invoice[i]) - SumFunction(LostLinks(i))
    <3>1. invoice'[i] = [invoice[i] EXCEPT !.place = "live",
                                           !.direct = @ + SumFunction(LostLinks(i))]
      BY <1>2 DEF RestoreInvoice, TypeOK
    <3>2. invoice[i] \in InvoiceRow
      BY DEF TypeOK
    <3> HIDE DEF LostLinks
    <3> QED
      BY <2>6, <3>1, <3>2 DEF FromPayments, InvoiceRow
  <2>8. SumFunctionOnSet(SharesOf(i)', Payments) \in Nat
    BY SharesAreNatNext
  <2>9. FromPayments(invoice[i]) = SumFunctionOnSet(SharesOf(i), Payments)
    BY DEF SharesAreTheRest
  <2> QED
    BY <2>4, <2>5, <2>6, <2>7, <2>8, <2>9
<1> QED
  BY <1>1, <1>2

LEMMA RestStep ==
    /\ TypeOK /\ TypeOK' /\ SharesInv /\ SharesAreTheRest /\ [BinNext]_vars
    => SharesAreTheRest'
<1> SUFFICES ASSUME TypeOK, TypeOK', SharesInv, SharesAreTheRest, [BinNext]_vars
             PROVE  SharesAreTheRest'
  OBVIOUS
<1>1. CASE UNCHANGED <<invoice, share>>
  <2> SUFFICES ASSUME NEW i \in Invoices
               PROVE  FromPayments(invoice'[i]) = SumFunctionOnSet(SharesOf(i)', Payments)
    BY DEF SharesAreTheRest, SharesOf, FromPayments
  <2> QED
    BY <1>1, RestUntouched
<1> QED
  BY <1>1, RestInvoiceStep, RestPaymentStep, RestRestoreStep
     DEF BinNext, Next, ReassignProject, vars

(* Whatever is applied, reversed, released, binned and restored, the rows  *)
(* of an invoice that point to payments are those payments' shares of it.  *)
THEOREM LedgerIsItsShares == BinSpec => []SharesAreTheRest
<1>1. Init => SharesAreTheRest
  <2> SUFFICES ASSUME Init, NEW i \in Invoices
               PROVE  FromPayments(invoice[i]) = SumFunctionOnSet(SharesOf(i), Payments)
    BY DEF SharesAreTheRest
  <2>1. \A p \in Payments : SharesOf(i)[p] = 0
    BY DEF Init, SharesOf
  <2>2. SumFunctionOnSet(SharesOf(i), Payments) = 0
    BY <2>1, SumOfZeros, IdsAssumption
  <2>3. FromPayments(invoice[i]) = 0
    <3>1. PICK j :
            invoice[i] =
              [place |-> "unborn", project |-> j, status |-> "pending", subtotal |-> 0,
               discount |-> 0, amount |-> 0, advance |-> 0, paidAt |-> FALSE,
               direct |-> 0, history |-> 0]
      BY InitRow
    <3> QED
      BY <3>1 DEF FromPayments
  <2> QED
    BY <2>2, <2>3
<1> QED
  BY <1>1, RestStep, TypeCorrect, SharesAlways, PTL DEF BinSpec

----------------------------------------------------------------------------
(* The history matches the advance, where nobody types over either money   *)
(* field.  What was taken on an invoice itself is then never negative, so  *)
(* a share is never more than the advance it is taken off.                 *)

LEMMA MovedMatches ==
    ASSUME AdvanceEdits = {}, NEW r \in InvoiceRow, NEW s, Moved(r, s), s \in InvoiceRow,
           r.history = r.advance, r.direct >= 0, r.advance <= r.amount,
           r.history - r.direct >= 0, s.history - s.direct >= 0
    PROVE  s.history = s.advance /\ s.direct >= 0
<1> USE DEF InvoiceRow
<1>0. \A new \in InvoiceRow : new.advance >= r.advance
        => Saved(r, new).history = Saved(r, new).advance /\ Saved(r, new).direct >= 0
  BY DEF Saved
<1>1. CASE Created(r, s)
  BY <1>1, MoneyAssumption DEF Created, NewInvoice
<1>2. CASE Edited(r, s)
  <2>1. PICK q \in Patch :
          /\ PatchAllowed(r, q)
          /\ IF r.status = "pending" /\ q.status = "cancelled"
             THEN s = Released(Saved(r, Patched(r, q)))
             ELSE s = Saved(r, Patched(r, q))
    BY <1>2 DEF Edited
  <2> DEFINE saved == Saved(r, Patched(r, q))
  <2>2. saved \in InvoiceRow /\ Patched(r, q) \in InvoiceRow
    BY <2>1, PatchedType, SavedType
  <2>3. Patched(r, q).advance = r.advance
    BY DEF Patch, Patched, Or
  <2>4. saved.history = saved.advance /\ saved.direct >= 0
    BY <1>0, <2>2, <2>3
  <2>5. Released(saved).history = Released(saved).advance /\ Released(saved).direct >= 0
    <3> HIDE DEF saved
    <3> QED
      BY <2>2, <2>4 DEF Released, FromPayments, Reversed, TakenOff
  <2> QED
    BY <2>1, <2>4, <2>5
<1>3. CASE PaidUp(r, s)
  <2>1. Settled(r) \in InvoiceRow /\ Settled(r).advance >= r.advance
    BY SettledType DEF Settled
  <2> QED
    BY <1>0, <1>3, <2>1 DEF PaidUp
<1>4. CASE PaidInPart(r, s)
  <2>1. PICK x \in Money : s = Saved(r, Instalment(r, x)) /\ x > 0
    BY <1>4 DEF PaidInPart
  <2>2. Instalment(r, x) \in InvoiceRow /\ Instalment(r, x).advance >= r.advance
    <3>1. x \in Nat
      BY MoneyAssumption
    <3>2. Instalment(r, x) \in InvoiceRow
      BY <3>1, InstalmentType
    <3>3. Instalment(r, x).advance = IF r.advance + x >= r.amount THEN r.amount ELSE r.advance + x
      BY <3>1 DEF Instalment, Settled
    <3> QED
      BY <3>1, <3>2, <3>3
  <2> QED
    BY <1>0, <2>1, <2>2
<1>5. CASE Binned(r, s)
  BY <1>5 DEF Binned
<1>6. CASE GivenShare(r, s)
  BY <1>6, MoneyAssumption DEF GivenShare, Credited, BalanceDue
<1>7. CASE GivenBack(r, s)
  <2>1. PICK x \in Nat : s = Reversed(r, x)
    BY <1>7 DEF GivenBack
  <2>2. s.history = r.history - x /\ s.direct = r.direct /\ s.advance = TakenOff(r.advance, x)
    BY <2>1 DEF Reversed
  <2> QED
    BY <2>2 DEF TakenOff
<1> QED
  BY <1>1, <1>2, <1>3, <1>4, <1>5, <1>6, <1>7 DEF Moved

DirectIsNat == \A i \in Invoices : invoice[i].direct >= 0

LEMMA HistoryStep ==
    ASSUME AdvanceEdits = {}
    PROVE  /\ TypeOK /\ TypeOK' /\ AdvanceWithinAmount /\ SharesAreTheRest /\ SharesAreTheRest'
           /\ HistoryMatchesAdvance /\ DirectIsNat /\ [BinNext]_vars
           => HistoryMatchesAdvance' /\ DirectIsNat'
<1> SUFFICES ASSUME TypeOK, TypeOK', AdvanceWithinAmount, SharesAreTheRest,
                    SharesAreTheRest', HistoryMatchesAdvance, DirectIsNat, [BinNext]_vars,
                    NEW i \in Invoices
             PROVE  invoice'[i].history = invoice'[i].advance /\ invoice'[i].direct >= 0
  BY DEF HistoryMatchesAdvance, DirectIsNat
<1> DEFINE r == invoice[i]
           s == invoice'[i]
<1>1. /\ r \in InvoiceRow /\ r.history = r.advance /\ r.direct >= 0 /\ r.advance <= r.amount
      /\ s \in InvoiceRow
  BY DEF TypeOK, HistoryMatchesAdvance, DirectIsNat, AdvanceWithinAmount
<1>2. r.history - r.direct >= 0 /\ s.history - s.direct >= 0
  <2>1. SumFunctionOnSet(SharesOf(i), Payments) \in Nat
    BY SharesAreNat
  <2>2. SumFunctionOnSet(SharesOf(i)', Payments) \in Nat
    BY SharesAreNatNext
  <2>3. r.history - r.direct = SumFunctionOnSet(SharesOf(i), Payments)
    BY DEF SharesAreTheRest, FromPayments
  <2>4. s.history - s.direct = SumFunctionOnSet(SharesOf(i)', Payments)
    BY DEF SharesAreTheRest, FromPayments, SharesOf
  <2> QED
    BY <2>1, <2>2, <2>3, <2>4
<1>3. CASE s = r
  BY <1>1, <1>3
<1>4. CASE Moved(r, s)
  <2> HIDE DEF r, s
  <2>1. s.history = s.advance /\ s.direct >= 0
    BY <1>1, <1>2, <1>4, MovedMatches
  <2> QED
    BY <2>1 DEF s
<1>5. CASE PutBack(r, s)
  <2>1. PICK x \in Nat : s = [r EXCEPT !.place = "live", !.direct = @ + x]
    BY <1>5 DEF PutBack
  <2>2. s.history = r.history /\ s.advance = r.advance /\ s.direct = r.direct + x
    BY <1>1, <2>1 DEF InvoiceRow
  <2> QED
    BY <1>1, <2>2 DEF InvoiceRow
<1>6. s = r \/ Moved(r, s) \/ PutBack(r, s)
  BY EveryBinStepMoves DEF vars
<1> QED
  BY <1>3, <1>4, <1>5, <1>6

(* While nobody types over the amount or the advance, the payment history  *)
(* of an invoice adds up to exactly what it shows as received.             *)
THEOREM HistoryIsExact ==
    ASSUME AdvanceEdits = {}, RawAmounts = {}
    PROVE  BinSpec => []HistoryMatchesAdvance
<1>1. Init => HistoryMatchesAdvance /\ DirectIsNat
  <2> SUFFICES ASSUME Init, NEW i \in Invoices
               PROVE  invoice[i].history = invoice[i].advance /\ invoice[i].direct >= 0
    BY DEF HistoryMatchesAdvance, DirectIsNat
  <2>1. PICK j :
          invoice[i] =
            [place |-> "unborn", project |-> j, status |-> "pending", subtotal |-> 0,
             discount |-> 0, amount |-> 0, advance |-> 0, paidAt |-> FALSE,
             direct |-> 0, history |-> 0]
    BY InitRow
  <2> QED
    BY <2>1
<1> QED
  BY <1>1, HistoryStep, TypeCorrect, NothingOverpaid, LedgerIsItsShares, PTL DEF BinSpec

----------------------------------------------------------------------------
(* What the screens say.  Each is a sum over some of the invoices; written *)
(* as sums of the same tables they can be compared.                        *)

AmountTable == [i \in Invoices |-> invoice[i].amount]
BalanceTable == [i \in Invoices |-> BalanceDue(invoice[i])]
PaidTable == [i \in Invoices |-> Paid(i)]
UnpaidTable == [i \in Invoices |-> Unpaid(i)]
DirectTable == [i \in Invoices |-> invoice[i].direct]

LEMMA TablesType ==
    ASSUME TypeOK, NEW i \in Invoices
    PROVE  /\ AmountTable[i] \in Nat
           /\ BalanceTable[i] \in Nat
           /\ PaidTable[i] \in Int
           /\ UnpaidTable[i] \in Int
           /\ DirectTable[i] \in Int
<1>1. invoice[i] \in InvoiceRow
  BY DEF TypeOK
<1> QED
  BY <1>1 DEF InvoiceRow, AmountTable, BalanceTable, PaidTable, UnpaidTable, DirectTable,
              BalanceDue, Balance, Amount, Paid, Unpaid

(* A screen's sum over some of the invoices is the sum of a table. *)
LEMMA ScreenSums ==
    ASSUME TypeOK, NEW S \in SUBSET Invoices
    PROVE  /\ Sum(S, Amount) = SumFunctionOnSet(AmountTable, S)
           /\ Sum(S, Balance) = SumFunctionOnSet(BalanceTable, S)
           /\ Sum(S, Paid) = SumFunctionOnSet(PaidTable, S)
           /\ Sum(S, Unpaid) = SumFunctionOnSet(UnpaidTable, S)
           /\ Sum(S, LAMBDA i : invoice[i].direct) = SumFunctionOnSet(DirectTable, S)
<1>0. IsFiniteSet(S)
  BY FS_Subset, IdsAssumption
<1>1. \A i \in S : /\ AmountTable[i] \in Int /\ BalanceTable[i] \in Int
                   /\ PaidTable[i] \in Int /\ UnpaidTable[i] \in Int /\ DirectTable[i] \in Int
  BY TablesType
<1>2. SumFunction([i \in S |-> Amount(i)]) = SumFunctionOnSet(AmountTable, S)
  BY <1>0, <1>1, SumOfTable DEF AmountTable, Amount
<1>3. SumFunction([i \in S |-> Balance(i)]) = SumFunctionOnSet(BalanceTable, S)
  BY <1>0, <1>1, SumOfTable DEF BalanceTable, Balance
<1>4. SumFunction([i \in S |-> Paid(i)]) = SumFunctionOnSet(PaidTable, S)
  BY <1>0, <1>1, SumOfTable DEF PaidTable
<1>5. SumFunction([i \in S |-> Unpaid(i)]) = SumFunctionOnSet(UnpaidTable, S)
  BY <1>0, <1>1, SumOfTable DEF UnpaidTable
<1>6. SumFunction([i \in S |-> invoice[i].direct]) = SumFunctionOnSet(DirectTable, S)
  BY <1>0, <1>1, SumOfTable DEF DirectTable
<1> QED
  BY <1>2, <1>3, <1>4, <1>5, <1>6 DEF Sum

CustomerTable == [i \in Invoices |-> owner[invoice[i].project]]

LEMMA CustomerOfInvoice ==
    ASSUME TypeOK
    PROVE  \A i \in Invoices :
             CustomerTable[i] = owner[invoice[i].project] /\ CustomerTable[i] \in Customers
<1>1. \A i \in Invoices : invoice[i].project \in Projects
  BY DEF TypeOK, InvoiceRow
<1> QED
  BY <1>1 DEF TypeOK, CustomerTable

(* Every live invoice is some customer's. *)
LEMMA EveryInvoiceIsOwned ==
    ASSUME TypeOK
    PROVE  Of(Customers) = AllInvoices
  BY CustomerOfInvoice DEF Of, AllInvoices

(* A customer's invoices of a status are its part of the shop's. *)
LEMMA CustomersPart ==
    ASSUME TypeOK, NEW status, NEW c \in Customers
    PROVE  With(Of({c}), status)
             = {i \in With(AllInvoices, status) : CustomerTable[i] = c}
  BY CustomerOfInvoice DEF With, Of, AllInvoices

(* What the customers' figures are parts of: the figure of the shop. *)
LEMMA CustomersAddUp ==
    ASSUME TypeOK, NEW f, \A i \in Invoices : f[i] \in Int, NEW S \in SUBSET Invoices,
           NEW g, DOMAIN g = Customers,
           \A c \in Customers : g[c] = SumFunctionOnSet(f, {i \in S : CustomerTable[i] = c})
    PROVE  SumFunction(g) = SumFunctionOnSet(f, S)
<1> DEFINE h == PartSums(f, S, Customers, CustomerTable)
<1>1. IsFiniteSet(S) /\ IsFiniteSet(Customers)
  BY FS_Subset, IdsAssumption
<1>2. \A i \in S : f[i] \in Int /\ CustomerTable[i] \in Customers
  BY CustomerOfInvoice
<1>3. SumFunctionOnSet(h, Customers) = SumFunctionOnSet(f, S)
  BY <1>1, <1>2, SumOfParts
<1>4. \A c \in Customers : g[c] = h[c] /\ h[c] \in Int
  <2> TAKE c \in Customers
  <2>1. IsFiniteSet({i \in S : CustomerTable[i] = c})
    BY <1>1, FS_Subset
  <2>2. SumFunctionOnSet(f, {i \in S : CustomerTable[i] = c}) \in Int
    BY <1>2, <2>1, SumIsInt
  <2> QED
    BY <2>2 DEF PartSums
<1>5. SumFunction(g) = SumFunctionOnSet(h, Customers)
  <2> HIDE DEF h
  <2> QED
    BY <1>1, <1>4, SumOfTable
<1> QED
  BY <1>3, <1>5

(* The statement's rows. *)
LEMMA StatementRows ==
    ASSUME NEW c \in Customers
    PROVE  /\ OnStatement(c) \in SUBSET Invoices
           /\ With(OnStatement(c), "pending") = With(Of({c}), "pending")
  BY DEF OnStatement, With, Of

(* On a statement, what is unpaid of an invoice is its balance while it is *)
(* pending, and nothing once it is paid.                                   *)
LEMMA UnpaidIsBalance ==
    ASSUME TypeOK, NEW i \in Invoices
    PROVE  /\ invoice[i].status = "pending" => UnpaidTable[i] = BalanceTable[i]
           /\ invoice[i].status = "paid" => UnpaidTable[i] = 0
           /\ UnpaidTable[i] = AmountTable[i] - PaidTable[i]
<1>1. invoice[i] \in InvoiceRow
  BY DEF TypeOK
<1> QED
  BY <1>1 DEF InvoiceRow, UnpaidTable, BalanceTable, AmountTable, PaidTable, Unpaid, Paid,
              Amount, Balance, BalanceDue

LEMMA StatementBalance ==
    ASSUME TypeOK, NEW c \in Customers, NEW period \in SUBSET Invoices
    PROVE  LET rows == OnStatement(c) \cap period IN
           /\ SumFunctionOnSet(UnpaidTable, rows)
                = SumFunctionOnSet(BalanceTable, With(rows, "pending"))
           /\ SumFunctionOnSet(AmountTable, rows)
                = SumFunctionOnSet(PaidTable, rows) + SumFunctionOnSet(UnpaidTable, rows)
           /\ SumFunctionOnSet(UnpaidTable, rows)
                <= SumFunctionOnSet(BalanceTable, With(OnStatement(c), "pending"))
<1> DEFINE rows == OnStatement(c) \cap period
           open == With(rows, "pending")
           allOpen == With(OnStatement(c), "pending")
<1>1. /\ rows \in SUBSET Invoices /\ open \in SUBSET rows
      /\ open \in SUBSET allOpen /\ allOpen \in SUBSET Invoices
  BY StatementRows DEF With
<1>2. IsFiniteSet(rows) /\ IsFiniteSet(open) /\ IsFiniteSet(allOpen)
  BY <1>1, FS_Subset, IdsAssumption
<1>3. \A i \in open : UnpaidTable[i] \in Int /\ BalanceTable[i] \in Int
                      /\ UnpaidTable[i] = BalanceTable[i]
  BY <1>1, TablesType, UnpaidIsBalance DEF With
<1>4. \A i \in rows \ open : UnpaidTable[i] = 0
  BY <1>1, UnpaidIsBalance DEF With, OnStatement
<1>5. \A i \in rows : /\ AmountTable[i] \in Int /\ PaidTable[i] \in Int /\ UnpaidTable[i] \in Int
                      /\ AmountTable[i] = PaidTable[i] + UnpaidTable[i]
  BY <1>1, TablesType, UnpaidIsBalance
<1>6. \A i \in allOpen : BalanceTable[i] \in Nat
  BY <1>1, TablesType
<1> HIDE DEF rows, open, allOpen
<1>7. SumFunctionOnSet(UnpaidTable, rows) = SumFunctionOnSet(UnpaidTable, open)
  BY <1>1, <1>2, <1>3, <1>4, SumOnPart
<1>8. SumFunctionOnSet(UnpaidTable, open) = SumFunctionOnSet(BalanceTable, open)
  BY <1>2, <1>3, SumsAgree
<1>9. SumFunctionOnSet(AmountTable, rows)
        = SumFunctionOnSet(PaidTable, rows) + SumFunctionOnSet(UnpaidTable, rows)
  BY <1>2, <1>5, SumOfSums
<1>10. SumFunctionOnSet(BalanceTable, open) <= SumFunctionOnSet(BalanceTable, allOpen)
  BY <1>1, <1>2, <1>6, SumOfFewer
<1>11. /\ SumFunctionOnSet(UnpaidTable, rows) = SumFunctionOnSet(BalanceTable, open)
       /\ SumFunctionOnSet(UnpaidTable, rows) <= SumFunctionOnSet(BalanceTable, allOpen)
  BY <1>7, <1>8, <1>10
<1> QED
  BY <1>9, <1>11 DEF rows, open, allOpen

LEMMA StatementAgrees ==
    ASSUME TypeOK, NEW c \in Customers
    PROVE  LET whole == Statement(c, Invoices) IN
           /\ ListRow(c).outstanding = Profile(c).outstanding
           /\ whole.total_outstanding = Profile(c).outstanding
           /\ whole.total_balance = whole.total_outstanding
           /\ whole.credit = Profile(c).credit
           /\ \A k \in Invoices :
                LET part == Statement(c, {i \in Invoices : i <= k}) IN
                /\ part.total_billed = part.total_paid + part.total_balance
                /\ part.total_balance <= part.total_outstanding
<1>1. ASSUME NEW period \in SUBSET Invoices
      PROVE  /\ Statement(c, period).total_billed
                  = SumFunctionOnSet(AmountTable, OnStatement(c) \cap period)
             /\ Statement(c, period).total_paid
                  = SumFunctionOnSet(PaidTable, OnStatement(c) \cap period)
             /\ Statement(c, period).total_balance
                  = SumFunctionOnSet(UnpaidTable, OnStatement(c) \cap period)
             /\ Statement(c, period).total_outstanding
                  = SumFunctionOnSet(BalanceTable, With(OnStatement(c), "pending"))
  <2>1. OnStatement(c) \cap period \in SUBSET Invoices
        /\ With(OnStatement(c), "pending") \in SUBSET Invoices
    BY StatementRows DEF With
  <2> QED
    BY <2>1, ScreenSums DEF Statement
<1>2. Profile(c).outstanding = SumFunctionOnSet(BalanceTable, With(Of({c}), "pending"))
  <2>1. With(Of({c}), "pending") \in SUBSET Invoices
    BY DEF With, Of
  <2> QED
    BY <2>1, ScreenSums DEF Profile
<1>3. ListRow(c).outstanding = Profile(c).outstanding
  BY DEF ListRow, Profile
<1>4. Statement(c, Invoices).credit = Profile(c).credit
  BY DEF Statement, Profile, Credit, Described, Sum
<1>5. Statement(c, Invoices).total_outstanding = Profile(c).outstanding
  BY <1>1, <1>2, StatementRows
<1>6. Statement(c, Invoices).total_balance = Statement(c, Invoices).total_outstanding
  <2>1. OnStatement(c) \cap Invoices = OnStatement(c)
    BY StatementRows
  <2>2. SumFunctionOnSet(UnpaidTable, OnStatement(c) \cap Invoices)
          = SumFunctionOnSet(BalanceTable, With(OnStatement(c) \cap Invoices, "pending"))
    BY StatementBalance
  <2>3. /\ Statement(c, Invoices).total_balance
             = SumFunctionOnSet(UnpaidTable, OnStatement(c) \cap Invoices)
        /\ Statement(c, Invoices).total_outstanding
             = SumFunctionOnSet(BalanceTable, With(OnStatement(c), "pending"))
    BY <1>1
  <2> QED
    BY <2>1, <2>2, <2>3
<1>7. ASSUME NEW k \in Invoices
      PROVE  LET part == Statement(c, {i \in Invoices : i <= k}) IN
             /\ part.total_billed = part.total_paid + part.total_balance
             /\ part.total_balance <= part.total_outstanding
  <2> DEFINE period == {i \in Invoices : i <= k}
  <2>1. period \in SUBSET Invoices
    OBVIOUS
  <2> HIDE DEF period
  <2>2. /\ Statement(c, period).total_billed
             = Statement(c, period).total_paid + Statement(c, period).total_balance
        /\ Statement(c, period).total_balance <= Statement(c, period).total_outstanding
    <3>1. /\ Statement(c, period).total_billed
               = SumFunctionOnSet(AmountTable, OnStatement(c) \cap period)
          /\ Statement(c, period).total_paid
               = SumFunctionOnSet(PaidTable, OnStatement(c) \cap period)
          /\ Statement(c, period).total_balance
               = SumFunctionOnSet(UnpaidTable, OnStatement(c) \cap period)
          /\ Statement(c, period).total_outstanding
               = SumFunctionOnSet(BalanceTable, With(OnStatement(c), "pending"))
      BY <1>1, <2>1
    <3>2. /\ SumFunctionOnSet(AmountTable, OnStatement(c) \cap period)
               = SumFunctionOnSet(PaidTable, OnStatement(c) \cap period)
                   + SumFunctionOnSet(UnpaidTable, OnStatement(c) \cap period)
          /\ SumFunctionOnSet(UnpaidTable, OnStatement(c) \cap period)
               <= SumFunctionOnSet(BalanceTable, With(OnStatement(c), "pending"))
      BY <2>1, StatementBalance
    <3> QED
      BY <3>1, <3>2
  <2> QED
    BY <2>2 DEF period
<1> QED
  BY <1>3, <1>4, <1>5, <1>6, <1>7

LEMMA BadgeAgrees ==
    ASSUME TypeOK, NEW c \in Customers
    PROVE  ListRow(c).status = "pending" <=> OpenInvoices(c) # {}
<1> DEFINE S == With(Of({c}), "pending")
<1>1. S \in SUBSET Invoices
  BY DEF With, Of
<1>2. IsFiniteSet(S) /\ \A i \in S : BalanceTable[i] \in Nat
  BY <1>1, FS_Subset, IdsAssumption, TablesType
<1>3. ListRow(c).status = "pending" <=> Sum(S, Balance) > 0
  BY DEF ListRow
<1>4. \A i \in S : BalanceTable[i] = Balance(i)
  BY <1>1 DEF BalanceTable, Balance
<1>5. OpenInvoices(c) = {i \in S : Balance(i) > 0}
  BY DEF OpenInvoices
<1> HIDE DEF S
<1>6. Sum(S, Balance) > 0 <=> \E i \in S : BalanceTable[i] > 0
  BY <1>1, <1>2, ScreenSums, SumIsPositive
<1> QED
  BY <1>3, <1>4, <1>5, <1>6

LEMMA ShopAgrees ==
    ASSUME TypeOK
    PROVE  /\ Sum(Customers, LAMBDA c : Profile(c).outstanding) = Dashboard.outstanding
           /\ CompanyProfile(Customers).outstanding = InvoiceSummary.total_outstanding
           /\ InvoiceSummary.total_outstanding = Dashboard.outstanding
           /\ CompanyProfile(Customers).total_spent = Dashboard.revenue
           /\ Sum(Customers, LAMBDA c : TopCustomers[c]) = Dashboard.revenue
<1> DEFINE open == With(AllInvoices, "pending")
           settled == With(AllInvoices, "paid")
<1>1. open \in SUBSET Invoices /\ settled \in SUBSET Invoices
  BY DEF With, AllInvoices
<1>2. \A i \in Invoices : BalanceTable[i] \in Int /\ AmountTable[i] \in Int
  BY TablesType
<1>3. /\ Dashboard.outstanding = SumFunctionOnSet(BalanceTable, open)
      /\ Dashboard.revenue = SumFunctionOnSet(AmountTable, settled)
  BY <1>1, ScreenSums DEF Dashboard
<1>4. \A c \in Customers :
        /\ With(Of({c}), "pending") = {i \in open : CustomerTable[i] = c}
        /\ With(Of({c}), "paid") = {i \in settled : CustomerTable[i] = c}
  BY CustomersPart
<1>5. \A c \in Customers :
        /\ Profile(c).outstanding
             = SumFunctionOnSet(BalanceTable, {i \in open : CustomerTable[i] = c})
        /\ TopCustomers[c]
             = SumFunctionOnSet(AmountTable, {i \in settled : CustomerTable[i] = c})
  <2> TAKE c \in Customers
  <2>1. With(Of({c}), "pending") \in SUBSET Invoices /\ With(Of({c}), "paid") \in SUBSET Invoices
    BY DEF With, Of
  <2>2. /\ Profile(c).outstanding = SumFunctionOnSet(BalanceTable, With(Of({c}), "pending"))
        /\ TopCustomers[c] = SumFunctionOnSet(AmountTable, With(Of({c}), "paid"))
    BY <2>1, ScreenSums DEF Profile, TopCustomers
  <2> QED
    BY <1>4, <2>2
<1>6. /\ SumFunction([c \in Customers |-> Profile(c).outstanding])
           = SumFunctionOnSet(BalanceTable, open)
      /\ SumFunction([c \in Customers |-> TopCustomers[c]])
           = SumFunctionOnSet(AmountTable, settled)
  <2> HIDE DEF open, settled
  <2> QED
    BY <1>1, <1>2, <1>5, CustomersAddUp
<1>7. /\ CompanyProfile(Customers).outstanding = SumFunctionOnSet(BalanceTable, open)
      /\ CompanyProfile(Customers).total_spent = SumFunctionOnSet(AmountTable, settled)
  BY <1>1, EveryInvoiceIsOwned, ScreenSums DEF CompanyProfile
<1>8. InvoiceSummary.total_outstanding = SumFunctionOnSet(BalanceTable, open)
  <2>1. \A i \in open :
          /\ BalanceTable[i] \in Int
          /\ (IF Amount(i) > invoice[i].advance THEN Amount(i) - invoice[i].advance ELSE 0)
               = BalanceTable[i]
    BY <1>1, <1>2 DEF BalanceTable, BalanceDue, Amount
  <2>2. IsFiniteSet(open)
    BY <1>1, FS_Subset, IdsAssumption
  <2> HIDE DEF open
  <2>3. SumFunction([i \in open |-> IF Amount(i) > invoice[i].advance
                                    THEN Amount(i) - invoice[i].advance ELSE 0])
          = SumFunctionOnSet(BalanceTable, open)
    BY <2>1, <2>2, SumOfTable
  <2> QED
    BY <2>3 DEF InvoiceSummary, Sum, open
<1> QED
  BY <1>3, <1>6, <1>7, <1>8 DEF Sum

LEMMA CountsAgree ==
    ASSUME TypeOK
    PROVE  InvoiceSummary.all
             = InvoiceSummary.unpaid + InvoiceSummary.paid + InvoiceSummary.cancelled
<1> DEFINE U == With(AllInvoices, "pending")
           P == With(AllInvoices, "paid")
           C == With(AllInvoices, "cancelled")
<1>1. /\ IsFiniteSet(U) /\ IsFiniteSet(P) /\ IsFiniteSet(C) /\ IsFiniteSet(U \cup P)
  <2>1. U \in SUBSET Invoices /\ P \in SUBSET Invoices /\ C \in SUBSET Invoices
        /\ U \cup P \in SUBSET Invoices
    BY DEF With, AllInvoices
  <2> QED
    BY <2>1, FS_Subset, IdsAssumption
<1>2. \A i \in AllInvoices : invoice[i].status \in {"pending", "paid", "cancelled"}
  BY DEF TypeOK, InvoiceRow, AllInvoices
<1>3. AllInvoices = (U \cup P) \cup C
  BY <1>2 DEF With
<1>4. U \cap P = {} /\ (U \cup P) \cap C = {}
  BY DEF With
<1> HIDE DEF U, P, C
<1>5. Cardinality(U \cup P) = Cardinality(U) + Cardinality(P)
  BY <1>1, <1>4, CountOfParts
<1>6. Cardinality((U \cup P) \cup C) = Cardinality(U \cup P) + Cardinality(C)
  BY <1>1, <1>4, CountOfParts
<1>7. Cardinality(AllInvoices) = Cardinality(U) + Cardinality(P) + Cardinality(C)
  BY <1>3, <1>5, <1>6
<1> QED
  BY <1>7 DEF InvoiceSummary, U, P, C

(* Whichever screen is asked, and for whatever data: a customer owes the   *)
(* same, a part of a statement balances, and the customers' figures add up *)
(* to the shop's.                                                          *)
THEOREM ScreensAgree == BinSpec => []ViewsAgree
<1>1. TypeOK => ViewsAgree
  BY StatementAgrees, BadgeAgrees, ShopAgrees, CountsAgree DEF ViewsAgree
<1> QED
  BY <1>1, TypeCorrect, PTL

----------------------------------------------------------------------------
(* What the statements show as paid.  Where nobody forces a value, it is   *)
(* the advance of each invoice, which is its history, which is what was    *)
(* taken on it and its shares of every payment; and those shares, added up *)
(* by payment instead of by invoice, are what the payments show applied.   *)

Standings == AllInvoices \ With(AllInvoices, "cancelled")
ShareTable == [i \in Invoices |-> SharesOf(i)]
Reconcilable ==
    /\ TypeOK /\ AdvanceWithinAmount /\ HistoryMatchesAdvance /\ PaidMeansSettled
    /\ SharesInv /\ SharesAreTheRest /\ UnreceivedIsNowhere

LEMMA PaidIsReceived ==
    ASSUME Reconcilable, NEW i \in Standings
    PROVE  /\ i \in Invoices
           /\ PaidTable[i] = DirectTable[i] + RowSums(ShareTable, Standings, Payments)[i]
           /\ DirectTable[i] \in Int
           /\ RowSums(ShareTable, Standings, Payments)[i] \in Int
<1>1. /\ i \in Invoices /\ invoice[i] \in InvoiceRow
      /\ invoice[i].status \in {"pending", "paid"}
  BY DEF Standings, With, AllInvoices, Reconcilable, TypeOK, InvoiceRow
<1>2. PaidTable[i] = invoice[i].advance
  <2>1. invoice[i].advance <= invoice[i].amount
        /\ (invoice[i].status = "paid" => invoice[i].advance = invoice[i].amount)
    BY <1>1 DEF Reconcilable, AdvanceWithinAmount, PaidMeansSettled
  <2> QED
    BY <1>1, <2>1 DEF PaidTable, Paid, Amount, Balance, BalanceDue, InvoiceRow
<1>3. invoice[i].advance = invoice[i].history
  BY <1>1 DEF Reconcilable, HistoryMatchesAdvance
<1>4. invoice[i].history - invoice[i].direct = SumFunctionOnSet(SharesOf(i), Payments)
  BY <1>1 DEF Reconcilable, SharesAreTheRest, FromPayments
<1>5. SumFunctionOnSet(SharesOf(i), Payments) \in Nat
  BY <1>1, SharesAreNat DEF Reconcilable
<1>6. RowSums(ShareTable, Standings, Payments)[i] = SumFunctionOnSet(SharesOf(i), Payments)
  BY <1>1 DEF RowSums, ShareTable
<1>7. DirectTable[i] = invoice[i].direct /\ invoice[i].direct \in Int /\ invoice[i].history \in Int
  BY <1>1 DEF DirectTable, InvoiceRow
<1> QED
  BY <1>1, <1>2, <1>3, <1>4, <1>5, <1>6, <1>7

LEMMA AppliedIsHeld ==
    ASSUME Reconcilable, NEW p \in Payments
    PROVE  /\ ColumnSums(ShareTable, Standings, Payments)[p] \in Int
           /\ payment[p].place # "live" => ColumnSums(ShareTable, Standings, Payments)[p] = 0
           /\ SumFunction(Described(p).applied)
                = ColumnSums(ShareTable, Standings, Payments)[p]
<1> DEFINE col == Column(ShareTable, Standings, p)
           Held == {k \in Invoices : Live(k) /\ share[p][k] > 0}
<1>0. Standings \in SUBSET Invoices /\ IsFiniteSet(Standings)
  BY FS_Subset, IdsAssumption DEF Standings, AllInvoices
<1>1. \A i \in Standings : col[i] = share[p][i] /\ col[i] \in Nat
  BY <1>0 DEF Column, ShareTable, SharesOf, Reconcilable, TypeOK
<1>2. ColumnSums(ShareTable, Standings, Payments)[p] = SumFunctionOnSet(col, Standings)
  BY DEF ColumnSums
<1>3. SumFunctionOnSet(col, Standings) \in Nat
  BY <1>0, <1>1, SumIsNat
<1>4. payment[p].place # "live" => \A i \in Standings : col[i] = 0
  <2>1. payment[p].place \in {"unborn", "live", "bin"}
    BY DEF Reconcilable, TypeOK, PaymentRow, Places
  <2> QED
    BY <1>0, <1>1, <2>1 DEF Reconcilable, UnreceivedIsNowhere, SharesInv,
                       BinnedPaymentHoldsNothing, Standings, AllInvoices
<1>5. /\ Held \in SUBSET Standings /\ IsFiniteSet(Held)
      /\ \A i \in Held : col[i] \in Int /\ share[p][i] = col[i]
      /\ \A i \in Standings \ Held : col[i] = 0
  <2>1. \A i \in Held : invoice[i].status # "cancelled"
    BY DEF Reconcilable, SharesInv, VoidHoldsNothing
  <2>2. Held \in SUBSET Standings
    BY <2>1 DEF Standings, With, AllInvoices
  <2>3. \A i \in Standings \ Held : share[p][i] = 0
    BY <1>0 DEF Standings, AllInvoices, Reconcilable, TypeOK
  <2> HIDE DEF Held, col
  <2> QED
    BY <1>0, <1>1, <2>2, <2>3, FS_Subset
<1>6. Described(p).applied = [i \in Held |-> share[p][i]]
  BY DEF Described
<1> HIDE DEF col, Held
<1>7. SumFunctionOnSet(col, Standings) = SumFunctionOnSet(col, Held)
  BY <1>0, <1>5, SumOnPart
<1>8. SumFunction([i \in Held |-> share[p][i]]) = SumFunctionOnSet(col, Held)
  BY <1>5, SumOfTable
<1>9. payment[p].place # "live" => SumFunctionOnSet(col, Standings) = 0
  BY <1>0, <1>4, SumOfZeros
<1> QED
  BY <1>2, <1>3, <1>6, <1>7, <1>8, <1>9

LEMMA StatementsAddUp ==
    ASSUME TypeOK
    PROVE  Sum(Customers, LAMBDA c : Statement(c, Invoices).total_paid)
             = SumFunctionOnSet(PaidTable, Standings)
<1>1. \A c \in Customers : OnStatement(c) = {i \in Standings : CustomerTable[i] = c}
  <2> TAKE c \in Customers
  <2>1. OnStatement(c) = {i \in With(AllInvoices, "pending") \cup With(AllInvoices, "paid") :
                            CustomerTable[i] = c}
    BY CustomersPart DEF OnStatement
  <2>2. With(AllInvoices, "pending") \cup With(AllInvoices, "paid") = Standings
    BY DEF TypeOK, InvoiceRow, With, AllInvoices, Standings
  <2> QED
    BY <2>1, <2>2
<1>2. Standings \in SUBSET Invoices
  BY DEF Standings, AllInvoices
<1>3. \A i \in Invoices : PaidTable[i] \in Int
  BY TablesType
<1>4. \A c \in Customers : Statement(c, Invoices).total_paid
                             = SumFunctionOnSet(PaidTable, {i \in Standings : CustomerTable[i] = c})
  <2> TAKE c \in Customers
  <2>1. OnStatement(c) \cap Invoices = OnStatement(c) /\ OnStatement(c) \in SUBSET Invoices
    BY StatementRows
  <2>2. Statement(c, Invoices).total_paid = Sum(OnStatement(c), Paid)
    BY <2>1 DEF Statement
  <2>3. Sum(OnStatement(c), Paid) = SumFunctionOnSet(PaidTable, OnStatement(c))
    BY <2>1, ScreenSums
  <2> QED
    BY <1>1, <2>2, <2>3
<1>5. SumFunction([c \in Customers |-> Statement(c, Invoices).total_paid])
        = SumFunctionOnSet(PaidTable, Standings)
  BY <1>2, <1>3, <1>4, CustomersAddUp
<1> QED
  BY <1>5 DEF Sum

LEMMA EverythingReconciles == Reconcilable => StatementsReconcile
<1> SUFFICES ASSUME Reconcilable PROVE StatementsReconcile
  OBVIOUS
<1> DEFINE rows == RowSums(ShareTable, Standings, Payments)
           cols == ColumnSums(ShareTable, Standings, Payments)
           received == PaymentsOf(Customers)
<1>0. TypeOK
  BY DEF Reconcilable
<1>1. Standings \in SUBSET Invoices /\ IsFiniteSet(Standings) /\ IsFiniteSet(Payments)
  BY FS_Subset, IdsAssumption DEF Standings, AllInvoices
<1>2. SumFunctionOnSet(PaidTable, Standings)
        = SumFunctionOnSet(DirectTable, Standings) + SumFunctionOnSet(rows, Standings)
  <2>1. \A i \in Standings : /\ DirectTable[i] \in Int /\ rows[i] \in Int
                             /\ PaidTable[i] = DirectTable[i] + rows[i]
    BY PaidIsReceived
  <2> HIDE DEF rows
  <2> QED
    BY <1>1, <2>1, SumOfSums
<1>3. SumFunctionOnSet(rows, Standings) = SumFunctionOnSet(cols, Payments)
  <2>1. \A i \in Standings, p \in Payments : ShareTable[i][p] \in Int
    BY <1>0, <1>1 DEF ShareTable, SharesOf, TypeOK
  <2> QED
    BY <1>1, <2>1, SumByRowOrColumn
<1>4. received = {p \in Payments : payment[p].place = "live"}
  BY <1>0 DEF PaymentsOf, TypeOK, PaymentRow
<1>5. \A p \in Payments : /\ cols[p] \in Int
                          /\ payment[p].place # "live" => cols[p] = 0
                          /\ SumFunction(Described(p).applied) = cols[p]
  BY AppliedIsHeld
<1>6. received \in SUBSET Payments /\ IsFiniteSet(received)
  BY <1>1, <1>4, FS_Subset
<1> HIDE DEF rows, cols, received
<1>7. SumFunctionOnSet(cols, Payments) = SumFunctionOnSet(cols, received)
  <2>1. (\A p \in received : cols[p] \in Int) /\ \A p \in Payments \ received : cols[p] = 0
    BY <1>4, <1>5
  <2> QED
    BY <1>1, <1>6, <2>1, SumOnPart
<1>8. SumFunction([p \in received |-> SumFunction(Described(p).applied)])
        = SumFunctionOnSet(cols, received)
  BY <1>5, <1>6, SumOfTable
<1>9. Sum(Standings, LAMBDA i : invoice[i].direct) = SumFunctionOnSet(DirectTable, Standings)
  BY <1>0, <1>1, ScreenSums
<1>10. Sum(Customers, LAMBDA c : Statement(c, Invoices).total_paid)
         = Sum(Standings, LAMBDA i : invoice[i].direct)
           + SumFunction([p \in received |-> SumFunction(Described(p).applied)])
  BY <1>0, <1>2, <1>3, <1>7, <1>8, <1>9, StatementsAddUp
<1> QED
  BY <1>10 DEF StatementsReconcile, Sum, Standings, received

(* All that the statements show as paid was taken on an invoice itself or  *)
(* is listed under a payment, for any number of customers, invoices and    *)
(* payments, where no PATCH forces a money field or asks for "paid".       *)
THEOREM StatementsAreThePayments ==
    ASSUME AdvanceEdits = {}, RawAmounts = {}, "paid" \notin StatusEdits
    PROVE  BinSpec => []StatementsReconcile
<1>1. BinSpec => []Reconcilable
  BY TypeCorrect, NothingOverpaid, HistoryIsExact, PaidIsSettled, SharesAlways,
     LedgerIsItsShares, UnreceivedStays, PTL DEF Reconcilable
<1> QED
  BY <1>1, EverythingReconciles, PTL
=============================================================================
