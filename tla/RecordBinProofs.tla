--------------------------- MODULE RecordBinProofs ---------------------------
(***************************************************************************)
(* Nothing is lost on the way into the bin and out of it, for any number   *)
(* of records, bin items and requests.                                     *)
(*                                                                         *)
(* A reference is to a row of its parent's table, so the walk of a         *)
(* deletion finds everything the database would delete along; what comes   *)
(* under the record later is `late` (RequestOK).  A row that only one      *)
(* request at a time has held is where that request believes it is         *)
(* (BytesOK).                                                              *)
(***************************************************************************)
EXTENDS RecordBin, TLAPS

----------------------------------------------------------------------------
(* An item as a record of its own fields: what it holds is of SnapshotOK.  *)
Shape ==
    /\ RecordsTypeOK
    /\ item = [k \in Items |->
           [state |-> item[k].state, root |-> item[k].root,
            rows |-> item[k].rows, links |-> item[k].links]]
    /\ req = [t \in Requests |-> req[t]]

ParentsOK ==
    \A r \in Rows : up[r] # None => TableOf[up[r]] = ParentOf(TableOf[r])

(* What is captured of a record, and what is under it.                     *)
SnapshotOK(root, rows, links) ==
    /\ root \in DOMAIN rows /\ DOMAIN rows \subseteq born
    /\ \A r \in DOMAIN rows :
           rows[r] # None => rows[r] \in Rows /\ TableOf[rows[r]] = ParentOf(TableOf[r])
    /\ links \subseteq In("customers")
    /\ links # {} => TableOf[root] = "companies"
    /\ TableOf[root] = "customers" => DOMAIN rows \cap In("customer_payments") \subseteq late

ItemOK(k) ==
    /\ item[k].state \in {"unborn", "kept", "old", "gone"}
    /\ item[k].state # "unborn" => SnapshotOK(item[k].root, item[k].rows, item[k].links)

Erasing == [step : {"erasing"}, todo : SUBSET Items, dir : SUBSET Items, read : BOOLEAN]

RequestOK(q) ==
    /\ q.step \in {"idle", "checked", "staged", "opened", "erasing"}
    /\ q.step = "checked" =>
           /\ q.root \in In("customers") /\ q.swept \subseteq In("bills")
           /\ Below({"customer_payments"}, {q.root}) \subseteq late
    /\ q.step = "staged" =>
           /\ SnapshotOK(q.root, q.rows, q.links) /\ q.swept \subseteq In("bills")
           /\ Below(Cascades, DOMAIN q.rows) \subseteq DOMAIN q.rows \cup late
    /\ q.step = "opened" => q.item \in Items /\ item[q.item].state # "unborn"
    /\ q.step = "erasing" =>
           /\ q \in Erasing
           /\ \A k \in q.todo : item[k].state # "unborn"
           /\ \A k \in q.dir : item[k].state = "gone"

NothingLost ==
    \A r \in born :
        \/ r \in live
        \/ \E k \in Items : InBin(k) /\ r \in Snapshot(k)
        \/ r \in erased \cup swept \cup late

Untangled == In("job_requests") \ (crossed \cup late)

BytesOK(r) ==
    /\ r \in live => bytes[r] = "uploads"
    /\ \A k \in Items : InBin(k) /\ r \in Snapshot(k) => bytes[r] = k
    /\ \A t \in Requests :
           /\ req[t].step = "staged" /\ r \in DOMAIN req[t].rows => r \in live
           /\ req[t].step = "opened" /\ r \in Snapshot(req[t].item) => InBin(req[t].item)
           /\ req[t].step = "erasing" => \A k \in req[t].todo : r \in Snapshot(k) => InBin(k)
    /\ \A t, u \in Requests : t # u => r \notin Holds(req[t]) \/ r \notin Holds(req[u])

RecordInv ==
    /\ Shape /\ ParentsOK
    /\ \A k \in Items : ItemOK(k)
    /\ \A t \in Requests : RequestOK(req[t])
    /\ NothingLost
    /\ \A r \in Untangled : BytesOK(r)

----------------------------------------------------------------------------
LEMMA WhatIsHeld ==
    ASSUME NEW q
    PROVE  /\ q.step = "staged" => Holds(q) = DOMAIN q.rows
           /\ q.step = "opened" => Holds(q) = Snapshot(q.item)
           /\ q.step = "erasing" => \A r : r \in Holds(q) <=> \E k \in q.todo \cup q.dir : r \in Snapshot(k)
           /\ q.step \notin {"staged", "opened", "erasing"} => Holds(q) = {}
<1>1. CASE q.step = "staged"
  BY <1>1 DEF Holds
<1>2. CASE q.step = "opened"
  BY <1>2 DEF Holds
<1>3. CASE q.step = "erasing"
  BY <1>3 DEF Holds
<1>4. CASE q.step \notin {"staged", "opened", "erasing"}
  BY <1>4 DEF Holds
<1> QED
  BY <1>1, <1>2, <1>3, <1>4

LEMMA HeldElsewhere ==
    ASSUME NEW t, NEW r
    PROVE  r \in HeldByOthers(t) <=> \E u \in Requests \ {t} : r \in Holds(req[u])
  BY DEF HeldByOthers

LEMMA IdleHolds == Idle.step = "idle" /\ Holds(Idle) = {}
  BY DEF Idle, Holds

LEMMA RecordsStart == Init => RecordInv
<1> SUFFICES ASSUME Init PROVE RecordInv
  OBVIOUS
<1> USE DEF Init
<1>1. /\ \A k \in Items : item[k] = NoItem
      /\ \A t \in Requests : req[t] = Idle
      /\ NoItem.state = "unborn"
      /\ DOMAIN NoItem.rows = {}
  BY DEF NoItem
<1>2. Shape
  <2>1. RecordsTypeOK
    BY RecordBinAssumption DEF RecordsTypeOK
  <2> QED
    BY <2>1 DEF Shape, NoItem
<1>3. ParentsOK
  BY DEF ParentsOK
<1>4. \A k \in Items : ItemOK(k)
  BY <1>1 DEF ItemOK
<1>5. \A t \in Requests : RequestOK(req[t])
  BY <1>1, IdleHolds DEF RequestOK
<1>6. NothingLost
  BY DEF NothingLost
<1>7. \A r \in Untangled : BytesOK(r)
  BY <1>1, IdleHolds DEF BytesOK, InBin
<1> QED
  BY <1>2, <1>3, <1>4, <1>5, <1>6, <1>7 DEF RecordInv

(* A request goes on to `q` and nothing else changes, but for the rows it  *)
(* now holds at once with another.                                         *)
LEMMA TakingHold ==
    ASSUME RecordInv, NEW t \in Requests, NEW q, RequestOK(q),
           req' = [req EXCEPT ![t] = q],
           UNCHANGED <<live, up, bytes, item, born, erased, swept, late>>,
           crossed \subseteq crossed',
           Holds(q) \cap HeldByOthers(t) \subseteq crossed',
           q.step = "staged" => DOMAIN q.rows \subseteq live,
           q.step = "opened" => InBin(q.item),
           q.step = "erasing" => q.dir = {} /\ \A k \in q.todo : InBin(k)
    PROVE  RecordInv'
<1> USE DEF RecordInv
<1>1. \A s \in Requests : req'[s] = IF s = t THEN q ELSE req[s]
  BY DEF Shape
<1>2. Shape' /\ ParentsOK'
  BY DEF Shape, RecordsTypeOK, ParentsOK
<1>3. \A k \in Items : ItemOK(k)'
  BY DEF ItemOK, SnapshotOK
<1>4. ASSUME NEW s \in Requests PROVE RequestOK(req[s])'
  <2>1. RequestOK(req'[s])
    BY <1>1
  <2> QED
    BY <2>1 DEF RequestOK, SnapshotOK, Below
<1>5. NothingLost'
  BY DEF NothingLost, InBin, Snapshot
<1>6. ASSUME NEW r \in Untangled' PROVE BytesOK(r)'
  <2>1. r \in Untangled /\ r \notin crossed' /\ BytesOK(r)
    BY DEF Untangled
  <2>2. \A s \in Requests : Holds(req[s])' = Holds(req'[s])
    BY DEF Holds, Snapshot
  <2>3. \A s \in Requests : r \in Holds(req'[s]) => s = t \/ r \in Holds(req[s])
    BY <1>1
  <2>4. \A s \in Requests \ {t} : r \notin Holds(q) \/ r \notin Holds(req[s])
    BY <2>1, HeldElsewhere
  <2>5. \A s, u \in Requests : s # u => r \notin Holds(req[s])' \/ r \notin Holds(req[u])'
    BY <1>1, <2>1, <2>2, <2>3, <2>4 DEF BytesOK
  <2>6. ASSUME NEW s \in Requests
        PROVE  /\ req'[s].step = "staged" /\ r \in DOMAIN req'[s].rows => r \in live
               /\ req'[s].step = "opened" /\ r \in Snapshot(req'[s].item) => InBin(req'[s].item)
               /\ req'[s].step = "erasing" =>
                      \A k \in req'[s].todo : r \in Snapshot(k) => InBin(k)
    <3>1. CASE s = t
      BY <1>1, <3>1
    <3>2. CASE s # t
      BY <1>1, <2>1, <3>2 DEF BytesOK
    <3> QED
      BY <3>1, <3>2
  <2> QED
    BY <2>1, <2>5, <2>6 DEF BytesOK, InBin, Snapshot
<1> QED
  BY <1>2, <1>3, <1>4, <1>5, <1>6

(* The other requests are as right as they were, if what has come under    *)
(* the records they delete is late.                                        *)
LEMMA OthersKeep ==
    ASSUME NEW q, RequestOK(q),
           born \subseteq born', late \subseteq late',
           \A k \in Items : /\ item[k].state # "unborn" => item'[k].state # "unborn"
                            /\ item[k].state = "gone" => item'[k].state = "gone",
           \A x \in live' : TableOf[x] \in Cascades /\ up'[x] \in BeingDeleted(q) =>
               x \in late' \/ (x \in live /\ up[x] = up'[x])
    PROVE  RequestOK(q)'
<1>1. q.step = "checked" => BeingDeleted(q) = {q.root}
  BY DEF BeingDeleted
<1>2. q.step = "staged" => BeingDeleted(q) = DOMAIN q.rows
  BY DEF BeingDeleted
<1>3. q.step = "checked" => Below({"customer_payments"}, {q.root})' \subseteq late'
  BY <1>1 DEF RequestOK, Below, Cascades
<1>4. q.step = "staged" => Below(Cascades, DOMAIN q.rows)' \subseteq DOMAIN q.rows \cup late'
  BY <1>2 DEF RequestOK, Below
<1>5. q.step = "staged" => SnapshotOK(q.root, q.rows, q.links)'
  BY DEF RequestOK, SnapshotOK
<1>6. q.step = "erasing" => /\ \A k \in q.todo : item'[k].state # "unborn"
                            /\ \A k \in q.dir : item'[k].state = "gone"
  BY DEF RequestOK, Erasing
<1> QED
  BY <1>3, <1>4, <1>5, <1>6 DEF RequestOK

----------------------------------------------------------------------------
(* New rows come in. *)
LEMMA Inserting ==
    ASSUME RecordInv, NEW S \in SUBSET Rows, NEW parent, Insert(S, parent),
           \A r \in S :
               \/ parent[r] = None
               \/ parent[r] \in Rows /\ TableOf[parent[r]] = ParentOf(TableOf[r])
    PROVE  RecordInv'
<1> USE DEF RecordInv
<1>1. /\ S \cap born = {} /\ live' = live \cup S /\ born' = born \cup S
      /\ \A r \in Rows : up'[r] = IF r \in S THEN parent[r] ELSE up[r]
      /\ bytes' = [r \in Rows |-> IF r \in S \cap In("job_requests") THEN "uploads" ELSE bytes[r]]
      /\ up' \in [Rows -> Rows \cup {None}]
      /\ UNCHANGED <<item, req, erased, swept, crossed>>
  BY DEF Insert, Shape, RecordsTypeOK
<1>2. late' = late \cup {r \in S : \E u \in Requests \ {None} : up'[r] \in BeingDeleted(req[u])}
  BY DEF Insert, Arrives
<1>3. Requests \ {None} = Requests
  BY RecordBinAssumption
<1>4. Shape'
  BY <1>1 DEF Shape, RecordsTypeOK
<1>5. ParentsOK'
  BY <1>1 DEF ParentsOK
<1>6. \A k \in Items : ItemOK(k)'
  BY <1>1, <1>2 DEF ItemOK, SnapshotOK
<1>7. ASSUME NEW t \in Requests PROVE RequestOK(req[t])'
  <2>1. \A x \in live' : up'[x] \in BeingDeleted(req[t]) =>
            x \in late' \/ (x \in live /\ up[x] = up'[x])
    BY <1>1, <1>2, <1>3 DEF Shape, RecordsTypeOK
  <2>2. RequestOK(req[t])
    OBVIOUS
  <2> DEFINE q == req[t]
  <2>3. q' = q
    BY <1>1
  <2> HIDE DEF q
  <2>4. RequestOK(q)'
    BY <1>1, <1>2, <2>1, <2>2, <2>3, OthersKeep DEF q
  <2> QED
    BY <2>4 DEF q
<1>8. NothingLost'
  BY <1>1, <1>2 DEF NothingLost, InBin, Snapshot
<1>9. ASSUME NEW r \in Untangled' PROVE BytesOK(r)'
  <2>1. r \in Untangled /\ BytesOK(r) /\ r \in Rows /\ r \in In("job_requests")
    BY <1>1, <1>2 DEF Untangled, In
  <2>2. \A t \in Requests : Holds(req[t])' = Holds(req[t])
    BY <1>1 DEF Holds, Snapshot
  <2>3. CASE r \in S
    <3>1. r \notin born /\ bytes'[r] = "uploads"
      BY <1>1, <2>1, <2>3
    <3>2. \A k \in Items : InBin(k) => r \notin Snapshot(k)
      BY <3>1 DEF ItemOK, SnapshotOK, InBin, Snapshot
    <3> QED
      BY <1>1, <2>1, <2>2, <3>1, <3>2 DEF BytesOK, InBin, Snapshot
  <2>4. CASE r \notin S
    <3>1. bytes'[r] = bytes[r] /\ (r \in live' <=> r \in live)
      BY <1>1, <2>1, <2>4
    <3> QED
      BY <1>1, <2>1, <2>2, <3>1 DEF BytesOK, InBin, Snapshot
  <2> QED
    BY <2>3, <2>4
<1> QED
  BY <1>4, <1>5, <1>6, <1>7, <1>8, <1>9

LEMMA Working ==
    ASSUME RecordInv,
           \/ \E r \in Rows : Create(r)
           \/ \E b, i \in Rows : CreateBill(b, i)
           \/ \E c \in Rows, company \in Rows \cup {None} : UpdateCustomer(c, company)
    PROVE  RecordInv'
<1>0. live \subseteq Rows
  BY DEF RecordInv, Shape, RecordsTypeOK
<1>1. ASSUME NEW r \in Rows, Create(r) PROVE RecordInv'
  <2>1. PICK p \in live \cup {None} :
            /\ p # None => TableOf[p] = ParentOf(TableOf[r])
            /\ Insert({r}, [x \in {r} |-> p])
    BY <1>1 DEF Create
  <2> DEFINE parent == [x \in {r} |-> p]
  <2>2. parent[r] = p
    OBVIOUS
  <2> HIDE DEF parent
  <2> QED
    BY <1>0, <2>1, <2>2, Inserting DEF parent
<1>2. ASSUME NEW b \in Rows, NEW i \in Rows, CreateBill(b, i) PROVE RecordInv'
  <2>1. PICK c \in live \cap In("customers") :
            Insert({b, i}, [x \in {b, i} |-> IF x = b THEN c ELSE b])
    BY <1>2 DEF CreateBill
  <2>2. TableOf[b] = "bills" /\ TableOf[i] = "invoices" /\ TableOf[c] = "customers"
    BY <1>2 DEF CreateBill, In
  <2>3. ParentOf("bills") = "customers" /\ ParentOf("invoices") = "bills"
    BY DEF ParentOf
  <2> DEFINE parent == [x \in {b, i} |-> IF x = b THEN c ELSE b]
  <2>4. parent[b] = c /\ parent[i] = b
    BY <2>2
  <2> HIDE DEF parent
  <2> QED
    BY <1>0, <2>1, <2>2, <2>3, <2>4, Inserting DEF parent
<1>3. ASSUME NEW c \in Rows, NEW company \in Rows \cup {None}, UpdateCustomer(c, company)
      PROVE  RecordInv'
  <2> USE DEF RecordInv
  <2>1. /\ TableOf[c] = "customers"
        /\ company # None => company \in Rows /\ TableOf[company] = "companies"
        /\ up' = [up EXCEPT ![c] = company]
        /\ UNCHANGED <<live, bytes, item, req, history>>
    BY <1>3 DEF UpdateCustomer, In
  <2>2. /\ \A x \in Rows : up'[x] = IF x = c THEN company ELSE up[x]
        /\ up' \in [Rows -> Rows \cup {None}]
        /\ UNCHANGED <<born, erased, swept, late, crossed>>
    BY <2>1 DEF Shape, RecordsTypeOK, history
  <2>3. Shape'
    BY <2>1, <2>2 DEF Shape, RecordsTypeOK
  <2>4. ParentsOK'
    <3>1. ParentOf("customers") = "companies"
      BY DEF ParentOf
    <3> QED
      BY <2>1, <2>2, <3>1 DEF ParentsOK
  <2>5. \A k \in Items : ItemOK(k)'
    BY <2>1, <2>2 DEF ItemOK, SnapshotOK
  <2>6. ASSUME NEW t \in Requests PROVE RequestOK(req[t])'
    <3>1. \A x \in live' : TableOf[x] \in Cascades => x \in live /\ up[x] = up'[x]
      BY <1>0, <2>1, <2>2 DEF Cascades
    <3>2. RequestOK(req[t])
      OBVIOUS
    <3> DEFINE q == req[t]
    <3>3. q' = q
      BY <2>1
    <3> HIDE DEF q
    <3>4. RequestOK(q)'
      BY <2>1, <2>2, <3>1, <3>2, <3>3, OthersKeep DEF q
    <3> QED
      BY <3>4 DEF q
  <2>7. NothingLost'
    BY <2>1, <2>2 DEF NothingLost, InBin, Snapshot
  <2>8. \A r \in Untangled' : BytesOK(r)'
    BY <2>1, <2>2 DEF Untangled, BytesOK, InBin, Snapshot, Holds
  <2> QED
    BY <2>3, <2>4, <2>5, <2>6, <2>7, <2>8
<1> QED
  BY <1>1, <1>2, <1>3

----------------------------------------------------------------------------
(* Deleting: what a walk finds is of SnapshotOK, and nothing that would be *)
(* deleted along is left out of it.                                        *)
LEMMA Walking ==
    ASSUME RecordInv, NEW r \in live,
           TableOf[r] = "customers" => Below({"customer_payments"}, {r}) \subseteq late
    PROVE  /\ SnapshotOK(r, [x \in Belonging(r) |-> up[x]], Below(Unlinks, Belonging(r)))
           /\ Below(Cascades, Belonging(r)) \subseteq Belonging(r)
           /\ Belonging(r) \subseteq live
<1> USE DEF RecordInv
<1> DEFINE own == Belonging(r)
<1>1. live \subseteq born /\ live \subseteq Rows /\ None \notin Rows
  BY RecordBinAssumption DEF Shape, RecordsTypeOK
<1>2. own \subseteq live /\ r \in own
  BY DEF Belonging, Below
<1>3. \A x \in own : x = r \/ (TableOf[x] \in Cascades /\ up[x] = r)
  BY DEF Belonging, Below
<1>4. \A x \in Below(Cascades, own) : up[x] = r
  <2> SUFFICES ASSUME NEW x \in Below(Cascades, own) PROVE up[x] = r
    OBVIOUS
  <2>1. x \in live /\ TableOf[x] \in Cascades /\ up[x] \in own
    BY DEF Below
  <2>2. TableOf[up[x]] = "customers"
    BY <1>1, <1>2, <2>1 DEF ParentsOK, ParentOf, Cascades
  <2> QED
    BY <1>3, <2>1, <2>2 DEF Cascades
<1>5. Below(Cascades, own) \subseteq own
  BY <1>4 DEF Belonging, Below
<1>6. \A x \in Below(Unlinks, own) : x \in In("customers") /\ up[x] = r /\ TableOf[r] = "companies"
  <2> SUFFICES ASSUME NEW x \in Below(Unlinks, own)
               PROVE  x \in In("customers") /\ up[x] = r /\ TableOf[r] = "companies"
    OBVIOUS
  <2>1. x \in live /\ TableOf[x] = "customers" /\ up[x] \in own
    BY DEF Below, Unlinks
  <2>2. TableOf[up[x]] = "companies"
    BY <1>1, <1>2, <2>1 DEF ParentsOK, ParentOf
  <2> QED
    BY <1>1, <1>3, <2>1, <2>2 DEF Cascades, In
<1>7. \A x \in own : up[x] # None => up[x] \in Rows /\ TableOf[up[x]] = ParentOf(TableOf[x])
  BY <1>1, <1>2 DEF ParentsOK, Shape, RecordsTypeOK
<1>8. TableOf[r] = "customers" => own \cap In("customer_payments") \subseteq late
  BY <1>1, <1>3 DEF Below, Belonging, In
<1> DEFINE rows == [x \in own |-> up[x]]
<1>9. DOMAIN rows = own /\ \A x \in own : rows[x] = up[x]
  OBVIOUS
<1> HIDE DEF own, rows
<1>10. SnapshotOK(r, rows, Below(Unlinks, own))
  BY <1>1, <1>2, <1>6, <1>7, <1>8, <1>9 DEF SnapshotOK
<1> QED
  BY <1>2, <1>5, <1>10 DEF own, rows

LEMMA Capturing ==
    ASSUME RecordInv, NEW t \in Requests, NEW r, NEW gone, Capture(t, r, gone),
           gone \subseteq In("bills"),
           TableOf[r] = "customers" => Below({"customer_payments"}, {r}) \subseteq late
    PROVE  RecordInv'
<1>1. /\ r \in live
      /\ crossed' = crossed \cup (Belonging(r) \cap HeldByOthers(t))
      /\ UNCHANGED <<live, up, bytes, item, born, erased, swept, late>>
  BY DEF Capture
<1>2. CASE req' = [req EXCEPT ![t] = Idle]
  <2>1. RequestOK(Idle)
    BY IdleHolds DEF RequestOK
  <2> QED
    BY <1>1, <1>2, <2>1, IdleHolds, TakingHold
<1>3. CASE req' = [req EXCEPT ![t] = [step |-> "staged", root |-> r, swept |-> gone,
                      rows |-> [x \in Belonging(r) |-> up[x]],
                      links |-> Below(Unlinks, Belonging(r))]]
  <2> DEFINE q == [step |-> "staged", root |-> r, swept |-> gone,
                   rows |-> [x \in Belonging(r) |-> up[x]],
                   links |-> Below(Unlinks, Belonging(r))]
  <2>1. /\ q.step = "staged" /\ q.root = r /\ q.swept = gone
        /\ q.rows = [x \in Belonging(r) |-> up[x]] /\ q.links = Below(Unlinks, Belonging(r))
        /\ DOMAIN q.rows = Belonging(r)
    OBVIOUS
  <2>2. req' = [req EXCEPT ![t] = q]
    BY <1>3
  <2> HIDE DEF q
  <2>3. /\ SnapshotOK(q.root, q.rows, q.links)
        /\ Below(Cascades, DOMAIN q.rows) \subseteq DOMAIN q.rows
        /\ DOMAIN q.rows \subseteq live
    BY <1>1, <2>1, Walking
  <2>4. RequestOK(q)
    BY <2>1, <2>3 DEF RequestOK
  <2>5. Holds(q) = Belonging(r)
    BY <2>1, WhatIsHeld
  <2> QED
    BY <1>1, <2>1, <2>2, <2>3, <2>4, <2>5, TakingHold
<1> QED
  BY <1>2, <1>3 DEF Capture

(* A request gives up, and nothing else changes. *)
LEMMA GivingUp ==
    ASSUME RecordInv, NEW t \in Requests, req' = [req EXCEPT ![t] = Idle],
           UNCHANGED <<live, up, bytes, item, history>>
    PROVE  RecordInv'
<1>1. RequestOK(Idle)
  BY IdleHolds DEF RequestOK
<1> QED
  BY <1>1, IdleHolds, TakingHold DEF history

LEMMA Deleting ==
    ASSUME RecordInv, NEW t \in Requests,
           \/ \E r \in Rows : DeleteCustomer(t, r) \/ Delete(t, r)
           \/ CaptureCustomer(t) \/ CustomerGone(t)
    PROVE  RecordInv'
<1>1. ASSUME NEW r \in Rows, DeleteCustomer(t, r) PROVE RecordInv'
  <2> DEFINE empty == {b \in Below({"bills"}, {r}) : Below({"invoices"}, {b}) = {}}
             q == [step |-> "checked", root |-> r, swept |-> empty]
  <2>1. /\ r \in In("customers") /\ Below({"customer_payments"}, {r}) = {}
        /\ req' = [req EXCEPT ![t] = q]
        /\ UNCHANGED <<live, up, bytes, item, history>>
    BY <1>1 DEF DeleteCustomer
  <2>2. empty \subseteq In("bills")
    BY DEF Below, In, RecordInv, Shape, RecordsTypeOK
  <2>3. q.step = "checked" /\ q.root = r /\ q.swept \subseteq In("bills")
    BY <2>2
  <2> HIDE DEF q
  <2>4. RequestOK(q)
    BY <2>1, <2>3 DEF RequestOK
  <2>5. Holds(q) = {}
    BY <2>3, WhatIsHeld
  <2> QED
    BY <2>1, <2>3, <2>4, <2>5, TakingHold DEF history
<1>2. ASSUME NEW r \in Rows, Delete(t, r) PROVE RecordInv'
  <2>1. Capture(t, r, {}) /\ TableOf[r] # "customers"
    BY <1>2 DEF Delete
  <2> QED
    BY <2>1, Capturing
<1>3. CASE CaptureCustomer(t)
  <2>1. Capture(t, req[t].root, req[t].swept) /\ req[t].step = "checked"
    BY <1>3 DEF CaptureCustomer
  <2>2. /\ Below({"customer_payments"}, {req[t].root}) \subseteq late
        /\ req[t].swept \subseteq In("bills")
    BY <2>1 DEF RecordInv, RequestOK
  <2> QED
    BY <2>1, <2>2, Capturing
<1>4. CASE CustomerGone(t)
  BY <1>4, GivingUp DEF CustomerGone
<1> QED
  BY <1>1, <1>2, <1>3, <1>4

----------------------------------------------------------------------------
(* The rows go and the item comes: what dies with them and is not in the   *)
(* item came late.                                                         *)
LEMMA Removing ==
    ASSUME RecordInv, NEW t \in Requests, NEW k \in Items, Remove(t, k)
    PROVE  RecordInv'
<1> USE DEF RecordInv
<1> DEFINE q == req[t]
           own == DOMAIN q.rows
           rest == live \ q.swept
           dead == own \cup (Below(Cascades, own) \cap rest)
           refused == \E r \in Below(Restricts, dead) \cap rest : r \notin dead
<1>0. /\ q.step = "staged" /\ item[k].state = "unborn"
      /\ req' = [req EXCEPT ![t] = Idle]
  BY DEF Remove
<1>1. CASE refused
  <2>1. UNCHANGED <<live, up, bytes, item, history>>
    BY <1>1 DEF Remove
  <2> QED
    BY <1>0, <2>1, GivingUp
<1>2. CASE ~refused
  <2> DEFINE new == [state |-> "kept", root |-> q.root, rows |-> q.rows, links |-> q.links]
  <2>1. /\ live' = rest \ dead
        /\ up' = [r \in Rows |->
                      IF r \in q.links \cup Below(Unlinks, dead) THEN None ELSE up[r]]
        /\ bytes' = Renamed(own, k)
        /\ item' = [item EXCEPT ![k] = new]
        /\ swept' = swept \cup q.swept
        /\ UNCHANGED <<born, erased, late, crossed>>
    BY <1>2 DEF Remove
  <2>2. /\ SnapshotOK(q.root, q.rows, q.links) /\ q.swept \subseteq In("bills")
        /\ Below(Cascades, own) \subseteq own \cup late
    BY <1>0 DEF RequestOK
  <2>3. own \subseteq Rows /\ dead \subseteq own \cup late /\ own \subseteq dead
    BY <2>2 DEF SnapshotOK, Shape, RecordsTypeOK
  <2> HIDE DEF dead, refused
  <2>4. /\ new.state = "kept" /\ new.root = q.root /\ new.rows = q.rows /\ new.links = q.links
    OBVIOUS
  <2> HIDE DEF new
  <2>5. \A j \in Items : item'[j] = IF j = k THEN new ELSE item[j]
    BY <2>1 DEF Shape, RecordsTypeOK
  <2>6. \A s \in Requests : req'[s] = IF s = t THEN Idle ELSE req[s]
    BY <1>0 DEF Shape, RecordsTypeOK
  <2>7. \A r \in Rows : /\ up'[r] = None \/ up'[r] = up[r]
                        /\ bytes'[r] = IF r \in own /\ bytes[r] = "uploads" THEN k ELSE bytes[r]
    BY <2>1 DEF Renamed
  <2>8. Shape'
    <3>1. live' \subseteq born' /\ born' \subseteq Rows
      BY <2>1 DEF Shape, RecordsTypeOK
    <3>2. up' \in [Rows -> Rows \cup {None}]
      BY <2>1 DEF Shape, RecordsTypeOK
    <3>3. bytes' \in [Rows -> {"none", "uploads", "gone"} \cup Items]
      BY <2>1 DEF Shape, RecordsTypeOK, Renamed
    <3>4. DOMAIN item' = Items /\ DOMAIN req' = Requests
      BY <1>0, <2>1 DEF Shape, RecordsTypeOK
    <3>5. req' = [s \in Requests |-> req'[s]]
      BY <1>0, <3>4 DEF Shape, RecordsTypeOK
    <3>6. new = [state |-> new.state, root |-> new.root, rows |-> new.rows, links |-> new.links]
      BY DEF new
    <3>7. \A j \in Items : item[j] = [state |-> item[j].state, root |-> item[j].root,
                                      rows |-> item[j].rows, links |-> item[j].links]
      BY DEF Shape
    <3>8. \A j \in Items : item'[j] = [state |-> item'[j].state, root |-> item'[j].root,
                                       rows |-> item'[j].rows, links |-> item'[j].links]
      BY <2>5, <3>6, <3>7
    <3>9. item' = [j \in Items |-> item'[j]]
      BY <2>1, <3>4 DEF Shape, RecordsTypeOK
    <3>10. item' = [j \in Items |-> [state |-> item'[j].state, root |-> item'[j].root,
                                     rows |-> item'[j].rows, links |-> item'[j].links]]
      BY <3>8, <3>9
    <3>11. RecordsTypeOK'
      BY <3>1, <3>2, <3>3, <3>4 DEF RecordsTypeOK
    <3> QED
      BY <3>5, <3>10, <3>11 DEF Shape
  <2>9. ParentsOK'
    BY <2>7 DEF ParentsOK
  <2>10. ASSUME NEW j \in Items PROVE ItemOK(j)'
    BY <2>1, <2>2, <2>4, <2>5 DEF ItemOK, SnapshotOK
  <2>11. /\ \A j \in Items : /\ item[j].state # "unborn" => item'[j] = item[j]
                             /\ item[j].state = "unborn" => item'[j].state # "gone"
         /\ item'[k].state = "kept"
    <3>1. \A j \in Items : ItemOK(j)
      OBVIOUS
    <3> QED
      BY <1>0, <2>4, <2>5, <3>1 DEF ItemOK
  <2>12. ASSUME NEW s \in Requests PROVE RequestOK(req[s])'
    <3>1. CASE s = t
      <4>1. req'[s].step = "idle"
        BY <2>6, <3>1, IdleHolds
      <4> QED
        BY <4>1 DEF RequestOK
    <3>2. CASE s # t
      <4>1. RequestOK(req[s])
        OBVIOUS
      <4>2. BeingDeleted(req[s]) \subseteq Rows
        BY <4>1 DEF BeingDeleted, RequestOK, SnapshotOK, In, Shape, RecordsTypeOK
      <4>3. live \subseteq Rows /\ live' \subseteq live /\ None \notin Rows
        BY <2>1, RecordBinAssumption DEF Shape, RecordsTypeOK
      <4>4. \A x \in live' : up'[x] \in BeingDeleted(req[s]) => x \in live /\ up[x] = up'[x]
        BY <2>7, <4>2, <4>3
      <4> DEFINE p == req[s]
      <4>5. p' = p
        BY <2>6, <3>2
      <4> HIDE DEF p
      <4>6. RequestOK(p)'
        BY <2>1, <2>11, <4>1, <4>4, <4>5, OthersKeep DEF p
      <4> QED
        BY <4>6 DEF p
    <3> QED
      BY <3>1, <3>2
  <2>13. NothingLost'
    <3> SUFFICES ASSUME NEW r \in born'
                 PROVE  \/ r \in live'
                        \/ \E j \in Items : InBin(j)' /\ r \in Snapshot(j)'
                        \/ r \in erased' \cup swept' \cup late'
      BY DEF NothingLost
    <3>1. InBin(k)' /\ Snapshot(k)' = own
      BY <2>4, <2>5 DEF InBin, Snapshot
    <3>2. CASE r \in live
      BY <2>1, <2>3, <3>1, <3>2
    <3>3. ASSUME NEW j \in Items, InBin(j), r \in Snapshot(j)
          PROVE  InBin(j)' /\ r \in Snapshot(j)'
      BY <2>11, <3>3 DEF InBin, Snapshot
    <3> QED
      BY <2>1, <3>2, <3>3 DEF NothingLost
  <2>14. ASSUME NEW r \in Untangled' PROVE BytesOK(r)'
    <3>1. /\ BytesOK(r) /\ r \in Rows /\ r \notin late /\ r \notin q.swept
          /\ "uploads" \notin Items
      BY <2>1, <2>2, RecordBinAssumption DEF Untangled, In
    <3>2. r \in own => r \in live /\ bytes[r] = "uploads"
      BY <1>0, <3>1 DEF BytesOK
    <3>3. r \in live' <=> r \in live /\ r \notin own
      BY <2>1, <2>3, <3>1
    <3>4. r \in live' => bytes'[r] = "uploads"
      BY <2>7, <3>1, <3>3 DEF BytesOK
    <3>5. ASSUME NEW j \in Items, InBin(j)', r \in Snapshot(j)' PROVE bytes'[r] = j
      <4>1. CASE j = k
        <5>1. r \in own
          BY <2>4, <2>5, <3>5, <4>1 DEF Snapshot
        <5> QED
          BY <2>7, <3>1, <3>2, <4>1, <5>1
      <4>2. CASE j # k
        <5>1. InBin(j) /\ r \in Snapshot(j)
          BY <2>5, <3>5, <4>2 DEF InBin, Snapshot
        <5>2. bytes[r] = j
          BY <3>1, <5>1 DEF BytesOK
        <5> QED
          BY <2>7, <3>1, <3>2, <5>2
      <4> QED
        BY <4>1, <4>2
    <3>6. ASSUME NEW s \in Requests PROVE Holds(req[s])' = IF s = t THEN {} ELSE Holds(req[s])
      <4>1. CASE s = t
        <5>1. req'[s].step = "idle"
          BY <2>6, <4>1, IdleHolds
        <5> QED
          BY <4>1, <5>1 DEF Holds
      <4>2. CASE s # t
        <5>1. req'[s] = req[s] /\ RequestOK(req[s])
          BY <2>6, <4>2
        <5>2. req[s].step = "opened" => Snapshot(req[s].item)' = Snapshot(req[s].item)
          BY <2>11, <5>1 DEF RequestOK, Snapshot
        <5>3. req[s].step = "erasing" =>
                  \A j \in req[s].todo \cup req[s].dir : Snapshot(j)' = Snapshot(j)
          BY <2>11, <5>1 DEF RequestOK, Snapshot, Erasing
        <5>4. CASE req[s].step = "erasing"
          BY <4>2, <5>1, <5>3, <5>4 DEF Holds
        <5>5. CASE req[s].step # "erasing"
          BY <4>2, <5>1, <5>2, <5>5 DEF Holds
        <5> QED
          BY <5>4, <5>5
      <4> QED
        BY <4>1, <4>2
    <3>7. ASSUME NEW s \in Requests
          PROVE  /\ (req[s].step = "staged" /\ r \in DOMAIN req[s].rows => r \in live)'
                 /\ (req[s].step = "opened" /\ r \in Snapshot(req[s].item) => InBin(req[s].item))'
                 /\ (req[s].step = "erasing" =>
                        \A j \in req[s].todo : r \in Snapshot(j) => InBin(j))'
      <4>1. CASE s = t
        BY <2>6, <4>1, IdleHolds
      <4>2. CASE s # t
        <5>1. req'[s] = req[s] /\ RequestOK(req[s])
          BY <2>6, <4>2
        <5>2. ASSUME req[s].step = "staged", r \in DOMAIN req[s].rows PROVE r \in live'
          <6>1. r \in live /\ r \in Holds(req[s])
            BY <3>1, <5>2, WhatIsHeld DEF BytesOK
          <6>2. own = Holds(q)
            BY <1>0, WhatIsHeld
          <6> QED
            BY <3>1, <3>3, <4>2, <6>1, <6>2 DEF BytesOK
        <5>3. ASSUME req[s].step = "opened", r \in Snapshot(req[s].item)'
              PROVE  InBin(req[s].item)'
          BY <2>11, <3>1, <5>1, <5>3 DEF RequestOK, BytesOK, InBin, Snapshot
        <5>4. ASSUME req[s].step = "erasing", NEW j \in req[s].todo, r \in Snapshot(j)'
              PROVE  InBin(j)'
          <6>1. j \in Items /\ item[j].state # "unborn"
            BY <5>1, <5>4 DEF RequestOK, Erasing
          <6> QED
            BY <2>11, <3>1, <5>4, <6>1 DEF BytesOK, InBin, Snapshot
        <5> QED
          BY <5>1, <5>2, <5>3, <5>4
      <4> QED
        BY <4>1, <4>2
    <3>8. \A s, u \in Requests : s # u => r \notin Holds(req[s])' \/ r \notin Holds(req[u])'
      BY <3>1, <3>6 DEF BytesOK
    <3> QED
      BY <3>4, <3>5, <3>7, <3>8 DEF BytesOK
  <2> QED
    BY <2>8, <2>9, <2>10, <2>12, <2>13, <2>14
<1> QED
  BY <1>1, <1>2

----------------------------------------------------------------------------
(* An item is marked: what it holds stays. *)
LEMMA Marking ==
    ASSUME Shape, NEW k \in Items, NEW s, item' = [item EXCEPT ![k].state = s]
    PROVE  /\ \A j \in Items : /\ item'[j].state = IF j = k THEN s ELSE item[j].state
                               /\ item'[j].rows = item[j].rows
                               /\ item'[j].root = item[j].root
                               /\ item'[j].links = item[j].links
           /\ \A j \in Items : Snapshot(j)' = Snapshot(j)
           /\ DOMAIN item' = Items
           /\ item' = [j \in Items |->
                  [state |-> item'[j].state, root |-> item'[j].root,
                   rows |-> item'[j].rows, links |-> item'[j].links]]
<1>1. DOMAIN item = Items
  BY DEF Shape, RecordsTypeOK
<1>2. item[k] = [state |-> item[k].state, root |-> item[k].root,
                 rows |-> item[k].rows, links |-> item[k].links]
  BY DEF Shape
<1>3. item' = [item EXCEPT ![k] = [item[k] EXCEPT !.state = s]]
  OBVIOUS
<1>4. [item[k] EXCEPT !.state = s] = [state |-> s, root |-> item[k].root,
                                      rows |-> item[k].rows, links |-> item[k].links]
  BY <1>2
<1>5. item' = [item EXCEPT ![k] = [state |-> s, root |-> item[k].root,
                                   rows |-> item[k].rows, links |-> item[k].links]]
  BY <1>3, <1>4
<1>6. \A j \in Items : /\ item'[j].state = IF j = k THEN s ELSE item[j].state
                       /\ item'[j].rows = item[j].rows
                       /\ item'[j].root = item[j].root
                       /\ item'[j].links = item[j].links
  <2>1. \A j \in Items \ {k} : item'[j] = item[j]
    BY <1>1, <1>5
  <2>2. item'[k] = [state |-> s, root |-> item[k].root,
                    rows |-> item[k].rows, links |-> item[k].links]
    BY <1>1, <1>5
  <2>3. /\ item'[k].state = s /\ item'[k].root = item[k].root
        /\ item'[k].rows = item[k].rows /\ item'[k].links = item[k].links
    BY <2>2
  <2> QED
    BY <2>1, <2>3
<1>7. \A j \in Items : item'[j] = [state |-> item'[j].state, root |-> item'[j].root,
                                   rows |-> item'[j].rows, links |-> item'[j].links]
  <2> SUFFICES ASSUME NEW j \in Items
               PROVE  item'[j] = [state |-> item'[j].state, root |-> item'[j].root,
                                  rows |-> item'[j].rows, links |-> item'[j].links]
    OBVIOUS
  <2>1. CASE j = k
    BY <1>1, <1>5, <2>1
  <2>2. CASE j # k
    <3>1. item'[j] = item[j]
      BY <1>1, <1>5, <2>2
    <3>2. item[j] = [state |-> item[j].state, root |-> item[j].root,
                     rows |-> item[j].rows, links |-> item[j].links]
      BY DEF Shape
    <3> QED
      BY <3>1, <3>2
  <2> QED
    BY <2>1, <2>2
<1>8. DOMAIN item' = Items /\ item' = [j \in Items |-> item'[j]]
  BY <1>1, <1>5
<1> QED
  BY <1>6, <1>7, <1>8 DEF Snapshot

LEMMA Expiring ==
    ASSUME RecordInv, NEW k \in Items, Expire(k)
    PROVE  RecordInv'
<1> USE DEF RecordInv
<1>1. /\ item[k].state = "kept" /\ item' = [item EXCEPT ![k].state = "old"]
      /\ UNCHANGED <<live, up, bytes, req, history>>
  BY DEF Expire
<1>2. /\ \A j \in Items : /\ item'[j].state = IF j = k THEN "old" ELSE item[j].state
                          /\ item'[j].rows = item[j].rows
                          /\ item'[j].root = item[j].root
                          /\ item'[j].links = item[j].links
      /\ \A j \in Items : Snapshot(j)' = Snapshot(j)
      /\ DOMAIN item' = Items
      /\ item' = [j \in Items |->
             [state |-> item'[j].state, root |-> item'[j].root,
              rows |-> item'[j].rows, links |-> item'[j].links]]
  BY <1>1, Marking
<1>3. UNCHANGED <<born, erased, swept, late, crossed>>
  BY <1>1 DEF history
<1>4. \A j \in Items : InBin(j)' <=> InBin(j)
  BY <1>1, <1>2 DEF InBin
<1>5. Shape' /\ ParentsOK'
  <2>1. RecordsTypeOK' /\ ParentsOK'
    BY <1>1, <1>2, <1>3 DEF Shape, RecordsTypeOK, ParentsOK
  <2>2. req' = [t \in Requests |-> req'[t]]
    BY <1>1 DEF Shape
  <2> QED
    BY <1>2, <2>1, <2>2 DEF Shape
<1>6. \A j \in Items : ItemOK(j)'
  BY <1>1, <1>2, <1>3 DEF ItemOK, SnapshotOK
<1>7. ASSUME NEW t \in Requests PROVE RequestOK(req[t])'
  <2>1. RequestOK(req[t]) /\ \A x \in live' : x \in live /\ up[x] = up'[x]
    BY <1>1
  <2>2. \A j \in Items : /\ item[j].state # "unborn" => item'[j].state # "unborn"
                         /\ item[j].state = "gone" => item'[j].state = "gone"
    BY <1>1, <1>2
  <2> DEFINE q == req[t]
  <2>3. q' = q
    BY <1>1
  <2> HIDE DEF q
  <2>4. RequestOK(q)'
    BY <1>3, <2>1, <2>2, <2>3, OthersKeep DEF q
  <2> QED
    BY <2>4 DEF q
<1>8. NothingLost'
  BY <1>1, <1>2, <1>3, <1>4 DEF NothingLost
<1>9. ASSUME NEW r \in Untangled' PROVE BytesOK(r)'
  <2>1. BytesOK(r)
    BY <1>3, <1>9 DEF Untangled
  <2>2. ASSUME NEW t \in Requests
        PROVE  /\ Holds(req[t])' = Holds(req[t])
               /\ req[t].step = "opened" => req[t].item \in Items
               /\ req[t].step = "erasing" => req[t].todo \subseteq Items /\ req[t].dir \subseteq Items
    <3>1. /\ req[t].step = "opened" => req[t].item \in Items
          /\ req[t].step = "erasing" => req[t].todo \subseteq Items /\ req[t].dir \subseteq Items
      BY DEF RequestOK, Erasing
    <3>2. req'[t] = req[t]
      BY <1>1
    <3>3. CASE req[t].step = "erasing"
      BY <1>2, <3>1, <3>2, <3>3 DEF Holds
    <3>4. CASE req[t].step # "erasing"
      BY <1>2, <3>1, <3>2, <3>4 DEF Holds
    <3> QED
      BY <3>1, <3>3, <3>4
  <2>3. ASSUME NEW t \in Requests
        PROVE  /\ (req[t].step = "staged" /\ r \in DOMAIN req[t].rows => r \in live)'
               /\ (req[t].step = "opened" /\ r \in Snapshot(req[t].item) => InBin(req[t].item))'
               /\ (req[t].step = "erasing" =>
                      \A j \in req[t].todo : r \in Snapshot(j) => InBin(j))'
    BY <1>1, <1>2, <1>4, <2>1, <2>2 DEF BytesOK, InBin, Snapshot
  <2> QED
    BY <1>1, <1>2, <1>4, <2>1, <2>2, <2>3 DEF BytesOK
<1> QED
  BY <1>5, <1>6, <1>7, <1>8, <1>9

(* An erase goes on: the next item is dropped from the bin. *)
LEMMA Dropping ==
    ASSUME RecordInv, NEW t \in Requests, NEW k \in Items, DropNext(t, k)
    PROVE  RecordInv'
<1> USE DEF RecordInv
<1>0. /\ req[t].step = "erasing" /\ req[t].dir = {} /\ k \in req[t].todo
      /\ UNCHANGED <<live, up, bytes, born, swept, late, crossed>>
  BY DEF DropNext
<1>1. CASE ~(InBin(k) \/ req[t].read)
  <2>1. req' = [req EXCEPT ![t] = Idle] /\ UNCHANGED <<item, erased>>
    BY <1>1 DEF DropNext
  <2> QED
    BY <1>0, <2>1, GivingUp DEF history
<1>2. CASE InBin(k) \/ req[t].read
  <2> DEFINE q == Loop(req[t].todo \ {k}, {k}, FALSE)
  <2>1. /\ req' = [req EXCEPT ![t] = q]
        /\ item' = [item EXCEPT ![k].state = "gone"]
        /\ erased' = erased \cup (IF InBin(k) THEN Snapshot(k) ELSE {})
    BY <1>2 DEF DropNext
  <2>2. /\ \A j \in Items : /\ item'[j].state = IF j = k THEN "gone" ELSE item[j].state
                            /\ item'[j].rows = item[j].rows
                            /\ item'[j].root = item[j].root
                            /\ item'[j].links = item[j].links
        /\ \A j \in Items : Snapshot(j)' = Snapshot(j)
        /\ DOMAIN item' = Items
        /\ item' = [j \in Items |->
               [state |-> item'[j].state, root |-> item'[j].root,
                rows |-> item'[j].rows, links |-> item'[j].links]]
    BY <2>1, Marking
  <2>3. \A j \in Items : InBin(j)' <=> (InBin(j) /\ j # k)
    BY <2>2 DEF InBin
  <2>4. req[t] \in Erasing /\ item[k].state # "unborn"
    BY <1>0 DEF RequestOK
  <2>5. /\ q.step = "erasing" /\ q.todo = req[t].todo \ {k} /\ q.dir = {k} /\ q \in Erasing
    BY <2>4 DEF Erasing, Loop
  <2> HIDE DEF q
  <2>6. \A s \in Requests : req'[s] = IF s = t THEN q ELSE req[s]
    BY <2>1 DEF Shape, RecordsTypeOK
  <2>7. Shape' /\ ParentsOK'
    <3>1. DOMAIN req' = Requests /\ req' = [s \in Requests |-> req'[s]]
      BY <2>1 DEF Shape, RecordsTypeOK
    <3>2. RecordsTypeOK' /\ ParentsOK'
      BY <1>0, <2>2, <3>1 DEF Shape, RecordsTypeOK, ParentsOK
    <3> QED
      BY <2>2, <3>1, <3>2 DEF Shape
  <2>8. \A j \in Items : ItemOK(j)'
    BY <1>0, <2>2, <2>4 DEF ItemOK, SnapshotOK
  <2>9. ASSUME NEW s \in Requests PROVE RequestOK(req[s])'
    <3>1. \A j \in Items : /\ item[j].state # "unborn" => item'[j].state # "unborn"
                           /\ item[j].state = "gone" => item'[j].state = "gone"
      BY <2>2
    <3>2. CASE s = t
      <4>1. req'[s] = q
        BY <2>6, <3>2
      <4>2. /\ \A j \in q.todo : item'[j].state # "unborn"
            /\ \A j \in q.dir : item'[j].state = "gone"
        <5>1. req[t].todo \subseteq Items /\ \A j \in req[t].todo : item[j].state # "unborn"
          BY <1>0, <2>4 DEF RequestOK, Erasing
        <5> QED
          BY <2>2, <2>5, <3>1, <5>1
      <4> QED
        BY <2>5, <4>1, <4>2 DEF RequestOK
    <3>3. CASE s # t
      <4>1. RequestOK(req[s]) /\ \A x \in live' : x \in live /\ up[x] = up'[x]
        BY <1>0
      <4> DEFINE p == req[s]
      <4>2. p' = p
        BY <2>6, <3>3
      <4> HIDE DEF p
      <4>3. RequestOK(p)'
        BY <1>0, <3>1, <4>1, <4>2, OthersKeep DEF p
      <4> QED
        BY <4>3 DEF p
    <3> QED
      BY <3>2, <3>3
  <2>10. NothingLost'
    BY <1>0, <2>1, <2>2, <2>3 DEF NothingLost
  <2>11. ASSUME NEW r \in Untangled' PROVE BytesOK(r)'
    <3>1. BytesOK(r)
      BY <1>0, <2>11 DEF Untangled
    <3>2. ASSUME NEW s \in Requests
          PROVE  /\ r \in Holds(req[s])' => r \in Holds(req[s])
                 /\ req[s].step = "opened" => req[s].item \in Items
                 /\ req[s].step = "erasing" => req[s].todo \subseteq Items /\ req[s].dir \subseteq Items
      <4>1. /\ req[s].step = "opened" => req[s].item \in Items
            /\ req[s].step = "erasing" => req[s].todo \subseteq Items /\ req[s].dir \subseteq Items
        BY DEF RequestOK, Erasing
      <4>2. CASE s = t
        <5>1. req'[s] = q
          BY <2>6, <4>2
        <5>2. Holds(req[s])' = UNION {Snapshot(j)' : j \in q.todo \cup q.dir}
          BY <2>5, <5>1 DEF Holds
        <5> QED
          BY <1>0, <2>2, <2>5, <4>1, <4>2, <5>2, WhatIsHeld
      <4>3. ASSUME s # t, req[s].step = "erasing" PROVE r \in Holds(req[s])' => r \in Holds(req[s])
        BY <2>2, <2>6, <4>1, <4>3 DEF Holds
      <4>4. ASSUME s # t, req[s].step # "erasing" PROVE r \in Holds(req[s])' => r \in Holds(req[s])
        BY <2>2, <2>6, <4>1, <4>4 DEF Holds
      <4> QED
        BY <4>1, <4>2, <4>3, <4>4
    <3>3. ASSUME NEW s \in Requests
          PROVE  /\ (req[s].step = "staged" /\ r \in DOMAIN req[s].rows => r \in live)'
                 /\ (req[s].step = "opened" /\ r \in Snapshot(req[s].item) => InBin(req[s].item))'
                 /\ (req[s].step = "erasing" =>
                        \A j \in req[s].todo : r \in Snapshot(j) => InBin(j))'
      <4>1. CASE s = t
        BY <1>0, <2>2, <2>3, <2>5, <2>6, <3>1, <3>2, <4>1 DEF BytesOK, InBin, Snapshot
      <4>2. CASE s # t
        <5>1. req'[s] = req[s]
          BY <2>6, <4>2
        <5>2. r \in Holds(req[t]) <=> \E j \in req[t].todo : r \in Snapshot(j)
          BY <1>0, WhatIsHeld
        <5>3. ASSUME r \in Snapshot(k) PROVE r \notin Holds(req[s])
          BY <1>0, <3>1, <4>2, <5>2, <5>3 DEF BytesOK
        <5>4. ASSUME req[s].step = "opened", r \in Snapshot(req[s].item) PROVE req[s].item # k
          BY <5>3, <5>4, WhatIsHeld
        <5>5. ASSUME req[s].step = "erasing", NEW j \in req[s].todo, r \in Snapshot(j) PROVE j # k
          BY <5>3, <5>5, WhatIsHeld
        <5> QED
          BY <1>0, <2>2, <2>3, <3>1, <3>2, <5>1, <5>4, <5>5 DEF BytesOK, InBin, Snapshot
      <4> QED
        BY <4>1, <4>2
    <3> QED
      BY <1>0, <2>2, <2>3, <3>1, <3>2, <3>3 DEF BytesOK
  <2> QED
    BY <2>7, <2>8, <2>9, <2>10, <2>11
<1> QED
  BY <1>1, <1>2

----------------------------------------------------------------------------
(* A restore puts the rows back: they come under whatever is being deleted *)
(* late, and no other request holds the item of an untangled row.          *)
LEMMA Restoring ==
    ASSUME RecordInv, NEW t \in Requests, PutBack(t)
    PROVE  RecordInv'
<1> USE DEF RecordInv
<1> DEFINE k == req[t].item
           rows == Snapshot(k)
<1>0. /\ req[t].step = "opened" /\ k \in Items /\ item[k].state # "unborn"
      /\ req' = [req EXCEPT ![t] = Idle]
  BY DEF PutBack, RequestOK
<1>1. CASE Refused(k)
  <2>1. UNCHANGED <<live, up, bytes, item, history>>
    BY <1>1 DEF PutBack
  <2> QED
    BY <1>0, <2>1, GivingUp
<1>2. CASE ~Refused(k)
  <2>1. /\ live' = live \cup rows
        /\ up' = [r \in Rows |->
                      IF r \in Missing(k) THEN None
                      ELSE IF r \in rows THEN item[k].rows[r]
                      ELSE IF r \in item[k].links \cap live /\ up[r] = None THEN item[k].root
                      ELSE up[r]]
        /\ bytes' = MovedBack(k)
        /\ item' = [item EXCEPT ![k].state = "gone"]
        /\ Arrives(t, rows)
        /\ UNCHANGED <<born, erased, swept, crossed>>
    BY <1>2 DEF PutBack
  <2>2. SnapshotOK(item[k].root, item[k].rows, item[k].links)
    BY <1>0 DEF ItemOK
  <2>3. rows \subseteq born /\ rows \subseteq Rows /\ item[k].root \in rows
        /\ rows = DOMAIN item[k].rows
    BY <2>2 DEF SnapshotOK, Snapshot, Shape, RecordsTypeOK
  <2>4. /\ \A j \in Items : /\ item'[j].state = IF j = k THEN "gone" ELSE item[j].state
                            /\ item'[j].rows = item[j].rows
                            /\ item'[j].root = item[j].root
                            /\ item'[j].links = item[j].links
        /\ \A j \in Items : Snapshot(j)' = Snapshot(j)
        /\ DOMAIN item' = Items
        /\ item' = [j \in Items |->
               [state |-> item'[j].state, root |-> item'[j].root,
                rows |-> item'[j].rows, links |-> item'[j].links]]
    BY <1>0, <2>1, Marking
  <2>5. \A j \in Items : InBin(j)' <=> (InBin(j) /\ j # k)
    BY <2>4 DEF InBin
  <2> HIDE DEF k, rows
  <2>6. \A s \in Requests : req'[s] = IF s = t THEN Idle ELSE req[s]
    BY <1>0 DEF Shape, RecordsTypeOK
  <2>7. \A r \in Rows :
            /\ r \in rows => up'[r] = None \/ up'[r] = item[k].rows[r]
            /\ r \notin rows => \/ up'[r] = up[r] \/ up'[r] = None
                                \/ r \in item[k].links /\ up'[r] = item[k].root
            /\ r \notin rows \cup item[k].links => up'[r] = up[r]
            /\ bytes'[r] = IF r \in rows /\ bytes[r] = k THEN "uploads" ELSE bytes[r]
    BY <2>1 DEF MovedBack, Missing, rows
  <2>8. /\ late \subseteq late'
        /\ \A r \in rows : \A s \in Requests \ {t} :
               up'[r] \in BeingDeleted(req[s]) => r \in late'
    BY <2>1 DEF Arrives
  <2>9. Shape'
    <3>1. live' \subseteq born' /\ born' \subseteq Rows
      BY <2>1, <2>3 DEF Shape, RecordsTypeOK
    <3>2. up' \in [Rows -> Rows \cup {None}]
      <4>1. \A r \in rows : item[k].rows[r] \in Rows \cup {None}
        BY <2>2, <2>3 DEF SnapshotOK
      <4>2. \A r \in Rows : up'[r] \in Rows \cup {None}
        BY <2>3, <2>7, <4>1 DEF Shape, RecordsTypeOK
      <4> QED
        BY <2>1, <4>2
    <3>3. bytes' \in [Rows -> {"none", "uploads", "gone"} \cup Items]
      BY <2>1 DEF Shape, RecordsTypeOK, MovedBack
    <3>4. DOMAIN req' = Requests /\ req' = [s \in Requests |-> req'[s]]
      BY <1>0 DEF Shape, RecordsTypeOK
    <3>5. RecordsTypeOK'
      BY <2>4, <3>1, <3>2, <3>3, <3>4 DEF RecordsTypeOK
    <3> QED
      BY <2>4, <3>4, <3>5 DEF Shape
  <2>10. ParentsOK'
    <3> SUFFICES ASSUME NEW r \in Rows, up'[r] # None
                 PROVE  TableOf[up'[r]] = ParentOf(TableOf[r])
      BY DEF ParentsOK
    <3>1. CASE r \in rows
      BY <2>2, <2>3, <2>7, <3>1 DEF SnapshotOK
    <3>2. CASE r \notin rows /\ up'[r] = up[r]
      BY <3>2 DEF ParentsOK
    <3>3. CASE r \in item[k].links /\ up'[r] = item[k].root
      BY <2>2, <3>3 DEF SnapshotOK, ParentOf, In
    <3> QED
      BY <2>7, <3>1, <3>2, <3>3
  <2>11. \A j \in Items : ItemOK(j)'
    BY <1>0, <2>1, <2>2, <2>4, <2>8 DEF ItemOK, SnapshotOK
  <2>12. ASSUME NEW s \in Requests PROVE RequestOK(req[s])'
    <3>1. CASE s = t
      <4>1. req'[s].step = "idle"
        BY <2>6, <3>1, IdleHolds
      <4> QED
        BY <4>1 DEF RequestOK
    <3>2. CASE s # t
      <4>1. RequestOK(req[s])
        OBVIOUS
      <4>2. live \subseteq Rows /\ live' \subseteq Rows
        BY <2>1, <2>3 DEF Shape, RecordsTypeOK
      <4>3. \A x \in item[k].links : TableOf[x] \notin Cascades
        BY <2>2 DEF SnapshotOK, In, Cascades
      <4>4. \A x \in live' : TableOf[x] \in Cascades /\ up'[x] \in BeingDeleted(req[s]) =>
                x \in late' \/ (x \in live /\ up[x] = up'[x])
        BY <2>1, <2>7, <2>8, <3>2, <4>2, <4>3
      <4>5. \A j \in Items : /\ item[j].state # "unborn" => item'[j].state # "unborn"
                             /\ item[j].state = "gone" => item'[j].state = "gone"
        BY <1>0, <2>4
      <4> DEFINE p == req[s]
      <4>6. p' = p
        BY <2>6, <3>2
      <4> HIDE DEF p
      <4>7. RequestOK(p)'
        BY <2>1, <2>8, <4>1, <4>4, <4>5, <4>6, OthersKeep DEF p
      <4> QED
        BY <4>7 DEF p
    <3> QED
      BY <3>1, <3>2
  <2>13. NothingLost'
    BY <2>1, <2>4, <2>5, <2>8 DEF NothingLost, rows
  <2>14. ASSUME NEW r \in Untangled' PROVE BytesOK(r)'
    <3>1. BytesOK(r) /\ r \in Rows /\ "uploads" \notin Items
      BY <2>1, <2>8, RecordBinAssumption DEF Untangled, In
    <3>2. r \in rows => /\ InBin(k) /\ bytes[r] = k /\ r \in Holds(req[t])
                        /\ \A s \in Requests \ {t} : r \notin Holds(req[s])
      <4>1. Holds(req[t]) = rows
        BY <1>0, WhatIsHeld DEF k, rows
      <4>2. r \in rows => InBin(k) /\ bytes[r] = k
        BY <1>0, <3>1 DEF BytesOK, k, rows
      <4> QED
        BY <3>1, <4>1, <4>2 DEF BytesOK
    <3>3. r \in live' => bytes'[r] = "uploads"
      BY <2>1, <2>7, <3>1, <3>2 DEF BytesOK
    <3>4. ASSUME NEW j \in Items, InBin(j)', r \in Snapshot(j)' PROVE bytes'[r] = j
      <4>1. InBin(j) /\ j # k /\ r \in Snapshot(j)
        BY <2>4, <2>5, <3>4
      <4>2. bytes[r] = j
        BY <3>1, <4>1 DEF BytesOK
      <4> QED
        BY <2>7, <3>1, <3>2, <4>1, <4>2
    <3>5. ASSUME NEW s \in Requests
          PROVE  /\ r \in Holds(req[s])' => s # t /\ r \in Holds(req[s])
                 /\ req[s].step = "opened" => req[s].item \in Items
                 /\ req[s].step = "erasing" => req[s].todo \subseteq Items /\ req[s].dir \subseteq Items
      <4>1. /\ req[s].step = "opened" => req[s].item \in Items
            /\ req[s].step = "erasing" => req[s].todo \subseteq Items /\ req[s].dir \subseteq Items
        BY DEF RequestOK, Erasing
      <4>2. CASE s = t
        <5>1. req'[s].step = "idle"
          BY <2>6, <4>2, IdleHolds
        <5> QED
          BY <4>1, <5>1 DEF Holds
      <4>3. ASSUME s # t, req[s].step = "erasing" PROVE r \in Holds(req[s])' => r \in Holds(req[s])
        BY <2>4, <2>6, <4>1, <4>3 DEF Holds
      <4>4. ASSUME s # t, req[s].step # "erasing" PROVE r \in Holds(req[s])' => r \in Holds(req[s])
        BY <2>4, <2>6, <4>1, <4>4 DEF Holds
      <4> QED
        BY <4>1, <4>2, <4>3, <4>4
    <3>6. ASSUME NEW s \in Requests
          PROVE  /\ (req[s].step = "staged" /\ r \in DOMAIN req[s].rows => r \in live)'
                 /\ (req[s].step = "opened" /\ r \in Snapshot(req[s].item) => InBin(req[s].item))'
                 /\ (req[s].step = "erasing" =>
                        \A j \in req[s].todo : r \in Snapshot(j) => InBin(j))'
      <4>1. CASE s = t
        BY <2>6, <4>1, IdleHolds
      <4>2. CASE s # t
        <5>1. req'[s] = req[s]
          BY <2>6, <4>2
        <5>2. ASSUME req[s].step = "opened", r \in Snapshot(req[s].item) PROVE req[s].item # k
          BY <3>2, <4>2, <5>2, WhatIsHeld DEF rows
        <5>3. ASSUME req[s].step = "erasing", NEW j \in req[s].todo, r \in Snapshot(j) PROVE j # k
          BY <3>2, <4>2, <5>3, WhatIsHeld DEF rows
        <5> QED
          BY <2>1, <2>4, <2>5, <3>1, <3>5, <5>1, <5>2, <5>3 DEF BytesOK, InBin, Snapshot
      <4> QED
        BY <4>1, <4>2
    <3> QED
      BY <3>1, <3>3, <3>4, <3>5, <3>6 DEF BytesOK
  <2> QED
    BY <2>9, <2>10, <2>11, <2>12, <2>13, <2>14
<1> QED
  BY <1>1, <1>2

----------------------------------------------------------------------------
LEMMA Opening ==
    ASSUME RecordInv, NEW t \in Requests, NEW k \in Items,
           Open(t, k) \/ EraseItem(t, k) \/ EmptyBin(t) \/ EraseExpired(t)
    PROVE  RecordInv'
<1>1. CASE Open(t, k)
  <2> DEFINE q == [step |-> "opened", item |-> k]
  <2>1. q.step = "opened" /\ q.item = k
    OBVIOUS
  <2>2. /\ InBin(k) /\ req' = [req EXCEPT ![t] = q]
        /\ crossed' = crossed \cup (Snapshot(k) \cap HeldByOthers(t))
        /\ UNCHANGED <<live, up, bytes, item, born, erased, swept, late>>
    BY <1>1 DEF Open
  <2> HIDE DEF q
  <2>3. RequestOK(q) /\ Holds(q) = Snapshot(k)
    BY <2>1, <2>2, WhatIsHeld DEF RequestOK, InBin
  <2> QED
    BY <2>1, <2>2, <2>3, TakingHold
<1>2. ASSUME NEW S \in SUBSET Items, StartErasing(t, S), \A j \in S : InBin(j)
      PROVE  RecordInv'
  <2> DEFINE q == Loop(S, {}, TRUE)
  <2>1. q.step = "erasing" /\ q.todo = S /\ q.dir = {} /\ q \in Erasing
    BY DEF Loop, Erasing
  <2>2. /\ req' = [req EXCEPT ![t] = q]
        /\ UNCHANGED <<live, up, bytes, item, born, erased, swept, late>>
    BY <1>2 DEF StartErasing
  <2>3. \A r : r \in crossed' <=>
            \/ r \in crossed
            \/ (\E j \in S : r \in Snapshot(j)) /\ r \in HeldByOthers(t)
    BY <1>2 DEF StartErasing
  <2> HIDE DEF q
  <2>4. RequestOK(q)
    BY <1>2, <2>1 DEF RequestOK, InBin
  <2>5. \A r : r \in Holds(q) <=> \E j \in S : r \in Snapshot(j)
    BY <2>1, WhatIsHeld
  <2>6. crossed \subseteq crossed' /\ Holds(q) \cap HeldByOthers(t) \subseteq crossed'
    BY <2>3, <2>5
  <2>7. /\ q.step # "staged" /\ q.step # "opened"
        /\ q.dir = {} /\ \A j \in q.todo : InBin(j)
    BY <1>2, <2>1
  <2> QED
    BY <2>2, <2>4, <2>6, <2>7, TakingHold
<1>3. CASE EraseItem(t, k)
  BY <1>2, <1>3 DEF EraseItem
<1>4. CASE EmptyBin(t)
  BY <1>2, <1>4 DEF EmptyBin
<1>5. CASE EraseExpired(t)
  BY <1>2, <1>5 DEF EraseExpired, InBin
<1> QED
  BY <1>1, <1>3, <1>4, <1>5

(* The directory goes last: whatever it held is gone from the bin. *)
LEMMA Clearing ==
    ASSUME RecordInv, NEW t \in Requests, RemoveDirectory(t)
    PROVE  RecordInv'
<1> USE DEF RecordInv
<1> DEFINE q == IF req[t].todo = {} THEN Idle ELSE [req[t] EXCEPT !.dir = {}]
<1>1. /\ req[t].step = "erasing"
      /\ bytes' = [r \in Rows |-> IF bytes[r] \in req[t].dir THEN "gone" ELSE bytes[r]]
      /\ req' = [req EXCEPT ![t] = q]
      /\ UNCHANGED <<live, up, item, history>>
  BY DEF RemoveDirectory, Shape, RecordsTypeOK
<1>2. /\ req[t] \in Erasing
      /\ \A j \in req[t].todo : item[j].state # "unborn"
      /\ \A j \in req[t].dir : item[j].state = "gone"
  BY <1>1 DEF RequestOK
<1>3. \/ q = Idle
      \/ q \in Erasing /\ q.step = "erasing" /\ q.todo = req[t].todo /\ q.dir = {}
  BY <1>2 DEF Erasing
<1> HIDE DEF q
<1>4. \A s \in Requests : req'[s] = IF s = t THEN q ELSE req[s]
  BY <1>1 DEF Shape, RecordsTypeOK
<1>5. UNCHANGED <<born, erased, swept, late, crossed>>
  BY <1>1 DEF history
<1>6. Shape' /\ ParentsOK'
  <2>1. req' = [s \in Requests |-> req'[s]] /\ DOMAIN req' = Requests
    BY <1>1 DEF Shape, RecordsTypeOK
  <2>2. bytes' \in [Rows -> {"none", "uploads", "gone"} \cup Items]
    BY <1>1 DEF Shape, RecordsTypeOK
  <2>3. RecordsTypeOK' /\ ParentsOK'
    BY <1>1, <1>5, <2>1, <2>2 DEF Shape, RecordsTypeOK, ParentsOK
  <2> QED
    BY <1>1, <2>1, <2>3 DEF Shape
<1>7. \A j \in Items : ItemOK(j)' /\ Snapshot(j)' = Snapshot(j) /\ (InBin(j)' <=> InBin(j))
  BY <1>1, <1>5 DEF ItemOK, SnapshotOK, InBin, Snapshot
<1>8. ASSUME NEW s \in Requests PROVE RequestOK(req[s])'
  <2>1. CASE s = t /\ q = Idle
    <3>1. req'[s].step = "idle"
      BY <1>4, <2>1, IdleHolds
    <3> QED
      BY <3>1 DEF RequestOK
  <2>2. CASE s = t /\ q # Idle
    <3>1. req'[s] = q
      BY <1>4, <2>2
    <3> QED
      BY <1>1, <1>2, <1>3, <2>2, <3>1 DEF RequestOK
  <2>3. CASE s # t
    <3>1. RequestOK(req[s]) /\ \A x \in live' : x \in live /\ up[x] = up'[x]
      BY <1>1
    <3> DEFINE p == req[s]
    <3>2. p' = p
      BY <1>4, <2>3
    <3> HIDE DEF p
    <3>3. RequestOK(p)'
      BY <1>1, <1>5, <3>1, <3>2, OthersKeep DEF p
    <3> QED
      BY <3>3 DEF p
  <2> QED
    BY <2>1, <2>2, <2>3
<1>9. NothingLost'
  BY <1>1, <1>5, <1>7 DEF NothingLost
<1>10. ASSUME NEW r \in Untangled' PROVE BytesOK(r)'
  <2>1. BytesOK(r) /\ r \in Rows /\ "uploads" \notin Items
    BY <1>5, RecordBinAssumption DEF Untangled, In
  <2>2. req[t].dir \subseteq Items
    BY <1>2 DEF Erasing
  <2>3. r \in live' => bytes'[r] = "uploads"
    BY <1>1, <2>1, <2>2 DEF BytesOK
  <2>4. ASSUME NEW j \in Items, InBin(j)', r \in Snapshot(j)' PROVE bytes'[r] = j
    <3>1. InBin(j) /\ r \in Snapshot(j) /\ j \notin req[t].dir
      BY <1>2, <1>7, <2>4 DEF InBin
    <3> QED
      BY <1>1, <2>1, <3>1 DEF BytesOK
  <2>5. ASSUME NEW s \in Requests
        PROVE  /\ r \in Holds(req[s])' => r \in Holds(req[s])
               /\ req[s].step = "opened" => req[s].item \in Items
               /\ req[s].step = "erasing" => req[s].todo \subseteq Items /\ req[s].dir \subseteq Items
    <3>1. /\ req[s].step = "opened" => req[s].item \in Items
          /\ req[s].step = "erasing" => req[s].todo \subseteq Items /\ req[s].dir \subseteq Items
      BY DEF RequestOK, Erasing
    <3>2. CASE s = t
      <4>1. CASE q = Idle
        <5>1. req'[s].step = "idle"
          BY <1>4, <3>2, <4>1, IdleHolds
        <5> QED
          BY <3>1, <5>1 DEF Holds
      <4>2. CASE q # Idle
        <5>1. req'[s].step = "erasing" /\ req'[s].todo = req[t].todo /\ req'[s].dir = {}
          BY <1>3, <1>4, <3>2, <4>2
        <5>2. Holds(req[s])' = UNION {Snapshot(j)' : j \in req[t].todo}
          BY <5>1 DEF Holds
        <5> QED
          BY <1>1, <1>7, <3>1, <3>2, <5>2, WhatIsHeld
      <4> QED
        BY <4>1, <4>2
    <3>3. ASSUME s # t, req[s].step = "erasing" PROVE r \in Holds(req[s])' => r \in Holds(req[s])
      BY <1>4, <1>7, <3>1, <3>3 DEF Holds
    <3>4. ASSUME s # t, req[s].step # "erasing" PROVE r \in Holds(req[s])' => r \in Holds(req[s])
      BY <1>4, <1>7, <3>1, <3>4 DEF Holds
    <3> QED
      BY <3>1, <3>2, <3>3, <3>4
  <2>6. ASSUME NEW s \in Requests
        PROVE  /\ (req[s].step = "staged" /\ r \in DOMAIN req[s].rows => r \in live)'
               /\ (req[s].step = "opened" /\ r \in Snapshot(req[s].item) => InBin(req[s].item))'
               /\ (req[s].step = "erasing" =>
                      \A j \in req[s].todo : r \in Snapshot(j) => InBin(j))'
    <3>1. CASE s = t /\ q = Idle
      BY <1>4, <3>1, IdleHolds
    <3>2. CASE s = t /\ q # Idle
      <4>1. req'[s].step = "erasing" /\ req'[s].todo = req[t].todo
        BY <1>3, <1>4, <3>2
      <4> QED
        BY <1>1, <1>7, <2>1, <2>5, <4>1 DEF BytesOK
    <3>3. CASE s # t
      <4>1. req'[s] = req[s]
        BY <1>4, <3>3
      <4> QED
        BY <1>1, <1>7, <2>1, <2>5, <4>1 DEF BytesOK
    <3> QED
      BY <3>1, <3>2, <3>3
  <2> QED
    BY <2>1, <2>3, <2>4, <2>5, <2>6 DEF BytesOK
<1> QED
  BY <1>6, <1>7, <1>8, <1>9, <1>10

----------------------------------------------------------------------------
LEMMA RecordsStep == RecordInv /\ [Next]_vars => RecordInv'
<1> SUFFICES ASSUME RecordInv, [Next]_vars PROVE RecordInv'
  OBVIOUS
<1>1. CASE UNCHANGED vars
  <2>1. Shape' /\ ParentsOK'
    BY <1>1 DEF vars, RecordInv, Shape, RecordsTypeOK, ParentsOK
  <2>2. \A k \in Items : ItemOK(k)'
    BY <1>1 DEF vars, RecordInv, ItemOK, SnapshotOK
  <2>3. \A t \in Requests : RequestOK(req[t])'
    BY <1>1 DEF vars, RecordInv, RequestOK, SnapshotOK, Below
  <2>4. NothingLost'
    BY <1>1 DEF vars, RecordInv, NothingLost, InBin, Snapshot
  <2>5. \A t \in Requests : Holds(req[t])' = Holds(req[t])
    BY <1>1 DEF vars, Holds, Snapshot
  <2>6. \A r \in Untangled' : BytesOK(r)'
    BY <1>1, <2>5 DEF vars, RecordInv, Untangled, BytesOK, InBin, Snapshot
  <2> QED
    BY <2>1, <2>2, <2>3, <2>4, <2>6 DEF RecordInv
<1>2. CASE \/ \E r \in Rows : Create(r)
           \/ \E b, i \in Rows : CreateBill(b, i)
           \/ \E c \in Rows, company \in Rows \cup {None} : UpdateCustomer(c, company)
  BY <1>2, Working
<1>3. ASSUME NEW k \in Items, Expire(k) PROVE RecordInv'
  BY <1>3, Expiring
<1>4. ASSUME NEW t \in Requests,
             \/ \E r \in Rows : DeleteCustomer(t, r) \/ Delete(t, r)
             \/ CaptureCustomer(t) \/ CustomerGone(t)
      PROVE  RecordInv'
  BY <1>4, Deleting
<1>5. ASSUME NEW t \in Requests, PutBack(t) PROVE RecordInv'
  BY <1>5, Restoring
<1>6. ASSUME NEW t \in Requests, NEW k \in Items, Remove(t, k) PROVE RecordInv'
  BY <1>6, Removing
<1>7. ASSUME NEW t \in Requests, NEW k \in Items, Open(t, k) \/ EraseItem(t, k) PROVE RecordInv'
  BY <1>7, Opening
<1>8. ASSUME NEW t \in Requests, NEW k \in Items, DropNext(t, k) PROVE RecordInv'
  BY <1>8, Dropping
<1>9. ASSUME NEW t \in Requests, EmptyBin(t) \/ EraseExpired(t) PROVE RecordInv'
  <2>1. PICK k \in Items : TRUE
    BY <1>9 DEF EmptyBin, EraseExpired, StartErasing
  <2> QED
    BY <1>9, <2>1, Opening
<1>10. ASSUME NEW t \in Requests, RemoveDirectory(t) PROVE RecordInv'
  BY <1>10, Clearing
<1> QED
  BY <1>1, <1>2, <1>3, <1>4, <1>5, <1>6, <1>7, <1>8, <1>9, <1>10 DEF Next

LEMMA RecordsHold == Spec => []RecordInv
BY RecordsStart, RecordsStep, PTL DEF Spec

(* Nothing is lost, for any number of records, items and requests at once: *)
(* a row is in its table or in an item that is in the bin, unless it was   *)
(* erased, swept with its customer or came under a record being deleted.   *)
THEOREM NothingIsLost == Spec => []RowsAreKept
<1>1. RecordInv => RowsAreKept
  BY DEF RecordInv, Shape, NothingLost, RowsAreKept
<1> QED
  BY <1>1, RecordsHold, PTL

(* The upload of a job request is where its row is, as long as only one    *)
(* request at a time deletes, restores or erases it.                       *)
THEOREM UploadsFollow == Spec => []BytesFollowTheRow
<1>1. RecordInv => BytesFollowTheRow
  BY DEF RecordInv, Untangled, BytesOK, BytesFollowTheRow
<1> QED
  BY <1>1, RecordsHold, PTL

(* No payment goes to the bin with its customer, unless it was recorded    *)
(* after the customer was looked up.                                       *)
THEOREM PaymentsStay == Spec => []MoneyStaysOnFile
<1>1. RecordInv => MoneyStaysOnFile
  BY DEF RecordInv, ItemOK, SnapshotOK, InBin, Snapshot, MoneyStaysOnFile
<1> QED
  BY <1>1, RecordsHold, PTL

=============================================================================
