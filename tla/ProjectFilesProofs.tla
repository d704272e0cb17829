------------------------- MODULE ProjectFilesProofs -------------------------
(***************************************************************************)
(* Theorems about ProjectFiles, for any set of files, items and requests.  *)
(*                                                                         *)
(* Four invariants.  FilesInv holds of all behaviours: shapes, scripts     *)
(* that only name what their items have, locks, and directories that hold  *)
(* nothing but what is in the snapshot of their item.  CopyInv adds, for   *)
(* requests beside one another, that a restore has moved everything out of *)
(* a directory before it is removed.  AloneInv says, for one request at a  *)
(* time but whatever fails, that a row is in the table or in one kept      *)
(* item, never twice, so that what is erased nobody else can claim.        *)
(* CleanInv says where each piece is until something has failed.           *)
(*                                                                         *)
(* The parts come in this order: the scripts and what they consist of,     *)
(* FilesInv action by action, restores, CopyInv, AloneInv, CleanInv.       *)
(***************************************************************************)
EXTENDS ProjectFiles, SequenceTheorems, FiniteSetTheorems, TLAPS

(* Shapes *)

States == {"none", "kept", "purged"}

Places == {"live"} \cup Items

RowSteps == [op : {"delete", "insert"}, key : Keys]

Moves == [op : {"move"}, key : Files, piece : {"original", "thumbnail"},
          from : Places, to : Places]

Steps == RowSteps \cup Moves

Runs == [step : {"run"}, script : Seq(Steps), kind : {"delete", "restore"},
         items : SUBSET Items, moving : Seq(Moves), moved : Seq(Moves)]

ItemRow == [state : {"unborn", "held", "kept", "gone"}, rows : [Keys -> States]]

(* The rows in the snapshot of k. *)
Snapped(k) == {x \in Keys : item[k].rows[x] \in Held}

(* A piece moves between the project and an item that has its row. *)
MoveOK(m) == m \in Moves /\ \A p \in {m.from, m.to} \cap Items : m.key \in Snapped(p)

(* What a request may have left to do, or have done. *)
StepOK(r, s) ==
    /\ job[r].kind = "delete" =>
         \/ s.op = "delete"
         \/ MoveOK(s) /\ s.from = "live" /\ s.to \in job[r].items
    /\ job[r].kind = "restore" =>
         \/ s.op = "insert" /\ \A k \in job[r].items : s.key \in Snapped(k)
         \/ MoveOK(s) /\ s.from \in job[r].items /\ s.to = "live"

RunOK(r) ==
    LET q == job[r] IN
    /\ q \in Runs
    /\ \A s \in Range(q.script) \cup Range(q.moving) \cup Range(q.moved) : StepOK(r, s)
    /\ q.kind = "delete" => \A k \in q.items : item[k].state = "held"
    /\ q.kind = "restore" =>
         \E k \in Items : q.items = {k} /\ item[k].state \in {"kept", "gone"}

Retaining == [step : {"retain"}, left : SUBSET Files, marked : SUBSET Files]

Unlinking == [step : {"unlink"}, left : SUBSET Files, marked : SUBSET Files,
              file : Files, here : BOOLEAN]

JobOK(r) ==
    LET q == job[r] IN
    /\ q.step \in {"idle", "run", "put back", "erase", "remove",
                   "clean up", "retain", "unlink"}
    /\ q.step = "idle" => q = Idle
    /\ q.step = "run" => RunOK(r)
    /\ q.step = "put back" => q.moved \in Seq(Moves) /\ \A m \in Range(q.moved) : MoveOK(m)
    /\ q.step = "erase" =>
         q.items \subseteq Items /\ \A k \in q.items : item[k].state \in {"kept", "gone"}
    /\ q.step = "remove" =>
         q.items \subseteq Items /\ \A k \in q.items : item[k].state = "gone"
    /\ q.step = "clean up" => q.file \in Files
    /\ q.step = "retain" => q \in Retaining
    /\ q.step = "unlink" => q \in Unlinking

Deletes(r, k) == job[r].step = "run" /\ job[r].kind = "delete" /\ k \in job[r].items
Restores(r, k) == job[r].step = "run" /\ job[r].kind = "restore" /\ k \in job[r].items

Shape ==
    /\ FilesTypeOK
    /\ item \in [Items -> ItemRow]
    /\ job = [r \in Requests |-> job[r]]

(* An item that was not used holds nothing. *)
ItemOK(k) ==
    /\ item[k].state = "unborn" => Snapped(k) = {}
    /\ item[k].rows[Home] # "purged"

(* No item is made by two requests. *)
OwnersOK == \A r, s \in Requests, k \in Items : Deletes(r, k) /\ Deletes(s, k) => r = s

(* Who has locked a row is running, and the row is as it found it. *)
LockOK(x) ==
    lock[x] # NoOne =>
        LET q == job[lock[x]] IN
        /\ q.step = "run"
        /\ q.kind = "delete" => row[x] \in Held
        /\ q.kind = "restore" => row[x] = "none" /\ \A k \in q.items : x \in Snapped(k)

(* A file's row is put in under a project that is there or comes with it;  *)
(* who deletes the project has all its files.                              *)
KeyOK(f) ==
    /\ lock[f] # NoOne /\ row[f] = "none" =>
         lock[Home] = lock[f] \/ (row[Home] = "kept" /\ lock[Home] = NoOne)
    /\ lock[Home] # NoOne /\ row[Home] = "kept" =>
         lock[f] = IF row[f] = "none" THEN NoOne ELSE lock[Home]

LocksOK == (\A x \in Keys : LockOK(x)) /\ (\A f \in Files : KeyOK(f))

InsertsOK(r) ==
    \A k \in Items : Restores(r, k) =>
        \A x \in Snapped(k) : lock[x] = r \/ Statement("insert", x) \in Range(job[r].script)

(* What an item promises, or a row lists, was uploaded. *)
BornOK(f) == (row[f] \in Held \/ \E k \in Items : f \in Snapped(k)) => original[f] # "unborn"

(* What is in a directory is in the snapshot of its item. *)
At(f, k) == original[f] = k \/ k \in thumb[f]
DirOK(f) == \A k \in Items : At(f, k) => f \in Snapped(k)

FilesInv ==
    /\ Shape
    /\ \A k \in Items : ItemOK(k)
    /\ \A r \in Requests : JobOK(r)
    /\ OwnersOK
    /\ LocksOK
    /\ \A r \in Requests : InsertsOK(r)
    /\ \A f \in Files : BornOK(f) /\ DirOK(f)

----------------------------------------------------------------------------
(* Several requests, no failing steps, nothing thrown away on purpose. *)

(* The rows are not all back yet. *)
Inserting(r) == \E s \in Range(job[r].script) : s.op = "insert"

InsertsFirst(script) ==
    \A i, j \in DOMAIN script : i < j /\ script[j].op = "insert" => script[i].op = "insert"

OnDisk(f) == original[f] \in Places \/ thumb[f] # {}

(* A piece that is in the directory of k is still to be moved out. *)
MovesOutOf(k, f, script) ==
    /\ original[f] = k => Move(f, "original", k, "live") \in Range(script)
    /\ k \in thumb[f] => Move(f, "thumbnail", k, "live") \in Range(script)

(* A restore moves nothing before its rows are in, and forgets nothing. *)
RestoreOK(r) ==
    LET q == job[r] IN
    q.step = "run" /\ q.kind = "restore" =>
        /\ InsertsFirst(q.script)
        /\ Inserting(r) => q.moving = <<>> /\ q.moved = <<>>
        /\ \A k \in q.items, f \in Files : MovesOutOf(k, f, q.script)

(* Nobody is about to throw a last copy away. *)
CopyOK(r) ==
    /\ RestoreOK(r)
    /\ job[r].step = "put back" => \A m \in Range(job[r].moved) : m.from = "live"
    /\ job[r].step = "remove" => \A k \in job[r].items, f \in Files : ~At(f, k)
    /\ job[r].step = "unlink" => thumb[job[r].file] # {}
    /\ job[r].step \notin {"erase", "clean up"}

CopyInv ==
    /\ FilesInv
    /\ \A f \in Files : original[f] # "unborn" => OnDisk(f)
    /\ \A r \in Requests : CopyOK(r)

----------------------------------------------------------------------------
(* One request at a time *)

OneAtATime == \E r : Requests = {r}

(* A row is in the table or in one kept item. *)
UniqueOK(x) ==
    /\ \A k \in Items : item[k].state = "kept" /\ x \in Snapped(k) => row[x] = "none"
    /\ \A k, l \in Items : item[k].state = "kept" /\ item[l].state = "kept"
                           /\ x \in Snapped(k) /\ x \in Snapped(l) => k = l

(* A delete takes each row as its one item has it: locked, or still to do. *)
DeleteOK(r, x) ==
    /\ \A k \in Items : Deletes(r, k) /\ x \in Snapped(k) =>
         /\ row[x] = item[k].rows[x]
         /\ lock[x] = r \/ Statement("delete", x) \in Range(job[r].script)
    /\ \A k, l \in Items :
         Deletes(r, k) /\ Deletes(r, l) /\ x \in Snapped(k) /\ x \in Snapped(l) => k = l

(* An item that is not committed belongs to the request that makes it. *)
HeldOK(k) == item[k].state = "held" => \E r \in Requests : Deletes(r, k)

(* What a request is about to remove, nobody claims or there is a copy. *)
AloneOK(r) ==
    /\ RestoreOK(r)
    /\ \A x \in Keys : DeleteOK(r, x)
    /\ \A k \in Items : Restores(r, k) => item[k].state = "kept"
    /\ job[r].step = "erase" => \A k \in job[r].items : item[k].state = "kept"
    /\ job[r].step = "remove" =>
         \A k \in job[r].items, f \in Files : At(f, k) => ~Claimed(f)
    /\ job[r].step = "clean up" => ~Claimed(job[r].file)
    /\ job[r].step = "unlink" => "live" \in thumb[job[r].file]

AloneInv ==
    /\ FilesInv
    /\ \A x \in Keys : UniqueOK(x)
    /\ ClaimedIsOnDisk
    /\ \A k \in Items : HeldOK(k)
    /\ \A r \in Requests : AloneOK(r)

(* One request at a time, while nothing has failed *)

(* An original that the retention job has unlinked and not marked yet. *)
Marks(r, f) ==
    job[r].step \in {"retain", "unlink"} /\ f \in job[r].marked /\ "live" \in thumb[f]

(* A listed piece is in the project, or where the request has put it. *)
ListedOK(r, f) ==
    /\ row[f] = "kept" =>
         \/ original[f] = "live"
         \/ Marks(r, f)
         \/ \E k \in Items : Deletes(r, k) /\ original[f] = k
    /\ row[f] = "purged" =>
         \/ "live" \in thumb[f]
         \/ \E k \in Items : Deletes(r, k) /\ k \in thumb[f]

(* A piece that is being deleted is in the directory, or still to move. *)
TakenOK(r, f) ==
    \A k \in Items : Deletes(r, k) =>
        /\ item[k].rows[f] = "kept" =>
             original[f] = k \/ Move(f, "original", "live", k) \in Range(job[r].script)
        /\ item[k].rows[f] = "purged" =>
             k \in thumb[f] \/ Move(f, "thumbnail", "live", k) \in Range(job[r].script)

(* Moving back has begun. *)
Returning(r, k) == Restores(r, k) /\ ~Inserting(r)

(* A kept item has what it promises, but for a restore on its way. *)
HoldsOK(r, f) ==
    \A k \in Items : item[k].state = "kept" =>
        /\ item[k].rows[f] = "kept" =>
             original[f] = k \/ (Returning(r, k) /\ original[f] = "live")
        /\ item[k].rows[f] = "purged" =>
             k \in thumb[f] \/ (Returning(r, k) /\ "live" \in thumb[f])

(* A directory has its item, or is being removed. *)
TidyOK(r, f) ==
    \A k \in Items : At(f, k) =>
        \/ item[k].state \in {"held", "kept"}
        \/ job[r].step = "remove" /\ k \in job[r].items

(* The job takes each listed original once, and only beside a thumbnail. *)
RetentionOK(r) ==
    LET q == job[r] IN
    /\ q.step \in {"retain", "unlink"} =>
         /\ q.left \cap q.marked = {}
         /\ \A f \in q.left : row[f] = "kept"
         /\ \A f \in q.marked : "live" \in thumb[f]
    /\ q.step = "unlink" =>
         /\ q.here /\ original[q.file] = "live" /\ row[q.file] = "kept"
         /\ q.file \notin q.left \cup q.marked

CleanOK(r) ==
    /\ job[r].step # "put back"
    /\ RetentionOK(r)
    /\ \A f \in Files : ListedOK(r, f) /\ TakenOK(r, f) /\ HoldsOK(r, f) /\ TidyOK(r, f)

CleanInv == ~mishap => \A r \in Requests : CleanOK(r)
----------------------------------------------------------------------------
(* What is left of a script, once its first step is made. *)
LEMMA Popped ==
    ASSUME NEW S, NEW s \in Seq(S), s # <<>>
    PROVE  /\ Head(s) \in S /\ Tail(s) \in Seq(S)
           /\ \A x : x \in Range(s) <=> x = Head(s) \/ x \in Range(Tail(s))
<1>1. /\ Head(s) \in S /\ Tail(s) \in Seq(S)
      /\ Len(Tail(s)) = Len(s) - 1
      /\ \A i \in 1..Len(Tail(s)) : Tail(s)[i] = s[i + 1]
  BY HeadTailProperties
<1>2. Range(s) = {s[i] : i \in 1..Len(s)} /\ Range(Tail(s)) = {Tail(s)[i] : i \in 1..Len(Tail(s))}
  BY <1>1, RangeEquality
<1>3. Len(s) \in Nat /\ Len(s) # 0
  BY EmptySeq
<1>4. Head(s) = s[1]
  BY DEF Head
<1>5. ASSUME NEW x, x \in Range(s), x # Head(s)
      PROVE  x \in Range(Tail(s))
  <2>1. PICK i \in 1..Len(s) : x = s[i]
    BY <1>2, <1>5
  <2>2. i # 1
    BY <1>4, <1>5, <2>1
  <2>3. i - 1 \in 1..Len(Tail(s)) /\ (i - 1) + 1 = i
    BY <1>1, <1>3, <2>2
  <2>4. Tail(s)[i - 1] = x
    BY <1>1, <2>1, <2>3
  <2> QED
    BY <1>2, <2>3, <2>4
<1>6. ASSUME NEW x, x \in Range(Tail(s))
      PROVE  x \in Range(s)
  <2>1. PICK i \in 1..Len(Tail(s)) : x = Tail(s)[i]
    BY <1>2, <1>6
  <2>2. i + 1 \in 1..Len(s)
    BY <1>1, <1>3
  <2> QED
    BY <1>1, <1>2, <2>1, <2>2
<1>7. Head(s) \in Range(s)
  <2>1. 1 \in 1..Len(s)
    BY <1>3
  <2> QED
    BY <1>2, <1>4, <2>1
<1> QED
  BY <1>1, <1>5, <1>6, <1>7

LEMMA NothingLeft == Range(<<>>) = {}
  BY DEF Range

LEMMA Appended ==
    ASSUME NEW S, NEW s \in Seq(S), NEW e \in S
    PROVE  Append(s, e) \in Seq(S) /\ \A x : x \in Range(Append(s, e)) <=> x = e \/ x \in Range(s)
<1>1. /\ Append(s, e) \in Seq(S) /\ Len(Append(s, e)) = Len(s) + 1
      /\ \A i \in 1..Len(s) : Append(s, e)[i] = s[i]
      /\ Append(s, e)[Len(s) + 1] = e
  BY AppendProperties
<1>2. /\ Range(s) = {s[i] : i \in 1..Len(s)}
      /\ Range(Append(s, e)) = {Append(s, e)[i] : i \in 1..Len(Append(s, e))}
  BY <1>1, RangeEquality
<1>3. Len(s) \in Nat
  BY LenProperties
<1>4. 1..Len(Append(s, e)) = 1..Len(s) \cup {Len(s) + 1}
  BY <1>1, <1>3
<1> QED
  BY <1>1, <1>2, <1>4

LEMMA OrderIs ==
    ASSUME NEW files \in SUBSET Files, NEW o \in OrdersOf(files)
    PROVE  o \in Seq(files) /\ Range(o) = files
<1>1. Cardinality(files) \in Nat
  BY FilesAssumption, FS_Subset, FS_CardinalityType
<1> QED
  BY <1>1 DEF OrdersOf

(* A sequence may be read as one over a larger set. *)
LEMMA Widened ==
    ASSUME NEW S, NEW T, S \subseteq T, NEW s \in Seq(S)
    PROVE  s \in Seq(T)
<1>1. Len(s) \in Nat /\ s \in [1..Len(s) -> S]
  BY LenProperties
<1>2. s \in [1..Len(s) -> T]
  BY <1>1
<1> QED
  BY <1>1, <1>2

LEMMA RowsAre ==
    ASSUME NEW keys \in SUBSET Keys, NEW o \in OrdersOf(keys \ {Home})
    PROVE  /\ RowsOf(keys, o) \in Seq(Keys) /\ Range(RowsOf(keys, o)) = keys
           /\ o \in Seq(Files) /\ Range(o) = keys \ {Home}
<1>1. keys \ {Home} \in SUBSET Files
  BY DEF Keys
<1>2. o \in Seq(keys \ {Home}) /\ Range(o) = keys \ {Home}
  BY <1>1, OrderIs
<1>3. o \in Seq(Files) /\ o \in Seq(Keys)
  BY <1>1, <1>2, Widened DEF Keys
<1>4. CASE Home \in keys
  <2>1. Home \in Keys
    BY DEF Keys
  <2>2. /\ Append(o, Home) \in Seq(Keys)
        /\ \A x : x \in Range(Append(o, Home)) <=> x = Home \/ x \in Range(o)
    BY <1>3, <2>1, Appended
  <2>3. Range(Append(o, Home)) = keys
    BY <1>2, <1>4, <2>2
  <2> QED
    BY <1>2, <1>3, <1>4, <2>2, <2>3 DEF RowsOf
<1>5. CASE Home \notin keys
  BY <1>2, <1>3, <1>5 DEF RowsOf
<1> QED
  BY <1>4, <1>5

LEMMA StatementsAre ==
    ASSUME NEW op \in {"delete", "insert"}, NEW rows \in Seq(Keys)
    PROVE  /\ Statements(op, rows) \in Seq(RowSteps)
           /\ \A s : s \in Range(Statements(op, rows)) <=>
                       \E x \in Range(rows) : s = Statement(op, x)
<1>1. Len(rows) \in Nat /\ DOMAIN rows = 1..Len(rows) /\ \A n \in 1..Len(rows) : rows[n] \in Keys
  BY LenProperties
<1>2. \A x \in Keys : Statement(op, x) \in RowSteps
  BY DEF Statement, RowSteps
<1>3. Statements(op, rows) \in [1..Len(rows) -> RowSteps]
  BY <1>1, <1>2 DEF Statements
<1> QED
  BY <1>1, <1>3 DEF Range, Statements

LEMMA MovesAre ==
    ASSUME NEW o \in Seq(Files), NEW from \in Places, NEW to \in Places
    PROVE  /\ AllMoves(o, from, to) \in Seq(Moves)
           /\ \A s : s \in Range(AllMoves(o, from, to)) <=>
                       \E f \in Range(o), piece \in {"original", "thumbnail"} :
                           s = Move(f, piece, from, to)
<1>1. Len(o) \in Nat /\ DOMAIN o = 1..Len(o) /\ \A n \in 1..Len(o) : o[n] \in Files
  BY LenProperties
<1> DEFINE a == AllMoves(o, from, to)
           at(n) == Move(o[(n + 1) \div 2], Pieces[1 + ((n + 1) % 2)], from, to)
<1>2. a = [n \in 1..2 * Len(o) |-> at(n)]
  BY DEF AllMoves
<1>3. \A n \in 1..2 * Len(o) : (n + 1) \div 2 \in 1..Len(o) /\ 1 + ((n + 1) % 2) \in {1, 2}
  BY <1>1
<1>4. Pieces[1] = "original" /\ Pieces[2] = "thumbnail"
  BY DEF Pieces
<1>5. \A n \in 1..2 * Len(o) : at(n) \in Moves
  BY <1>1, <1>3, <1>4 DEF Move, Moves
<1>6. a \in [1..2 * Len(o) -> Moves]
  BY <1>2, <1>5
<1>7. 2 * Len(o) \in Nat
  BY <1>1
<1>8. ASSUME NEW s, s \in Range(a)
      PROVE  \E f \in Range(o), piece \in {"original", "thumbnail"} : s = Move(f, piece, from, to)
  <2>1. PICK n \in 1..2 * Len(o) : s = at(n)
    BY <1>2, <1>8 DEF Range
  <2>2. o[(n + 1) \div 2] \in Range(o)
    BY <1>1, <1>3 DEF Range
  <2> QED
    BY <1>3, <1>4, <2>1, <2>2
<1>9. ASSUME NEW f \in Range(o), NEW piece \in {"original", "thumbnail"}
      PROVE  Move(f, piece, from, to) \in Range(a)
  <2>1. PICK n \in 1..Len(o) : f = o[n]
    BY <1>1 DEF Range
  <2>2. CASE piece = "original"
    <3>1. /\ 2 * n - 1 \in 1..2 * Len(o) /\ (2 * n - 1 + 1) \div 2 = n
          /\ 1 + ((2 * n - 1 + 1) % 2) = 1
      BY <1>1
    <3>2. at(2 * n - 1) = Move(f, piece, from, to)
      BY <1>4, <2>1, <2>2, <3>1
    <3> QED
      BY <1>2, <3>1, <3>2 DEF Range
  <2>3. CASE piece = "thumbnail"
    <3>1. /\ 2 * n \in 1..2 * Len(o) /\ (2 * n + 1) \div 2 = n
          /\ 1 + ((2 * n + 1) % 2) = 2
      BY <1>1
    <3>2. at(2 * n) = Move(f, piece, from, to)
      BY <1>4, <2>1, <2>3, <3>1
    <3> QED
      BY <1>2, <3>1, <3>2 DEF Range
  <2> QED
    BY <2>2, <2>3
<1> QED
  BY <1>6, <1>7, <1>8, <1>9

LEMMA DeletesThenMoves ==
    ASSUME NEW k \in Items, NEW keys \in SUBSET Keys, NEW o \in OrdersOf(keys \ {Home})
    PROVE  /\ DeleteScript(k, keys, o) \in Seq(Steps)
           /\ \A s : s \in Range(DeleteScript(k, keys, o)) <=>
                \/ \E x \in keys : s = Statement("delete", x)
                \/ \E f \in keys \ {Home}, piece \in {"original", "thumbnail"} :
                       s = Move(f, piece, "live", k)
<1>1. /\ RowsOf(keys, o) \in Seq(Keys) /\ Range(RowsOf(keys, o)) = keys
      /\ o \in Seq(Files) /\ Range(o) = keys \ {Home}
  BY RowsAre
<1>2. "live" \in Places /\ k \in Places
  BY DEF Places
<1> DEFINE a == Statements("delete", RowsOf(keys, o))
           b == AllMoves(o, "live", k)
<1>3. a \in Seq(Steps) /\ \A s : s \in Range(a) <=> \E x \in keys : s = Statement("delete", x)
  <2>1. a \in Seq(RowSteps) /\ RowSteps \subseteq Steps
    BY <1>1, StatementsAre DEF Steps
  <2> HIDE DEF a
  <2>2. a \in Seq(Steps)
    BY <2>1, Widened
  <2> USE DEF a
  <2> QED
    BY <1>1, <2>2, StatementsAre
<1>4. /\ b \in Seq(Steps)
      /\ \A s : s \in Range(b) <=> \E f \in keys \ {Home}, piece \in {"original", "thumbnail"} :
                                       s = Move(f, piece, "live", k)
  <2>1. b \in Seq(Moves) /\ Moves \subseteq Steps
    BY <1>1, <1>2, MovesAre DEF Steps
  <2> HIDE DEF b
  <2>2. b \in Seq(Steps)
    BY <2>1, Widened
  <2> USE DEF b
  <2> QED
    BY <1>1, <1>2, <2>2, MovesAre
<1>5. DeleteScript(k, keys, o) = a \o b
  BY DEF DeleteScript
<1> HIDE DEF a, b
<1>6. a \o b \in Seq(Steps) /\ Range(a \o b) = Range(a) \cup Range(b)
  BY <1>3, <1>4, ConcatProperties, RangeConcatenation
<1> QED
  BY <1>3, <1>4, <1>5, <1>6

LEMMA ReversedRows ==
    ASSUME NEW rows \in Seq(Keys)
    PROVE  Reverse(rows) \in Seq(Keys) /\ Range(Reverse(rows)) = Range(rows)
<1>1. Len(rows) \in Nat /\ DOMAIN rows = 1..Len(rows) /\ \A n \in 1..Len(rows) : rows[n] \in Keys
  BY LenProperties
<1>2. \A n \in 1..Len(rows) : Len(rows) - n + 1 \in 1..Len(rows)
  BY <1>1
<1>3. Reverse(rows) = [n \in 1..Len(rows) |-> rows[Len(rows) - n + 1]]
  BY DEF Reverse
<1>4. Reverse(rows) \in [1..Len(rows) -> Keys]
  BY <1>1, <1>2, <1>3
<1>5. ASSUME NEW n \in 1..Len(rows)
      PROVE  rows[n] \in Range(Reverse(rows)) /\ Reverse(rows)[n] \in Range(rows)
  <2>1. Len(rows) - (Len(rows) - n + 1) + 1 = n
    BY <1>1
  <2> QED
    BY <1>1, <1>2, <1>3, <2>1 DEF Range
<1>6. \A x : x \in Range(Reverse(rows)) <=> x \in Range(rows)
  BY <1>1, <1>3, <1>5 DEF Range
<1> QED
  BY <1>1, <1>4, <1>6

LEMMA InsertsThenMoves ==
    ASSUME NEW k \in Items, NEW keys \in SUBSET Keys, NEW o \in OrdersOf(keys \ {Home})
    PROVE  /\ RestoreScript(k, keys, o) \in Seq(Steps)
           /\ \A s : s \in Range(RestoreScript(k, keys, o)) <=>
                \/ \E x \in keys : s = Statement("insert", x)
                \/ \E f \in keys \ {Home}, piece \in {"original", "thumbnail"} :
                       s = Move(f, piece, k, "live")
           /\ InsertsFirst(RestoreScript(k, keys, o))
<1>1. /\ RowsOf(keys, o) \in Seq(Keys) /\ Range(RowsOf(keys, o)) = keys
      /\ o \in Seq(Files) /\ Range(o) = keys \ {Home}
  BY RowsAre
<1>2. "live" \in Places /\ k \in Places
  BY DEF Places
<1> DEFINE a == Statements("insert", Reverse(RowsOf(keys, o)))
           b == AllMoves(o, k, "live")
<1>3. /\ Reverse(RowsOf(keys, o)) \in Seq(Keys)
      /\ Range(Reverse(RowsOf(keys, o))) = keys
  BY <1>1, ReversedRows
<1>4. a \in Seq(Steps) /\ b \in Seq(Steps)
  <2>1. a \in Seq(RowSteps) /\ RowSteps \subseteq Steps
    BY <1>3, StatementsAre DEF Steps
  <2>2. b \in Seq(Moves) /\ Moves \subseteq Steps
    BY <1>1, <1>2, MovesAre DEF Steps
  <2> HIDE DEF a, b
  <2> QED
    BY <2>1, <2>2, Widened
<1>5. \A s : s \in Range(a) <=> \E x \in keys : s = Statement("insert", x)
  BY <1>3, StatementsAre
<1>6. \A s : s \in Range(b) <=> \E f \in keys \ {Home}, piece \in {"original", "thumbnail"} :
                                    s = Move(f, piece, k, "live")
  BY <1>1, <1>2, MovesAre
<1>7. InsertsFirst(a \o b)
  <2>1. (\A s \in Range(a) : s.op = "insert") /\ (\A s \in Range(b) : s.op # "insert")
    BY <1>5, <1>6 DEF Statement, Move
  <2>2. /\ Len(a) \in Nat /\ Len(b) \in Nat /\ DOMAIN a = 1..Len(a) /\ DOMAIN b = 1..Len(b)
        /\ DOMAIN (a \o b) = 1..(Len(a) + Len(b))
        /\ \A i \in 1..(Len(a) + Len(b)) :
             (a \o b)[i] = IF i <= Len(a) THEN a[i] ELSE b[i - Len(a)]
    <3> HIDE DEF a, b
    <3> QED
      BY <1>4, ConcatProperties, LenProperties
  <2>3. ASSUME NEW i \in DOMAIN (a \o b), NEW j \in DOMAIN (a \o b), i < j, (a \o b)[j].op = "insert"
        PROVE  (a \o b)[i].op = "insert"
    <3> HIDE DEF a, b
    <3>1. j <= Len(a)
      <4>1. SUFFICES ASSUME ~(j <= Len(a)) PROVE FALSE
        OBVIOUS
      <4>2. j - Len(a) \in 1..Len(b) /\ (a \o b)[j] = b[j - Len(a)]
        BY <2>2, <2>3, <4>1
      <4>3. b[j - Len(a)] \in Range(b)
        BY <2>2, <4>2 DEF Range
      <4> QED
        BY <2>1, <2>3, <4>2, <4>3
    <3>2. i \in 1..Len(a) /\ (a \o b)[i] = a[i]
      BY <2>2, <2>3, <3>1
    <3>3. a[i] \in Range(a)
      BY <2>2, <3>2 DEF Range
    <3> QED
      BY <2>1, <3>2, <3>3
  <2> HIDE DEF a, b
  <2> QED
    BY <2>3 DEF InsertsFirst
<1>8. a \o b \in Seq(Steps) /\ Range(a \o b) = Range(a) \cup Range(b)
  <2> HIDE DEF a, b
  <2> QED
    BY <1>4, ConcatProperties, RangeConcatenation
<1>9. RestoreScript(k, keys, o) = a \o b
  BY DEF RestoreScript
<1> HIDE DEF a, b
<1> QED
  BY <1>5, <1>6, <1>7, <1>8, <1>9

LEMMA OneFileScript ==
    ASSUME NEW k \in Items, NEW f \in Files
    PROVE  LET s == DeleteScript(k, {f}, <<f>>)
           IN  /\ s[1] = Statement("delete", f)
               /\ s[2] = Move(f, "original", "live", k)
               /\ s[3] = Move(f, "thumbnail", "live", k)
<1>1. f # Home /\ f \in Keys
  BY FilesAssumption DEF Home, Keys
<1>2. RowsOf({f}, <<f>>) = <<f>>
  BY <1>1 DEF RowsOf
<1>3. <<f>> \in Seq(Keys) /\ <<f>> \in Seq(Files) /\ Len(<<f>>) = 1 /\ <<f>>[1] = f
  BY <1>1
<1> DEFINE a == Statements("delete", <<f>>)
           b == AllMoves(<<f>>, "live", k)
<1>4. a \in Seq(RowSteps) /\ Len(a) = 1 /\ a[1] = Statement("delete", f)
  <2>1. a \in Seq(RowSteps)
    BY <1>3, StatementsAre
  <2>2. a = [n \in 1..1 |-> Statement("delete", <<f>>[n])]
    BY <1>3 DEF Statements
  <2> QED
    BY <1>3, <2>1, <2>2
<1>5. b \in Seq(Moves) /\ Len(b) = 2 /\ b[1] = Move(f, "original", "live", k)
      /\ b[2] = Move(f, "thumbnail", "live", k)
  <2>1. b \in Seq(Moves)
    BY <1>3, MovesAre DEF Places
  <2>2. b = [n \in 1..2 |-> Move(<<f>>[(n + 1) \div 2], Pieces[1 + ((n + 1) % 2)], "live", k)]
    BY <1>3 DEF AllMoves
  <2>3. /\ (1 + 1) \div 2 = 1 /\ 1 + ((1 + 1) % 2) = 1
        /\ (2 + 1) \div 2 = 1 /\ 1 + ((2 + 1) % 2) = 2
    OBVIOUS
  <2>4. Pieces[1] = "original" /\ Pieces[2] = "thumbnail"
    BY DEF Pieces
  <2>5. b[1] = Move(f, "original", "live", k) /\ b[2] = Move(f, "thumbnail", "live", k)
    BY <1>3, <2>2, <2>3, <2>4
  <2>6. DOMAIN b = 1..2
    BY <2>2
  <2> HIDE DEF b
  <2> QED
    BY <2>1, <2>5, <2>6, LenProperties
<1>6. DeleteScript(k, {f}, <<f>>) = a \o b
  BY <1>2 DEF DeleteScript
<1>7. a \in Seq(Steps) /\ b \in Seq(Steps)
  <2> HIDE DEF a, b
  <2> QED
    BY <1>4, <1>5, Widened DEF Steps
<1> HIDE DEF a, b
<1>8. \A i \in 1..Len(a) + Len(b) : (a \o b)[i] = IF i <= Len(a) THEN a[i] ELSE b[i - Len(a)]
  BY <1>7, ConcatProperties
<1>9. (a \o b)[1] = a[1] /\ (a \o b)[2] = b[1] /\ (a \o b)[3] = b[2]
  <2>1. Len(a) = 1 /\ Len(b) = 2
    BY <1>4, <1>5
  <2>2. 1 \in 1..3 /\ 2 \in 1..3 /\ 3 \in 1..3 /\ 1..1 + 2 = 1..3
    OBVIOUS
  <2>3. /\ (a \o b)[1] = IF 1 <= 1 THEN a[1] ELSE b[1 - 1]
        /\ (a \o b)[2] = IF 2 <= 1 THEN a[2] ELSE b[2 - 1]
        /\ (a \o b)[3] = IF 3 <= 1 THEN a[3] ELSE b[3 - 1]
    BY <1>8, <2>1, <2>2
  <2> QED
    BY <2>3
<1> QED
  BY <1>4, <1>5, <1>6, <1>9

LEMMA FilesOneByOne ==
    ASSUME NEW files \in SUBSET Files, NEW id \in [files -> Items], NEW o \in OrdersOf(files)
    PROVE  /\ DeleteEach(id, o) \in Seq(Steps)
           /\ \A s : s \in Range(DeleteEach(id, o)) <=>
                \E f \in files :
                    \/ s = Statement("delete", f)
                    \/ s = Move(f, "original", "live", id[f])
                    \/ s = Move(f, "thumbnail", "live", id[f])
<1>1. o \in Seq(files) /\ Range(o) = files
  BY OrderIs
<1>2. /\ Len(o) \in Nat /\ DOMAIN o = 1..Len(o)
      /\ \A n \in 1..Len(o) : o[n] \in files
  BY <1>1, LenProperties
<1> DEFINE d == DeleteEach(id, o)
           file(n) == o[(n + 2) \div 3]
           at(n) == DeleteScript(id[file(n)], {file(n)}, <<file(n)>>)[1 + ((n + 2) % 3)]
           Makes(s, f) == \/ s = Statement("delete", f)
                          \/ s = Move(f, "original", "live", id[f])
                          \/ s = Move(f, "thumbnail", "live", id[f])
<1>3. d = [n \in 1..3 * Len(o) |-> at(n)]
  BY DEF DeleteEach
<1>4. ASSUME NEW n \in 1..3 * Len(o)
      PROVE  /\ (n + 2) \div 3 \in 1..Len(o)
             /\ 1 + ((n + 2) % 3) \in {1, 2, 3}
  BY <1>2
<1>5. ASSUME NEW n \in 1..3 * Len(o)
      PROVE  file(n) \in files /\ Makes(at(n), file(n))
  <2>1. file(n) \in files
    BY <1>2, <1>4
  <2>2. id[file(n)] \in Items
    BY <2>1
  <2> HIDE DEF file
  <2> QED
    BY <1>4, <2>1, <2>2, OneFileScript
<1>6. ASSUME NEW f \in files, NEW s, Makes(s, f)
      PROVE  s \in Steps
  <2>1. f \in Keys /\ f \in Files /\ id[f] \in Items
    BY DEF Keys
  <2> QED
    BY <1>6, <2>1 DEF Statement, Move, Steps, RowSteps, Moves, Places
<1>7. d \in [1..3 * Len(o) -> Steps]
  <2> HIDE DEF at, Makes, file, d
  <2> QED
    BY <1>3, <1>5, <1>6
<1>8. 3 * Len(o) \in Nat
  BY <1>2
<1>9. d \in Seq(Steps)
  BY <1>7, <1>8
<1>10. ASSUME NEW s, s \in Range(d)
       PROVE  \E f \in files : Makes(s, f)
  <2> HIDE DEF at, Makes, file, d
  <2>1. PICK n \in 1..3 * Len(o) : s = at(n)
    BY <1>3, <1>10 DEF Range
  <2> QED
    BY <1>5, <2>1
<1>11. ASSUME NEW f \in files, NEW s, Makes(s, f)
       PROVE  s \in Range(d)
  <2>1. PICK n \in 1..Len(o) : f = o[n]
    BY <1>1, <1>2 DEF Range
  <2>2. /\ 3 * n - 2 \in 1..3 * Len(o) /\ (3 * n - 2 + 2) \div 3 = n
        /\ 1 + ((3 * n - 2 + 2) % 3) = 1
    BY <1>2
  <2>3. /\ 3 * n - 1 \in 1..3 * Len(o) /\ (3 * n - 1 + 2) \div 3 = n
        /\ 1 + ((3 * n - 1 + 2) % 3) = 2
    BY <1>2
  <2>4. /\ 3 * n \in 1..3 * Len(o) /\ (3 * n + 2) \div 3 = n
        /\ 1 + ((3 * n + 2) % 3) = 3
    BY <1>2
  <2> DEFINE t == DeleteScript(id[f], {f}, <<f>>)
  <2>5. at(3 * n - 2) = t[1]
    BY <2>1, <2>2
  <2>6. at(3 * n - 1) = t[2]
    BY <2>1, <2>3
  <2>7. at(3 * n) = t[3]
    BY <2>1, <2>4
  <2>8. s \in {t[1], t[2], t[3]}
    <3>1. id[f] \in Items
      OBVIOUS
    <3> QED
      BY <1>11, <3>1, OneFileScript
  <2> HIDE DEF at, t, d
  <2> QED
    BY <1>3, <2>2, <2>3, <2>4, <2>5, <2>6, <2>7, <2>8 DEF Range
<1> HIDE DEF d
<1> QED
  BY <1>9, <1>10, <1>11 DEF d

----------------------------------------------------------------------------
(* How a step changes the items: an unused one is taken, one that r makes  *)
(* is finished or given up, one in the bin leaves it.                      *)
ItemsGo(r) ==
    \A k \in Items :
        \/ item'[k] = item[k]
        \/ item[k].state = "unborn"
        \/ /\ item'[k].rows = item[k].rows
           /\ \/ Deletes(r, k) /\ item'[k].state \in {"kept", "gone"}
              \/ item[k].state \in {"kept", "gone"} /\ item'[k].state = "gone"

LEMMA SnapshotsStay ==
    ASSUME FilesInv, NEW r \in Requests, ItemsGo(r), NEW k \in Items
    PROVE  /\ Snapped(k) \subseteq Snapped(k)'
           /\ item[k].state # "unborn" =>
                Snapped(k)' = Snapped(k) /\ item'[k].rows = item[k].rows
<1>1. ItemOK(k)
  BY DEF FilesInv
<1>2. CASE item[k].state = "unborn"
  BY <1>1, <1>2 DEF ItemOK
<1>3. CASE item[k].state # "unborn"
  <2>1. item'[k].rows = item[k].rows
    BY <1>3 DEF ItemsGo
  <2> QED
    BY <1>3, <2>1 DEF Snapped
<1> QED
  BY <1>2, <1>3

LEMMA MovesStay ==
    ASSUME FilesInv, NEW r \in Requests, ItemsGo(r), NEW m, MoveOK(m)
    PROVE  MoveOK(m)'
<1>1. \A k \in Items : Snapped(k) \subseteq Snapped(k)'
  BY SnapshotsStay
<1> QED
  BY <1>1 DEF MoveOK

(* What another request relies on. *)
LEMMA OthersKeep ==
    ASSUME FilesInv, NEW r \in Requests, ItemsGo(r), NEW s \in Requests,
           s # r, job'[s] = job[s]
    PROVE  JobOK(s)'
<1>1. JobOK(s)
  BY DEF FilesInv
<1>2. ASSUME job[s].step = "run"
      PROVE  RunOK(s)'
  <2>1. RunOK(s) /\ job[s] \in Runs
    BY <1>1, <1>2 DEF JobOK, RunOK
  <2>2. ASSUME NEW k \in job[s].items, job[s].kind = "delete"
        PROVE  item'[k].state = "held"
    <3>1. k \in Items /\ item[k].state = "held"
      BY <2>1, <2>2 DEF RunOK, Runs
    <3>2. ~Deletes(r, k)
      BY <1>2, <2>2, <3>1 DEF FilesInv, OwnersOK, Deletes
    <3> QED
      BY <3>1, <3>2 DEF ItemsGo
  <2>3. ASSUME job[s].kind = "restore"
        PROVE  \E k \in Items : /\ job[s].items = {k} /\ item'[k].state \in {"kept", "gone"}
                                /\ Snapped(k)' = Snapped(k)
    <3>1. PICK k \in Items : job[s].items = {k} /\ item[k].state \in {"kept", "gone"}
      BY <2>1, <2>3 DEF RunOK
    <3>2. item'[k].state \in {"kept", "gone"}
      BY <3>1 DEF ItemsGo
    <3>3. Snapped(k)' = Snapped(k)
      BY <3>1, SnapshotsStay
    <3> QED
      BY <3>1, <3>2, <3>3
  <2>4. ASSUME NEW t, StepOK(s, t)
        PROVE  StepOK(s, t)'
    <3>1. MoveOK(t) => MoveOK(t)'
      BY MovesStay
    <3>2. CASE job[s].kind = "delete"
      BY <2>4, <3>1, <3>2 DEF StepOK
    <3>3. CASE job[s].kind = "restore"
      BY <2>3, <2>4, <3>1, <3>3 DEF StepOK
    <3>4. CASE job[s].kind \notin {"delete", "restore"}
      BY <3>4 DEF StepOK
    <3> QED
      BY <3>2, <3>3, <3>4
  <2>5. \A t \in Range(job[s].script) \cup Range(job[s].moving) \cup Range(job[s].moved) :
            StepOK(s, t)'
    BY <2>1, <2>4 DEF RunOK
  <2> QED
    BY <2>1, <2>2, <2>3, <2>5 DEF RunOK
<1>3. ASSUME job[s].step = "put back"
      PROVE  \A m \in Range(job[s].moved) : MoveOK(m)'
  BY <1>1, <1>3, MovesStay DEF JobOK
<1>4. /\ job[s].step = "erase" => \A k \in job[s].items : item'[k].state \in {"kept", "gone"}
      /\ job[s].step = "remove" => \A k \in job[s].items : item'[k].state = "gone"
  <2>1. \A k \in Items : /\ item[k].state \in {"kept", "gone"} => item'[k].state \in {"kept", "gone"}
                         /\ item[k].state = "gone" => item'[k].state = "gone"
    <3>1. \A k \in Items : Deletes(r, k) => item[k].state = "held"
      BY DEF FilesInv, JobOK, RunOK, Deletes
    <3> QED
      BY <3>1 DEF ItemsGo
  <2> QED
    BY <1>1, <2>1 DEF JobOK
<1> QED
  BY <1>1, <1>2, <1>3, <1>4 DEF JobOK

LEMMA OthersInsert ==
    ASSUME FilesInv, NEW r \in Requests, ItemsGo(r), NEW s \in Requests,
           s # r, job'[s] = job[s],
           \A x \in Keys : lock[x] = s => lock'[x] = s
    PROVE  InsertsOK(s)'
<1>1. JobOK(s) /\ InsertsOK(s)
  BY DEF FilesInv
<1>2. ASSUME NEW k \in Items, Restores(s, k)'
      PROVE  Restores(s, k) /\ Snapped(k)' = Snapped(k)
  <2>1. Restores(s, k)
    BY <1>2 DEF Restores
  <2>2. item[k].state \in {"kept", "gone"}
    BY <1>1, <2>1 DEF JobOK, RunOK, Restores
  <2> QED
    BY <2>1, <2>2, SnapshotsStay
<1>3. \A k \in Items : Snapped(k) \subseteq Keys
  BY DEF Snapped
<1> QED
  BY <1>1, <1>2, <1>3 DEF InsertsOK

(* A step of one request. *)
LEMMA RequestKeeps ==
    ASSUME FilesInv, NEW r \in Requests,
           job' = [job EXCEPT ![r] = job'[r]],
           ItemsGo(r),
           FilesTypeOK', item' \in [Items -> ItemRow], \A k \in Items : ItemOK(k)',
           JobOK(r)', InsertsOK(r)',
           \A k \in Items : Deletes(r, k)' => Deletes(r, k) \/ item[k].state = "unborn",
           \A x \in Keys : lock[x] \notin {NoOne, r} => lock'[x] = lock[x],
           LocksOK',
           \A f \in Files : BornOK(f)' /\ DirOK(f)'
    PROVE  FilesInv'
<1>1. job' = [s \in Requests |-> job'[s]] /\ \A s \in Requests \ {r} : job'[s] = job[s]
  BY DEF FilesInv, Shape
<1>2. Shape'
  BY <1>1 DEF Shape
<1>3. \A s \in Requests : JobOK(s)'
  BY <1>1, OthersKeep
<1>4. NoOne \notin Requests
  BY FilesAssumption DEF NoOne
<1>5. \A s \in Requests : InsertsOK(s)'
  BY <1>1, <1>4, OthersInsert
<1>6. OwnersOK'
  <2>1. \A s \in Requests, k \in Items : Deletes(s, k) => item[k].state = "held"
    BY DEF FilesInv, JobOK, RunOK, Deletes
  <2>2. \A s \in Requests \ {r}, k \in Items : Deletes(s, k)' => Deletes(s, k)
    BY <1>1 DEF Deletes
  <2> SUFFICES ASSUME NEW s \in Requests, NEW t \in Requests, NEW k \in Items,
                      Deletes(s, k)', Deletes(t, k)'
               PROVE  s = t
    BY DEF OwnersOK
  <2>3. OwnersOK
    BY DEF FilesInv
  <2> QED
    BY <2>1, <2>2, <2>3 DEF OwnersOK
<1> QED
  BY <1>2, <1>3, <1>5, <1>6 DEF FilesInv

(* The locks, while rows stay and a running request goes on with its items. *)
LEMMA LocksStay ==
    ASSUME FilesInv, NEW r \in Requests, ItemsGo(r),
           job' = [job EXCEPT ![r] = job'[r]], UNCHANGED lock,
           \A x \in Keys : /\ row'[x] \in Held <=> row[x] \in Held
                           /\ row'[x] = "none" <=> row[x] = "none",
           row'[Home] = row[Home],
           job[r].step = "run" =>
               job'[r].step = "run" /\ job'[r].kind = job[r].kind /\ job'[r].items = job[r].items
    PROVE  LocksOK'
<1>1. \A s \in Requests \ {r} : job'[s] = job[s]
  BY DEF FilesInv, Shape
<1>2. LocksOK /\ lock \in [Keys -> Requests \cup {NoOne}]
  BY DEF FilesInv, Shape, FilesTypeOK
<1>3. ASSUME NEW x \in Keys
      PROVE  LockOK(x)'
  <2>1. SUFFICES ASSUME lock[x] # NoOne PROVE LockOK(x)'
    BY DEF LockOK
  <2>2. lock[x] \in Requests /\ LockOK(x) /\ JobOK(lock[x])
    BY <1>2, <2>1 DEF LocksOK, FilesInv
  <2>3. /\ job'[lock[x]].step = "run" /\ job[lock[x]].step = "run"
        /\ job'[lock[x]].kind = job[lock[x]].kind /\ job'[lock[x]].items = job[lock[x]].items
    BY <1>1, <2>1, <2>2 DEF LockOK
  <2>4. job[lock[x]].kind = "restore" =>
            \A k \in job[lock[x]].items : Snapped(k)' = Snapped(k)
    BY <2>2, <2>3, SnapshotsStay DEF JobOK, RunOK
  <2> QED
    BY <2>1, <2>2, <2>3, <2>4 DEF LockOK
<1>4. \A f \in Files : KeyOK(f)'
  <2>1. Files \subseteq Keys
    BY DEF Keys
  <2> QED
    BY <1>2, <2>1 DEF LocksOK, KeyOK
<1> QED
  BY <1>3, <1>4 DEF LocksOK

(* A step that has nothing to do with rows. *)
LEMMA BesideRows ==
    ASSUME FilesInv, NEW r \in Requests,
           job' = [job EXCEPT ![r] = job'[r]],
           job[r].step # "run", job'[r].step # "run",
           ItemsGo(r), UNCHANGED <<row, lock>>,
           FilesTypeOK', item' \in [Items -> ItemRow], \A k \in Items : ItemOK(k)',
           JobOK(r)',
           \A f \in Files : BornOK(f)' /\ DirOK(f)'
    PROVE  FilesInv'
<1>1. LocksOK'
  BY LocksStay DEF Keys
<1>2. InsertsOK(r)' /\ \A k \in Items : ~Deletes(r, k)'
  BY DEF InsertsOK, Restores, Deletes
<1> QED
  BY <1>1, <1>2, RequestKeeps

(* A step of no request. *)
LEMMA JobsStay ==
    ASSUME FilesInv, UNCHANGED <<item, job>>
    PROVE  /\ \A k : Snapped(k)' = Snapped(k)
           /\ \A r \in Requests : JobOK(r)'
           /\ OwnersOK' /\ \A k \in Items : ItemOK(k)'
<1>1. \A k : Snapped(k)' = Snapped(k)
  BY DEF Snapped
<1>2. OwnersOK' /\ \A k \in Items : ItemOK(k)'
  BY <1>1 DEF FilesInv, OwnersOK, Deletes, ItemOK
<1>3. ASSUME NEW r \in Requests
      PROVE  JobOK(r)'
  <2>1. \A m : MoveOK(m) => MoveOK(m)'
    BY <1>1 DEF MoveOK
  <2>2. JobOK(r) /\ job'[r] = job[r]
    BY DEF FilesInv
  <2>3. ASSUME job[r].step = "run"
        PROVE  RunOK(r)'
    <3>1. RunOK(r)
      BY <2>2, <2>3 DEF JobOK
    <3>2. \A s : StepOK(r, s) => StepOK(r, s)'
      BY <1>1, <2>1, <2>2 DEF StepOK
    <3> QED
      BY <2>2, <3>1, <3>2 DEF RunOK
  <2> QED
    BY <2>1, <2>2, <2>3 DEF JobOK
<1> QED
  BY <1>1, <1>2, <1>3

(* A step that changes bytes only. *)
LEMMA BytesOnly ==
    ASSUME FilesInv, UNCHANGED <<row, lock, item, job>>, FilesTypeOK',
           \A f \in Files : BornOK(f)' /\ DirOK(f)'
    PROVE  FilesInv'
<1>1. \A k : Snapped(k)' = Snapped(k)
  BY JobsStay
<1>2. Shape' /\ LocksOK' /\ \A r \in Requests : InsertsOK(r)'
  BY <1>1 DEF FilesInv, Shape, LocksOK, LockOK, KeyOK, InsertsOK, Restores
<1> QED
  BY <1>2, JobsStay DEF FilesInv

----------------------------------------------------------------------------
(* What a move does. *)
LEMMA Relocated ==
    ASSUME Shape, NEW ms, ms \subseteq Moves, Relocate(ms), NEW f \in Files
    PROVE  /\ \/ original'[f] = original[f]
              \/ \E m \in ms : /\ m.key = f /\ m.piece = "original"
                               /\ original[f] = m.from /\ original'[f] = m.to
           /\ \A p \in thumb'[f] :
                \/ p \in thumb[f]
                \/ \E m \in ms : /\ m.key = f /\ m.piece = "thumbnail"
                                 /\ m.from \in thumb[f] /\ p = m.to
           /\ thumb'[f] = {} <=> thumb[f] = {}
<1> DEFINE of(piece) == {m \in ms : m.key = f /\ m.piece = piece /\ IsAt(m)}
<1>1. /\ original'[f] = IF of("original") = {} THEN original[f]
                        ELSE (CHOOSE m \in of("original") : TRUE).to
      /\ thumb'[f] = (thumb[f] \ {m.from : m \in of("thumbnail")})
                       \cup {m.to : m \in of("thumbnail")}
  BY DEF Relocate
<1>2. \A m \in of("original") : original[f] = m.from
  BY DEF IsAt
<1>3. \A m \in of("thumbnail") : m.from \in thumb[f]
  BY DEF IsAt
<1>4. \/ original'[f] = original[f]
      \/ \E m \in ms : /\ m.key = f /\ m.piece = "original"
                       /\ original[f] = m.from /\ original'[f] = m.to
  <2>1. CASE of("original") = {}
    BY <1>1, <2>1
  <2>2. CASE of("original") # {}
    <3> DEFINE m == CHOOSE m \in of("original") : TRUE
    <3>1. m \in of("original")
      BY <2>2
    <3>2. original'[f] = m.to
      BY <1>1, <2>2
    <3> HIDE DEF m
    <3> QED
      BY <1>2, <3>1, <3>2
  <2> QED
    BY <2>1, <2>2
<1> QED
  BY <1>1, <1>3, <1>4

LEMMA RelocatedTypes ==
    ASSUME Shape, NEW ms, ms \subseteq Moves, Relocate(ms),
           UNCHANGED <<row, lock>>, mishap' \in BOOLEAN,
           item' \in [Items -> ItemRow]
    PROVE  FilesTypeOK'
<1>1. \A m \in Moves : m.to \in Places
  BY DEF Moves
<1>2. original' = [f \in Files |-> original'[f]] /\ thumb' = [f \in Files |-> thumb'[f]]
  BY DEF Relocate
<1>3. ASSUME NEW f \in Files
      PROVE  /\ original'[f] \in {"unborn", "gone", "live"} \cup Items
             /\ thumb'[f] \in SUBSET ({"live"} \cup Items)
             /\ thumb'[f] # {} => f \in Images
  <2>1. /\ original[f] \in {"unborn", "gone", "live"} \cup Items
        /\ thumb[f] \in SUBSET ({"live"} \cup Items)
        /\ thumb[f] # {} => f \in Images
    BY DEF Shape, FilesTypeOK
  <2> QED
    BY <1>1, <2>1, Relocated DEF Places
<1>4. \A k \in Items : item'[k].state \in {"unborn", "held", "kept", "gone"}
  BY DEF ItemRow
<1>5. /\ original' \in [Files -> {"unborn", "gone", "live"} \cup Items]
      /\ thumb' \in [Files -> SUBSET ({"live"} \cup Items)]
  BY <1>2, <1>3
<1> QED
  BY <1>3, <1>4, <1>5 DEF Shape, FilesTypeOK

(* Files stay in the directories of items that have their rows.            *)
LEMMA RelocatedDirs ==
    ASSUME FilesInv, NEW ms, \A m \in ms : MoveOK(m), Relocate(ms),
           UNCHANGED <<row, item>>, NEW f \in Files
    PROVE  BornOK(f)' /\ DirOK(f)'
<1>1. BornOK(f) /\ DirOK(f) /\ Shape
  BY DEF FilesInv
<1>2. ms \subseteq Moves
  BY DEF MoveOK
<1>3. \A k \in Items : Snapped(k)' = Snapped(k)
  BY DEF Snapped
<1>4. /\ \/ original'[f] = original[f]
         \/ \E m \in ms : m.key = f /\ original'[f] = m.to /\ original[f] = m.from
      /\ \A p \in thumb'[f] : \/ p \in thumb[f]
                              \/ \E m \in ms : m.key = f /\ p = m.to
  BY <1>1, <1>2, Relocated
<1>5. BornOK(f)'
  <2>1. \A m \in Moves : m.to # "unborn"
    BY FilesAssumption DEF Moves, Places
  <2>2. original[f] # "unborn" => original'[f] # "unborn"
    BY <1>2, <1>4, <2>1
  <2> QED
    BY <1>1, <1>3, <2>2 DEF BornOK
<1>6. DirOK(f)'
  <2> SUFFICES ASSUME NEW k \in Items, At(f, k)'
               PROVE  f \in Snapped(k)
    BY <1>3 DEF DirOK
  <2>1. CASE At(f, k)
    BY <1>1, <2>1 DEF DirOK
  <2>2. CASE ~At(f, k)
    <3>1. \E m \in ms : m.key = f /\ k = m.to
      BY <1>4, <2>2 DEF At
    <3> QED
      BY <3>1 DEF MoveOK
  <2> QED
    BY <2>1, <2>2
<1> QED
  BY <1>5, <1>6

(* A single move, exactly. *)
LEMMA OneMove ==
    ASSUME Shape, NEW m \in Moves, Relocate({m}), NEW f \in Files
    PROVE  /\ original'[f] = IF f = m.key /\ m.piece = "original" /\ original[f] = m.from
                             THEN m.to ELSE original[f]
           /\ thumb'[f] = IF f = m.key /\ m.piece = "thumbnail" /\ m.from \in thumb[f]
                          THEN (thumb[f] \ {m.from}) \cup {m.to} ELSE thumb[f]
<1> DEFINE of(piece) == {n \in {m} : n.key = f /\ n.piece = piece /\ IsAt(n)}
<1>1. /\ original'[f] = IF of("original") = {} THEN original[f]
                        ELSE (CHOOSE n \in of("original") : TRUE).to
      /\ thumb'[f] = (thumb[f] \ {n.from : n \in of("thumbnail")})
                       \cup {n.to : n \in of("thumbnail")}
  BY DEF Relocate
<1>2. \A piece : of(piece) = IF m.key = f /\ m.piece = piece /\ IsAt(m) THEN {m} ELSE {}
  OBVIOUS
<1>3. (CHOOSE n \in {m} : TRUE) = m
  OBVIOUS
<1>4. /\ m.key = f /\ m.piece = "original" => (IsAt(m) <=> original[f] = m.from)
      /\ m.key = f /\ m.piece = "thumbnail" => (IsAt(m) <=> m.from \in thumb[f])
  BY DEF IsAt
<1> HIDE DEF of
<1>5. original'[f] = IF f = m.key /\ m.piece = "original" /\ original[f] = m.from
                     THEN m.to ELSE original[f]
  BY <1>1, <1>2, <1>3, <1>4
<1>6. CASE m.key = f /\ m.piece = "thumbnail" /\ IsAt(m)
  <2>1. of("thumbnail") = {m}
    BY <1>2, <1>6
  <2> QED
    BY <1>1, <1>4, <1>5, <1>6, <2>1
<1>7. CASE ~(m.key = f /\ m.piece = "thumbnail" /\ IsAt(m))
  <2>1. of("thumbnail") = {}
    BY <1>2, <1>7
  <2> QED
    BY <1>1, <1>4, <1>5, <1>7, <2>1
<1> QED
  BY <1>6, <1>7

----------------------------------------------------------------------------
LEMMA IdleIs == Idle.step = "idle"
  BY DEF Idle

LEMMA GoesOn ==
    ASSUME FilesInv, NEW r \in Requests, NEW q, Goto(r, q)
    PROVE  /\ job'[r] = q /\ job' = [job EXCEPT ![r] = job'[r]]
           /\ \A s \in Requests \ {r} : job'[s] = job[s]
  BY DEF FilesInv, Shape, Goto

LEMMA Distinct ==
    /\ Home \notin Files /\ Home \in Keys /\ Files \subseteq Keys
    /\ NoOne \notin Requests
    /\ "live" \notin Items /\ "gone" \notin Items /\ "unborn" \notin Items
  BY FilesAssumption DEF Home, Keys, NoOne

LEMMA FilesStart == Init => FilesInv
<1> SUFFICES ASSUME Init PROVE FilesInv
  OBVIOUS
<1> USE DEF Init
<1>1. /\ \A k \in Items : item[k] = Empty /\ Snapped(k) = {}
      /\ \A r \in Requests : job[r] = Idle
      /\ \A x \in Keys : lock[x] = NoOne
      /\ Empty \in ItemRow /\ Empty.state = "unborn" /\ Empty.rows[Home] = "none"
  BY Distinct DEF Empty, Snapped, Held, ItemRow, States
<1>2. Shape
  <2>1. FilesTypeOK
    BY <1>1, Distinct DEF FilesTypeOK, Held
  <2> QED
    BY <1>1, <2>1 DEF Shape
<1>3. \A k \in Items : ItemOK(k)
  BY <1>1 DEF ItemOK
<1>4. \A r \in Requests : JobOK(r) /\ InsertsOK(r)
  BY <1>1, IdleIs DEF JobOK, InsertsOK, Restores
<1>5. OwnersOK
  BY <1>1, IdleIs DEF OwnersOK, Deletes
<1>6. LocksOK
  BY <1>1, Distinct DEF LocksOK, LockOK, KeyOK
<1>7. \A f \in Files : BornOK(f) /\ DirOK(f)
  BY <1>1, Distinct DEF BornOK, DirOK, At, Held
<1> QED
  BY <1>2, <1>3, <1>4, <1>5, <1>6, <1>7 DEF FilesInv

LEMMA UploadKeeps ==
    ASSUME FilesInv, NEW f \in Files, Upload(f) \/ MakeThumbnail(f)
    PROVE  FilesInv'
<1>1. /\ UNCHANGED <<row, lock, item, job, mishap>>
      /\ \A g \in Files : /\ original'[g] = original[g] \/ original'[g] = "live"
                          /\ thumb'[g] = thumb[g] \/ (g \in Images /\ thumb'[g] = thumb[g] \cup {"live"})
      /\ DOMAIN original' = Files /\ DOMAIN thumb' = Files
      /\ original' = [g \in Files |-> original'[g]] /\ thumb' = [g \in Files |-> thumb'[g]]
  BY DEF FilesInv, Shape, FilesTypeOK, Upload, MakeThumbnail
<1>2. FilesTypeOK'
  <2>1. \A g \in Files : /\ original'[g] \in {"unborn", "gone", "live"} \cup Items
                         /\ thumb'[g] \in SUBSET ({"live"} \cup Items)
                         /\ thumb'[g] # {} => g \in Images
    BY <1>1 DEF FilesInv, Shape, FilesTypeOK
  <2>2. /\ original' \in [Files -> {"unborn", "gone", "live"} \cup Items]
        /\ thumb' \in [Files -> SUBSET ({"live"} \cup Items)]
    BY <1>1, <2>1
  <2> QED
    BY <1>1, <2>1, <2>2 DEF FilesInv, Shape, FilesTypeOK
<1>3. \A g \in Files : BornOK(g)' /\ DirOK(g)'
  <2>1. \A k \in Items : Snapped(k)' = Snapped(k)
    BY <1>1 DEF Snapped
  <2>2. \A g \in Files, k \in Items : At(g, k)' => At(g, k)
    BY <1>1, Distinct DEF At
  <2>3. \A g \in Files : BornOK(g) /\ DirOK(g)
    BY DEF FilesInv
  <2> QED
    BY <1>1, <2>1, <2>2, <2>3 DEF BornOK, DirOK
<1> QED
  BY <1>1, <1>2, <1>3, BytesOnly

LEMMA AttachKeeps ==
    ASSUME FilesInv, NEW r \in Requests, NEW f \in Files, Attach(r, f)
    PROVE  FilesInv'
<1>1. /\ row[f] = "none" /\ original[f] = "live" /\ row[Home] = "kept" /\ lock[Home] = NoOne
      /\ \A k \in Items : f \notin Snapped(k)
      /\ row' = [row EXCEPT ![f] = "kept"]
      /\ UNCHANGED <<lock, original, thumb, item, job, mishap>>
  BY DEF Attach, Fresh, Snapped, Held
<1>2. \A x \in Keys : row'[x] = IF x = f THEN "kept" ELSE row[x]
  BY <1>1, Distinct DEF FilesInv, Shape, FilesTypeOK
<1>3. FilesTypeOK'
  BY <1>1, <1>2, Distinct DEF FilesInv, Shape, FilesTypeOK, Held
<1>4. lock[f] = NoOne
  <2>1. SUFFICES ASSUME lock[f] # NoOne PROVE FALSE
    OBVIOUS
  <2>2. LockOK(f) /\ lock[f] \in Requests /\ JobOK(lock[f])
    BY <2>1, Distinct DEF FilesInv, LocksOK, Shape, FilesTypeOK
  <2>3. RunOK(lock[f]) /\ job[lock[f]].kind \in {"delete", "restore"}
    BY <2>1, <2>2 DEF LockOK, JobOK, RunOK, Runs
  <2>4. CASE job[lock[f]].kind = "delete"
    BY <1>1, <2>1, <2>2, <2>4 DEF LockOK, Held
  <2>5. CASE job[lock[f]].kind = "restore"
    BY <1>1, <2>1, <2>2, <2>3, <2>5 DEF LockOK, RunOK
  <2> QED
    BY <2>3, <2>4, <2>5
<1>5. \A k : Snapped(k)' = Snapped(k)
  BY <1>1, JobsStay
<1>6. LocksOK'
  <2>1. \A x \in Keys \ {f} : LockOK(x)'
    BY <1>1, <1>2, <1>5 DEF FilesInv, LocksOK, LockOK
  <2>2. LockOK(f)'
    BY <1>1, <1>4 DEF LockOK
  <2>3. \A g \in Files : KeyOK(g)'
    BY <1>1, <1>2, <1>4, Distinct DEF FilesInv, LocksOK, KeyOK
  <2> QED
    BY <2>1, <2>2, <2>3 DEF LocksOK
<1>7. \A g \in Files : BornOK(g)' /\ DirOK(g)'
  <2>1. \A g \in Files : BornOK(g) /\ DirOK(g)
    BY DEF FilesInv
  <2> QED
    BY <1>1, <1>2, <1>5, <2>1, Distinct DEF BornOK, DirOK, At
<1>8. Shape' /\ \A s \in Requests : InsertsOK(s)'
  BY <1>1, <1>3, <1>5 DEF FilesInv, Shape, InsertsOK, Restores
<1> QED
  BY <1>1, <1>6, <1>7, <1>8, JobsStay DEF FilesInv

(* Steps of a request that is not running a script. *)
LEMMA BeginBesideKeeps ==
    ASSUME FilesInv, NEW r \in Requests,
           \/ \E f \in Files : StartCleanUp(r, f)
           \/ \E k \in Items : StartErase(r, k)
           \/ \E due \in SUBSET Files : StartRetention(r, due)
    PROVE  FilesInv'
<1>1. UNCHANGED <<row, lock, original, thumb, item, mishap>> /\ job[r] = Idle
  BY DEF StartCleanUp, StartErase, StartRetention
<1>2. /\ job' = [job EXCEPT ![r] = job'[r]]
      /\ \/ job'[r].step = "clean up" /\ job'[r].file \in Files
         \/ /\ job'[r].step = "erase"
            /\ \E k \in Items : item[k].state = "kept" /\ job'[r].items = {k}
         \/ job'[r].step = "retain" /\ job'[r] \in Retaining
  <2>1. ASSUME NEW f \in Files, StartCleanUp(r, f)
        PROVE  /\ job' = [job EXCEPT ![r] = job'[r]]
               /\ job'[r] = [step |-> "clean up", file |-> f]
    BY <2>1, GoesOn DEF StartCleanUp
  <2>2. ASSUME NEW k \in Items, StartErase(r, k)
        PROVE  /\ job' = [job EXCEPT ![r] = job'[r]] /\ item[k].state = "kept"
               /\ job'[r] = [step |-> "erase", items |-> {k}]
    BY <2>2, GoesOn DEF StartErase
  <2>3. ASSUME NEW due \in SUBSET Files, StartRetention(r, due)
        PROVE  /\ job' = [job EXCEPT ![r] = job'[r]]
               /\ job'[r] = [step |-> "retain", left |-> due, marked |-> {}]
    BY <2>3, GoesOn DEF StartRetention
  <2>4. CASE \E f \in Files : StartCleanUp(r, f)
    <3>1. PICK f \in Files : StartCleanUp(r, f)
      BY <2>4
    <3> DEFINE q == [step |-> "clean up", file |-> f]
    <3>2. job'[r] = q
      BY <2>1, <3>1
    <3>3. q.step = "clean up" /\ q.file = f
      OBVIOUS
    <3> HIDE DEF q
    <3> QED
      BY <2>1, <3>1, <3>2, <3>3
  <2>5. CASE \E k \in Items : StartErase(r, k)
    <3>1. PICK k \in Items : StartErase(r, k)
      BY <2>5
    <3>2. job'[r] = [step |-> "erase", items |-> {k}] /\ item[k].state = "kept"
      BY <2>2, <3>1
    <3>3. job'[r].step = "erase" /\ job'[r].items = {k}
      BY <3>2
    <3> QED
      BY <2>2, <3>1, <3>2, <3>3
  <2>6. CASE \E due \in SUBSET Files : StartRetention(r, due)
    <3>1. PICK due \in SUBSET Files : StartRetention(r, due)
      BY <2>6
    <3>2. job'[r] = [step |-> "retain", left |-> due, marked |-> {}]
      BY <2>3, <3>1
    <3>3. job'[r].step = "retain" /\ job'[r] \in Retaining
      BY <3>2 DEF Retaining
    <3> QED
      BY <2>3, <3>1, <3>3
  <2> QED
    BY <2>4, <2>5, <2>6
<1>3. job[r].step # "run" /\ job'[r].step # "run"
  BY <1>1, <1>2, IdleIs
<1>4. JobOK(r)'
  BY <1>1, <1>2 DEF JobOK
<1>5. ItemsGo(r)
  BY <1>1 DEF ItemsGo
<1>6. FilesTypeOK' /\ item' \in [Items -> ItemRow]
  BY <1>1 DEF FilesInv, Shape, FilesTypeOK
<1>7. (\A k \in Items : ItemOK(k)') /\ \A f \in Files : BornOK(f)' /\ DirOK(f)'
  BY <1>1 DEF FilesInv, ItemOK, Snapped, BornOK, DirOK, At
<1> QED
  BY <1>1, <1>2, <1>3, <1>4, <1>5, <1>6, <1>7, BesideRows

(* Bytes that are taken away. *)
LEMMA RemoveKeeps ==
    ASSUME FilesInv, NEW r \in Requests, CleanUp(r) \/ RemoveDirectory(r)
    PROVE  FilesInv'
<1>1. UNCHANGED <<row, lock, item, mishap>> /\ job[r].step \in {"clean up", "remove"}
  BY DEF CleanUp, RemoveDirectory
<1>2. job' = [job EXCEPT ![r] = job'[r]] /\ job'[r] = Idle
  BY GoesOn DEF CleanUp, RemoveDirectory
<1>3. /\ \A f \in Files : original'[f] \in {original[f], "gone"} /\ thumb'[f] \subseteq thumb[f]
      /\ original' = [f \in Files |-> original'[f]] /\ thumb' = [f \in Files |-> thumb'[f]]
  <2>1. CASE CleanUp(r)
    <3>1. job[r].file \in Files
      BY <2>1 DEF FilesInv, JobOK, CleanUp
    <3> QED
      BY <2>1, <3>1 DEF FilesInv, Shape, FilesTypeOK, CleanUp
  <2>2. CASE RemoveDirectory(r)
    BY <2>2 DEF RemoveDirectory
  <2> QED
    BY <2>1, <2>2
<1>4. FilesTypeOK' /\ item' \in [Items -> ItemRow]
  <2>1. /\ original' \in [Files -> {"unborn", "gone", "live"} \cup Items]
        /\ thumb' \in [Files -> SUBSET ({"live"} \cup Items)]
        /\ \A f \in Files : thumb'[f] # {} => f \in Images
    BY <1>3 DEF FilesInv, Shape, FilesTypeOK
  <2> QED
    BY <1>1, <2>1 DEF FilesInv, Shape, FilesTypeOK
<1>5. \A f \in Files : BornOK(f)' /\ DirOK(f)'
  BY <1>1, <1>3, Distinct DEF FilesInv, Snapped, BornOK, DirOK, At
<1>6. (\A k \in Items : ItemOK(k)') /\ ItemsGo(r)
  BY <1>1 DEF FilesInv, ItemOK, Snapped, ItemsGo
<1>7. JobOK(r)' /\ job'[r].step # "run"
  BY <1>2, IdleIs DEF JobOK
<1> QED
  BY <1>1, <1>2, <1>4, <1>5, <1>6, <1>7, BesideRows

LEMMA EraseKeeps ==
    ASSUME FilesInv, NEW r \in Requests, Erase(r)
    PROVE  FilesInv'
<1>1. /\ UNCHANGED <<row, lock, original, thumb, mishap>> /\ job[r].step = "erase"
      /\ job[r].items \subseteq Items
      /\ \A k \in job[r].items : item[k].state \in {"kept", "gone"}
  BY DEF Erase, FilesInv, JobOK
<1>2. /\ job' = [job EXCEPT ![r] = job'[r]]
      /\ job'[r] = [step |-> "remove", items |-> job[r].items]
  BY GoesOn DEF Erase
<1>3. /\ item' \in [Items -> ItemRow]
      /\ \A k \in Items : /\ item'[k].rows = item[k].rows
                          /\ item'[k].state = IF k \in job[r].items THEN "gone" ELSE item[k].state
                          /\ k \notin job[r].items => item'[k] = item[k]
  BY <1>1 DEF Erase, FilesInv, Shape, ItemRow
<1>4. ItemsGo(r)
  BY <1>1, <1>3 DEF ItemsGo
<1>5. \A k \in Items : Snapped(k)' = Snapped(k)
  BY <1>3 DEF Snapped
<1>6. FilesTypeOK'
  BY <1>1, <1>3 DEF FilesInv, Shape, FilesTypeOK
<1>7. \A k \in Items : ItemOK(k)'
  BY <1>3, <1>5 DEF FilesInv, ItemOK
<1>8. \A f \in Files : BornOK(f)' /\ DirOK(f)'
  BY <1>1, <1>5 DEF FilesInv, BornOK, DirOK, At
<1>9. JobOK(r)' /\ job'[r].step # "run"
  BY <1>1, <1>2, <1>3 DEF JobOK
<1> QED
  BY <1>1, <1>2, <1>3, <1>4, <1>6, <1>7, <1>8, <1>9, BesideRows

LEMMA PutBackKeeps ==
    ASSUME FilesInv, NEW r \in Requests, PutBack(r)
    PROVE  FilesInv'
<1> DEFINE ms == {Reversal(m) : m \in Range(job[r].moved)}
<1>1. UNCHANGED <<row, lock, item, mishap>> /\ job[r].step = "put back" /\ Relocate(ms)
  BY DEF PutBack
<1>2. job' = [job EXCEPT ![r] = job'[r]] /\ job'[r] = Idle
  BY GoesOn DEF PutBack
<1>3. \A m \in Range(job[r].moved) : MoveOK(m)
  BY <1>1 DEF FilesInv, JobOK
<1>4. \A m : MoveOK(m) => MoveOK(Reversal(m))
  <2> SUFFICES ASSUME NEW m, MoveOK(m) PROVE MoveOK(Reversal(m))
    OBVIOUS
  <2>1. Reversal(m) \in Moves /\ Reversal(m).from = m.to /\ Reversal(m).to = m.from
        /\ Reversal(m).key = m.key
    BY DEF MoveOK, Moves, Reversal
  <2> QED
    BY <2>1 DEF MoveOK
<1>5. \A m \in ms : MoveOK(m)
  BY <1>3, <1>4
<1> HIDE DEF ms
<1>6. ms \subseteq Moves
  BY <1>5 DEF MoveOK
<1>7. FilesTypeOK' /\ item' \in [Items -> ItemRow]
  BY <1>1, <1>6, RelocatedTypes DEF FilesInv, Shape, FilesTypeOK
<1>8. \A f \in Files : BornOK(f)' /\ DirOK(f)'
  BY <1>1, <1>5, RelocatedDirs
<1>9. (\A k \in Items : ItemOK(k)') /\ ItemsGo(r)
  BY <1>1 DEF FilesInv, ItemOK, Snapped, ItemsGo
<1>10. JobOK(r)' /\ job'[r].step # "run"
  BY <1>2, IdleIs DEF JobOK
<1> QED
  BY <1>1, <1>2, <1>7, <1>8, <1>9, <1>10, BesideRows

LEMMA RetainKeeps ==
    ASSUME FilesInv, NEW r \in Requests, Consider(r) \/ Unlink(r)
    PROVE  FilesInv'
<1>1. UNCHANGED <<row, lock, item, mishap>> /\ job[r].step \in {"retain", "unlink"}
  BY DEF Consider, Unlink
<1>2. /\ job[r].left \subseteq Files /\ job[r].marked \subseteq Files
      /\ job[r].step = "retain" => job[r] \in Retaining
      /\ job[r].step = "unlink" => job[r].file \in Files
  BY <1>1 DEF FilesInv, JobOK, Retaining, Unlinking
<1>3. /\ job' = [job EXCEPT ![r] = job'[r]]
      /\ job'[r].step = "retain" => job'[r] \in Retaining
      /\ job'[r].step = "unlink" => job'[r] \in Unlinking
      /\ job'[r].step \in {"retain", "unlink"}
  <2>1. CASE Consider(r)
    <3>1. PICK f \in job[r].left, here \in BOOLEAN :
              \/ Goto(r, [step |-> "unlink", left |-> job[r].left \ {f},
                          marked |-> job[r].marked, file |-> f, here |-> here])
              \/ Goto(r, [job[r] EXCEPT !.left = @ \ {f}])
      BY <2>1 DEF Consider
    <3>2. /\ [step |-> "unlink", left |-> job[r].left \ {f},
              marked |-> job[r].marked, file |-> f, here |-> here] \in Unlinking
          /\ [job[r] EXCEPT !.left = @ \ {f}] \in Retaining
      BY <1>2, <2>1 DEF Consider, Retaining, Unlinking
    <3>3. job' = [job EXCEPT ![r] = job'[r]] /\ job'[r] \in Unlinking \cup Retaining
      BY <3>1, <3>2, GoesOn
    <3> QED
      BY <3>3 DEF Unlinking, Retaining
  <2>2. CASE Unlink(r)
    <3>1. PICK marked \in SUBSET Files :
              Goto(r, [step |-> "retain", left |-> job[r].left, marked |-> marked])
      BY <1>2, <2>2 DEF Unlink
    <3>2. job' = [job EXCEPT ![r] = job'[r]] /\ job'[r] \in Retaining
      BY <1>2, <3>1, GoesOn DEF Retaining
    <3> QED
      BY <3>2 DEF Retaining
  <2> QED
    BY <2>1, <2>2
<1>4. /\ original' \in [Files -> {"unborn", "gone", "live"} \cup Items]
      /\ thumb' \in [Files -> SUBSET ({"live"} \cup Items)]
      /\ \A f \in Files : /\ thumb'[f] # {} => f \in Images
                          /\ original[f] # "unborn" => original'[f] # "unborn"
                          /\ \A k \in Items : At(f, k)' => At(f, k)
  <2>1. /\ original \in [Files -> {"unborn", "gone", "live"} \cup Items]
        /\ thumb \in [Files -> SUBSET ({"live"} \cup Items)]
        /\ \A f \in Files : thumb[f] # {} => f \in Images
    BY DEF FilesInv, Shape, FilesTypeOK
  <2>2. CASE Consider(r)
    <3>1. PICK f \in job[r].left :
              /\ \/ thumb' = [thumb EXCEPT ![f] = thumb[f] \cup {"live"}]
                    /\ (f \in Images \/ thumb[f] # {})
                 \/ thumb' = [thumb EXCEPT ![f] = thumb[f]]
              /\ original' = original
      BY <2>2 DEF Consider
    <3>2. \A g \in Files : \/ thumb'[g] = thumb[g]
                           \/ thumb'[g] = thumb[g] \cup {"live"} /\ g \in Images
      BY <1>2, <2>1, <3>1
    <3>3. thumb' = [g \in Files |-> thumb'[g]]
      BY <2>1, <3>1
    <3>4. thumb' \in [Files -> SUBSET ({"live"} \cup Items)]
      BY <2>1, <3>2, <3>3
    <3> QED
      BY <2>1, <3>1, <3>2, <3>4, Distinct DEF At
  <2>3. CASE Unlink(r)
    BY <1>2, <2>1, <2>3, Distinct DEF Unlink, At
  <2> QED
    BY <2>2, <2>3
<1>5. FilesTypeOK' /\ item' \in [Items -> ItemRow]
  BY <1>1, <1>4 DEF FilesInv, Shape, FilesTypeOK
<1>6. \A f \in Files : BornOK(f)' /\ DirOK(f)'
  BY <1>1, <1>4 DEF FilesInv, Snapped, BornOK, DirOK
<1>7. (\A k \in Items : ItemOK(k)') /\ ItemsGo(r)
  BY <1>1 DEF FilesInv, ItemOK, Snapped, ItemsGo
<1>8. JobOK(r)' /\ job'[r].step # "run"
  BY <1>3 DEF JobOK
<1> QED
  BY <1>1, <1>3, <1>5, <1>6, <1>7, <1>8, BesideRows

LEMMA MarksKeep ==
    ASSUME FilesInv, NEW r \in Requests, CommitMarks(r)
    PROVE  FilesInv'
<1> DEFINE purges == {x \in job[r].marked : ~\E f \in job[r].marked : row[f] = "none"}
<1>1. /\ job[r].step = "retain" /\ job[r].marked \subseteq Files
      /\ mishap' \in BOOLEAN
      /\ UNCHANGED <<lock, original, thumb, item>>
  BY DEF CommitMarks, FilesInv, JobOK, Retaining, Shape, FilesTypeOK
<1>2. job' = [job EXCEPT ![r] = job'[r]] /\ job'[r] = Idle
  BY GoesOn DEF CommitMarks
<1>3. row' = [x \in Keys |-> IF x \in purges THEN "purged" ELSE row[x]]
  BY DEF CommitMarks
<1>4. \A x \in purges : row[x] \in Held /\ x \in Files
  BY <1>1, Distinct DEF FilesInv, Shape, FilesTypeOK, Held
<1> HIDE DEF purges
<1>5. /\ \A x \in Keys : /\ row'[x] \in Held <=> row[x] \in Held
                         /\ row'[x] = "none" <=> row[x] = "none"
      /\ row'[Home] = row[Home]
  BY <1>3, <1>4, Distinct DEF Held
<1>6. FilesTypeOK' /\ item' \in [Items -> ItemRow]
  <2>1. row' \in [Keys -> {"none", "kept", "purged"}]
    BY <1>3 DEF FilesInv, Shape, FilesTypeOK
  <2> QED
    BY <1>1, <1>5, <2>1, Distinct DEF FilesInv, Shape, FilesTypeOK
<1>7. \A f \in Files : BornOK(f)' /\ DirOK(f)'
  BY <1>1, <1>5, Distinct DEF FilesInv, Snapped, BornOK, DirOK, At
<1>8. (\A k \in Items : ItemOK(k)') /\ ItemsGo(r)
  BY <1>1 DEF FilesInv, ItemOK, Snapped, ItemsGo
<1>9. JobOK(r)' /\ job'[r].step # "run" /\ job[r].step # "run"
  BY <1>1, <1>2, IdleIs DEF JobOK
<1>10. LocksOK'
  BY <1>1, <1>2, <1>5, <1>8, <1>9, LocksStay
<1>11. InsertsOK(r)' /\ \A k \in Items : ~Deletes(r, k)'
  BY <1>9 DEF InsertsOK, Restores, Deletes
<1> QED
  BY <1>1, <1>2, <1>6, <1>7, <1>8, <1>9, <1>10, <1>11, RequestKeeps

----------------------------------------------------------------------------
(* A delete begins: new items take the rows, the script names only them.   *)
Binned(r, ids, taken, script) ==
    /\ job[r] = Idle
    /\ \A k \in ids : item[k].state = "unborn" /\ item'[k] = Snapshot(taken[k])
    /\ \A k \in ids : \A x \in taken[k] : row[x] \in Held
    /\ \A k, l \in ids : taken[k] \cap taken[l] # {} => k = l
    /\ \A k \in Items \ ids : item'[k] = item[k]
    /\ item' = [k \in Items |-> item'[k]]
    /\ \A s \in Range(script) :
         \/ s.op = "delete"
         \/ s \in Moves /\ s.from = "live" /\ s.to \in ids /\ s.key \in taken[s.to]
    /\ \A k \in ids : \A x \in taken[k] : Statement("delete", x) \in Range(script)
    /\ \A k \in ids, piece \in {"original", "thumbnail"} : \A f \in taken[k] \cap Files :
         Move(f, piece, "live", k) \in Range(script)
    /\ Goto(r, Running(script, "delete", ids))
    /\ UNCHANGED <<row, lock, original, thumb, mishap>>

Binning(r) ==
    \E ids \in SUBSET Items : \E taken \in [ids -> SUBSET Keys], script \in Seq(Steps) :
        Binned(r, ids, taken, script)

LEMMA ProjectIsBinned ==
    ASSUME FilesInv, NEW r \in Requests, StartDeleteProject(r)
    PROVE  Binning(r)
<1>0. PICK keys \in SUBSET Keys : keys = {x \in Keys : row[x] \in Held}
  OBVIOUS
<1>1. PICK k \in Items, o \in OrdersOf(keys \ {Home}) :
          /\ item[k].state = "unborn"
          /\ item' = [item EXCEPT ![k] = Snapshot(keys)]
          /\ Goto(r, Running(DeleteScript(k, keys, o), "delete", {k}))
  BY <1>0 DEF StartDeleteProject
<1>2. job[r] = Idle /\ UNCHANGED <<row, lock, original, thumb, mishap>>
  BY DEF StartDeleteProject
<1> DEFINE script == DeleteScript(k, keys, o)
           ids == {k}
           taken == [l \in ids |-> keys]
<1>3. /\ script \in Seq(Steps)
      /\ \A s : s \in Range(script) <=>
           \/ \E x \in keys : s = Statement("delete", x)
           \/ \E f \in keys \ {Home}, piece \in {"original", "thumbnail"} :
                  s = Move(f, piece, "live", k)
  BY DeletesThenMoves
<1>4. \A s \in Range(script) :
          \/ s.op = "delete"
          \/ s \in Moves /\ s.from = "live" /\ s.to \in ids /\ s.key \in taken[s.to]
  <2>1. \A x : Statement("delete", x).op = "delete"
    BY DEF Statement
  <2>2. \A f \in keys \ {Home}, piece \in {"original", "thumbnail"} :
            LET s == Move(f, piece, "live", k)
            IN  s \in Moves /\ s.from = "live" /\ s.to = k /\ s.key = f
    BY DEF Move, Moves, Places, Keys
  <2> HIDE DEF script
  <2> QED
    BY <1>3, <2>1, <2>2
<1>5. /\ \A l \in ids : \A x \in taken[l] : Statement("delete", x) \in Range(script)
      /\ \A l \in ids, piece \in {"original", "thumbnail"} : \A f \in taken[l] \cap Files :
           Move(f, piece, "live", l) \in Range(script)
  <2> HIDE DEF script
  <2> QED
    BY <1>3, Distinct
<1>6. /\ item' = [l \in Items |-> item'[l]]
      /\ item'[k] = Snapshot(keys) /\ \A l \in Items \ ids : item'[l] = item[l]
  BY <1>1 DEF FilesInv, Shape
<1>7. /\ taken \in [ids -> SUBSET Keys] /\ ids \in SUBSET Items
      /\ \A l \in ids : \A x \in taken[l] : row[x] \in Held
      /\ \A l, m \in ids : taken[l] \cap taken[m] # {} => l = m
      /\ \A l \in ids : item[l].state = "unborn" /\ item'[l] = Snapshot(taken[l])
  BY <1>0, <1>1, <1>6
<1>8. Goto(r, Running(script, "delete", ids))
  BY <1>1
<1> HIDE DEF script, taken, ids
<1>9. Binned(r, ids, taken, script)
  BY <1>2, <1>4, <1>5, <1>6, <1>7, <1>8 DEF Binned
<1> QED
  BY <1>3, <1>7, <1>9 DEF Binning

LEMMA FilesAreBinned ==
    ASSUME FilesInv, NEW r \in Requests, NEW files \in SUBSET Files, StartDeleteFiles(r, files)
    PROVE  Binning(r)
<1>1. PICK id \in [files -> Items], o \in OrdersOf(files) :
          /\ IsInjective(id)
          /\ \A f \in files : item[id[f]].state = "unborn"
          /\ item' = [k \in Items |->
               IF k \in Range(id) THEN Snapshot({f \in files : id[f] = k}) ELSE item[k]]
          /\ Goto(r, Running(DeleteEach(id, o), "delete", Range(id)))
  BY DEF StartDeleteFiles
<1>2. /\ job[r] = Idle /\ \A f \in files : row[f] \in Held
      /\ UNCHANGED <<row, lock, original, thumb, mishap>>
  BY DEF StartDeleteFiles
<1> DEFINE ids == Range(id)
           script == DeleteEach(id, o)
           taken == [k \in ids |-> {f \in files : id[f] = k}]
<1>3. /\ ids \in SUBSET Items /\ \A k \in ids : item[k].state = "unborn"
      /\ \A f \in files : id[f] \in ids
  BY <1>1 DEF Range
<1>4. /\ taken \in [ids -> SUBSET Keys] /\ \A k \in ids : \A x \in taken[k] : row[x] \in Held
      /\ \A k, l \in ids : taken[k] \cap taken[l] # {} => k = l
      /\ \A k \in ids : \A f \in taken[k] : f \in files /\ id[f] = k
  BY <1>2, Distinct
<1>5. /\ script \in Seq(Steps)
      /\ \A s : s \in Range(script) <=>
            \E f \in files : \/ s = Statement("delete", f)
                             \/ s = Move(f, "original", "live", id[f])
                             \/ s = Move(f, "thumbnail", "live", id[f])
  BY FilesOneByOne
<1>6. \A f \in files : f \in taken[id[f]]
  BY <1>3
<1> HIDE DEF ids, taken
<1>7. \A s \in Range(script) :
          \/ s.op = "delete"
          \/ s \in Moves /\ s.from = "live" /\ s.to \in ids /\ s.key \in taken[s.to]
  <2>1. \A x : Statement("delete", x).op = "delete"
    BY DEF Statement
  <2>2. \A f \in files, piece \in {"original", "thumbnail"} :
            LET s == Move(f, piece, "live", id[f])
            IN  s \in Moves /\ s.from = "live" /\ s.to = id[f] /\ s.key = f
    BY DEF Move, Moves, Places
  <2> HIDE DEF script
  <2> QED
    BY <1>3, <1>5, <1>6, <2>1, <2>2
<1>8. /\ item' = [k \in Items |-> item'[k]]
      /\ \A k \in ids : item[k].state = "unborn" /\ item'[k] = Snapshot(taken[k])
      /\ \A k \in Items \ ids : item'[k] = item[k]
  BY <1>1, <1>3 DEF ids, taken
<1> HIDE DEF script
<1>9. /\ \A k \in ids : \A x \in taken[k] : Statement("delete", x) \in Range(script)
      /\ \A k \in ids, piece \in {"original", "thumbnail"} : \A f \in taken[k] \cap Files :
           Move(f, piece, "live", k) \in Range(script)
  BY <1>4, <1>5
<1>10. Goto(r, Running(script, "delete", ids))
  BY <1>1 DEF script, ids
<1>11. Binned(r, ids, taken, script)
  BY <1>2, <1>4, <1>7, <1>8, <1>9, <1>10 DEF Binned
<1> QED
  BY <1>3, <1>4, <1>5, <1>11 DEF Binning

(* The new items. *)
LEMMA BinnedItems ==
    ASSUME FilesInv, NEW taken, NEW k,
           taken[k] \subseteq Keys, \A x \in taken[k] : row[x] \in Held,
           item'[k] = Snapshot(taken[k])
    PROVE  /\ item'[k] \in ItemRow /\ item'[k].state = "held"
           /\ Snapped(k)' = taken[k] /\ item'[k].rows[Home] # "purged"
           /\ \A x \in taken[k] : item'[k].rows[x] = row[x]
<1>1. row \in [Keys -> States]
  BY DEF FilesInv, Shape, FilesTypeOK, States
<1>2. item'[k] = [state |-> "held",
                  rows |-> [x \in Keys |-> IF x \in taken[k] THEN row[x] ELSE "none"]]
  BY DEF Snapshot
<1>3. item'[k].rows = [x \in Keys |-> IF x \in taken[k] THEN row[x] ELSE "none"]
      /\ item'[k].state = "held"
  BY <1>2
<1>4. item'[k].rows \in [Keys -> States]
  BY <1>1, <1>3 DEF States
<1>5. item'[k] \in ItemRow
  BY <1>2, <1>3, <1>4 DEF ItemRow
<1>6. Snapped(k)' = {x \in Keys : item'[k].rows[x] \in Held}
  BY DEF Snapped
<1>7. \A x \in Keys : item'[k].rows[x] \in Held <=> x \in taken[k]
  BY <1>3 DEF Held
<1>8. Snapped(k)' = taken[k]
  BY <1>6, <1>7
<1>9. item'[k].rows[Home] # "purged"
  BY <1>3, Distinct DEF FilesInv, Shape, FilesTypeOK
<1>10. \A x \in taken[k] : item'[k].rows[x] = row[x]
  BY <1>3
<1> QED
  BY <1>3, <1>5, <1>8, <1>9, <1>10

(* The job that makes them. *)
LEMMA BinnedJob ==
    ASSUME FilesInv, NEW r \in Requests, NEW ids \in SUBSET Items, NEW script \in Seq(Steps),
           Goto(r, Running(script, "delete", ids))
    PROVE  /\ job'[r].step = "run" /\ job'[r].kind = "delete" /\ job'[r].script = script
           /\ job'[r].items = ids /\ job'[r].moving = <<>> /\ job'[r].moved = <<>>
           /\ job'[r] \in Runs
           /\ job' = [job EXCEPT ![r] = job'[r]]
<1>1. /\ job' = [job EXCEPT ![r] = job'[r]] /\ job'[r] = Running(script, "delete", ids)
  BY GoesOn
<1>2. <<>> \in Seq(Moves)
  OBVIOUS
<1>3. /\ job'[r].step = "run" /\ job'[r].kind = "delete" /\ job'[r].script = script
      /\ job'[r].items = ids /\ job'[r].moving = <<>> /\ job'[r].moved = <<>>
      /\ job'[r] \in Runs
  BY <1>1, <1>2 DEF Running, Runs
<1> QED
  BY <1>1, <1>3

LEMMA BinningKeeps ==
    ASSUME FilesInv, NEW r \in Requests, Binning(r)
    PROVE  FilesInv'
<1>1. PICK ids \in SUBSET Items : \E taken \in [ids -> SUBSET Keys], script \in Seq(Steps) :
           Binned(r, ids, taken, script)
  BY DEF Binning
<1>2. PICK taken \in [ids -> SUBSET Keys], script \in Seq(Steps) :
           Binned(r, ids, taken, script)
  BY <1>1
<1>3. /\ job[r] = Idle /\ item' = [k \in Items |-> item'[k]]
      /\ \A k \in ids : item[k].state = "unborn"
      /\ \A k \in ids : \A x \in taken[k] : row[x] \in Held
      /\ \A k \in Items \ ids : item'[k] = item[k]
      /\ \A s \in Range(script) :
           \/ s.op = "delete"
           \/ s \in Moves /\ s.from = "live" /\ s.to \in ids /\ s.key \in taken[s.to]
      /\ UNCHANGED <<row, lock, original, thumb, mishap>>
  BY <1>2 DEF Binned
<1>4. ASSUME NEW k \in ids
      PROVE  /\ item'[k] \in ItemRow /\ item'[k].state = "held"
             /\ Snapped(k)' = taken[k] /\ item'[k].rows[Home] # "purged"
  <2>1. item'[k] = Snapshot(taken[k]) /\ taken[k] \subseteq Keys
        /\ \A x \in taken[k] : row[x] \in Held
    BY <1>2 DEF Binned
  <2> QED
    BY <2>1, BinnedItems
<1>5. /\ job'[r].step = "run" /\ job'[r].kind = "delete" /\ job'[r].script = script
      /\ job'[r].items = ids /\ job'[r].moving = <<>> /\ job'[r].moved = <<>>
      /\ job'[r] \in Runs
      /\ job' = [job EXCEPT ![r] = job'[r]]
  <2>1. Goto(r, Running(script, "delete", ids))
    BY <1>2 DEF Binned
  <2> QED
    BY <2>1, BinnedJob
<1>6. \A k \in Items \ ids : Snapped(k)' = Snapped(k)
  BY <1>3 DEF Snapped
<1>7. ItemsGo(r)
  BY <1>3 DEF ItemsGo
<1>8. item' \in [Items -> ItemRow]
  BY <1>3, <1>4 DEF FilesInv, Shape
<1>9. FilesTypeOK'
  <2>1. \A k \in Items : item'[k].state \in {"unborn", "held", "kept", "gone"}
    BY <1>8 DEF ItemRow
  <2> QED
    BY <1>3, <2>1 DEF FilesInv, Shape, FilesTypeOK
<1>10. ASSUME NEW k \in Items
       PROVE  ItemOK(k)'
  <2>1. ItemOK(k)
    BY DEF FilesInv
  <2>2. CASE k \in ids
    BY <1>4, <2>2 DEF ItemOK
  <2>3. CASE k \notin ids
    BY <1>3, <1>6, <2>1, <2>3 DEF ItemOK
  <2> QED
    BY <2>2, <2>3
<1>11. JobOK(r)'
  <2>1. ASSUME NEW s \in Range(script)
        PROVE  StepOK(r, s)'
    <3>1. CASE s.op = "delete"
      BY <1>5, <3>1 DEF StepOK
    <3>2. CASE s \in Moves /\ s.from = "live" /\ s.to \in ids /\ s.key \in taken[s.to]
      <4>1. MoveOK(s)'
        BY <1>4, <3>2, Distinct DEF MoveOK
      <4> QED
        BY <1>5, <3>2, <4>1 DEF StepOK
    <3> QED
      BY <1>3, <3>1, <3>2
  <2>2. RunOK(r)'
    BY <1>4, <1>5, <2>1, NothingLeft DEF RunOK
  <2> QED
    BY <1>5, <2>2 DEF JobOK
<1>12. InsertsOK(r)' /\ \A k \in Items : Deletes(r, k)' => item[k].state = "unborn"
  BY <1>3, <1>5 DEF InsertsOK, Restores, Deletes
<1>13. LocksOK'
  <2>1. job[r].step # "run"
    BY <1>3, IdleIs
  <2> QED
    BY <1>3, <1>5, <1>7, <2>1, Distinct, LocksStay
<1>14. ASSUME NEW f \in Files
       PROVE  BornOK(f)' /\ DirOK(f)'
  <2>1. BornOK(f) /\ DirOK(f)
    BY DEF FilesInv
  <2>2. \A k \in Items : f \in Snapped(k)' => row[f] \in Held \/ f \in Snapped(k)
    BY <1>3, <1>4, <1>6
  <2>3. \A k \in Items : Snapped(k) \subseteq Snapped(k)'
    BY <1>7, SnapshotsStay
  <2> QED
    BY <1>3, <2>1, <2>2, <2>3 DEF BornOK, DirOK, At
<1> QED
  BY <1>3, <1>5, <1>7, <1>8, <1>9, <1>10, <1>11, <1>12, <1>13, <1>14, RequestKeeps

(* What a restore sets out to do. *)
LEMMA RestoreHas ==
    ASSUME NEW r \in Requests, NEW k \in Items, StartRestore(r, k)
    PROVE  \E script \in Seq(Steps) :
             /\ \A s : s \in Range(script) <=>
                  \/ \E x \in Snapped(k) : s = Statement("insert", x)
                  \/ \E f \in Snapped(k) \ {Home}, piece \in {"original", "thumbnail"} :
                         s = Move(f, piece, k, "live")
             /\ InsertsFirst(script)
             /\ Goto(r, Running(script, "restore", {k}))
<1>1. PICK keys \in SUBSET Keys : keys = Snapped(k)
  BY DEF Snapped
<1>2. PICK o \in OrdersOf(keys \ {Home}) :
          Goto(r, Running(RestoreScript(k, keys, o), "restore", {k}))
  BY <1>1 DEF StartRestore, Snapped
<1>3. /\ RestoreScript(k, keys, o) \in Seq(Steps)
      /\ \A s : s \in Range(RestoreScript(k, keys, o)) <=>
           \/ \E x \in keys : s = Statement("insert", x)
           \/ \E f \in keys \ {Home}, piece \in {"original", "thumbnail"} :
                  s = Move(f, piece, k, "live")
      /\ InsertsFirst(RestoreScript(k, keys, o))
  BY InsertsThenMoves
<1> QED
  BY <1>1, <1>2, <1>3

LEMMA StartRestoreKeeps ==
    ASSUME FilesInv, NEW r \in Requests, NEW k \in Items, StartRestore(r, k)
    PROVE  FilesInv'
<1>1. PICK script \in Seq(Steps) :
          /\ \A s : s \in Range(script) <=>
               \/ \E x \in Snapped(k) : s = Statement("insert", x)
               \/ \E f \in Snapped(k) \ {Home}, piece \in {"original", "thumbnail"} :
                      s = Move(f, piece, k, "live")
          /\ Goto(r, Running(script, "restore", {k}))
  BY RestoreHas
<1>2. /\ job[r] = Idle /\ item[k].state = "kept"
      /\ UNCHANGED <<row, lock, original, thumb, item, mishap>>
  BY DEF StartRestore
<1>3. Snapped(k) \in SUBSET Keys
  BY DEF Snapped
<1>6. /\ job' = [job EXCEPT ![r] = job'[r]] /\ job'[r] = Running(script, "restore", {k})
  BY <1>1, GoesOn
<1>7. /\ job'[r].step = "run" /\ job'[r].kind = "restore" /\ job'[r].script = script
      /\ job'[r].items = {k} /\ job'[r].moving = <<>> /\ job'[r].moved = <<>>
      /\ job'[r] \in Runs
  <2>1. <<>> \in Seq(Moves)
    OBVIOUS
  <2> QED
    BY <1>1, <1>6, <2>1 DEF Running, Runs
<1>8. \A l : Snapped(l)' = Snapped(l)
  BY <1>2 DEF Snapped
<1>9. JobOK(r)'
  <2>1. ASSUME NEW s \in Range(script)
        PROVE  StepOK(r, s)'
    <3>1. CASE \E x \in Snapped(k) : s = Statement("insert", x)
      <4>1. s.op = "insert" /\ s.key \in Snapped(k)
        BY <3>1 DEF Statement
      <4> QED
        BY <1>7, <1>8, <4>1 DEF StepOK
    <3>2. CASE \E f \in Snapped(k) \ {Home}, piece \in {"original", "thumbnail"} :
                   s = Move(f, piece, k, "live")
      <4>1. s \in Moves /\ s.from = k /\ s.to = "live" /\ s.key \in Snapped(k)
        BY <1>3, <3>2 DEF Move, Moves, Places, Keys
      <4>2. MoveOK(s)'
        BY <1>8, <4>1, Distinct DEF MoveOK
      <4> QED
        BY <1>7, <4>1, <4>2 DEF StepOK
    <3> QED
      BY <1>1, <3>1, <3>2
  <2>2. RunOK(r)'
    BY <1>2, <1>7, <2>1, NothingLeft DEF RunOK
  <2> QED
    BY <1>7, <2>2 DEF JobOK
<1>10. InsertsOK(r)'
  <2>1. \A l \in Items : Restores(r, l)' => l = k
    BY <1>7 DEF Restores
  <2>2. \A x \in Snapped(k) : Statement("insert", x) \in Range(script)
    BY <1>1
  <2> QED
    BY <1>7, <1>8, <2>1, <2>2 DEF InsertsOK
<1>11. ItemsGo(r) /\ (\A l \in Items : ItemOK(l)') /\ item' \in [Items -> ItemRow]
  BY <1>2, <1>8 DEF FilesInv, Shape, ItemOK, ItemsGo
<1>12. FilesTypeOK' /\ \A f \in Files : BornOK(f)' /\ DirOK(f)'
  BY <1>2, <1>8 DEF FilesInv, Shape, FilesTypeOK, BornOK, DirOK, At
<1>13. LocksOK'
  <2>1. job[r].step # "run"
    BY <1>2, IdleIs
  <2> QED
    BY <1>2, <1>6, <1>11, <2>1, Distinct, LocksStay
<1>14. \A l \in Items : ~Deletes(r, l)'
  BY <1>7 DEF Deletes
<1> QED
  BY <1>2, <1>6, <1>9, <1>10, <1>11, <1>12, <1>13, <1>14, RequestKeeps
----------------------------------------------------------------------------
(* The statements *)

(* What a request that goes through its script has before and after. *)
LEMMA RunningOn ==
    ASSUME FilesInv, NEW r \in Requests, job[r].step = "run", job[r].script # <<>>
    PROVE  LET q == job[r] IN
           /\ q \in Runs /\ RunOK(r) /\ Next1(r) \in Steps /\ StepOK(r, Next1(r))
           /\ Tail(q.script) \in Seq(Steps)
           /\ \A s : s \in Range(q.script) <=> s = Next1(r) \/ s \in Range(Tail(q.script))
<1>1. RunOK(r) /\ job[r] \in Runs
  BY DEF FilesInv, JobOK, RunOK
<1>2. job[r].script \in Seq(Steps)
  BY <1>1 DEF Runs
<1>3. /\ Next1(r) \in Steps /\ Tail(job[r].script) \in Seq(Steps)
      /\ \A s : s \in Range(job[r].script) <=> s = Next1(r) \/ s \in Range(Tail(job[r].script))
  BY <1>2, Popped DEF Next1
<1> QED
  BY <1>1, <1>3 DEF RunOK

LEMMA Advances ==
    ASSUME FilesInv, NEW r \in Requests, job[r].step = "run", job[r].script # <<>>,
           Advance(r)
    PROVE  LET q == job[r]
               p == job'[r] IN
           /\ job' = [job EXCEPT ![r] = job'[r]]
           /\ \A s \in Requests \ {r} : job'[s] = job[s]
           /\ p \in Runs
           /\ p.step = q.step /\ p.kind = q.kind /\ p.items = q.items
           /\ p.moving = q.moving /\ p.moved = q.moved /\ p.script = Tail(q.script)
<1>1. /\ job' = [job EXCEPT ![r] = job'[r]] /\ job'[r] = [job[r] EXCEPT !.script = Tail(@)]
      /\ \A s \in Requests \ {r} : job'[s] = job[s]
  BY GoesOn DEF Advance
<1>2. job[r] \in Runs /\ Tail(job[r].script) \in Seq(Steps)
  BY RunningOn
<1>3. LET q == job[r]
          p == [q EXCEPT !.script = Tail(@)] IN
      /\ p \in Runs
      /\ p.step = q.step /\ p.kind = q.kind /\ p.items = q.items
      /\ p.moving = q.moving /\ p.moved = q.moved /\ p.script = Tail(q.script)
  BY <1>2 DEF Runs
<1> QED
  BY <1>1, <1>3

(* The job itself, after a statement. *)
LEMMA StatementKeepsJob ==
    ASSUME FilesInv, NEW r \in Requests, job[r].step = "run", job[r].script # <<>>,
           Advance(r), UNCHANGED item
    PROVE  JobOK(r)'
<1>1. LET q == job[r]
          p == job'[r] IN
      /\ p \in Runs
      /\ p.step = q.step /\ p.kind = q.kind /\ p.items = q.items
      /\ p.moving = q.moving /\ p.moved = q.moved /\ p.script = Tail(q.script)
  BY Advances
<1>2. /\ RunOK(r)
      /\ \A s : s \in Range(Tail(job[r].script)) => s \in Range(job[r].script)
  BY RunningOn
<1>3. \A k : Snapped(k)' = Snapped(k)
  BY DEF Snapped
<1>4. \A s : StepOK(r, s) => StepOK(r, s)'
  <2>1. \A m : MoveOK(m) => MoveOK(m)'
    BY <1>3 DEF MoveOK
  <2> QED
    BY <1>1, <1>3, <2>1 DEF StepOK
<1>5. RunOK(r)'
  BY <1>1, <1>2, <1>4 DEF RunOK
<1> QED
  BY <1>1, <1>5 DEF JobOK, Runs

(* A statement changes only locks. *)
LEMMA StatementKeeps ==
    ASSUME FilesInv, NEW r \in Requests, job[r].step = "run", job[r].script # <<>>,
           Advance(r), UNCHANGED <<row, original, thumb, item, mishap>>,
           lock' \in [Keys -> Requests \cup {NoOne}],
           \A x \in Keys : lock[x] \notin {NoOne, r} => lock'[x] = lock[x],
           InsertsOK(r)', LocksOK'
    PROVE  FilesInv'
<1>1. JobOK(r)'
  BY StatementKeepsJob
<1>2. \A k : Snapped(k)' = Snapped(k)
  BY DEF Snapped
<1>3. /\ job' = [job EXCEPT ![r] = job'[r]]
      /\ job'[r].step = "run" /\ job'[r].kind = job[r].kind /\ job'[r].items = job[r].items
  BY Advances
<1>4. ItemsGo(r) /\ (\A l \in Items : ItemOK(l)') /\ item' \in [Items -> ItemRow]
  BY <1>2 DEF FilesInv, Shape, ItemOK, ItemsGo
<1>5. FilesTypeOK' /\ \A f \in Files : BornOK(f)' /\ DirOK(f)'
  BY <1>2 DEF FilesInv, Shape, FilesTypeOK, BornOK, DirOK, At
<1>6. \A k \in Items : Deletes(r, k)' => Deletes(r, k)
  BY <1>3 DEF Deletes
<1> QED
  BY <1>1, <1>3, <1>4, <1>5, <1>6, RequestKeeps

LEMMA DeleteRowKeeps ==
    ASSUME FilesInv, NEW r \in Requests, DeleteRow(r)
    PROVE  FilesInv'
<1> DEFINE x == Next1(r).key
           taken == IF row[x] = "none" THEN {} ELSE WaitsOn(r)
<1>1. /\ OnStep(r, "delete") /\ ~Blocked(r)
      /\ lock' = [y \in Keys |-> IF y \in taken /\ row[y] \in Held THEN r ELSE lock[y]]
      /\ Advance(r)
      /\ UNCHANGED <<row, original, thumb, item, mishap>>
  BY DEF DeleteRow
<1>2. job[r].step = "run" /\ job[r].script # <<>> /\ Next1(r).op = "delete"
  BY <1>1 DEF OnStep
<1>3. /\ Next1(r) \in Steps /\ StepOK(r, Next1(r)) /\ RunOK(r) /\ job[r] \in Runs
  BY <1>2, RunningOn
<1>4. x \in Keys
  BY <1>2, <1>3 DEF Steps, RowSteps, Moves
<1>5. job[r].kind = "delete"
  <2>1. job[r].kind \in {"delete", "restore"}
    BY <1>3 DEF Runs
  <2>2. Next1(r).op # "insert" /\ ~MoveOK(Next1(r))
    BY <1>2 DEF MoveOK, Moves
  <2> QED
    BY <1>3, <2>1, <2>2 DEF StepOK
<1>6. taken = IF row[x] = "none" THEN {} ELSE IF x = Home THEN Keys ELSE {x}
  BY <1>1 DEF WaitsOn
<1>7. \A y \in taken : lock[y] \in {NoOne, r}
  BY <1>1 DEF Blocked
<1> HIDE DEF taken, x
<1>8. /\ row \in [Keys -> States] /\ lock \in [Keys -> Requests \cup {NoOne}]
      /\ LocksOK
      /\ \A f \in Files : row[f] \in Held => row[Home] = "kept"
  BY DEF FilesInv, Shape, FilesTypeOK, States
<1>9. \A y \in Keys : lock[y] \notin {NoOne, r} => lock'[y] = lock[y]
  BY <1>1, <1>7
<1>10. /\ job'[r].step = "run" /\ job'[r].kind = "delete" /\ job'[r].items = job[r].items
       /\ \A s \in Requests \ {r} : job'[s] = job[s]
  BY <1>1, <1>2, <1>5, Advances
<1>11. InsertsOK(r)'
  BY <1>10 DEF InsertsOK, Restores
<1>12. \A k : Snapped(k)' = Snapped(k)
  BY <1>1 DEF Snapped
<1>13. \A y \in Keys : LockOK(y)'
  <2> SUFFICES ASSUME NEW y \in Keys, lock'[y] # NoOne
               PROVE  LockOK(y)'
    BY DEF LockOK
  <2>1. CASE lock'[y] = r
    <3>1. row[y] \in Held
      <4>1. CASE y \in taken /\ row[y] \in Held
        BY <4>1
      <4>2. CASE ~(y \in taken /\ row[y] \in Held)
        <5>1. lock[y] = r
          BY <1>1, <2>1, <4>2
        <5> QED
          BY <1>5, <1>8, <5>1, Distinct DEF LocksOK, LockOK
      <4> QED
        BY <4>1, <4>2
    <3> QED
      BY <1>1, <1>10, <2>1, <3>1 DEF LockOK
  <2>2. CASE lock'[y] # r
    <3>1. lock[y] = lock'[y] /\ LockOK(y)
      BY <1>1, <1>8, <2>2 DEF LocksOK
    <3>2. lock[y] \in Requests \ {r}
      BY <1>8, <2>2, <3>1
    <3>3. job'[lock[y]] = job[lock[y]]
      BY <1>10, <3>2
    <3> QED
      BY <1>1, <1>12, <3>1, <3>3 DEF LockOK
  <2> QED
    BY <2>1, <2>2
<1>14. \A f \in Files : KeyOK(f)'
  <2> SUFFICES ASSUME NEW f \in Files PROVE KeyOK(f)'
    OBVIOUS
  <2>1. KeyOK(f) /\ LockOK(f) /\ LockOK(Home)
    BY <1>8, Distinct DEF LocksOK
  <2>2. f \in Keys /\ Home \in Keys /\ f # Home /\ r # NoOne
    BY Distinct
  <2>3. row[f] \in Held <=> row[f] # "none"
    BY <1>8, <2>2 DEF States, Held
  <2>4. CASE row[x] = "none"
    <3>1. lock' = lock
      BY <1>1, <1>6, <1>8, <2>4
    <3> QED
      BY <1>1, <2>1, <3>1 DEF KeyOK
  <2>5. CASE x = Home /\ row[x] # "none"
    <3>1. row[Home] = "kept"
      BY <1>8, <2>2, <2>5 DEF FilesInv, Shape, FilesTypeOK, States
    <3>2. lock'[Home] = r
      BY <1>1, <1>6, <2>2, <2>5, <3>1 DEF Held
    <3>3. lock[f] \in {NoOne, r} /\ lock[Home] \in {NoOne, r}
      BY <1>6, <1>7, <2>2, <2>5
    <3>4. CASE row[f] = "none"
      <4>1. lock[f] = NoOne
        BY <1>5, <2>1, <2>2, <3>3, <3>4 DEF LockOK, Held
      <4>2. lock'[f] = NoOne
        BY <1>1, <2>2, <2>3, <3>4, <4>1
      <4> QED
        BY <1>1, <3>1, <3>4, <4>2 DEF KeyOK
    <3>5. CASE row[f] # "none"
      <4>1. lock'[f] = r
        BY <1>1, <1>6, <2>2, <2>3, <2>5, <3>5
      <4> QED
        BY <1>1, <3>2, <3>5, <4>1 DEF KeyOK
    <3> QED
      BY <3>4, <3>5
  <2>6. CASE x # Home /\ row[x] # "none"
    <3>1. taken = {x} /\ lock'[Home] = lock[Home]
      BY <1>1, <1>6, <2>2, <2>6
    <3>2. CASE f # x
      <4>1. lock'[f] = lock[f]
        BY <1>1, <2>2, <3>1, <3>2
      <4> QED
        BY <1>1, <2>1, <3>1, <4>1 DEF KeyOK
    <3>3. CASE f = x
      <4>1. row[f] # "none" /\ row[Home] = "kept" /\ lock'[f] = r
        BY <1>1, <1>8, <2>2, <2>3, <2>6, <3>1, <3>3
      <4>2. lock[f] \in {NoOne, r}
        BY <1>7, <3>1, <3>3
      <4>3. lock[Home] # NoOne => lock[Home] = r
        BY <2>1, <4>1, <4>2 DEF KeyOK
      <4> QED
        BY <1>1, <3>1, <4>1, <4>3 DEF KeyOK
    <3> QED
      BY <3>2, <3>3
  <2> QED
    BY <2>4, <2>5, <2>6
<1>15. lock' \in [Keys -> Requests \cup {NoOne}]
  BY <1>1, <1>8
<1> QED
  BY <1>1, <1>2, <1>9, <1>11, <1>13, <1>14, <1>15, StatementKeeps DEF LocksOK

LEMMA InsertRowKeeps ==
    ASSUME FilesInv, NEW r \in Requests, InsertRow(r)
    PROVE  FilesInv'
<1> DEFINE x == Next1(r).key
<1>1. /\ OnStep(r, "insert") /\ ~Blocked(r) /\ ~Conflict(r)
      /\ lock' = [lock EXCEPT ![x] = r]
      /\ Advance(r)
      /\ UNCHANGED <<row, original, thumb, item, mishap>>
  BY DEF InsertRow
<1>2. job[r].step = "run" /\ job[r].script # <<>> /\ Next1(r).op = "insert"
  BY <1>1 DEF OnStep
<1>3. /\ Next1(r) \in Steps /\ StepOK(r, Next1(r)) /\ RunOK(r) /\ job[r] \in Runs
      /\ \A s : s \in Range(job[r].script) <=> s = Next1(r) \/ s \in Range(Tail(job[r].script))
  BY <1>2, RunningOn
<1>4. x \in Keys /\ Next1(r) = Statement("insert", x)
  BY <1>2, <1>3 DEF Steps, RowSteps, Moves, Statement
<1>5. job[r].kind = "restore" /\ \A k \in job[r].items : x \in Snapped(k)
  <2>1. job[r].kind \in {"delete", "restore"}
    BY <1>3 DEF Runs
  <2>2. Next1(r).op # "delete" /\ ~MoveOK(Next1(r))
    BY <1>2 DEF MoveOK, Moves
  <2> QED
    BY <1>3, <2>1, <2>2 DEF StepOK
<1>6. WaitsOn(r) = {x} \cup (IF row[Home] = "none" THEN {} ELSE {Home})
  BY <1>1, <1>2 DEF WaitsOn, OnStep
<1>7. /\ lock[x] \in {NoOne, r}
      /\ row[Home] # "none" => lock[Home] \in {NoOne, r}
  BY <1>1, <1>6 DEF Blocked
<1>8. row[x] \notin Held /\ (x # Home /\ row[Home] = "none" => lock[Home] = r)
  BY <1>1 DEF Conflict
<1> HIDE DEF x
<1>9. /\ row \in [Keys -> States] /\ lock \in [Keys -> Requests \cup {NoOne}]
      /\ LocksOK /\ row[Home] # "purged"
  BY DEF FilesInv, Shape, FilesTypeOK, States
<1>10. row[x] = "none"
  BY <1>4, <1>8, <1>9 DEF States, Held
<1>11. \A y \in Keys : lock'[y] = IF y = x THEN r ELSE lock[y]
  BY <1>1, <1>9
<1>12. /\ job'[r].step = "run" /\ job'[r].kind = "restore" /\ job'[r].items = job[r].items
       /\ job'[r].script = Tail(job[r].script)
       /\ \A s \in Requests \ {r} : job'[s] = job[s]
  BY <1>1, <1>2, <1>5, Advances
<1>13. \A k : Snapped(k)' = Snapped(k)
  BY <1>1 DEF Snapped
<1>14. InsertsOK(r)'
  <2>1. InsertsOK(r)
    BY DEF FilesInv
  <2>2. \A k \in Items : Restores(r, k)' => Restores(r, k)
    BY <1>2, <1>5, <1>12 DEF Restores
  <2>3. \A k \in Items : Snapped(k) \subseteq Keys
    BY DEF Snapped
  <2>4. ASSUME NEW k \in Items, Restores(r, k), NEW y \in Snapped(k)
        PROVE  lock'[y] = r \/ Statement("insert", y) \in Range(Tail(job[r].script))
    <3>1. CASE y = x
      BY <1>4, <1>11, <3>1
    <3>2. CASE y # x
      <4>1. Statement("insert", y) # Statement("insert", x)
        BY <3>2 DEF Statement
      <4> QED
        BY <1>3, <1>4, <1>11, <2>1, <2>3, <2>4, <3>2, <4>1 DEF InsertsOK
    <3> QED
      BY <3>1, <3>2
  <2> QED
    BY <1>12, <1>13, <2>2, <2>4 DEF InsertsOK
<1>15. \A y \in Keys : LockOK(y)'
  <2> SUFFICES ASSUME NEW y \in Keys, lock'[y] # NoOne
               PROVE  LockOK(y)'
    BY DEF LockOK
  <2>1. LockOK(y)
    BY <1>9 DEF LocksOK
  <2>2. CASE y = x
    BY <1>1, <1>5, <1>10, <1>11, <1>12, <1>13, <2>2 DEF LockOK
  <2>3. CASE y # x /\ lock[y] = r
    BY <1>1, <1>2, <1>5, <1>11, <1>12, <1>13, <2>1, <2>3, Distinct DEF LockOK
  <2>4. CASE y # x /\ lock[y] # r
    <3>1. lock'[y] = lock[y] /\ lock[y] \in Requests \ {r}
      BY <1>9, <1>11, <2>4
    <3>2. job'[lock[y]] = job[lock[y]]
      BY <1>12, <3>1
    <3> QED
      BY <1>1, <1>13, <2>1, <3>1, <3>2 DEF LockOK
  <2> QED
    BY <2>2, <2>3, <2>4
<1>16. \A f \in Files : KeyOK(f)'
  <2> SUFFICES ASSUME NEW f \in Files PROVE KeyOK(f)'
    OBVIOUS
  <2>1. KeyOK(f) /\ f \in Keys /\ Home \in Keys /\ f # Home /\ r # NoOne
    BY <1>9, Distinct DEF LocksOK
  <2>2. CASE x = Home
    <3>1. row[Home] = "none" /\ lock'[f] = lock[f] /\ lock'[Home] = r
      BY <1>10, <1>11, <2>1, <2>2
    <3>2. lock[f] # NoOne /\ row[f] = "none" => lock[Home] = lock[f]
      BY <2>1, <3>1 DEF KeyOK
    <3>3. lock[Home] \in {NoOne, r}
      BY <1>7, <2>2
    <3> QED
      BY <1>1, <3>1, <3>2, <3>3, <2>1 DEF KeyOK
  <2>3. CASE x # Home /\ x # f
    <3>1. lock'[f] = lock[f] /\ lock'[Home] = lock[Home]
      BY <1>11, <2>1, <2>3
    <3> QED
      BY <1>1, <2>1, <3>1 DEF KeyOK
  <2>4. CASE x = f
    <3>1. lock'[f] = r /\ lock'[Home] = lock[Home]
      BY <1>11, <2>1, <2>4
    <3>2. row[Home] = "none" => lock[Home] = r
      BY <1>8, <2>1, <2>4
    <3>3. row[Home] = "kept" => lock[Home] = NoOne
      <4>1. SUFFICES ASSUME row[Home] = "kept", lock[Home] # NoOne
                     PROVE  FALSE
        OBVIOUS
      <4>2. lock[Home] = r
        BY <1>7, <4>1
      <4>3. row[Home] \in Held => job[r].kind # "restore"
        <5>1. LockOK(Home)
          BY <1>9, <2>1 DEF LocksOK
        <5> QED
          BY <2>1, <4>1, <4>2, <5>1 DEF LockOK, Held
      <4> QED
        BY <1>5, <4>1, <4>3 DEF Held
    <3>4. row[Home] \in {"none", "kept"}
      BY <1>9, <2>1 DEF States
    <3> QED
      BY <1>1, <1>10, <2>4, <3>1, <3>2, <3>3, <3>4 DEF KeyOK
  <2> QED
    BY <2>2, <2>3, <2>4
<1>17. /\ lock' \in [Keys -> Requests \cup {NoOne}]
       /\ \A y \in Keys : lock[y] \notin {NoOne, r} => lock'[y] = lock[y]
  BY <1>1, <1>7, <1>9, <1>11
<1> QED
  BY <1>1, <1>2, <1>14, <1>15, <1>16, <1>17, StatementKeeps DEF LocksOK

LEMMA MovePieceKeeps ==
    ASSUME FilesInv, NEW r \in Requests, MovePiece(r)
    PROVE  FilesInv'
<1> DEFINE m == Next1(r)
           moving == IF IsAt(m) THEN Append(job[r].moving, m) ELSE job[r].moving
           p1 == [job[r] EXCEPT !.script = Tail(@), !.moving = moving]
           p2 == [job[r] EXCEPT !.script = Tail(@), !.moving = <<>>, !.moved = @ \o moving]
<1>1. /\ OnStep(r, "move") /\ Relocate({m})
      /\ Goto(r, IF m.piece = "original" THEN p1 ELSE p2)
      /\ UNCHANGED <<row, lock, item, mishap>>
  BY DEF MovePiece
<1>2. job[r].step = "run" /\ job[r].script # <<>> /\ m.op = "move"
  BY <1>1 DEF OnStep
<1>3. /\ m \in Steps /\ StepOK(r, m) /\ RunOK(r) /\ job[r] \in Runs
      /\ Tail(job[r].script) \in Seq(Steps)
      /\ \A s : s \in Range(job[r].script) <=> s = m \/ s \in Range(Tail(job[r].script))
  BY <1>2, RunningOn
<1>4. m \in Moves /\ MoveOK(m)
  <2>1. job[r].kind \in {"delete", "restore"}
    BY <1>3 DEF Runs
  <2> QED
    BY <1>2, <1>3, <2>1 DEF StepOK, MoveOK
<1>5. /\ moving \in Seq(Moves)
      /\ \A s \in Range(moving) : s = m \/ s \in Range(job[r].moving)
  <2>1. job[r].moving \in Seq(Moves)
    BY <1>3 DEF Runs
  <2> QED
    BY <1>4, <2>1, Appended
<1> HIDE DEF moving
<1>6. /\ job[r].moved \o moving \in Seq(Moves)
      /\ Range(job[r].moved \o moving) = Range(job[r].moved) \cup Range(moving)
  <2>1. job[r].moved \in Seq(Moves)
    BY <1>3 DEF Runs
  <2> QED
    BY <1>5, <2>1, ConcatProperties, RangeConcatenation
<1>7. <<>> \in Seq(Moves)
  OBVIOUS
<1>8. /\ p1 \in Runs /\ p1.step = "run" /\ p1.kind = job[r].kind /\ p1.items = job[r].items
      /\ p1.script = Tail(job[r].script) /\ p1.moving = moving /\ p1.moved = job[r].moved
  BY <1>2, <1>3, <1>5 DEF Runs
<1>9. /\ p2 \in Runs /\ p2.step = "run" /\ p2.kind = job[r].kind /\ p2.items = job[r].items
      /\ p2.script = Tail(job[r].script) /\ p2.moving = <<>>
      /\ p2.moved = job[r].moved \o moving
  BY <1>2, <1>3, <1>6, <1>7 DEF Runs
<1>10. job'[r] \in {p1, p2} /\ job' = [job EXCEPT ![r] = job'[r]]
  BY <1>1, GoesOn
<1> HIDE DEF p1, p2
<1>11. /\ job'[r] \in Runs /\ job'[r].step = "run"
       /\ job'[r].kind = job[r].kind /\ job'[r].items = job[r].items
       /\ job'[r].script = Tail(job[r].script)
       /\ \A s \in Range(job'[r].script) \cup Range(job'[r].moving) \cup Range(job'[r].moved) :
            StepOK(r, s)
  <2>1. \A s \in Range(job[r].script) \cup Range(job[r].moving) \cup Range(job[r].moved) :
            StepOK(r, s)
    BY <1>3 DEF RunOK
  <2>2. \A s \in Range(moving) : StepOK(r, s)
    BY <1>3, <1>5, <2>1
  <2>3. CASE job'[r] = p1
    BY <1>3, <1>8, <2>1, <2>2, <2>3
  <2>4. CASE job'[r] = p2
    BY <1>3, <1>6, <1>9, <2>1, <2>2, <2>4, NothingLeft
  <2> QED
    BY <1>10, <2>3, <2>4
<1>12. \A k : Snapped(k)' = Snapped(k)
  BY <1>1 DEF Snapped
<1>13. JobOK(r)'
  <2>1. \A s : StepOK(r, s) => StepOK(r, s)'
    <3>1. \A n : MoveOK(n) => MoveOK(n)'
      BY <1>12 DEF MoveOK
    <3> QED
      BY <1>11, <1>12, <3>1 DEF StepOK
  <2>2. RunOK(r)'
    BY <1>1, <1>3, <1>11, <2>1 DEF RunOK
  <2> QED
    BY <1>11, <2>2 DEF JobOK
<1>14. InsertsOK(r)'
  <2>1. InsertsOK(r)
    BY DEF FilesInv
  <2>2. \A k \in Items : Restores(r, k)' => Restores(r, k)
    BY <1>2, <1>11 DEF Restores
  <2>3. \A y : Statement("insert", y) # m
    BY <1>2 DEF Statement
  <2> QED
    BY <1>1, <1>3, <1>11, <1>12, <2>1, <2>2, <2>3 DEF InsertsOK
<1>15. ItemsGo(r) /\ (\A l \in Items : ItemOK(l)') /\ item' \in [Items -> ItemRow]
  BY <1>1, <1>12 DEF FilesInv, Shape, ItemOK, ItemsGo
<1>16. FilesTypeOK'
  <2>1. mishap' \in BOOLEAN
    BY <1>1 DEF FilesInv, Shape, FilesTypeOK
  <2> QED
    BY <1>1, <1>4, <1>15, <2>1, RelocatedTypes DEF FilesInv
<1>17. \A f \in Files : BornOK(f)' /\ DirOK(f)'
  BY <1>1, <1>4, RelocatedDirs
<1>18. LocksOK'
  BY <1>1, <1>2, <1>10, <1>11, <1>15, Distinct, LocksStay
<1>19. \A k \in Items : Deletes(r, k)' => Deletes(r, k)
  BY <1>2, <1>11 DEF Deletes
<1> QED
  BY <1>1, <1>10, <1>13, <1>14, <1>15, <1>16, <1>17, <1>18, <1>19, RequestKeeps
----------------------------------------------------------------------------
(* The end of a script *)

(* A request gives up its locks; rows change only where it had one. *)
LEMMA LocksGo ==
    ASSUME FilesInv, NEW r \in Requests, ItemsGo(r), Release(r),
           \A s \in Requests \ {r} : job'[s] = job[s],
           \A x \in Keys : lock[x] # r => row'[x] = row[x]
    PROVE  LocksOK'
<1>1. LocksOK /\ lock \in [Keys -> Requests \cup {NoOne}]
  BY DEF FilesInv, Shape, FilesTypeOK
<1>2. \A x \in Keys : lock'[x] = IF lock[x] = r THEN NoOne ELSE lock[x]
  BY DEF Release
<1>3. ASSUME NEW x \in Keys, lock'[x] # NoOne
      PROVE  LockOK(x)'
  <2>1. /\ lock'[x] = lock[x] /\ lock[x] \in Requests \ {r} /\ row'[x] = row[x]
        /\ LockOK(x)
    BY <1>1, <1>2, <1>3 DEF LocksOK
  <2>2. job'[lock[x]] = job[lock[x]] /\ JobOK(lock[x])
    BY <2>1 DEF FilesInv
  <2>3. job[lock[x]].step = "run" /\ RunOK(lock[x])
    BY <1>3, <2>1, <2>2 DEF LockOK, JobOK
  <2>4. job[lock[x]].kind = "restore" =>
            \A k \in job[lock[x]].items : Snapped(k)' = Snapped(k)
    BY <2>3, SnapshotsStay DEF RunOK
  <2> QED
    BY <1>3, <2>1, <2>2, <2>4 DEF LockOK
<1>4. ASSUME NEW f \in Files
      PROVE  KeyOK(f)'
  <2>1. KeyOK(f) /\ f \in Keys /\ Home \in Keys
    BY <1>1, Distinct DEF LocksOK
  <2>2. /\ lock'[f] # NoOne => lock'[f] = lock[f] /\ lock[f] # r /\ row'[f] = row[f]
        /\ lock'[Home] # NoOne => lock'[Home] = lock[Home] /\ lock[Home] # r
                                  /\ row'[Home] = row[Home]
        /\ lock[f] # r => lock'[f] = lock[f] /\ row'[f] = row[f]
        /\ lock[Home] # r => lock'[Home] = lock[Home] /\ row'[Home] = row[Home]
    BY <1>2, <2>1
  <2>3. lock'[f] # NoOne /\ row'[f] = "none" =>
            lock'[Home] = lock'[f] \/ (row'[Home] = "kept" /\ lock'[Home] = NoOne)
    BY <2>1, <2>2, Distinct DEF KeyOK
  <2>4. lock'[Home] # NoOne /\ row'[Home] = "kept" =>
            lock'[f] = IF row'[f] = "none" THEN NoOne ELSE lock'[Home]
    BY <2>1, <2>2, Distinct DEF KeyOK
  <2> QED
    BY <2>3, <2>4 DEF KeyOK
<1> QED
  BY <1>3, <1>4 DEF LocksOK, LockOK

(* A request that is done or gives up. *)
LEMMA EndKeeps ==
    ASSUME FilesInv, NEW r \in Requests,
           job' = [job EXCEPT ![r] = job'[r]], job'[r].step # "run",
           JobOK(r)', ItemsGo(r), Release(r),
           item' \in [Items -> ItemRow], \A k \in Items : item'[k].rows = item[k].rows,
           \A k \in Items : item'[k].state = "unborn" => item[k].state = "unborn",
           \A x \in Keys : lock[x] # r => row'[x] = row[x],
           row' \in [Keys -> States], row'[Home] # "purged",
           \A f \in Files : row'[f] \in Held =>
               row'[Home] = "kept" /\ (row[f] \in Held \/ \E k \in Items : f \in Snapped(k)),
           UNCHANGED <<original, thumb>>, mishap' \in BOOLEAN
    PROVE  FilesInv'
<1>1. \A k : k \in Items => Snapped(k)' = Snapped(k)
  BY DEF Snapped
<1>2. \A s \in Requests \ {r} : job'[s] = job[s]
  BY DEF FilesInv, Shape
<1>3. LocksOK'
  BY <1>2, LocksGo
<1>4. \A k \in Items : ItemOK(k)'
  BY <1>1 DEF FilesInv, ItemOK
<1>5. FilesTypeOK'
  <2>1. lock' \in [Keys -> Requests \cup {NoOne}]
    BY DEF FilesInv, Shape, FilesTypeOK, Release
  <2>2. \A k \in Items : item'[k].state \in {"unborn", "held", "kept", "gone"}
    BY DEF ItemRow
  <2> QED
    BY <2>1, <2>2 DEF FilesInv, Shape, FilesTypeOK, States
<1>6. \A f \in Files : BornOK(f)' /\ DirOK(f)'
  <2>1. \A f \in Files : BornOK(f) /\ DirOK(f)
    BY DEF FilesInv
  <2> QED
    BY <1>1, <2>1 DEF BornOK, DirOK, At
<1>7. InsertsOK(r)' /\ \A k \in Items : ~Deletes(r, k)'
  BY DEF InsertsOK, Restores, Deletes
<1>8. \A x \in Keys : lock[x] \notin {NoOne, r} => lock'[x] = lock[x]
  BY DEF Release
<1> QED
  BY <1>3, <1>4, <1>5, <1>6, <1>7, <1>8, RequestKeeps

LEMMA CommitDeleteKeeps ==
    ASSUME FilesInv, NEW r \in Requests, Commit(r), job[r].kind = "delete"
    PROVE  FilesInv'
<1>1. /\ job[r].step = "run" /\ Release(r)
      /\ row' = [x \in Keys |-> IF lock[x] = r THEN "none" ELSE row[x]]
      /\ item' = [k \in Items |->
           IF k \in job[r].items THEN [item[k] EXCEPT !.state = "kept"] ELSE item[k]]
      /\ Goto(r, Idle)
      /\ UNCHANGED <<original, thumb, mishap>>
  BY DEF Commit
<1>2. job' = [job EXCEPT ![r] = job'[r]] /\ job'[r] = Idle
  BY <1>1, GoesOn
<1>3. RunOK(r)
  BY <1>1 DEF FilesInv, JobOK
<1>4. /\ item' \in [Items -> ItemRow]
      /\ \A k \in Items : /\ item'[k].rows = item[k].rows
                          /\ item'[k].state = IF k \in job[r].items THEN "kept" ELSE item[k].state
                          /\ k \notin job[r].items => item'[k] = item[k]
  BY <1>1 DEF FilesInv, Shape, ItemRow
<1>5. ItemsGo(r)
  BY <1>1, <1>4 DEF ItemsGo, Deletes
<1>6. /\ row \in [Keys -> States] /\ row[Home] # "purged" /\ r # NoOne
      /\ LocksOK
      /\ \A f \in Files : row[f] \in Held => row[Home] = "kept"
  BY Distinct DEF FilesInv, Shape, FilesTypeOK, States
<1>7. /\ row' \in [Keys -> States] /\ row'[Home] # "purged"
      /\ \A x \in Keys : lock[x] # r => row'[x] = row[x]
  BY <1>1, <1>6, Distinct DEF States
<1>8. ASSUME NEW f \in Files, row'[f] \in Held
      PROVE  row'[Home] = "kept" /\ row[f] \in Held
  <2>1. f \in Keys /\ Home \in Keys
    BY Distinct
  <2>2. row[f] \in Held /\ lock[f] # r
    BY <1>1, <1>8, <2>1 DEF Held
  <2>3. row[Home] = "kept"
    BY <1>6, <2>2
  <2>4. lock[Home] # r
    BY <1>6, <2>2, <2>3 DEF LocksOK, KeyOK, Held
  <2> QED
    BY <1>7, <2>1, <2>2, <2>3, <2>4
<1>9. JobOK(r)' /\ job'[r].step # "run"
  BY <1>2, IdleIs DEF JobOK
<1>10. mishap' \in BOOLEAN /\ UNCHANGED <<original, thumb>>
  BY <1>1 DEF FilesInv, Shape, FilesTypeOK
<1> QED
  BY <1>1, <1>2, <1>4, <1>5, <1>7, <1>8, <1>9, <1>10, EndKeeps

(* What a restore puts in when it commits. *)
LEMMA RestoreCommits ==
    ASSUME FilesInv, NEW r \in Requests, Commit(r), job[r].kind # "delete"
    PROVE  \E k \in Items :
             /\ Restores(r, k) /\ job[r].items = {k} /\ item[k].state \in {"kept", "gone"}
             /\ \A x \in Keys : /\ lock[x] = r <=> x \in Snapped(k)
                                /\ x \in Snapped(k) => row[x] = "none"
                                /\ row'[x] = IF x \in Snapped(k) THEN item[k].rows[x] ELSE row[x]
             /\ row' = [x \in Keys |-> row'[x]]
<1> DEFINE back(x) == {k \in job[r].items : item[k].rows[x] \in Held}
<1>1. /\ job[r].step = "run" /\ job[r].script = <<>>
      /\ row' = [x \in Keys |->
           IF back(x) # {} THEN item[CHOOSE k \in back(x) : TRUE].rows[x] ELSE row[x]]
  BY DEF Commit
<1>2. RunOK(r) /\ InsertsOK(r)
  BY <1>1 DEF FilesInv, JobOK
<1>3. job[r].kind = "restore"
  BY <1>2 DEF RunOK, Runs
<1>4. PICK k \in Items : job[r].items = {k} /\ item[k].state \in {"kept", "gone"}
  BY <1>2, <1>3 DEF RunOK
<1>5. Restores(r, k)
  BY <1>1, <1>3, <1>4 DEF Restores
<1>6. \A x \in Snapped(k) : lock[x] = r
  BY <1>1, <1>2, <1>5, NothingLeft DEF InsertsOK
<1>7. \A x \in Keys : lock[x] = r => x \in Snapped(k) /\ row[x] = "none"
  BY <1>3, <1>4, Distinct DEF FilesInv, LocksOK, LockOK
<1>8. ASSUME NEW x \in Keys
      PROVE  row'[x] = IF x \in Snapped(k) THEN item[k].rows[x] ELSE row[x]
  <2>1. back(x) = IF x \in Snapped(k) THEN {k} ELSE {}
    BY <1>4 DEF Snapped
  <2>2. row'[x] = IF back(x) # {} THEN item[CHOOSE l \in back(x) : TRUE].rows[x] ELSE row[x]
    BY <1>1
  <2>3. (CHOOSE l \in {k} : TRUE) = k
    OBVIOUS
  <2> HIDE DEF back
  <2> QED
    BY <2>1, <2>2, <2>3
<1>9. row' = [x \in Keys |-> row'[x]]
  BY <1>1
<1> QED
  BY <1>4, <1>5, <1>6, <1>7, <1>8, <1>9

LEMMA CommitRestoreKeeps ==
    ASSUME FilesInv, NEW r \in Requests, Commit(r), job[r].kind # "delete"
    PROVE  FilesInv'
<1>1. /\ job[r].step = "run" /\ Release(r)
      /\ item' = [k \in Items |->
           IF k \in job[r].items THEN [item[k] EXCEPT !.state = "gone"] ELSE item[k]]
      /\ Goto(r, [step |-> "remove", items |-> job[r].items])
      /\ UNCHANGED <<original, thumb, mishap>>
  BY DEF Commit
<1>2. PICK k \in Items :
          /\ Restores(r, k) /\ job[r].items = {k} /\ item[k].state \in {"kept", "gone"}
          /\ \A x \in Keys : /\ lock[x] = r <=> x \in Snapped(k)
                             /\ x \in Snapped(k) => row[x] = "none"
                             /\ row'[x] = IF x \in Snapped(k) THEN item[k].rows[x] ELSE row[x]
          /\ row' = [x \in Keys |-> row'[x]]
  BY RestoreCommits
<1>3. job' = [job EXCEPT ![r] = job'[r]]
  BY <1>1, GoesOn
<1>4. job'[r] = [step |-> "remove", items |-> job[r].items]
  BY <1>1, GoesOn
<1>5. /\ item' \in [Items -> ItemRow]
      /\ \A l \in Items : /\ item'[l].rows = item[l].rows
                          /\ item'[l].state = IF l = k THEN "gone" ELSE item[l].state
                          /\ l # k => item'[l] = item[l]
  BY <1>1, <1>2 DEF FilesInv, Shape, ItemRow
<1>6. ItemsGo(r)
  BY <1>2, <1>5 DEF ItemsGo
<1>7. /\ row \in [Keys -> States] /\ row[Home] # "purged" /\ r # NoOne
      /\ LocksOK /\ ItemOK(k) /\ item[k].rows \in [Keys -> States]
      /\ \A f \in Files : row[f] \in Held => row[Home] = "kept"
  BY Distinct DEF FilesInv, Shape, FilesTypeOK, States, ItemRow
<1>8. row' \in [Keys -> States] /\ row'[Home] # "purged"
  <2>1. \A x \in Keys : row'[x] \in States
    BY <1>2, <1>7
  <2>2. row'[Home] # "purged"
    BY <1>2, <1>7, Distinct DEF ItemOK
  <2> QED
    BY <1>2, <2>1, <2>2
<1>9. ASSUME NEW f \in Files, row'[f] \in Held
      PROVE  row'[Home] = "kept" /\ (row[f] \in Held \/ \E l \in Items : f \in Snapped(l))
  <2>1. f \in Keys /\ Home \in Keys
    BY Distinct
  <2>2. Home \in Snapped(k) => row'[Home] = "kept"
    BY <1>2, <1>8, <2>1 DEF Snapped, Held
  <2>3. Home \notin Snapped(k) => row'[Home] = row[Home]
    BY <1>2, <2>1
  <2>4. CASE f \in Snapped(k)
    <3>1. lock[f] = r /\ row[f] = "none"
      BY <1>2, <2>1, <2>4
    <3>2. lock[Home] = r \/ row[Home] = "kept"
      BY <1>7, <3>1 DEF LocksOK, KeyOK
    <3> QED
      BY <1>2, <2>1, <2>2, <2>3, <2>4, <3>2
  <2>5. CASE f \notin Snapped(k)
    <3>1. row[f] \in Held
      BY <1>2, <1>9, <2>1, <2>5
    <3> QED
      BY <1>7, <2>2, <2>3, <3>1
  <2> QED
    BY <2>4, <2>5
<1>10. job'[r].step = "remove" /\ job'[r].items = {k}
  BY <1>2, <1>4
<1>11. JobOK(r)' /\ job'[r].step # "run"
  BY <1>5, <1>10 DEF JobOK
<1>12. mishap' \in BOOLEAN /\ UNCHANGED <<original, thumb>>
  BY <1>1 DEF FilesInv, Shape, FilesTypeOK
<1>13. \A x \in Keys : lock[x] # r => row'[x] = row[x]
  BY <1>2
<1>14. \A l \in Items : /\ item'[l].rows = item[l].rows
                        /\ item'[l].state = "unborn" => item[l].state = "unborn"
  BY <1>5
<1>15. item' \in [Items -> ItemRow] /\ Release(r)
  BY <1>1, <1>5
<1> QED
  BY <1>3, <1>6, <1>8, <1>9, <1>11, <1>12, <1>13, <1>14, <1>15, EndKeeps

LEMMA ForgottenItems ==
    ASSUME Shape, NEW items, item' = Forgotten(items)
    PROVE  /\ item' \in [Items -> ItemRow]
           /\ \A k \in Items : /\ item'[k].rows = item[k].rows
                               /\ item'[k].state = IF k \in items /\ item[k].state = "held"
                                                   THEN "gone" ELSE item[k].state
                               /\ k \notin items \/ item[k].state # "held" => item'[k] = item[k]
  BY DEF Forgotten, Shape, ItemRow

LEMMA AbortKeeps ==
    ASSUME FilesInv, NEW r \in Requests, Abort(r)
    PROVE  FilesInv'
<1> DEFINE back == [step |-> "put back", moved |-> job[r].moved]
<1>1. /\ job[r].step = "run" /\ Release(r) /\ item' = Forgotten(job[r].items)
      /\ Goto(r, IF job[r].moved = <<>> THEN Idle ELSE back)
      /\ UNCHANGED <<row, original, thumb>>
      /\ mishap' \in BOOLEAN
  BY DEF Abort, FilesInv, Shape, FilesTypeOK
<1>2. job' = [job EXCEPT ![r] = job'[r]] /\ job'[r] \in {Idle, back}
  BY <1>1, GoesOn
<1>3. RunOK(r) /\ job[r] \in Runs /\ job[r].kind \in {"delete", "restore"}
  BY <1>1 DEF FilesInv, JobOK, RunOK, Runs
<1>4. /\ item' \in [Items -> ItemRow]
      /\ \A k \in Items :
           /\ item'[k].rows = item[k].rows
           /\ item'[k].state = IF k \in job[r].items /\ item[k].state = "held"
                               THEN "gone" ELSE item[k].state
           /\ k \notin job[r].items \/ item[k].state # "held" => item'[k] = item[k]
  BY <1>1, ForgottenItems DEF FilesInv
<1>5. ItemsGo(r)
  <2>1. \A k \in Items : k \in job[r].items /\ item[k].state = "held" => Deletes(r, k)
    BY <1>1, <1>3 DEF RunOK, Deletes
  <2> QED
    BY <1>4, <2>1 DEF ItemsGo
<1>6. JobOK(r)' /\ job'[r].step # "run"
  <2>1. ASSUME NEW m \in Range(job[r].moved)
        PROVE  MoveOK(m)'
    <3>1. job[r].moved \in Seq(Moves)
      BY <1>3 DEF Runs
    <3>2. m \in Moves
      BY <3>1, RangeEquality
    <3>3. StepOK(r, m) /\ m.op = "move"
      BY <1>3, <3>2 DEF RunOK, Moves
    <3>4. MoveOK(m)
      BY <1>3, <3>3 DEF StepOK
    <3> QED
      BY <1>5, <3>4, MovesStay
  <2>2. back.step = "put back" /\ back.moved = job[r].moved
    OBVIOUS
  <2>3. job[r].moved \in Seq(Moves)
    BY <1>3 DEF Runs
  <2> HIDE DEF back
  <2>4. CASE job'[r] = Idle
    BY <2>4, IdleIs DEF JobOK
  <2>5. CASE job'[r] = back
    BY <2>1, <2>2, <2>3, <2>5 DEF JobOK
  <2> QED
    BY <1>2, <2>4, <2>5
<1>7. /\ row' \in [Keys -> States] /\ row'[Home] # "purged"
      /\ \A f \in Files : row'[f] \in Held => row'[Home] = "kept" /\ row[f] \in Held
  BY <1>1 DEF FilesInv, Shape, FilesTypeOK, States
<1> HIDE DEF back
<1>8. \A k \in Items : item'[k].state = "unborn" => item[k].state = "unborn"
  BY <1>4
<1> QED
  BY <1>1, <1>2, <1>4, <1>5, <1>6, <1>7, <1>8, EndKeeps

LEMMA CrashKeeps ==
    ASSUME FilesInv, Crash
    PROVE  FilesInv'
<1>1. /\ job' = [r \in Requests |-> Idle] /\ lock' = [x \in Keys |-> NoOne]
      /\ item' = Forgotten(Items) /\ mishap' = TRUE
      /\ UNCHANGED <<row, original, thumb>>
  BY DEF Crash
<1>2. /\ item' \in [Items -> ItemRow]
      /\ \A k \in Items : /\ item'[k].rows = item[k].rows
                          /\ item'[k].state = "unborn" => item[k].state = "unborn"
  BY <1>1, ForgottenItems DEF FilesInv
<1>3. \A k : k \in Items => Snapped(k)' = Snapped(k)
  BY <1>2 DEF Snapped
<1>4. \A r \in Requests : job'[r].step = "idle" /\ job'[r] = Idle
  BY <1>1, IdleIs
<1>5. Shape'
  <2>1. \A k \in Items : item'[k].state \in {"unborn", "held", "kept", "gone"}
    BY <1>2 DEF ItemRow
  <2> QED
    BY <1>1, <1>2, <2>1 DEF FilesInv, Shape, FilesTypeOK
<1>6. \A r \in Requests : JobOK(r)' /\ InsertsOK(r)'
  BY <1>4 DEF JobOK, InsertsOK, Restores
<1>7. OwnersOK' /\ \A k \in Items : ItemOK(k)'
  BY <1>2, <1>3, <1>4 DEF FilesInv, OwnersOK, Deletes, ItemOK
<1>8. LocksOK'
  BY <1>1, Distinct DEF LocksOK, LockOK, KeyOK
<1>9. \A f \in Files : BornOK(f)' /\ DirOK(f)'
  <2>1. \A f \in Files : BornOK(f) /\ DirOK(f)
    BY DEF FilesInv
  <2> QED
    BY <1>1, <1>3, <2>1 DEF BornOK, DirOK, At
<1> QED
  BY <1>5, <1>6, <1>7, <1>8, <1>9 DEF FilesInv

LEMMA FilesStep == FilesInv /\ [Next]_vars => FilesInv'
<1> SUFFICES ASSUME FilesInv, [Next]_vars PROVE FilesInv'
  OBVIOUS
<1>1. ASSUME NEW f \in Files, Upload(f) \/ MakeThumbnail(f)
      PROVE  FilesInv'
  BY <1>1, UploadKeeps
<1>2. ASSUME NEW r \in Requests, Begin(r)
      PROVE  FilesInv'
  BY <1>2, ProjectIsBinned, FilesAreBinned, BinningKeeps, StartRestoreKeeps, AttachKeeps,
     BeginBesideKeeps DEF Begin
<1>3. ASSUME NEW r \in Requests, Proceed(r)
      PROVE  FilesInv'
  BY <1>3, DeleteRowKeeps, InsertRowKeeps, MovePieceKeeps, CommitDeleteKeeps,
     CommitRestoreKeeps, AbortKeeps, PutBackKeeps, EraseKeeps, RemoveKeeps,
     RetainKeeps, MarksKeep DEF Proceed
<1>4. CASE Crash
  BY <1>4, CrashKeeps
<1>5. CASE UNCHANGED vars
  BY <1>5, BytesOnly DEF vars, FilesInv, Shape, FilesTypeOK, BornOK, DirOK, At, Snapped
<1> QED
  BY <1>1, <1>2, <1>3, <1>4, <1>5 DEF Next

THEOREM FilesHold == Spec => []FilesInv
  BY FilesStart, FilesStep, PTL DEF Spec

(* Rows, locks, bytes and items keep their shape, and no listed file is    *)
(* left without its project, whatever requests do beside one another and   *)
(* whatever fails.                                                         *)
THEOREM FilesAreWellFormed == Spec => []FilesTypeOK
<1>1. FilesInv => FilesTypeOK
  BY DEF FilesInv, Shape
<1> QED
  BY <1>1, FilesHold, PTL
----------------------------------------------------------------------------
(* Restores that move everything *)

(* Nothing joins a directory, except that of an item being made. *)
NoneJoins ==
    \A f \in Files, k \in Items : item[k].state # "held" =>
        /\ original'[f] = k => original[f] = k
        /\ k \in thumb'[f] => k \in thumb[f]

LEMMA NothingToMove ==
    ASSUME NEW k \in Items, NEW f \in Files, MovesOutOf(k, f, <<>>)
    PROVE  ~At(f, k)
  BY NothingLeft DEF MovesOutOf, At

LEMMA InsertsFirstInTail ==
    ASSUME NEW S, NEW s \in Seq(S), s # <<>>, InsertsFirst(s)
    PROVE  /\ InsertsFirst(Tail(s))
           /\ Head(s).op # "insert" => \A x \in Range(Tail(s)) : x.op # "insert"
<1>1. /\ Tail(s) \in Seq(S) /\ Len(Tail(s)) = Len(s) - 1
      /\ \A i \in 1..Len(Tail(s)) : Tail(s)[i] = s[i + 1]
  BY HeadTailProperties
<1>2. /\ Len(s) \in Nat /\ Len(s) # 0 /\ DOMAIN s = 1..Len(s)
      /\ DOMAIN Tail(s) = 1..Len(Tail(s))
  BY <1>1, EmptySeq, LenProperties
<1>3. \A i \in 1..Len(Tail(s)) : i + 1 \in 1..Len(s) /\ 1 < i + 1
  BY <1>1, <1>2
<1>4. InsertsFirst(Tail(s))
  <2> SUFFICES ASSUME NEW i \in 1..Len(Tail(s)), NEW j \in 1..Len(Tail(s)),
                      i < j, Tail(s)[j].op = "insert"
               PROVE  Tail(s)[i].op = "insert"
    BY <1>2 DEF InsertsFirst
  <2>1. s[j + 1].op = "insert" /\ i + 1 < j + 1
    BY <1>1
  <2>2. s[i + 1].op = "insert"
    BY <1>2, <1>3, <2>1 DEF InsertsFirst
  <2> QED
    BY <1>1, <2>2
<1>5. ASSUME Head(s).op # "insert", NEW x \in Range(Tail(s))
      PROVE  x.op # "insert"
  <2>1. PICK i \in 1..Len(Tail(s)) : x = Tail(s)[i]
    BY <1>2, <1>5 DEF Range
  <2>2. x = s[i + 1] /\ Head(s) = s[1] /\ 1 \in 1..Len(s)
    BY <1>1, <1>2, <2>1
  <2> QED
    BY <1>2, <1>3, <1>5, <2>2 DEF InsertsFirst
<1> QED
  BY <1>4, <1>5

(* A restore goes on unaffected by the other requests. *)
LEMMA RestoreStays ==
    ASSUME FilesInv, NEW s \in Requests, RestoreOK(s), job'[s] = job[s], NoneJoins
    PROVE  RestoreOK(s)'
<1> SUFFICES ASSUME job[s].step = "run", job[s].kind = "restore"
             PROVE  RestoreOK(s)'
  BY DEF RestoreOK
<1>1. PICK k \in Items : job[s].items = {k} /\ item[k].state \in {"kept", "gone"}
  BY DEF FilesInv, JobOK, RunOK
<1>2. ASSUME NEW f \in Files
      PROVE  MovesOutOf(k, f, job[s].script)'
  <2>1. MovesOutOf(k, f, job[s].script)
    BY <1>1 DEF RestoreOK
  <2>2. (original'[f] = k => original[f] = k) /\ (k \in thumb'[f] => k \in thumb[f])
    BY <1>1 DEF NoneJoins
  <2> QED
    BY <2>1, <2>2 DEF MovesOutOf
<1>3. Inserting(s)' <=> Inserting(s)
  BY DEF Inserting
<1> QED
  BY <1>1, <1>2, <1>3 DEF RestoreOK

LEMMA RestoreStarts ==
    ASSUME FilesInv, NEW r \in Requests, NEW k \in Items, StartRestore(r, k)
    PROVE  RestoreOK(r)'
<1>1. PICK script \in Seq(Steps) :
          /\ \A s : s \in Range(script) <=>
               \/ \E x \in Snapped(k) : s = Statement("insert", x)
               \/ \E f \in Snapped(k) \ {Home}, piece \in {"original", "thumbnail"} :
                      s = Move(f, piece, k, "live")
          /\ InsertsFirst(script)
          /\ Goto(r, Running(script, "restore", {k}))
  BY RestoreHas
<1>2. job'[r] = Running(script, "restore", {k})
  BY <1>1, GoesOn
<1>3. /\ job'[r].step = "run" /\ job'[r].kind = "restore" /\ job'[r].script = script
      /\ job'[r].items = {k} /\ job'[r].moving = <<>> /\ job'[r].moved = <<>>
  BY <1>2 DEF Running
<1>4. ASSUME NEW f \in Files
      PROVE  MovesOutOf(k, f, job[r].script)'
  <2>1. At(f, k) => f \in Snapped(k) \ {Home}
    BY Distinct DEF FilesInv, DirOK
  <2>2. original' = original /\ thumb' = thumb
    BY DEF StartRestore
  <2>3. \A piece \in {"original", "thumbnail"} :
            At(f, k) => Move(f, piece, k, "live") \in Range(job'[r].script)
    BY <1>1, <1>3, <2>1
  <2> QED
    BY <2>2, <2>3 DEF MovesOutOf, At
<1> QED
  BY <1>1, <1>3, <1>4 DEF RestoreOK

(* What a move does to the pieces of the items. *)
LEMMA PiecesMoved ==
    ASSUME Shape, NEW ms, ms \subseteq Moves, Relocate(ms), NEW f \in Files
    PROVE  /\ original'[f] = original[f] \/ {original[f], original'[f]} \subseteq Places
           /\ thumb'[f] = {} <=> thumb[f] = {}
           /\ \A k \in Items :
                (\A m \in ms : m.to # k) =>
                    /\ original'[f] = k => original[f] = k
                    /\ k \in thumb'[f] => k \in thumb[f]
<1>1. /\ \/ original'[f] = original[f]
         \/ \E m \in ms : /\ m.key = f /\ m.piece = "original"
                          /\ original[f] = m.from /\ original'[f] = m.to
      /\ \A p \in thumb'[f] :
           \/ p \in thumb[f]
           \/ \E m \in ms : /\ m.key = f /\ m.piece = "thumbnail"
                            /\ m.from \in thumb[f] /\ p = m.to
      /\ thumb'[f] = {} <=> thumb[f] = {}
  BY Relocated
<1>2. \A m \in ms : {m.from, m.to} \subseteq Places
  BY DEF Moves
<1> QED
  BY <1>1, <1>2

LEMMA MoveJoins ==
    ASSUME FilesInv, NEW r \in Requests, MovePiece(r)
    PROVE  /\ NoneJoins
           /\ \A f \in Files :
                /\ original'[f] = original[f] \/ {original[f], original'[f]} \subseteq Places
                /\ thumb'[f] = {} <=> thumb[f] = {}
<1>1. OnStep(r, "move") /\ Relocate({Next1(r)})
  BY DEF MovePiece
<1>2. job[r].step = "run" /\ job[r].script # <<>> /\ Next1(r).op = "move"
  BY <1>1 DEF OnStep
<1>3. RunOK(r) /\ job[r] \in Runs /\ StepOK(r, Next1(r)) /\ Next1(r) \in Steps
  BY <1>2, RunningOn
<1>4. /\ Next1(r) \in Moves
      /\ \A k \in Items : Next1(r).to = k => item[k].state = "held"
  <2>1. job[r].kind \in {"delete", "restore"}
    BY <1>3 DEF Runs
  <2>2. CASE job[r].kind = "delete"
    BY <1>2, <1>3, <2>2 DEF StepOK, MoveOK, RunOK
  <2>3. CASE job[r].kind = "restore"
    BY <1>2, <1>3, <2>3, Distinct DEF StepOK, MoveOK
  <2> QED
    BY <2>1, <2>2, <2>3
<1>5. Shape /\ {Next1(r)} \subseteq Moves
  BY <1>4 DEF FilesInv
<1> QED
  BY <1>1, <1>4, <1>5, PiecesMoved DEF NoneJoins

(* The restore itself, after a statement and after a move. *)
LEMMA RestoreAdvances ==
    ASSUME FilesInv, NEW r \in Requests, RestoreOK(r), DeleteRow(r) \/ InsertRow(r)
    PROVE  RestoreOK(r)'
<1>1. /\ OnStep(r, "delete") \/ OnStep(r, "insert")
      /\ Advance(r) /\ UNCHANGED <<original, thumb>>
  BY DEF DeleteRow, InsertRow
<1>2. job[r].step = "run" /\ job[r].script # <<>> /\ Next1(r).op \in {"delete", "insert"}
  BY <1>1 DEF OnStep
<1>3. /\ RunOK(r) /\ job[r] \in Runs /\ StepOK(r, Next1(r))
      /\ \A s : s \in Range(job[r].script) <=> s = Next1(r) \/ s \in Range(Tail(job[r].script))
  BY <1>2, RunningOn
<1>4. /\ job'[r].step = "run" /\ job'[r].kind = job[r].kind /\ job'[r].items = job[r].items
      /\ job'[r].moving = job[r].moving /\ job'[r].moved = job[r].moved
      /\ job'[r].script = Tail(job[r].script)
  BY <1>1, <1>2, Advances
<1> SUFFICES ASSUME job[r].kind = "restore"
             PROVE  RestoreOK(r)'
  BY <1>4 DEF RestoreOK
<1>5. Next1(r).op = "insert"
  BY <1>2, <1>3 DEF StepOK, MoveOK, Moves
<1>6. Inserting(r) /\ InsertsFirst(job[r].script) /\ job[r].moving = <<>> /\ job[r].moved = <<>>
  BY <1>2, <1>3, <1>5 DEF RestoreOK, Inserting
<1>7. InsertsFirst(Tail(job[r].script))
  <2>1. job[r].script \in Seq(Steps)
    BY <1>3 DEF Runs
  <2> QED
    BY <1>2, <1>6, <2>1, InsertsFirstInTail
<1>8. ASSUME NEW k \in job[r].items, NEW f \in Files
      PROVE  MovesOutOf(k, f, job[r].script)'
  <2>1. MovesOutOf(k, f, job[r].script)
    BY <1>2 DEF RestoreOK
  <2>2. \A piece : Move(f, piece, k, "live") # Next1(r)
    BY <1>5 DEF Move
  <2>3. \A piece : Move(f, piece, k, "live") \in Range(job[r].script) =>
                       Move(f, piece, k, "live") \in Range(job'[r].script)
    BY <1>3, <1>4, <2>2
  <2>4. original' = original /\ thumb' = thumb
    BY <1>1
  <2> QED
    BY <2>1, <2>3, <2>4 DEF MovesOutOf
<1> QED
  BY <1>4, <1>6, <1>7, <1>8 DEF RestoreOK

LEMMA RestoreMovesOn ==
    ASSUME FilesInv, NEW r \in Requests, RestoreOK(r), MovePiece(r)
    PROVE  RestoreOK(r)'
<1> DEFINE m == Next1(r)
<1>1. OnStep(r, "move") /\ Relocate({m})
  BY DEF MovePiece
<1>2. job[r].step = "run" /\ job[r].script # <<>> /\ m.op = "move"
  BY <1>1 DEF OnStep
<1>3. /\ RunOK(r) /\ job[r] \in Runs /\ StepOK(r, m)
      /\ \A s : s \in Range(job[r].script) <=> s = m \/ s \in Range(Tail(job[r].script))
  BY <1>2, RunningOn
<1>4. /\ job'[r].step = "run" /\ job'[r].kind = job[r].kind /\ job'[r].items = job[r].items
      /\ job'[r].script = Tail(job[r].script)
  <2> DEFINE moving == IF IsAt(m) THEN Append(job[r].moving, m) ELSE job[r].moving
             p1 == [job[r] EXCEPT !.script = Tail(@), !.moving = moving]
             p2 == [job[r] EXCEPT !.script = Tail(@), !.moving = <<>>, !.moved = @ \o moving]
  <2>1. Goto(r, IF m.piece = "original" THEN p1 ELSE p2)
    BY DEF MovePiece
  <2>2. job'[r] \in {p1, p2}
    BY <2>1, GoesOn
  <2>3. /\ p1.step = "run" /\ p1.kind = job[r].kind /\ p1.items = job[r].items
        /\ p1.script = Tail(job[r].script)
        /\ p2.step = "run" /\ p2.kind = job[r].kind /\ p2.items = job[r].items
        /\ p2.script = Tail(job[r].script)
    BY <1>2, <1>3 DEF Runs
  <2> HIDE DEF p1, p2
  <2> QED
    BY <2>2, <2>3
<1> HIDE DEF m
<1> SUFFICES ASSUME job[r].kind = "restore"
             PROVE  RestoreOK(r)'
  BY <1>4 DEF RestoreOK
<1>5. PICK k \in Items : job[r].items = {k} /\ item[k].state \in {"kept", "gone"}
  BY <1>3 DEF RunOK
<1>6. /\ InsertsFirst(Tail(job[r].script))
      /\ \A s \in Range(Tail(job[r].script)) : s.op # "insert"
  <2>1. job[r].script \in Seq(Steps) /\ m = Head(job[r].script) /\ InsertsFirst(job[r].script)
    BY <1>2, <1>3 DEF Runs, m, Next1, RestoreOK
  <2> QED
    BY <1>2, <2>1, InsertsFirstInTail
<1>7. ~Inserting(r)'
  BY <1>4, <1>6 DEF Inserting
<1>8. m \in Moves
  BY <1>2, <1>3 DEF StepOK, MoveOK
<1>9. ASSUME NEW f \in Files
      PROVE  MovesOutOf(k, f, job[r].script)'
  <2>1. MovesOutOf(k, f, job[r].script)
    BY <1>2, <1>5 DEF RestoreOK
  <2>2. (original'[f] = k => original[f] = k) /\ (k \in thumb'[f] => k \in thumb[f])
    BY <1>5, MoveJoins DEF NoneJoins
  <2>3. /\ original'[f] = IF f = m.key /\ m.piece = "original" /\ original[f] = m.from
                          THEN m.to ELSE original[f]
        /\ thumb'[f] = IF f = m.key /\ m.piece = "thumbnail" /\ m.from \in thumb[f]
                       THEN (thumb[f] \ {m.from}) \cup {m.to} ELSE thumb[f]
    BY <1>1, <1>8, OneMove DEF FilesInv
  <2>4. m = Move(f, "original", k, "live") => original'[f] # k
    <3>1. m = Move(f, "original", k, "live") =>
              m.key = f /\ m.piece = "original" /\ m.from = k /\ m.to = "live"
      BY DEF Move
    <3> QED
      BY <2>3, <3>1, Distinct
  <2>5. m = Move(f, "thumbnail", k, "live") => k \notin thumb'[f]
    <3>1. m = Move(f, "thumbnail", k, "live") =>
              m.key = f /\ m.piece = "thumbnail" /\ m.from = k /\ m.to = "live"
      BY DEF Move
    <3> QED
      BY <2>3, <3>1, Distinct
  <2>6. \A s : s \in Range(job[r].script) => s = m \/ s \in Range(job'[r].script)
    BY <1>3, <1>4
  <2> QED
    BY <2>1, <2>2, <2>4, <2>5, <2>6 DEF MovesOutOf
<1> QED
  BY <1>4, <1>5, <1>6, <1>7, <1>9 DEF RestoreOK
----------------------------------------------------------------------------
(* Several requests: nothing is thrown away while a copy is needed. *)

(* What is on disk stays there, and a thumbnail too. *)
CopiesStay ==
    \A f \in Files : /\ original'[f] # "unborn" => OnDisk(f)'
                     /\ thumb[f] # {} => thumb'[f] # {}

(* A request whose job does not change. *)
LEMMA CopyStays ==
    ASSUME CopyInv, NEW s \in Requests, job'[s] = job[s], NoneJoins, CopiesStay
    PROVE  CopyOK(s)'
<1>1. CopyOK(s) /\ JobOK(s) /\ FilesInv
  BY DEF CopyInv, FilesInv
<1>2. RestoreOK(s)'
  BY <1>1, RestoreStays DEF CopyOK
<1>3. job[s].step = "remove" => \A k \in job[s].items, f \in Files : ~At(f, k)'
  <2>1. job[s].step = "remove" => \A k \in job[s].items : k \in Items /\ item[k].state = "gone"
    BY <1>1 DEF JobOK
  <2> QED
    BY <1>1, <2>1 DEF CopyOK, NoneJoins, At
<1>4. job[s].step = "unlink" => thumb'[job[s].file] # {}
  <2>1. job[s].step = "unlink" => job[s].file \in Files
    BY <1>1 DEF JobOK, Unlinking
  <2> QED
    BY <1>1, <2>1 DEF CopyOK, CopiesStay
<1> QED
  BY <1>1, <1>2, <1>3, <1>4 DEF CopyOK

LEMMA CopyKeeps ==
    ASSUME CopyInv, FilesInv', NEW r \in Requests,
           \A s \in Requests \ {r} : job'[s] = job[s],
           NoneJoins, CopiesStay, CopyOK(r)'
    PROVE  CopyInv'
<1>1. \A s \in Requests : CopyOK(s)'
  BY CopyStays
<1> QED
  BY <1>1 DEF CopyInv, CopiesStay

LEMMA NoBytesNoHarm ==
    ASSUME CopyInv, UNCHANGED <<original, thumb>>
    PROVE  NoneJoins /\ CopiesStay
  BY DEF CopyInv, NoneJoins, CopiesStay, OnDisk

LEMMA OthersStay ==
    ASSUME FilesInv, NEW r \in Requests, NEW q, Goto(r, q)
    PROVE  job'[r] = q /\ \A s \in Requests \ {r} : job'[s] = job[s]
  BY GoesOn

LEMMA BeginLeavesCopies ==
    ASSUME CopyInv, FilesInv', NEW r \in Requests, Begin(r),
           Jobs \cap {"erase", "clean up"} = {}
    PROVE  CopyInv'
<1>1. FilesInv
  BY DEF CopyInv
<1>2. UNCHANGED <<original, thumb>>
  BY DEF Begin, StartDeleteProject, StartDeleteFiles, StartRestore, StartErase,
     StartRetention, Attach, StartCleanUp
<1>3. NoneJoins /\ CopiesStay
  BY <1>2, NoBytesNoHarm
<1>4. CASE \E f \in Files : Attach(r, f)
  <2>1. UNCHANGED job
    BY <1>4 DEF Attach
  <2> QED
    BY <1>3, <2>1, CopyStays, CopyKeeps
<1>5. ASSUME NEW script, NEW items, Goto(r, Running(script, "delete", items))
      PROVE  CopyInv'
  <2> DEFINE q == Running(script, "delete", items)
  <2>1. q.step = "run" /\ q.kind = "delete"
    BY DEF Running
  <2> HIDE DEF q
  <2>2. job'[r] = q /\ \A s \in Requests \ {r} : job'[s] = job[s]
    BY <1>1, <1>5, OthersStay DEF q
  <2>3. CopyOK(r)'
    BY <2>1, <2>2 DEF CopyOK, RestoreOK
  <2> QED
    BY <1>3, <2>2, <2>3, CopyKeeps
<1>6. CASE StartDeleteProject(r)
  BY <1>5, <1>6 DEF StartDeleteProject
<1>7. CASE \E files \in SUBSET Files : StartDeleteFiles(r, files)
  BY <1>5, <1>7 DEF StartDeleteFiles
<1>8. ASSUME NEW k \in Items, StartRestore(r, k)
      PROVE  CopyInv'
  <2>1. PICK script, items : Goto(r, Running(script, "restore", items))
    BY <1>8 DEF StartRestore
  <2> DEFINE q == Running(script, "restore", items)
  <2>2. q.step = "run"
    BY DEF Running
  <2> HIDE DEF q
  <2>3. job'[r] = q /\ \A s \in Requests \ {r} : job'[s] = job[s]
    BY <1>1, <2>1, OthersStay DEF q
  <2>4. CopyOK(r)'
    BY <1>1, <1>8, <2>2, <2>3, RestoreStarts DEF CopyOK
  <2> QED
    BY <1>3, <2>3, <2>4, CopyKeeps
<1>9. ASSUME NEW due \in SUBSET Files, StartRetention(r, due)
      PROVE  CopyInv'
  <2> DEFINE q == [step |-> "retain", left |-> due, marked |-> {}]
  <2>1. q.step = "retain"
    OBVIOUS
  <2> HIDE DEF q
  <2>2. job'[r] = q /\ \A s \in Requests \ {r} : job'[s] = job[s]
    BY <1>1, <1>9, OthersStay DEF q, StartRetention
  <2>3. CopyOK(r)'
    BY <2>1, <2>2 DEF CopyOK, RestoreOK
  <2> QED
    BY <1>3, <2>2, <2>3, CopyKeeps
<1> QED
  BY <1>4, <1>6, <1>7, <1>8, <1>9 DEF Begin

LEMMA ScriptLeavesCopies ==
    ASSUME CopyInv, FilesInv', NEW r \in Requests,
           DeleteRow(r) \/ InsertRow(r) \/ MovePiece(r)
    PROVE  CopyInv'
<1>1. FilesInv /\ RestoreOK(r) /\ job[r].step = "run" /\ job[r].script # <<>>
  BY DEF CopyInv, CopyOK, DeleteRow, InsertRow, MovePiece, OnStep
<1>2. RestoreOK(r)'
  BY <1>1, RestoreAdvances, RestoreMovesOn
<1>3. job'[r].step = "run" /\ \A s \in Requests \ {r} : job'[s] = job[s]
  <2>1. CASE DeleteRow(r) \/ InsertRow(r)
    BY <1>1, <2>1, Advances DEF DeleteRow, InsertRow
  <2>2. CASE MovePiece(r)
    <3>1. PICK q : Goto(r, q) /\ (\E a, b : q = [job[r] EXCEPT !.script = Tail(@), !.moving = a]
                      \/ q = [job[r] EXCEPT !.script = Tail(@), !.moving = <<>>, !.moved = b])
      BY <2>2 DEF MovePiece
    <3>2. q.step = "run"
      BY <1>1, <3>1 DEF FilesInv, JobOK, RunOK, Runs
    <3> QED
      BY <1>1, <3>1, <3>2, OthersStay
  <2> QED
    BY <2>1, <2>2
<1>4. NoneJoins /\ CopiesStay
  <2>1. CASE DeleteRow(r) \/ InsertRow(r)
    BY <2>1, NoBytesNoHarm DEF DeleteRow, InsertRow
  <2>2. CASE MovePiece(r)
    <3>1. NoneJoins /\ \A f \in Files :
              /\ original'[f] = original[f] \/ {original[f], original'[f]} \subseteq Places
              /\ thumb'[f] = {} <=> thumb[f] = {}
      BY <1>1, <2>2, MoveJoins
    <3> QED
      BY <3>1, Distinct DEF CopyInv, CopiesStay, OnDisk
  <2> QED
    BY <2>1, <2>2
<1>5. CopyOK(r)'
  BY <1>2, <1>3 DEF CopyOK
<1> QED
  BY <1>3, <1>4, <1>5, CopyKeeps

LEMMA EndLeavesCopies ==
    ASSUME CopyInv, FilesInv', NEW r \in Requests, Commit(r) \/ Abort(r), MayFail = FALSE
    PROVE  CopyInv'
<1>1. FilesInv /\ RestoreOK(r) /\ job[r].step = "run" /\ RunOK(r) /\ job[r] \in Runs
  BY DEF CopyInv, CopyOK, Commit, Abort, FilesInv, JobOK, RunOK
<1>2. NoneJoins /\ CopiesStay
  BY NoBytesNoHarm DEF Commit, Abort
<1>3. ASSUME Goto(r, Idle)
      PROVE  CopyInv'
  <2>1. job'[r].step = "idle" /\ \A s \in Requests \ {r} : job'[s] = job[s]
    BY <1>1, <1>3, OthersStay, IdleIs
  <2>2. CopyOK(r)'
    BY <2>1 DEF CopyOK, RestoreOK
  <2> QED
    BY <1>2, <2>1, <2>2, CopyKeeps
<1>4. CASE Commit(r) /\ job[r].kind # "delete"
  <2> DEFINE q == [step |-> "remove", items |-> job[r].items]
  <2>1. q.step = "remove" /\ q.items = job[r].items
    OBVIOUS
  <2> HIDE DEF q
  <2>2. job'[r] = q /\ \A s \in Requests \ {r} : job'[s] = job[s]
    BY <1>1, <1>4, OthersStay DEF q, Commit
  <2>3. job[r].script = <<>> /\ UNCHANGED <<original, thumb>> /\ job[r].kind = "restore"
    BY <1>1, <1>4 DEF Commit, Runs
  <2>4. \A k \in job[r].items, f \in Files : ~At(f, k)
    <3>1. job[r].items \subseteq Items
      BY <1>1 DEF Runs
    <3> QED
      BY <1>1, <2>3, <3>1, NothingToMove DEF RestoreOK
  <2>5. \A k \in q.items, f \in Files : ~At(f, k)'
    BY <2>1, <2>3, <2>4 DEF At
  <2>6. CopyOK(r)'
    BY <2>1, <2>2, <2>5 DEF CopyOK, RestoreOK
  <2> QED
    BY <1>2, <2>2, <2>6, CopyKeeps
<1>5. CASE Commit(r) /\ job[r].kind = "delete"
  BY <1>3, <1>5 DEF Commit
<1>6. CASE Abort(r) /\ job[r].moved # <<>>
  <2> DEFINE q == [step |-> "put back", moved |-> job[r].moved]
  <2>1. q.step = "put back" /\ q.moved = job[r].moved
    OBVIOUS
  <2> HIDE DEF q
  <2>2. job'[r] = q /\ \A s \in Requests \ {r} : job'[s] = job[s]
    BY <1>1, <1>6, OthersStay DEF q, Abort
  <2>3. job[r].kind = "delete"
    <3>1. SUFFICES ASSUME job[r].kind = "restore" PROVE FALSE
      BY <1>1 DEF Runs
    <3>2. ~Inserting(r)
      BY <1>1, <1>6, <3>1 DEF RestoreOK
    <3>3. OnStep(r, "insert") \/ InCircle(r)
      BY <1>6 DEF Abort
    <3>4. OnStep(r, "insert") \/ OnStep(r, "delete")
      BY <3>3 DEF InCircle, WaitsOn
    <3>5. job[r].script # <<>> /\ Next1(r).op \in {"insert", "delete"}
      BY <3>4 DEF OnStep
    <3>6. StepOK(r, Next1(r)) /\ Next1(r) \in Range(job[r].script)
      BY <1>1, <3>5, RunningOn
    <3>7. Next1(r).op = "insert"
      BY <3>1, <3>5, <3>6 DEF StepOK, MoveOK, Moves
    <3> QED
      BY <3>2, <3>6, <3>7 DEF Inserting
  <2>4. \A m \in Range(job[r].moved) : m.from = "live"
    <3>1. job[r].moved \in Seq(Moves)
      BY <1>1 DEF Runs
    <3>2. \A m \in Range(job[r].moved) : m \in Moves /\ StepOK(r, m)
      BY <1>1, <3>1, RangeEquality DEF RunOK
    <3> QED
      BY <2>3, <3>2 DEF StepOK, Moves
  <2>5. CopyOK(r)'
    BY <2>1, <2>2, <2>4 DEF CopyOK, RestoreOK
  <2> QED
    BY <1>2, <2>2, <2>5, CopyKeeps
<1>7. CASE Abort(r) /\ job[r].moved = <<>>
  BY <1>3, <1>7 DEF Abort
<1> QED
  BY <1>4, <1>5, <1>6, <1>7

LEMMA PutBackLeavesCopies ==
    ASSUME CopyInv, FilesInv', NEW r \in Requests, PutBack(r)
    PROVE  CopyInv'
<1> DEFINE ms == {Reversal(m) : m \in Range(job[r].moved)}
<1>1. /\ FilesInv /\ CopyOK(r) /\ job[r].step = "put back" /\ Relocate(ms) /\ Goto(r, Idle)
      /\ Shape
  BY DEF CopyInv, PutBack, FilesInv
<1>2. \A m \in Range(job[r].moved) : m \in Moves /\ m.from = "live"
  BY <1>1 DEF CopyOK, FilesInv, JobOK, MoveOK
<1>3. \A m \in ms : m \in Moves /\ m.to = "live"
  BY <1>2 DEF Reversal, Moves
<1> HIDE DEF ms
<1>4. ms \subseteq Moves /\ \A k \in Items, m \in ms : m.to # k
  BY <1>3, Distinct
<1>5. NoneJoins
  BY <1>1, <1>4, PiecesMoved DEF NoneJoins
<1>6. CopiesStay
  <2>1. \A f \in Files :
            /\ original'[f] = original[f] \/ {original[f], original'[f]} \subseteq Places
            /\ thumb'[f] = {} <=> thumb[f] = {}
    BY <1>1, <1>4, PiecesMoved
  <2> QED
    BY <2>1, Distinct DEF CopyInv, CopiesStay, OnDisk
<1>7. job'[r].step = "idle" /\ \A s \in Requests \ {r} : job'[s] = job[s]
  BY <1>1, OthersStay, IdleIs
<1>8. CopyOK(r)'
  BY <1>7 DEF CopyOK, RestoreOK
<1> QED
  BY <1>5, <1>6, <1>7, <1>8, CopyKeeps

LEMMA RemovalLeavesCopies ==
    ASSUME CopyInv, FilesInv', NEW r \in Requests, RemoveDirectory(r)
    PROVE  CopyInv'
<1>1. FilesInv /\ CopyOK(r) /\ job[r].step = "remove" /\ Goto(r, Idle)
      /\ job[r].items \subseteq Items
  BY DEF CopyInv, RemoveDirectory, FilesInv, JobOK
<1>2. \A f \in Files : original[f] \notin job[r].items /\ thumb[f] \cap job[r].items = {}
  BY <1>1 DEF CopyOK, At
<1>3. \A f \in Files : original'[f] = original[f] /\ thumb'[f] = thumb[f]
  BY <1>2 DEF RemoveDirectory
<1>4. NoneJoins /\ CopiesStay
  BY <1>3 DEF CopyInv, NoneJoins, CopiesStay, OnDisk
<1>5. job'[r].step = "idle" /\ \A s \in Requests \ {r} : job'[s] = job[s]
  BY <1>1, OthersStay, IdleIs
<1>6. CopyOK(r)'
  BY <1>5 DEF CopyOK, RestoreOK
<1> QED
  BY <1>4, <1>5, <1>6, CopyKeeps

LEMMA RetentionLeavesCopies ==
    ASSUME CopyInv, FilesInv', NEW r \in Requests,
           Consider(r) \/ Unlink(r) \/ CommitMarks(r)
    PROVE  CopyInv'
<1>1. /\ FilesInv /\ CopyOK(r) /\ JobOK(r)
      /\ \A f \in Files : original[f] # "unborn" => OnDisk(f)
  BY DEF CopyInv, FilesInv
<1>2. thumb \in [Files -> SUBSET ({"live"} \cup Items)]
      /\ original \in [Files -> {"unborn", "gone", "live"} \cup Items]
  BY <1>1 DEF FilesInv, Shape, FilesTypeOK
<1>3. CASE Consider(r)
  <2>1. job[r].left \subseteq Files
    BY <1>1, <1>3 DEF Consider, JobOK, Retaining
  <2> DEFINE here(f) == original[f] = "live"
             ready(f) == "live" \in thumb[f] \/ (here(f) /\ f \in Images)
             on(f) == [step |-> "unlink", left |-> job[r].left \ {f},
                       marked |-> job[r].marked, file |-> f, here |-> here(f)]
             skip(f) == [job[r] EXCEPT !.left = @ \ {f}]
  <2>2. PICK f \in job[r].left :
            /\ thumb' = [thumb EXCEPT ![f] = IF ready(f) THEN @ \cup {"live"} ELSE @]
            /\ Goto(r, IF ready(f) THEN on(f) ELSE skip(f))
            /\ UNCHANGED original
    BY <1>3 DEF Consider
  <2>3. \A g \in Files : thumb[g] \subseteq thumb'[g] /\ thumb'[g] \subseteq thumb[g] \cup {"live"}
    BY <1>2, <2>1, <2>2
  <2>4. NoneJoins /\ CopiesStay
    BY <1>1, <2>2, <2>3, Distinct DEF NoneJoins, CopiesStay, OnDisk
  <2>5. ready(f) => "live" \in thumb'[f]
    BY <1>2, <2>1, <2>2
  <2>6. on(f).step = "unlink" /\ on(f).file = f /\ skip(f).step = "retain"
    BY <1>1, <1>3 DEF Consider, JobOK, Retaining
  <2> HIDE DEF ready, on, skip, here
  <2>7. /\ job'[r] = IF ready(f) THEN on(f) ELSE skip(f)
        /\ \A s \in Requests \ {r} : job'[s] = job[s]
    BY <1>1, <2>2, OthersStay
  <2>8. CopyOK(r)'
    BY <2>5, <2>6, <2>7 DEF CopyOK, RestoreOK
  <2> QED
    BY <2>4, <2>7, <2>8, CopyKeeps
<1>4. CASE Unlink(r)
  <2>1. PICK marked : Goto(r, [step |-> "retain", left |-> job[r].left, marked |-> marked])
    BY <1>4 DEF Unlink
  <2> DEFINE q == [step |-> "retain", left |-> job[r].left, marked |-> marked]
  <2>2. q.step = "retain"
    OBVIOUS
  <2> HIDE DEF q
  <2>3. job'[r] = q /\ \A s \in Requests \ {r} : job'[s] = job[s]
    BY <1>1, <2>1, OthersStay DEF q
  <2>4. job[r].file \in Files /\ thumb[job[r].file] # {}
    BY <1>1, <1>4 DEF Unlink, JobOK, Unlinking, CopyOK
  <2>5. /\ UNCHANGED thumb
        /\ \A g \in Files : original'[g] = original[g] \/ (original'[g] = "gone" /\ g = job[r].file)
    BY <1>2, <1>4, <2>4 DEF Unlink
  <2>6. NoneJoins /\ CopiesStay
    BY <1>1, <2>4, <2>5, Distinct DEF NoneJoins, CopiesStay, OnDisk
  <2>7. CopyOK(r)'
    BY <2>2, <2>3 DEF CopyOK, RestoreOK
  <2> QED
    BY <2>3, <2>6, <2>7, CopyKeeps
<1>5. CASE CommitMarks(r)
  <2>1. NoneJoins /\ CopiesStay
    BY <1>5, NoBytesNoHarm DEF CommitMarks
  <2>2. job'[r].step = "idle" /\ \A s \in Requests \ {r} : job'[s] = job[s]
    BY <1>1, <1>5, OthersStay, IdleIs DEF CommitMarks
  <2>3. CopyOK(r)'
    BY <2>2 DEF CopyOK, RestoreOK
  <2> QED
    BY <2>1, <2>2, <2>3, CopyKeeps
<1> QED
  BY <1>3, <1>4, <1>5

LEMMA CopyStep ==
    ASSUME Jobs \cap {"erase", "clean up"} = {}, MayFail = FALSE, CopyInv, [Next]_vars
    PROVE  CopyInv'
<1>1. FilesInv'
  BY FilesStep DEF CopyInv
<1>2. FilesInv
  BY DEF CopyInv
<1>3. ASSUME NEW f \in Files, Upload(f) \/ MakeThumbnail(f)
      PROVE  CopyInv'
  <2>1. UNCHANGED job
    BY <1>3 DEF Upload, MakeThumbnail
  <2>2. \A g \in Files : /\ original'[g] = original[g] \/ original'[g] = "live"
                         /\ thumb'[g] = thumb[g] \/ thumb'[g] = thumb[g] \cup {"live"}
    BY <1>2, <1>3 DEF FilesInv, Shape, FilesTypeOK, Upload, MakeThumbnail
  <2>3. NoneJoins
    BY <2>2, Distinct DEF NoneJoins
  <2>4. CopiesStay
    BY <2>2 DEF CopyInv, CopiesStay, OnDisk, Places
  <2> QED
    BY <1>1, <2>1, <2>3, <2>4, CopyStays DEF CopyInv, CopiesStay
<1>4. ASSUME NEW r \in Requests, Begin(r)
      PROVE  CopyInv'
  BY <1>1, <1>4, BeginLeavesCopies
<1>5. ASSUME NEW r \in Requests, Proceed(r)
      PROVE  CopyInv'
  <2>1. ~Erase(r) /\ ~CleanUp(r)
    BY DEF CopyInv, CopyOK, Erase, CleanUp
  <2> QED
    BY <1>1, <1>5, <2>1, ScriptLeavesCopies, EndLeavesCopies, PutBackLeavesCopies,
       RemovalLeavesCopies, RetentionLeavesCopies DEF Proceed
<1>6. CASE Crash
  <2>1. \A r \in Requests : job'[r].step = "idle"
    BY <1>6, IdleIs DEF Crash
  <2>2. \A r \in Requests : CopyOK(r)'
    BY <2>1 DEF CopyOK, RestoreOK
  <2>3. CopiesStay
    BY <1>6, NoBytesNoHarm DEF Crash
  <2> QED
    BY <1>1, <2>2, <2>3 DEF CopyInv, CopiesStay
<1>7. CASE UNCHANGED vars
  <2>1. UNCHANGED <<original, thumb, job>>
    BY <1>7 DEF vars
  <2>2. NoneJoins /\ CopiesStay
    BY <2>1, NoBytesNoHarm
  <2> QED
    BY <1>1, <2>1, <2>2, CopyStays DEF CopyInv, CopiesStay
<1> QED
  BY <1>3, <1>4, <1>5, <1>6, <1>7 DEF Next

(* Whatever several requests and the retention job do beside one another,  *)
(* deleting and restoring, and whenever the server stops, a file somebody  *)
(* can still see, in the project or in the bin, has its bytes or a         *)
(* thumbnail left.  Erasing and cleaning up throw bytes away on purpose,   *)
(* and a failed restore may put its files back after somebody else's went  *)
(* through: neither is assumed here.                                       *)
THEOREM ClaimedIsOnDiskBeside ==
    ASSUME Jobs \cap {"erase", "clean up"} = {}, MayFail = FALSE
    PROVE  Spec => []ClaimedIsOnDisk
<1>1. Init => CopyInv
  <2>1. Init => \A f \in Files : original[f] = "unborn"
    BY DEF Init
  <2>2. Init => \A r \in Requests : job[r].step = "idle"
    BY IdleIs DEF Init
  <2> QED
    BY <2>1, <2>2, FilesStart DEF CopyInv, CopyOK, RestoreOK
<1>2. CopyInv /\ [Next]_vars => CopyInv'
  BY CopyStep
<1>3. CopyInv => ClaimedIsOnDisk
  <2> SUFFICES ASSUME CopyInv, NEW f \in Files, Claimed(f)
               PROVE  original[f] \in {"live"} \cup Items \/ thumb[f] # {}
    BY DEF ClaimedIsOnDisk
  <2>1. original[f] # "unborn"
    <3>1. row[f] \in Held \/ \E k \in Items : f \in Snapped(k)
      BY Distinct DEF Claimed, Snapped
    <3> QED
      BY <3>1 DEF CopyInv, FilesInv, BornOK
  <2> QED
    BY <2>1 DEF CopyInv, OnDisk, Places
<1> QED
  BY <1>1, <1>2, <1>3, PTL DEF Spec
----------------------------------------------------------------------------
(* One request at a time, whatever fails *)

LEMMA AloneKeeps ==
    ASSUME OneAtATime, AloneInv, FilesInv', NEW r \in Requests, AloneOK(r)',
           \A x \in Keys : UniqueOK(x)', \A k \in Items : HeldOK(k)',
           \A f \in Files : Claimed(f)' => OnDisk(f)'
    PROVE  AloneInv'
<1>1. \A s \in Requests : AloneOK(s)'
  BY DEF OneAtATime
<1>2. ClaimedIsOnDisk'
  BY DEF ClaimedIsOnDisk, OnDisk, Places
<1> QED
  BY <1>1, <1>2 DEF AloneInv

LEMMA StillOnDisk ==
    ASSUME AloneInv, NEW f \in Files, Claimed(f)
    PROVE  OnDisk(f)
  BY DEF AloneInv, ClaimedIsOnDisk, OnDisk, Places

(* A step that leaves rows and items alone. *)
LEMMA NothingChangesHands ==
    ASSUME UNCHANGED <<row, item>>
    PROVE  /\ \A k : Snapped(k)' = Snapped(k)
           /\ \A x \in Keys : UniqueOK(x) => UniqueOK(x)'
           /\ \A f \in Files : Claimed(f)' <=> Claimed(f)
<1>1. \A k : Snapped(k)' = Snapped(k)
  BY DEF Snapped
<1> QED
  BY <1>1 DEF UniqueOK, Claimed

(* A request that is not deleting has made no item. *)
LEMMA NoneHeld ==
    ASSUME OneAtATime, AloneInv, NEW r \in Requests,
           job[r].step # "run" \/ job[r].kind # "delete"
    PROVE  \A k \in Items : item[k].state # "held"
  BY DEF OneAtATime, AloneInv, HeldOK, Deletes

LEMMA AloneFacts ==
    ASSUME AloneInv, NEW r \in Requests
    PROVE  /\ FilesInv /\ AloneOK(r) /\ RestoreOK(r) /\ JobOK(r)
           /\ \A x \in Keys : UniqueOK(x)
           /\ \A k \in Items : HeldOK(k)
           /\ \A f \in Files : DirOK(f) /\ BornOK(f)
  BY DEF AloneInv, AloneOK, FilesInv

LEMMA BinningAlone ==
    ASSUME OneAtATime, AloneInv, FilesInv', NEW r \in Requests, Binning(r)
    PROVE  AloneInv'
<1>1. PICK ids \in SUBSET Items : \E taken \in [ids -> SUBSET Keys], script \in Seq(Steps) :
           Binned(r, ids, taken, script)
  BY DEF Binning
<1>2. PICK taken \in [ids -> SUBSET Keys], script \in Seq(Steps) :
           Binned(r, ids, taken, script)
  BY <1>1
<1>3. /\ job[r] = Idle
      /\ \A k \in ids : item[k].state = "unborn"
      /\ \A k, l \in ids : taken[k] \cap taken[l] # {} => k = l
      /\ \A k \in Items \ ids : item'[k] = item[k]
      /\ \A k \in ids : \A x \in taken[k] : Statement("delete", x) \in Range(script)
      /\ UNCHANGED <<row, lock, original, thumb, mishap>>
  BY <1>2 DEF Binned
<1>4. FilesInv /\ job[r].step = "idle"
  BY <1>3, AloneFacts, IdleIs
<1>5. ASSUME NEW k \in ids
      PROVE  /\ item'[k].state = "held" /\ Snapped(k)' = taken[k]
             /\ \A x \in taken[k] : item'[k].rows[x] = row[x]
  <2>1. item'[k] = Snapshot(taken[k]) /\ taken[k] \subseteq Keys
        /\ \A x \in taken[k] : row[x] \in Held
    BY <1>2 DEF Binned
  <2> QED
    BY <1>4, <2>1, BinnedItems
<1>6. /\ job'[r].step = "run" /\ job'[r].kind = "delete" /\ job'[r].script = script
      /\ job'[r].items = ids
  <2>1. Goto(r, Running(script, "delete", ids))
    BY <1>2 DEF Binned
  <2> QED
    BY <1>4, <2>1, BinnedJob
<1>7. \A k \in Items \ ids : Snapped(k)' = Snapped(k)
  BY <1>3 DEF Snapped
<1>8. \A k \in Items : item'[k].state = "kept" => k \notin ids /\ item'[k] = item[k]
  BY <1>3, <1>5
<1>9. \A x \in Keys : UniqueOK(x)'
  <2>1. \A x \in Keys : UniqueOK(x)
    BY AloneFacts
  <2> QED
    BY <1>3, <1>7, <1>8, <2>1 DEF UniqueOK
<1>10. \A f \in Files : Claimed(f)' => OnDisk(f)'
  <2>1. \A f \in Files : Claimed(f)' => Claimed(f)
    BY <1>3, <1>8 DEF Claimed
  <2> QED
    BY <1>3, <2>1, StillOnDisk DEF OnDisk
<1>11. \A k \in Items : HeldOK(k)'
  <2>1. \A k \in Items : item[k].state # "held"
    BY <1>4, NoneHeld
  <2>2. \A k \in Items : item'[k].state = "held" => k \in ids
    BY <1>3, <2>1
  <2> QED
    BY <1>6, <2>2 DEF HeldOK, Deletes
<1>12. \A k \in Items : /\ Deletes(r, k)' <=> k \in ids
                        /\ ~Restores(r, k)'
  BY <1>6 DEF Deletes, Restores
<1>13. \A x \in Keys : DeleteOK(r, x)'
  <2> SUFFICES ASSUME NEW x \in Keys PROVE DeleteOK(r, x)'
    OBVIOUS
  <2>1. \A k \in ids : x \in taken[k] =>
            /\ row'[x] = item'[k].rows[x]
            /\ Statement("delete", x) \in Range(job'[r].script)
    BY <1>3, <1>5, <1>6
  <2>2. \A k, l \in ids : x \in taken[k] /\ x \in taken[l] => k = l
    BY <1>3
  <2>3. \A k \in ids : Snapped(k)' = taken[k]
    BY <1>5
  <2> QED
    BY <1>12, <2>1, <2>2, <2>3 DEF DeleteOK
<1>14. AloneOK(r)'
  BY <1>6, <1>12, <1>13 DEF AloneOK, RestoreOK
<1> QED
  BY <1>9, <1>10, <1>11, <1>14, AloneKeeps

(* A step that leaves rows, items and bytes as they are. *)
LEMMA OnlyTheJob ==
    ASSUME OneAtATime, AloneInv, FilesInv', NEW r \in Requests,
           UNCHANGED <<row, item, original, thumb>>,
           job[r].step # "run" \/ job[r].kind # "delete", AloneOK(r)'
    PROVE  AloneInv'
<1>1. \A x \in Keys : UniqueOK(x)'
  BY NothingChangesHands, AloneFacts
<1>2. \A f \in Files : Claimed(f)' => OnDisk(f)'
  BY NothingChangesHands, StillOnDisk DEF OnDisk
<1>3. \A k \in Items : HeldOK(k)'
  BY NoneHeld DEF HeldOK
<1> QED
  BY <1>1, <1>2, <1>3, AloneKeeps

LEMMA BeginAlone ==
    ASSUME OneAtATime, AloneInv, FilesInv', NEW r \in Requests, Begin(r)
    PROVE  AloneInv'
<1>1. FilesInv /\ job[r] = Idle /\ job[r].step = "idle"
  BY AloneFacts, IdleIs DEF Begin, StartDeleteProject, StartDeleteFiles, StartRestore, StartErase,
     StartRetention, Attach, StartCleanUp
<1>2. CASE StartDeleteProject(r) \/ \E files \in SUBSET Files : StartDeleteFiles(r, files)
  BY <1>1, <1>2, ProjectIsBinned, FilesAreBinned, BinningAlone
<1>3. ASSUME NEW k \in Items, StartRestore(r, k)
      PROVE  AloneInv'
  <2>1. PICK script : Goto(r, Running(script, "restore", {k}))
    BY <1>3 DEF StartRestore
  <2> DEFINE q == Running(script, "restore", {k})
  <2>2. q.step = "run" /\ q.kind = "restore" /\ q.items = {k}
    BY DEF Running
  <2> HIDE DEF q
  <2>3. job'[r] = q
    BY <1>1, <2>1, GoesOn DEF q
  <2>4. item[k].state = "kept" /\ UNCHANGED <<row, item, original, thumb>>
    BY <1>3 DEF StartRestore
  <2>5. RestoreOK(r)'
    BY <1>1, <1>3, RestoreStarts
  <2>6. AloneOK(r)'
    BY <2>2, <2>3, <2>4, <2>5 DEF AloneOK, DeleteOK, Deletes, Restores
  <2> QED
    BY <1>1, <2>4, <2>6, OnlyTheJob
<1>4. ASSUME NEW k \in Items, StartErase(r, k)
      PROVE  AloneInv'
  <2> DEFINE q == [step |-> "erase", items |-> {k}]
  <2>1. q.step = "erase" /\ q.items = {k}
    OBVIOUS
  <2> HIDE DEF q
  <2>2. job'[r] = q
    BY <1>1, <1>4, GoesOn DEF q, StartErase
  <2>3. item[k].state = "kept" /\ UNCHANGED <<row, item, original, thumb>>
    BY <1>4 DEF StartErase
  <2>4. AloneOK(r)'
    BY <2>1, <2>2, <2>3 DEF AloneOK, RestoreOK, DeleteOK, Deletes, Restores
  <2> QED
    BY <1>1, <2>3, <2>4, OnlyTheJob
<1>5. ASSUME NEW due \in SUBSET Files, StartRetention(r, due)
      PROVE  AloneInv'
  <2> DEFINE q == [step |-> "retain", left |-> due, marked |-> {}]
  <2>1. q.step = "retain"
    OBVIOUS
  <2> HIDE DEF q
  <2>2. job'[r] = q
    BY <1>1, <1>5, GoesOn DEF q, StartRetention
  <2>3. UNCHANGED <<row, item, original, thumb>>
    BY <1>5 DEF StartRetention
  <2>4. AloneOK(r)'
    BY <2>1, <2>2, <2>3 DEF AloneOK, RestoreOK, DeleteOK, Deletes, Restores
  <2> QED
    BY <1>1, <2>3, <2>4, OnlyTheJob
<1>6. ASSUME NEW f \in Files, StartCleanUp(r, f)
      PROVE  AloneInv'
  <2> DEFINE q == [step |-> "clean up", file |-> f]
  <2>1. q.step = "clean up" /\ q.file = f
    OBVIOUS
  <2> HIDE DEF q
  <2>2. job'[r] = q
    BY <1>1, <1>6, GoesOn DEF q, StartCleanUp
  <2>3. UNCHANGED <<row, item, original, thumb>> /\ Fresh(f)
    BY <1>6 DEF StartCleanUp
  <2>4. ~Claimed(f)'
    BY <2>3 DEF Fresh, Claimed, Held
  <2>5. AloneOK(r)'
    BY <2>1, <2>2, <2>3, <2>4 DEF AloneOK, RestoreOK, DeleteOK, Deletes, Restores
  <2> QED
    BY <1>1, <2>3, <2>5, OnlyTheJob
<1>7. ASSUME NEW f \in Files, Attach(r, f)
      PROVE  AloneInv'
  <2>1. /\ row' = [row EXCEPT ![f] = "kept"] /\ original[f] = "live"
        /\ \A k \in Items : f \notin Snapped(k)
        /\ UNCHANGED <<original, thumb, item, job>>
    BY <1>7 DEF Attach, Fresh, Snapped, Held
  <2>2. \A x \in Keys : row'[x] = IF x = f THEN "kept" ELSE row[x]
    BY <1>1, <2>1 DEF FilesInv, Shape, FilesTypeOK
  <2>3. \A k : Snapped(k)' = Snapped(k)
    BY <2>1 DEF Snapped
  <2>4. \A x \in Keys : UniqueOK(x)'
    <3>1. \A x \in Keys : UniqueOK(x)
      BY AloneFacts
    <3> QED
      BY <2>1, <2>2, <2>3, <3>1 DEF UniqueOK
  <2>5. \A g \in Files : Claimed(g)' => OnDisk(g)'
    <3>1. \A g \in Files : g # f => (Claimed(g)' => Claimed(g))
      BY <2>1, <2>2, Distinct DEF Claimed
    <3>2. OnDisk(f)' /\ \A g \in Files : OnDisk(g)' <=> OnDisk(g)
      BY <2>1 DEF OnDisk, Places
    <3> QED
      BY <3>1, <3>2, StillOnDisk
  <2>6. \A k \in Items : HeldOK(k)'
    BY <1>1, <2>1, NoneHeld DEF HeldOK
  <2>7. AloneOK(r)'
    BY <1>1, <2>1 DEF AloneOK, RestoreOK, DeleteOK, Deletes, Restores
  <2> QED
    BY <2>4, <2>5, <2>6, <2>7, AloneKeeps
<1> QED
  BY <1>2, <1>3, <1>4, <1>5, <1>6, <1>7 DEF Begin

LEMMA UniqueStays ==
    ASSUME AloneInv, UNCHANGED <<row, item>>
    PROVE  \A x \in Keys : UniqueOK(x)'
  BY NothingChangesHands DEF AloneInv

(* A step of a script. *)
LEMMA ScriptAlone ==
    ASSUME OneAtATime, AloneInv, FilesInv', NEW r \in Requests,
           job[r].step = "run",
           job'[r].step = "run", job'[r].kind = job[r].kind, job'[r].items = job[r].items,
           UNCHANGED <<row, item>>, \A f \in Files : OnDisk(f) => OnDisk(f)',
           RestoreOK(r)', \A x \in Keys : DeleteOK(r, x)'
    PROVE  AloneInv'
<1>1. \A x \in Keys : UniqueOK(x)'
  BY UniqueStays
<1>2. \A f \in Files : Claimed(f)' => OnDisk(f)'
  BY NothingChangesHands, StillOnDisk
<1>3. \A k \in Items : HeldOK(k)'
  <2>1. \A k \in Items : HeldOK(k)
    BY AloneFacts
  <2> QED
    BY <2>1 DEF OneAtATime, HeldOK, Deletes
<1>4. \A k \in Items : Restores(r, k)' => item'[k].state = "kept"
  BY AloneFacts DEF AloneOK, Restores
<1>5. AloneOK(r)'
  BY <1>4 DEF AloneOK
<1> QED
  BY <1>1, <1>2, <1>3, <1>5, AloneKeeps

LEMMA StatementAlone ==
    ASSUME OneAtATime, AloneInv, FilesInv', NEW r \in Requests,
           DeleteRow(r) \/ InsertRow(r)
    PROVE  AloneInv'
<1>1. FilesInv /\ RestoreOK(r) /\ AloneOK(r)
  BY AloneFacts
<1>2. /\ job[r].step = "run" /\ job[r].script # <<>> /\ Advance(r)
      /\ UNCHANGED <<row, original, thumb, item, mishap>>
  BY DEF DeleteRow, InsertRow, OnStep
<1>3. /\ RunOK(r) /\ Next1(r) \in Steps /\ StepOK(r, Next1(r))
      /\ \A s : s \in Range(job[r].script) <=> s = Next1(r) \/ s \in Range(Tail(job[r].script))
  BY <1>1, <1>2, RunningOn
<1>4. /\ job'[r].step = "run" /\ job'[r].kind = job[r].kind /\ job'[r].items = job[r].items
      /\ job'[r].script = Tail(job[r].script)
  BY <1>1, <1>2, Advances
<1>5. RestoreOK(r)'
  BY <1>1, RestoreAdvances
<1>6. \A k : Snapped(k)' = Snapped(k)
  BY <1>2, NothingChangesHands
<1>7. ASSUME NEW y \in Keys, job[r].kind = "delete", row[y] \in Held,
             lock[y] = r \/ Statement("delete", y) \in Range(job[r].script)
      PROVE  lock'[y] = r \/ Statement("delete", y) \in Range(job'[r].script)
  <2>1. CASE Statement("delete", y) \in Range(Tail(job[r].script))
    BY <1>4, <2>1
  <2>2. CASE DeleteRow(r)
    <3> DEFINE x == Next1(r).key
    <3>1. /\ OnStep(r, "delete")
          /\ lock' = [z \in Keys |->
               IF z \in (IF row[x] = "none" THEN {} ELSE WaitsOn(r)) /\ row[z] \in Held
               THEN r ELSE lock[z]]
      BY <2>2 DEF DeleteRow
    <3>2. CASE lock[y] = r
      BY <3>1, <3>2
    <3>3. CASE Statement("delete", y) = Next1(r)
      <4>1. x = y
        BY <3>3 DEF Statement
      <4>2. row[x] # "none"
        BY <1>7, <4>1 DEF Held
      <4>3. y \in WaitsOn(r)
        BY <3>1, <4>1, <4>2 DEF WaitsOn
      <4> HIDE DEF x
      <4> QED
        BY <1>7, <3>1, <4>2, <4>3
    <3> QED
      BY <1>3, <1>7, <2>1, <3>2, <3>3, <1>4
  <2>3. CASE InsertRow(r)
    <3>1. Next1(r).op = "insert"
      BY <2>3 DEF InsertRow, OnStep
    <3>2. FALSE
      BY <1>3, <1>7, <3>1 DEF StepOK, MoveOK, Moves
    <3> QED
      BY <3>2
  <2> QED
    BY <2>2, <2>3
<1>8. \A y \in Keys : DeleteOK(r, y)'
  <2> SUFFICES ASSUME NEW y \in Keys PROVE DeleteOK(r, y)'
    OBVIOUS
  <2>1. DeleteOK(r, y)
    BY <1>1 DEF AloneOK
  <2>2. \A k \in Items : Deletes(r, k)' => Deletes(r, k) /\ job[r].kind = "delete"
    BY <1>2, <1>4 DEF Deletes
  <2>3. \A k \in Items : y \in Snapped(k) => item[k].rows[y] \in Held
    BY DEF Snapped
  <2>4. ASSUME NEW k \in Items, Deletes(r, k)', y \in Snapped(k)
        PROVE  row[y] = item[k].rows[y]
               /\ (lock'[y] = r \/ Statement("delete", y) \in Range(job'[r].script))
    <3>1. row[y] = item[k].rows[y]
          /\ (lock[y] = r \/ Statement("delete", y) \in Range(job[r].script))
      BY <2>1, <2>2, <2>4 DEF DeleteOK
    <3> QED
      BY <1>7, <2>2, <2>3, <2>4, <3>1
  <2> QED
    BY <1>2, <1>6, <2>1, <2>2, <2>4 DEF DeleteOK
<1>9. \A f \in Files : OnDisk(f) => OnDisk(f)'
  BY <1>2 DEF OnDisk
<1> QED
  BY <1>2, <1>4, <1>5, <1>8, <1>9, ScriptAlone

(* What a move does to the job. *)
LEMMA MovesOn ==
    ASSUME FilesInv, NEW r \in Requests, MovePiece(r)
    PROVE  /\ job[r].step = "run" /\ job[r].script # <<>> /\ Next1(r).op = "move"
           /\ RunOK(r) /\ job[r] \in Runs /\ StepOK(r, Next1(r)) /\ Next1(r) \in Moves
           /\ \A s : s \in Range(job[r].script) <=>
                  s = Next1(r) \/ s \in Range(Tail(job[r].script))
           /\ job'[r].step = "run" /\ job'[r].kind = job[r].kind
           /\ job'[r].items = job[r].items /\ job'[r].script = Tail(job[r].script)
           /\ Relocate({Next1(r)}) /\ UNCHANGED <<row, lock, item, mishap>>
<1> DEFINE m == Next1(r)
<1>1. OnStep(r, "move") /\ Relocate({m}) /\ UNCHANGED <<row, lock, item, mishap>>
  BY DEF MovePiece
<1>2. job[r].step = "run" /\ job[r].script # <<>> /\ m.op = "move"
  BY <1>1 DEF OnStep
<1>3. /\ RunOK(r) /\ job[r] \in Runs /\ StepOK(r, m) /\ m \in Steps
      /\ \A s : s \in Range(job[r].script) <=> s = m \/ s \in Range(Tail(job[r].script))
  BY <1>2, RunningOn
<1>4. /\ job'[r].step = "run" /\ job'[r].kind = job[r].kind /\ job'[r].items = job[r].items
      /\ job'[r].script = Tail(job[r].script)
  <2> DEFINE moving == IF IsAt(m) THEN Append(job[r].moving, m) ELSE job[r].moving
             p1 == [job[r] EXCEPT !.script = Tail(@), !.moving = moving]
             p2 == [job[r] EXCEPT !.script = Tail(@), !.moving = <<>>, !.moved = @ \o moving]
  <2>1. Goto(r, IF m.piece = "original" THEN p1 ELSE p2)
    BY DEF MovePiece
  <2>2. job'[r] \in {p1, p2}
    BY <2>1, GoesOn
  <2>3. /\ p1.step = "run" /\ p1.kind = job[r].kind /\ p1.items = job[r].items
        /\ p1.script = Tail(job[r].script)
        /\ p2.step = "run" /\ p2.kind = job[r].kind /\ p2.items = job[r].items
        /\ p2.script = Tail(job[r].script)
    BY <1>2, <1>3 DEF Runs
  <2> HIDE DEF p1, p2
  <2> QED
    BY <2>2, <2>3
<1>5. m \in Moves
  BY <1>2, <1>3 DEF Steps, RowSteps
<1> HIDE DEF m
<1> QED
  BY <1>1, <1>2, <1>3, <1>4, <1>5 DEF m

LEMMA MoveAlone ==
    ASSUME OneAtATime, AloneInv, FilesInv', NEW r \in Requests, MovePiece(r)
    PROVE  AloneInv'
<1>1. FilesInv /\ RestoreOK(r) /\ AloneOK(r)
  BY AloneFacts
<1>2. /\ job[r].step = "run" /\ Next1(r).op = "move"
      /\ \A s : s \in Range(job[r].script) <=> s = Next1(r) \/ s \in Range(Tail(job[r].script))
      /\ job'[r].step = "run" /\ job'[r].kind = job[r].kind /\ job'[r].items = job[r].items
      /\ job'[r].script = Tail(job[r].script)
      /\ UNCHANGED <<row, lock, item>>
  BY <1>1, MovesOn
<1>3. RestoreOK(r)'
  BY <1>1, RestoreMovesOn
<1>4. \A y \in Keys : DeleteOK(r, y)'
  <2>1. \A k : Snapped(k)' = Snapped(k)
    BY <1>2, NothingChangesHands
  <2>2. \A y : Statement("delete", y) # Next1(r)
    BY <1>2 DEF Statement
  <2>3. \A k \in Items : Deletes(r, k)' => Deletes(r, k)
    BY <1>2 DEF Deletes
  <2>4. \A y : Statement("delete", y) \in Range(job[r].script) =>
                   Statement("delete", y) \in Range(job'[r].script)
    BY <1>2, <2>2
  <2>5. \A y \in Keys : DeleteOK(r, y)
    BY <1>1 DEF AloneOK
  <2> QED
    BY <1>2, <2>1, <2>3, <2>4, <2>5 DEF DeleteOK
<1>5. \A f \in Files : OnDisk(f) => OnDisk(f)'
  <2>1. \A f \in Files :
            /\ original'[f] = original[f] \/ {original[f], original'[f]} \subseteq Places
            /\ thumb'[f] = {} <=> thumb[f] = {}
    BY <1>1, MoveJoins
  <2> QED
    BY <2>1 DEF OnDisk
<1> QED
  BY <1>2, <1>3, <1>4, <1>5, ScriptAlone

(* A delete commits. *)
LEMMA CommitDeleteAlone ==
    ASSUME OneAtATime, AloneInv, FilesInv', NEW r \in Requests, Commit(r),
           job[r].kind = "delete"
    PROVE  AloneInv'
<1>1. /\ FilesInv /\ AloneOK(r)
      /\ \A x \in Keys : UniqueOK(x) /\ DeleteOK(r, x)
      /\ \A k \in Items : HeldOK(k)
  BY AloneFacts DEF AloneOK
<1>2. /\ job[r].step = "run" /\ job[r].script = <<>>
      /\ row' = [x \in Keys |-> IF lock[x] = r THEN "none" ELSE row[x]]
      /\ item' = [k \in Items |->
           IF k \in job[r].items THEN [item[k] EXCEPT !.state = "kept"] ELSE item[k]]
      /\ Goto(r, Idle)
      /\ UNCHANGED <<original, thumb, mishap>>
  BY DEF Commit
<1>3. job'[r] = Idle /\ job'[r].step = "idle"
  BY <1>1, <1>2, GoesOn, IdleIs
<1>4. \A k \in Items :
          /\ item'[k].rows = item[k].rows /\ Snapped(k)' = Snapped(k)
          /\ item'[k].state = IF k \in job[r].items THEN "kept" ELSE item[k].state
  BY <1>1, <1>2 DEF FilesInv, Shape, ItemRow, Snapped
<1>5. \A k \in Items : Deletes(r, k) <=> k \in job[r].items
  BY <1>2 DEF Deletes
<1>6. \A k \in job[r].items, x \in Keys : k \in Items /\ x \in Snapped(k) =>
          lock[x] = r /\ row[x] \in Held
  BY <1>1, <1>2, <1>5, NothingLeft DEF DeleteOK, Snapped
<1>7. ASSUME NEW x \in Keys
      PROVE  UniqueOK(x)'
  <2>1. UniqueOK(x) /\ DeleteOK(r, x)
    BY <1>1
  <2>2. row'[x] = IF lock[x] = r THEN "none" ELSE row[x]
    BY <1>2
  <2>3. ASSUME NEW k \in Items, item'[k].state = "kept", x \in Snapped(k)
        PROVE  row'[x] = "none"
    <3>1. CASE k \in job[r].items
      BY <1>6, <2>2, <2>3, <3>1
    <3>2. CASE k \notin job[r].items
      BY <1>4, <2>1, <2>2, <2>3, <3>2 DEF UniqueOK
    <3> QED
      BY <3>1, <3>2
  <2>4. ASSUME NEW k \in Items, NEW l \in Items, item'[k].state = "kept",
               item'[l].state = "kept", x \in Snapped(k), x \in Snapped(l)
        PROVE  k = l
    <3>1. CASE k \in job[r].items /\ l \in job[r].items
      BY <1>5, <2>1, <2>4, <3>1 DEF DeleteOK
    <3>2. CASE k \in job[r].items /\ l \notin job[r].items
      <4>1. item[l].state = "kept"
        BY <1>4, <2>4, <3>2
      <4> QED
        BY <1>6, <2>1, <2>4, <3>2, <4>1 DEF UniqueOK, Held
    <3>3. CASE k \notin job[r].items /\ l \in job[r].items
      <4>1. item[k].state = "kept"
        BY <1>4, <2>4, <3>3
      <4> QED
        BY <1>6, <2>1, <2>4, <3>3, <4>1 DEF UniqueOK, Held
    <3>4. CASE k \notin job[r].items /\ l \notin job[r].items
      <4>1. item[k].state = "kept" /\ item[l].state = "kept"
        BY <1>4, <2>4, <3>4
      <4> QED
        BY <2>1, <2>4, <4>1 DEF UniqueOK
    <3> QED
      BY <3>1, <3>2, <3>3, <3>4
  <2> QED
    BY <1>4, <2>3, <2>4 DEF UniqueOK
<1>8. \A f \in Files : Claimed(f)' => OnDisk(f)'
  <2>1. \A f \in Files : Claimed(f)' => Claimed(f)
    <3> SUFFICES ASSUME NEW f \in Files, Claimed(f)' PROVE Claimed(f)
      OBVIOUS
    <3>1. CASE row'[f] \in Held
      BY <1>2, <3>1, Distinct DEF Claimed, Held
    <3>2. CASE \E k \in Items : item'[k].state = "kept" /\ item'[k].rows[f] \in Held
      <4>1. PICK k \in Items : item'[k].state = "kept" /\ item[k].rows[f] \in Held
        BY <1>4, <3>2
      <4>2. k \in job[r].items => row[f] \in Held
        BY <1>6, <4>1, Distinct DEF Snapped
      <4> QED
        BY <1>4, <4>1, <4>2 DEF Claimed
    <3> QED
      BY <3>1, <3>2 DEF Claimed
  <2> QED
    BY <1>2, <2>1, StillOnDisk DEF OnDisk
<1>9. \A k \in Items : HeldOK(k)'
  <2>1. \A k \in Items : item[k].state = "held" => k \in job[r].items
    BY <1>1, <1>5 DEF HeldOK, OneAtATime
  <2> QED
    BY <1>4, <2>1 DEF HeldOK
<1>10. AloneOK(r)'
  BY <1>3 DEF AloneOK, RestoreOK, DeleteOK, Deletes, Restores
<1> QED
  BY <1>7, <1>8, <1>9, <1>10, AloneKeeps

(* A restore commits: everything is out of the directory. *)
LEMMA CommitRestoreAlone ==
    ASSUME OneAtATime, AloneInv, FilesInv', NEW r \in Requests, Commit(r),
           job[r].kind # "delete"
    PROVE  AloneInv'
<1>1. /\ FilesInv /\ AloneOK(r) /\ RestoreOK(r) /\ RunOK(r)
      /\ \A x \in Keys : UniqueOK(x)
      /\ job[r].step = "run" /\ job[r].script = <<>>
  BY AloneFacts DEF Commit, JobOK
<1>2. PICK k \in Items :
          /\ Restores(r, k) /\ job[r].items = {k}
          /\ \A x \in Keys : row'[x] = IF x \in Snapped(k) THEN item[k].rows[x] ELSE row[x]
  BY <1>1, RestoreCommits
<1>3. /\ item' = [l \in Items |->
           IF l \in job[r].items THEN [item[l] EXCEPT !.state = "gone"] ELSE item[l]]
      /\ Goto(r, [step |-> "remove", items |-> job[r].items])
      /\ UNCHANGED <<original, thumb, mishap>>
  BY DEF Commit
<1>4. \A l \in Items :
          /\ item'[l].rows = item[l].rows /\ Snapped(l)' = Snapped(l)
          /\ item'[l].state = IF l = k THEN "gone" ELSE item[l].state
  BY <1>1, <1>2, <1>3 DEF FilesInv, Shape, ItemRow, Snapped
<1>5. item[k].state = "kept"
  BY <1>1, <1>2 DEF AloneOK
<1>6. \A x \in Keys : UniqueOK(x)'
  <2> SUFFICES ASSUME NEW x \in Keys PROVE UniqueOK(x)'
    OBVIOUS
  <2>1. UniqueOK(x)
    BY <1>1
  <2>2. \A l \in Items : item'[l].state = "kept" => l # k /\ item[l].state = "kept"
    BY <1>4
  <2>3. \A l \in Items : item'[l].state = "kept" /\ x \in Snapped(l) => x \notin Snapped(k)
    BY <1>5, <2>1, <2>2 DEF UniqueOK
  <2> QED
    BY <1>2, <1>4, <2>1, <2>2, <2>3 DEF UniqueOK
<1>7. \A f \in Files : Claimed(f)' => OnDisk(f)'
  <2>1. \A f \in Files : Claimed(f)' => Claimed(f)
    <3> SUFFICES ASSUME NEW f \in Files, Claimed(f)' PROVE Claimed(f)
      OBVIOUS
    <3>1. f \in Keys
      BY Distinct
    <3>2. row'[f] \in Held => row[f] \in Held \/ f \in Snapped(k)
      BY <1>2, <3>1
    <3>3. \A l \in Items : item'[l].state = "kept" => item[l].state = "kept"
      BY <1>4
    <3>4. f \in Snapped(k) => item[k].rows[f] \in Held
      BY DEF Snapped
    <3> QED
      BY <1>4, <1>5, <3>2, <3>3, <3>4 DEF Claimed
  <2> QED
    BY <1>3, <2>1, StillOnDisk DEF OnDisk
<1>8. \A l \in Items : HeldOK(l)'
  <2>1. \A l \in Items : item[l].state # "held"
    BY NoneHeld
  <2> QED
    BY <1>4, <2>1 DEF HeldOK
<1>9. AloneOK(r)'
  <2> DEFINE q == [step |-> "remove", items |-> job[r].items]
  <2>1. q.step = "remove" /\ q.items = {k}
    BY <1>2
  <2> HIDE DEF q
  <2>2. job'[r] = q
    BY <1>1, <1>3, GoesOn DEF q
  <2>3. \A f \in Files : ~At(f, k)
    <3>1. job[r].kind = "restore"
      BY <1>2 DEF Restores
    <3> QED
      BY <1>1, <1>2, <3>1, NothingToMove DEF RestoreOK
  <2>4. \A f \in Files : ~At(f, k)'
    BY <1>3, <2>3 DEF At
  <2> QED
    BY <2>1, <2>2, <2>4 DEF AloneOK, RestoreOK, DeleteOK, Deletes, Restores
<1> QED
  BY <1>6, <1>7, <1>8, <1>9, AloneKeeps

(* A request gives up, or the server stops: held items are forgotten.      *)
LEMMA ForgottenAlone ==
    ASSUME OneAtATime, AloneInv, FilesInv', NEW r \in Requests,
           NEW items, item' = Forgotten(items),
           \A k \in Items : item[k].state = "held" => k \in items,
           UNCHANGED <<row, original, thumb>>,
           job'[r].step \in {"idle", "put back"}
    PROVE  AloneInv'
<1>1. /\ \A k \in Items :
           /\ item'[k].rows = item[k].rows
           /\ item'[k].state = IF k \in items /\ item[k].state = "held"
                               THEN "gone" ELSE item[k].state
  BY AloneFacts, ForgottenItems DEF FilesInv
<1>2. \A k \in Items : /\ Snapped(k)' = Snapped(k) /\ item'[k].state # "held"
                       /\ item'[k].state = "kept" <=> item[k].state = "kept"
  BY <1>1 DEF Snapped
<1>3. \A x \in Keys : UniqueOK(x)'
  BY <1>2, AloneFacts DEF UniqueOK
<1>4. \A f \in Files : Claimed(f)' => OnDisk(f)'
  <2>1. \A f \in Files : Claimed(f)' => Claimed(f)
    BY <1>1, <1>2 DEF Claimed
  <2> QED
    BY <2>1, StillOnDisk DEF OnDisk
<1>5. \A k \in Items : HeldOK(k)'
  BY <1>2 DEF HeldOK
<1>6. AloneOK(r)'
  BY DEF AloneOK, RestoreOK, DeleteOK, Deletes, Restores
<1> QED
  BY <1>3, <1>4, <1>5, <1>6, AloneKeeps

LEMMA AbortAlone ==
    ASSUME OneAtATime, AloneInv, FilesInv', NEW r \in Requests, Abort(r)
    PROVE  AloneInv'
<1> DEFINE back == [step |-> "put back", moved |-> job[r].moved]
<1>1. /\ FilesInv /\ job[r].step = "run" /\ item' = Forgotten(job[r].items)
      /\ Goto(r, IF job[r].moved = <<>> THEN Idle ELSE back)
      /\ UNCHANGED <<row, original, thumb>>
  BY AloneFacts DEF Abort
<1>2. back.step = "put back"
  OBVIOUS
<1> HIDE DEF back
<1>3. job'[r].step \in {"idle", "put back"}
  BY <1>1, <1>2, GoesOn, IdleIs
<1>4. \A k \in Items : item[k].state = "held" => k \in job[r].items
  BY AloneFacts DEF HeldOK, Deletes, OneAtATime
<1> QED
  BY <1>1, <1>3, <1>4, ForgottenAlone

LEMMA PutBackAlone ==
    ASSUME OneAtATime, AloneInv, FilesInv', NEW r \in Requests, PutBack(r)
    PROVE  AloneInv'
<1> DEFINE ms == {Reversal(m) : m \in Range(job[r].moved)}
<1>1. /\ FilesInv /\ Shape /\ job[r].step = "put back" /\ Relocate(ms) /\ Goto(r, Idle)
      /\ UNCHANGED <<row, item>>
  BY AloneFacts DEF PutBack, FilesInv
<1>2. \A m \in Range(job[r].moved) : m \in Moves
  BY <1>1 DEF FilesInv, JobOK, MoveOK
<1>3. \A m \in ms : m \in Moves
  BY <1>2 DEF Reversal, Moves
<1> HIDE DEF ms
<1>4. \A f \in Files :
          /\ original'[f] = original[f] \/ {original[f], original'[f]} \subseteq Places
          /\ thumb'[f] = {} <=> thumb[f] = {}
  <2>1. ms \subseteq Moves
    BY <1>3
  <2> QED
    BY <1>1, <2>1, PiecesMoved
<1>5. \A f \in Files : Claimed(f)' => OnDisk(f)'
  BY <1>1, <1>4, NothingChangesHands, StillOnDisk DEF OnDisk
<1>6. \A k \in Items : HeldOK(k)'
  BY <1>1, NoneHeld DEF HeldOK
<1>7. AloneOK(r)'
  BY <1>1, GoesOn, IdleIs DEF AloneOK, RestoreOK, DeleteOK, Deletes, Restores
<1>8. \A x \in Keys : UniqueOK(x)'
  BY <1>1, UniqueStays
<1> QED
  BY <1>5, <1>6, <1>7, <1>8, AloneKeeps

LEMMA CrashAlone ==
    ASSUME OneAtATime, AloneInv, FilesInv', Crash
    PROVE  AloneInv'
<1>1. PICK r \in Requests : job[r] # Idle
  BY DEF Crash
<1>2. /\ item' = Forgotten(Items) /\ job' = [s \in Requests |-> Idle]
      /\ UNCHANGED <<row, original, thumb>>
  BY DEF Crash
<1>3. job'[r].step \in {"idle", "put back"}
  BY <1>2, IdleIs
<1> QED
  BY <1>2, <1>3, ForgottenAlone

(* A step of no request: an upload, a thumbnail, or nothing. *)
LEMMA BytesArriveAlone ==
    ASSUME AloneInv, FilesInv', UNCHANGED <<row, lock, item, job>>,
           \A f \in Files : /\ original'[f] = original[f] \/ original'[f] = "live"
                            /\ thumb'[f] = thumb[f] \/ thumb'[f] = thumb[f] \cup {"live"}
    PROVE  AloneInv'
<1>1. NoneJoins
  BY Distinct DEF NoneJoins
<1>2. \A f \in Files : OnDisk(f) => OnDisk(f)'
  BY DEF OnDisk, Places
<1>3. /\ \A x \in Keys : UniqueOK(x)'
      /\ \A f \in Files : Claimed(f)' <=> Claimed(f)
      /\ \A k : Snapped(k)' = Snapped(k)
  BY UniqueStays, NothingChangesHands
<1>4. ClaimedIsOnDisk'
  BY <1>2, <1>3, StillOnDisk DEF ClaimedIsOnDisk, OnDisk, Places
<1>5. \A k \in Items : HeldOK(k)'
  BY DEF AloneInv, HeldOK, Deletes
<1>6. ASSUME NEW s \in Requests
      PROVE  AloneOK(s)'
  <2>1. FilesInv /\ AloneOK(s) /\ RestoreOK(s) /\ JobOK(s)
    BY AloneFacts
  <2>2. RestoreOK(s)'
    BY <1>1, <2>1, RestoreStays
  <2>3. \A x \in Keys : DeleteOK(s, x)'
    BY <1>3, <2>1 DEF AloneOK, DeleteOK, Deletes
  <2>4. \A k \in Items : Restores(s, k)' => item'[k].state = "kept"
    BY <2>1 DEF AloneOK, Restores
  <2>5. job[s].step = "remove" => \A k \in job[s].items, f \in Files : At(f, k)' => ~Claimed(f)
    <3>1. job[s].step = "remove" => \A k \in job[s].items : k \in Items
      BY <2>1 DEF JobOK
    <3>2. \A k \in Items, f \in Files : At(f, k)' => At(f, k)
      BY Distinct DEF At
    <3> QED
      BY <2>1, <3>1, <3>2 DEF AloneOK
  <2>6. job[s].step = "clean up" => ~Claimed(job[s].file)'
    <3>1. job[s].step = "clean up" => job[s].file \in Files
      BY <2>1 DEF JobOK
    <3> QED
      BY <1>3, <2>1, <3>1 DEF AloneOK
  <2>7. job[s].step = "unlink" => "live" \in thumb'[job[s].file]
    <3>1. job[s].step = "unlink" => job[s].file \in Files
      BY <2>1 DEF JobOK, Unlinking
    <3> QED
      BY <2>1, <3>1 DEF AloneOK
  <2>8. job[s].step = "erase" => \A k \in job[s].items : item'[k].state = "kept"
    BY <2>1 DEF AloneOK
  <2> QED
    BY <1>3, <2>2, <2>3, <2>4, <2>5, <2>6, <2>7, <2>8 DEF AloneOK
<1> QED
  BY <1>3, <1>4, <1>5, <1>6 DEF AloneInv

LEMMA EraseAlone ==
    ASSUME OneAtATime, AloneInv, FilesInv', NEW r \in Requests, Erase(r)
    PROVE  AloneInv'
<1> DEFINE q == [step |-> "remove", items |-> job[r].items]
<1>1. /\ FilesInv /\ AloneOK(r) /\ JobOK(r) /\ job[r].step = "erase" /\ Goto(r, q)
      /\ UNCHANGED <<row, lock, original, thumb>>
      /\ item' = [k \in Items |->
           IF k \in job[r].items THEN [item[k] EXCEPT !.state = "gone"] ELSE item[k]]
  BY AloneFacts DEF Erase
<1>2. q.step = "remove" /\ q.items = job[r].items
  OBVIOUS
<1> HIDE DEF q
<1>3. job'[r] = q
  BY <1>1, GoesOn
<1>4. \A k \in Items :
          /\ item'[k].rows = item[k].rows /\ Snapped(k)' = Snapped(k)
          /\ item'[k].state = IF k \in job[r].items THEN "gone" ELSE item[k].state
  BY <1>1 DEF FilesInv, Shape, ItemRow, Snapped
<1>5. \A k \in Items : item'[k].state = "kept" => k \notin job[r].items /\ item[k].state = "kept"
  BY <1>4
<1>6. \A x \in Keys : UniqueOK(x)'
  <2>1. \A x \in Keys : UniqueOK(x)
    BY AloneFacts
  <2> QED
    BY <1>1, <1>4, <1>5, <2>1 DEF UniqueOK
<1>7. \A f \in Files : Claimed(f)' => OnDisk(f)'
  <2>1. \A f \in Files : Claimed(f)' => Claimed(f)
    BY <1>1, <1>4, <1>5 DEF Claimed
  <2> QED
    BY <1>1, <2>1, StillOnDisk DEF OnDisk
<1>8. \A k \in Items : HeldOK(k)'
  <2>1. \A k \in Items : item[k].state # "held"
    BY <1>1, NoneHeld
  <2> QED
    BY <1>4, <2>1 DEF HeldOK
<1>9. ASSUME NEW k \in job[r].items, NEW f \in Files, At(f, k)'
      PROVE  ~Claimed(f)'
  <2>1. k \in Items /\ item[k].state = "kept"
    BY <1>1 DEF JobOK, AloneOK
  <2>2. At(f, k)
    BY <1>1, <1>9 DEF At
  <2>3. f \in Snapped(k) /\ f \in Keys
    BY <2>1, <2>2, AloneFacts, Distinct DEF DirOK
  <2>4. UniqueOK(f)
    BY <2>3, AloneFacts
  <2>5. row'[f] = "none"
    BY <1>1, <2>1, <2>3, <2>4 DEF UniqueOK
  <2>6. ASSUME NEW l \in Items, item'[l].state = "kept", item'[l].rows[f] \in Held
        PROVE  FALSE
    <3>1. item[l].state = "kept" /\ l \notin job[r].items /\ f \in Snapped(l)
      BY <1>4, <1>5, <2>3, <2>6 DEF Snapped
    <3> QED
      BY <2>1, <2>3, <2>4, <3>1 DEF UniqueOK
  <2> QED
    BY <2>5, <2>6 DEF Claimed, Held
<1>10. AloneOK(r)'
  BY <1>2, <1>3, <1>9 DEF AloneOK, RestoreOK, DeleteOK, Deletes, Restores
<1> QED
  BY <1>6, <1>7, <1>8, <1>10, AloneKeeps

(* A request ends that threw only unclaimed bytes away. *)
LEMMA RemovalEndsAlone ==
    ASSUME OneAtATime, AloneInv, FilesInv', NEW r \in Requests,
           job[r].step # "run", Goto(r, Idle), UNCHANGED <<row, item>>,
           \A f \in Files : Claimed(f) => original'[f] = original[f] /\ thumb'[f] = thumb[f]
    PROVE  AloneInv'
<1>1. job'[r].step = "idle"
  BY AloneFacts, GoesOn, IdleIs
<1>2. \A x \in Keys : UniqueOK(x)'
  BY UniqueStays
<1>3. \A f \in Files : Claimed(f)' => OnDisk(f)'
  BY NothingChangesHands, StillOnDisk DEF OnDisk
<1>4. \A k \in Items : HeldOK(k)'
  BY NoneHeld DEF HeldOK
<1>5. AloneOK(r)'
  BY <1>1 DEF AloneOK, RestoreOK, DeleteOK, Deletes, Restores
<1> QED
  BY <1>2, <1>3, <1>4, <1>5, AloneKeeps

LEMMA RemovalAlone ==
    ASSUME OneAtATime, AloneInv, FilesInv', NEW r \in Requests,
           RemoveDirectory(r) \/ CleanUp(r)
    PROVE  AloneInv'
<1>1. FilesInv /\ AloneOK(r) /\ JobOK(r)
  BY AloneFacts
<1>2. job[r].step # "run" /\ Goto(r, Idle) /\ UNCHANGED <<row, item>>
  BY DEF RemoveDirectory, CleanUp
<1>3. original = [f \in Files |-> original[f]] /\ thumb = [f \in Files |-> thumb[f]]
  BY <1>1 DEF FilesInv, Shape, FilesTypeOK
<1>4. ASSUME NEW f \in Files, Claimed(f)
      PROVE  original'[f] = original[f] /\ thumb'[f] = thumb[f]
  <2>1. CASE RemoveDirectory(r)
    <3>1. \A k \in job[r].items : ~At(f, k)
      BY <1>1, <1>4, <2>1 DEF RemoveDirectory, AloneOK
    <3>2. original[f] \notin job[r].items /\ thumb[f] \cap job[r].items = {}
      BY <3>1 DEF At
    <3> QED
      BY <2>1, <3>2 DEF RemoveDirectory
  <2>2. CASE CleanUp(r)
    <3>1. job[r].file # f
      BY <1>1, <1>4, <2>2 DEF CleanUp, AloneOK
    <3> QED
      BY <1>3, <2>2, <3>1 DEF CleanUp
  <2> QED
    BY <2>1, <2>2
<1> QED
  BY <1>2, <1>4, RemovalEndsAlone

LEMMA RetentionAlone ==
    ASSUME OneAtATime, AloneInv, FilesInv', NEW r \in Requests,
           Consider(r) \/ Unlink(r)
    PROVE  AloneInv'
<1>1. /\ FilesInv /\ AloneOK(r) /\ JobOK(r) /\ UNCHANGED <<row, item>>
      /\ job[r].step \in {"retain", "unlink"}
  BY AloneFacts DEF Consider, Unlink
<1>2. thumb \in [Files -> SUBSET ({"live"} \cup Items)]
      /\ original \in [Files -> {"unborn", "gone", "live"} \cup Items]
  BY <1>1 DEF FilesInv, Shape, FilesTypeOK
<1>3. /\ \A f \in Files : OnDisk(f) => OnDisk(f)'
      /\ job'[r].step = "retain" \/ (job'[r].step = "unlink" /\ "live" \in thumb'[job'[r].file])
  <2>1. CASE Consider(r)
    <3>1. job[r].left \subseteq Files
      BY <1>1, <2>1 DEF Consider, JobOK, Retaining
    <3> DEFINE here(f) == original[f] = "live"
               ready(f) == "live" \in thumb[f] \/ (here(f) /\ f \in Images)
               on(f) == [step |-> "unlink", left |-> job[r].left \ {f},
                         marked |-> job[r].marked, file |-> f, here |-> here(f)]
               skip(f) == [job[r] EXCEPT !.left = @ \ {f}]
    <3>2. PICK f \in job[r].left :
              /\ thumb' = [thumb EXCEPT ![f] = IF ready(f) THEN @ \cup {"live"} ELSE @]
              /\ Goto(r, IF ready(f) THEN on(f) ELSE skip(f))
              /\ UNCHANGED original
      BY <2>1 DEF Consider
    <3>3. \A g \in Files : thumb[g] \subseteq thumb'[g]
      BY <1>2, <3>1, <3>2
    <3>4. ready(f) => "live" \in thumb'[f]
      BY <1>2, <3>1, <3>2
    <3>5. on(f).step = "unlink" /\ on(f).file = f /\ skip(f).step = "retain"
      BY <1>1, <2>1 DEF Consider, JobOK, Retaining
    <3> HIDE DEF ready, on, skip, here
    <3>6. job'[r] = IF ready(f) THEN on(f) ELSE skip(f)
      BY <1>1, <3>2, GoesOn
    <3>7. \A g \in Files : OnDisk(g) => OnDisk(g)'
      BY <3>2, <3>3 DEF OnDisk
    <3> QED
      BY <3>4, <3>5, <3>6, <3>7
  <2>2. CASE Unlink(r)
    <3>1. PICK marked : Goto(r, [step |-> "retain", left |-> job[r].left, marked |-> marked])
      BY <2>2 DEF Unlink
    <3> DEFINE q == [step |-> "retain", left |-> job[r].left, marked |-> marked]
    <3>2. q.step = "retain"
      OBVIOUS
    <3> HIDE DEF q
    <3>3. job'[r] = q
      BY <1>1, <3>1, GoesOn DEF q
    <3>4. job[r].file \in Files /\ thumb[job[r].file] # {}
      BY <1>1, <2>2 DEF Unlink, JobOK, Unlinking, AloneOK
    <3>5. /\ UNCHANGED thumb
          /\ \A g \in Files : g # job[r].file => original'[g] = original[g]
      BY <1>2, <2>2, <3>4 DEF Unlink
    <3> QED
      BY <3>2, <3>3, <3>4, <3>5 DEF OnDisk
  <2> QED
    BY <1>1, <2>1, <2>2
<1>4. \A f \in Files : Claimed(f)' => OnDisk(f)'
  BY <1>1, <1>3, NothingChangesHands, StillOnDisk
<1>5. \A k \in Items : HeldOK(k)'
  BY <1>1, NoneHeld DEF HeldOK
<1>6. \A x \in Keys : UniqueOK(x)'
  BY <1>1, UniqueStays
<1>7. AloneOK(r)'
  BY <1>3 DEF AloneOK, RestoreOK, DeleteOK, Deletes, Restores
<1> QED
  BY <1>4, <1>5, <1>6, <1>7, AloneKeeps

(* What the job marks stays a row, of the same file. *)
LEMMA MarkedRows ==
    ASSUME FilesInv, NEW r \in Requests, CommitMarks(r)
    PROVE  \A x \in Keys :
             /\ row'[x] \in Held <=> row[x] \in Held
             /\ row'[x] = "none" <=> row[x] = "none"
<1> SUFFICES ASSUME NEW x \in Keys
             PROVE  /\ row'[x] \in Held <=> row[x] \in Held
                    /\ row'[x] = "none" <=> row[x] = "none"
  OBVIOUS
<1>1. row[x] \in {"none", "kept", "purged"}
  BY DEF FilesInv, Shape, FilesTypeOK
<1>2. job[r].step = "retain" /\ job[r].marked \subseteq Files
  BY DEF CommitMarks, FilesInv, JobOK, Retaining
<1>3. row'[x] = row[x] \/ (row'[x] = "purged" /\ row[x] # "none")
  BY DEF CommitMarks
<1> QED
  BY <1>1, <1>3 DEF Held

LEMMA MarksAlone ==
    ASSUME OneAtATime, AloneInv, FilesInv', NEW r \in Requests, CommitMarks(r)
    PROVE  AloneInv'
<1>1. /\ FilesInv /\ AloneOK(r) /\ JobOK(r) /\ job[r].step = "retain"
      /\ Goto(r, Idle) /\ UNCHANGED <<original, thumb, item>>
  BY AloneFacts DEF CommitMarks
<1>2. \A x \in Keys : /\ row'[x] \in Held <=> row[x] \in Held
                      /\ row'[x] = "none" <=> row[x] = "none"
  BY <1>1, MarkedRows
<1>3. \A f \in Files : Claimed(f)' => OnDisk(f)'
  <2>1. \A f \in Files : Claimed(f)' => Claimed(f)
    BY <1>1, <1>2, Distinct DEF Claimed
  <2> QED
    BY <1>1, <2>1, StillOnDisk DEF OnDisk
<1>4. \A k \in Items : HeldOK(k)'
  BY <1>1, NoneHeld DEF HeldOK
<1>5. \A x \in Keys : UniqueOK(x)'
  <2>1. \A k : Snapped(k)' = Snapped(k)
    BY <1>1 DEF Snapped
  <2>2. \A x \in Keys : UniqueOK(x)
    BY AloneFacts
  <2> QED
    BY <1>1, <1>2, <2>1, <2>2 DEF UniqueOK
<1>6. job'[r].step = "idle"
  BY <1>1, GoesOn, IdleIs
<1>7. AloneOK(r)'
  BY <1>6 DEF AloneOK, RestoreOK, DeleteOK, Deletes, Restores
<1> QED
  BY <1>3, <1>4, <1>5, <1>7, AloneKeeps

LEMMA AloneStart == Init => AloneInv
<1> SUFFICES ASSUME Init PROVE AloneInv
  OBVIOUS
<1>1. /\ \A r \in Requests : job[r].step = "idle"
      /\ \A f \in Files : row[f] = "none"
      /\ \A k \in Items : /\ item[k].state = "unborn"
                          /\ \A x \in Keys : item[k].rows[x] = "none"
  BY IdleIs, Distinct DEF Init, Empty
<1>2. \A r \in Requests : AloneOK(r)
  BY <1>1 DEF AloneOK, RestoreOK, DeleteOK, Deletes, Restores
<1>3. ClaimedIsOnDisk
  BY <1>1 DEF ClaimedIsOnDisk, Claimed, Held
<1> QED
  BY <1>1, <1>2, <1>3, FilesStart DEF AloneInv, UniqueOK, HeldOK

LEMMA AloneStep == OneAtATime /\ AloneInv /\ [Next]_vars => AloneInv'
<1> SUFFICES ASSUME OneAtATime, AloneInv, [Next]_vars PROVE AloneInv'
  OBVIOUS
<1>1. FilesInv /\ FilesInv'
  BY FilesStep DEF AloneInv
<1>2. ASSUME NEW f \in Files, Upload(f) \/ MakeThumbnail(f)
      PROVE  AloneInv'
  <2>1. \A g \in Files : /\ original'[g] = original[g] \/ original'[g] = "live"
                         /\ thumb'[g] = thumb[g] \/ thumb'[g] = thumb[g] \cup {"live"}
    BY <1>1, <1>2 DEF FilesInv, Shape, FilesTypeOK, Upload, MakeThumbnail
  <2>2. UNCHANGED <<row, lock, item, job>>
    BY <1>2 DEF Upload, MakeThumbnail
  <2> QED
    BY <1>1, <2>1, <2>2, BytesArriveAlone
<1>3. ASSUME NEW r \in Requests, Begin(r)
      PROVE  AloneInv'
  BY <1>1, <1>3, BeginAlone
<1>4. ASSUME NEW r \in Requests, Proceed(r)
      PROVE  AloneInv'
  BY <1>1, <1>4, StatementAlone, MoveAlone, CommitDeleteAlone, CommitRestoreAlone,
     AbortAlone, PutBackAlone, EraseAlone, RemovalAlone, RetentionAlone, MarksAlone
     DEF Proceed
<1>5. CASE Crash
  BY <1>1, <1>5, CrashAlone
<1>6. CASE UNCHANGED vars
  BY <1>1, <1>6, BytesArriveAlone DEF vars
<1> QED
  BY <1>2, <1>3, <1>4, <1>5, <1>6 DEF Next

LEMMA AloneHolds ==
    ASSUME OneAtATime
    PROVE  Spec => []AloneInv
<1>1. AloneInv /\ [Next]_vars => AloneInv'
  BY AloneStep
<1> QED
  BY <1>1, AloneStart, PTL DEF Spec

(* Whatever fails and whenever the server stops, a file somebody can still *)
(* see, in the project or in the bin, has its bytes or a thumbnail left,   *)
(* through any sequence of deleting, restoring, erasing, cleaning up and   *)
(* retention runs, as long as one ends before the next begins.             *)
THEOREM ClaimedIsOnDiskAlone ==
    ASSUME OneAtATime
    PROVE  Spec => []ClaimedIsOnDisk
<1>1. AloneInv => ClaimedIsOnDisk
  BY DEF AloneInv
<1> QED
  BY <1>1, AloneHolds, PTL
----------------------------------------------------------------------------
(* One request at a time, while nothing has failed *)

(* What holds when no request is under way that moves or marks files. *)
ListedThere(f) ==
    /\ row[f] = "kept" => original[f] = "live"
    /\ row[f] = "purged" => "live" \in thumb[f]

HeldThere(f) ==
    \A k \in Items : item[k].state = "kept" =>
        /\ item[k].rows[f] = "kept" => original[f] = k
        /\ item[k].rows[f] = "purged" => k \in thumb[f]

LEMMA CleanFacts ==
    ASSUME NEW r \in Requests, CleanOK(r)
    PROVE  /\ job[r].step \notin {"run", "retain", "unlink"} =>
                \A f \in Files : ListedThere(f)
           /\ job[r].step = "run" /\ job[r].kind # "delete" =>
                \A f \in Files : ListedThere(f)
           /\ job[r].step # "run" => \A f \in Files : HeldThere(f)
           /\ job[r].step = "run" /\ job[r].kind # "restore" =>
                \A f \in Files : HeldThere(f)
           /\ Inserting(r) => \A f \in Files : HeldThere(f)
           /\ job[r].step # "remove" =>
                \A f \in Files, k \in Items : At(f, k) => item[k].state \in {"held", "kept"}
<1>1. \A f \in Files : ListedOK(r, f) /\ HoldsOK(r, f) /\ TidyOK(r, f)
  BY DEF CleanOK
<1>2. /\ job[r].step # "run" \/ job[r].kind # "delete" => \A k \in Items : ~Deletes(r, k)
      /\ job[r].step # "run" \/ job[r].kind # "restore" => \A k \in Items : ~Returning(r, k)
      /\ Inserting(r) => \A k \in Items : ~Returning(r, k)
      /\ job[r].step \notin {"retain", "unlink"} => \A f \in Files : ~Marks(r, f)
  BY DEF Deletes, Returning, Restores, Marks
<1>3. (\A k \in Items : ~Returning(r, k)) => \A f \in Files : HeldThere(f)
  BY <1>1 DEF HoldsOK, HeldThere
<1>4. (\A k \in Items : ~Deletes(r, k)) /\ (\A f \in Files : ~Marks(r, f)) =>
          \A f \in Files : ListedThere(f)
  BY <1>1 DEF ListedOK, ListedThere
<1>5. job[r].step # "remove" =>
          \A f \in Files, k \in Items : At(f, k) => item[k].state \in {"held", "kept"}
  BY <1>1 DEF TidyOK
<1> QED
  BY <1>2, <1>3, <1>4, <1>5

LEMMA CleanKeeps ==
    ASSUME OneAtATime, NEW r \in Requests, CleanOK(r)'
    PROVE  CleanInv'
  BY DEF OneAtATime, CleanInv

LEMMA CleanRests ==
    ASSUME OneAtATime, NEW r \in Requests,
           job'[r].step \notin {"run", "put back", "retain", "unlink"},
           \A f \in Files : ListedThere(f)' /\ HeldThere(f)' /\ TidyOK(r, f)'
    PROVE  CleanInv'
<1>1. RetentionOK(r)' /\ \A f \in Files : TakenOK(r, f)'
  BY DEF RetentionOK, TakenOK, Deletes
<1>2. \A f \in Files : ListedOK(r, f)' /\ HoldsOK(r, f)'
  BY DEF ListedThere, HeldThere, ListedOK, HoldsOK
<1> QED
  BY <1>1, <1>2, CleanKeeps DEF CleanOK

(* A step that leaves rows, items and bytes as they are. *)
LEMMA ThereStays ==
    ASSUME UNCHANGED <<row, original, thumb, item>>
    PROVE  /\ \A f \in Files : ListedThere(f) => ListedThere(f)'
           /\ \A f \in Files : HeldThere(f) => HeldThere(f)'
           /\ \A f \in Files, k \in Items : At(f, k)' <=> At(f, k)
  BY DEF ListedThere, HeldThere, At

(* Uploads and thumbnails only add. *)
LEMMA BytesArriveClean ==
    ASSUME OneAtATime, FilesInv, NEW r \in Requests, CleanOK(r),
           UNCHANGED <<row, lock, item, job>>,
           \A f \in Files : /\ original'[f] = original[f]
                               \/ (original[f] = "unborn" /\ original'[f] = "live")
                            /\ thumb'[f] = thumb[f] \/ thumb'[f] = thumb[f] \cup {"live"}
    PROVE  CleanInv'
<1>1. JobOK(r) /\ RetentionOK(r)
  BY DEF FilesInv, CleanOK
<1>2. \A k \in Items : /\ Deletes(r, k)' <=> Deletes(r, k)
                       /\ Returning(r, k)' <=> Returning(r, k)
  BY DEF Deletes, Returning, Restores, Inserting
<1>3. ASSUME NEW f \in Files
      PROVE  ListedOK(r, f)' /\ TakenOK(r, f)' /\ HoldsOK(r, f)' /\ TidyOK(r, f)'
  <2>1. /\ row[f] \in Held => original'[f] = original[f]
        /\ \A k \in Items : item[k].rows[f] \in Held => original'[f] = original[f]
        /\ thumb[f] \subseteq thumb'[f]
    BY Distinct DEF FilesInv, BornOK, Snapped
  <2>2. Marks(r, f) => Marks(r, f)'
    BY <2>1 DEF Marks
  <2>3. ListedOK(r, f) /\ TakenOK(r, f) /\ HoldsOK(r, f) /\ TidyOK(r, f)
    BY DEF CleanOK
  <2>4. ListedOK(r, f)'
    BY <1>2, <2>1, <2>2, <2>3 DEF ListedOK, Held
  <2>5. TakenOK(r, f)'
    BY <1>2, <2>1, <2>3 DEF TakenOK, Held
  <2>6. HoldsOK(r, f)'
    BY <1>2, <2>1, <2>3 DEF HoldsOK, Held
  <2>7. \A k \in Items : At(f, k)' => At(f, k)
    BY Distinct DEF At
  <2> QED
    BY <2>3, <2>4, <2>5, <2>6, <2>7 DEF TidyOK
<1>4. RetentionOK(r)'
  <2>1. job[r].step = "unlink" => job[r].file \in Files
    BY <1>1 DEF JobOK, Unlinking
  <2>2. job[r].step \in {"retain", "unlink"} => job[r].marked \subseteq Files
    BY <1>1 DEF JobOK, Unlinking, Retaining
  <2>3. job[r].step = "unlink" => original'[job[r].file] = "live"
    BY <1>1, <2>1 DEF RetentionOK
  <2>4. job[r].step \in {"retain", "unlink"} => \A f \in job[r].marked : "live" \in thumb'[f]
    BY <1>1, <2>2 DEF RetentionOK
  <2> QED
    BY <1>1, <2>3, <2>4 DEF RetentionOK
<1>5. CleanOK(r)'
  BY <1>3, <1>4 DEF CleanOK
<1> QED
  BY <1>5, CleanKeeps

LEMMA BinningClean ==
    ASSUME OneAtATime, AloneInv, NEW r \in Requests, CleanOK(r), Binning(r)
    PROVE  CleanInv'
<1>1. PICK ids \in SUBSET Items : \E taken \in [ids -> SUBSET Keys], script \in Seq(Steps) :
           Binned(r, ids, taken, script)
  BY DEF Binning
<1>2. PICK taken \in [ids -> SUBSET Keys], script \in Seq(Steps) :
           Binned(r, ids, taken, script)
  BY <1>1
<1>3. /\ job[r] = Idle
      /\ \A k \in Items \ ids : item'[k] = item[k]
      /\ \A k \in ids : \A f \in taken[k] \cap Files :
           \A piece \in {"original", "thumbnail"} :
               Move(f, piece, "live", k) \in Range(script)
      /\ UNCHANGED <<row, lock, original, thumb, mishap>>
  BY <1>2 DEF Binned
<1>4. FilesInv /\ job[r].step = "idle"
  BY <1>3, AloneFacts, IdleIs
<1>5. ASSUME NEW k \in ids
      PROVE  item'[k].state = "held" /\ Snapped(k)' = taken[k]
  <2>1. item'[k] = Snapshot(taken[k]) /\ taken[k] \subseteq Keys
        /\ \A x \in taken[k] : row[x] \in Held
    BY <1>2 DEF Binned
  <2> QED
    BY <1>4, <2>1, BinnedItems
<1>6. /\ job'[r].step = "run" /\ job'[r].kind = "delete" /\ job'[r].script = script
      /\ job'[r].items = ids
  <2>1. Goto(r, Running(script, "delete", ids))
    BY <1>2 DEF Binned
  <2> QED
    BY <1>4, <2>1, BinnedJob
<1>7. \A f \in Files : ListedThere(f) /\ HeldThere(f)
  BY <1>4, CleanFacts
<1>8. \A f \in Files, k \in Items : At(f, k) => item[k].state \in {"held", "kept"}
  BY <1>4, CleanFacts
<1>9. ASSUME NEW f \in Files
      PROVE  ListedOK(r, f)' /\ TakenOK(r, f)' /\ HoldsOK(r, f)' /\ TidyOK(r, f)'
  <2>1. ListedOK(r, f)'
    BY <1>3, <1>7 DEF ListedThere, ListedOK
  <2>2. HoldsOK(r, f)'
    <3>1. \A k \in Items : item'[k].state = "kept" => item'[k] = item[k]
      BY <1>3, <1>5
    <3> QED
      BY <1>3, <1>7, <3>1 DEF HeldThere, HoldsOK
  <2>3. TidyOK(r, f)'
    <3>1. \A k \in Items : At(f, k)' => At(f, k)
      BY <1>3 DEF At
    <3> QED
      BY <1>3, <1>5, <1>8, <3>1 DEF TidyOK
  <2>4. ASSUME NEW k \in Items, Deletes(r, k)', item'[k].rows[f] \in Held,
               NEW piece \in {"original", "thumbnail"}
        PROVE  Move(f, piece, "live", k) \in Range(job'[r].script)
    <3>1. k \in ids
      BY <1>6, <2>4 DEF Deletes
    <3>2. f \in Snapped(k)'
      BY <2>4, Distinct DEF Snapped
    <3> QED
      BY <1>3, <1>5, <1>6, <3>1, <3>2
  <2>5. TakenOK(r, f)'
    BY <2>4 DEF TakenOK, Held
  <2> QED
    BY <2>1, <2>2, <2>3, <2>5
<1>10. CleanOK(r)'
  BY <1>6, <1>9 DEF CleanOK, RetentionOK
<1> QED
  BY <1>10, CleanKeeps

LEMMA BeginClean ==
    ASSUME OneAtATime, AloneInv, NEW r \in Requests, CleanOK(r), Begin(r)
    PROVE  CleanInv'
<1>1. FilesInv /\ job[r] = Idle /\ job[r].step = "idle"
  BY AloneFacts, IdleIs DEF Begin, StartDeleteProject, StartDeleteFiles, StartRestore, StartErase,
     StartRetention, Attach, StartCleanUp
<1>2. /\ \A f \in Files : ListedThere(f) /\ HeldThere(f)
      /\ \A f \in Files, k \in Items : At(f, k) => item[k].state \in {"held", "kept"}
  BY <1>1, CleanFacts
<1>3. UNCHANGED <<row, original, thumb, item>> =>
          \A f \in Files : ListedThere(f)' /\ HeldThere(f)' /\ TidyOK(r, f)'
  BY <1>2, ThereStays DEF TidyOK
<1>4. CASE StartDeleteProject(r) \/ \E files \in SUBSET Files : StartDeleteFiles(r, files)
  BY <1>1, <1>4, ProjectIsBinned, FilesAreBinned, BinningClean
<1>5. ASSUME NEW k \in Items, StartRestore(r, k)
      PROVE  CleanInv'
  <2>1. PICK script : Goto(r, Running(script, "restore", {k}))
    BY <1>5 DEF StartRestore
  <2> DEFINE q == Running(script, "restore", {k})
  <2>2. q.step = "run" /\ q.kind = "restore"
    BY DEF Running
  <2> HIDE DEF q
  <2>3. job'[r] = q
    BY <1>1, <2>1, GoesOn DEF q
  <2>4. \A f \in Files : ListedThere(f)' /\ HeldThere(f)' /\ TidyOK(r, f)'
    BY <1>3, <1>5 DEF StartRestore
  <2>5. \A f \in Files : ListedOK(r, f)' /\ HoldsOK(r, f)' /\ TakenOK(r, f)'
    BY <2>2, <2>3, <2>4 DEF ListedOK, HoldsOK, ListedThere, HeldThere, TakenOK, Deletes
  <2>6. CleanOK(r)'
    BY <2>2, <2>3, <2>4, <2>5 DEF CleanOK, RetentionOK
  <2> QED
    BY <2>6, CleanKeeps
<1>6. CASE \/ \E k \in Items : StartErase(r, k)
           \/ \E f \in Files : StartCleanUp(r, f)
  <2>1. UNCHANGED <<row, original, thumb, item>>
    BY <1>6 DEF StartErase, StartCleanUp
  <2>2. job'[r].step \in {"erase", "clean up"}
    <3>1. ASSUME NEW k \in Items, StartErase(r, k)
          PROVE  job'[r].step = "erase"
      BY <1>1, <3>1, GoesOn DEF StartErase
    <3>2. ASSUME NEW f \in Files, StartCleanUp(r, f)
          PROVE  job'[r].step = "clean up"
      <4> DEFINE q == [step |-> "clean up", file |-> f]
      <4>1. q.step = "clean up"
        OBVIOUS
      <4> HIDE DEF q
      <4> QED
        BY <1>1, <3>2, <4>1, GoesOn DEF StartCleanUp, q
    <3> QED
      BY <1>6, <3>1, <3>2
  <2> QED
    BY <1>3, <2>1, <2>2, CleanRests
<1>7. ASSUME NEW due \in SUBSET Files, StartRetention(r, due)
      PROVE  CleanInv'
  <2> DEFINE q == [step |-> "retain", left |-> due, marked |-> {}]
  <2>1. q.step = "retain" /\ q.left = due /\ q.marked = {}
    OBVIOUS
  <2> HIDE DEF q
  <2>2. job'[r] = q
    BY <1>1, <1>7, GoesOn DEF q, StartRetention
  <2>3. UNCHANGED <<row, original, thumb, item>> /\ \A f \in due : row[f] = "kept"
    BY <1>7 DEF StartRetention
  <2>4. \A f \in Files : ListedThere(f)' /\ HeldThere(f)' /\ TidyOK(r, f)'
    BY <1>3, <2>3
  <2>5. \A f \in Files : ListedOK(r, f)' /\ HoldsOK(r, f)' /\ TakenOK(r, f)'
    BY <2>1, <2>2, <2>4 DEF ListedOK, HoldsOK, ListedThere, HeldThere, TakenOK, Deletes
  <2>6. RetentionOK(r)'
    BY <2>1, <2>2, <2>3 DEF RetentionOK
  <2>7. CleanOK(r)'
    BY <2>1, <2>2, <2>4, <2>5, <2>6 DEF CleanOK
  <2> QED
    BY <2>7, CleanKeeps
<1>8. ASSUME NEW f \in Files, Attach(r, f)
      PROVE  CleanInv'
  <2>1. /\ row' = [row EXCEPT ![f] = "kept"] /\ original[f] = "live"
        /\ UNCHANGED <<original, thumb, item, job>>
    BY <1>8 DEF Attach, Fresh
  <2>2. \A x \in Keys : row'[x] = IF x = f THEN "kept" ELSE row[x]
    BY <1>1, <2>1 DEF FilesInv, Shape, FilesTypeOK
  <2>3. \A g \in Files : ListedThere(g)'
    <3>1. \A g \in Files : g \in Keys /\ ListedThere(g)
      BY <1>2, Distinct
    <3> QED
      BY <2>1, <2>2, <3>1 DEF ListedThere
  <2>4. \A g \in Files : HeldThere(g)' /\ TidyOK(r, g)'
    BY <1>2, <2>1 DEF HeldThere, TidyOK, At
  <2> QED
    BY <1>1, <2>1, <2>3, <2>4, CleanRests
<1> QED
  BY <1>4, <1>5, <1>6, <1>7, <1>8 DEF Begin

(* A statement is no move. *)
LEMMA StatementClean ==
    ASSUME OneAtATime, AloneInv, NEW r \in Requests, CleanOK(r),
           DeleteRow(r) \/ InsertRow(r)
    PROVE  CleanInv'
<1>1. FilesInv
  BY AloneFacts
<1>2. /\ job[r].step = "run" /\ job[r].script # <<>> /\ Advance(r)
      /\ Next1(r).op \in {"delete", "insert"}
      /\ UNCHANGED <<row, original, thumb, item, mishap>>
  BY DEF DeleteRow, InsertRow, OnStep
<1>3. \A s : s \in Range(job[r].script) <=> s = Next1(r) \/ s \in Range(Tail(job[r].script))
  BY <1>1, <1>2, RunningOn
<1>4. /\ job'[r].step = "run" /\ job'[r].kind = job[r].kind /\ job'[r].items = job[r].items
      /\ job'[r].script = Tail(job[r].script)
  BY <1>1, <1>2, Advances
<1>5. \A k \in Items : /\ Deletes(r, k)' <=> Deletes(r, k)
                       /\ Returning(r, k) => Returning(r, k)'
  BY <1>2, <1>3, <1>4 DEF Deletes, Returning, Restores, Inserting
<1>6. \A f, piece, from, to : Move(f, piece, from, to) \in Range(job[r].script) =>
          Move(f, piece, from, to) \in Range(job'[r].script)
  BY <1>2, <1>3, <1>4 DEF Move
<1>7. ASSUME NEW f \in Files
      PROVE  ListedOK(r, f)' /\ TakenOK(r, f)' /\ HoldsOK(r, f)' /\ TidyOK(r, f)'
  <2>1. ListedOK(r, f) /\ TakenOK(r, f) /\ HoldsOK(r, f) /\ TidyOK(r, f)
    BY DEF CleanOK
  <2>2. ListedOK(r, f)'
    BY <1>2, <1>5, <2>1 DEF ListedOK, Marks
  <2>3. TakenOK(r, f)'
    BY <1>2, <1>5, <1>6, <2>1 DEF TakenOK
  <2>4. HoldsOK(r, f)'
    BY <1>2, <1>5, <2>1 DEF HoldsOK
  <2>5. TidyOK(r, f)'
    BY <1>2, <2>1 DEF TidyOK, At
  <2> QED
    BY <2>2, <2>3, <2>4, <2>5
<1>8. CleanOK(r)'
  BY <1>4, <1>7 DEF CleanOK, RetentionOK
<1> QED
  BY <1>8, CleanKeeps

(* Into the bin: a piece is in the project, or where it is to go. *)
LEMMA MoveInClean ==
    ASSUME OneAtATime, AloneInv, NEW r \in Requests, CleanOK(r), MovePiece(r),
           job[r].kind = "delete"
    PROVE  CleanInv'
<1>0. PICK m : m = Next1(r)
  OBVIOUS
<1>1. /\ FilesInv /\ AloneOK(r) /\ Shape
      /\ job[r].step = "run" /\ m \in Moves /\ StepOK(r, m) /\ m.op = "move"
      /\ \A s : s \in Range(job[r].script) <=> s = m \/ s \in Range(Tail(job[r].script))
      /\ job'[r].step = "run" /\ job'[r].kind = job[r].kind
      /\ job'[r].items = job[r].items /\ job'[r].script = Tail(job[r].script)
      /\ Relocate({m}) /\ UNCHANGED <<row, lock, item>>
  BY <1>0, AloneFacts, MovesOn DEF FilesInv
<1>2. /\ m.from = "live" /\ m.to \in job[r].items /\ m.to \in Items
      /\ item[m.to].state = "held" /\ Deletes(r, m.to)
  <2>1. m.from = "live" /\ m.to \in job[r].items
    BY <1>1 DEF StepOK
  <2>2. m.to \in Items /\ item[m.to].state = "held"
    <3>1. RunOK(r) /\ job[r] \in Runs
      BY <1>1 DEF FilesInv, JobOK, RunOK
    <3> QED
      BY <2>1, <3>1 DEF RunOK, Runs
  <2> QED
    BY <1>1, <2>1, <2>2 DEF Deletes
<1>3. \A k \in Items : /\ Deletes(r, k)' <=> Deletes(r, k)
                       /\ ~Returning(r, k)
                       /\ k # m.from
  BY <1>1, <1>2, Distinct DEF Deletes, Returning, Restores
<1>4. ASSUME NEW f \in Files
      PROVE  ListedOK(r, f)' /\ TakenOK(r, f)' /\ HoldsOK(r, f)' /\ TidyOK(r, f)'
  <2>1. /\ ListedOK(r, f) /\ TakenOK(r, f) /\ HoldsOK(r, f) /\ TidyOK(r, f)
        /\ DirOK(f) /\ DeleteOK(r, f) /\ f \in Keys
    BY <1>1, AloneFacts, Distinct DEF CleanOK, AloneOK
  <2>2. /\ original'[f] = IF f = m.key /\ m.piece = "original" /\ original[f] = "live"
                          THEN m.to ELSE original[f]
        /\ thumb'[f] = IF f = m.key /\ m.piece = "thumbnail" /\ "live" \in thumb[f]
                       THEN (thumb[f] \ {"live"}) \cup {m.to} ELSE thumb[f]
    BY <1>1, <1>2, OneMove
  <2>3. ~Marks(r, f)
    BY <1>1 DEF Marks
  <2>4. ListedOK(r, f)'
    BY <1>1, <1>2, <1>3, <2>1, <2>2, <2>3 DEF ListedOK
  <2>5. HoldsOK(r, f)'
    BY <1>1, <1>2, <1>3, <2>1, <2>2 DEF HoldsOK
  <2>6. TidyOK(r, f)'
    <3>1. \A k \in Items : At(f, k)' => At(f, k) \/ k = m.to
      BY <2>2 DEF At
    <3> QED
      BY <1>1, <1>2, <2>1, <3>1 DEF TidyOK
  <2>7. ASSUME NEW k \in Items, Deletes(r, k)
        PROVE  /\ item[k].rows[f] = "kept" =>
                    \/ original'[f] = k
                    \/ Move(f, "original", "live", k) \in Range(job'[r].script)
               /\ item[k].rows[f] = "purged" =>
                    \/ k \in thumb'[f]
                    \/ Move(f, "thumbnail", "live", k) \in Range(job'[r].script)
    <3>1. item[k].rows[f] \in Held => f \in Snapped(k) /\ row[f] = item[k].rows[f]
      BY <2>1, <2>7 DEF Snapped, DeleteOK
    <3>2. \A l \in Items : Deletes(r, l) /\ At(f, l) /\ f \in Snapped(k) => l = k
      BY <2>1, <2>7 DEF DirOK, DeleteOK
    <3>3. ASSUME item[k].rows[f] = "kept"
          PROVE  \/ original'[f] = k
                 \/ Move(f, "original", "live", k) \in Range(job'[r].script)
      <4>1. CASE original[f] = k
        BY <1>2, <1>3, <2>2, <4>1
      <4>2. CASE original[f] # k /\ Move(f, "original", "live", k) = m
        <5>1. m.key = f /\ m.piece = "original" /\ m.to = k
          BY <4>2 DEF Move
        <5>2. original[f] = "live"
          <6>1. row[f] = "kept" /\ f \in Snapped(k)
            BY <3>1, <3>3 DEF Held
          <6> QED
            BY <2>1, <2>3, <3>2, <4>2, <6>1 DEF ListedOK, At
        <5> QED
          BY <2>2, <5>1, <5>2
      <4>3. CASE original[f] # k /\ Move(f, "original", "live", k) # m
        BY <1>1, <2>1, <2>7, <3>3, <4>3 DEF TakenOK
      <4> QED
        BY <4>1, <4>2, <4>3
    <3>4. ASSUME item[k].rows[f] = "purged"
          PROVE  \/ k \in thumb'[f]
                 \/ Move(f, "thumbnail", "live", k) \in Range(job'[r].script)
      <4>1. CASE k \in thumb[f]
        BY <1>2, <1>3, <2>2, <4>1
      <4>2. CASE k \notin thumb[f] /\ Move(f, "thumbnail", "live", k) = m
        <5>1. m.key = f /\ m.piece = "thumbnail" /\ m.to = k
          BY <4>2 DEF Move
        <5>2. "live" \in thumb[f]
          <6>1. row[f] = "purged" /\ f \in Snapped(k)
            BY <3>1, <3>4 DEF Held
          <6> QED
            BY <2>1, <3>2, <4>2, <6>1 DEF ListedOK, At
        <5> QED
          BY <2>2, <5>1, <5>2
      <4>3. CASE k \notin thumb[f] /\ Move(f, "thumbnail", "live", k) # m
        BY <1>1, <2>1, <2>7, <3>4, <4>3 DEF TakenOK
      <4> QED
        BY <4>1, <4>2, <4>3
    <3> QED
      BY <3>3, <3>4
  <2>8. TakenOK(r, f)'
    BY <1>1, <1>3, <2>7 DEF TakenOK
  <2> QED
    BY <2>4, <2>5, <2>6, <2>8
<1>5. CleanOK(r)'
  BY <1>1, <1>4 DEF CleanOK, RetentionOK
<1> QED
  BY <1>5, CleanKeeps

(* Out of it: the rows of what moves are not in the table yet. *)
LEMMA MoveOutClean ==
    ASSUME OneAtATime, AloneInv, NEW r \in Requests, CleanOK(r), MovePiece(r),
           job[r].kind # "delete"
    PROVE  CleanInv'
<1>0. PICK m : m = Next1(r)
  OBVIOUS
<1>1. /\ FilesInv /\ AloneOK(r) /\ RestoreOK(r) /\ Shape /\ RunOK(r) /\ job[r] \in Runs
      /\ job[r].step = "run" /\ job[r].script # <<>>
      /\ m \in Moves /\ StepOK(r, m) /\ m.op = "move"
      /\ job'[r].step = "run" /\ job'[r].kind = job[r].kind
      /\ job'[r].items = job[r].items /\ job'[r].script = Tail(job[r].script)
      /\ Relocate({m}) /\ UNCHANGED <<row, lock, item>>
  BY <1>0, AloneFacts, MovesOn DEF FilesInv
<1>2. job[r].kind = "restore"
  BY <1>1 DEF Runs
<1>3. PICK k \in Items : job[r].items = {k}
  BY <1>1, <1>2 DEF RunOK
<1>4. /\ m.from = k /\ m.to = "live" /\ m.key \in Snapped(k) /\ item[k].state = "kept"
      /\ Restores(r, k)
  <2>1. Restores(r, k)
    BY <1>1, <1>2, <1>3 DEF Restores
  <2>2. m.from = k /\ m.to = "live" /\ MoveOK(m)
    BY <1>1, <1>2, <1>3 DEF StepOK
  <2> QED
    BY <1>1, <2>1, <2>2 DEF AloneOK, MoveOK
<1>5. ~Inserting(r)'
  <2>1. job[r].script \in Seq(Steps) /\ m = Head(job[r].script) /\ InsertsFirst(job[r].script)
    BY <1>0, <1>1, <1>2 DEF Runs, Next1, RestoreOK
  <2>2. \A s \in Range(Tail(job[r].script)) : s.op # "insert"
    BY <1>1, <2>1, InsertsFirstInTail
  <2> QED
    BY <1>1, <2>2 DEF Inserting
<1>6. /\ Returning(r, k)'
      /\ \A l \in Items : ~Deletes(r, l) /\ ~Deletes(r, l)' /\ (Returning(r, l) => l = k)
  BY <1>1, <1>2, <1>3, <1>4, <1>5 DEF Returning, Restores, Deletes
<1>7. ASSUME NEW f \in Files
      PROVE  ListedOK(r, f)' /\ TakenOK(r, f)' /\ HoldsOK(r, f)' /\ TidyOK(r, f)'
  <2>1. /\ ListedThere(f) /\ HoldsOK(r, f) /\ TidyOK(r, f) /\ UniqueOK(f) /\ f \in Keys
    BY <1>1, <1>2, AloneFacts, Distinct, CleanFacts DEF CleanOK
  <2>2. /\ original'[f] = IF f = m.key /\ m.piece = "original" /\ original[f] = k
                          THEN "live" ELSE original[f]
        /\ thumb'[f] = IF f = m.key /\ m.piece = "thumbnail" /\ k \in thumb[f]
                       THEN (thumb[f] \ {k}) \cup {"live"} ELSE thumb[f]
    BY <1>1, <1>4, OneMove
  <2>3. f = m.key => row[f] = "none"
    BY <1>4, <2>1 DEF UniqueOK
  <2>4. ListedOK(r, f)'
    BY <1>1, <2>1, <2>2, <2>3 DEF ListedThere, ListedOK
  <2>5. HoldsOK(r, f)'
    <3> SUFFICES ASSUME NEW l \in Items, item[l].state = "kept"
                 PROVE  /\ item[l].rows[f] = "kept" =>
                             original'[f] = l \/ (Returning(r, l)' /\ original'[f] = "live")
                        /\ item[l].rows[f] = "purged" =>
                             l \in thumb'[f] \/ (Returning(r, l)' /\ "live" \in thumb'[f])
      BY <1>1 DEF HoldsOK
    <3>1. /\ item[l].rows[f] = "kept" =>
               original[f] = l \/ (l = k /\ original[f] = "live")
          /\ item[l].rows[f] = "purged" =>
               l \in thumb[f] \/ (l = k /\ "live" \in thumb[f])
      BY <1>6, <2>1 DEF HoldsOK
    <3>2. k # "live"
      BY Distinct
    <3> QED
      BY <1>6, <2>2, <3>1, <3>2
  <2>6. TidyOK(r, f)'
    <3>1. \A l \in Items : At(f, l)' => At(f, l)
      BY <2>2, Distinct DEF At
    <3> QED
      BY <1>1, <2>1, <3>1 DEF TidyOK
  <2>7. TakenOK(r, f)'
    BY <1>6 DEF TakenOK
  <2> QED
    BY <2>4, <2>5, <2>6, <2>7
<1>8. CleanOK(r)'
  BY <1>1, <1>7 DEF CleanOK, RetentionOK
<1> QED
  BY <1>8, CleanKeeps

LEMMA CommitDeleteClean ==
    ASSUME OneAtATime, AloneInv, NEW r \in Requests, CleanOK(r), Commit(r),
           job[r].kind = "delete"
    PROVE  CleanInv'
<1>1. /\ FilesInv /\ AloneOK(r)
      /\ job[r].step = "run" /\ job[r].script = <<>>
      /\ row' = [x \in Keys |-> IF lock[x] = r THEN "none" ELSE row[x]]
      /\ item' = [k \in Items |->
           IF k \in job[r].items THEN [item[k] EXCEPT !.state = "kept"] ELSE item[k]]
      /\ Goto(r, Idle)
      /\ UNCHANGED <<original, thumb, mishap>>
  BY AloneFacts DEF Commit
<1>2. job'[r].step = "idle"
  BY <1>1, GoesOn, IdleIs
<1>3. \A k \in Items :
          /\ item'[k].rows = item[k].rows
          /\ item'[k].state = IF k \in job[r].items THEN "kept" ELSE item[k].state
          /\ Deletes(r, k) <=> k \in job[r].items
  BY <1>1 DEF FilesInv, Shape, ItemRow, Deletes
<1>4. ASSUME NEW f \in Files
      PROVE  ListedThere(f)' /\ HeldThere(f)' /\ TidyOK(r, f)'
  <2>1. /\ ListedOK(r, f) /\ TakenOK(r, f) /\ HeldThere(f) /\ TidyOK(r, f)
        /\ DirOK(f) /\ DeleteOK(r, f) /\ f \in Keys /\ ~Marks(r, f)
    BY <1>1, AloneFacts, Distinct, CleanFacts DEF CleanOK, AloneOK, Marks
  <2>2. \A s : s \notin Range(job[r].script)
    BY <1>1, NothingLeft
  <2>3. row'[f] = IF lock[f] = r THEN "none" ELSE row[f]
    BY <1>1, <2>1
  <2>4. \A k \in Items : Deletes(r, k) /\ At(f, k) => row'[f] = "none"
    BY <2>1, <2>2, <2>3 DEF DirOK, DeleteOK
  <2>5. ListedThere(f)'
    BY <1>1, <2>1, <2>3, <2>4 DEF ListedThere, ListedOK, At
  <2>6. HeldThere(f)'
    <3> SUFFICES ASSUME NEW k \in Items, item'[k].state = "kept"
                 PROVE  /\ item[k].rows[f] = "kept" => original[f] = k
                        /\ item[k].rows[f] = "purged" => k \in thumb[f]
      BY <1>1, <1>3 DEF HeldThere
    <3>1. CASE k \in job[r].items
      BY <1>3, <2>1, <2>2, <3>1 DEF TakenOK
    <3>2. CASE k \notin job[r].items
      BY <1>3, <2>1, <3>2 DEF HeldThere
    <3> QED
      BY <3>1, <3>2
  <2>7. TidyOK(r, f)'
    <3>1. \A k \in Items : At(f, k)' => item[k].state \in {"held", "kept"}
      BY <1>1, <2>1 DEF At, TidyOK
    <3> QED
      BY <1>3, <3>1 DEF TidyOK
  <2> QED
    BY <2>5, <2>6, <2>7
<1> QED
  BY <1>2, <1>4, CleanRests

LEMMA CommitRestoreClean ==
    ASSUME OneAtATime, AloneInv, NEW r \in Requests, CleanOK(r), Commit(r),
           job[r].kind # "delete"
    PROVE  CleanInv'
<1>1. /\ FilesInv /\ AloneOK(r) /\ RestoreOK(r)
      /\ job[r].step = "run" /\ job[r].script = <<>>
  BY AloneFacts DEF Commit
<1>2. PICK k \in Items :
          /\ Restores(r, k) /\ job[r].items = {k}
          /\ \A x \in Keys : row'[x] = IF x \in Snapped(k) THEN item[k].rows[x] ELSE row[x]
  BY <1>1, RestoreCommits
<1>3. /\ item' = [l \in Items |->
           IF l \in job[r].items THEN [item[l] EXCEPT !.state = "gone"] ELSE item[l]]
      /\ Goto(r, [step |-> "remove", items |-> job[r].items])
      /\ UNCHANGED <<original, thumb>>
  BY DEF Commit
<1>4. \A l \in Items :
          /\ item'[l].rows = item[l].rows
          /\ item'[l].state = IF l = k THEN "gone" ELSE item[l].state
          /\ Returning(r, l) => l = k
  BY <1>1, <1>2, <1>3 DEF FilesInv, Shape, ItemRow, Returning, Restores
<1>5. item[k].state = "kept"
  BY <1>1, <1>2 DEF AloneOK
<1>6. job'[r].step = "remove"
  <2> DEFINE q == [step |-> "remove", items |-> job[r].items]
  <2>1. q.step = "remove"
    OBVIOUS
  <2> HIDE DEF q
  <2> QED
    BY <1>1, <1>3, <2>1, GoesOn DEF q
<1>7. \A f \in Files : ~At(f, k)
  <2>1. job[r].kind = "restore"
    BY <1>2 DEF Restores
  <2> QED
    BY <1>1, <1>2, <2>1, NothingToMove DEF RestoreOK
<1>8. ASSUME NEW f \in Files
      PROVE  ListedThere(f)' /\ HeldThere(f)' /\ TidyOK(r, f)'
  <2>1. ListedThere(f) /\ HoldsOK(r, f) /\ TidyOK(r, f) /\ f \in Keys /\ ~At(f, k)
    BY <1>1, <1>7, Distinct, CleanFacts DEF CleanOK
  <2>2. row'[f] = IF f \in Snapped(k) THEN item[k].rows[f] ELSE row[f]
    BY <1>2, <2>1
  <2>3. /\ item[k].rows[f] = "kept" => original[f] = "live"
        /\ item[k].rows[f] = "purged" => "live" \in thumb[f]
    BY <1>5, <2>1 DEF HoldsOK, At
  <2>4. ListedThere(f)'
    BY <1>3, <2>1, <2>2, <2>3 DEF ListedThere
  <2>5. HeldThere(f)'
    BY <1>3, <1>4, <2>1 DEF HoldsOK, HeldThere
  <2>6. TidyOK(r, f)'
    <3>1. \A l \in Items : At(f, l)' => l # k /\ item[l].state \in {"held", "kept"}
      BY <1>1, <1>3, <2>1 DEF At, TidyOK
    <3> QED
      BY <1>4, <3>1 DEF TidyOK
  <2> QED
    BY <2>4, <2>5, <2>6
<1> QED
  BY <1>6, <1>8, CleanRests

(* What gives up without a mishap is a restore that met a conflict: it had *)
(* moved nothing.                                                          *)
LEMMA AbortClean ==
    ASSUME OneAtATime, AloneInv, NEW r \in Requests, CleanOK(r), Abort(r), ~mishap'
    PROVE  CleanInv'
<1> DEFINE back == [step |-> "put back", moved |-> job[r].moved]
<1>1. /\ FilesInv /\ Shape /\ RestoreOK(r) /\ job[r].step = "run" /\ OnStep(r, "insert")
      /\ item' = Forgotten(job[r].items)
      /\ Goto(r, IF job[r].moved = <<>> THEN Idle ELSE back)
      /\ UNCHANGED <<row, original, thumb>>
  BY AloneFacts DEF Abort, FilesInv
<1> HIDE DEF back
<1>2. job[r].script # <<>> /\ Next1(r).op = "insert"
  BY <1>1 DEF OnStep
<1>3. /\ RunOK(r) /\ job[r] \in Runs /\ StepOK(r, Next1(r))
      /\ Next1(r) \in Range(job[r].script)
  BY <1>1, <1>2, RunningOn
<1>4. job[r].kind = "restore"
  BY <1>2, <1>3 DEF StepOK, MoveOK, Moves, Runs
<1>5. Inserting(r) /\ job[r].moved = <<>>
  BY <1>1, <1>2, <1>3, <1>4 DEF Inserting, RestoreOK
<1>6. job'[r].step = "idle"
  BY <1>1, <1>5, GoesOn, IdleIs
<1>7. \A k \in Items : item[k].state # "held"
  BY <1>4, NoneHeld
<1>8. \A k \in Items : item'[k] = item[k]
  BY <1>1, <1>7, ForgottenItems
<1>9. \A f \in Files : ListedThere(f) /\ HeldThere(f) /\ TidyOK(r, f)
  BY <1>1, <1>4, <1>5, CleanFacts DEF CleanOK
<1>10. ASSUME NEW f \in Files
       PROVE  ListedThere(f)' /\ HeldThere(f)' /\ TidyOK(r, f)'
  BY <1>1, <1>8, <1>9 DEF ListedThere, HeldThere, TidyOK, At
<1> QED
  BY <1>6, <1>10, CleanRests

LEMMA EraseClean ==
    ASSUME OneAtATime, AloneInv, NEW r \in Requests, CleanOK(r), Erase(r)
    PROVE  CleanInv'
<1> DEFINE q == [step |-> "remove", items |-> job[r].items]
<1>1. /\ FilesInv /\ job[r].step = "erase" /\ Goto(r, q)
      /\ UNCHANGED <<row, original, thumb>>
      /\ item' = [k \in Items |->
           IF k \in job[r].items THEN [item[k] EXCEPT !.state = "gone"] ELSE item[k]]
  BY AloneFacts DEF Erase
<1>2. q.step = "remove" /\ q.items = job[r].items
  OBVIOUS
<1> HIDE DEF q
<1>3. job'[r] = q
  BY <1>1, GoesOn
<1>4. \A k \in Items :
          /\ item'[k].rows = item[k].rows
          /\ item'[k].state = IF k \in job[r].items THEN "gone" ELSE item[k].state
  BY <1>1 DEF FilesInv, Shape, ItemRow
<1>5. /\ \A f \in Files : ListedThere(f) /\ HeldThere(f)
      /\ \A f \in Files, k \in Items : At(f, k) => item[k].state \in {"held", "kept"}
  BY <1>1, CleanFacts
<1>6. ASSUME NEW f \in Files
      PROVE  ListedThere(f)' /\ HeldThere(f)' /\ TidyOK(r, f)'
  <2>1. ListedThere(f)' /\ HeldThere(f)'
    BY <1>1, <1>4, <1>5 DEF ListedThere, HeldThere
  <2>2. TidyOK(r, f)'
    BY <1>1, <1>2, <1>3, <1>4, <1>5 DEF TidyOK, At
  <2> QED
    BY <2>1, <2>2
<1> QED
  BY <1>2, <1>3, <1>6, CleanRests

LEMMA RemovalClean ==
    ASSUME OneAtATime, AloneInv, NEW r \in Requests, CleanOK(r), RemoveDirectory(r)
    PROVE  CleanInv'
<1>1. /\ FilesInv /\ JobOK(r) /\ job[r].step = "remove" /\ Goto(r, Idle)
      /\ UNCHANGED <<row, item>>
      /\ \A f \in Files :
           /\ original'[f] = IF original[f] \in job[r].items THEN "gone" ELSE original[f]
           /\ thumb'[f] = thumb[f] \ job[r].items
  BY AloneFacts DEF RemoveDirectory
<1>2. job'[r].step = "idle"
  BY <1>1, GoesOn, IdleIs
<1>3. "live" \notin job[r].items /\ \A k \in job[r].items : item[k].state = "gone"
  BY <1>1, Distinct DEF JobOK
<1>4. ASSUME NEW f \in Files
      PROVE  ListedThere(f)' /\ HeldThere(f)' /\ TidyOK(r, f)'
  <2>1. ListedThere(f) /\ HeldThere(f) /\ TidyOK(r, f)
    BY <1>1, CleanFacts DEF CleanOK
  <2>2. ListedThere(f)' /\ HeldThere(f)'
    BY <1>1, <1>3, <2>1 DEF ListedThere, HeldThere
  <2>3. \A k \in Items : At(f, k)' => At(f, k) /\ k \notin job[r].items
    BY <1>1, Distinct DEF At
  <2> QED
    BY <1>1, <2>1, <2>2, <2>3 DEF TidyOK
<1> QED
  BY <1>2, <1>4, CleanRests

LEMMA CleanUpClean ==
    ASSUME OneAtATime, AloneInv, NEW r \in Requests, CleanOK(r), CleanUp(r)
    PROVE  CleanInv'
<1>1. /\ FilesInv /\ job[r].step = "clean up" /\ Goto(r, Idle)
      /\ UNCHANGED <<row, item>> /\ ~Claimed(job[r].file)
  BY AloneFacts DEF CleanUp, AloneOK
<1>2. original = [f \in Files |-> original[f]] /\ thumb = [f \in Files |-> thumb[f]]
  BY <1>1 DEF FilesInv, Shape, FilesTypeOK
<1>3. job'[r].step = "idle"
  BY <1>1, GoesOn, IdleIs
<1>4. ASSUME NEW f \in Files
      PROVE  ListedThere(f)' /\ HeldThere(f)' /\ TidyOK(r, f)'
  <2>1. ListedThere(f) /\ HeldThere(f) /\ TidyOK(r, f)
    BY <1>1, CleanFacts DEF CleanOK
  <2>2. ListedThere(f)' /\ HeldThere(f)'
    <3>1. CASE f = job[r].file
      <4>1. row[f] \notin Held
            /\ \A k \in Items : item[k].state = "kept" => item[k].rows[f] \notin Held
        BY <1>1, <3>1 DEF Claimed
      <4> QED
        BY <1>1, <4>1 DEF ListedThere, HeldThere, Held
    <3>2. CASE f # job[r].file
      <4>1. original'[f] = original[f] /\ thumb'[f] = thumb[f]
        BY <1>2, <3>2 DEF CleanUp
      <4> QED
        BY <1>1, <2>1, <4>1 DEF ListedThere, HeldThere
    <3> QED
      BY <3>1, <3>2
  <2>3. \A k \in Items : At(f, k)' => At(f, k)
    BY <1>2, Distinct DEF CleanUp, At
  <2> QED
    BY <1>1, <2>1, <2>2, <2>3 DEF TidyOK
<1> QED
  BY <1>3, <1>4, CleanRests

LEMMA ConsiderClean ==
    ASSUME OneAtATime, AloneInv, NEW r \in Requests, CleanOK(r), Consider(r)
    PROVE  CleanInv'
<1>1. /\ FilesInv /\ JobOK(r) /\ RetentionOK(r) /\ job[r].step = "retain"
      /\ UNCHANGED <<row, lock, original, item>>
  BY AloneFacts DEF Consider, CleanOK
<1>2. /\ job[r].left \subseteq Files /\ job[r] \in Retaining
      /\ thumb \in [Files -> SUBSET ({"live"} \cup Items)]
  BY <1>1 DEF JobOK, Retaining, FilesInv, Shape, FilesTypeOK
<1> DEFINE here(f) == original[f] = "live"
           ready(f) == "live" \in thumb[f] \/ (here(f) /\ f \in Images)
           on(f) == [step |-> "unlink", left |-> job[r].left \ {f},
                     marked |-> job[r].marked, file |-> f, here |-> here(f)]
           skip(f) == [job[r] EXCEPT !.left = @ \ {f}]
<1>3. PICK f \in job[r].left :
          /\ thumb' = [thumb EXCEPT ![f] = IF ready(f) THEN @ \cup {"live"} ELSE @]
          /\ Goto(r, IF ready(f) THEN on(f) ELSE skip(f))
  BY <1>1 DEF Consider
<1>4. \A g \in Files : thumb[g] \subseteq thumb'[g] /\ thumb'[g] \subseteq thumb[g] \cup {"live"}
  BY <1>2, <1>3
<1>5. /\ on(f).step = "unlink" /\ on(f).left = job[r].left \ {f}
      /\ on(f).marked = job[r].marked /\ on(f).file = f /\ on(f).here = here(f)
      /\ skip(f).step = "retain" /\ skip(f).left = job[r].left \ {f}
      /\ skip(f).marked = job[r].marked
  BY <1>1, <1>2 DEF Retaining
<1>6. original[f] = "live" => here(f)
  OBVIOUS
<1> HIDE DEF ready, on, skip, here
<1>7. job'[r] = IF ready(f) THEN on(f) ELSE skip(f)
  BY <1>1, <1>3, GoesOn
<1>8. /\ job'[r].step \in {"retain", "unlink"}
      /\ job'[r].left = job[r].left \ {f} /\ job'[r].marked = job[r].marked
      /\ job'[r].step = "unlink" => job'[r].file = f /\ job'[r].here = here(f)
  BY <1>5, <1>7
<1>9. f \in Files /\ row[f] = "kept" /\ f \notin job[r].marked
  BY <1>1, <1>2 DEF RetentionOK
<1>10. original[f] = "live"
  <2>1. ListedOK(r, f) /\ ~Marks(r, f) /\ \A k \in Items : ~Deletes(r, k)
    BY <1>1, <1>9 DEF CleanOK, Marks, Deletes
  <2> QED
    BY <1>9, <2>1 DEF ListedOK
<1>11. RetentionOK(r)'
  <2>1. job[r].marked \subseteq Files
    BY <1>2 DEF Retaining
  <2>2. \A g \in job[r].marked : "live" \in thumb'[g]
    BY <1>1, <1>4, <2>1 DEF RetentionOK
  <2>3. /\ (job[r].left \ {f}) \cap job[r].marked = {}
        /\ \A g \in job[r].left \ {f} : row'[g] = "kept"
    BY <1>1 DEF RetentionOK
  <2>4. job'[r].step = "unlink" =>
            /\ job'[r].here /\ original'[job'[r].file] = "live" /\ row'[job'[r].file] = "kept"
            /\ job'[r].file \notin job'[r].left \cup job'[r].marked
    BY <1>1, <1>6, <1>8, <1>9, <1>10
  <2> QED
    BY <1>8, <2>2, <2>3, <2>4 DEF RetentionOK
<1>12. ASSUME NEW g \in Files
       PROVE  ListedOK(r, g)' /\ TakenOK(r, g)' /\ HoldsOK(r, g)' /\ TidyOK(r, g)'
  <2>1. ListedOK(r, g) /\ HeldThere(g)
        /\ \A k \in Items : At(g, k) => item[k].state \in {"held", "kept"}
    BY <1>1, CleanFacts DEF CleanOK
  <2>2. Marks(r, g) => Marks(r, g)'
    BY <1>4, <1>8 DEF Marks
  <2>3. \A k \in Items : ~Deletes(r, k)
    BY <1>1 DEF Deletes
  <2>4. ListedOK(r, g)'
    BY <1>1, <1>4, <2>1, <2>2, <2>3 DEF ListedOK
  <2>5. HoldsOK(r, g)'
    BY <1>1, <1>4, <2>1 DEF HeldThere, HoldsOK
  <2>6. \A k \in Items : At(g, k)' => At(g, k)
    BY <1>1, <1>4, Distinct DEF At
  <2>7. TakenOK(r, g)'
    BY <1>8 DEF TakenOK, Deletes
  <2> QED
    BY <1>1, <2>1, <2>4, <2>5, <2>6, <2>7 DEF TidyOK
<1>13. CleanOK(r)'
  BY <1>8, <1>11, <1>12 DEF CleanOK
<1> QED
  BY <1>13, CleanKeeps

LEMMA UnlinkClean ==
    ASSUME OneAtATime, AloneInv, NEW r \in Requests, CleanOK(r), Unlink(r)
    PROVE  CleanInv'
<1>1. /\ FilesInv /\ JobOK(r) /\ RetentionOK(r) /\ AloneOK(r) /\ job[r].step = "unlink"
      /\ UNCHANGED <<row, lock, thumb, item>>
  BY AloneFacts DEF Unlink, CleanOK
<1>2. PICK f \in Files : f = job[r].file
  BY <1>1 DEF JobOK, Unlinking
<1>3. /\ job[r].here /\ original[f] = "live" /\ row[f] = "kept" /\ "live" \in thumb[f]
      /\ f \notin job[r].left \cup job[r].marked
  BY <1>1, <1>2 DEF RetentionOK, AloneOK
<1> DEFINE q == [step |-> "retain", left |-> job[r].left, marked |-> job[r].marked \cup {f}]
<1>4. Goto(r, q)
  BY <1>2, <1>3 DEF Unlink
<1>5. q.step = "retain" /\ q.left = job[r].left /\ q.marked = job[r].marked \cup {f}
  OBVIOUS
<1> HIDE DEF q
<1>6. job'[r] = q
  BY <1>1, <1>4, GoesOn
<1>7. \A g \in Files : original'[g] = IF g = f THEN "gone" ELSE original[g]
  <2>1. original = [g \in Files |-> original[g]]
    BY <1>1 DEF FilesInv, Shape, FilesTypeOK
  <2> QED
    BY <1>2, <1>3, <2>1 DEF Unlink
<1>8. RetentionOK(r)'
  BY <1>1, <1>3, <1>5, <1>6 DEF RetentionOK
<1>9. \A k \in Items : item[k].state = "kept" => f \notin Snapped(k)
  <2>1. UniqueOK(f)
    BY AloneFacts, Distinct
  <2> QED
    BY <1>3, <2>1 DEF UniqueOK
<1>10. ASSUME NEW g \in Files
       PROVE  ListedOK(r, g)' /\ TakenOK(r, g)' /\ HoldsOK(r, g)' /\ TidyOK(r, g)'
  <2>1. /\ ListedOK(r, g) /\ HeldThere(g)
        /\ \A k \in Items : At(g, k) => item[k].state \in {"held", "kept"}
    BY <1>1, CleanFacts DEF CleanOK
  <2>2. Marks(r, g) \/ g = f => Marks(r, g)'
    BY <1>1, <1>3, <1>5, <1>6 DEF Marks
  <2>3. \A k \in Items : ~Deletes(r, k)
    BY <1>1 DEF Deletes
  <2>4. ListedOK(r, g)'
    BY <1>1, <1>7, <2>1, <2>2, <2>3 DEF ListedOK
  <2>5. HoldsOK(r, g)'
    <3>1. CASE g = f
      <4>1. \A k \in Items : item[k].state = "kept" => item[k].rows[g] \notin Held
        BY <1>9, <3>1, Distinct DEF Snapped
      <4> QED
        BY <1>1, <4>1 DEF HoldsOK, Held
    <3>2. CASE g # f
      BY <1>1, <1>7, <2>1, <3>2 DEF HeldThere, HoldsOK
    <3> QED
      BY <3>1, <3>2
  <2>6. \A k \in Items : At(g, k)' => At(g, k)
    BY <1>1, <1>7, Distinct DEF At
  <2>7. TakenOK(r, g)'
    BY <1>5, <1>6 DEF TakenOK, Deletes
  <2> QED
    BY <1>1, <2>1, <2>4, <2>5, <2>6, <2>7 DEF TidyOK
<1>11. CleanOK(r)'
  BY <1>5, <1>6, <1>8, <1>10 DEF CleanOK
<1> QED
  BY <1>11, CleanKeeps

LEMMA MarksClean ==
    ASSUME OneAtATime, AloneInv, NEW r \in Requests, CleanOK(r), CommitMarks(r), ~mishap'
    PROVE  CleanInv'
<1>1. /\ FilesInv /\ JobOK(r) /\ RetentionOK(r) /\ job[r].step = "retain"
      /\ Goto(r, Idle) /\ UNCHANGED <<original, thumb, item>>
  BY AloneFacts DEF CommitMarks, CleanOK
<1>2. \A x \in Keys : row'[x] = IF x \in job[r].marked THEN "purged" ELSE row[x]
  BY DEF CommitMarks
<1>3. job'[r].step = "idle"
  BY <1>1, GoesOn, IdleIs
<1>4. ASSUME NEW f \in Files
      PROVE  ListedThere(f)' /\ HeldThere(f)' /\ TidyOK(r, f)'
  <2>1. /\ ListedOK(r, f) /\ HeldThere(f) /\ f \in Keys
        /\ \A k \in Items : At(f, k) => item[k].state \in {"held", "kept"}
        /\ \A k \in Items : ~Deletes(r, k)
    BY <1>1, CleanFacts, Distinct DEF CleanOK, Deletes
  <2>2. /\ row[f] = "kept" => original[f] = "live" \/ f \in job[r].marked
        /\ row[f] = "purged" => "live" \in thumb[f]
    BY <2>1 DEF ListedOK, Marks
  <2>3. f \in job[r].marked => "live" \in thumb[f]
    BY <1>1 DEF RetentionOK
  <2>4. ListedThere(f)'
    BY <1>1, <1>2, <2>1, <2>2, <2>3 DEF ListedThere
  <2>5. HeldThere(f)'
    BY <1>1, <2>1 DEF HeldThere
  <2> QED
    BY <1>1, <2>1, <2>4, <2>5 DEF TidyOK, At
<1> QED
  BY <1>3, <1>4, CleanRests

LEMMA CleanStart == Init => CleanInv
<1> SUFFICES ASSUME Init, NEW r \in Requests PROVE CleanOK(r)
  BY DEF CleanInv
<1>1. /\ job[r].step = "idle"
      /\ \A f \in Files : row[f] = "none" /\ original[f] = "unborn" /\ thumb[f] = {}
      /\ \A k \in Items : item[k].state = "unborn"
  BY IdleIs, Distinct DEF Init, Empty
<1>2. RetentionOK(r)
  BY <1>1 DEF RetentionOK
<1>3. ASSUME NEW f \in Files
      PROVE  ListedOK(r, f) /\ TakenOK(r, f) /\ HoldsOK(r, f) /\ TidyOK(r, f)
  <2>1. ListedOK(r, f) /\ HoldsOK(r, f)
    BY <1>1 DEF ListedOK, HoldsOK
  <2>2. TakenOK(r, f)
    BY <1>1 DEF TakenOK, Deletes
  <2>3. TidyOK(r, f)
    BY <1>1, Distinct DEF TidyOK, At
  <2> QED
    BY <2>1, <2>2, <2>3
<1> QED
  BY <1>1, <1>2, <1>3 DEF CleanOK

LEMMA CleanStep == OneAtATime /\ AloneInv /\ CleanInv /\ [Next]_vars => CleanInv'
<1> SUFFICES ASSUME OneAtATime, AloneInv, CleanInv, [Next]_vars, ~mishap'
             PROVE  CleanInv'
  BY DEF CleanInv
<1>1. FilesInv
  BY DEF AloneInv
<1>2. PICK r : Requests = {r}
  BY DEF OneAtATime
<1>3. ~mishap
  BY DEF Next, Begin, Proceed, Upload, MakeThumbnail, Attach, StartCleanUp, CleanUp,
     StartDeleteProject, StartDeleteFiles, StartRestore, DeleteRow, InsertRow, MovePiece,
     Commit, Abort, PutBack, StartErase, Erase, RemoveDirectory, StartRetention,
     Consider, Unlink, CommitMarks, Crash, vars
<1>4. r \in Requests /\ CleanOK(r)
  BY <1>2, <1>3 DEF CleanInv
<1>5. ASSUME NEW f \in Files, Upload(f) \/ MakeThumbnail(f)
      PROVE  CleanInv'
  <2>1. \A g \in Files : /\ original'[g] = original[g]
                            \/ (original[g] = "unborn" /\ original'[g] = "live")
                         /\ thumb'[g] = thumb[g] \/ thumb'[g] = thumb[g] \cup {"live"}
    BY <1>1, <1>5 DEF FilesInv, Shape, FilesTypeOK, Upload, MakeThumbnail
  <2>2. UNCHANGED <<row, lock, item, job>>
    BY <1>5 DEF Upload, MakeThumbnail
  <2> QED
    BY <1>1, <1>4, <2>1, <2>2, BytesArriveClean
<1>6. CASE Begin(r)
  BY <1>4, <1>6, BeginClean
<1>7. CASE Proceed(r)
  <2>1. ~PutBack(r)
    BY <1>4 DEF PutBack, CleanOK
  <2> QED
    BY <1>4, <1>7, <2>1, StatementClean, MoveInClean, MoveOutClean, CommitDeleteClean,
       CommitRestoreClean, AbortClean, EraseClean, RemovalClean, CleanUpClean,
       ConsiderClean, UnlinkClean, MarksClean DEF Proceed
<1>8. CASE Crash
  BY <1>8 DEF Crash
<1>9. CASE UNCHANGED vars
  BY <1>1, <1>4, <1>9, BytesArriveClean DEF vars
<1> QED
  BY <1>2, <1>5, <1>6, <1>7, <1>8, <1>9 DEF Next

LEMMA CleanHolds ==
    ASSUME OneAtATime
    PROVE  Spec => [](AloneInv /\ CleanInv)
<1>1. AloneInv /\ CleanInv /\ [Next]_vars => CleanInv'
  BY CleanStep
<1> QED
  BY <1>1, CleanStart, AloneHolds, PTL DEF Spec

(* Between requests, while nothing has failed: a file that is listed can   *)
(* be downloaded, one whose original was removed can still be seen, and a  *)
(* bin item holds in its directory what its snapshot promises to restore,  *)
(* through any sequence of deletes, restores, erasures and retention runs  *)
(* in which one ends before the next begins.                               *)
THEOREM FilesStayThere ==
    ASSUME OneAtATime
    PROVE  Spec => []FilesAreThere
<1>1. CleanInv => FilesAreThere
  <2> SUFFICES ASSUME CleanInv, Quiet, ~mishap
               PROVE  ListedIsThere /\ ItemHoldsItsFiles
    BY DEF FilesAreThere
  <2>1. PICK r : r \in Requests /\ CleanOK(r)
    BY DEF OneAtATime, CleanInv
  <2>2. job[r].step = "idle"
    BY <2>1, IdleIs DEF Quiet
  <2>3. \A f \in Files : ListedThere(f) /\ HeldThere(f)
    BY <2>1, <2>2, CleanFacts
  <2> QED
    BY <2>3 DEF ListedThere, HeldThere, ListedIsThere, ItemHoldsItsFiles
<1> QED
  BY <1>1, CleanHolds, PTL

(* What was erased is off the disk, and no directory in the bin is without *)
(* its item, between requests that follow one another and while nothing    *)
(* has failed.                                                             *)
THEOREM NothingStaysBehind ==
    ASSUME OneAtATime
    PROVE  Spec => []NothingLeftBehind
<1>1. AloneInv /\ CleanInv => NothingLeftBehind
  <2> SUFFICES ASSUME AloneInv, CleanInv, Quiet, ~mishap
               PROVE  \A k \in Items, f \in Files : At(f, k) => item[k].state = "kept"
    BY DEF NothingLeftBehind, At
  <2>1. PICK r : r \in Requests /\ CleanOK(r)
    BY DEF OneAtATime, CleanInv
  <2>2. job[r].step = "idle"
    BY <2>1, IdleIs DEF Quiet
  <2>3. \A k \in Items : item[k].state # "held"
    BY <2>1, <2>2, NoneHeld
  <2> QED
    BY <2>1, <2>2, <2>3, CleanFacts
<1> QED
  BY <1>1, CleanHolds, PTL
=============================================================================
