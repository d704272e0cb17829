---------------------------- MODULE ProjectFiles ----------------------------
(***************************************************************************)
(* A project's uploaded files: the rows that name them and the bytes on    *)
(* disk, which no transaction covers.                                      *)
(*                                                                         *)
(* A file is an original and, for an image, a thumbnail.  Deleting moves   *)
(* both into the directory of a new bin item and restoring moves them      *)
(* back, inside the request's transaction; erasing removes the directory   *)
(* after its own commit; the weekly retention job unlinks originals that   *)
(* have a thumbnail and marks all their rows with one commit at the end.   *)
(*                                                                         *)
(* A request runs a script of statements and moves, one step each.  What   *)
(* it deletes and inserts shows when it commits; until then the rows are   *)
(* locked.  A step may fail (rollback, then put back what was moved) and   *)
(* the server may stop (rollback, nothing put back).                       *)
(***************************************************************************)
EXTENDS Naturals, FiniteSets, SequencesExt

CONSTANTS
    Files,      \* stored names, each used once
    Images,     \* those a thumbnail can be made of
    Items,      \* bin item ids (bound: how often something is deleted)
    Requests,   \* the requests, and runs of the job, there may be at once
    Jobs,       \* what they are asked to do
    MayFail,    \* whether a statement or a move may fail
    MayCrash    \* whether the server may stop

ASSUME FilesAssumption ==
    /\ IsFiniteSet(Files) /\ Images \subseteq Files
    /\ {MayFail, MayCrash} \subseteq BOOLEAN
    /\ "project" \notin Files /\ "no one" \notin Requests
    /\ Items \cap {"unborn", "gone", "live"} = {}

VARIABLES
    row,        \* the rows: "none", "kept", or "purged" (no original any more)
    lock,       \* the request that holds a row
    original,   \* where the bytes of a file are
    thumb,      \* where thumbnails of it are
    item,       \* the bin items, with the rows in their snapshot
    job,        \* how far each request is
    mishap      \* history variable: something failed or the server stopped

vars == <<row, lock, original, thumb, item, job, mishap>>

Home == "project"               \* the row of the project the files are on

Keys == Files \cup {Home}

Held == {"kept", "purged"}

NoOne == "no one"

Idle == [step |-> "idle"]

Empty == [state |-> "unborn", rows |-> [x \in Keys |-> "none"]]

Init ==
    /\ row = [x \in Keys |-> IF x = Home THEN "kept" ELSE "none"]
    /\ lock = [x \in Keys |-> NoOne]
    /\ original = [f \in Files |-> "unborn"]
    /\ thumb = [f \in Files |-> {}]
    /\ item = [k \in Items |-> Empty]
    /\ job = [r \in Requests |-> Idle]
    /\ mishap = FALSE

Goto(r, next) == job' = [job EXCEPT ![r] = next]

----------------------------------------------------------------------------
(* Scripts *)

Statement(op, x) == [op |-> op, key |-> x]

Move(f, piece, from, to) ==
    [op |-> "move", key |-> f, piece |-> piece, from |-> from, to |-> to]

(* Mutant: the thumbnail is forgotten. *)
PiecesOriginal == <<"original", "original">>

Pieces == <<"original", "thumbnail">>

Statements(op, rows) == [n \in DOMAIN rows |-> Statement(op, rows[n])]

AllMoves(order, from, to) ==
    [n \in 1..2 * Len(order) |->
        Move(order[(n + 1) \div 2], Pieces[1 + ((n + 1) % 2)], from, to)]

(* The rows of one record, its files in some order: the project's last. *)
RowsOf(keys, order) == IF Home \in keys THEN Append(order, Home) ELSE order

(* Children first, then the files of what was deleted. *)
DeleteScript(k, keys, order) ==
    Statements("delete", RowsOf(keys, order)) \o AllMoves(order, "live", k)

(* One file after the other, three steps each. *)
DeleteEach(id, order) ==
    [n \in 1..3 * Len(order) |->
        LET f == order[(n + 2) \div 3]
        IN  DeleteScript(id[f], {f}, <<f>>)[1 + ((n + 2) % 3)]]

(* Parents first. *)
RestoreScript(k, keys, order) ==
    Statements("insert", Reverse(RowsOf(keys, order))) \o AllMoves(order, k, "live")

OrdersOf(files) == {o \in [1..Cardinality(files) -> files] : Range(o) = files}

Running(script, kind, items) ==
    [step |-> "run", script |-> script, kind |-> kind, items |-> items,
     moving |-> <<>>, moved |-> <<>>]

----------------------------------------------------------------------------
(* Uploads *)

(* The name is new; the thumbnail is made later, if the file is an image.  *)
Upload(f) ==
    /\ original[f] = "unborn"
    /\ original' = [original EXCEPT ![f] = "live"]
    /\ UNCHANGED <<row, lock, thumb, item, job, mishap>>

MakeThumbnail(f) ==
    /\ f \in Images /\ original[f] = "live" /\ "live" \notin thumb[f]
    /\ thumb' = [thumb EXCEPT ![f] = @ \cup {"live"}]
    /\ UNCHANGED <<row, lock, original, item, job, mishap>>

(* A form's own upload: it is there, and was never on a project. *)
Fresh(f) ==
    /\ original[f] = "live" /\ row[f] = "none"
    /\ \A k \in Items : item[k].rows[f] = "none"

(* A form gives the project a file it uploaded. *)
Attach(r, f) ==
    /\ job[r] = Idle
    /\ Fresh(f)
    /\ row[Home] = "kept" /\ lock[Home] = NoOne
    /\ row' = [row EXCEPT ![f] = "kept"]
    /\ UNCHANGED <<lock, original, thumb, item, job, mishap>>

(* A file that is on no project is removed for good: looked up, then       *)
(* unlinked.                                                               *)
StartCleanUp(r, f) ==
    /\ job[r] = Idle
    /\ Fresh(f)
    /\ Goto(r, [step |-> "clean up", file |-> f])
    /\ UNCHANGED <<row, lock, original, thumb, item, mishap>>

CleanUp(r) ==
    LET f == job[r].file IN
    /\ job[r].step = "clean up"
    /\ original' = [original EXCEPT ![f] = IF @ = "live" THEN "gone" ELSE @]
    /\ thumb' = [thumb EXCEPT ![f] = @ \ {"live"}]
    /\ Goto(r, Idle)
    /\ UNCHANGED <<row, lock, item, mishap>>

----------------------------------------------------------------------------
(* Into the bin, and out of it *)

(* The rows as they are when the request begins, under a new item. *)
Snapshot(keys) ==
    [state |-> "held", rows |-> [x \in Keys |-> IF x \in keys THEN row[x] ELSE "none"]]

(* A project goes with its files into one item. *)
StartDeleteProject(r) ==
    LET keys == {x \in Keys : row[x] \in Held} IN
    /\ job[r] = Idle
    /\ Home \in keys
    /\ \E k \in Items, order \in OrdersOf(keys \ {Home}) :
         /\ item[k].state = "unborn"
         /\ item' = [item EXCEPT ![k] = Snapshot(keys)]
         /\ Goto(r, Running(DeleteScript(k, keys, order), "delete", {k}))
    /\ UNCHANGED <<row, lock, original, thumb, mishap>>

(* Single files go each into an item of its own. *)
StartDeleteFiles(r, files) ==
    /\ job[r] = Idle
    /\ \A f \in files : row[f] \in Held
    /\ \E id \in [files -> Items], order \in OrdersOf(files) :
         /\ IsInjective(id)
         /\ \A f \in files : item[id[f]].state = "unborn"
         /\ item' = [k \in Items |->
              IF k \in Range(id) THEN Snapshot({f \in files : id[f] = k}) ELSE item[k]]
         /\ Goto(r, Running(DeleteEach(id, order), "delete", Range(id)))
    /\ UNCHANGED <<row, lock, original, thumb, mishap>>

StartRestore(r, k) ==
    LET keys == {x \in Keys : item[k].rows[x] \in Held} IN
    /\ job[r] = Idle
    /\ item[k].state = "kept"
    /\ \E order \in OrdersOf(keys \ {Home}) :
         Goto(r, Running(RestoreScript(k, keys, order), "restore", {k}))
    /\ UNCHANGED <<row, lock, original, thumb, item, mishap>>

Next1(r) == Head(job[r].script)
OnStep(r, op) == job[r].step = "run" /\ job[r].script # <<>> /\ Next1(r).op = op
Advance(r) == Goto(r, [job[r] EXCEPT !.script = Tail(@)])

(* The rows a statement has to wait for: the project's waits for its       *)
(* files', which it takes along; a file's insert, for the project's.       *)
WaitsOn(r) ==
    LET x == Next1(r).key IN
    IF OnStep(r, "delete") THEN
         IF row[x] = "none" THEN {} ELSE IF x = Home THEN Keys ELSE {x}
    ELSE IF OnStep(r, "insert") THEN {x} \cup (IF row[Home] = "none" THEN {} ELSE {Home})
    ELSE {}

Blocked(r) == \E x \in WaitsOn(r) : lock[x] \notin {NoOne, r}

InCircle(r) ==
    \E s \in Requests \ {r} :
        /\ \E x \in WaitsOn(r) : lock[x] = s
        /\ \E x \in WaitsOn(s) : lock[x] = r

(* Deletes the row if it is still there: nobody looks whether it was. *)
DeleteRow(r) ==
    LET x == Next1(r).key
        taken == IF row[x] = "none" THEN {} ELSE WaitsOn(r)
    IN  /\ OnStep(r, "delete") /\ ~Blocked(r)
        /\ lock' = [y \in Keys |-> IF y \in taken /\ row[y] \in Held THEN r ELSE lock[y]]
        /\ Advance(r)
        /\ UNCHANGED <<row, original, thumb, item, mishap>>

(* Mutant: the project may be in the bin. *)
ConflictOfOwn(r) == row[Next1(r).key] \in Held

Conflict(r) ==
    LET x == Next1(r).key IN
    \/ row[x] \in Held
    \/ x # Home /\ row[Home] = "none" /\ lock[Home] # r

InsertRow(r) ==
    /\ OnStep(r, "insert") /\ ~Blocked(r) /\ ~Conflict(r)
    /\ lock' = [lock EXCEPT ![Next1(r).key] = r]
    /\ Advance(r)
    /\ UNCHANGED <<row, original, thumb, item, mishap>>

IsAt(m) == IF m.piece = "original" THEN original[m.key] = m.from ELSE m.from \in thumb[m.key]

Relocate(ms) ==
    LET of(f, piece) == {m \in ms : m.key = f /\ m.piece = piece /\ IsAt(m)}
    IN  /\ original' = [f \in Files |->
              IF of(f, "original") = {} THEN original[f]
              ELSE (CHOOSE m \in of(f, "original") : TRUE).to]
        /\ thumb' = [f \in Files |->
              (thumb[f] \ {m.from : m \in of(f, "thumbnail")})
                \cup {m.to : m \in of(f, "thumbnail")}]

(* What exists is moved.  A file's moves are on the list to put back once  *)
(* both of them are made.                                                  *)
MovePiece(r) ==
    LET m == Next1(r)
        moving == IF IsAt(m) THEN Append(job[r].moving, m) ELSE job[r].moving
    IN  /\ OnStep(r, "move")
        /\ Relocate({m})
        /\ Goto(r, IF m.piece = "original"
                   THEN [job[r] EXCEPT !.script = Tail(@), !.moving = moving]
                   ELSE [job[r] EXCEPT !.script = Tail(@), !.moving = <<>>,
                                       !.moved = @ \o moving])
        /\ UNCHANGED <<row, lock, item, mishap>>

Release(r) == lock' = [x \in Keys |-> IF lock[x] = r THEN NoOne ELSE lock[x]]

Commit(r) ==
    LET mine == job[r].items
        back(x) == {k \in mine : item[k].rows[x] \in Held}
    IN  /\ job[r].step = "run" /\ job[r].script = <<>>
        /\ Release(r)
        /\ IF job[r].kind = "delete"
           THEN /\ row' = [x \in Keys |-> IF lock[x] = r THEN "none" ELSE row[x]]
                /\ item' = [k \in Items |->
                     IF k \in mine THEN [item[k] EXCEPT !.state = "kept"] ELSE item[k]]
                /\ Goto(r, Idle)
           ELSE /\ row' = [x \in Keys |->
                     IF back(x) # {} THEN item[CHOOSE k \in back(x) : TRUE].rows[x] ELSE row[x]]
                /\ item' = [k \in Items |->
                     IF k \in mine THEN [item[k] EXCEPT !.state = "gone"] ELSE item[k]]
                /\ Goto(r, [step |-> "remove", items |-> mine])
        /\ UNCHANGED <<original, thumb, mishap>>

Forgotten(items) ==
    [k \in Items |-> IF k \in items /\ item[k].state = "held"
                     THEN [item[k] EXCEPT !.state = "gone"] ELSE item[k]]

(* Mutant: the session is not rolled back, and keeps its locks. *)
AbortKeepsLocks(r) ==
    /\ job[r].step = "run"
    /\ \/ MayFail /\ (OnStep(r, "move") => IsAt(Next1(r))) /\ mishap' = TRUE
       \/ OnStep(r, "insert") /\ ~Blocked(r) /\ Conflict(r) /\ UNCHANGED mishap
       \/ InCircle(r) /\ mishap' = TRUE
    /\ item' = Forgotten(job[r].items)
    /\ Goto(r, Idle)
    /\ UNCHANGED <<row, lock, original, thumb>>

(* A failure: the transaction is rolled back, then what is on the list is  *)
(* put back.                                                               *)
Abort(r) ==
    /\ job[r].step = "run"
    /\ \/ MayFail /\ (OnStep(r, "move") => IsAt(Next1(r))) /\ mishap' = TRUE
       \/ OnStep(r, "insert") /\ ~Blocked(r) /\ Conflict(r) /\ UNCHANGED mishap
       \/ InCircle(r) /\ mishap' = TRUE
    /\ Release(r)
    /\ item' = Forgotten(job[r].items)
    /\ Goto(r, IF job[r].moved = <<>> THEN Idle
               ELSE [step |-> "put back", moved |-> job[r].moved])
    /\ UNCHANGED <<row, original, thumb>>

Reversal(m) == [m EXCEPT !.from = m.to, !.to = m.from]

PutBack(r) ==
    /\ job[r].step = "put back"
    /\ Relocate({Reversal(m) : m \in Range(job[r].moved)})
    /\ Goto(r, Idle)
    /\ UNCHANGED <<row, lock, item, mishap>>

----------------------------------------------------------------------------
(* Erasing: the bin item first, then its directory *)

StartErase(r, k) ==
    /\ job[r] = Idle
    /\ item[k].state = "kept"
    /\ Goto(r, [step |-> "erase", items |-> {k}])
    /\ UNCHANGED <<row, lock, original, thumb, item, mishap>>

Erase(r) ==
    /\ job[r].step = "erase"
    /\ item' = [k \in Items |->
         IF k \in job[r].items THEN [item[k] EXCEPT !.state = "gone"] ELSE item[k]]
    /\ Goto(r, [step |-> "remove", items |-> job[r].items])
    /\ UNCHANGED <<row, lock, original, thumb, mishap>>

(* Mutant: only the files directly in the directory go. *)
RemoveDirectoryTop(r) ==
    /\ job[r].step = "remove"
    /\ original' = [f \in Files |->
         IF original[f] \in job[r].items THEN "gone" ELSE original[f]]
    /\ Goto(r, Idle)
    /\ UNCHANGED <<row, lock, thumb, item, mishap>>

(* rmtree: whatever is left in the directory goes, after a restore too. *)
RemoveDirectory(r) ==
    /\ job[r].step = "remove"
    /\ original' = [f \in Files |->
         IF original[f] \in job[r].items THEN "gone" ELSE original[f]]
    /\ thumb' = [f \in Files |-> thumb[f] \ job[r].items]
    /\ Goto(r, Idle)
    /\ UNCHANGED <<row, lock, item, mishap>>

----------------------------------------------------------------------------
(* The retention job *)

(* The files that are old enough, on a finished project. *)
StartRetention(r, due) ==
    /\ job[r] = Idle
    /\ due # {} /\ \A f \in due : row[f] = "kept"
    /\ Goto(r, [step |-> "retain", left |-> due, marked |-> {}])
    /\ UNCHANGED <<row, lock, original, thumb, item, mishap>>

(* Mutant: a file without a thumbnail goes the same way. *)
ConsiderUnchecked(r) ==
    /\ job[r].step = "retain"
    /\ \E f \in job[r].left :
         LET here == original[f] = "live"
         IN  /\ thumb' = [thumb EXCEPT ![f] = IF here /\ f \in Images THEN @ \cup {"live"} ELSE @]
             /\ Goto(r, [step |-> "unlink", left |-> job[r].left \ {f},
                         marked |-> job[r].marked, file |-> f, here |-> here])
    /\ UNCHANGED <<row, lock, original, item, mishap>>

(* A thumbnail is made if it can be; without one the file is left alone. *)
Consider(r) ==
    /\ job[r].step = "retain"
    /\ \E f \in job[r].left :
         LET here == original[f] = "live"
             ready == "live" \in thumb[f] \/ (here /\ f \in Images)
         IN  /\ thumb' = [thumb EXCEPT ![f] = IF ready THEN @ \cup {"live"} ELSE @]
             /\ Goto(r, IF ready
                        THEN [step |-> "unlink", left |-> job[r].left \ {f},
                              marked |-> job[r].marked, file |-> f, here |-> here]
                        ELSE [job[r] EXCEPT !.left = @ \ {f}])
    /\ UNCHANGED <<row, lock, original, item, mishap>>

(* An original that was there and is not any more is not marked. *)
Unlink(r) ==
    LET f == job[r].file
        lost == job[r].here /\ original[f] # "live"
    IN  /\ job[r].step = "unlink"
        /\ original' = [original EXCEPT ![f] = IF @ = "live" /\ job[r].here THEN "gone" ELSE @]
        /\ Goto(r, [step |-> "retain", left |-> job[r].left,
                    marked |-> job[r].marked \cup (IF lost THEN {} ELSE {f})])
        /\ UNCHANGED <<row, lock, thumb, item, mishap>>

(* One commit for all of them: a marked row that is gone fails it. *)
CommitMarks(r) ==
    LET marked == job[r].marked
        stale == \E f \in marked : row[f] = "none"
    IN  /\ job[r].step = "retain" /\ job[r].left = {}
        /\ \A f \in marked : row[f] \in Held => lock[f] = NoOne
        /\ row' = [x \in Keys |-> IF x \in marked /\ ~stale THEN "purged" ELSE row[x]]
        /\ mishap' = (mishap \/ stale)
        /\ Goto(r, Idle)
        /\ UNCHANGED <<lock, original, thumb, item>>

----------------------------------------------------------------------------
Crash ==
    /\ MayCrash
    /\ \E r \in Requests : job[r] # Idle
    /\ job' = [r \in Requests |-> Idle]
    /\ lock' = [x \in Keys |-> NoOne]
    /\ item' = Forgotten(Items)
    /\ mishap' = TRUE
    /\ UNCHANGED <<row, original, thumb>>

Begin(r) ==
    \/ "delete" \in Jobs /\ StartDeleteProject(r)
    \/ \E s \in SUBSET Files \ {{}} : "delete" \in Jobs /\ StartDeleteFiles(r, s)
    \/ \E k \in Items : "restore" \in Jobs /\ StartRestore(r, k)
    \/ \E k \in Items : "erase" \in Jobs /\ StartErase(r, k)
    \/ \E due \in SUBSET Files : "retain" \in Jobs /\ StartRetention(r, due)
    \/ \E f \in Files : Attach(r, f)
    \/ \E f \in Files : "clean up" \in Jobs /\ StartCleanUp(r, f)

Proceed(r) ==
    \/ DeleteRow(r) \/ InsertRow(r) \/ MovePiece(r) \/ Commit(r) \/ Abort(r) \/ PutBack(r)
    \/ Erase(r) \/ RemoveDirectory(r)
    \/ Consider(r) \/ Unlink(r) \/ CommitMarks(r)
    \/ CleanUp(r)

Next ==
    \/ \E f \in Files : Upload(f) \/ MakeThumbnail(f)
    \/ \E r \in Requests : Begin(r) \/ Proceed(r)
    \/ Crash

Spec == Init /\ [][Next]_vars /\ \A r \in Requests : WF_vars(Proceed(r))

----------------------------------------------------------------------------
(* Properties *)

(* Rows, locks, bytes and items keep their shape: a thumbnail only of an   *)
(* image, and no listed file without its project (the foreign key).        *)
FilesTypeOK ==
    /\ row \in [Keys -> {"none", "kept", "purged"}] /\ row[Home] # "purged"
    /\ lock \in [Keys -> Requests \cup {NoOne}]
    /\ original \in [Files -> {"unborn", "gone", "live"} \cup Items]
    /\ thumb \in [Files -> SUBSET ({"live"} \cup Items)]
    /\ \A f \in Files : thumb[f] # {} => f \in Images
    /\ \A k \in Items : item[k].state \in {"unborn", "held", "kept", "gone"}
    /\ \A f \in Files : row[f] \in Held => row[Home] = "kept"
    /\ mishap \in BOOLEAN

Quiet == \A r \in Requests : job[r] = Idle

(* Between requests, while nothing has failed: a file that is listed can   *)
(* be downloaded, one whose original was removed can still be seen, and a  *)
(* bin item holds in its directory what its snapshot promises to restore,  *)
(* through any sequence of binning single files and whole projects,        *)
(* restoring them in any order, erasing and retention runs.                *)
ListedIsThere ==
    \A f \in Files :
        /\ row[f] = "kept" => original[f] = "live"
        /\ row[f] = "purged" => "live" \in thumb[f]
ItemHoldsItsFiles ==
    \A k \in Items, f \in Files :
        item[k].state = "kept" =>
            /\ item[k].rows[f] = "kept" => original[f] = k
            /\ item[k].rows[f] = "purged" => k \in thumb[f]
FilesAreThere == Quiet /\ ~mishap => ListedIsThere /\ ItemHoldsItsFiles

(* What was erased is off the disk, and no directory is without its item.  *)
NothingLeftBehind ==
    Quiet /\ ~mishap =>
        \A k \in Items, f \in Files :
            original[f] = k \/ k \in thumb[f] => item[k].state = "kept"

(* Whatever fails and whenever the server stops, a file somebody can still *)
(* see, in a project or in the bin, has its bytes or a thumbnail left.     *)
Claimed(f) == row[f] \in Held \/ \E k \in Items : item[k].state = "kept" /\ item[k].rows[f] \in Held
ClaimedIsOnDisk ==
    \A f \in Files : Claimed(f) => original[f] \in {"live"} \cup Items \/ thumb[f] # {}

(* Requests and the job never wait for one another forever.                *)
EveryRequestEnds == \A r \in Requests : (job[r] # Idle) ~> (job[r] = Idle)

=============================================================================
