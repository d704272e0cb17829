----------------------------- MODULE ActivityLog -----------------------------
(***************************************************************************)
(* The activity log, hooked into the database session: what a flush        *)
(* changes is noted down, and written in the transaction that commits it.  *)
(* Read here for one row of a tracked type with one field, and several     *)
(* sessions that read and change it; the log is that row's.                *)
(*                                                                         *)
(* A session does not lock what it reads.  A commit or a rollback makes it *)
(* forget the values it holds; the next change of one of them finds what   *)
(* it replaces with a query of its own.                                    *)
(***************************************************************************)
EXTENDS SequencesExt

CONSTANTS
    Sessions,    \* the sessions there may be at once
    Settings,    \* the values of the field
    MaxEntries,  \* bound: entries of the row
    Unset        \* no value: no row, nothing read, nothing written

ASSUME ActivityLogAssumption == Unset \notin Settings

VARIABLES
    row,        \* the field as committed, Unset when there is no row
    rowLock,    \* the session whose transaction has written the row
    created,    \* the row has been inserted by somebody: ids are used once
    log,        \* its entries
    session     \* what each session holds

logVars == <<row, rowLock, created, log, session>>

----------------------------------------------------------------------------
(* obj: the row is in the identity map; seen: its field, if it is known;   *)
(* set: changed and not flushed; noted: the hook has run, the UPDATE not;  *)
(* wrote: in this transaction; entry: audit_pending.                       *)
NoEntry == [verb |-> "none", from |-> Unset, to |-> Unset]
Closed == [obj |-> FALSE, seen |-> Unset, set |-> Unset, noted |-> FALSE,
           wrote |-> FALSE, value |-> Unset, entry |-> NoEntry]

(* What a query of the session finds: its own write, or what is committed. *)
Stored(s) == IF session[s].wrote THEN session[s].value ELSE row

Hold(s, record) == session' = [session EXCEPT ![s] = record]

(* A commit or a rollback ends the transaction and expires the object.     *)
Expired(s, kept) == [Closed EXCEPT !.obj = kept]

(* Mutant: what was noted stays noted. *)
DroppedNothing(s, kept) == [Closed EXCEPT !.obj = kept, !.entry = session[s].entry]
Dropped(s, kept) == Expired(s, kept)

----------------------------------------------------------------------------
(* The request reads the row, or reads it again after a commit. *)
Load(s) ==
    /\ session[s].seen = Unset /\ session[s].set = Unset
    /\ Stored(s) # Unset
    /\ Hold(s, [session[s] EXCEPT !.obj = TRUE, !.seen = Stored(s)])
    /\ UNCHANGED <<row, rowLock, created, log>>

(* An assignment does not read what it replaces. *)
Assign(s, v) ==
    /\ session[s].obj /\ ~session[s].noted
    /\ v # session[s].set
    /\ Hold(s, [session[s] EXCEPT !.set = IF v = session[s].seen THEN Unset ELSE v])
    /\ UNCHANGED <<row, rowLock, created, log>>

(* The first "from" and the last "to", across several flushes.             *)
Noted(entry, from, to) ==
    IF entry.verb = "none" THEN [verb |-> "update", from |-> from, to |-> to]
    ELSE [entry EXCEPT !.to = to]

(* The flush begins: what the session knows was there is replaced, or what *)
(* a query finds.                                                          *)
NoteUpdate(s) ==
    LET held == session[s]
        from == IF held.seen # Unset THEN held.seen ELSE Stored(s)
    IN  /\ held.set # Unset /\ ~held.noted
        /\ Hold(s, [held EXCEPT !.noted = TRUE,
                                !.entry = Noted(held.entry, from, held.set)])
        /\ UNCHANGED <<row, rowLock, created, log>>

MayWrite(s) == rowLock \in {Unset, s}

(* The UPDATE waits for the row.  On a row that is gone it raises, and the *)
(* request rolls back.                                                     *)
FlushUpdate(s) ==
    LET held == session[s] IN
    /\ held.noted /\ MayWrite(s)
    /\ IF Stored(s) # Unset
       THEN /\ Hold(s, [held EXCEPT !.noted = FALSE, !.seen = held.set, !.set = Unset,
                                    !.wrote = TRUE, !.value = held.set])
            /\ rowLock' = s
       ELSE /\ Hold(s, Dropped(s, FALSE))
            /\ rowLock' = IF rowLock = s THEN Unset ELSE rowLock
    /\ UNCHANGED <<row, created, log>>

(* What the log shows of a new row is read when it commits.                *)
FlushInsert(s, v) ==
    /\ ~created /\ created' = TRUE
    /\ Hold(s, [Closed EXCEPT !.obj = TRUE, !.seen = v, !.wrote = TRUE, !.value = v,
                    !.entry = [verb |-> "create", from |-> Unset, to |-> v]])
    /\ rowLock' = s
    /\ UNCHANGED <<row, log>>

(* A DELETE that finds no row only warns. *)
FlushDelete(s) ==
    /\ session[s].obj /\ session[s].set = Unset
    /\ MayWrite(s) /\ rowLock' = s
    /\ Hold(s, [Closed EXCEPT !.wrote = TRUE,
                    !.entry = [verb |-> "delete", from |-> Unset, to |-> Unset]])
    /\ UNCHANGED <<row, created, log>>

----------------------------------------------------------------------------
(* _row: a change back to what was there is no entry. *)
EntriesOf(entry) ==
    IF entry.verb = "none" \/ (entry.verb = "update" /\ entry.from = entry.to)
    THEN <<>> ELSE <<entry>>

(* The hook flushes first, then inserts the entries. *)
CommitEntries(s) ==
    /\ session[s].set = Unset
    /\ Len(log) < MaxEntries
    /\ session[s].wrote \/ session[s].entry # NoEntry
    /\ row' = Stored(s)
    /\ log' = log \o EntriesOf(session[s].entry)
    /\ rowLock' = IF rowLock = s THEN Unset ELSE rowLock
    /\ Hold(s, Expired(s, Stored(s) # Unset))
    /\ UNCHANGED created

(* An error anywhere before: the changes go, and what was noted of them.   *)
Rollback(s) ==
    /\ session[s] # Closed
    /\ Hold(s, Dropped(s, row # Unset))
    /\ rowLock' = IF rowLock = s THEN Unset ELSE rowLock
    /\ UNCHANGED <<row, created, log>>

(* The request ends, and its session with it. *)
Close(s) ==
    /\ session[s] = Expired(s, TRUE)
    /\ Hold(s, Closed)
    /\ UNCHANGED <<row, rowLock, created, log>>

LogInit ==
    /\ row = Unset /\ rowLock = Unset /\ created = FALSE
    /\ log = <<>>
    /\ session = [s \in Sessions |-> Closed]

LogNext ==
    \E s \in Sessions :
        \/ Load(s) \/ NoteUpdate(s) \/ FlushUpdate(s) \/ FlushDelete(s)
        \/ CommitEntries(s) \/ Rollback(s) \/ Close(s)
        \/ \E v \in Settings : Assign(s, v) \/ FlushInsert(s, v)

----------------------------------------------------------------------------
(* Written though it goes back to what the transaction found.              *)
PutBack(s) == session[s].entry.verb = "update" /\ session[s].entry.from = row'

(* The log is of what happened: an entry ends at what the row has become,  *)
(* so nothing that was rolled back is told; and the row changes with an    *)
(* entry, unless it goes back to what the transaction found it as.         *)
LogTellsTheStory ==
    [][ /\ log' # log => Last(log').to = row'
        /\ row' # row => \/ log' # log
                         \/ \E s \in Sessions : PutBack(s) ]_logVars

=============================================================================
