------------------------------- MODULE Backups -------------------------------
(***************************************************************************)
(* Backups of the database: the script that dumps it and then deletes old  *)
(* dumps, run every night by cron and on demand by an admin.  The server   *)
(* runs one at a time; cron knows nothing of it.  The script stops at the  *)
(* first command that fails.                                               *)
(***************************************************************************)
EXTENDS Naturals

CONSTANTS
    Dumps,      \* the dump files there may be
    Scripts,    \* the runs of the script there may be at once
    KeepDays    \* BACKUP_KEEP_DAYS, in ticks of some days

ASSUME BackupsAssumption == KeepDays \in Nat \ {0}

VARIABLES
    dump,       \* what each file is: not there, part of a dump or a whole one
    age,        \* and how old
    script,     \* how far each run is, who began it and what it writes
    running,    \* the lock of the server
    hadOne      \* history: a whole dump has been made

backupVars == <<dump, age, script, running, hadOne>>

----------------------------------------------------------------------------
NotRun == [step |-> "idle"]

MayBegin(by) == by = "cron" \/ ~running

(* A second run on demand is refused.  The dump gets its name at once.     *)
BeginBackup(r, by, d) ==
    /\ script[r] = NotRun /\ dump[d] = "none"
    /\ MayBegin(by)
    /\ running' = (running \/ by = "admin")
    /\ dump' = [dump EXCEPT ![d] = "part"]
    /\ age' = [age EXCEPT ![d] = 0]
    /\ script' = [script EXCEPT ![r] = [step |-> "dumping", by |-> by, dump |-> d]]
    /\ UNCHANGED hadOne

DumpIsWhole(r) ==
    /\ script[r].step = "dumping"
    /\ dump' = [dump EXCEPT ![script[r].dump] = "whole"]
    /\ hadOne' = TRUE
    /\ script' = [script EXCEPT ![r].step = "deleting"]
    /\ UNCHANGED <<age, running>>

Released(r) == IF script[r].by = "admin" THEN FALSE ELSE running

(* pg_dump fails and what it has written stays; the server answers 500.    *)
(* Mutant: the script goes on. *)
DumpFailsOn(r) ==
    /\ script[r].step = "dumping"
    /\ script' = [script EXCEPT ![r].step = "deleting"]
    /\ UNCHANGED <<dump, age, running, hadOne>>
DumpFails(r) ==
    /\ script[r].step = "dumping"
    /\ script' = [script EXCEPT ![r] = NotRun]
    /\ running' = Released(r)
    /\ UNCHANGED <<dump, age, hadOne>>

(* After five minutes the server stops waiting: the script is killed, the  *)
(* pg_dump it has begun goes on, and the lock is given back.               *)
TimeOut(r) ==
    /\ script[r].step = "dumping" /\ script[r].by = "admin"
    /\ script' = [script EXCEPT ![r] = [step |-> "left alone", dump |-> @.dump]]
    /\ running' = FALSE
    /\ UNCHANGED <<dump, age, hadOne>>

LeftAloneEnds(r, whole) ==
    /\ script[r].step = "left alone"
    /\ script' = [script EXCEPT ![r] = NotRun]
    /\ dump' = [dump EXCEPT ![script[r].dump] = IF whole THEN "whole" ELSE "part"]
    /\ hadOne' = (hadOne \/ whole)
    /\ UNCHANGED <<age, running>>

(* Whole or not, what is old enough goes. *)
DeleteOld(r) ==
    LET old == {d \in Dumps : dump[d] # "none" /\ age[d] > KeepDays} IN
    /\ script[r].step = "deleting"
    /\ dump' = [d \in Dumps |-> IF d \in old THEN "none" ELSE dump[d]]
    /\ running' = Released(r)
    /\ script' = [script EXCEPT ![r] = NotRun]
    /\ UNCHANGED <<age, hadOne>>

(* Days pass, not while a script is about to delete; what is being written *)
(* stays new.                                                              *)
BeingWritten(d) == \E r \in Scripts : script[r] # NotRun /\ script[r].dump = d

DaysPass ==
    /\ \A r \in Scripts : script[r].step # "deleting"
    /\ age' = [d \in Dumps |->
           IF dump[d] = "none" \/ BeingWritten(d) \/ age[d] > KeepDays
           THEN age[d] ELSE age[d] + 1]
    /\ UNCHANGED <<dump, script, running, hadOne>>

(* The server stops; a script it has begun goes on without it.             *)
RestartBackups ==
    /\ running' = FALSE
    /\ script' = [r \in Scripts |->
           IF script[r].step \in {"dumping", "deleting"}
           THEN [script[r] EXCEPT !.by = "cron"] ELSE script[r]]
    /\ UNCHANGED <<dump, age, hadOne>>

BackupsInit ==
    /\ dump = [d \in Dumps |-> "none"]
    /\ age = [d \in Dumps |-> 0]
    /\ script = [r \in Scripts |-> NotRun]
    /\ running = FALSE /\ hadOne = FALSE

BackupsNext ==
    \/ DaysPass \/ RestartBackups
    \/ \E r \in Scripts :
        \/ \E by \in {"cron", "admin"}, d \in Dumps : BeginBackup(r, by, d)
        \/ DumpIsWhole(r) \/ DumpFails(r) \/ TimeOut(r) \/ DeleteOld(r)
        \/ \E whole \in BOOLEAN : LeftAloneEnds(r, whole)

----------------------------------------------------------------------------
(* Once there has been a whole dump there is one for good: old ones go     *)
(* only after a new one is there, through failures, timeouts, scripts that *)
(* outlive the server and two at once.                                     *)
NeverWithoutABackup == hadOne => \E d \in Dumps : dump[d] = "whole"

=============================================================================
