---------------------------- MODULE HealthMonitor ----------------------------
(***************************************************************************)
(* What the System Health screen reads: requests counted per minute in a   *)
(* window that moves, requests in flight, and the sizes of the folders,    *)
(* which two jobs of the scheduler refresh and requests only read.         *)
(***************************************************************************)
EXTENDS Integers, FiniteSets, Functions

CONSTANTS
    Clients,       \* the requests there may be at once
    MinutesKept,   \* WINDOW_MINUTES
    LastMinute,    \* bound: minutes that pass
    MaxCounted,    \* bound: requests that are counted
    ScanJobs       \* the jobs that walk the folders

ASSUME HealthMonitorAssumption ==
    /\ MinutesKept \in Nat \ {0} /\ LastMinute \in Nat /\ MaxCounted \in Nat

VARIABLES
    minute,        \* the clock
    minutes,       \* _minutes: requests per minute that is kept, a function
    inFlight,      \* in_flight
    served,        \* how far each request is, and its minute once it has one
    ended,         \* history: requests that ended in each minute
    refreshing,    \* the flag of the scan
    storage,       \* the last report: none, or the number of the scan
    scan           \* how far each job is

healthVars == <<minute, minutes, inFlight, served, ended, refreshing, storage, scan>>

----------------------------------------------------------------------------
Kept == DOMAIN minutes
Away == [step |-> "away", minute |-> 0]
SumOver(S, counts) == SumFunctionOnSet(counts, S)

BeginRequest(c) ==
    /\ served[c] = Away
    /\ served' = [served EXCEPT ![c].step = "running"]
    /\ inFlight' = inFlight + 1
    /\ UNCHANGED <<minute, minutes, ended, refreshing, storage, scan>>

(* end() takes the minute before it asks for the lock. *)
StampRequest(c) ==
    /\ served[c].step = "running"
    /\ served' = [served EXCEPT ![c] = [step |-> "stamped", minute |-> minute]]
    /\ UNCHANGED <<minute, minutes, inFlight, ended, refreshing, storage, scan>>

(* Mutant: a minute too much goes. *)
TooOldBy1(m, now) == m <= now - MinutesKept + 1
TooOld(m, now) == m < now - MinutesKept

(* Transfers, polls of the screen and preflights are not counted.          *)
RecordRequest(c, counted) ==
    LET now == served[c].minute
        more == IF now \in Kept THEN minutes[now] + 1 ELSE 1
    IN  /\ served[c].step = "stamped"
        /\ served' = [served EXCEPT ![c] = Away]
        /\ inFlight' = IF inFlight > 0 THEN inFlight - 1 ELSE 0
        /\ IF counted
           THEN /\ SumOver(0..LastMinute, ended) < MaxCounted
                /\ minutes' = [m \in {k \in Kept \cup {now} : ~TooOld(k, now)} |->
                                  IF m = now THEN more ELSE minutes[m]]
                /\ ended' = [ended EXCEPT ![now] = @ + 1]
           ELSE UNCHANGED <<minutes, ended>>
        /\ UNCHANGED <<minute, refreshing, storage, scan>>

(* summary(minutes).requests *)
Summary(window) == SumOver({m \in Kept : m > minute - window}, minutes)

----------------------------------------------------------------------------
(* refresh_storage.  Who finds the flag up leaves with the last report.    *)
MayScan == ~refreshing

BeginScan(j) ==
    /\ scan[j] = "idle"
    /\ MayScan
    /\ refreshing' = TRUE
    /\ scan' = [scan EXCEPT ![j] = "walking"]
    /\ UNCHANGED <<minute, minutes, inFlight, served, ended, storage>>

(* A report, complete or cut off by its time budget, or an exception.      *)
Publish(j) ==
    /\ scan[j] = "walking"
    /\ storage' = "there"
    /\ scan' = [scan EXCEPT ![j] = "leaving"]
    /\ UNCHANGED <<minute, minutes, inFlight, served, ended, refreshing>>

ScanFails(j) ==
    /\ scan[j] = "walking"
    /\ scan' = [scan EXCEPT ![j] = "leaving"]
    /\ UNCHANGED <<minute, minutes, inFlight, served, ended, refreshing, storage>>

LowerFlag(j) ==
    /\ scan[j] = "leaving"
    /\ refreshing' = FALSE
    /\ scan' = [scan EXCEPT ![j] = "idle"]
    /\ UNCHANGED <<minute, minutes, inFlight, served, ended, storage>>

----------------------------------------------------------------------------
MinutePasses ==
    /\ minute < LastMinute
    /\ minute' = minute + 1
    /\ UNCHANGED <<minutes, inFlight, served, ended, refreshing, storage, scan>>

HealthInit ==
    /\ minute = 0 /\ inFlight = 0
    /\ minutes = [m \in {} |-> 0]
    /\ served = [c \in Clients |-> Away]
    /\ ended = [m \in 0..LastMinute |-> 0]
    /\ refreshing = FALSE /\ storage = "none"
    /\ scan = [j \in ScanJobs |-> "idle"]

ScanStep(j) == Publish(j) \/ ScanFails(j) \/ LowerFlag(j)

HealthNext ==
    \/ MinutePasses
    \/ \E c \in Clients :
        \/ BeginRequest(c) \/ StampRequest(c)
        \/ \E counted \in BOOLEAN : RecordRequest(c, counted)
    \/ \E j \in ScanJobs : BeginScan(j) \/ ScanStep(j)

----------------------------------------------------------------------------
(* The screen counts every request that ended in the window it shows, also *)
(* those recorded late, and only those; in flight are those that have not  *)
(* been recorded; and the folders are walked by one job at a time.         *)
HealthIsTrue ==
    /\ \A window \in 1..MinutesKept :
           Summary(window) = SumOver({m \in 0..LastMinute : m > minute - window}, ended)
    /\ inFlight = Cardinality({c \in Clients : served[c] # Away})
    /\ refreshing <=> \E j \in ScanJobs : scan[j] # "idle"
    /\ Cardinality({j \in ScanJobs : scan[j] # "idle"}) <= 1

(* The flag comes down again, so there will be new reports. *)
ScansEnd == []<>~refreshing

=============================================================================
