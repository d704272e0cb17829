------------------------------ MODULE ReadCache ------------------------------
(***************************************************************************)
(* The cache of the dashboard's answers: one entry, kept for a while and   *)
(* cleared by every state-changing request that succeeds.  A read that     *)
(* misses computes with the lock released; the generation it took down     *)
(* before tells it whether a clear has come in between.                    *)
(*                                                                         *)
(* What is read is a version: the number of commits it has seen.           *)
(***************************************************************************)
EXTENDS Naturals, Sequences, FiniteSetsExt

CONSTANTS
    Readers,    \* the GET requests there may be at once
    Writers,    \* the requests that commit (bound: each writes once)
    CacheTTL    \* CACHE_TTL_SECONDS, in ticks

ASSUME ReadCacheAssumption == CacheTTL \in Nat \ {0}

VARIABLES
    committed,   \* ticks since each commit, up to one more than the TTL
    answered,    \* history: the version of the last write that was answered
    writer,      \* how far each write is
    entry,       \* what is cached: a version and the ticks since its read began
    generation,  \* of the cache
    reader       \* how far each read is

cacheVars == <<committed, answered, writer, entry, generation, reader>>

----------------------------------------------------------------------------
Nothing == [version |-> 0, age |-> CacheTTL]     \* nothing that is valid
Asleep == [step |-> "asleep"]
Done == [step |-> "done"]

version == Len(committed)                        \* commits so far

Older(age) == IF age > CacheTTL THEN age ELSE age + 1

(* What a read that begins now must have seen: what the user was told is   *)
(* done, and whatever else was committed longer ago than entries live.     *)
Expected == {answered} \cup {v \in 1..version : committed[v] > CacheTTL}

----------------------------------------------------------------------------
(* A request commits; a job does too, and is never answered.               *)
CommitChange(w) ==
    /\ writer[w].step = "waiting"
    /\ committed' = Append(committed, 0)
    /\ writer' = [writer EXCEPT ![w] = [step |-> "committed", version |-> version + 1]]
    /\ UNCHANGED <<answered, entry, generation, reader>>

(* The first message of a response with a status below 400 clears the      *)
(* cache, then it is sent.                                                 *)
Answer(w) ==
    /\ writer[w].step = "committed"
    /\ generation' = generation + 1
    /\ entry' = Nothing
    /\ answered' = Max({answered, writer[w].version})
    /\ writer' = [writer EXCEPT ![w] = Done]
    /\ UNCHANGED <<committed, reader>>

(* A later step of the request fails, though something is committed.       *)
AnswerError(w) ==
    /\ writer[w].step = "committed"
    /\ writer' = [writer EXCEPT ![w] = Done]
    /\ UNCHANGED <<committed, answered, entry, generation, reader>>

(* A hit is served; a miss takes down the generation. *)
LookUp(r) ==
    /\ reader[r] = Asleep
    /\ reader' = [reader EXCEPT ![r] =
           IF entry.age < CacheTTL
           THEN [step |-> "served", version |-> entry.version, expected |-> Expected]
           ELSE [step |-> "missed", generation |-> generation, age |-> 0,
                 expected |-> Expected]]
    /\ UNCHANGED <<committed, answered, writer, entry, generation>>

Compute(r) ==
    /\ reader[r].step = "missed"
    /\ reader' = [reader EXCEPT ![r] =
           [step |-> "computed", generation |-> @.generation, age |-> @.age,
            expected |-> @.expected, version |-> version]]
    /\ UNCHANGED <<committed, answered, writer, entry, generation>>

(* Mutant: what was computed is stored, come what may. *)
MayStoreAlways(read) == TRUE
MayStore(read) == read.generation = generation

Store(r) ==
    /\ reader[r].step = "computed"
    /\ entry' = IF MayStore(reader[r])
                THEN [version |-> reader[r].version, age |-> reader[r].age] ELSE entry
    /\ reader' = [reader EXCEPT ![r] =
           [step |-> "served", version |-> @.version, expected |-> @.expected]]
    /\ UNCHANGED <<committed, answered, writer, generation>>

Sleep(r) ==
    /\ reader[r].step = "served"
    /\ reader' = [reader EXCEPT ![r] = Asleep]
    /\ UNCHANGED <<committed, answered, writer, entry, generation>>

(* Time passes for the commits, the entry and the reads under way. *)
TickCache ==
    /\ committed' = [v \in 1..version |-> Older(committed[v])]
    /\ entry' = [entry EXCEPT !.age = Older(@)]
    /\ reader' = [r \in Readers |->
           IF reader[r].step \in {"missed", "computed"}
           THEN [reader[r] EXCEPT !.age = Older(@)] ELSE reader[r]]
    /\ UNCHANGED <<answered, writer, generation>>

(* A restart forgets the cache. *)
RestartCache ==
    /\ entry' = Nothing /\ generation' = 0
    /\ reader' = [r \in Readers |-> Asleep]
    /\ writer' = [w \in Writers |-> IF writer[w].step = "committed" THEN Done ELSE writer[w]]
    /\ UNCHANGED <<committed, answered>>

CacheInit ==
    /\ committed = <<>> /\ answered = 0
    /\ writer = [w \in Writers |-> [step |-> "waiting"]]
    /\ entry = Nothing /\ generation = 0
    /\ reader = [r \in Readers |-> Asleep]

CacheNext ==
    \/ TickCache \/ RestartCache
    \/ \E w \in Writers : CommitChange(w) \/ Answer(w) \/ AnswerError(w)
    \/ \E r \in Readers : LookUp(r) \/ Compute(r) \/ Store(r) \/ Sleep(r)

----------------------------------------------------------------------------
(* Nobody sees a number older than a write they were told is done, and     *)
(* what a job or a failed request committed shows within the TTL.          *)
NoStaleReads ==
    \A r \in Readers :
        reader[r].step = "served" =>
            \A v \in reader[r].expected : reader[r].version >= v

=============================================================================
