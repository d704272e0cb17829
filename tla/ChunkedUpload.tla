---------------------------- MODULE ChunkedUpload ----------------------------
(***************************************************************************)
(* Files sent in chunks.  A session in memory knows which chunks have      *)
(* arrived, a part file holds them; completing verifies the part and       *)
(* renames it.  Two locks: one per session for its part, one for the       *)
(* dictionary of sessions.  The clean-up of stale sessions, at the start   *)
(* of every upload, holds the second and not the first.                    *)
(*                                                                         *)
(* A call is a thread of the pool; between its steps others run.           *)
(***************************************************************************)
EXTENDS Naturals

CONSTANTS
    Uploads,      \* upload ids, each drawn once
    TotalChunks,  \* the chunks of a file
    Uploaders,    \* the calls there may be at once
    Nobody        \* holds a lock that is free

ASSUME ChunkedUploadAssumption ==
    TotalChunks \in Nat \ {0} /\ Nobody \notin Uploaders

VARIABLES
    started,      \* ids that have been drawn
    sessions,     \* the keys of _sessions
    received,     \* the chunks each session counts
    stored,       \* the sessions that have a stored_name
    stale,        \* no activity for SESSION_TTL_SECONDS
    part,         \* the part files
    file,         \* the stored files
    sessionLock,  \* who holds the lock of each session
    dictLock,     \* who holds _sessions_lock
    call          \* where each call is

uploadVars == <<started, sessions, received, stored, stale, part, file,
                sessionLock, dictLock, call>>

----------------------------------------------------------------------------
Chunks == 1..TotalChunks
NoPart == <<>>
Waiting == [step |-> "idle"]

(* Only the first chunk tells what a file really is.                       *)
Payloads(c) == IF c = 1 THEN {"right", "forged"} ELSE {"right"}

Passes(content) == content[1] # "forged"

OnDisk(u) == part[u] # NoPart

At(t, step) == call[t].step = step
Goto(t, record) == call' = [call EXCEPT ![t] = record]
GoOn(t, step) == call' = [call EXCEPT ![t].step = step]
Return(t) == Goto(t, Waiting)

(* An answer, or an exception, under the lock of the session. *)
Leave(t) == Return(t) /\ sessionLock' = [sessionLock EXCEPT ![call[t].upload] = Nobody]

----------------------------------------------------------------------------
(* init_upload *)

(* Under _sessions_lock from here to the registration. *)
StartUpload(t, u) ==
    /\ At(t, "idle") /\ u \notin started
    /\ dictLock = Nobody /\ dictLock' = t
    /\ started' = started \cup {u}
    /\ Goto(t, [step |-> "sweeping", upload |-> u, victim |-> Nobody,
                todo |-> sessions \cap stale])
    /\ UNCHANGED <<sessions, received, stored, stale, part, file, sessionLock>>

(* A stale session goes, whatever its own lock protects at the moment.     *)
(* Mutant: the lock is waited for. *)
ForgetStaleLocked(t, v) ==
    /\ At(t, "sweeping") /\ v \in call[t].todo
    /\ sessionLock[v] = Nobody
    /\ sessions' = sessions \ {v}
    /\ Goto(t, [call[t] EXCEPT !.todo = @ \ {v}, !.victim = v,
                   !.step = IF OnDisk(v) THEN "dropping" ELSE @])
    /\ UNCHANGED <<started, received, stored, stale, part, file, sessionLock, dictLock>>

ForgetStale(t, v) ==
    /\ At(t, "sweeping") /\ v \in call[t].todo
    /\ sessions' = sessions \ {v}
    /\ Goto(t, [call[t] EXCEPT !.todo = @ \ {v}, !.victim = v,
                   !.step = IF OnDisk(v) THEN "dropping" ELSE @])
    /\ UNCHANGED <<started, received, stored, stale, part, file, sessionLock, dictLock>>

(* A part that went since it was looked up fails the upload being started. *)
UnlinkStale(t) ==
    /\ At(t, "dropping")
    /\ part' = [part EXCEPT ![call[t].victim] = NoPart]
    /\ IF OnDisk(call[t].victim)
       THEN GoOn(t, "sweeping") /\ UNCHANGED dictLock
       ELSE Return(t) /\ dictLock' = Nobody
    /\ UNCHANGED <<started, sessions, received, stored, stale, file, sessionLock>>

(* Parts of no session that have been left alone for long go, then the     *)
(* new part gets its full size.                                            *)
Orphans == {v \in Uploads : OnDisk(v) /\ v \notin sessions /\ v \in stale}

Register(t) ==
    LET u == call[t].upload IN
    /\ At(t, "sweeping") /\ call[t].todo = {}
    /\ part' = [v \in Uploads |->
           IF v = u THEN [c \in Chunks |-> "zeros"]
           ELSE IF v \in Orphans THEN NoPart ELSE part[v]]
    /\ sessions' = sessions \cup {u}
    /\ dictLock' = Nobody
    /\ Return(t)
    /\ UNCHANGED <<started, received, stored, stale, file, sessionLock>>

(* A part seen in the folder that a rejection unlinks before its age is    *)
(* read fails the upload being started.                                    *)
TripOverPart(t) ==
    /\ At(t, "sweeping") /\ call[t].todo = {}
    /\ \E w \in Uploaders : At(w, "unlinking")
    /\ Return(t) /\ dictLock' = Nobody
    /\ UNCHANGED <<started, sessions, received, stored, stale, part, file, sessionLock>>

----------------------------------------------------------------------------
(* write_chunk *)

(* The session is looked up and the length of the chunk checked, then its  *)
(* lock is asked for.                                                      *)
SendChunk(t, u, c, data) ==
    /\ At(t, "idle") /\ u \in sessions
    /\ Goto(t, [step |-> "to write", upload |-> u, chunk |-> c, data |-> data])
    /\ UNCHANGED <<started, sessions, received, stored, stale, part, file, sessionLock, dictLock>>

(* Mutant: nobody asks for the lock. *)
OpenPartUnlocked(t) ==
    LET u == call[t].upload IN
    /\ At(t, "to write")
    /\ IF u \in stored \/ ~OnDisk(u) THEN Return(t) ELSE GoOn(t, "writing")
    /\ UNCHANGED <<started, sessions, received, stored, stale, part, file, sessionLock, dictLock>>

(* A completed upload takes no more; a part that is gone is an error. *)
OpenPart(t) ==
    LET u == call[t].upload IN
    /\ At(t, "to write") /\ sessionLock[u] = Nobody
    /\ IF u \in stored \/ ~OnDisk(u)
       THEN Return(t) /\ UNCHANGED sessionLock
       ELSE GoOn(t, "writing") /\ sessionLock' = [sessionLock EXCEPT ![u] = t]
    /\ UNCHANGED <<started, sessions, received, stored, stale, part, file, dictLock>>

(* What an open file holds goes where its bytes are: to the part, to the   *)
(* stored file if it was renamed, or nowhere if it was unlinked.           *)
Written(content, c, data) == IF content = NoPart THEN content ELSE [content EXCEPT ![c] = data]

WriteChunk(t) ==
    LET u == call[t].upload
        with(content) == Written(content, call[t].chunk, call[t].data)
    IN  /\ At(t, "writing")
        /\ part' = [part EXCEPT ![u] = with(@)]
        /\ file' = [file EXCEPT ![u] = with(@)]
        /\ received' = [received EXCEPT ![u] = @ \cup {call[t].chunk}]
        /\ stale' = stale \ {u}
        /\ Leave(t)
        /\ UNCHANGED <<started, sessions, stored, dictLock>>

(* The disk is full.  A chunk that is there already takes no new space. *)
WriteFails(t) ==
    /\ At(t, "writing") /\ call[t].chunk \notin received[call[t].upload]
    /\ Leave(t)
    /\ UNCHANGED <<started, sessions, received, stored, stale, part, file, dictLock>>

----------------------------------------------------------------------------
(* complete_upload *)

Complete(t, u) ==
    /\ At(t, "idle") /\ u \in sessions
    /\ Goto(t, [step |-> "to complete", upload |-> u])
    /\ UNCHANGED <<started, sessions, received, stored, stale, part, file, sessionLock, dictLock>>

(* A retry gets the stored name, an incomplete upload an error. *)
CheckChunks(t) ==
    LET u == call[t].upload IN
    /\ At(t, "to complete") /\ sessionLock[u] = Nobody
    /\ IF u \in stored \/ received[u] # Chunks
       THEN Return(t) /\ UNCHANGED sessionLock
       ELSE GoOn(t, "verifying") /\ sessionLock' = [sessionLock EXCEPT ![u] = t]
    /\ UNCHANGED <<started, sessions, received, stored, stale, part, file, dictLock>>

Verify(t) ==
    LET u == call[t].upload IN
    /\ At(t, "verifying")
    /\ IF ~OnDisk(u) THEN Leave(t)
       ELSE /\ GoOn(t, IF Passes(part[u]) THEN "moving" ELSE "rejected")
            /\ UNCHANGED sessionLock
    /\ UNCHANGED <<started, sessions, received, stored, stale, part, file, dictLock>>

(* The session is forgotten under both locks, then the part unlinked. *)
Reject(t) ==
    /\ At(t, "rejected") /\ dictLock = Nobody
    /\ sessions' = sessions \ {call[t].upload}
    /\ GoOn(t, "unlinking")
    /\ UNCHANGED <<started, received, stored, stale, part, file, sessionLock, dictLock>>

UnlinkRejected(t) ==
    /\ At(t, "unlinking")
    /\ part' = [part EXCEPT ![call[t].upload] = NoPart]
    /\ Leave(t)
    /\ UNCHANGED <<started, sessions, received, stored, stale, file, dictLock>>

(* The rename, and the name to remember; a part that is gone is an error. *)
MovePart(t) ==
    LET u == call[t].upload IN
    /\ At(t, "moving")
    /\ IF OnDisk(u)
       THEN /\ file' = [file EXCEPT ![u] = part[u]]
            /\ part' = [part EXCEPT ![u] = NoPart]
            /\ stored' = stored \cup {u}
            /\ stale' = stale \ {u}
       ELSE UNCHANGED <<file, part, stored, stale>>
    /\ Leave(t)
    /\ UNCHANGED <<started, sessions, received, dictLock>>

----------------------------------------------------------------------------
(* Two hours pass without a call for this upload. *)
GrowStale(u) ==
    /\ OnDisk(u) \/ u \in sessions
    /\ \A t \in Uploaders : ~At(t, "idle") => call[t].upload # u
    /\ u \notin stale /\ stale' = stale \cup {u}
    /\ UNCHANGED <<started, sessions, received, stored, part, file, sessionLock, dictLock, call>>

(* A restart forgets the sessions and leaves the parts. *)
RestartUploads ==
    /\ sessions' = {}
    /\ call' = [t \in Uploaders |-> Waiting]
    /\ sessionLock' = [u \in Uploads |-> Nobody] /\ dictLock' = Nobody
    /\ UNCHANGED <<started, received, stored, stale, part, file>>

UploadsInit ==
    /\ started = {} /\ sessions = {} /\ stored = {} /\ stale = {}
    /\ received = [u \in Uploads |-> {}]
    /\ part = [u \in Uploads |-> NoPart] /\ file = [u \in Uploads |-> NoPart]
    /\ sessionLock = [u \in Uploads |-> Nobody] /\ dictLock = Nobody
    /\ call = [t \in Uploaders |-> Waiting]

(* What a call does once it has begun, waiting for locks included. *)
UploadStep(t) ==
    \/ \E v \in Uploads : ForgetStale(t, v)
    \/ UnlinkStale(t) \/ Register(t) \/ TripOverPart(t)
    \/ OpenPart(t) \/ WriteChunk(t) \/ WriteFails(t)
    \/ CheckChunks(t) \/ Verify(t) \/ Reject(t) \/ UnlinkRejected(t) \/ MovePart(t)

UploadsNext ==
    \/ \E u \in Uploads : GrowStale(u)
    \/ RestartUploads
    \/ \E t \in Uploaders, u \in Uploads :
        \/ StartUpload(t, u) \/ Complete(t, u)
        \/ \E c \in Chunks : \E data \in Payloads(c) : SendChunk(t, u, c, data)
    \/ \E t \in Uploaders : UploadStep(t)

----------------------------------------------------------------------------
(* A stored file has every chunk that was sent and is what its name says,  *)
(* whatever chunks are sent again while it is verified and moved.          *)
StoredFilesAreWhole ==
    \A u \in Uploads : file[u] # NoPart =>
        Passes(file[u]) /\ \A c \in Chunks : file[u][c] # "zeros"

(* Every lock is given back: the clean-up waits for no session, so a       *)
(* rejection that waits for the clean-up gets its turn.                    *)
LocksAreGivenBack ==
    /\ \A u \in Uploads : []<>(sessionLock[u] = Nobody)
    /\ []<>(dictLock = Nobody)

=============================================================================
