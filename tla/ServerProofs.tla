----------------------------- MODULE ServerProofs -----------------------------
(***************************************************************************)
(* Proofs about what runs beside the transactions, for any number of       *)
(* uploads, downloads, visitors, admins and backups.  Each component has   *)
(* an invariant of its own that its steps keep; a step of the server is a  *)
(* step of one component and leaves the others alone.                      *)
(***************************************************************************)
EXTENDS ServerProcess, FiniteSums, SequenceTheorems

----------------------------------------------------------------------------
(* Chunked uploads.  Stored files are whole, for any number of uploads,    *)
(* calls and chunks.  What a call knows (CallOK) stays true because of the *)
(* lock it holds, or, while it still sweeps, because nobody else knows its *)
(* upload id yet.  What is on disk (UploadOK) has the chunks the session   *)
(* counts.                                                                 *)

Contents == [Chunks -> {"zeros", "right", "forged"}] \cup {NoPart}

Sweeps == {"sweeping", "dropping"}
Holding == {"writing", "verifying", "moving", "rejected", "unlinking"}

Sweep == [step : Sweeps, upload : Uploads, victim : Uploads \cup {Nobody},
          todo : SUBSET Uploads]
Writing == [step : {"to write", "writing"}, upload : Uploads, chunk : Chunks,
            data : {"right", "forged"}]
Completing == [step : {"to complete", "verifying", "moving", "rejected", "unlinking"},
               upload : Uploads]
CallRow == {Waiting} \cup Sweep \cup Writing \cup Completing

UploadTypeOK ==
    /\ sessions \subseteq Uploads
    /\ received \in [Uploads -> SUBSET Chunks]
    /\ part \in [Uploads -> Contents] /\ file \in [Uploads -> Contents]
    /\ sessionLock \in [Uploads -> Uploaders \cup {Nobody}]
    /\ call \in [Uploaders -> CallRow]

Untouched(u) == received[u] = {} /\ file[u] = NoPart

(* No call on this upload but t's. *)
Alone(t, u) ==
    \A s \in Uploaders \ {t} : call[s].step # "idle" => call[s].upload # u

(* What a call relies on at each of its steps. *)
CallOK(t) ==
    LET u == call[t].upload
        step == call[t].step
    IN  /\ step # "idle" => u \in started
        /\ step \in Sweeps => Untouched(u) /\ u \notin sessions /\ Alone(t, u)
        /\ step \in Holding => sessionLock[u] = t
        /\ step = "writing" => u \notin stored
        /\ step \in {"verifying", "moving"} => received[u] = Chunks
        /\ step = "moving" /\ part[u] # NoPart => Passes(part[u])

UploadOK(u) ==
    /\ u \notin started => Untouched(u) /\ u \notin sessions
    /\ part[u] # NoPart => \A c \in received[u] : part[u][c] # "zeros"
    /\ file[u] # NoPart =>
           u \in stored /\ Passes(file[u]) /\ \A c \in Chunks : file[u][c] # "zeros"

UploadInv ==
    /\ UploadTypeOK
    /\ \A t \in Uploaders : CallOK(t)
    /\ \A u \in Uploads : UploadOK(u)

----------------------------------------------------------------------------
LEMMA CallSteps ==
    ASSUME NEW q \in CallRow
    PROVE  /\ q.step = "idle" <=> q = Waiting
           /\ q.step \in Sweeps => q \in Sweep
           /\ q.step \in {"to write", "writing"} => q \in Writing
           /\ q.step \in {"to complete", "verifying", "moving", "rejected", "unlinking"}
              => q \in Completing
           /\ q.step # "idle" => q.upload \in Uploads
<1>0. Waiting.step = "idle"
  BY DEF Waiting
<1>1. CASE q = Waiting
  BY <1>0, <1>1 DEF Sweeps
<1>2. CASE q \in Sweep
  <2>1. q.step \in Sweeps /\ q.upload \in Uploads
    BY <1>2 DEF Sweep
  <2> QED
    BY <1>0, <1>2, <2>1 DEF Sweeps
<1>3. CASE q \in Writing
  <2>1. q.step \in {"to write", "writing"} /\ q.upload \in Uploads
    BY <1>3 DEF Writing
  <2> QED
    BY <1>0, <1>3, <2>1 DEF Sweeps
<1>4. CASE q \in Completing
  <2>1. /\ q.step \in {"to complete", "verifying", "moving", "rejected", "unlinking"}
        /\ q.upload \in Uploads
    BY <1>4 DEF Completing
  <2> QED
    BY <1>0, <1>4, <2>1 DEF Sweeps
<1> QED
  BY <1>1, <1>2, <1>3, <1>4 DEF CallRow

(* A step of t that takes or gives back its own lock, forgets sessions and *)
(* unlinks parts, and adds no bytes, keeps everything.                     *)
LEMMA OneCall ==
    ASSUME UploadInv, NEW t \in Uploaders, NEW q \in CallRow,
           call' = [call EXCEPT ![t] = q],
           UNCHANGED <<started, received, stored, file>>,
           sessions' \subseteq sessions,
           part' \in [Uploads -> Contents],
           \A u \in Uploads : part'[u] = part[u] \/ part'[u] = NoPart,
           sessionLock' \in [Uploads -> Uploaders \cup {Nobody}],
           \A u \in Uploads : sessionLock'[u] = sessionLock[u] \/ sessionLock[u] \in {Nobody, t},
           q.step # "idle" =>
               /\ q.upload \in started
               /\ \A s \in Uploaders \ {t} : call[s].step \in Sweeps => call[s].upload # q.upload,
           q.step \in Sweeps => call[t].step \in Sweeps /\ q.upload = call[t].upload,
           q.step \in Holding => sessionLock'[q.upload] = t,
           q.step = "writing" => q.upload \notin stored,
           q.step \in {"verifying", "moving"} => received[q.upload] = Chunks,
           q.step = "moving" /\ part[q.upload] # NoPart => Passes(part[q.upload])
    PROVE  UploadInv'
<1>1. UploadTypeOK'
  BY DEF UploadInv, UploadTypeOK
<1>2. \A s \in Uploaders : call'[s] = IF s = t THEN q ELSE call[s]
  BY DEF UploadInv, UploadTypeOK
<1>3. \A s \in Uploaders : call[s] \in CallRow /\ CallOK(s)
  BY DEF UploadInv, UploadTypeOK
<1>4. ASSUME NEW s \in Uploaders, s # t PROVE CallOK(s)'
  <2>1. call'[s] = call[s]
    BY <1>2, <1>4
  <2>2. call[s].step \in Sweeps =>
            Untouched(call[s].upload)' /\ call[s].upload \notin sessions' /\ Alone(s, call[s].upload)'
    BY <1>2, <1>3, <1>4 DEF CallOK, Untouched, Alone
  <2>3. call[s].step \in Holding => sessionLock'[call[s].upload] = s
    <3> HAVE call[s].step \in Holding
    <3>1. sessionLock[call[s].upload] = s /\ call[s].upload \in Uploads
      BY <1>3, CallSteps DEF CallOK, Holding
    <3> QED
      BY <3>1, <1>4, ChunkedUploadAssumption
  <2>4. call[s].step = "moving" => call[s].upload \in Uploads
    BY <1>3, CallSteps
  <2> QED
    BY <1>3, <2>1, <2>2, <2>3, <2>4 DEF CallOK
<1>5. CallOK(t)'
  <2>1. call'[t] = q
    BY <1>2
  <2>2. q.step \in Sweeps => Untouched(q.upload)' /\ q.upload \notin sessions' /\ Alone(t, q.upload)'
    BY <1>2, <1>3 DEF CallOK, Untouched, Alone
  <2>3. q.step = "moving" => q.upload \in Uploads
    BY CallSteps
  <2> QED
    BY <2>1, <2>2, <2>3 DEF CallOK
<1>6. ASSUME NEW u \in Uploads PROVE UploadOK(u)'
  <2>1. UploadOK(u)
    BY DEF UploadInv
  <2> QED
    BY <2>1 DEF UploadOK, Untouched
<1> QED
  BY <1>1, <1>4, <1>5, <1>6 DEF UploadInv

LEMMA UploadsStart == UploadsInit => UploadInv
<1> SUFFICES ASSUME UploadsInit PROVE UploadInv
  OBVIOUS
<1> USE DEF UploadsInit
<1>1. UploadTypeOK
  BY DEF UploadTypeOK, CallRow, Contents
<1>2. \A t \in Uploaders : CallOK(t)
  BY DEF CallOK, Waiting, Sweeps, Holding
<1>3. \A u \in Uploads : UploadOK(u)
  BY DEF UploadOK, Untouched
<1> QED
  BY <1>1, <1>2, <1>3 DEF UploadInv

LEMMA IdleCall == Waiting \in CallRow /\ Waiting.step = "idle"
  BY DEF CallRow, Waiting

(* A call that goes on to `step` stays what it is. *)
LEMMA GoesOn ==
    ASSUME NEW q \in CallRow, NEW step
    PROVE  /\ q.step = "dropping" /\ step = "sweeping" => [q EXCEPT !.step = step] \in CallRow
           /\ q.step = "to write" /\ step = "writing" => [q EXCEPT !.step = step] \in CallRow
           /\ q.step \in {"to complete", "verifying", "moving", "rejected", "unlinking"}
              /\ step \in {"verifying", "moving", "rejected", "unlinking"}
              => [q EXCEPT !.step = step] \in CallRow
           /\ q.step # "idle" => /\ [q EXCEPT !.step = step].step = step
                                 /\ [q EXCEPT !.step = step].upload = q.upload
<1>1. CASE q.step \in Sweeps
  <2>1. q \in Sweep
    BY <1>1, CallSteps
  <2> QED
    BY <1>1, <2>1 DEF Sweep, Sweeps, CallRow
<1>2. CASE q.step \in {"to write", "writing"}
  <2>1. q \in Writing
    BY <1>2, CallSteps
  <2> QED
    BY <1>2, <2>1 DEF Writing, CallRow
<1>3. CASE q.step \in {"to complete", "verifying", "moving", "rejected", "unlinking"}
  <2>1. q \in Completing
    BY <1>3, CallSteps
  <2> QED
    BY <1>3, <2>1 DEF Completing, CallRow
<1>4. CASE q.step = "idle"
  BY <1>4
<1>5. q = Waiting \/ q \in Sweep \/ q \in Writing \/ q \in Completing
  BY DEF CallRow
<1>6. q.step = "idle" \/ q.step \in Sweeps \/ q.step \in {"to write", "writing"}
      \/ q.step \in {"to complete", "verifying", "moving", "rejected", "unlinking"}
  <2>1. q = Waiting => q.step = "idle"
    BY IdleCall
  <2>2. q \in Sweep => q.step \in Sweeps
    BY DEF Sweep
  <2>3. q \in Writing => q.step \in {"to write", "writing"}
    BY DEF Writing
  <2>4. q \in Completing =>
            q.step \in {"to complete", "verifying", "moving", "rejected", "unlinking"}
    BY DEF Completing
  <2> QED
    BY <1>5, <2>1, <2>2, <2>3, <2>4
<1> QED
  BY <1>1, <1>2, <1>3, <1>4, <1>6

(* What a call under way brings to its next step. *)
LEMMA UnderWay ==
    ASSUME UploadInv, NEW t \in Uploaders, call[t].step # "idle"
    PROVE  /\ call[t] \in CallRow /\ CallOK(t)
           /\ call[t].upload \in Uploads /\ call[t].upload \in started
           /\ sessionLock[call[t].upload] \in {Nobody, t} =>
                  \A s \in Uploaders \ {t} : call[s].step \in Holding =>
                      call[s].upload # call[t].upload
           /\ call[t].step \notin Sweeps =>
                  \A s \in Uploaders \ {t} : call[s].step \in Sweeps =>
                      call[s].upload # call[t].upload
           /\ call[t].step \in Sweeps =>
                  \A s \in Uploaders \ {t} : call[s].step # "idle" =>
                      call[s].upload # call[t].upload
<1>1. call[t] \in CallRow /\ CallOK(t)
  BY DEF UploadInv, UploadTypeOK
<1>2. call[t].upload \in Uploads
  BY <1>1, CallSteps
<1>3. \A s \in Uploaders : CallOK(s)
  BY DEF UploadInv
<1>4. ASSUME NEW s \in Uploaders \ {t}, call[s].step \in Holding,
             sessionLock[call[t].upload] \in {Nobody, t}
      PROVE  call[s].upload # call[t].upload
  BY <1>3, <1>4, ChunkedUploadAssumption DEF CallOK
<1>5. ASSUME NEW s \in Uploaders \ {t}, call[s].step \in Sweeps
      PROVE  call[s].upload # call[t].upload
  BY <1>3, <1>5 DEF CallOK, Alone
<1> QED
  BY <1>1, <1>2, <1>3, <1>4, <1>5 DEF CallOK, Alone

LEMMA Sweeping ==
    ASSUME UploadInv, NEW t \in Uploaders, NEW v \in Uploads,
           ForgetStale(t, v) \/ UnlinkStale(t) \/ TripOverPart(t)
    PROVE  UploadInv'
<1> USE DEF Sweeps, Holding, At
<1>1. CASE ForgetStale(t, v)
  <2> DEFINE q == [call[t] EXCEPT !.todo = @ \ {v}, !.victim = v,
                      !.step = IF OnDisk(v) THEN "dropping" ELSE @]
  <2>1. call[t].step = "sweeping" /\ sessions' = sessions \ {v}
        /\ call' = [call EXCEPT ![t] = q]
        /\ UNCHANGED <<started, received, stored, part, file, sessionLock>>
    BY <1>1 DEF ForgetStale, Goto
  <2>2. call[t] \in Sweep /\ call[t] \in CallRow
    BY <2>1, UnderWay, CallSteps
  <2>3. q \in Sweep /\ q.upload = call[t].upload /\ q.step \in Sweeps
    BY <2>1, <2>2 DEF Sweep
  <2>4. q \in CallRow
    BY <2>3 DEF CallRow
  <2> HIDE DEF q
  <2> QED
    BY <2>1, <2>3, <2>4, UnderWay, OneCall DEF UploadInv, UploadTypeOK
<1>2. CASE UnlinkStale(t)
  <2>1. call[t].step = "dropping"
        /\ part' = [part EXCEPT ![call[t].victim] = NoPart]
        /\ UNCHANGED <<started, sessions, received, stored, file, sessionLock>>
    BY <1>2 DEF UnlinkStale
  <2>2. PICK q \in CallRow : /\ call' = [call EXCEPT ![t] = q]
                             /\ q.step \in {"idle", "sweeping"}
                             /\ q.step # "idle" => q.upload = call[t].upload
    <3>1. CASE OnDisk(call[t].victim)
      <4> DEFINE q == [call[t] EXCEPT !.step = "sweeping"]
      <4>1. call' = [call EXCEPT ![t] = q]
        BY <1>2, <3>1 DEF UnlinkStale, GoOn
      <4>2. q \in CallRow /\ q.step = "sweeping" /\ q.upload = call[t].upload
        <5>1. call[t] \in CallRow
          BY <2>1, UnderWay
        <5> QED
          BY <2>1, <5>1, GoesOn
      <4> HIDE DEF q
      <4> QED
        BY <4>1, <4>2
    <3>2. CASE ~OnDisk(call[t].victim)
      BY <1>2, <3>2, IdleCall DEF UnlinkStale, Return, Goto
    <3> QED
      BY <3>1, <3>2
  <2>3. /\ part' \in [Uploads -> Contents]
        /\ \A u \in Uploads : part'[u] = part[u] \/ part'[u] = NoPart
        /\ sessionLock' \in [Uploads -> Uploaders \cup {Nobody}]
    BY <2>1 DEF UploadInv, UploadTypeOK, Contents
  <2>4. q.step # "idle" =>
            /\ q.upload \in started
            /\ \A s \in Uploaders \ {t} : call[s].step \in Sweeps => call[s].upload # q.upload
    BY <2>1, <2>2, UnderWay
  <2> QED
    BY <2>1, <2>2, <2>3, <2>4, OneCall
<1>3. CASE TripOverPart(t)
  BY <1>3, IdleCall, OneCall DEF TripOverPart, Return, Goto, UploadInv, UploadTypeOK
<1> QED
  BY <1>1, <1>2, <1>3

LEMMA Starting ==
    ASSUME UploadInv, NEW t \in Uploaders, NEW u \in Uploads, StartUpload(t, u)
    PROVE  UploadInv'
<1> USE DEF Sweeps, Holding, At
<1> DEFINE q == [step |-> "sweeping", upload |-> u, victim |-> Nobody,
                 todo |-> sessions \cap stale]
<1>1. /\ call[t].step = "idle" /\ u \notin started
      /\ started' = started \cup {u}
      /\ call' = [call EXCEPT ![t] = q]
      /\ UNCHANGED <<sessions, received, stored, part, file, sessionLock>>
  BY DEF StartUpload, Goto
<1>2. q \in CallRow /\ q.step = "sweeping" /\ q.upload = u
  BY DEF CallRow, Sweep, UploadInv, UploadTypeOK
<1> HIDE DEF q
<1>3. \A s \in Uploaders : call'[s] = IF s = t THEN q ELSE call[s]
  BY <1>1 DEF UploadInv, UploadTypeOK
<1>4. \A s \in Uploaders : CallOK(s)
  BY DEF UploadInv
<1>5. UploadTypeOK'
  BY <1>1, <1>2 DEF UploadInv, UploadTypeOK
<1>6. UploadOK(u)
  BY DEF UploadInv
<1>7. ASSUME NEW s \in Uploaders, s # t PROVE CallOK(s)'
  BY <1>1, <1>2, <1>3, <1>4, <1>7 DEF CallOK, Untouched, Alone
<1>8. CallOK(t)'
  BY <1>1, <1>2, <1>3, <1>4, <1>6 DEF CallOK, UploadOK, Untouched, Alone
<1>9. \A v \in Uploads : UploadOK(v)'
  BY <1>1 DEF UploadInv, UploadOK, Untouched
<1> QED
  BY <1>5, <1>7, <1>8, <1>9 DEF UploadInv

LEMMA Registering ==
    ASSUME UploadInv, NEW t \in Uploaders, Register(t)
    PROVE  UploadInv'
<1> USE DEF Sweeps, Holding, At
<1> DEFINE u == call[t].upload
           zeros == [c \in Chunks |-> "zeros"]
<1>1. /\ call[t].step = "sweeping"
      /\ part' \in [Uploads -> Contents]
      /\ part'[u] = zeros
      /\ \A v \in Uploads \ {u} : part'[v] = part[v] \/ part'[v] = NoPart
      /\ sessions' = sessions \cup {u}
      /\ call' = [call EXCEPT ![t] = Waiting]
      /\ UNCHANGED <<started, received, stored, file, sessionLock>>
  <2>1. call[t].step = "sweeping"
    BY DEF Register
  <2>2. u \in Uploads
    BY <2>1, UnderWay
  <2>3. part' = [v \in Uploads |->
           IF v = u THEN zeros ELSE IF v \in Orphans THEN NoPart ELSE part[v]]
    BY DEF Register
  <2>4. zeros \in Contents /\ NoPart \in Contents /\ part \in [Uploads -> Contents]
    BY DEF Contents, UploadInv, UploadTypeOK
  <2> HIDE DEF zeros
  <2>5. part' \in [Uploads -> Contents]
    BY <2>3, <2>4
  <2> QED
    BY <2>1, <2>2, <2>3, <2>5 DEF Register, Return, Goto
<1>2. /\ u \in Uploads /\ u \in started /\ Untouched(u)
      /\ \A s \in Uploaders \ {t} : call[s].step # "idle" => call[s].upload # u
  BY <1>1, UnderWay DEF CallOK
<1> HIDE DEF u, zeros
<1>3. \A s \in Uploaders : call'[s] = IF s = t THEN Waiting ELSE call[s]
  BY <1>1 DEF UploadInv, UploadTypeOK
<1>4. UploadTypeOK'
  BY <1>1, <1>2, IdleCall DEF UploadInv, UploadTypeOK
<1>5. ASSUME NEW s \in Uploaders, s # t PROVE CallOK(s)'
  <2>1. CallOK(s) /\ call'[s] = call[s]
    BY <1>3, <1>5 DEF UploadInv
  <2>2. CASE call[s].step = "idle"
    BY <2>1, <2>2 DEF CallOK
  <2>3. CASE call[s].step # "idle"
    <3>1. call[s].upload # u /\ call[s].upload \in Uploads
      BY <1>2, <1>5, <2>3, UnderWay
    <3>2. call[s].step \in Sweeps => Alone(s, call[s].upload)'
      BY <1>3, <2>1, IdleCall DEF CallOK, Alone
    <3> QED
      BY <1>1, <2>1, <3>1, <3>2 DEF CallOK, Untouched
  <2> QED
    BY <2>2, <2>3
<1>6. CallOK(t)'
  BY <1>3, IdleCall DEF CallOK
<1>7. ASSUME NEW v \in Uploads PROVE UploadOK(v)'
  <2>1. UploadOK(v)
    BY DEF UploadInv
  <2> QED
    BY <1>1, <1>2, <2>1 DEF UploadOK, Untouched
<1> QED
  BY <1>4, <1>5, <1>6, <1>7 DEF UploadInv

(* What the calls of write_chunk do before they write, and a full disk. *)
LEMMA Sending ==
    ASSUME UploadInv, NEW t \in Uploaders,
           \/ \E u \in Uploads, c \in Chunks : \E data \in Payloads(c) : SendChunk(t, u, c, data)
           \/ OpenPart(t) \/ WriteFails(t)
    PROVE  UploadInv'
<1> USE DEF Sweeps, Holding, At
<1>1. ASSUME NEW u \in Uploads, NEW c \in Chunks, NEW data \in Payloads(c),
             SendChunk(t, u, c, data)
      PROVE  UploadInv'
  <2> DEFINE q == [step |-> "to write", upload |-> u, chunk |-> c, data |-> data]
  <2>1. /\ u \in sessions /\ call' = [call EXCEPT ![t] = q]
        /\ UNCHANGED <<started, sessions, received, stored, part, file, sessionLock>>
    BY <1>1 DEF SendChunk, Goto
  <2>2. q \in CallRow /\ q.step = "to write" /\ q.upload = u
    BY DEF CallRow, Writing, Payloads
  <2> HIDE DEF q
  <2>3. UploadOK(u) /\ \A s \in Uploaders : CallOK(s)
    BY DEF UploadInv
  <2>4. /\ u \in started
        /\ \A s \in Uploaders \ {t} : call[s].step \in Sweeps => call[s].upload # u
    BY <2>1, <2>3 DEF UploadOK, CallOK
  <2> QED
    BY <2>1, <2>2, <2>4, OneCall DEF UploadInv, UploadTypeOK
<1>2. CASE OpenPart(t)
  <2> DEFINE u == call[t].upload
             q == [call[t] EXCEPT !.step = "writing"]
  <2>1. call[t].step = "to write" /\ sessionLock[u] = Nobody
        /\ UNCHANGED <<started, sessions, received, stored, part, file>>
    BY <1>2 DEF OpenPart
  <2>2. q \in CallRow /\ q.step = "writing" /\ q.upload = u
    <3>1. call[t] \in CallRow
      BY <2>1, UnderWay
    <3> QED
      BY <2>1, <3>1, GoesOn
  <2>3. CASE u \in stored \/ ~OnDisk(u)
    <3>1. call' = [call EXCEPT ![t] = Waiting] /\ sessionLock' = sessionLock
      BY <1>2, <2>3 DEF OpenPart, Return, Goto
    <3> QED
      BY <2>1, <3>1, IdleCall, OneCall DEF UploadInv, UploadTypeOK
  <2>4. CASE ~(u \in stored \/ ~OnDisk(u))
    <3>1. call' = [call EXCEPT ![t] = q] /\ sessionLock' = [sessionLock EXCEPT ![u] = t]
      BY <1>2, <2>4 DEF OpenPart, GoOn
    <3>2. /\ u \in Uploads /\ u \in started
          /\ \A s \in Uploaders \ {t} : call[s].step \in Sweeps => call[s].upload # u
      BY <2>1, UnderWay
    <3> HIDE DEF u, q
    <3> QED
      BY <2>1, <2>2, <2>4, <3>1, <3>2, OneCall DEF UploadInv, UploadTypeOK
  <2> QED
    BY <2>3, <2>4
<1>3. CASE WriteFails(t)
  <2>1. /\ call[t].step = "writing"
        /\ call' = [call EXCEPT ![t] = Waiting]
        /\ sessionLock' = [sessionLock EXCEPT ![call[t].upload] = Nobody]
        /\ UNCHANGED <<started, sessions, received, stored, part, file>>
    BY <1>3 DEF WriteFails, Leave, Return, Goto
  <2>2. sessionLock[call[t].upload] = t
    BY <2>1, UnderWay DEF CallOK
  <2> QED
    BY <2>1, <2>2, IdleCall, OneCall DEF UploadInv, UploadTypeOK
<1> QED
  BY <1>1, <1>2, <1>3

LEMMA WritingKeeps ==
    ASSUME UploadInv, NEW t \in Uploaders, WriteChunk(t)
    PROVE  UploadInv'
<1> USE DEF Sweeps, Holding, At
<1> DEFINE u == call[t].upload
           c == call[t].chunk
           data == call[t].data
<1>1. call[t].step = "writing"
  BY DEF WriteChunk
<1>2. /\ call[t] \in CallRow /\ u \in Uploads /\ u \in started
      /\ sessionLock[u] = t /\ u \notin stored
      /\ c \in Chunks /\ data \in {"right", "forged"}
  <2>1. call[t] \in Writing
    BY <1>1, UnderWay, CallSteps
  <2> QED
    BY <1>1, <2>1, UnderWay DEF CallOK, Writing
<1>3. file[u] = NoPart
  BY <1>2 DEF UploadInv, UploadOK
<1>4. /\ part' = [part EXCEPT ![u] = Written(part[u], c, data)]
      /\ file' = [file EXCEPT ![u] = Written(file[u], c, data)]
      /\ received' = [received EXCEPT ![u] = received[u] \cup {c}]
      /\ call' = [call EXCEPT ![t] = Waiting]
      /\ sessionLock' = [sessionLock EXCEPT ![u] = Nobody]
      /\ UNCHANGED <<started, sessions, stored>>
  BY DEF WriteChunk, Leave, Return, Goto
<1>5. \A s \in Uploaders \ {t} : call[s].step \in Holding \cup Sweeps => call[s].upload # u
  BY <1>1, <1>2, UnderWay
<1> HIDE DEF u, c, data
<1>6. file' = file
  BY <1>2, <1>3, <1>4 DEF Written, UploadInv, UploadTypeOK
<1>7. Written(part[u], c, data) \in Contents
  BY <1>2 DEF Written, Contents, UploadInv, UploadTypeOK
<1>8. part[u] # NoPart =>
        /\ Written(part[u], c, data)[c] = data
        /\ \A x \in Chunks \ {c} : Written(part[u], c, data)[x] = part[u][x]
  BY <1>2 DEF Written, Contents, UploadInv, UploadTypeOK
<1>9. \A s \in Uploaders : call'[s] = IF s = t THEN Waiting ELSE call[s]
  BY <1>4 DEF UploadInv, UploadTypeOK
<1>10. /\ part'[u] = Written(part[u], c, data) /\ received'[u] = received[u] \cup {c}
       /\ \A v \in Uploads \ {u} : part'[v] = part[v] /\ received'[v] = received[v]
                                   /\ sessionLock'[v] = sessionLock[v]
  BY <1>2, <1>4 DEF UploadInv, UploadTypeOK
<1>11. UploadTypeOK'
  BY <1>2, <1>4, <1>6, <1>7, IdleCall DEF UploadInv, UploadTypeOK
<1>12. ASSUME NEW s \in Uploaders, s # t PROVE CallOK(s)'
  <2>1. CallOK(s) /\ call'[s] = call[s]
    BY <1>9, <1>12 DEF UploadInv
  <2>2. call[s].step # "idle" => call[s].upload \in Uploads
    BY <1>12, UnderWay
  <2>3. CASE call[s].step \in Holding \cup Sweeps
    <3>1. call[s].upload \in Uploads \ {u}
      BY <1>5, <1>12, <2>2, <2>3
    <3>2. call[s].step \in Sweeps => Alone(s, call[s].upload)'
      BY <1>9, <2>1, IdleCall DEF CallOK, Alone
    <3> QED
      BY <1>4, <1>6, <1>10, <2>1, <3>1, <3>2 DEF CallOK, Untouched
  <2>4. CASE call[s].step \notin Holding \cup Sweeps
    BY <1>4, <2>1, <2>4 DEF CallOK
  <2> QED
    BY <2>3, <2>4
<1>13. CallOK(t)'
  BY <1>9, IdleCall DEF CallOK
<1>14. ASSUME NEW v \in Uploads PROVE UploadOK(v)'
  <2>1. UploadOK(v)
    BY DEF UploadInv
  <2>2. CASE v = u
    <3>1. part'[u] # NoPart => part[u] # NoPart
      BY <1>10 DEF Written
    <3>2. data # "zeros"
      BY <1>2
    <3>3. part'[u] # NoPart => \A x \in received'[u] : part'[u][x] # "zeros"
      <4> SUFFICES ASSUME part'[u] # NoPart, NEW x \in received'[u]
                   PROVE  part'[u][x] # "zeros"
        OBVIOUS
      <4>1. CASE x = c
        BY <1>8, <1>10, <3>1, <3>2, <4>1
      <4>2. CASE x # c
        <5>1. x \in received[u] /\ x \in Chunks \ {c}
          BY <1>2, <1>10, <4>2 DEF UploadInv, UploadTypeOK
        <5> QED
          BY <1>8, <1>10, <2>1, <2>2, <3>1, <5>1 DEF UploadOK
      <4> QED
        BY <4>1, <4>2
    <3> QED
      BY <1>2, <1>3, <1>4, <1>6, <2>2, <3>3 DEF UploadOK
  <2>3. CASE v # u
    BY <1>4, <1>6, <1>10, <2>1, <2>3 DEF UploadOK, Untouched
  <2> QED
    BY <2>2, <2>3
<1> QED
  BY <1>11, <1>12, <1>13, <1>14 DEF UploadInv

(* What complete_upload does before it moves the part. *)
LEMMA CompletingKeeps ==
    ASSUME UploadInv, NEW t \in Uploaders,
           \/ \E u \in Uploads : Complete(t, u)
           \/ CheckChunks(t) \/ Verify(t) \/ Reject(t) \/ UnlinkRejected(t)
    PROVE  UploadInv'
<1> USE DEF Sweeps, Holding, At
<1> DEFINE w == call[t].upload
<1>1. ASSUME NEW u \in Uploads, Complete(t, u) PROVE UploadInv'
  <2> DEFINE q == [step |-> "to complete", upload |-> u]
  <2>1. /\ u \in sessions /\ call' = [call EXCEPT ![t] = q]
        /\ UNCHANGED <<started, sessions, received, stored, part, file, sessionLock>>
    BY <1>1 DEF Complete, Goto
  <2>2. q \in CallRow /\ q.step = "to complete" /\ q.upload = u
    BY DEF CallRow, Completing
  <2> HIDE DEF q
  <2>3. UploadOK(u) /\ \A s \in Uploaders : CallOK(s)
    BY DEF UploadInv
  <2>4. /\ u \in started
        /\ \A s \in Uploaders \ {t} : call[s].step \in Sweeps => call[s].upload # u
    BY <2>1, <2>3 DEF UploadOK, CallOK
  <2> QED
    BY <2>1, <2>2, <2>4, OneCall DEF UploadInv, UploadTypeOK
<1>2. CASE CheckChunks(t)
  <2> DEFINE q == [call[t] EXCEPT !.step = "verifying"]
  <2>1. call[t].step = "to complete" /\ sessionLock[w] = Nobody
        /\ UNCHANGED <<started, sessions, received, stored, part, file>>
    BY <1>2 DEF CheckChunks
  <2>2. q \in CallRow /\ q.step = "verifying" /\ q.upload = w
    <3>1. call[t] \in CallRow
      BY <2>1, UnderWay
    <3> QED
      BY <2>1, <3>1, GoesOn
  <2>3. CASE w \in stored \/ received[w] # Chunks
    <3>1. call' = [call EXCEPT ![t] = Waiting] /\ sessionLock' = sessionLock
      BY <1>2, <2>3 DEF CheckChunks, Return, Goto
    <3> QED
      BY <2>1, <3>1, IdleCall, OneCall DEF UploadInv, UploadTypeOK
  <2>4. CASE ~(w \in stored \/ received[w] # Chunks)
    <3>1. call' = [call EXCEPT ![t] = q] /\ sessionLock' = [sessionLock EXCEPT ![w] = t]
      BY <1>2, <2>4 DEF CheckChunks, GoOn
    <3>2. /\ w \in Uploads /\ w \in started
          /\ \A s \in Uploaders \ {t} : call[s].step \in Sweeps => call[s].upload # w
      BY <2>1, UnderWay
    <3> HIDE DEF w, q
    <3> QED
      BY <2>1, <2>2, <2>4, <3>1, <3>2, OneCall DEF UploadInv, UploadTypeOK
  <2> QED
    BY <2>3, <2>4
<1>3. CASE Verify(t)
  <2>1. call[t].step = "verifying"
        /\ UNCHANGED <<started, sessions, received, stored, part, file>>
    BY <1>3 DEF Verify
  <2>2. /\ sessionLock[w] = t /\ received[w] = Chunks /\ w \in Uploads /\ w \in started
        /\ \A s \in Uploaders \ {t} : call[s].step \in Sweeps => call[s].upload # w
    BY <2>1, UnderWay DEF CallOK
  <2>3. CASE ~OnDisk(w)
    <3>1. call' = [call EXCEPT ![t] = Waiting] /\ sessionLock' = [sessionLock EXCEPT ![w] = Nobody]
      BY <1>3, <2>3 DEF Verify, Leave, Return, Goto
    <3> QED
      BY <2>1, <2>2, <3>1, IdleCall, OneCall DEF UploadInv, UploadTypeOK
  <2>4. CASE OnDisk(w)
    <3> DEFINE to == IF Passes(part[w]) THEN "moving" ELSE "rejected"
               q == [call[t] EXCEPT !.step = to]
    <3>1. call' = [call EXCEPT ![t] = q] /\ sessionLock' = sessionLock
      BY <1>3, <2>4 DEF Verify, GoOn
    <3>2. to \in {"moving", "rejected"} /\ (to = "moving" => Passes(part[w]))
      OBVIOUS
    <3> HIDE DEF to
    <3>3. q \in CallRow /\ q.step = to /\ q.upload = w
      <4>1. call[t] \in CallRow
        BY <2>1, UnderWay
      <4> QED
        BY <2>1, <3>2, <4>1, GoesOn
    <3> HIDE DEF w, q
    <3> QED
      BY <2>1, <2>2, <3>1, <3>2, <3>3, OneCall DEF UploadInv, UploadTypeOK
  <2> QED
    BY <2>3, <2>4
<1>4. CASE Reject(t)
  <2> DEFINE q == [call[t] EXCEPT !.step = "unlinking"]
  <2>1. /\ call[t].step = "rejected"
        /\ sessions' = sessions \ {w} /\ call' = [call EXCEPT ![t] = q]
        /\ UNCHANGED <<started, received, stored, part, file, sessionLock>>
    BY <1>4 DEF Reject, GoOn
  <2>2. q \in CallRow /\ q.step = "unlinking" /\ q.upload = w
    <3>1. call[t] \in CallRow
      BY <2>1, UnderWay
    <3> QED
      BY <2>1, <3>1, GoesOn
  <2>3. /\ sessionLock[w] = t /\ w \in started
        /\ \A s \in Uploaders \ {t} : call[s].step \in Sweeps => call[s].upload # w
    BY <2>1, UnderWay DEF CallOK
  <2> HIDE DEF w, q
  <2> QED
    BY <2>1, <2>2, <2>3, OneCall DEF UploadInv, UploadTypeOK
<1>5. CASE UnlinkRejected(t)
  <2>1. /\ call[t].step = "unlinking"
        /\ call' = [call EXCEPT ![t] = Waiting]
        /\ sessionLock' = [sessionLock EXCEPT ![w] = Nobody]
        /\ part' = [part EXCEPT ![w] = NoPart]
        /\ UNCHANGED <<started, sessions, received, stored, file>>
    BY <1>5 DEF UnlinkRejected, Leave, Return, Goto
  <2>2. sessionLock[w] = t
    BY <2>1, UnderWay DEF CallOK
  <2>3. /\ part' \in [Uploads -> Contents]
        /\ \A u \in Uploads : part'[u] = part[u] \/ part'[u] = NoPart
    BY <2>1 DEF UploadInv, UploadTypeOK, Contents
  <2> QED
    BY <2>1, <2>2, <2>3, IdleCall, OneCall DEF UploadInv, UploadTypeOK
<1> QED
  BY <1>1, <1>2, <1>3, <1>4, <1>5

(* The part that is renamed has every chunk and has passed. *)
LEMMA Moving ==
    ASSUME UploadInv, NEW t \in Uploaders, MovePart(t)
    PROVE  UploadInv'
<1> USE DEF Sweeps, Holding, At
<1> DEFINE u == call[t].upload
<1>1. /\ call[t].step = "moving"
      /\ call' = [call EXCEPT ![t] = Waiting]
      /\ sessionLock' = [sessionLock EXCEPT ![u] = Nobody]
      /\ UNCHANGED <<started, sessions, received>>
  BY DEF MovePart, Leave, Return, Goto
<1>2. /\ u \in Uploads /\ u \in started /\ sessionLock[u] = t /\ received[u] = Chunks
      /\ part[u] # NoPart => Passes(part[u])
      /\ \A s \in Uploaders \ {t} : call[s].step \in Holding \cup Sweeps => call[s].upload # u
  BY <1>1, UnderWay DEF CallOK
<1>3. CASE ~OnDisk(u)
  <2>1. UNCHANGED <<file, part, stored>>
    BY <1>3 DEF MovePart
  <2> QED
    BY <1>1, <1>2, <2>1, IdleCall, OneCall DEF UploadInv, UploadTypeOK
<1>4. CASE OnDisk(u)
  <2>1. /\ file' = [file EXCEPT ![u] = part[u]]
        /\ part' = [part EXCEPT ![u] = NoPart]
        /\ stored' = stored \cup {u}
    BY <1>4 DEF MovePart
  <2> HIDE DEF u
  <2>2. /\ file'[u] = part[u] /\ part'[u] = NoPart
        /\ \A v \in Uploads \ {u} : file'[v] = file[v] /\ part'[v] = part[v]
                                    /\ sessionLock'[v] = sessionLock[v]
    BY <1>1, <1>2, <2>1 DEF UploadInv, UploadTypeOK
  <2>3. \A s \in Uploaders : call'[s] = IF s = t THEN Waiting ELSE call[s]
    BY <1>1 DEF UploadInv, UploadTypeOK
  <2>4. UploadTypeOK'
    BY <1>1, <1>2, <2>1, IdleCall DEF UploadInv, UploadTypeOK, Contents
  <2>5. ASSUME NEW s \in Uploaders, s # t PROVE CallOK(s)'
    <3>1. CallOK(s) /\ call'[s] = call[s]
      BY <2>3, <2>5 DEF UploadInv
    <3>2. call[s].step # "idle" => call[s].upload \in Uploads
      BY <2>5, UnderWay
    <3>3. CASE call[s].step \in Holding \cup Sweeps
      <4>1. call[s].upload \in Uploads \ {u}
        BY <1>2, <2>5, <3>2, <3>3
      <4>2. call[s].step \in Sweeps => Alone(s, call[s].upload)'
        BY <2>3, <3>1, IdleCall DEF CallOK, Alone
      <4> QED
        BY <1>1, <2>1, <2>2, <3>1, <4>1, <4>2 DEF CallOK, Untouched
    <3>4. CASE call[s].step \notin Holding \cup Sweeps
      BY <1>1, <3>1, <3>4 DEF CallOK
    <3> QED
      BY <3>3, <3>4
  <2>6. CallOK(t)'
    BY <2>3, IdleCall DEF CallOK
  <2>7. ASSUME NEW v \in Uploads PROVE UploadOK(v)'
    <3>1. UploadOK(v)
      BY DEF UploadInv
    <3>2. CASE v = u
      BY <1>1, <1>2, <1>4, <2>1, <2>2, <3>1, <3>2 DEF UploadOK, OnDisk
    <3>3. CASE v # u
      BY <1>1, <2>1, <2>2, <3>1, <3>3 DEF UploadOK, Untouched
    <3> QED
      BY <3>2, <3>3
  <2> QED
    BY <2>4, <2>5, <2>6, <2>7 DEF UploadInv
<1> QED
  BY <1>3, <1>4

LEMMA UploadsStep == UploadInv /\ [UploadsNext]_uploadVars => UploadInv'
<1> SUFFICES ASSUME UploadInv, [UploadsNext]_uploadVars PROVE UploadInv'
  OBVIOUS
<1>1. ASSUME NEW u \in Uploads, GrowStale(u) PROVE UploadInv'
  BY <1>1 DEF GrowStale, UploadInv, UploadTypeOK, CallOK, UploadOK, Untouched, Alone
<1>2. CASE RestartUploads
  <2>1. UploadTypeOK'
    BY <1>2, IdleCall DEF RestartUploads, UploadInv, UploadTypeOK
  <2>2. \A t \in Uploaders : CallOK(t)'
    BY <1>2, IdleCall DEF RestartUploads, CallOK, Sweeps, Holding
  <2>3. \A u \in Uploads : UploadOK(u)'
    BY <1>2 DEF RestartUploads, UploadInv, UploadOK, Untouched
  <2> QED
    BY <2>1, <2>2, <2>3 DEF UploadInv
<1>3. ASSUME NEW t \in Uploaders, NEW u \in Uploads, StartUpload(t, u) \/ Complete(t, u)
      PROVE  UploadInv'
  BY <1>3, Starting, CompletingKeeps
<1>4. ASSUME NEW t \in Uploaders, NEW u \in Uploads, NEW c \in Chunks,
             NEW data \in Payloads(c), SendChunk(t, u, c, data)
      PROVE  UploadInv'
  BY <1>4, Sending
<1>5. ASSUME NEW t \in Uploaders, UploadStep(t) PROVE UploadInv'
  <2>1. CASE \E v \in Uploads : ForgetStale(t, v)
    BY <2>1, Sweeping
  <2>2. CASE UnlinkStale(t) \/ TripOverPart(t)
    <3>1. Uploads # {}
      <4>1. call[t].step # "idle"
        BY <2>2 DEF UnlinkStale, TripOverPart, At
      <4> QED
        BY <4>1, UnderWay
    <3> QED
      BY <2>2, <3>1, Sweeping
  <2> QED
    BY <1>5, <2>1, <2>2, Registering, Sending, WritingKeeps, CompletingKeeps, Moving
    DEF UploadStep
<1>6. CASE UNCHANGED uploadVars
  BY <1>6 DEF uploadVars, UploadInv, UploadTypeOK, CallOK, UploadOK, Untouched, Alone
<1> QED
  BY <1>1, <1>2, <1>3, <1>4, <1>5, <1>6 DEF UploadsNext

LEMMA UploadsWhole == UploadInv => StoredFilesAreWhole
  BY DEF UploadInv, UploadOK, StoredFilesAreWhole

----------------------------------------------------------------------------
(* Tracked downloads *)

DownloadTypeOK ==
    /\ attached \subseteq Pieces /\ onDisk \subseteq Pieces
    /\ download \in [Downloads ->
           [step : {"not yet", "opened", "building", "ready", "sending", "sent", "over"},
            files : SUBSET Pieces, whole : BOOLEAN, direct : BOOLEAN]]

(* While a zip is under way, what is there is in it or has come since.     *)
ZipHasAll ==
    \A d \in Downloads :
        /\ download[d].whole /\ download[d].step \notin {"not yet", "over"}
           => attached \cap onDisk \subseteq download[d].files \cup sent
        /\ download[d].step = "sent" => download[d].files \subseteq sent

DownloadInv == DownloadTypeOK /\ ZipHasAll /\ MarkedMeansDelivered

LEMMA DownloadsStart == DownloadsInit => DownloadInv
<1> SUFFICES ASSUME DownloadsInit PROVE DownloadInv
  OBVIOUS
<1> USE DEF DownloadsInit, NotYet
<1>1. DownloadTypeOK
  BY DEF DownloadTypeOK
<1>2. ZipHasAll /\ MarkedMeansDelivered
  BY DEF ZipHasAll, MarkedMeansDelivered
<1> QED
  BY <1>1, <1>2 DEF DownloadInv

(* A download that goes on, and one that ends. *)
LEMMA DownloadGoesOn ==
    ASSUME DownloadInv, NEW d \in Downloads,
           NEW step \in {"building", "ready", "sending", "sent"},
           download[d].step \notin {"not yet", "over"},
           download' = [download EXCEPT ![d].step = step],
           UNCHANGED <<attached, onDisk, downloaded>>,
           sent \subseteq sent', step = "sent" => download[d].files \subseteq sent'
    PROVE  DownloadInv'
<1> USE DEF DownloadInv
<1>1. DownloadTypeOK'
  BY DEF DownloadTypeOK
<1>2. /\ download'[d].whole = download[d].whole /\ download'[d].files = download[d].files
      /\ download'[d].step = step
      /\ \A e \in Downloads \ {d} : download'[e] = download[e]
  BY DEF DownloadTypeOK
<1>3. ZipHasAll'
  BY <1>2 DEF ZipHasAll
<1>4. MarkedMeansDelivered'
  BY DEF MarkedMeansDelivered
<1> QED
  BY <1>1, <1>3, <1>4

LEMMA DownloadEnds ==
    ASSUME DownloadInv, NEW d \in Downloads,
           download' = [download EXCEPT ![d] = Over],
           UNCHANGED <<attached, onDisk, sent>>, downloaded' \subseteq sent
    PROVE  DownloadInv'
<1> USE DEF DownloadInv
<1>1. DownloadTypeOK'
  BY DEF DownloadTypeOK, Over, NotYet
<1>2. /\ download'[d].step = "over"
      /\ \A e \in Downloads \ {d} : download'[e] = download[e]
  BY DEF DownloadTypeOK, Over, NotYet
<1>3. ZipHasAll'
  BY <1>2 DEF ZipHasAll
<1>4. MarkedMeansDelivered'
  BY DEF MarkedMeansDelivered
<1> QED
  BY <1>1, <1>3, <1>4

LEMMA DownloadsStep == DownloadInv /\ [DownloadsNext]_downloadVars => DownloadInv'
<1> SUFFICES ASSUME DownloadInv, [DownloadsNext]_downloadVars PROVE DownloadInv'
  OBVIOUS
<1> USE DEF AtStep, Next1, End
<1>1. ASSUME NEW f \in Pieces, AttachFile(f) PROVE DownloadInv'
  BY <1>1 DEF AttachFile, Comes, ZipUnderWay,
     DownloadInv, DownloadTypeOK, ZipHasAll, MarkedMeansDelivered
<1>2. ASSUME NEW f \in Pieces, DeleteFile(f) PROVE DownloadInv'
  BY <1>2 DEF DeleteFile, DownloadInv, DownloadTypeOK, ZipHasAll, MarkedMeansDelivered
<1>3. ASSUME NEW f \in Pieces, PurgeFile(f) PROVE DownloadInv'
  BY <1>3 DEF PurgeFile, DownloadInv, DownloadTypeOK, ZipHasAll, MarkedMeansDelivered
<1>4. ASSUME NEW d \in Downloads, NEW direct \in BOOLEAN, NEW f \in Pieces,
             DownloadFile(d, f, direct)
      PROVE  DownloadInv'
  BY <1>4
  DEF DownloadFile, DownloadInv, DownloadTypeOK, ZipHasAll, MarkedMeansDelivered
<1>5. ASSUME NEW d \in Downloads, NEW direct \in BOOLEAN, DownloadProject(d, direct)
      PROVE  DownloadInv'
  BY <1>5
  DEF DownloadProject, DownloadInv, DownloadTypeOK, ZipHasAll, MarkedMeansDelivered
<1>6. downloaded \subseteq sent
  BY DEF DownloadInv, MarkedMeansDelivered
<1>7. ASSUME NEW d \in Downloads, SweepZips(d) PROVE DownloadInv'
  BY <1>7, DownloadGoesOn DEF SweepZips
<1>8. ASSUME NEW d \in Downloads, TripOverZip(d) PROVE DownloadInv'
  BY <1>6, <1>8, DownloadEnds DEF TripOverZip
<1>9. ASSUME NEW d \in Downloads, BuildZip(d) PROVE DownloadInv'
  <2>1. CASE download[d].files \subseteq onDisk
    BY <1>9, <2>1, DownloadGoesOn DEF BuildZip
  <2>2. CASE ~(download[d].files \subseteq onDisk)
    BY <1>6, <1>9, <2>2, DownloadEnds DEF BuildZip
  <2> QED
    BY <2>1, <2>2
<1>10. ASSUME NEW d \in Downloads, Serve(d) PROVE DownloadInv'
  <2>1. CASE download[d].whole \/ download[d].files \subseteq onDisk
    BY <1>10, <2>1, DownloadGoesOn DEF Serve
  <2>2. CASE ~(download[d].whole \/ download[d].files \subseteq onDisk)
    BY <1>6, <1>10, <2>2, DownloadEnds DEF Serve
  <2> QED
    BY <2>1, <2>2
<1>11. ASSUME NEW d \in Downloads, SendLast(d) PROVE DownloadInv'
  BY <1>11, DownloadGoesOn DEF SendLast
<1>12. ASSUME NEW d \in Downloads, CutOff(d) PROVE DownloadInv'
  BY <1>6, <1>12, DownloadEnds DEF CutOff
<1>13. ASSUME NEW d \in Downloads, Confirm(d) PROVE DownloadInv'
  <2>1. Marked(d) \subseteq sent
    BY <1>13 DEF Confirm, Marked, DownloadInv, ZipHasAll
  <2> QED
    BY <1>6, <1>13, <2>1, DownloadEnds DEF Confirm
<1>14. ASSUME NEW d \in Downloads, NeverConfirmed(d) PROVE DownloadInv'
  BY <1>6, <1>14, DownloadEnds DEF NeverConfirmed
<1>15. CASE UNCHANGED downloadVars
  BY <1>15 DEF downloadVars, DownloadInv, DownloadTypeOK, ZipHasAll, MarkedMeansDelivered
<1> QED
  BY <1>1, <1>2, <1>3, <1>4, <1>5, <1>7, <1>8, <1>9, <1>10, <1>11, <1>12,
     <1>13, <1>14, <1>15
  DEF DownloadsNext, DownloadStep

----------------------------------------------------------------------------
(* The read cache.  What it answers is never older than what its reader    *)
(* was told is done, for any number of requests and any time to live.      *)
(* What an entry misses was committed after its read had begun (EntryOK),  *)
(* and so it is with a number that has been computed and not stored yet    *)
(* (ReadOK).                                                               *)

Missed == [step : {"missed"}, generation : Nat, age : Nat, expected : SUBSET Nat]
Computed == [step : {"computed"}, generation : Nat, age : Nat, expected : SUBSET Nat,
             version : Nat]
Served == [step : {"served"}, version : Nat, expected : SUBSET Nat]
ReaderRow == {Asleep} \cup Missed \cup Computed \cup Served
WriterRow == {[step |-> "waiting"], Done} \cup [step : {"committed"}, version : Nat]

CacheTypeOK ==
    /\ committed \in Seq(Nat)
    /\ answered \in Nat /\ generation \in Nat
    /\ entry \in [version : Nat, age : Nat]
    /\ writer \in [Writers -> WriterRow]
    /\ reader \in [Readers -> ReaderRow]

(* What a number of this version and age does not show is no older. *)
MissesOnlyLater(v, ticks) == \A u \in 1..version : u > v => committed[u] <= ticks

EntryOK ==
    entry.age < CacheTTL => entry.version >= answered /\ MissesOnlyLater(entry.version, entry.age)

(* What a read stores if no clear comes is as good as an entry has to be,  *)
(* and what it answers shows all it has to.                                *)
ReadOK(r) ==
    LET read == reader[r] IN
    /\ read.step \in {"missed", "computed"} =>
           read.generation <= generation /\ \A v \in read.expected : v <= version
    /\ read.step = "computed" =>
           /\ read.generation = generation => read.version >= answered
           /\ MissesOnlyLater(read.version, read.age)
    /\ read.step \in {"computed", "served"} => \A v \in read.expected : read.version >= v

CacheInv ==
    /\ CacheTypeOK
    /\ answered <= version
    /\ \A w \in Writers : writer[w].step = "committed" => writer[w].version <= version
    /\ EntryOK
    /\ \A r \in Readers : ReadOK(r)

LEMMA ReaderSteps ==
    ASSUME NEW q \in ReaderRow
    PROVE  /\ q.step = "missed" => q \in Missed
           /\ q.step = "computed" => q \in Computed
           /\ q.step = "served" => q \in Served
           /\ Asleep.step = "asleep"
<1>0. Asleep.step = "asleep"
  BY DEF Asleep
<1>1. CASE q \in Missed
  <2>1. q.step = "missed"
    BY <1>1 DEF Missed
  <2> QED
    BY <1>0, <1>1, <2>1
<1>2. CASE q \in Computed
  <2>1. q.step = "computed"
    BY <1>2 DEF Computed
  <2> QED
    BY <1>0, <1>2, <2>1
<1>3. CASE q \in Served
  <2>1. q.step = "served"
    BY <1>3 DEF Served
  <2> QED
    BY <1>0, <1>3, <2>1
<1>4. CASE q = Asleep
  BY <1>0, <1>4
<1> QED
  BY <1>1, <1>2, <1>3, <1>4 DEF ReaderRow

LEMMA CacheStart == CacheInit => CacheInv
<1> SUFFICES ASSUME CacheInit PROVE CacheInv
  OBVIOUS
<1> USE DEF CacheInit
<1>1. version = 0 /\ committed \in Seq(Nat)
  BY DEF version
<1>2. CacheTypeOK
  BY <1>1, ReadCacheAssumption DEF CacheTypeOK, ReaderRow, WriterRow, Nothing
<1>3. EntryOK
  BY ReadCacheAssumption DEF EntryOK, Nothing
<1>4. \A r \in Readers : ReadOK(r)
  BY DEF ReadOK, Asleep
<1> QED
  BY <1>1, <1>2, <1>3, <1>4 DEF CacheInv

(* A read goes on to `q`, and the entry changes at most to a good one. *)
LEMMA OneReader ==
    ASSUME CacheInv, NEW r \in Readers, NEW q \in ReaderRow,
           reader' = [reader EXCEPT ![r] = q],
           UNCHANGED <<committed, answered, writer, generation>>,
           entry' \in [version : Nat, age : Nat], EntryOK',
           q.step \in {"missed", "computed"} =>
               q.generation <= generation /\ \A v \in q.expected : v <= version,
           q.step = "computed" =>
               /\ q.generation = generation => q.version >= answered
               /\ MissesOnlyLater(q.version, q.age),
           q.step \in {"computed", "served"} => \A v \in q.expected : q.version >= v
    PROVE  CacheInv'
<1>1. CacheTypeOK'
  BY DEF CacheInv, CacheTypeOK
<1>2. \A s \in Readers : reader'[s] = IF s = r THEN q ELSE reader[s]
  BY DEF CacheInv, CacheTypeOK
<1>3. version' = version
  BY DEF version
<1>4. \A s \in Readers : ReadOK(s)'
  BY <1>2, <1>3 DEF CacheInv, ReadOK, MissesOnlyLater
<1> QED
  BY <1>1, <1>3, <1>4 DEF CacheInv

LEMMA ReadsStep ==
    ASSUME CacheInv, NEW r \in Readers, LookUp(r) \/ Compute(r) \/ Store(r) \/ Sleep(r)
    PROVE  CacheInv'
<1> USE DEF CacheInv
<1>0. version \in Nat /\ reader[r] \in ReaderRow /\ ReadOK(r)
  BY DEF CacheTypeOK, version
<1>a. Asleep \in ReaderRow /\ Asleep.step = "asleep"
  BY DEF ReaderRow, Asleep
<1>b. ASSUME UNCHANGED <<entry, answered, committed>> PROVE EntryOK'
  BY <1>b DEF EntryOK, MissesOnlyLater, version
<1>1. CASE LookUp(r)
  <2>1. Expected \in SUBSET Nat /\ \A v \in Expected : v <= version
    BY <1>0 DEF Expected, CacheTypeOK
  <2>2. CASE entry.age < CacheTTL
    <3> DEFINE q == [step |-> "served", version |-> entry.version, expected |-> Expected]
    <3>1. reader' = [reader EXCEPT ![r] = q]
          /\ UNCHANGED <<committed, answered, writer, entry, generation>>
      BY <1>1, <2>2 DEF LookUp
    <3>2. q \in ReaderRow /\ q.step = "served"
      BY <2>1 DEF ReaderRow, Served, CacheTypeOK
    <3>3. \A v \in Expected : entry.version >= v
      <4> TAKE v \in Expected
      <4>1. CASE v = answered
        BY <2>2, <4>1 DEF EntryOK
      <4>2. CASE v # answered
        <5>1. v \in 1..version /\ committed[v] > CacheTTL /\ committed[v] \in Nat
          BY <4>2 DEF Expected, CacheTypeOK, version
        <5>2. ~(v > entry.version)
          BY <2>2, <5>1, ReadCacheAssumption DEF EntryOK, MissesOnlyLater, CacheTypeOK
        <5> QED
          BY <5>1, <5>2 DEF CacheTypeOK
      <4> QED
        BY <4>1, <4>2
    <3>4. q.version = entry.version /\ q.expected = Expected
      OBVIOUS
    <3> HIDE DEF q
    <3> QED
      BY <1>b, <3>1, <3>2, <3>3, <3>4, OneReader DEF CacheTypeOK
  <2>3. CASE ~(entry.age < CacheTTL)
    <3> DEFINE q == [step |-> "missed", generation |-> generation, age |-> 0,
                     expected |-> Expected]
    <3>1. reader' = [reader EXCEPT ![r] = q]
          /\ UNCHANGED <<committed, answered, writer, entry, generation>>
      BY <1>1, <2>3 DEF LookUp
    <3>2. /\ q \in ReaderRow /\ q.step = "missed" /\ q.generation <= generation
          /\ q.expected = Expected
      BY <2>1 DEF ReaderRow, Missed, CacheTypeOK
    <3> HIDE DEF q
    <3> QED
      BY <1>b, <2>1, <3>1, <3>2, OneReader DEF CacheTypeOK
  <2> QED
    BY <2>2, <2>3
<1>2. CASE Compute(r)
  <2> DEFINE was == reader[r]
             q == [step |-> "computed", generation |-> was.generation, age |-> was.age,
                   expected |-> was.expected, version |-> version]
  <2>1. /\ was.step = "missed" /\ reader' = [reader EXCEPT ![r] = q]
        /\ UNCHANGED <<committed, answered, writer, entry, generation>>
    BY <1>2 DEF Compute
  <2>2. was \in Missed
    BY <1>0, <2>1, ReaderSteps
  <2>3. /\ q \in ReaderRow /\ q.step = "computed" /\ q.generation <= generation
        /\ q.version = version /\ q.expected = was.expected /\ q.age \in Nat
    BY <1>0, <2>1, <2>2 DEF ReaderRow, Missed, Computed, ReadOK
  <2>4. \A v \in was.expected : v <= version /\ version >= v
    BY <1>0, <2>1, <2>2 DEF ReadOK, Missed
  <2>5. version >= answered /\ MissesOnlyLater(version, q.age)
    BY <1>0 DEF CacheTypeOK, MissesOnlyLater
  <2> HIDE DEF q, was
  <2> QED
    BY <1>b, <2>1, <2>3, <2>4, <2>5, OneReader DEF CacheTypeOK
<1>3. CASE Store(r)
  <2> DEFINE was == reader[r]
             q == [step |-> "served", version |-> was.version, expected |-> was.expected]
  <2>1. /\ was.step = "computed" /\ reader' = [reader EXCEPT ![r] = q]
        /\ entry' = IF MayStore(was)
                    THEN [version |-> was.version, age |-> was.age] ELSE entry
        /\ UNCHANGED <<committed, answered, writer, generation>>
    BY <1>3 DEF Store
  <2>2. was \in Computed
    BY <1>0, <2>1, ReaderSteps
  <2>3. /\ q \in ReaderRow /\ q.step = "served"
        /\ q.version = was.version /\ q.expected = was.expected
    BY <2>2 DEF ReaderRow, Computed, Served
  <2>4. \A v \in was.expected : was.version >= v
    BY <1>0, <2>1 DEF ReadOK
  <2>5. entry' \in [version : Nat, age : Nat] /\ EntryOK'
    <3>1. CASE MayStore(was)
      BY <1>0, <2>1, <2>2, <3>1
      DEF Computed, EntryOK, ReadOK, MayStore, MissesOnlyLater, version
    <3>2. CASE ~MayStore(was)
      BY <1>b, <2>1, <3>2 DEF CacheTypeOK
    <3> QED
      BY <3>1, <3>2
  <2> HIDE DEF q, was
  <2> QED
    BY <2>1, <2>3, <2>4, <2>5, OneReader
<1>4. CASE Sleep(r)
  BY <1>4, <1>a, <1>b, OneReader DEF Sleep, CacheTypeOK
<1> QED
  BY <1>1, <1>2, <1>3, <1>4

LEMMA WritesStep ==
    ASSUME CacheInv, NEW w \in Writers, CommitChange(w) \/ Answer(w) \/ AnswerError(w)
    PROVE  CacheInv'
<1> USE DEF CacheInv
<1>0. version \in Nat /\ writer[w] \in WriterRow
  BY DEF CacheTypeOK, version
<1>1. CASE CommitChange(w)
  <2> DEFINE q == [step |-> "committed", version |-> version + 1]
  <2>1. /\ committed' = Append(committed, 0) /\ writer' = [writer EXCEPT ![w] = q]
        /\ UNCHANGED <<answered, entry, generation, reader>>
    BY <1>1 DEF CommitChange
  <2>2. /\ version' = version + 1 /\ committed' \in Seq(Nat)
        /\ committed'[version + 1] = 0
        /\ \A v \in 1..version : committed'[v] = committed[v]
    BY <2>1 DEF version, CacheTypeOK
  <2>3. q \in WriterRow /\ q.version = version'
    BY <1>0, <2>2 DEF WriterRow
  <2> HIDE DEF q
  <2>4. CacheTypeOK'
    BY <2>1, <2>2, <2>3 DEF CacheTypeOK
  <2>5. \A v, ticks \in Nat : MissesOnlyLater(v, ticks) => MissesOnlyLater(v, ticks)'
    <3> SUFFICES ASSUME NEW v \in Nat, NEW ticks \in Nat, MissesOnlyLater(v, ticks),
                        NEW u \in 1..(version + 1), u > v
                 PROVE  committed'[u] <= ticks
      BY <2>2 DEF MissesOnlyLater
    <3>1. CASE u = version + 1
      BY <2>2, <3>1
    <3>2. CASE u # version + 1
      <4>1. u \in 1..version
        BY <1>0, <3>2
      <4> QED
        BY <2>2, <4>1 DEF MissesOnlyLater
    <3> QED
      BY <3>1, <3>2
  <2>6. EntryOK'
    BY <2>1, <2>5 DEF EntryOK, CacheTypeOK
  <2>7. ASSUME NEW r \in Readers PROVE ReadOK(r)'
    <3>1. ReadOK(r) /\ reader'[r] = reader[r] /\ reader[r] \in ReaderRow
      BY <2>1 DEF CacheTypeOK
    <3>2. reader[r].step \in {"missed", "computed"} =>
              \A v \in reader[r].expected : v <= version /\ v \in Nat
      BY <3>1, ReaderSteps DEF ReadOK, Missed, Computed
    <3>3. reader[r].step = "computed" => reader[r].version \in Nat /\ reader[r].age \in Nat
      BY <3>1, ReaderSteps DEF Computed
    <3> QED
      BY <1>0, <2>1, <2>2, <2>5, <3>1, <3>2, <3>3 DEF ReadOK
  <2>8. answered' <= version'
    BY <1>0, <2>1, <2>2 DEF CacheTypeOK
  <2>9. \A v \in Writers : writer'[v].step = "committed" => writer'[v].version <= version'
    <3> SUFFICES ASSUME NEW v \in Writers, writer'[v].step = "committed"
                 PROVE  writer'[v].version <= version'
      OBVIOUS
    <3>1. CASE v = w
      BY <1>0, <2>1, <2>2, <2>3, <3>1 DEF CacheTypeOK
    <3>2. CASE v # w
      <4>1. writer'[v] = writer[v] /\ writer[v] \in WriterRow
        BY <2>1, <3>2 DEF CacheTypeOK
      <4>2. writer[v].version \in Nat
        BY <4>1 DEF WriterRow, Done
      <4> QED
        BY <1>0, <2>2, <4>1, <4>2
    <3> QED
      BY <3>1, <3>2
  <2> QED
    BY <2>4, <2>6, <2>7, <2>8, <2>9
<1>2. CASE Answer(w)
  <2>1. /\ writer[w].step = "committed"
        /\ generation' = generation + 1 /\ entry' = Nothing
        /\ answered' = Max({answered, writer[w].version})
        /\ writer' = [writer EXCEPT ![w] = Done]
        /\ UNCHANGED <<committed, reader>>
    BY <1>2 DEF Answer
  <2>2. answered' \in Nat /\ answered' <= version
    <3>1. writer[w].version \in Nat /\ writer[w].version <= version
      BY <1>0, <2>1 DEF WriterRow, Done
    <3>2. answered' \in {answered, writer[w].version}
      <4>1. \E x \in {answered, writer[w].version} :
                \A y \in {answered, writer[w].version} : x >= y
        BY <3>1 DEF CacheTypeOK
      <4> QED
        BY <2>1, <4>1 DEF Max
    <3> QED
      BY <3>1, <3>2 DEF CacheTypeOK
  <2>3. CacheTypeOK'
    BY <2>1, <2>2, ReadCacheAssumption DEF CacheTypeOK, WriterRow, Nothing
  <2>4. EntryOK'
    BY <2>1, ReadCacheAssumption DEF EntryOK, Nothing
  <2>5. ASSUME NEW r \in Readers PROVE ReadOK(r)'
    <3>1. ReadOK(r) /\ reader'[r] = reader[r] /\ reader[r] \in ReaderRow
      BY <2>1 DEF CacheTypeOK
    <3>2. reader[r].step \in {"missed", "computed"} => reader[r].generation \in Nat
      BY <3>1, ReaderSteps DEF Missed, Computed
    <3> QED
      BY <2>1, <3>1, <3>2 DEF ReadOK, MissesOnlyLater, version, CacheTypeOK
  <2>6. \A v \in Writers : writer'[v].step = "committed" => writer'[v] = writer[v]
    BY <2>1 DEF CacheTypeOK, Done
  <2>7. version' = version
    BY <2>1 DEF version
  <2> QED
    BY <2>2, <2>3, <2>4, <2>5, <2>6, <2>7
<1>3. CASE AnswerError(w)
  <2>1. /\ writer' = [writer EXCEPT ![w] = Done]
        /\ UNCHANGED <<committed, answered, entry, generation, reader>>
    BY <1>3 DEF AnswerError
  <2>2. CacheTypeOK'
    BY <2>1 DEF CacheTypeOK, WriterRow
  <2>3. \A v \in Writers : writer'[v].step = "committed" => writer'[v] = writer[v]
    BY <2>1 DEF CacheTypeOK, Done
  <2>4. version' = version
    BY <2>1 DEF version
  <2>5. EntryOK' /\ \A r \in Readers : ReadOK(r)'
    BY <2>1, <2>4 DEF EntryOK, ReadOK, MissesOnlyLater
  <2> QED
    BY <2>1, <2>2, <2>3, <2>4, <2>5
<1> QED
  BY <1>1, <1>2, <1>3

LEMMA CacheStep == CacheInv /\ [CacheNext]_cacheVars => CacheInv'
<1> SUFFICES ASSUME CacheInv, [CacheNext]_cacheVars PROVE CacheInv'
  OBVIOUS
<1> USE DEF CacheInv
<1>0. version \in Nat /\ DOMAIN committed = 1..version
  BY DEF CacheTypeOK, version
<1>1. CASE TickCache
  <2>1. /\ committed' = [v \in 1..version |-> Older(committed[v])]
        /\ entry' = [entry EXCEPT !.age = Older(@)]
        /\ reader' = [r \in Readers |->
               IF reader[r].step \in {"missed", "computed"}
               THEN [reader[r] EXCEPT !.age = Older(@)] ELSE reader[r]]
        /\ UNCHANGED <<answered, writer, generation>>
    BY <1>1 DEF TickCache
  <2>2. \A a \in Nat : Older(a) \in Nat /\ Older(a) >= a
    BY DEF Older
  <2>3. \A a, b \in Nat : a <= b => Older(a) <= Older(b)
    BY ReadCacheAssumption DEF Older
  <2>4. committed' \in Seq(Nat) /\ version' = version
    <3>1. \A v \in 1..version : committed[v] \in Nat
      BY <1>0 DEF CacheTypeOK
    <3>2. committed' \in [1..version -> Nat]
      BY <2>1, <2>2, <3>1
    <3>3. committed' \in Seq(Nat)
      BY <1>0, <3>2, SeqDef
    <3>4. DOMAIN committed' = 1..version
      BY <2>1
    <3>5. Len(committed') = version
      BY <1>0, <3>3, <3>4
    <3> QED
      BY <3>3, <3>5 DEF version
  <2>5. \A v, ticks \in Nat : MissesOnlyLater(v, ticks) =>
            \A u \in 1..version' : u > v => committed'[u] <= Older(ticks)
    <3>1. \A u \in 1..version : committed[u] \in Nat /\ committed'[u] = Older(committed[u])
      BY <1>0, <2>1 DEF CacheTypeOK
    <3> QED
      BY <2>3, <2>4, <3>1 DEF MissesOnlyLater
  <2>6. entry' \in [version : Nat, age : Nat] /\ EntryOK'
    <3>1. /\ entry'.version = entry.version /\ entry'.age = Older(entry.age)
          /\ entry' \in [version : Nat, age : Nat]
      BY <2>1, <2>2 DEF CacheTypeOK
    <3>2. entry'.age < CacheTTL => entry.age < CacheTTL
      BY <2>2, <3>1, ReadCacheAssumption DEF CacheTypeOK
    <3>3. MissesOnlyLater(entry.version, entry.age) =>
              \A u \in 1..version' : u > entry.version => committed'[u] <= Older(entry.age)
      BY <2>5 DEF CacheTypeOK
    <3> QED
      BY <2>1, <3>1, <3>2, <3>3 DEF EntryOK, MissesOnlyLater
  <2>7. ASSUME NEW r \in Readers PROVE reader'[r] \in ReaderRow /\ ReadOK(r)'
    <3>0. reader[r] \in ReaderRow /\ ReadOK(r)
      BY DEF CacheTypeOK
    <3>1. CASE reader[r].step = "missed"
      <4>1. reader'[r] = [reader[r] EXCEPT !.age = Older(@)] /\ reader[r] \in Missed
        BY <2>1, <3>0, <3>1, ReaderSteps
      <4>2. /\ reader'[r] \in Missed
            /\ reader'[r].generation = reader[r].generation
            /\ reader'[r].expected = reader[r].expected
        BY <2>2, <4>1 DEF Missed
      <4>3. reader'[r].step = "missed"
        BY <4>2 DEF Missed
      <4> QED
        BY <2>1, <2>4, <3>0, <3>1, <4>2, <4>3 DEF ReadOK, ReaderRow
    <3>2. CASE reader[r].step = "computed"
      <4>1. reader'[r] = [reader[r] EXCEPT !.age = Older(@)] /\ reader[r] \in Computed
        BY <2>1, <3>0, <3>2, ReaderSteps
      <4>2. /\ reader'[r] \in Computed
            /\ reader'[r].generation = reader[r].generation
            /\ reader'[r].expected = reader[r].expected
            /\ reader'[r].version = reader[r].version
            /\ reader'[r].age = Older(reader[r].age)
        BY <2>2, <4>1 DEF Computed
      <4>3. reader'[r].step = "computed"
        BY <4>2 DEF Computed
      <4>4. \A u \in 1..version' :
                u > reader[r].version => committed'[u] <= Older(reader[r].age)
        BY <2>5, <3>0, <3>2, <4>1 DEF ReadOK, Computed
      <4>5. reader'[r] \in ReaderRow
        BY <4>2 DEF ReaderRow
      <4> QED
        BY <2>1, <2>4, <3>0, <3>2, <4>2, <4>3, <4>4, <4>5 DEF ReadOK, MissesOnlyLater
    <3>3. CASE reader[r].step \notin {"missed", "computed"}
      BY <2>1, <3>0, <3>3 DEF ReadOK
    <3> QED
      BY <3>1, <3>2, <3>3
  <2>8. CacheTypeOK'
    BY <2>1, <2>4, <2>6, <2>7 DEF CacheTypeOK
  <2> QED
    BY <2>1, <2>4, <2>6, <2>7, <2>8
<1>2. CASE RestartCache
  <2>1. CacheTypeOK'
    BY <1>2, ReadCacheAssumption DEF RestartCache, CacheTypeOK, ReaderRow, WriterRow, Nothing
  <2>2. EntryOK'
    BY <1>2, ReadCacheAssumption DEF RestartCache, EntryOK, Nothing
  <2>3. \A r \in Readers : ReadOK(r)'
    BY <1>2 DEF RestartCache, ReadOK, Asleep
  <2>4. \A w \in Writers : writer'[w].step = "committed" => writer'[w] = writer[w]
    BY <1>2 DEF RestartCache, Done
  <2>5. version' = version /\ answered' = answered
    BY <1>2 DEF RestartCache, version
  <2> QED
    BY <2>1, <2>2, <2>3, <2>4, <2>5
<1>3. CASE UNCHANGED cacheVars
  BY <1>3 DEF cacheVars, CacheTypeOK, EntryOK, ReadOK, MissesOnlyLater, version
<1> QED
  BY <1>1, <1>2, <1>3, ReadsStep, WritesStep DEF CacheNext

LEMMA CacheKept == CacheInv => NoStaleReads
  BY DEF CacheInv, ReadOK, NoStaleReads

----------------------------------------------------------------------------
(* The activity log tells what is committed, for any number of sessions,   *)
(* values and entries: what a session has noted down is what it has        *)
(* written in its transaction, or is about to write (Matches).             *)

Entries == [verb : {"none", "create", "update", "delete"},
            from : Settings \cup {Unset}, to : Settings \cup {Unset}]
SessionRow ==
    [obj : BOOLEAN, seen : Settings \cup {Unset}, set : Settings \cup {Unset},
     noted : BOOLEAN, wrote : BOOLEAN, value : Settings \cup {Unset}, entry : Entries]

LogTypeOK ==
    /\ row \in Settings \cup {Unset}
    /\ log \in Seq(Entries)
    /\ session \in [Sessions -> SessionRow]

(* What a session has noted down is what it has written, or is about to.   *)
Matches(held) ==
    /\ held.noted => held.set # Unset /\ held.entry.to = held.set
                     /\ held.entry.verb # "none"
    /\ held.wrote => held.entry.verb # "none"
    /\ ~held.noted /\ held.entry.verb # "none" => held.wrote /\ held.entry.to = held.value

LogInv == LogTypeOK /\ \A s \in Sessions : Matches(session[s])

LEMMA LogStart == LogInit => LogInv
<1> SUFFICES ASSUME LogInit PROVE LogInv
  OBVIOUS
<1>1. LogTypeOK
  BY DEF LogInit, LogTypeOK, Closed, NoEntry, SessionRow, Entries
<1>2. \A s \in Sessions : Matches(session[s])
  BY DEF LogInit, Matches, Closed, NoEntry
<1> QED
  BY <1>1, <1>2 DEF LogInv

LEMMA ClosedMatches ==
    /\ Closed \in SessionRow /\ Matches(Closed)
    /\ \A kept \in BOOLEAN :
           [Closed EXCEPT !.obj = kept] \in SessionRow /\ Matches([Closed EXCEPT !.obj = kept])
  BY DEF Closed, NoEntry, SessionRow, Entries, Matches

(* A session that holds `held` afterwards. *)
LEMMA OneSession ==
    ASSUME LogInv, NEW s \in Sessions, NEW held \in SessionRow, Matches(held),
           Hold(s, held), row' \in Settings \cup {Unset}, log' \in Seq(Entries)
    PROVE  LogInv'
<1>1. \A t \in Sessions : session'[t] = IF t = s THEN held ELSE session[t]
  BY DEF LogInv, LogTypeOK, Hold
<1>2. LogTypeOK'
  BY DEF LogInv, LogTypeOK, Hold
<1>3. \A t \in Sessions : Matches(session'[t])
  BY <1>1 DEF LogInv
<1>4. (\A t \in Sessions : Matches(session[t]))'
  BY <1>3 DEF Matches
<1> QED
  BY <1>2, <1>4 DEF LogInv

LEMMA LogStep == LogInv /\ [LogNext]_logVars => LogInv'
<1> SUFFICES ASSUME LogInv, [LogNext]_logVars PROVE LogInv'
  OBVIOUS
<1> USE DEF LogInv
<1>0. ASSUME NEW s \in Sessions
      PROVE  /\ session[s] \in SessionRow /\ Matches(session[s])
             /\ Stored(s) \in Settings \cup {Unset}
  BY DEF LogTypeOK, SessionRow, Stored
<1>1. ASSUME NEW s \in Sessions, Load(s) PROVE LogInv'
  <2> DEFINE held == [session[s] EXCEPT !.obj = TRUE, !.seen = Stored(s)]
  <2>1. Hold(s, held) /\ UNCHANGED <<row, log>>
    BY <1>1 DEF Load
  <2>2. held \in SessionRow
    BY <1>0 DEF SessionRow
  <2>3. Matches(held)
    BY <1>0 DEF SessionRow, Matches
  <2> HIDE DEF held
  <2> QED
    BY <2>1, <2>2, <2>3, OneSession DEF LogTypeOK
<1>2. ASSUME NEW s \in Sessions, NEW v \in Settings, Assign(s, v) PROVE LogInv'
  <2> DEFINE held == [session[s] EXCEPT !.set = IF v = session[s].seen THEN Unset ELSE v]
  <2>1. Hold(s, held) /\ ~session[s].noted /\ UNCHANGED <<row, log>>
    BY <1>2 DEF Assign
  <2>2. held \in SessionRow
    BY <1>0 DEF SessionRow
  <2>3. Matches(held)
    BY <1>0, <2>1 DEF SessionRow, Matches
  <2> HIDE DEF held
  <2> QED
    BY <2>1, <2>2, <2>3, OneSession DEF LogTypeOK
<1>3. ASSUME NEW s \in Sessions, NoteUpdate(s) PROVE LogInv'
  <2> DEFINE was == session[s]
             from == IF was.seen # Unset THEN was.seen ELSE Stored(s)
             entry2 == Noted(was.entry, from, was.set)
             held == [was EXCEPT !.noted = TRUE, !.entry = entry2]
  <2>1. Hold(s, held) /\ was.set # Unset /\ UNCHANGED <<row, log>>
    BY <1>3 DEF NoteUpdate
  <2>2. was \in SessionRow /\ from \in Settings \cup {Unset}
    BY <1>0 DEF SessionRow
  <2> HIDE DEF was, from
  <2>3. entry2 \in Entries /\ entry2.to = was.set /\ entry2.verb # "none"
    BY <2>2 DEF SessionRow, Entries, Noted
  <2> HIDE DEF entry2
  <2>4. held \in SessionRow
    BY <2>2, <2>3 DEF SessionRow
  <2>5. Matches(held)
    BY <2>1, <2>2, <2>3 DEF SessionRow, Matches
  <2> HIDE DEF held
  <2> QED
    BY <2>1, <2>4, <2>5, OneSession DEF LogTypeOK
<1>4. ASSUME NEW s \in Sessions, FlushUpdate(s) PROVE LogInv'
  <2>1. UNCHANGED <<row, log>> /\ session[s].noted
    BY <1>4 DEF FlushUpdate
  <2>2. CASE Stored(s) # Unset
    <3> DEFINE was == session[s]
               held == [was EXCEPT !.noted = FALSE, !.seen = was.set, !.set = Unset,
                                   !.wrote = TRUE, !.value = was.set]
    <3>1. Hold(s, held)
      BY <1>4, <2>2 DEF FlushUpdate
    <3>2. held \in SessionRow
      BY <1>0 DEF SessionRow
    <3>3. Matches(held)
      BY <1>0, <2>1 DEF SessionRow, Matches
    <3> HIDE DEF held
    <3> QED
      BY <2>1, <3>1, <3>2, <3>3, OneSession DEF LogTypeOK
  <2>3. CASE Stored(s) = Unset
    <3>1. Hold(s, [Closed EXCEPT !.obj = FALSE])
      BY <1>4, <2>3 DEF FlushUpdate, Dropped, Expired
    <3> QED
      BY <2>1, <3>1, ClosedMatches, OneSession DEF LogTypeOK
  <2> QED
    BY <2>2, <2>3
<1>5. ASSUME NEW s \in Sessions, NEW v \in Settings, FlushInsert(s, v) PROVE LogInv'
  <2> DEFINE held == [Closed EXCEPT !.obj = TRUE, !.seen = v, !.wrote = TRUE, !.value = v,
                          !.entry = [verb |-> "create", from |-> Unset, to |-> v]]
  <2>1. Hold(s, held) /\ UNCHANGED <<row, log>>
    BY <1>5 DEF FlushInsert
  <2>2. held \in SessionRow /\ Matches(held)
    BY DEF Closed, SessionRow, Entries, Matches
  <2> HIDE DEF held
  <2> QED
    BY <2>1, <2>2, OneSession DEF LogTypeOK
<1>6. ASSUME NEW s \in Sessions, FlushDelete(s) PROVE LogInv'
  <2> DEFINE held == [Closed EXCEPT !.wrote = TRUE,
                          !.entry = [verb |-> "delete", from |-> Unset, to |-> Unset]]
  <2>1. Hold(s, held) /\ UNCHANGED <<row, log>>
    BY <1>6 DEF FlushDelete
  <2>2. held \in SessionRow /\ Matches(held)
    BY DEF Closed, SessionRow, Entries, Matches
  <2> HIDE DEF held
  <2> QED
    BY <2>1, <2>2, OneSession DEF LogTypeOK
<1>7. ASSUME NEW s \in Sessions, CommitEntries(s) PROVE LogInv'
  <2>1. /\ row' = Stored(s) /\ log' = log \o EntriesOf(session[s].entry)
        /\ Hold(s, [Closed EXCEPT !.obj = (Stored(s) # Unset)])
    BY <1>7 DEF CommitEntries, Expired
  <2>2. EntriesOf(session[s].entry) \in Seq(Entries)
    BY <1>0 DEF EntriesOf, SessionRow
  <2>3. log' \in Seq(Entries)
    BY <2>1, <2>2 DEF LogTypeOK
  <2> QED
    BY <1>0, <2>1, <2>3, ClosedMatches, OneSession
<1>8. ASSUME NEW s \in Sessions, Rollback(s) PROVE LogInv'
  <2>1. /\ UNCHANGED <<row, log>> /\ Hold(s, [Closed EXCEPT !.obj = (row # Unset)])
    BY <1>8 DEF Rollback, Dropped, Expired
  <2> QED
    BY <2>1, ClosedMatches, OneSession DEF LogTypeOK
<1>9. ASSUME NEW s \in Sessions, Close(s) PROVE LogInv'
  BY <1>9, ClosedMatches, OneSession DEF Close, LogTypeOK
<1>10. CASE UNCHANGED logVars
  BY <1>10 DEF logVars, LogTypeOK, Matches
<1> QED
  BY <1>1, <1>2, <1>3, <1>4, <1>5, <1>6, <1>7, <1>8, <1>9, <1>10 DEF LogNext

(* Only a commit writes the log and the row. *)
Told == /\ log' # log => Last(log').to = row'
        /\ row' # row => \/ log' # log
                         \/ \E s \in Sessions : PutBack(s)

LEMMA LogTold == LogInv /\ [LogNext]_logVars => [Told]_logVars
<1> SUFFICES ASSUME LogInv, [LogNext]_logVars PROVE Told
  OBVIOUS
<1>1. CASE UNCHANGED <<row, log>>
  BY <1>1 DEF Told
<1>2. ASSUME NEW s \in Sessions, CommitEntries(s) PROVE Told
  <2> DEFINE held == session[s]
             e == held.entry
  <2>1. held.set = Unset /\ row' = Stored(s) /\ log' = log \o EntriesOf(e)
    BY <1>2 DEF CommitEntries
  <2>2. held \in SessionRow /\ Matches(held) /\ e \in Entries /\ log \in Seq(Entries)
    BY DEF LogInv, LogTypeOK, SessionRow
  <2>3. ~held.noted
    BY <2>1, <2>2 DEF Matches
  <2>4. e.verb # "none" => row' = e.to
    BY <2>1, <2>2, <2>3 DEF Matches, Stored
  <2>5. e.verb = "none" => row' = row /\ log' = log
    BY <2>1, <2>2 DEF Matches, Stored, EntriesOf
  <2>6. CASE e.verb = "update" /\ e.from = e.to
    <3>1. log' = log
      BY <2>1, <2>2, <2>6 DEF EntriesOf
    <3>2. PutBack(s)
      BY <2>4, <2>6 DEF PutBack
    <3> QED
      BY <3>1, <3>2 DEF Told
  <2>7. CASE e.verb # "none" /\ ~(e.verb = "update" /\ e.from = e.to)
    <3>1. log' = log \o <<e>>
      BY <2>1, <2>7 DEF EntriesOf
    <3> HIDE DEF e, held
    <3>2. log' # log /\ Last(log') = e
      BY <2>2, <3>1 DEF Last
    <3> QED
      BY <2>4, <2>7, <3>2 DEF Told
  <2> QED
    BY <2>5, <2>6, <2>7 DEF Told
<1>3. UNCHANGED <<row, log>> \/ \E s \in Sessions : CommitEntries(s)
  BY DEF LogNext, logVars, Load, Assign, NoteUpdate, FlushUpdate, FlushInsert,
         FlushDelete, Rollback, Close
<1> QED
  BY <1>1, <1>2, <1>3

----------------------------------------------------------------------------
(* Shared links *)

LinkTypeOK ==
    /\ link \in {"none", "on", "off"}
    /\ pdf \in BOOLEAN /\ toldOff \in BOOLEAN /\ clash \in BOOLEAN
    /\ sharing \in [step : {"idle", "found", "written"}, found : {"none", "on", "off"}]
    /\ sharing.step = "idle" => sharing = NotSharing
    /\ turningOff \in [Admins -> {"idle", "found", "deleted"}]
    /\ visit \in [Visitors -> [step : {"idle", "found", "served"}, late : BOOLEAN]]

(* Who was told it is off was told the truth, and no visit begins then. *)
ToldTheTruth ==
    /\ toldOff => sharing = NotSharing /\ link = "off"
    /\ \A v \in Visitors : ~visit[v].late

(* As long as nothing overlapped: nobody turns it off while it is shared,  *)
(* and only a turning off under way may have taken the PDF from a link     *)
(* that is on.                                                             *)
LinkAndPdf ==
    /\ sharing.step # "idle" =>
           /\ \A a \in Admins : turningOff[a] = "idle"
           /\ sharing.found = link
    /\ sharing.step = "idle" =>
           /\ pdf => link = "on"
           /\ link = "on" => pdf \/ \E a \in Admins : turningOff[a] = "deleted"
           /\ \A a \in Admins : turningOff[a] = "deleted" => ~pdf
    /\ sharing.step = "written" => pdf

LinkInv == LinkTypeOK /\ ToldTheTruth /\ (~clash => LinkAndPdf)

LEMMA LinksStart == LinksInit => LinkInv
<1> SUFFICES ASSUME LinksInit PROVE LinkInv
  OBVIOUS
<1> USE DEF LinksInit, NotSharing, NoVisit
<1>1. LinkTypeOK
  BY DEF LinkTypeOK
<1>2. ToldTheTruth
  BY DEF ToldTheTruth
<1>3. LinkAndPdf
  BY DEF LinkAndPdf
<1> QED
  BY <1>1, <1>2, <1>3 DEF LinkInv

LEMMA LinksStep == LinkInv /\ [LinksNext]_linkVars => LinkInv'
<1> SUFFICES ASSUME LinkInv, [LinksNext]_linkVars PROVE LinkInv'
  OBVIOUS
<1> USE DEF LinkInv, LinkTypeOK, ToldTheTruth, LinkAndPdf, NotSharing, NoVisit
<1>1. CASE Share
  BY <1>1 DEF Share
<1>2. CASE WritePdf
  BY <1>2 DEF WritePdf
<1>3. CASE SaveShare
  BY <1>3 DEF SaveShare, Saved
<1>4. CASE LinkExpires
  BY <1>4 DEF LinkExpires
<1>5. CASE RestartLinks
  BY <1>5 DEF RestartLinks
<1>6. ASSUME NEW a \in Admins, TurnOff(a) PROVE LinkInv'
  <2>1. LinkTypeOK'
    BY <1>6 DEF TurnOff
  <2>2. ToldTheTruth'
    BY <1>6 DEF TurnOff
  <2>3. ASSUME ~clash' PROVE LinkAndPdf'
    <3>1. ~clash /\ sharing = NotSharing /\ UNCHANGED <<link, pdf, sharing>>
      BY <1>6, <2>3 DEF TurnOff
    <3>2. \A b \in Admins : turningOff'[b] = "deleted" <=> turningOff[b] = "deleted"
      BY <1>6 DEF TurnOff
    <3> QED
      BY <3>1, <3>2
  <2> QED
    BY <2>1, <2>2, <2>3
<1>7. ASSUME NEW a \in Admins, DeletePdf(a) PROVE LinkInv'
  BY <1>7 DEF DeletePdf
<1>8. ASSUME NEW a \in Admins, SaveOff(a) PROVE LinkInv'
  BY <1>8 DEF SaveOff
<1>9. ASSUME NEW v \in Visitors, OpenLink(v) PROVE LinkInv'
  BY <1>9 DEF OpenLink, Active
<1>10. ASSUME NEW v \in Visitors, SendPdf(v) PROVE LinkInv'
  BY <1>10 DEF SendPdf
<1>11. ASSUME NEW v \in Visitors, Leaves(v) PROVE LinkInv'
  BY <1>11 DEF Leaves
<1>12. CASE UNCHANGED linkVars
  BY <1>12 DEF linkVars
<1> QED
  BY <1>1, <1>2, <1>3, <1>4, <1>5, <1>6, <1>7, <1>8, <1>9, <1>10, <1>11, <1>12
  DEF LinksNext

LEMMA LinksKept == LinkInv => LinksKeepTheirWord
  BY DEF LinkInv, LinkTypeOK, ToldTheTruth, LinkAndPdf, LinksKeepTheirWord, NotSharing

----------------------------------------------------------------------------
(* Backups *)

Begun == [step : {"dumping", "deleting"}, by : {"cron", "admin"}, dump : Dumps]
LeftAlone == [step : {"left alone"}, dump : Dumps]
ScriptRow == {NotRun} \cup Begun \cup LeftAlone

BackupTypeOK ==
    /\ dump \in [Dumps -> {"none", "part", "whole"}]
    /\ age \in [Dumps -> Nat]
    /\ script \in [Scripts -> ScriptRow]

(* What a script writes is new, is its own, and is whole once the script   *)
(* deletes old ones.                                                       *)
OwnDump ==
    /\ \A r \in Scripts : script[r].step # "idle" =>
           /\ age[script[r].dump] = 0
           /\ dump[script[r].dump] = IF script[r].step = "deleting" THEN "whole" ELSE "part"
    /\ \A r, s \in Scripts :
           r # s /\ script[r].step # "idle" /\ script[s].step # "idle"
           => script[r].dump # script[s].dump

BackupInv == BackupTypeOK /\ OwnDump /\ NeverWithoutABackup

LEMMA ScriptSteps ==
    ASSUME NEW q \in ScriptRow
    PROVE  /\ q.step = "idle" <=> q = NotRun
           /\ q.step \in {"dumping", "deleting"} => q \in Begun
           /\ q.step = "left alone" => q \in LeftAlone
           /\ q.step # "idle" => q.dump \in Dumps
<1>0. NotRun.step = "idle"
  BY DEF NotRun
<1>1. CASE q = NotRun
  BY <1>0, <1>1
<1>2. CASE q \in Begun
  <2>1. q.step \in {"dumping", "deleting"} /\ q.dump \in Dumps
    BY <1>2 DEF Begun
  <2> QED
    BY <1>0, <1>2, <2>1
<1>3. CASE q \in LeftAlone
  <2>1. q.step = "left alone" /\ q.dump \in Dumps
    BY <1>3 DEF LeftAlone
  <2> QED
    BY <1>0, <1>3, <2>1
<1> QED
  BY <1>1, <1>2, <1>3 DEF ScriptRow

LEMMA BackupsStart == BackupsInit => BackupInv
<1> SUFFICES ASSUME BackupsInit PROVE BackupInv
  OBVIOUS
<1>1. BackupTypeOK
  BY DEF BackupsInit, BackupTypeOK, ScriptRow
<1>2. OwnDump /\ NeverWithoutABackup
  BY DEF BackupsInit, OwnDump, NeverWithoutABackup, NotRun
<1> QED
  BY <1>1, <1>2 DEF BackupInv

(* A script goes on to `q`, at most with its own dump changed. *)
LEMMA OneScript ==
    ASSUME BackupTypeOK, OwnDump, NEW r \in Scripts, NEW q \in ScriptRow,
           script' = [script EXCEPT ![r] = q],
           UNCHANGED age,
           dump' \in [Dumps -> {"none", "part", "whole"}],
           script[r].step # "idle",
           \A d \in Dumps : d # script[r].dump => dump'[d] = dump[d],
           q.step # "idle" =>
               /\ q.dump = script[r].dump
               /\ dump'[q.dump] = IF q.step = "deleting" THEN "whole" ELSE "part"
    PROVE  BackupTypeOK' /\ OwnDump'
<1>1. BackupTypeOK'
  BY DEF BackupTypeOK
<1>2. \A s \in Scripts : script'[s] = IF s = r THEN q ELSE script[s]
  BY DEF BackupTypeOK
<1>3. \A s \in Scripts : script[s] \in ScriptRow
  BY DEF BackupTypeOK
<1>4. \A s \in Scripts : s # r /\ script[s].step # "idle" =>
          dump'[script[s].dump] = dump[script[s].dump]
  BY <1>3, ScriptSteps DEF OwnDump
<1> QED
  BY <1>1, <1>2, <1>4 DEF OwnDump

LEMMA BackupsStep == BackupInv /\ [BackupsNext]_backupVars => BackupInv'
<1> SUFFICES ASSUME BackupInv, [BackupsNext]_backupVars PROVE BackupInv'
  OBVIOUS
<1> USE DEF BackupInv
<1>0. \A r \in Scripts : script[r] \in ScriptRow
  BY DEF BackupTypeOK
<1>1. CASE DaysPass
  <2>1. BackupTypeOK'
    BY <1>1 DEF DaysPass, BackupTypeOK
  <2>2. ASSUME NEW r \in Scripts, script[r].step # "idle"
        PROVE  age'[script[r].dump] = age[script[r].dump]
    <3>1. script[r].dump \in Dumps /\ script[r] # NotRun
      BY <1>0, <2>2, ScriptSteps
    <3>2. BeingWritten(script[r].dump)
      BY <3>1 DEF BeingWritten
    <3> QED
      BY <1>1, <3>1, <3>2 DEF DaysPass
  <2>3. OwnDump'
    BY <1>1, <2>2 DEF DaysPass, OwnDump
  <2>4. NeverWithoutABackup'
    BY <1>1 DEF DaysPass, NeverWithoutABackup
  <2> QED
    BY <2>1, <2>3, <2>4
<1>2. CASE RestartBackups
  <2>1. ASSUME NEW r \in Scripts
        PROVE  /\ script'[r] \in ScriptRow
               /\ script'[r].step = script[r].step
               /\ script[r].step # "idle" => script'[r].dump = script[r].dump
    <3>1. CASE script[r].step \in {"dumping", "deleting"}
      <4>1. script[r] \in Begun
        BY <1>0, <3>1, ScriptSteps
      <4>2. script'[r] = [script[r] EXCEPT !.by = "cron"]
        BY <1>2, <3>1 DEF RestartBackups
      <4> QED
        BY <4>1, <4>2 DEF Begun, ScriptRow
    <3>2. CASE script[r].step \notin {"dumping", "deleting"}
      BY <1>0, <1>2, <3>2 DEF RestartBackups
    <3> QED
      BY <3>1, <3>2
  <2>2. BackupTypeOK'
    BY <1>2, <2>1 DEF RestartBackups, BackupTypeOK
  <2>3. OwnDump'
    BY <1>2, <2>1 DEF RestartBackups, OwnDump
  <2>4. NeverWithoutABackup'
    BY <1>2 DEF RestartBackups, NeverWithoutABackup
  <2> QED
    BY <2>2, <2>3, <2>4
<1>3. ASSUME NEW r \in Scripts, NEW by \in {"cron", "admin"}, NEW d \in Dumps,
             BeginBackup(r, by, d)
      PROVE  BackupInv'
  <2> DEFINE q == [step |-> "dumping", by |-> by, dump |-> d]
  <2>1. /\ script[r].step = "idle" /\ dump[d] = "none"
        /\ dump' = [dump EXCEPT ![d] = "part"]
        /\ age' = [age EXCEPT ![d] = 0]
        /\ script' = [script EXCEPT ![r] = q]
        /\ hadOne' = hadOne
    BY <1>3 DEF BeginBackup, NotRun
  <2>2. q \in ScriptRow /\ q.step = "dumping" /\ q.dump = d
    BY DEF ScriptRow, Begun
  <2> HIDE DEF q
  <2>3. BackupTypeOK'
    BY <2>1, <2>2 DEF BackupTypeOK
  <2>4. \A s \in Scripts : s # r /\ script[s].step # "idle" => script[s].dump \in Dumps \ {d}
    BY <1>0, <2>1, ScriptSteps DEF OwnDump
  <2>5. OwnDump'
    BY <2>1, <2>2, <2>4 DEF OwnDump, BackupTypeOK
  <2>6. NeverWithoutABackup'
    BY <2>1 DEF NeverWithoutABackup, BackupTypeOK
  <2> QED
    BY <2>3, <2>5, <2>6
<1>4. ASSUME NEW r \in Scripts, DumpIsWhole(r) PROVE BackupInv'
  <2> DEFINE q == [script[r] EXCEPT !.step = "deleting"]
  <2>1. /\ script[r].step = "dumping"
        /\ dump' = [dump EXCEPT ![script[r].dump] = "whole"]
        /\ script' = [script EXCEPT ![r] = q]
        /\ UNCHANGED age
    BY <1>4 DEF DumpIsWhole
  <2>2. script[r] \in Begun
    BY <1>0, <2>1, ScriptSteps
  <2>3. /\ q \in ScriptRow /\ q.step = "deleting" /\ q.dump = script[r].dump
        /\ script[r].dump \in Dumps
    BY <2>2 DEF Begun, ScriptRow
  <2> HIDE DEF q
  <2>4. BackupTypeOK' /\ OwnDump'
    BY <2>1, <2>3, OneScript DEF BackupTypeOK
  <2>5. NeverWithoutABackup'
    BY <2>1, <2>3 DEF NeverWithoutABackup, BackupTypeOK
  <2> QED
    BY <2>4, <2>5
<1>5. ASSUME NEW r \in Scripts, DumpFails(r) PROVE BackupInv'
  <2>1. /\ script[r].step = "dumping"
        /\ script' = [script EXCEPT ![r] = NotRun]
        /\ UNCHANGED <<dump, age, hadOne>>
    BY <1>5 DEF DumpFails
  <2>2. NotRun \in ScriptRow /\ NotRun.step = "idle"
    BY DEF ScriptRow, NotRun
  <2>3. BackupTypeOK' /\ OwnDump'
    BY <2>1, <2>2, OneScript DEF BackupTypeOK
  <2> QED
    BY <2>1, <2>3 DEF NeverWithoutABackup
<1>6. ASSUME NEW r \in Scripts, TimeOut(r) PROVE BackupInv'
  <2> DEFINE q == [step |-> "left alone", dump |-> script[r].dump]
  <2>1. /\ script[r].step = "dumping"
        /\ script' = [script EXCEPT ![r] = q]
        /\ UNCHANGED <<dump, age, hadOne>>
    BY <1>6 DEF TimeOut
  <2>2. /\ q \in ScriptRow /\ q.step = "left alone" /\ q.dump = script[r].dump
        /\ dump[script[r].dump] = "part"
    BY <1>0, <2>1, ScriptSteps DEF ScriptRow, LeftAlone, OwnDump
  <2> HIDE DEF q
  <2>3. BackupTypeOK' /\ OwnDump'
    BY <2>1, <2>2, OneScript DEF BackupTypeOK
  <2> QED
    BY <2>1, <2>3 DEF NeverWithoutABackup
<1>7. ASSUME NEW r \in Scripts, DeleteOld(r) PROVE BackupInv'
  <2> DEFINE old == {d \in Dumps : dump[d] # "none" /\ age[d] > KeepDays}
  <2>1. \A s \in Scripts : script[s].step # "idle" => script[s].dump \in Dumps \ old
    <3> TAKE s \in Scripts
    <3> HAVE script[s].step # "idle"
    <3>1. script[s].dump \in Dumps /\ age[script[s].dump] = 0
      BY <1>0, ScriptSteps DEF OwnDump
    <3>2. ~(0 > KeepDays)
      BY BackupsAssumption
    <3> QED
      BY <3>1, <3>2
  <2>2. /\ dump' = [d \in Dumps |-> IF d \in old THEN "none" ELSE dump[d]]
        /\ script' = [script EXCEPT ![r] = NotRun]
        /\ script[r].step = "deleting"
        /\ UNCHANGED <<age, hadOne>>
    BY <1>7 DEF DeleteOld
  <2>3. NotRun \in ScriptRow /\ NotRun.step = "idle"
    BY DEF ScriptRow, NotRun
  <2> HIDE DEF old
  <2>4. BackupTypeOK'
    BY <2>2, <2>3 DEF BackupTypeOK
  <2>5. \A s \in Scripts : script'[s] = IF s = r THEN NotRun ELSE script[s]
    BY <2>2 DEF BackupTypeOK
  <2>6. OwnDump'
    BY <2>1, <2>2, <2>3, <2>5 DEF OwnDump
  <2>7. NeverWithoutABackup'
    <3>1. script[r].dump \in Dumps \ old /\ dump[script[r].dump] = "whole"
      BY <2>1, <2>2 DEF OwnDump
    <3> QED
      BY <2>2, <3>1 DEF NeverWithoutABackup
  <2> QED
    BY <2>4, <2>6, <2>7
<1>8. ASSUME NEW r \in Scripts, NEW whole \in BOOLEAN, LeftAloneEnds(r, whole)
      PROVE  BackupInv'
  <2>1. /\ script[r].step = "left alone"
        /\ script' = [script EXCEPT ![r] = NotRun]
        /\ dump' = [dump EXCEPT ![script[r].dump] = IF whole THEN "whole" ELSE "part"]
        /\ hadOne' = (hadOne \/ whole)
        /\ UNCHANGED age
    BY <1>8 DEF LeftAloneEnds
  <2>2. /\ NotRun \in ScriptRow /\ NotRun.step = "idle"
        /\ script[r].dump \in Dumps /\ dump[script[r].dump] = "part"
    BY <1>0, <2>1, ScriptSteps DEF ScriptRow, NotRun, OwnDump
  <2>3. BackupTypeOK' /\ OwnDump'
    BY <2>1, <2>2, OneScript DEF BackupTypeOK
  <2>4. NeverWithoutABackup'
    BY <2>1, <2>2 DEF NeverWithoutABackup, BackupTypeOK
  <2> QED
    BY <2>3, <2>4
<1>9. CASE UNCHANGED backupVars
  BY <1>9 DEF backupVars, BackupTypeOK, OwnDump, NeverWithoutABackup
<1> QED
  BY <1>1, <1>2, <1>3, <1>4, <1>5, <1>6, <1>7, <1>8, <1>9 DEF BackupsNext

----------------------------------------------------------------------------
(* The health monitor *)

RequestRow == {Away} \cup [step : {"running"}, minute : {0}]
              \cup [step : {"stamped"}, minute : 0..minute]
Busy == {c \in Clients : served[c] # Away}

HealthTypeOK ==
    /\ minute \in 0..LastMinute
    /\ inFlight \in Nat
    /\ served \in [Clients -> RequestRow]
    /\ ended \in [0..LastMinute -> Nat]
    /\ Kept \subseteq 0..LastMinute
    /\ \A m \in Kept : minutes[m] \in Nat
    /\ refreshing \in BOOLEAN
    /\ scan \in [ScanJobs -> {"idle", "walking", "leaving"}]

(* Of the minutes a window can reach, what is kept is right and what is    *)
(* not kept has nothing to count.                                          *)
WindowIsRight ==
    \A m \in 0..LastMinute :
        m > minute - MinutesKept => ended[m] = IF m \in Kept THEN minutes[m] ELSE 0

FlightIsCounted == IsFiniteSet(Busy) /\ inFlight = Cardinality(Busy)

OneScan ==
    /\ refreshing <=> \E j \in ScanJobs : scan[j] # "idle"
    /\ \A j, k \in ScanJobs : scan[j] # "idle" /\ scan[k] # "idle" => j = k

HealthInv == HealthTypeOK /\ WindowIsRight /\ FlightIsCounted /\ OneScan

LEMMA HealthStart == HealthInit => HealthInv
<1> SUFFICES ASSUME HealthInit PROVE HealthInv
  OBVIOUS
<1> USE DEF HealthInit, Kept
<1>1. HealthTypeOK
  BY HealthMonitorAssumption DEF HealthTypeOK, RequestRow
<1>2. WindowIsRight
  BY DEF WindowIsRight
<1>3. Busy = {}
  BY DEF Busy
<1>4. FlightIsCounted
  BY <1>3, FS_EmptySet DEF FlightIsCounted
<1>5. OneScan
  BY DEF OneScan
<1> QED
  BY <1>1, <1>2, <1>4, <1>5 DEF HealthInv

(* A request comes or goes: one more or one less is busy. *)
LEMMA OneMoreBusy ==
    ASSUME NEW c \in Clients, FlightIsCounted, inFlight \in Nat, served[c] = Away,
           NEW B, B = Busy \cup {c}
    PROVE  IsFiniteSet(B) /\ inFlight + 1 = Cardinality(B)
<1>1. c \notin Busy
  BY DEF Busy
<1> QED
  BY <1>1, FS_AddElement DEF FlightIsCounted

LEMMA OneLessBusy ==
    ASSUME NEW c \in Clients, FlightIsCounted, inFlight \in Nat, served[c] # Away,
           NEW B, B = Busy \ {c}
    PROVE  /\ IsFiniteSet(B) /\ inFlight > 0
           /\ inFlight - 1 = Cardinality(B)
<1>1. c \in Busy
  BY DEF Busy
<1>2. IsFiniteSet(B) /\ Cardinality(B) = Cardinality(Busy) - 1 /\ Cardinality(B) \in Nat
  BY <1>1, FS_RemoveElement, FS_CardinalityType, FS_Subset DEF FlightIsCounted
<1> QED
  BY <1>2 DEF FlightIsCounted

LEMMA ServeKeepsHealth ==
    ASSUME HealthInv, NEW c \in Clients,
           \/ BeginRequest(c)
           \/ StampRequest(c)
           \/ \E counted \in BOOLEAN : RecordRequest(c, counted)
    PROVE  HealthInv'
<1> USE DEF HealthInv
<1>0. /\ minute \in 0..LastMinute /\ LastMinute \in Nat /\ minute \in Nat
      /\ inFlight \in Nat /\ served[c] \in RequestRow
  BY HealthMonitorAssumption DEF HealthTypeOK
<1>1. CASE BeginRequest(c)
  <2>1. /\ served[c] = Away /\ inFlight' = inFlight + 1
        /\ served' = [served EXCEPT ![c].step = "running"]
        /\ UNCHANGED <<minute, minutes, ended, refreshing, scan>>
    BY <1>1 DEF BeginRequest
  <2>2. served'[c] = [step |-> "running", minute |-> 0] /\ served'[c] # Away
    BY <2>1 DEF HealthTypeOK, Away
  <2>3. \A d \in Clients : d # c => served'[d] = served[d]
    BY <2>1 DEF HealthTypeOK
  <2>4. Busy' = Busy \cup {c}
    BY <2>2, <2>3 DEF Busy, Away
  <2>5. HealthTypeOK'
    <3>1. served' \in [Clients -> RequestRow]
      BY <2>1, <2>2, <2>3 DEF HealthTypeOK, RequestRow
    <3> QED
      BY <1>0, <2>1, <3>1 DEF HealthTypeOK, RequestRow, Kept
  <2>6. FlightIsCounted'
    BY <1>0, <2>1, <2>4, OneMoreBusy DEF FlightIsCounted
  <2> QED
    BY <2>1, <2>5, <2>6 DEF WindowIsRight, OneScan, Kept
<1>2. CASE StampRequest(c)
  <2>1. /\ served[c].step = "running"
        /\ served' = [served EXCEPT ![c] = [step |-> "stamped", minute |-> minute]]
        /\ UNCHANGED <<minute, minutes, inFlight, ended, refreshing, scan>>
    BY <1>2 DEF StampRequest
  <2>2. /\ served'[c] = [step |-> "stamped", minute |-> minute]
        /\ served'[c] # Away /\ served[c] # Away
    BY <2>1 DEF HealthTypeOK, Away
  <2>3. \A d \in Clients : d # c => served'[d] = served[d]
    BY <2>1 DEF HealthTypeOK
  <2>4. Busy' = Busy
    BY <2>2, <2>3 DEF Busy, Away
  <2>5. HealthTypeOK'
    <3>1. served'[c] \in [step : {"stamped"}, minute : 0..minute]
      BY <1>0, <2>2
    <3>2. served' \in [Clients -> RequestRow]
      BY <2>1, <2>3, <3>1 DEF HealthTypeOK, RequestRow
    <3> QED
      BY <1>0, <2>1, <3>2 DEF HealthTypeOK, RequestRow, Kept
  <2> QED
    BY <2>1, <2>4, <2>5 DEF WindowIsRight, OneScan, FlightIsCounted, Kept
<1>3. ASSUME NEW counted \in BOOLEAN, RecordRequest(c, counted)
      PROVE  HealthInv'
  <2> DEFINE now == served[c].minute
             more == IF now \in Kept THEN minutes[now] + 1 ELSE 1
             keep == {k \in Kept \cup {now} : ~TooOld(k, now)}
  <2>1. /\ served[c].step = "stamped"
        /\ served' = [served EXCEPT ![c] = Away]
        /\ inFlight' = IF inFlight > 0 THEN inFlight - 1 ELSE 0
        /\ IF counted
           THEN /\ minutes' = [m \in keep |-> IF m = now THEN more ELSE minutes[m]]
                /\ ended' = [ended EXCEPT ![now] = @ + 1]
           ELSE UNCHANGED <<minutes, ended>>
        /\ UNCHANGED <<minute, refreshing, scan>>
    BY <1>3 DEF RecordRequest
  <2>2. served[c] # Away /\ now \in 0..minute /\ now \in 0..LastMinute
    BY <1>0, <2>1 DEF RequestRow, Away
  <2>3. served'[c] = Away /\ \A d \in Clients : d # c => served'[d] = served[d]
    BY <2>1 DEF HealthTypeOK
  <2>4. Busy' = Busy \ {c}
    BY <2>3 DEF Busy, Away
  <2>5. FlightIsCounted' /\ inFlight' \in Nat
    <3>1. IsFiniteSet(Busy') /\ inFlight > 0 /\ inFlight - 1 = Cardinality(Busy')
      BY <1>0, <2>2, <2>4, OneLessBusy
    <3> QED
      BY <1>0, <2>1, <3>1 DEF FlightIsCounted
  <2>6. served' \in [Clients -> RequestRow] /\ RequestRow' = RequestRow
    BY <2>1, <2>3 DEF HealthTypeOK, RequestRow, Away
  <2>7. CASE ~counted
    BY <1>0, <2>1, <2>5, <2>6, <2>7 DEF HealthTypeOK, WindowIsRight, OneScan, Kept
  <2>8. CASE counted
    <3>1. /\ Kept' = keep
          /\ \A m \in keep : minutes'[m] = IF m = now THEN more ELSE minutes[m]
          /\ \A m \in 0..LastMinute : ended'[m] = IF m = now THEN ended[m] + 1 ELSE ended[m]
          /\ ended' = [ended EXCEPT ![now] = @ + 1]
      BY <2>1, <2>8 DEF Kept, HealthTypeOK
    <3>2. more \in Nat /\ keep \subseteq 0..LastMinute /\ \A m \in Kept : minutes[m] \in Nat
      <4>1. Kept \subseteq 0..LastMinute /\ \A m \in Kept : minutes[m] \in Nat
        BY DEF HealthTypeOK
      <4>2. more \in Nat
        BY <4>1
      <4> QED
        BY <2>2, <4>1, <4>2
    <3>3. \A m \in keep : minutes'[m] \in Nat
      BY <3>1, <3>2
    <3>4. HealthTypeOK'
      <4>1. ended' \in [0..LastMinute -> Nat]
        BY <2>2, <3>1 DEF HealthTypeOK
      <4> QED
        BY <2>1, <2>5, <2>6, <3>1, <3>2, <3>3, <4>1 DEF HealthTypeOK
    <3>5. WindowIsRight'
      <4> SUFFICES ASSUME NEW m \in 0..LastMinute, m > minute - MinutesKept
                   PROVE  ended'[m] = IF m \in keep THEN minutes'[m] ELSE 0
        BY <2>1, <3>1 DEF WindowIsRight
      <4>1. ended[m] = IF m \in Kept THEN minutes[m] ELSE 0
        BY DEF WindowIsRight
      <4>2. m \in keep <=> m \in Kept \/ m = now
        BY <1>0, <2>2, HealthMonitorAssumption DEF TooOld
      <4>3. CASE m = now
        BY <3>1, <3>2, <4>1, <4>2, <4>3
      <4>4. CASE m # now
        BY <3>1, <4>1, <4>2, <4>4
      <4> QED
        BY <4>3, <4>4
    <3> QED
      BY <2>1, <2>5, <3>4, <3>5 DEF OneScan
  <2> QED
    BY <2>7, <2>8
<1> QED
  BY <1>1, <1>2, <1>3

LEMMA HealthStep == HealthInv /\ [HealthNext]_healthVars => HealthInv'
<1> SUFFICES ASSUME HealthInv, [HealthNext]_healthVars PROVE HealthInv'
  OBVIOUS
<1> USE DEF HealthInv
<1>1. CASE MinutePasses
  <2>1. /\ minute' = minute + 1 /\ minute < LastMinute
        /\ UNCHANGED <<minutes, inFlight, served, ended, refreshing, scan>>
    BY <1>1 DEF MinutePasses
  <2>2. minute' \in 0..LastMinute /\ minute \in Nat
    BY <2>1, HealthMonitorAssumption DEF HealthTypeOK
  <2>3. RequestRow \subseteq RequestRow'
    BY <2>1, <2>2 DEF RequestRow
  <2>4. HealthTypeOK'
    BY <2>1, <2>2, <2>3 DEF HealthTypeOK, Kept
  <2>5. WindowIsRight'
    <3> SUFFICES ASSUME NEW m \in 0..LastMinute, m > minute' - MinutesKept
                 PROVE  ended[m] = IF m \in Kept THEN minutes[m] ELSE 0
      BY <2>1 DEF WindowIsRight, Kept
    <3>1. m > minute - MinutesKept
      BY <2>1, <2>2, HealthMonitorAssumption
    <3> QED
      BY <3>1 DEF WindowIsRight
  <2> QED
    BY <2>1, <2>4, <2>5 DEF FlightIsCounted, Busy, Away, OneScan
<1>2. ASSUME NEW c \in Clients,
             \/ BeginRequest(c)
             \/ StampRequest(c)
             \/ \E counted \in BOOLEAN : RecordRequest(c, counted)
      PROVE  HealthInv'
  BY <1>2, ServeKeepsHealth
<1>3. ASSUME NEW j \in ScanJobs, BeginScan(j) \/ ScanStep(j)
      PROVE  HealthInv'
  <2>1. UNCHANGED <<minute, minutes, inFlight, served, ended>>
    BY <1>3 DEF BeginScan, ScanStep, Publish, ScanFails, LowerFlag
  <2>2. HealthTypeOK' /\ OneScan'
    BY <1>3, <2>1 DEF BeginScan, MayScan, ScanStep, Publish, ScanFails, LowerFlag, HealthTypeOK,
                      OneScan, RequestRow, Kept
  <2> QED
    BY <2>1, <2>2 DEF WindowIsRight, FlightIsCounted, Busy, Away, Kept
<1>4. CASE UNCHANGED healthVars
  BY <1>4 DEF healthVars, HealthTypeOK, WindowIsRight, FlightIsCounted, OneScan, RequestRow,
              Busy, Away, Kept
<1> QED
  BY <1>1, <1>2, <1>3, <1>4 DEF HealthNext

LEMMA HealthKept == HealthInv => HealthIsTrue
<1> SUFFICES ASSUME HealthInv PROVE HealthIsTrue
  OBVIOUS
<1> USE DEF HealthInv
<1>1. ASSUME NEW window \in 1..MinutesKept
      PROVE  Summary(window) = SumOver({m \in 0..LastMinute : m > minute - window}, ended)
  <2> DEFINE W == {m \in 0..LastMinute : m > minute - window}
             T == {m \in Kept : m > minute - window}
  <2>1. IsFiniteSet(W) /\ T \in SUBSET W /\ IsFiniteSet(T)
    <3>1. IsFiniteSet(0..LastMinute)
      BY FS_Interval, HealthMonitorAssumption
    <3>2. W \in SUBSET (0..LastMinute) /\ T \in SUBSET W
      BY DEF HealthTypeOK
    <3>3. IsFiniteSet(W)
      BY <3>1, <3>2, FS_Subset
    <3> QED
      BY <3>2, <3>3, FS_Subset
  <2>2. \A m \in W : ended[m] \in Int /\ ended[m] = IF m \in Kept THEN minutes[m] ELSE 0
    <3> TAKE m \in W
    <3>1. m > minute - MinutesKept
      BY HealthMonitorAssumption DEF HealthTypeOK
    <3> QED
      BY <3>1 DEF WindowIsRight, HealthTypeOK
  <2>3. \A m \in T : ended[m] \in Int /\ minutes[m] = ended[m]
    BY <2>1, <2>2
  <2>4. \A m \in W \ T : ended[m] = 0
    BY <2>2
  <2> HIDE DEF W, T
  <2>5. SumFunctionOnSet(ended, W) = SumFunctionOnSet(ended, T)
    BY <2>1, <2>3, <2>4, SumOnPart
  <2>6. SumFunctionOnSet(minutes, T) = SumFunctionOnSet(ended, T)
    BY <2>1, <2>3, SumsAgree
  <2> QED
    BY <2>5, <2>6 DEF Summary, SumOver, W, T
<1>2. inFlight = Cardinality({c \in Clients : served[c] # Away})
  BY DEF FlightIsCounted, Busy
<1>3. Cardinality({j \in ScanJobs : scan[j] # "idle"}) <= 1
  <2> DEFINE S == {j \in ScanJobs : scan[j] # "idle"}
  <2>1. CASE S = {}
    <3> HIDE DEF S
    <3>1. Cardinality(S) = 0
      BY <2>1, FS_EmptySet
    <3> QED
      BY <3>1 DEF S
  <2>2. CASE S # {}
    <3>1. PICK j \in S : S = {j}
      BY <2>2 DEF OneScan
    <3> HIDE DEF S
    <3>2. Cardinality(S) = 1
      BY <3>1, FS_Singleton
    <3> QED
      BY <3>2 DEF S
  <2> QED
    BY <2>1, <2>2
<1> QED
  BY <1>1, <1>2, <1>3 DEF HealthIsTrue, OneScan

----------------------------------------------------------------------------
(* The server *)

ServerInv ==
    UploadInv /\ DownloadInv /\ CacheInv /\ LogInv /\ LinkInv /\ BackupInv /\ HealthInv

LEMMA ServerInvariant == Spec => []ServerInv
<1>1. Init => ServerInv
  BY UploadsStart, DownloadsStart, CacheStart, LogStart, LinksStart, BackupsStart, HealthStart
  DEF Init, ServerInv
<1>2. ServerInv /\ [Next]_vars => ServerInv'
  <2> SUFFICES ASSUME ServerInv, [Next]_vars PROVE ServerInv'
    OBVIOUS
  <2>1. /\ [UploadsNext]_uploadVars /\ [DownloadsNext]_downloadVars
        /\ [CacheNext]_cacheVars /\ [LogNext]_logVars
        /\ [LinksNext]_linkVars /\ [BackupsNext]_backupVars
        /\ [HealthNext]_healthVars
    BY DEF Next, ServeUploads, ServeDownloads, ServeReads, LogChanges, ServeLinks,
           BackUp, Monitor, vars, fileVars, recordVars, jobVars
  <2> QED
    BY <2>1, UploadsStep, DownloadsStep, CacheStep, LogStep, LinksStep, BackupsStep, HealthStep
    DEF ServerInv
<1> QED
  BY <1>1, <1>2, PTL DEF Spec

(* A link that was turned off leads nowhere, and one that is on to its PDF *)
(* (shared_documents/repository.py), for any number of admins and visitors.*)
THEOREM LinksAreTrue == Spec => []LinksKeepTheirWord
  BY ServerInvariant, LinksKept, PTL DEF ServerInv

(* backup_db.sh and run_backup never leave the folder without a whole dump *)
(* once there was one, for any number of scripts and any KeepDays.         *)
THEOREM BackupsStay == Spec => []NeverWithoutABackup
<1>1. ServerInv => NeverWithoutABackup
  BY DEF ServerInv, BackupInv
<1> QED
  BY <1>1, ServerInvariant, PTL

(* A stored file has every chunk and passed the check, and what counts as  *)
(* downloaded was delivered (chunked_upload.py, tracked_download.py), for  *)
(* any number of uploads, chunks, calls, files and downloads.              *)
THEOREM FilesAreWhole == Spec => []FilesArriveWhole
<1>1. ServerInv => FilesArriveWhole
  BY UploadsWhole DEF ServerInv, DownloadInv, FilesArriveWhole
<1> QED
  BY <1>1, ServerInvariant, PTL

(* No answer from the cache is older than what its reader was told is done *)
(* (ttl_cache.py, web_security.py), for any number of requests and any TTL.*)
THEOREM ReadsAreFresh == Spec => []NoStaleReads
  BY ServerInvariant, CacheKept, PTL DEF ServerInv

(* The activity log tells what was committed and nothing else              *)
(* (audit/tracker.py), for any number of sessions, values and entries.     *)
THEOREM TheLogIsTrue == Spec => LogTellsTheStory
<1>1. ServerInv /\ [Next]_vars => [Told]_logVars
  <2> SUFFICES ASSUME ServerInv, [Next]_vars PROVE [Told]_logVars
    OBVIOUS
  <2>1. [LogNext]_logVars
    BY DEF Next, ServeUploads, ServeDownloads, ServeReads, LogChanges, ServeLinks,
           BackUp, Monitor, vars, fileVars, recordVars, jobVars
  <2> QED
    BY <2>1, LogTold DEF ServerInv
<1> QED
  BY <1>1, ServerInvariant, PTL DEF Spec, LogTellsTheStory, Told

(* The System Health screen counts every request that ended in the window  *)
(* it shows and those in flight, and one job at a time walks the folders   *)
(* (system_health/collector.py, storage_report.py), for any number of      *)
(* requests and jobs and any window.                                       *)
THEOREM HealthScreenIsTrue == Spec => []HealthIsTrue
  BY ServerInvariant, HealthKept, PTL DEF ServerInv

=============================================================================
