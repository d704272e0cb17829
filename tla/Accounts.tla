------------------------------ MODULE Accounts ------------------------------
(***************************************************************************)
(* One account that somebody signs in to, of the staff or of a client: the *)
(* sessions it has issued and how they are revoked, the one-time reset     *)
(* codes, the invitation of a client, the lock after wrong passwords, and  *)
(* the account's trip to the bin and back.                                 *)
(*                                                                         *)
(* A request reads the row (`Login`, `ResetPassword`, ...) and writes what *)
(* it computed from that (`Finish...`).  A client's requests run in a pool *)
(* of threads, each with a session that keeps what it read.  The staff     *)
(* routes are coroutines without an await: one runs at a time.  But their  *)
(* cookie is checked in the pool before, and an admin who acts on the own  *)
(* account acts on the row as it was read then.                            *)
(***************************************************************************)
EXTENDS Naturals

CONSTANTS
    Requests,        \* the requests there may be at once
    MaxFailures,     \* LOGIN_MAX_FAILURES
    LockTime,        \* LOGIN_LOCKOUT_MINUTES, in ticks
    Codes,           \* reset codes, handed out in increasing order (bound)
    MaxRevocations,  \* bound: how often the sessions are revoked
    None             \* SQL's NULL

ASSUME AccountsAssumption ==
    /\ {MaxFailures, LockTime} \subseteq Nat \ {0}
    /\ Codes \subseteq Nat /\ MaxRevocations \in Nat
    /\ None \notin Nat

VARIABLES
    kind,      \* whose account it is
    row,       \* the row
    bin,       \* the snapshot of it in the bin
    session,   \* the token in the cookie of one browser
    req,       \* what each request has read
    revoked,   \* history: how often all sessions were revoked
    doubled,   \* history: a revocation wrote the version another had written
    undone,    \* history: a deletion took a snapshot, then version or code changed
    redeemed   \* history: how often each code was redeemed

vars == <<kind, row, bin, session, req, revoked, doubled, undone, redeemed>>

----------------------------------------------------------------------------
(* `joined`: activated, or made with a password as the staff's are.        *)
(* `until`: the ticks a lock has left, 0 when it has passed and nobody     *)
(* has cleared it.                                                         *)
AccountRow ==
    [place : {"unborn", "live", "bin"}, active : BOOLEAN, joined : BOOLEAN,
     tv : 0..MaxRevocations, code : Codes \cup {None}, fresh : BOOLEAN,
     invite : {"none", "open"},
     failed : 0..MaxFailures, until : 0..LockTime \cup {None}]

NewAccount ==
    [place |-> "unborn", active |-> TRUE, joined |-> FALSE, tv |-> 0,
     code |-> None, fresh |-> FALSE, invite |-> "none", failed |-> 0, until |-> None]

Idle == [op |-> "idle"]

Live == row.place = "live"
Locked(r) == r.until \in 1..LockTime

(* Coroutines run one at a time; threads do not wait. *)
NobodyRuns ==
    \/ kind = "client"
    \/ \A t \in Requests : req[t].op \in {"idle", "authenticated"}

MayRun(t) ==
    \/ kind = "client"
    \/ \A u \in Requests \ {t} : req[u].op \in {"idle", "authenticated"}

(* `read`: what the request goes on to use of what it has read. *)
Begin(t, op, read) ==
    /\ req[t] = Idle /\ MayRun(t)
    /\ req' = [req EXCEPT ![t] = [op |-> op, read |-> read]]
    /\ UNCHANGED <<kind, row, bin, session, revoked, doubled, undone, redeemed>>

(* What a request may do once it has read: nothing when the row is gone.   *)
Ends(t) == req' = [req EXCEPT ![t] = Idle]

Fails(t) == Ends(t) /\ UNCHANGED <<kind, row, bin, session, revoked, doubled, undone, redeemed>>

(* The number a token carries has to be the account's. *)
SignedIn == session # None /\ Live /\ row.active /\ row.joined /\ session.tv = row.tv

(* A token goes to this browser or to another one. *)
Issue(token) == session' \in {session, token}

(* Only columns that differ from what was read are written. *)
Cleared(r, read) ==
    [r EXCEPT !.failed = IF read.failed # 0 THEN 0 ELSE @,
              !.until = IF read.wasLocked THEN None ELSE @]

CountAndLock == [failed |-> row.failed, wasLocked |-> row.until # None]

----------------------------------------------------------------------------
(* Making an account. *)

CreateUser ==
    /\ kind = "staff" /\ row.place = "unborn"
    /\ row' = [NewAccount EXCEPT !.place = "live", !.joined = TRUE]
    /\ UNCHANGED <<kind, bin, session, req, revoked, doubled, undone, redeemed>>

(* An account that is active needs no invitation; one that is not gets a   *)
(* fresh one.                                                              *)
CreateInvite(t) ==
    /\ kind = "client" /\ row.place # "bin" /\ ~row.joined
    /\ Begin(t, "invite", row.place)

FinishInvite(t) ==
    /\ req[t].op = "invite"
    /\ IF row.place = req[t].read
       THEN /\ row' = [row EXCEPT !.place = "live", !.invite = "open"]
            /\ Ends(t)
            /\ UNCHANGED <<kind, bin, session, revoked, doubled, undone, redeemed>>
       ELSE Fails(t)

Activate(t) ==
    /\ kind = "client" /\ Live /\ row.invite = "open"
    /\ Begin(t, "activate", None)

(* The invitation is used up; the token of the automatic sign-in carries   *)
(* no number, which counts as 0.                                           *)
FinishActivate(t) ==
    /\ req[t].op = "activate"
    /\ IF Live
       THEN /\ row' = [row EXCEPT !.joined = TRUE, !.invite = "none"]
            /\ Issue([tv |-> 0, epoch |-> revoked, reread |-> FALSE])
            /\ Ends(t)
            /\ UNCHANGED <<kind, bin, revoked, doubled, undone, redeemed>>
       ELSE Fails(t)

(* The kill switch of the staff's accounts. *)
SetActive(active) ==
    /\ kind = "staff" /\ Live /\ NobodyRuns
    /\ row.active # active
    /\ row' = [row EXCEPT !.active = active]
    /\ UNCHANGED <<kind, bin, session, req, revoked, doubled, undone, redeemed>>

----------------------------------------------------------------------------
(* Signing in. *)

(* The row is read and the password compared with it.  A locked account    *)
(* refuses whatever is typed and counts nothing.  Before it is activated   *)
(* an account has no email to be found by.                                 *)
(* Mutant: a locked account counts on. *)
LoginThoughLocked(t, right) ==
    /\ Live /\ row.joined
    /\ IF right
       THEN Begin(t, "right", [count |-> CountAndLock, epoch |-> revoked,
                               active |-> row.active, tv |-> row.tv])
       ELSE Begin(t, "wrong", row.failed)

Login(t, right) ==
    /\ Live /\ row.joined /\ ~Locked(row)
    /\ IF right
       THEN Begin(t, "right", [count |-> CountAndLock, epoch |-> revoked,
                               active |-> row.active, tv |-> row.tv])
       ELSE Begin(t, "wrong", row.failed)

RegisterFailure(failed) ==
    IF failed + 1 >= MaxFailures
    THEN [row EXCEPT !.failed = IF failed # 0 THEN 0 ELSE @, !.until = LockTime]
    ELSE [row EXCEPT !.failed = failed + 1]

FinishWrong(t) ==
    /\ req[t].op = "wrong"
    /\ IF Live
       THEN /\ row' = RegisterFailure(req[t].read)
            /\ Ends(t)
            /\ UNCHANGED <<kind, bin, session, revoked, doubled, undone, redeemed>>
       ELSE Fails(t)

(* A success clears the count and the lock, if there is anything to clear; *)
(* after that commit the row is read again.  `reread`: it was another      *)
(* version then than when the password was compared.                       *)
FinishRight(t) ==
    LET read == req[t].read
        clears == read.count.failed # 0 \/ read.count.wasLocked
        tv == IF clears THEN row.tv ELSE read.tv
    IN  /\ req[t].op = "right"
        /\ IF clears /\ ~Live
           THEN Fails(t)
           ELSE /\ row' = IF clears THEN Cleared(row, read.count) ELSE row
                /\ IF IF clears THEN row.active ELSE read.active
                   THEN Issue([tv |-> tv, epoch |-> read.epoch, reread |-> tv # read.tv])
                   ELSE UNCHANGED session
                /\ Ends(t)
                /\ UNCHANGED <<kind, bin, revoked, doubled, undone, redeemed>>

(* A minute passes. *)
Waited(r) == IF Locked(r) THEN [r EXCEPT !.until = @ - 1] ELSE r

Tick ==
    /\ Locked(row) \/ Locked(bin)
    /\ row' = Waited(row) /\ bin' = Waited(bin)
    /\ UNCHANGED <<kind, session, req, revoked, doubled, undone, redeemed>>

----------------------------------------------------------------------------
(* Revoking the sessions. *)

(* Mutant: the version stays. *)
RevokeSessionsNever(r, tv) == r

(* The version after the one that was read. *)
RevokeSessions(r, tv) == [r EXCEPT !.tv = tv + 1]

NoteRevocation(tv) ==
    /\ revoked < MaxRevocations
    /\ revoked' = revoked + 1
    /\ doubled' = (doubled \/ row.tv # tv)

(* A new code replaces the last one. *)
ForgotPassword(c) ==
    /\ Live /\ row.active /\ row.joined /\ NobodyRuns
    /\ \A d \in Codes : d < c => redeemed[d] # None
    /\ redeemed[c] = None
    /\ redeemed' = [redeemed EXCEPT ![c] = 0]
    /\ row' = [row EXCEPT !.code = c, !.fresh = TRUE]
    /\ UNCHANGED <<kind, bin, session, req, revoked, doubled, undone>>

ResetPassword(t) ==
    /\ Live /\ row.code # None /\ row.fresh
    /\ Begin(t, "reset", [count |-> CountAndLock, tv |-> row.tv, code |-> row.code])

(* Mutant: the code stays. *)
RedeemedKeepingCode(r) == r
Redeemed(r) == [r EXCEPT !.code = None, !.fresh = FALSE]

(* The code is cleared along with the lock, and all sessions are revoked.  *)
FinishReset(t) ==
    LET read == req[t].read IN
    /\ req[t].op = "reset"
    /\ IF Live
       THEN /\ NoteRevocation(read.tv)
            /\ row' = Redeemed(RevokeSessions(Cleared(row, read.count), read.tv))
            /\ redeemed' = [redeemed EXCEPT ![read.code] = @ + 1]
            /\ Ends(t)
            /\ UNCHANGED <<kind, bin, session, undone>>
       ELSE Fails(t)

(* The cookie of an admin is checked; the row stays in the session. *)
Authenticate(t) ==
    /\ kind = "staff" /\ Live /\ row.active /\ req[t] = Idle
    /\ SignedIn
    /\ req' = [req EXCEPT ![t] = [op |-> "authenticated", read |-> row.tv]]
    /\ UNCHANGED <<kind, row, bin, session, revoked, doubled, undone, redeemed>>

(* "Sign out everywhere", or a new password, for the own account. *)
ChangeOwn(t) ==
    /\ req[t].op = "authenticated" /\ MayRun(t)
    /\ IF Live
       THEN /\ NoteRevocation(req[t].read)
            /\ row' = RevokeSessions(row, req[t].read)
            /\ Ends(t)
            /\ UNCHANGED <<kind, bin, session, undone, redeemed>>
       ELSE Fails(t)

(* The same by another admin, who reads the row in the handler. *)
ChangeByAdmin ==
    /\ kind = "staff" /\ Live /\ NobodyRuns
    /\ NoteRevocation(row.tv)
    /\ row' = RevokeSessions(row, row.tv)
    /\ UNCHANGED <<kind, bin, session, req, undone, redeemed>>

(* Codes and invitations run out. *)
PassDate ==
    /\ \/ row.fresh /\ row' = [row EXCEPT !.fresh = FALSE]
       \/ row.invite = "open" /\ row' = [row EXCEPT !.invite = "none"]
    /\ UNCHANGED <<kind, bin, session, req, revoked, doubled, undone, redeemed>>

----------------------------------------------------------------------------
(* The bin.  An employee is deleted by a coroutine; a client's account is  *)
(* captured, and later removed, with the customer it belongs to.           *)
Capture(t) == Live /\ Begin(t, "delete", row)

Remove(t) ==
    /\ req[t].op = "delete"
    /\ IF Live
       THEN /\ bin' = req[t].read
            /\ row' = [row EXCEPT !.place = "bin"]
            /\ undone' = (undone \/ row.tv # req[t].read.tv \/ row.code # req[t].read.code)
            /\ Ends(t)
            /\ UNCHANGED <<kind, session, revoked, doubled, redeemed>>
       ELSE Fails(t)

(* The account comes back as it was, its version included. *)
(* Mutant: as a new one. *)
RestoreAsNew ==
    /\ row.place = "bin"
    /\ row' = [bin EXCEPT !.tv = 0] /\ bin' = NewAccount
    /\ UNCHANGED <<kind, session, req, revoked, doubled, undone, redeemed>>

Restore ==
    /\ row.place = "bin"
    /\ row' = bin /\ bin' = NewAccount
    /\ UNCHANGED <<kind, session, req, revoked, doubled, undone, redeemed>>

----------------------------------------------------------------------------
Init ==
    /\ kind \in {"staff", "client"}
    /\ row = NewAccount /\ bin = NewAccount
    /\ session = None
    /\ req = [t \in Requests |-> Idle]
    /\ revoked = 0 /\ doubled = FALSE /\ undone = FALSE
    /\ redeemed = [c \in Codes |-> None]

Next ==
    \/ CreateUser \/ Restore \/ Tick \/ PassDate \/ ChangeByAdmin
    \/ \E active \in BOOLEAN : SetActive(active)
    \/ \E c \in Codes : ForgotPassword(c)
    \/ \E t \in Requests :
        \/ CreateInvite(t) \/ FinishInvite(t)
        \/ Activate(t) \/ FinishActivate(t)
        \/ \E right \in BOOLEAN : Login(t, right)
        \/ FinishWrong(t) \/ FinishRight(t)
        \/ ResetPassword(t) \/ FinishReset(t)
        \/ Authenticate(t) \/ ChangeOwn(t)
        \/ Capture(t) \/ Remove(t)

(* Only the clock is sure to go on. *)
Spec == Init /\ [][Next]_vars /\ WF_vars(Tick)

----------------------------------------------------------------------------
(* A session from before the last revocation is never accepted again:      *)
(* neither after the next password, nor after a trip to the bin.  There    *)
(* are three ways around it, all of requests that overlap: two revocations *)
(* that wrote the same version, a sign-in that compared the old password   *)
(* and read the new version, and a snapshot taken before the revocation.   *)
SignedOutStaysOut ==
    SignedIn => session.epoch = revoked \/ session.reread \/ doubled \/ undone

(* A reset code is good for one new password, except for two resets that   *)
(* overlap or one that overlaps the deletion of the account; and what the  *)
(* staff do about their own sign-ins opens none of these ways around.      *)
CodesRedeemedOnce ==
    /\ \A c \in Codes : redeemed[c] \in {None, 0, 1} \/ doubled \/ undone
    /\ kind = "staff" => ~undone /\ (session # None => ~session.reread)

(* A lock opens by itself: nobody can keep an account locked by going on   *)
(* with wrong passwords.                                                   *)
LocksOpen == Locked(row) ~> ~(Live /\ Locked(row))

=============================================================================
