---------------------------- MODULE AccountsProofs ----------------------------
(***************************************************************************)
(* A revoked session stays revoked and a reset code is redeemed once, for  *)
(* any number of requests, codes, revocations and wrong passwords.         *)
(*                                                                         *)
(* As long as nothing has overlapped (Sound), the version in the row is    *)
(* the number of revocations, in the bin as well; so a token carries no    *)
(* more than the number of revocations when it was issued, and a reset     *)
(* that still finds its version finds its code unused.  The staff's        *)
(* coroutines run one at a time, so there nothing overlaps a deletion or   *)
(* a sign-in.                                                              *)
(***************************************************************************)
EXTENDS Accounts, TLAPS

----------------------------------------------------------------------------
Account ==
    [place : {"unborn", "live", "bin"}, active : BOOLEAN, joined : BOOLEAN,
     tv : Nat, code : Codes \cup {None}, fresh : BOOLEAN,
     invite : {"none", "open"}, failed : Nat, until : Nat \cup {None}]

Token == [tv : Nat, epoch : Nat, reread : BOOLEAN]

Count == [failed : Nat, wasLocked : BOOLEAN]
Inviting == [op : {"invite"}, read : {"unborn", "live", "bin"}]
Activating == [op : {"activate"}, read : {None}]
Signing == [op : {"right"},
            read : [count : Count, epoch : Nat, active : BOOLEAN, tv : Nat]]
Mistyped == [op : {"wrong"}, read : Nat]
Resetting == [op : {"reset"}, read : [count : Count, tv : Nat, code : Codes]]
Checked == [op : {"authenticated"}, read : Nat]
Deleting == [op : {"delete"}, read : Account]

RequestRow == {Idle} \cup Inviting \cup Activating \cup Signing \cup Mistyped
              \cup Resetting \cup Checked \cup Deleting

AccountsTypeOK ==
    /\ kind \in {"staff", "client"}
    /\ row \in Account /\ bin \in Account
    /\ session \in Token \cup {None}
    /\ req \in [Requests -> RequestRow]
    /\ revoked \in Nat /\ doubled \in BOOLEAN /\ undone \in BOOLEAN
    /\ redeemed = [c \in Codes |-> redeemed[c]]

(* Nothing has overlapped. *)
Sound == ~doubled /\ ~undone

Waits(t) == req[t].op \in {"idle", "authenticated"}

RowOK ==
    /\ row.place = "unborn" => row = NewAccount
    /\ row.place = "bin" => bin.place = "live"
    /\ Sound =>
           /\ row.tv = revoked
           /\ row.place = "bin" => bin.tv = revoked /\ bin.code = row.code
           /\ row.code # None => redeemed[row.code] = 0
           /\ \A c \in Codes : redeemed[c] \in {None, 0, 1}

TokenOK(token) ==
    /\ token.epoch <= revoked
    /\ Sound /\ ~token.reread => token.tv <= token.epoch
    /\ kind = "staff" => ~token.reread

RequestOK(t) ==
    LET op == req[t].op
        read == req[t].read
    IN  /\ op = "right" =>
               /\ read.epoch <= revoked
               /\ Sound => read.tv = read.epoch
               /\ kind = "staff" => Live /\ read.tv = row.tv
        /\ op = "reset" /\ Sound =>
               /\ read.tv <= revoked
               /\ read.tv = revoked => redeemed[read.code] = 0
        /\ op = "delete" =>
               /\ read.place = "live"
               /\ kind = "staff" => Live /\ read.tv = row.tv /\ read.code = row.code

StaffOK ==
    kind = "staff" =>
        /\ ~undone
        /\ \A t, u \in Requests : t # u => Waits(t) \/ Waits(u)

AccountsInv ==
    /\ AccountsTypeOK /\ RowOK /\ StaffOK
    /\ session # None => TokenOK(session)
    /\ \A t \in Requests : RequestOK(t)

----------------------------------------------------------------------------
LEMMA RequestSteps ==
    ASSUME NEW q \in RequestRow
    PROVE  /\ q.op = "idle" => q = Idle
           /\ q.op = "invite" => q \in Inviting
           /\ q.op = "activate" => q \in Activating
           /\ q.op = "right" => q \in Signing
           /\ q.op = "wrong" => q \in Mistyped
           /\ q.op = "reset" => q \in Resetting
           /\ q.op = "authenticated" => q \in Checked
           /\ q.op = "delete" => q \in Deleting
<1>0. Idle.op = "idle"
  BY DEF Idle
<1>1. CASE q = Idle
  BY <1>0, <1>1
<1>2. CASE q \in Inviting
  <2>1. q.op = "invite"
    BY <1>2 DEF Inviting
  <2> QED
    BY <1>2, <2>1
<1>3. CASE q \in Activating
  <2>1. q.op = "activate"
    BY <1>3 DEF Activating
  <2> QED
    BY <1>3, <2>1
<1>4. CASE q \in Signing
  <2>1. q.op = "right"
    BY <1>4 DEF Signing
  <2> QED
    BY <1>4, <2>1
<1>5. CASE q \in Mistyped
  <2>1. q.op = "wrong"
    BY <1>5 DEF Mistyped
  <2> QED
    BY <1>5, <2>1
<1>6. CASE q \in Resetting
  <2>1. q.op = "reset"
    BY <1>6 DEF Resetting
  <2> QED
    BY <1>6, <2>1
<1>7. CASE q \in Checked
  <2>1. q.op = "authenticated"
    BY <1>7 DEF Checked
  <2> QED
    BY <1>7, <2>1
<1>8. CASE q \in Deleting
  <2>1. q.op = "delete"
    BY <1>8 DEF Deleting
  <2> QED
    BY <1>8, <2>1
<1> QED
  BY <1>1, <1>2, <1>3, <1>4, <1>5, <1>6, <1>7, <1>8 DEF RequestRow

LEMMA IdleRequest == Idle \in RequestRow /\ Idle.op = "idle"
  BY DEF RequestRow, Idle

LEMMA AccountsStart == Init => AccountsInv
<1> SUFFICES ASSUME Init PROVE AccountsInv
  OBVIOUS
<1> USE DEF Init
<1>1. AccountsTypeOK
  <2>1. NewAccount \in Account
    BY DEF NewAccount, Account
  <2> QED
    BY <2>1, IdleRequest DEF AccountsTypeOK
<1>2. RowOK
  BY DEF RowOK, NewAccount
<1>3. StaffOK /\ \A t \in Requests : RequestOK(t)
  BY IdleRequest DEF StaffOK, Waits, RequestOK
<1> QED
  BY <1>1, <1>2, <1>3 DEF AccountsInv

(* A request reads, and goes on to `q`. *)
LEMMA Reading ==
    ASSUME AccountsInv, NEW t \in Requests, NEW q \in RequestRow,
           req' = [req EXCEPT ![t] = q],
           UNCHANGED <<kind, row, bin, session, revoked, doubled, undone, redeemed>>,
           q.op \in {"idle", "authenticated"} \/ MayRun(t),
           q.op = "right" =>
               Live /\ q.read.epoch = revoked /\ q.read.tv = row.tv,
           q.op = "reset" => Live /\ q.read.tv = row.tv /\ row.code # None /\ q.read.code = row.code,
           q.op = "delete" => Live /\ q.read = row
    PROVE  AccountsInv'
<1> USE DEF AccountsInv
<1>1. AccountsTypeOK'
  BY DEF AccountsTypeOK
<1>2. \A s \in Requests : req'[s] = IF s = t THEN q ELSE req[s]
  BY DEF AccountsTypeOK
<1>3. RowOK' /\ (session # None => TokenOK(session))'
  BY DEF RowOK, TokenOK, Sound
<1>4. StaffOK'
  BY <1>2 DEF StaffOK, Waits, MayRun, AccountsTypeOK
<1>5. RequestOK(t)'
  <2>1. /\ row.tv \in Nat /\ revoked \in Nat
        /\ Sound => row.tv = revoked /\ (row.code # None => redeemed[row.code] = 0)
    BY DEF AccountsTypeOK, Account, RowOK
  <2> QED
    BY <1>2, <2>1 DEF RequestOK, Sound, Live
<1>6. ASSUME NEW s \in Requests, s # t PROVE RequestOK(s)'
  BY <1>2, <1>6 DEF RequestOK, Sound, Live
<1> QED
  BY <1>1, <1>3, <1>4, <1>5, <1>6

(* A write that leaves the version and the code alone, by requests that    *)
(* then end.  It may issue a token.                                        *)
LEMMA SameVersion ==
    ASSUME AccountsInv,
           UNCHANGED <<kind, revoked, doubled, undone, redeemed>>,
           row' \in Account, row'.tv = row.tv, row'.code = row.code,
           Live => row'.place = "live",
           row'.place = "bin" => row.place = "bin",
           row'.place = "unborn" => row' = NewAccount,
           bin' \in Account, bin'.tv = bin.tv, bin'.code = bin.code, bin'.place = bin.place,
           req' \in [Requests -> RequestRow],
           \A s \in Requests : req'[s] = req[s] \/ req'[s] = Idle,
           session' = session \/ (session' \in Token /\ TokenOK(session'))
    PROVE  AccountsInv'
<1> USE DEF AccountsInv
<1>1. AccountsTypeOK'
  BY DEF AccountsTypeOK
<1>2. RowOK'
  BY DEF RowOK, Sound
<1>3. (session # None => TokenOK(session))'
  BY DEF TokenOK, Sound
<1>4. StaffOK'
  BY IdleRequest DEF StaffOK, Waits
<1>5. ASSUME NEW s \in Requests PROVE RequestOK(s)'
  <2>1. CASE req'[s] = req[s]
    BY <2>1 DEF RequestOK, Sound, Live
  <2>2. CASE req'[s] = Idle
    BY <2>2, IdleRequest DEF RequestOK
  <2> QED
    BY <2>1, <2>2
<1> QED
  BY <1>1, <1>2, <1>3, <1>4, <1>5

LEMMA ClearedRow ==
    ASSUME NEW r \in Account, NEW read
    PROVE  /\ Cleared(r, read) \in Account
           /\ Cleared(r, read).tv = r.tv /\ Cleared(r, read).code = r.code
           /\ Cleared(r, read).place = r.place
  BY DEF Cleared, Account

(* What has read the row finds it gone. *)
LEMMA Failing ==
    ASSUME AccountsInv, NEW t \in Requests, Fails(t)
    PROVE  AccountsInv'
  BY IdleRequest, Reading DEF Fails, Ends

(* A request that begins. *)
LEMMA Beginning ==
    ASSUME AccountsInv, NEW t \in Requests,
           \/ CreateInvite(t) \/ Activate(t) \/ ResetPassword(t) \/ Authenticate(t) \/ Capture(t)
           \/ \E right \in BOOLEAN : Login(t, right)
    PROVE  AccountsInv'
<1>0. /\ row \in Account /\ row.tv \in Nat /\ row.failed \in Nat /\ revoked \in Nat
      /\ row.place \in {"unborn", "live", "bin"} /\ row.active \in BOOLEAN
      /\ row.code # None => row.code \in Codes
      /\ CountAndLock \in Count
  BY DEF AccountsInv, AccountsTypeOK, Account, CountAndLock, Count
<1>1. CASE CreateInvite(t)
  <2> DEFINE q == [op |-> "invite", read |-> row.place]
  <2>1. q \in RequestRow /\ q.op = "invite"
    BY <1>0 DEF RequestRow, Inviting
  <2>2. MayRun(t) /\ req' = [req EXCEPT ![t] = q]
        /\ UNCHANGED <<kind, row, bin, session, revoked, doubled, undone, redeemed>>
    BY <1>1 DEF CreateInvite, Begin
  <2> HIDE DEF q
  <2> QED
    BY <2>1, <2>2, Reading
<1>2. CASE Activate(t)
  <2> DEFINE q == [op |-> "activate", read |-> None]
  <2>1. q \in RequestRow /\ q.op = "activate"
    BY DEF RequestRow, Activating
  <2>2. MayRun(t) /\ req' = [req EXCEPT ![t] = q]
        /\ UNCHANGED <<kind, row, bin, session, revoked, doubled, undone, redeemed>>
    BY <1>2 DEF Activate, Begin
  <2> HIDE DEF q
  <2> QED
    BY <2>1, <2>2, Reading
<1>3. CASE ResetPassword(t)
  <2> DEFINE q == [op |-> "reset",
                   read |-> [count |-> CountAndLock, tv |-> row.tv, code |-> row.code]]
  <2>1. Live /\ row.code # None /\ MayRun(t) /\ req' = [req EXCEPT ![t] = q]
        /\ UNCHANGED <<kind, row, bin, session, revoked, doubled, undone, redeemed>>
    BY <1>3 DEF ResetPassword, Begin
  <2>2. /\ q \in RequestRow /\ q.op = "reset"
        /\ q.read.tv = row.tv /\ q.read.code = row.code
    BY <1>0, <2>1 DEF RequestRow, Resetting
  <2> HIDE DEF q
  <2> QED
    BY <2>1, <2>2, Reading
<1>4. CASE Authenticate(t)
  <2> DEFINE q == [op |-> "authenticated", read |-> row.tv]
  <2>1. q \in RequestRow /\ q.op = "authenticated"
    BY <1>0 DEF RequestRow, Checked
  <2>2. req' = [req EXCEPT ![t] = q]
        /\ UNCHANGED <<kind, row, bin, session, revoked, doubled, undone, redeemed>>
    BY <1>4 DEF Authenticate
  <2> HIDE DEF q
  <2> QED
    BY <2>1, <2>2, Reading
<1>5. CASE Capture(t)
  <2> DEFINE q == [op |-> "delete", read |-> row]
  <2>1. q \in RequestRow /\ q.op = "delete" /\ q.read = row
    BY <1>0 DEF RequestRow, Deleting
  <2>2. Live /\ MayRun(t) /\ req' = [req EXCEPT ![t] = q]
        /\ UNCHANGED <<kind, row, bin, session, revoked, doubled, undone, redeemed>>
    BY <1>5 DEF Capture, Begin
  <2> HIDE DEF q
  <2> QED
    BY <2>1, <2>2, Reading
<1>6. CASE Login(t, TRUE)
  <2> DEFINE q == [op |-> "right", read |-> [count |-> CountAndLock, epoch |-> revoked,
                                             active |-> row.active, tv |-> row.tv]]
  <2>1. /\ q \in RequestRow /\ q.op = "right"
        /\ q.read.epoch = revoked /\ q.read.tv = row.tv
    BY <1>0 DEF RequestRow, Signing
  <2>2. Live /\ MayRun(t) /\ req' = [req EXCEPT ![t] = q]
        /\ UNCHANGED <<kind, row, bin, session, revoked, doubled, undone, redeemed>>
    BY <1>6 DEF Login, Begin
  <2> HIDE DEF q
  <2> QED
    BY <2>1, <2>2, Reading
<1>7. CASE Login(t, FALSE)
  <2> DEFINE q == [op |-> "wrong", read |-> row.failed]
  <2>1. q \in RequestRow /\ q.op = "wrong"
    BY <1>0 DEF RequestRow, Mistyped
  <2>2. MayRun(t) /\ req' = [req EXCEPT ![t] = q]
        /\ UNCHANGED <<kind, row, bin, session, revoked, doubled, undone, redeemed>>
    BY <1>7 DEF Login, Begin
  <2> HIDE DEF q
  <2> QED
    BY <2>1, <2>2, Reading
<1> QED
  BY <1>1, <1>2, <1>3, <1>4, <1>5, <1>6, <1>7

(* A request that ends and leaves the version and the code alone. *)
LEMMA Ending ==
    ASSUME AccountsInv, NEW t \in Requests,
           FinishInvite(t) \/ FinishActivate(t) \/ FinishWrong(t) \/ FinishRight(t)
    PROVE  AccountsInv'
<1> USE DEF AccountsInv
<1>0. /\ row \in Account /\ bin \in Account /\ req[t] \in RequestRow /\ RequestOK(t)
      /\ row.tv \in Nat /\ revoked \in Nat
  BY DEF AccountsTypeOK, Account
<1>1. Ends(t) => /\ req' \in [Requests -> RequestRow]
                 /\ \A s \in Requests : req'[s] = req[s] \/ req'[s] = Idle
  BY IdleRequest DEF Ends, AccountsTypeOK
<1>2. CASE FinishInvite(t)
  <2>1. CASE row.place = req[t].read
    <3>1. /\ row' = [row EXCEPT !.place = "live", !.invite = "open"]
          /\ Ends(t) /\ UNCHANGED <<kind, bin, session, revoked, doubled, undone, redeemed>>
      BY <1>2, <2>1 DEF FinishInvite
    <3>2. row' \in Account /\ row'.tv = row.tv /\ row'.code = row.code /\ row'.place = "live"
      BY <1>0, <3>1 DEF Account
    <3> QED
      BY <1>0, <1>1, <3>1, <3>2, SameVersion
  <2>2. CASE row.place # req[t].read
    BY <1>2, <2>2, Failing DEF FinishInvite
  <2> QED
    BY <2>1, <2>2
<1>3. CASE FinishActivate(t)
  <2>1. CASE Live
    <3> DEFINE token == [tv |-> 0, epoch |-> revoked, reread |-> FALSE]
    <3>1. /\ row' = [row EXCEPT !.joined = TRUE, !.invite = "none"]
          /\ session' \in {session, token}
          /\ Ends(t) /\ UNCHANGED <<kind, bin, revoked, doubled, undone, redeemed>>
      BY <1>3, <2>1 DEF FinishActivate, Issue
    <3>2. row' \in Account /\ row'.tv = row.tv /\ row'.code = row.code /\ row'.place = "live"
      BY <1>0, <2>1, <3>1 DEF Account, Live
    <3>3. token \in Token /\ TokenOK(token)
      BY <1>0 DEF Token, TokenOK
    <3> HIDE DEF token
    <3> QED
      BY <1>0, <1>1, <3>1, <3>2, <3>3, SameVersion
  <2>2. CASE ~Live
    BY <1>3, <2>2, Failing DEF FinishActivate
  <2> QED
    BY <2>1, <2>2
<1>4. CASE FinishWrong(t)
  <2>1. CASE Live
    <3>1. /\ row' = RegisterFailure(req[t].read)
          /\ Ends(t) /\ UNCHANGED <<kind, bin, session, revoked, doubled, undone, redeemed>>
          /\ req[t].op = "wrong"
      BY <1>4, <2>1 DEF FinishWrong
    <3>2. req[t].read \in Nat
      BY <1>0, <3>1, RequestSteps DEF Mistyped
    <3>3. row' \in Account /\ row'.tv = row.tv /\ row'.code = row.code /\ row'.place = row.place
      <4>1. LockTime \in Nat /\ req[t].read + 1 \in Nat
        BY <3>2, AccountsAssumption
      <4>2. CASE req[t].read + 1 >= MaxFailures
        BY <1>0, <3>1, <4>1, <4>2 DEF Account, RegisterFailure
      <4>3. CASE ~(req[t].read + 1 >= MaxFailures)
        BY <1>0, <3>1, <4>1, <4>3 DEF Account, RegisterFailure
      <4> QED
        BY <4>2, <4>3
    <3> QED
      BY <1>0, <1>1, <2>1, <3>1, <3>3, SameVersion DEF Live
  <2>2. CASE ~Live
    BY <1>4, <2>2, Failing DEF FinishWrong
  <2> QED
    BY <2>1, <2>2
<1>5. CASE FinishRight(t)
  <2> DEFINE read == req[t].read
             clears == read.count.failed # 0 \/ read.count.wasLocked
             tv == IF clears THEN row.tv ELSE read.tv
             token == [tv |-> tv, epoch |-> read.epoch, reread |-> tv # read.tv]
  <2>1. req[t] \in Signing /\ req[t].op = "right"
    BY <1>0, <1>5, RequestSteps DEF FinishRight
  <2>2. CASE clears /\ ~Live
    BY <1>5, <2>2, Failing DEF FinishRight
  <2>3. CASE ~(clears /\ ~Live)
    <3>1. /\ row' = IF clears THEN Cleared(row, read.count) ELSE row
          /\ session' = session \/ session' \in {session, token}
          /\ Ends(t) /\ UNCHANGED <<kind, bin, revoked, doubled, undone, redeemed>>
      BY <1>5, <2>3 DEF FinishRight, Issue
    <3>2. row' \in Account /\ row'.tv = row.tv /\ row'.code = row.code /\ row'.place = row.place
          /\ (row'.place = "unborn" => row' = NewAccount)
      BY <1>0, <2>3, <3>1, ClearedRow DEF Live, RowOK
    <3>3. token \in Token
      BY <1>0, <2>1 DEF Signing, Token
    <3>4. /\ read.epoch <= revoked /\ read.epoch \in Nat
          /\ Sound => read.tv = read.epoch
          /\ kind = "staff" => read.tv = row.tv
      BY <1>0, <2>1 DEF RequestOK, Signing
    <3>5. /\ token.epoch = read.epoch /\ token.tv = tv
          /\ token.reread <=> tv # read.tv
          /\ tv \in {row.tv, read.tv}
      OBVIOUS
    <3> HIDE DEF token, tv
    <3>6. TokenOK(token)
      BY <3>3, <3>4, <3>5 DEF TokenOK
    <3> QED
      BY <1>0, <1>1, <3>1, <3>2, <3>3, <3>6, SameVersion DEF Live
  <2> QED
    BY <2>2, <2>3
<1> QED
  BY <1>2, <1>3, <1>4, <1>5

(* What changes the row and is no request that reads before. *)
LEMMA AtOnce ==
    ASSUME AccountsInv,
           CreateUser \/ Tick \/ PassDate \/ \E active \in BOOLEAN : SetActive(active)
    PROVE  AccountsInv'
<1> USE DEF AccountsInv
<1>0. row \in Account /\ bin \in Account /\ req \in [Requests -> RequestRow]
  BY DEF AccountsTypeOK
<1>1. CASE CreateUser
  <2>1. /\ row = NewAccount /\ row' = [NewAccount EXCEPT !.place = "live", !.joined = TRUE]
        /\ UNCHANGED <<kind, bin, session, req, revoked, doubled, undone, redeemed>>
    BY <1>1 DEF CreateUser, RowOK
  <2>2. row' \in Account /\ row'.tv = row.tv /\ row'.code = row.code /\ row'.place = "live"
    BY <1>0, <2>1 DEF Account
  <2> QED
    BY <1>0, <2>1, <2>2, SameVersion
<1>2. CASE Tick
  <2>1. \A r \in Account : /\ Waited(r) \in Account
                           /\ Waited(r).tv = r.tv /\ Waited(r).code = r.code
                           /\ Waited(r).place = r.place
    BY DEF Waited, Locked, Account
  <2>2. Waited(NewAccount) = NewAccount
    BY AccountsAssumption DEF Waited, Locked, NewAccount
  <2>3. /\ row' = Waited(row) /\ bin' = Waited(bin)
        /\ UNCHANGED <<kind, session, req, revoked, doubled, undone, redeemed>>
    BY <1>2 DEF Tick
  <2> QED
    BY <1>0, <2>1, <2>2, <2>3, SameVersion DEF Live, RowOK
<1>3. CASE PassDate
  <2>1. row' = [row EXCEPT !.fresh = FALSE] \/ row' = [row EXCEPT !.invite = "none"]
    BY <1>3 DEF PassDate
  <2>2. row' \in Account /\ row'.tv = row.tv /\ row'.code = row.code /\ row'.place = row.place
    BY <1>0, <2>1 DEF Account
  <2>3. row.place # "unborn"
    BY <1>3 DEF PassDate, RowOK, NewAccount
  <2>4. UNCHANGED <<kind, bin, session, req, revoked, doubled, undone, redeemed>>
    BY <1>3 DEF PassDate
  <2> QED
    BY <1>0, <2>2, <2>3, <2>4, SameVersion DEF Live
<1>4. ASSUME NEW active \in BOOLEAN, SetActive(active) PROVE AccountsInv'
  <2>1. /\ Live /\ row' = [row EXCEPT !.active = active]
        /\ UNCHANGED <<kind, bin, session, req, revoked, doubled, undone, redeemed>>
    BY <1>4 DEF SetActive
  <2>2. row' \in Account /\ row'.tv = row.tv /\ row'.code = row.code /\ row'.place = "live"
    BY <1>0, <2>1 DEF Account, Live
  <2> QED
    BY <1>0, <2>1, <2>2, SameVersion
<1> QED
  BY <1>1, <1>2, <1>3, <1>4

----------------------------------------------------------------------------
(* A revocation that saw version `tv`.  For the staff nobody else is at it.*)
LEMMA Revoking ==
    ASSUME AccountsInv, NEW tv \in Nat, NoteRevocation(tv), Live,
           UNCHANGED <<kind, bin, session, undone>>,
           row' \in Account, row'.tv = tv + 1, row'.place = "live",
           row'.code = None \/ row'.code = row.code,
           redeemed' = [c \in Codes |-> redeemed'[c]],
           Sound' => /\ \A c \in Codes : redeemed'[c] \in {None, 0, 1}
                     /\ row'.code # None => redeemed'[row'.code] = 0,
           req' \in [Requests -> RequestRow],
           \A s \in Requests : req'[s] = req[s] \/ req'[s] = Idle,
           kind = "staff" => \A s \in Requests : req'[s].op \in {"idle", "authenticated"}
    PROVE  AccountsInv'
<1> USE DEF AccountsInv
<1>1. /\ revoked' = revoked + 1 /\ revoked \in Nat
      /\ doubled' = (doubled \/ row.tv # tv)
      /\ Sound' => Sound /\ tv = row.tv
  BY DEF NoteRevocation, Sound, AccountsTypeOK
<1>2. AccountsTypeOK'
  BY <1>1 DEF AccountsTypeOK
<1>3. RowOK'
  BY <1>1 DEF RowOK
<1>4. (session # None => TokenOK(session))'
  BY <1>1 DEF TokenOK, AccountsTypeOK, Token
<1>5. StaffOK'
  BY DEF StaffOK, Waits
<1>6. ASSUME NEW s \in Requests PROVE RequestOK(s)'
  <2>1. CASE req'[s] = Idle
    BY <2>1, IdleRequest DEF RequestOK
  <2>2. CASE req'[s] = req[s]
    <3>0. req[s] \in RequestRow /\ RequestOK(s)
      BY DEF AccountsTypeOK
    <3>1. CASE req[s].op = "right"
      <4>1. req[s].read.epoch \in Nat
        BY <3>0, <3>1, RequestSteps DEF Signing
      <4>2. kind' # "staff"
        BY <2>2, <3>1 DEF AccountsTypeOK
      <4> QED
        BY <1>1, <2>2, <3>0, <3>1, <4>1, <4>2 DEF RequestOK
    <3>2. CASE req[s].op = "reset"
      <4>1. req[s].read.tv \in Nat
        BY <3>0, <3>2, RequestSteps DEF Resetting
      <4> QED
        BY <1>1, <2>2, <3>0, <3>2, <4>1 DEF RequestOK
    <3>3. CASE req[s].op \notin {"right", "reset"}
      BY <2>2, <3>0, <3>3 DEF RequestOK
    <3> QED
      BY <3>1, <3>2, <3>3
  <2> QED
    BY <2>1, <2>2
<1> QED
  BY <1>2, <1>3, <1>4, <1>5, <1>6

LEMMA Revocations ==
    ASSUME AccountsInv,
           ChangeByAdmin \/ \E t \in Requests : FinishReset(t) \/ ChangeOwn(t)
    PROVE  AccountsInv'
<1> USE DEF AccountsInv
<1>0. /\ row \in Account /\ row.tv \in Nat /\ req \in [Requests -> RequestRow]
      /\ redeemed = [c \in Codes |-> redeemed[c]]
  BY DEF AccountsTypeOK, Account
<1>1. \A tv : RevokeSessions(row, tv).place = row.place /\ RevokeSessions(row, tv).code = row.code
  BY <1>0 DEF RevokeSessions, Account
<1>2. \A tv \in Nat : RevokeSessions(row, tv) \in Account /\ RevokeSessions(row, tv).tv = tv + 1
  BY <1>0 DEF RevokeSessions, Account
<1>3. ASSUME NEW tv \in Nat, NoteRevocation(tv), UNCHANGED undone
      PROVE  Sound' => Sound /\ row.tv = tv /\ revoked = tv
  <2>1. Sound' => Sound /\ row.tv = tv
    BY <1>3 DEF NoteRevocation, Sound
  <2> QED
    BY <2>1 DEF RowOK
<1>4. CASE ChangeByAdmin
  <2>1. /\ NoteRevocation(row.tv) /\ Live /\ row' = RevokeSessions(row, row.tv)
        /\ UNCHANGED <<kind, bin, session, req, undone, redeemed>>
        /\ NobodyRuns
    BY <1>4 DEF ChangeByAdmin
  <2>2. /\ row' \in Account /\ row'.tv = row.tv + 1
        /\ row'.place = "live" /\ row'.code = row.code
    BY <1>0, <1>1, <1>2, <2>1 DEF Live
  <2>3. Sound' => Sound
    BY <2>1 DEF Sound, NoteRevocation
  <2>4. kind = "staff" => \A s \in Requests : req'[s].op \in {"idle", "authenticated"}
    BY <2>1 DEF NobodyRuns
  <2>5. Sound' => /\ \A c \in Codes : redeemed'[c] \in {None, 0, 1}
                  /\ row'.code # None => redeemed'[row'.code] = 0
    BY <2>1, <2>2, <2>3 DEF RowOK
  <2> QED
    BY <1>0, <2>1, <2>2, <2>4, <2>5, Revoking
<1>5. ASSUME NEW t \in Requests, ChangeOwn(t) PROVE AccountsInv'
  <2>1. CASE ~Live
    BY <1>5, <2>1, Failing DEF ChangeOwn
  <2>2. CASE Live
    <3> DEFINE tv == req[t].read
    <3>1. /\ NoteRevocation(tv) /\ row' = RevokeSessions(row, tv)
          /\ Ends(t) /\ UNCHANGED <<kind, bin, session, undone, redeemed>>
          /\ req[t].op = "authenticated" /\ MayRun(t)
      BY <1>5, <2>2 DEF ChangeOwn
    <3>2. tv \in Nat
      BY <1>0, <3>1, RequestSteps DEF Checked
    <3> HIDE DEF tv
    <3>3. /\ row' \in Account /\ row'.tv = tv + 1
          /\ row'.place = "live" /\ row'.code = row.code
      BY <1>1, <1>2, <2>2, <3>1, <3>2 DEF Live
    <3>4. /\ req' \in [Requests -> RequestRow]
          /\ \A s \in Requests : req'[s] = IF s = t THEN Idle ELSE req[s]
      BY <1>0, <3>1, IdleRequest DEF Ends
    <3>5. kind = "staff" => \A s \in Requests : req'[s].op \in {"idle", "authenticated"}
      BY <3>1, <3>4, IdleRequest DEF MayRun
    <3>6. Sound' => /\ \A c \in Codes : redeemed'[c] \in {None, 0, 1}
                    /\ row'.code # None => redeemed'[row'.code] = 0
      <4>1. Sound' => Sound
        BY <3>1 DEF Sound, NoteRevocation
      <4> QED
        BY <3>1, <3>3, <4>1 DEF RowOK
    <3> QED
      BY <1>0, <2>2, <3>1, <3>2, <3>3, <3>4, <3>5, <3>6, Revoking
  <2> QED
    BY <2>1, <2>2
<1>6. ASSUME NEW t \in Requests, FinishReset(t) PROVE AccountsInv'
  <2>1. CASE ~Live
    BY <1>6, <2>1, Failing DEF FinishReset
  <2>2. CASE Live
    <3> DEFINE read == req[t].read
               left == Cleared(row, read.count)
    <3>1. /\ NoteRevocation(read.tv) /\ row' = Redeemed(RevokeSessions(left, read.tv))
          /\ redeemed' = [redeemed EXCEPT ![read.code] = @ + 1]
          /\ Ends(t) /\ UNCHANGED <<kind, bin, session, undone>>
          /\ req[t].op = "reset"
      BY <1>6, <2>2 DEF FinishReset
    <3>2. read.tv \in Nat /\ read.code \in Codes
      BY <1>0, <3>1, RequestSteps DEF Resetting
    <3>3. left \in Account /\ left.place = "live"
      BY <1>0, <2>2, ClearedRow DEF Live
    <3>a. RequestOK(t)
      OBVIOUS
    <3>b. Sound' => redeemed[read.code] = 0
      BY <1>3, <3>1, <3>2, <3>a DEF RequestOK
    <3> HIDE DEF read, left
    <3>4. /\ row' \in Account /\ row'.tv = read.tv + 1
          /\ row'.place = "live" /\ row'.code = None
      <4> DEFINE r == RevokeSessions(left, read.tv)
      <4>1. r \in Account /\ r.tv = read.tv + 1 /\ r.place = "live"
        BY <3>2, <3>3 DEF RevokeSessions, Account
      <4>2. row' = Redeemed(r)
        BY <3>1
      <4> HIDE DEF r
      <4> QED
        BY <4>1, <4>2 DEF Redeemed, Account
    <3>5. /\ req' \in [Requests -> RequestRow]
          /\ \A s \in Requests : req'[s] = IF s = t THEN Idle ELSE req[s]
      BY <1>0, <3>1, IdleRequest DEF Ends
    <3>6. kind = "staff" => \A s \in Requests : req'[s].op \in {"idle", "authenticated"}
      BY <3>1, <3>5, IdleRequest DEF StaffOK, Waits
    <3>7. \A c \in Codes : redeemed'[c] = IF c = read.code THEN redeemed[c] + 1 ELSE redeemed[c]
      BY <1>0, <3>1
    <3>8. Sound' => \A c \in Codes : redeemed'[c] \in {None, 0, 1}
      <4>1. Sound' => Sound
        BY <3>1 DEF Sound, NoteRevocation
      <4> QED
        BY <3>2, <3>7, <3>b, <4>1 DEF RowOK
    <3>9. redeemed' = [c \in Codes |-> redeemed'[c]]
      BY <1>0, <3>1
    <3> QED
      BY <2>2, <3>1, <3>2, <3>4, <3>5, <3>6, <3>8, <3>9, Revoking
  <2> QED
    BY <2>1, <2>2
<1> QED
  BY <1>4, <1>5, <1>6

(* A code nobody has redeemed replaces the last one. *)
LEMMA Forgetting ==
    ASSUME AccountsInv, NEW c \in Codes, ForgotPassword(c)
    PROVE  AccountsInv'
<1> USE DEF AccountsInv
<1>1. /\ Live /\ NobodyRuns /\ redeemed[c] = None
      /\ redeemed' = [redeemed EXCEPT ![c] = 0]
      /\ row' = [row EXCEPT !.code = c, !.fresh = TRUE]
      /\ UNCHANGED <<kind, bin, session, req, revoked, doubled, undone>>
  BY DEF ForgotPassword
<1>2. /\ row' \in Account /\ row'.tv = row.tv /\ row'.code = c /\ row'.place = "live"
  BY <1>1 DEF AccountsTypeOK, Account, Live
<1>3. \A d \in Codes : redeemed'[d] = IF d = c THEN 0 ELSE redeemed[d]
  BY <1>1 DEF AccountsTypeOK
<1>4. AccountsTypeOK'
  <2>1. redeemed' = [d \in Codes |-> redeemed'[d]]
    BY <1>1 DEF AccountsTypeOK
  <2> QED
    BY <1>1, <1>2, <2>1 DEF AccountsTypeOK
<1>5. RowOK'
  BY <1>1, <1>2, <1>3 DEF RowOK, Sound
<1>6. StaffOK' /\ (session # None => TokenOK(session))'
  BY <1>1 DEF StaffOK, Waits, TokenOK, Sound
<1>7. ASSUME NEW s \in Requests PROVE RequestOK(s)'
  <2>1. req[s] \in RequestRow /\ RequestOK(s) /\ req'[s] = req[s]
    BY <1>1 DEF AccountsTypeOK
  <2>2. req[s].op = "reset" => req[s].read.code \in Codes
    BY <2>1, RequestSteps DEF Resetting
  <2>3. kind = "staff" => req[s].op \in {"idle", "authenticated"}
    BY <1>1 DEF NobodyRuns
  <2> QED
    BY <1>1, <1>2, <1>3, <2>1, <2>2, <2>3 DEF RequestOK, Sound, Live
<1> QED
  BY <1>4, <1>5, <1>6, <1>7

(* The snapshot has the version and the code, unless they have changed. *)
LEMMA Removing ==
    ASSUME AccountsInv, NEW t \in Requests, Remove(t)
    PROVE  AccountsInv'
<1> USE DEF AccountsInv
<1>1. CASE ~Live
  BY <1>1, Failing DEF Remove
<1>2. CASE Live
  <2> DEFINE was == req[t].read
  <2>1. /\ req[t].op = "delete" /\ bin' = was
        /\ row' = [row EXCEPT !.place = "bin"]
        /\ undone' = (undone \/ row.tv # was.tv \/ row.code # was.code)
        /\ req' = [req EXCEPT ![t] = Idle]
        /\ UNCHANGED <<kind, session, revoked, doubled, redeemed>>
    BY <1>2 DEF Remove, Ends
  <2>2. was \in Account
    BY <2>1, RequestSteps DEF AccountsTypeOK, Deleting
  <2>3. /\ was.place = "live"
        /\ kind = "staff" => was.tv = row.tv /\ was.code = row.code
    BY <2>1 DEF RequestOK
  <2> HIDE DEF was
  <2>4. /\ row' \in Account /\ row'.tv = row.tv /\ row'.code = row.code /\ row'.place = "bin"
    BY <2>1 DEF AccountsTypeOK, Account
  <2>5. Sound' => Sound /\ was.tv = row.tv /\ was.code = row.code
    BY <2>1 DEF Sound
  <2>6. \A s \in Requests : req'[s] = IF s = t THEN Idle ELSE req[s]
    BY <2>1 DEF AccountsTypeOK
  <2>7. AccountsTypeOK'
    BY <2>1, <2>2, <2>4, IdleRequest DEF AccountsTypeOK
  <2>8. RowOK'
    BY <2>1, <2>3, <2>4, <2>5 DEF RowOK
  <2>9. StaffOK'
    BY <2>1, <2>3, <2>6, IdleRequest DEF StaffOK, Waits
  <2>10. (session # None => TokenOK(session))'
    BY <2>1, <2>5 DEF TokenOK
  <2>11. ASSUME NEW s \in Requests PROVE RequestOK(s)'
    <3>1. CASE s = t
      BY <2>6, <3>1, IdleRequest DEF RequestOK
    <3>2. CASE s # t
      <4>1. req'[s] = req[s] /\ RequestOK(s)
        BY <2>6, <3>2
      <4>2. kind = "staff" => req[s].op \in {"idle", "authenticated"}
        BY <2>1, <3>2 DEF StaffOK, Waits
      <4> QED
        BY <2>1, <2>5, <4>1, <4>2 DEF RequestOK
    <3> QED
      BY <3>1, <3>2
  <2> QED
    BY <2>7, <2>8, <2>9, <2>10, <2>11
<1> QED
  BY <1>1, <1>2

LEMMA Restoring ==
    ASSUME AccountsInv, Restore
    PROVE  AccountsInv'
<1> USE DEF AccountsInv
<1>1. /\ row.place = "bin" /\ row' = bin /\ bin' = NewAccount
      /\ UNCHANGED <<kind, session, req, revoked, doubled, undone, redeemed>>
  BY DEF Restore
<1>2. bin.place = "live" /\ ~Live
  BY <1>1 DEF RowOK, Live
<1>3. AccountsTypeOK'
  <2>1. NewAccount \in Account
    BY DEF NewAccount, Account
  <2> QED
    BY <1>1, <2>1 DEF AccountsTypeOK
<1>4. RowOK'
  BY <1>1, <1>2 DEF RowOK, Sound
<1>5. StaffOK' /\ (session # None => TokenOK(session))'
  BY <1>1 DEF StaffOK, Waits, TokenOK, Sound
<1>6. \A s \in Requests : RequestOK(s)'
  BY <1>1, <1>2 DEF RequestOK, Sound
<1> QED
  BY <1>3, <1>4, <1>5, <1>6

LEMMA AccountsStep == AccountsInv /\ [Next]_vars => AccountsInv'
<1> SUFFICES ASSUME AccountsInv, [Next]_vars PROVE AccountsInv'
  OBVIOUS
<1>1. CASE UNCHANGED vars
  BY <1>1 DEF vars, AccountsInv, AccountsTypeOK, RowOK, StaffOK, TokenOK, RequestOK,
              Sound, Waits, Live
<1> QED
  BY <1>1, AtOnce, Beginning, Ending, Revocations, Forgetting, Removing, Restoring
  DEF Next

LEMMA AccountsInvariant == Spec => []AccountsInv
  BY AccountsStart, AccountsStep, PTL DEF Spec

----------------------------------------------------------------------------
(* A session from before the last revocation is never accepted again       *)
(* (auth/dependencies.py: token_version), unless two revocations, a sign-in  *)
(* and a reset, or a deletion and a revocation overlap; for any number of  *)
(* requests, codes and revocations, for the staff and for clients.         *)
THEOREM RevokedStaysRevoked == Spec => []SignedOutStaysOut
<1>1. AccountsInv => SignedOutStaysOut
  <2> SUFFICES ASSUME AccountsInv, SignedIn, ~session.reread, ~doubled, ~undone
               PROVE  session.epoch = revoked
    BY DEF SignedOutStaysOut
  <2>1. session \in Token /\ TokenOK(session) /\ session.tv = row.tv
    BY DEF AccountsInv, AccountsTypeOK, SignedIn
  <2>2. row.tv = revoked /\ revoked \in Nat
    BY DEF AccountsInv, AccountsTypeOK, RowOK, Sound
  <2> QED
    BY <2>1, <2>2 DEF TokenOK, Sound, Token
<1> QED
  BY <1>1, AccountsInvariant, PTL

(* A reset code gives one new password (reset_password), and nothing of    *)
(* the kind overlaps for the staff, whose routes run one at a time.        *)
THEOREM OnePasswordPerCode == Spec => []CodesRedeemedOnce
<1>1. AccountsInv => CodesRedeemedOnce
  BY DEF AccountsInv, RowOK, StaffOK, TokenOK, Sound, CodesRedeemedOnce
<1> QED
  BY <1>1, AccountsInvariant, PTL

=============================================================================
