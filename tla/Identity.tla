------------------------------ MODULE Identity ------------------------------
(***************************************************************************)
(* An account's one-time codes, composed with its sessions: step-up of a   *)
(* session, reset of the bound device, reset of the password, change of    *)
(* the phone number (backend/apps/identity/services/step_up.py,            *)
(* device_reset.py, password_reset.py, phone_change.py).                   *)
(*                                                                         *)
(* Request locks the account, then the challenges it replaces; the         *)
(* confirmations lock the challenge first and then a session or the        *)
(* account, so transactions can wait for one another in a circle, and      *)
(* PostgreSQL rolls one of them back.  Per purpose only the newest         *)
(* challenge is kept: a request consumes the ones before it, and a         *)
(* consumed challenge does nothing.  An expired code is refused without    *)
(* effect, so a code that is never confirmed stands for it.                *)
(*                                                                         *)
(* A definition named Bug_X is a plausible bug in a definition that        *)
(* follows it, for checking that the properties notice it.                 *)
(***************************************************************************)
EXTENDS Sessions, Functions

CONSTANTS Purposes,
          Phones, FirstPhone, \* numbers, and the one the account has
          MaxChallenges, \* bound on the challenges requested, of all purposes
          MaxAttempts    \* OTP_MAX_ATTEMPTS

ASSUME IdentityAssumption ==
  /\ Purposes \subseteq {"STEP_UP", "DEVICE_RESET", "PASSWORD_RESET", "PHONE_CHANGE"}
  /\ Phones \subseteq Nat \ {0} /\ FirstPhone \in Phones
  /\ MaxChallenges \in Nat /\ MaxAttempts \in Nat \ {0}

VARIABLES challenge, \* newest row of identity_mfa_challenge of each purpose, with
                     \* how often its code was accepted and the session it served
          phone      \* the account's number

ivars == <<svars, challenge, phone>>

ChallengeRow(p) == <<p, 0>>

\* The digest of the code names the session and the number; 0 stands for none.
Challenge(n, s, number) ==
  [id |-> n, open |-> TRUE, attempts |-> 0, session |-> s, phone |-> number,
   accepted |-> 0, served |-> 0]

IdentityInit ==
  /\ SessionsInit
  /\ challenge = [p \in Purposes |-> [Challenge(0, 0, 0) EXCEPT !.open = FALSE]]
  /\ phone = FirstPhone

\* Purposes whose codes belong to a session.
OfSession == {"STEP_UP", "PHONE_CHANGE"}

CodesSame == UNCHANGED <<challenge, phone>>
SessionsSame == UNCHANGED <<account, devices, sessions, tokens, exchanged, reused>>

-----------------------------------------------------------------------------
(* Requesting a code. *)
\* Challenges requested so far and those under way.
Requested ==
  FoldFunction(LAMBDA c, n : c.id + n, 0, challenge)
    + Cardinality({w \in Workers : work[w].pc \in Purposes \cup {"asking"}})

\* PhoneChangeRequestView reads the account, which may have the number by the time
\* it is locked.
AskForPhone(w, s, number) ==
  /\ At(w, "idle")
  /\ "PHONE_CHANGE" \in Purposes
  /\ s \in Live /\ ~account.temp
  /\ number # phone
  /\ Turn(w, [Idle EXCEPT !.pc = "asking", !.session = s, !.phone = number])
  /\ SessionsSame /\ CodesSame

\* The account is locked, and the live session s of a request that has one.
LockRequest(w, p, s) ==
  LET rows == {UserRow} \cup IF p \in OfSession THEN {SessionRow(s)} ELSE {} IN
  /\ p \in OfSession <=> s \in Live
  /\ Free(rows, w)
  /\ Turn(w, [work[w] EXCEPT !.pc = p, !.session = s, !.locks = rows])
  /\ SessionsSame /\ CodesSame

BeginRequest(w, p, s) ==
  /\ At(w, "idle") /\ p # "PHONE_CHANGE"
  /\ LockRequest(w, p, s)

BeginPhoneRequest(w) ==
  At(w, "asking") /\ LockRequest(w, "PHONE_CHANGE", work[w].session)

\* The session ended meanwhile: TokenInvalidError.
RefusePhoneRequest(w) ==
  /\ At(w, "asking") /\ work[w].session \notin Live
  /\ Done(w)
  /\ SessionsSame /\ CodesSame

\* UPDATE consumes the open challenge, whose row it must lock; then INSERT.
CommitRequest(w, p) ==
  /\ At(w, p)
  /\ challenge[p].open => Free({ChallengeRow(p)}, w)
  /\ challenge' = [challenge EXCEPT ![p] = Challenge(@.id + 1, work[w].session, work[w].phone)]
  /\ Done(w)
  /\ SessionsSame /\ UNCHANGED phone

-----------------------------------------------------------------------------
(* Confirming: _settle. *)
\* A consumed challenge is still usable.
Bug_Usable(p) == challenge[p].id > 0 /\ challenge[p].attempts < MaxAttempts

Usable(p) == challenge[p].open /\ challenge[p].attempts < MaxAttempts

RightSession(p, s) == p \in OfSession => challenge[p].session = s

\* A wrong code is counted, and the last one consumes the challenge.
WrongCode(w, p) ==
  /\ At(w, "idle")
  /\ p \in OfSession => Live # {}
  /\ Usable(p) /\ Free({ChallengeRow(p)}, w)
  /\ challenge' = [challenge EXCEPT ![p].attempts = @ + 1,
                                    ![p].open = challenge[p].attempts + 1 < MaxAttempts]
  /\ SessionsSame /\ UNCHANGED <<work, phone>>

\* The right code: the challenge stays locked while its purpose is served.
\* s is the session of the request, alive when it was authenticated.
RightCode(w, p, s) ==
  /\ At(w, "idle") /\ Usable(p) /\ Free({ChallengeRow(p)}, w)
  /\ p \in OfSession <=> s \in Live
  /\ RightSession(p, s)
  /\ p = "PASSWORD_RESET" => account.gen < MaxPasswords
  /\ Turn(w, [Idle EXCEPT !.pc = CASE p = "STEP_UP" -> "stepping"
                                   [] p = "DEVICE_RESET" -> "unbinding"
                                   [] p = "PASSWORD_RESET" -> "recovering"
                                   [] p = "PHONE_CHANGE" -> "confirming",
                          !.session = s, !.phone = challenge[p].phone, !.locks = {ChallengeRow(p)}])
  /\ SessionsSame /\ CodesSame

Consumed(p) == [challenge EXCEPT ![p].open = FALSE]
Accepted(p, s) == [Consumed(p) EXCEPT ![p].accepted = @ + 1, ![p].served = s]

\* A session revoked meanwhile still uses up the challenge, and gains nothing.
StepUp(w) ==
  LET s == work[w].session IN
  /\ At(w, "stepping") /\ Free({SessionRow(s)}, w)
  /\ IF s \in Live
     THEN sessions' = [sessions EXCEPT ![s].level = 2] /\ challenge' = Accepted("STEP_UP", s)
     ELSE UNCHANGED sessions /\ challenge' = Consumed("STEP_UP")
  /\ Done(w)
  /\ UNCHANGED <<account, devices, tokens, exchanged, reused, phone>>

Bug_SessionNotLocked(w) == work[w].locks

PhoneLocks(w) == work[w].locks \cup {SessionRow(work[w].session)}

\* The session is locked before the account.
LockPhoneSession(w) ==
  /\ At(w, "confirming") /\ Free({SessionRow(work[w].session)}, w)
  /\ IF work[w].session \in Live
     THEN Turn(w, [work[w] EXCEPT !.pc = "replacing", !.locks = PhoneLocks(w)])
          /\ UNCHANGED challenge
     ELSE Done(w) /\ challenge' = Consumed("PHONE_CHANGE")
  /\ SessionsSame /\ UNCHANGED phone

\* A number the account has already is accepted, and nothing is announced.
CommitPhone(w) ==
  /\ At(w, "replacing") /\ Free({UserRow}, w)
  /\ phone' = work[w].phone
  /\ challenge' = Accepted("PHONE_CHANGE", work[w].session)
  /\ Done(w)
  /\ SessionsSame

\* DeviceBindingService.revoke: the active device read, its row updated.
UnbindDevice(w) ==
  /\ At(w, "unbinding")
  /\ \E d \in ActiveDevice \cup {0} :
       /\ d = 0 => ActiveDevice = {}
       /\ Turn(w, [work[w] EXCEPT !.pc = "unbound", !.dev = d])
  /\ SessionsSame /\ CodesSame

EndSessions(w) ==
  /\ At(w, "unbound") /\ Free(Rows(Live), w)
  /\ Turn(w, [work[w] EXCEPT !.pc = "resetting", !.ends = Live, !.locks = @ \cup Rows(Live)])
  /\ SessionsSame /\ CodesSame

CommitDeviceReset(w) ==
  /\ At(w, "resetting")
  /\ devices' = [d \in DOMAIN devices |->
                   IF d = work[w].dev THEN [devices[d] EXCEPT !.status = "revoked"] ELSE devices[d]]
  /\ sessions' = Revoked(work[w].ends)
  /\ challenge' = Accepted("DEVICE_RESET", 0)
  /\ Done(w)
  /\ UNCHANGED <<account, tokens, exchanged, reused, phone>>

\* _apply_new_password: whether the password is temporary does not change.
RecoverPassword(w) ==
  At(w, "recovering") /\ NewPassword(w, "recovered", work[w].locks) /\ CodesSame

CommitRecovery(w) ==
  /\ At(w, "recovered")
  /\ account' = [account EXCEPT !.gen = @ + 1]
  /\ sessions' = Revoked(work[w].ends)
  /\ challenge' = Accepted("PASSWORD_RESET", 0)
  /\ Done(w)
  /\ UNCHANGED <<devices, tokens, exchanged, reused, phone>>

-----------------------------------------------------------------------------
(* PostgreSQL. *)
\* The rows w's next statement must lock.
Wants(w) ==
  CASE work[w].pc \in Purposes -> IF challenge[work[w].pc].open
                                  THEN {ChallengeRow(work[w].pc)} ELSE {}
    [] work[w].pc \in {"stepping", "confirming"} -> {SessionRow(work[w].session)}
    [] At(w, "replacing") -> {UserRow}
    [] At(w, "creating") -> {NewDevice}
    [] At(w, "unbound") -> Rows(Live)
    [] At(w, "recovering") -> {UserRow} \cup Rows(Live)
    [] OTHER -> {}

BlockedBy(w) == {v \in Workers \ {w} : work[v].locks \cap Wants(w) # {}}

\* Two transactions wait for each other: the deadlock detector ends one.
BreakDeadlock(w) ==
  /\ \E v \in BlockedBy(w) : w \in BlockedBy(v)
  /\ RollBack(w) /\ CodesSame

\* A confirmation fails half-way.
FailConfirmation(w) ==
  /\ work[w].pc \in {"stepping", "unbound", "resetting", "recovered", "confirming", "replacing"}
  /\ RollBack(w) /\ CodesSame

-----------------------------------------------------------------------------
\* What finishes a request that has begun.
Continue(w) ==
  \/ /\ \/ BeginLogin(w) \/ RefuseLogin(w) \/ BindDevice(w) \/ CreateDevice(w) \/ CommitLogin(w)
        \/ Rotate(w) \/ DetectReuse(w) \/ RevokeFamily(w)
        \/ ChangePassword(w) \/ CommitPassword(w)
     /\ CodesSame
  \/ BeginPhoneRequest(w) \/ RefusePhoneRequest(w)
  \/ \E p \in Purposes : CommitRequest(w, p)
  \/ StepUp(w)
  \/ LockPhoneSession(w) \/ CommitPhone(w)
  \/ UnbindDevice(w) \/ EndSessions(w) \/ CommitDeviceReset(w)
  \/ RecoverPassword(w) \/ CommitRecovery(w)
  \/ BreakDeadlock(w)

\* The requests users and organizers make, and what goes wrong.
Start(w) ==
  \/ /\ \/ \E l \in Logins : VerifyCredentials(w, l[1], l[2])
        \/ \E j \in DOMAIN tokens : ReadSession(w, j)
        \/ \E s \in Live : RevokeSession(w, s)
        \/ CheckPassword(w) \/ RenewTemporary(w)
        \/ FailLogin(w)
     /\ CodesSame
  \/ /\ At(w, "idle") /\ Requested < MaxChallenges
     /\ \/ \E p \in Purposes, s \in Live \cup {0} : BeginRequest(w, p, s)
        \/ \E s \in Live, number \in Phones : AskForPhone(w, s, number)
  \/ \E p \in Purposes, s \in Live \cup {0} : RightCode(w, p, s)
  \/ \E p \in Purposes : WrongCode(w, p)
  \/ FailConfirmation(w)

IdentityNext == \E w \in Workers : Continue(w) \/ Start(w)

IdentitySpec == IdentityInit /\ [][IdentityNext]_ivars

-----------------------------------------------------------------------------
\* A refresh token is exchanged for a new pair at most once, however many
\* requests present it at the same time (rotate: "strict single use"); and once its
\* reuse has been reported its family is dead, even though the transaction that
\* noticed it was rolled back.
TokenExchangedOnce ==
  /\ \A j \in DOMAIN exchanged : exchanged[j] <= 1
  /\ reused \cap Live = {}

\* Logins that overlap exclude each other: an account never has two live web
\* sessions, also when two browsers log in at the same time, and one generation of
\* a temporary password opens at most one session, whatever overlaps: logins on two
\* channels, the password's renewal, its recovery.
LoginsExclude ==
  /\ \A s, t \in Live :
       sessions[s].client = "WEB" /\ sessions[t].client = "WEB" => s = t
  /\ \A s, t \in DOMAIN sessions :
       s # t /\ sessions[s].spends = sessions[t].spends => sessions[s].spends = 0

\* A code is accepted at most once, and one for a step-up or a new phone number
\* serves only the session that asked for it.
CodeAcceptedOnce ==
  \A p \in Purposes : LET c == challenge[p] IN
    /\ c.accepted <= 1
    /\ c.served # 0 => c.served = c.session

\* A revoked session stays revoked and gains neither a refresh token nor a level,
\* and the account's number is replaced only in the name of a session that is
\* alive, by the number its code was sent for, whatever was under way when the
\* session was revoked or the code replaced.
RevocationIsFinal ==
  [][/\ \A s \in DOMAIN sessions : s \notin Live => sessions'[s] = sessions[s]
     /\ phone' # phone => LET c == challenge["PHONE_CHANGE"]
                         IN  c.open /\ c.session \in Live /\ phone' = c.phone]_ivars
=============================================================================
