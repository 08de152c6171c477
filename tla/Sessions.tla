------------------------------ MODULE Sessions ------------------------------
(***************************************************************************)
(* One account's sessions, refresh tokens, bound device and password       *)
(* (backend/apps/identity/services/authentication.py, tokens.py,           *)
(* devices.py, scanner_accounts.py).  The device lock in Redis is          *)
(* DeviceLock's.                                                           *)
(*                                                                         *)
(* Workers are the requests in progress.  What a transaction writes shows  *)
(* when it commits, and rows it has locked make others wait (READ          *)
(* COMMITTED).  Locks that one transaction takes in consecutive statements *)
(* are taken in one step; locks for foreign keys are left out.  A session is the number of its row and      *)
(* stands for its family: no caller passes issue_pair a family.  Sessions  *)
(* do not expire: a token that would find its session expired is expired   *)
(* itself and decode_token has refused it.  An ORGANIZER or ADMIN, exempt  *)
(* from the device lock, is an account whose logins bring no fingerprint.  *)
(*                                                                         *)
(* A definition named Bug_X is a plausible bug in a definition that        *)
(* follows it, for checking that the properties notice it.                 *)
(***************************************************************************)
EXTENDS Integers, Sequences, FiniteSets

CONSTANTS Workers,
          Logins,       \* <<client, fingerprint>> pairs; fingerprint 0 is none given
          Invited,      \* the account is new, with the password of its invitation
          MaxSessions, MaxTokens, MaxPasswords \* bounds on the rows, tokens, passwords

ASSUME SessionsAssumption ==
  /\ IsFiniteSet(Workers) /\ Invited \in BOOLEAN
  /\ Logins \subseteq {"WEB", "MOBILE"} \X Nat
  /\ {MaxSessions, MaxTokens, MaxPasswords} \subseteq Nat

VARIABLES account,  \* the password's generation, whether temporary, whether it was used
          devices,  \* rows of identity_device
          sessions, \* rows of identity_session; token is refresh_jti
          tokens,   \* the session each refresh token was signed for
          work,     \* what each worker is in the middle of
          exchanged,\* how often each refresh token was exchanged for a new one
          reused    \* sessions whose refresh token was reported reused

svars == <<account, devices, sessions, tokens, work, exchanged, reused>>

-----------------------------------------------------------------------------
(* Rows, the workers that lock them, and transactions. *)
UserRow == <<"user", 0>>
SessionRow(s) == <<"session", s>>
NewDevice == <<"device", 0>>   \* the uncommitted active device, if there is one

\* phone is the number a request is about, in Identity.
Idle == [pc |-> "idle", client |-> "MOBILE", fp |-> 0, temp |-> FALSE, phone |-> 0,
         dev |-> 0, token |-> 0, session |-> 0, ends |-> {}, locks |-> {}]

SessionsInit ==
  /\ account = [gen |-> 1, temp |-> Invited, used |-> FALSE]
  /\ devices = <<>>
  /\ sessions = <<>> /\ tokens = <<>>
  /\ work = [w \in Workers |-> Idle]
  /\ exchanged = <<>> /\ reused = {}

Free(rows, w) == \A v \in Workers \ {w} : work[v].locks \cap rows = {}
At(w, pc) == work[w].pc = pc
Turn(w, new) == work' = [work EXCEPT ![w] = new]
Done(w) == Turn(w, Idle)

Live == {s \in DOMAIN sessions : ~sessions[s].revoked}
Rows(S) == {SessionRow(s) : s \in S}
ActiveDevice == {d \in DOMAIN devices : devices[d].status = "active"}

\* UPDATE ... SET revoked_at WHERE revoked_at IS NULL.
Revoked(S) ==
  [s \in DOMAIN sessions |->
     IF s \in S THEN [sessions[s] EXCEPT !.revoked = TRUE] ELSE sessions[s]]

\* The device row w inserted, if any, which is the last one.
Pending(w) == {d \in {work[w].dev} \cap DOMAIN devices : devices[d].status = "pending"}

-----------------------------------------------------------------------------
(* AuthenticationService.login. *)
LoggingIn == {"verified", "login", "creating", "bound"}
Room(n) == Len(tokens) + Cardinality({w \in Workers : work[w].pc \in LoggingIn \cup {"rotating"}}) < n

\* _verify_credentials: an unlocked read of the account.
VerifyCredentials(w, client, fp) ==
  /\ At(w, "idle") /\ <<client, fp>> \in Logins
  /\ Len(sessions) + Cardinality({v \in Workers : work[v].pc \in LoggingIn}) < MaxSessions
  /\ Room(MaxTokens)
  /\ Turn(w, [Idle EXCEPT !.pc = "verified", !.client = client, !.fp = fp,
                          !.temp = account.temp])
  /\ UNCHANGED <<account, devices, sessions, tokens, exchanged, reused>>

\* A web login does not lock the account.
Bug_LocksOnlyTemporary(w) == work[w].temp

LocksUser(w) == work[w].client = "WEB" \/ work[w].temp

Ends(w) == IF work[w].client = "WEB" THEN {s \in Live : sessions[s].client = "WEB"} ELSE {}

\* The account as the transaction sees it: read again once it is locked.
MustChange(w) == IF LocksUser(w) THEN account.temp ELSE work[w].temp

\* The password counts as used only while the session it opened lives.
Bug_UsedByLiveSession(w) == \E s \in Live : sessions[s].spends = account.gen

UsedTemporary(w) == account.used

\* select_for_update on the account, then the web sessions this one replaces.
BeginLogin(w) ==
  LET locked == IF LocksUser(w) THEN {UserRow} ELSE {} IN
  /\ At(w, "verified")
  /\ Free(locked \cup Rows(Ends(w)), w)
  /\ ~(MustChange(w) /\ UsedTemporary(w))
  /\ Turn(w, [work[w] EXCEPT !.pc = IF work[w].fp = 0 THEN "bound" ELSE "login",
                             !.temp = MustChange(w), !.ends = Ends(w),
                             !.locks = locked \cup Rows(Ends(w))])
  /\ UNCHANGED <<account, devices, sessions, tokens, exchanged, reused>>

\* A temporary password that was used, or has expired, opens nothing.
RefuseLogin(w) ==
  /\ At(w, "verified") /\ LocksUser(w) /\ Free({UserRow}, w)
  /\ MustChange(w)
  /\ Done(w)
  /\ UNCHANGED <<account, devices, sessions, tokens, exchanged, reused>>

\* DeviceBindingService.bind: another active device refuses the login.
BindDevice(w) ==
  /\ At(w, "login")
  /\ \/ ActiveDevice = {} /\ Turn(w, [work[w] EXCEPT !.pc = "creating"])
     \/ \E d \in ActiveDevice :
          IF devices[d].fp = work[w].fp
          THEN Turn(w, [work[w] EXCEPT !.pc = "bound", !.dev = d])
          ELSE Done(w)
  /\ UNCHANGED <<account, devices, sessions, tokens, exchanged, reused>>

\* _create: uq_device_active_per_user makes a second insert wait for the first.
CreateDevice(w) ==
  /\ At(w, "creating") /\ Free({NewDevice}, w)
  /\ IF ActiveDevice = {}
     THEN /\ devices' = Append(devices, [fp |-> work[w].fp, status |-> "pending"])
          /\ Turn(w, [work[w] EXCEPT !.pc = "bound", !.dev = Len(devices) + 1,
                                     !.locks = @ \cup {NewDevice}])
     ELSE Done(w) /\ UNCHANGED devices
  /\ UNCHANGED <<account, sessions, tokens, exchanged, reused>>

\* issue_pair, the temporary password's mark, and the commit.
CommitLogin(w) ==
  LET j == Len(tokens) + 1 IN
  /\ At(w, "bound")
  /\ sessions' = Append(Revoked(work[w].ends),
                        [client |-> work[w].client, device |-> work[w].dev, token |-> j,
                         revoked |-> FALSE, level |-> 1,
                         spends |-> IF work[w].temp THEN account.gen ELSE 0])
  /\ tokens' = Append(tokens, Len(sessions) + 1)
  /\ exchanged' = Append(exchanged, 0)
  /\ devices' = [d \in DOMAIN devices |->
                   IF d \in Pending(w) THEN [devices[d] EXCEPT !.status = "active"] ELSE devices[d]]
  /\ account' = [account EXCEPT !.used = @ \/ work[w].temp]
  /\ Done(w)
  /\ UNCHANGED reused

\* The transaction fails half-way, and takes back the device it inserted.
RollBack(w) ==
  /\ Done(w)
  /\ devices' = SubSeq(devices, 1, Len(devices) - Cardinality(Pending(w)))
  /\ UNCHANGED <<account, sessions, tokens, exchanged, reused>>

FailLogin(w) == At(w, "bound") /\ RollBack(w)

-----------------------------------------------------------------------------
(* AuthenticationService.refresh and TokenService.rotate. *)
Current(j) == tokens[j] \in Live /\ sessions[tokens[j]].token = j

\* _session_for and assert_fingerprint, which lock nothing.  A wrong
\* fingerprint or a revoked device ends the request and changes nothing.
ReadSession(w, j) ==
  LET d == sessions[tokens[j]].device IN
  /\ At(w, "idle")
  /\ Current(j) => /\ Room(MaxTokens)
                   /\ d # 0 => d \in ActiveDevice
  /\ Turn(w, [Idle EXCEPT !.pc = "rotating", !.token = j, !.session = tokens[j]])
  /\ UNCHANGED <<account, devices, sessions, tokens, exchanged, reused>>

\* The family's liveness stands for the token's; the token is not filtered on
\* revocation.
Bug_MayRotateFamily(w) == work[w].session \in Live
Bug_MayRotateRevoked(w) == sessions[work[w].session].token = work[w].token

\* _lock_current_session: the row is read again once it is locked.
MayRotate(w) == Current(work[w].token)

Rotate(w) ==
  LET j == work[w].token
      s == work[w].session
      new == Len(tokens) + 1 IN
  /\ At(w, "rotating") /\ MayRotate(w) /\ Free({SessionRow(s)}, w)
  /\ sessions' = [sessions EXCEPT ![s].token = new]
  /\ tokens' = Append(tokens, s)
  /\ exchanged' = Append([exchanged EXCEPT ![j] = @ + 1], 0)
  /\ Done(w)
  /\ UNCHANGED <<account, devices, reused>>

\* The token is not its live family's current one: the transaction rolls back.
DetectReuse(w) ==
  /\ At(w, "rotating") /\ ~MayRotate(w)
  /\ IF work[w].session \in Live THEN Turn(w, [work[w] EXCEPT !.pc = "reused"]) ELSE Done(w)
  /\ UNCHANGED <<account, devices, sessions, tokens, exchanged, reused>>

\* The revocation is rolled back with the rotation that noticed the reuse.
Bug_FamilyOf(w) == {}

FamilyOf(w) == {work[w].session}

\* revoke_family, after that transaction.
RevokeFamily(w) ==
  /\ At(w, "reused") /\ Free(Rows(FamilyOf(w)), w)
  /\ sessions' = Revoked(FamilyOf(w))
  /\ reused' = reused \cup {work[w].session}
  /\ Done(w)
  /\ UNCHANGED <<account, devices, tokens, exchanged>>

\* logout and SessionRevokeView.delete: one UPDATE.
RevokeSession(w, s) ==
  /\ At(w, "idle") /\ s \in Live /\ Free({SessionRow(s)}, w)
  /\ sessions' = Revoked({s})
  /\ UNCHANGED <<account, devices, tokens, work, exchanged, reused>>

-----------------------------------------------------------------------------
(* New passwords. Each revokes every session its UPDATE finds. *)
NewPassword(w, pc, locked) ==
  /\ Free({UserRow} \cup Rows(Live), w)
  /\ Turn(w, [work[w] EXCEPT !.pc = pc, !.ends = Live,
                             !.locks = locked \cup {UserRow} \cup Rows(Live)])
  /\ UNCHANGED <<account, devices, sessions, tokens, exchanged, reused>>

\* change_password checks the current password of the authenticated account.
CheckPassword(w) ==
  /\ At(w, "idle") /\ Live # {} /\ account.gen < MaxPasswords
  /\ Turn(w, [Idle EXCEPT !.pc = "checked"])
  /\ UNCHANGED <<account, devices, sessions, tokens, exchanged, reused>>

ChangePassword(w) == At(w, "checked") /\ NewPassword(w, "changing", {})

\* rotate_scanner_temporary_password.
RenewTemporary(w) == /\ At(w, "idle") /\ account.gen < MaxPasswords
                     /\ NewPassword(w, "renewing", {})

CommitPassword(w) ==
  /\ work[w].pc \in {"changing", "renewing"}
  /\ account' = [gen |-> account.gen + 1, temp |-> At(w, "renewing"),
                 used |-> account.used /\ ~At(w, "renewing")]
  /\ sessions' = Revoked(work[w].ends)
  /\ Done(w)
  /\ UNCHANGED <<devices, tokens, exchanged, reused>>

=============================================================================
