------------------------------ MODULE Scanners ------------------------------
(***************************************************************************)
(* One scanner and its account: invitation, temporary passwords, first     *)
(* login, activation, leaving, removal and archiving (backend/apps/        *)
(* organizing/services/scanner*.py, scanner_security.py,                   *)
(* scanner_consumers.py, identity/services/scanner_accounts.py).           *)
(*                                                                         *)
(* What the organizer does locks the scanner and is one step.  What the    *)
(* scanner's own requests do is two: the account is read (credentials or   *)
(* access token verified), and written later without being read again.     *)
(* The consumer reads scanner and account and updates the scanner later.   *)
(* A request that names the version is enabled for a client that names the *)
(* present one; every other client is refused and changes nothing.         *)
(*                                                                         *)
(* A definition named Bug_X is a plausible bug in the definition that      *)
(* follows it.                                                             *)
(***************************************************************************)
EXTENDS Integers, FiniteSets

CONSTANTS MaxGeneration,  \* bound on the temporary passwords
          MaxScannerVersion,     \* bound on the version of the scanner
          MaxAttempts,    \* SCANNER_SECURITY_OTP_MAX_ATTEMPTS
          MaxCodes        \* bound on the codes that are sent

ASSUME ScannersAssumption ==
  {MaxGeneration, MaxScannerVersion, MaxAttempts, MaxCodes} \subseteq Nat \ {0}

VARIABLES scanner,     \* the organizing_scanner row
          account,     \* the identity_user row
          sessions,    \* live sessions of the account
          call,        \* the request of the scanner that is under way
          events,      \* identity events the consumer has not handled
          activating,  \* the consumer has found the scanner ready
          help,        \* the latest organizing_scanner_credential_request
          codes,       \* attempts left on the open code of each action
          ledger,      \* how many codes were sent, guessed at, used and lapsed
          listed,      \* what the list has shown under the present version
          overtaken    \* a password change has overwritten a newer temporary password

scannerVars == <<scanner, account, sessions, call, events, activating, help, codes,
          ledger, listed, overtaken>>
security == <<codes, ledger>>
portal == <<sessions, call, events, activating, overtaken>>

Lifecycle == INSTANCE ScannerLifecycle
  WITH status <- scanner.status, active <- account.active,
       generation <- account.generation

PreActive == Lifecycle!PreActive
Team == Lifecycle!Team
Terminal == Lifecycle!Terminal
Actions == {"REVOKE", "LEAVE_ACCEPT", "LEAVE_REQUEST"}

NoCall == [op |-> "none"]

\* The password a login has to know: the temporary one of this generation, or
\* the one that replaced it.
Secret(user) == <<user.generation, user.own>>

ScannersInit ==
  /\ scanner = [status |-> "NONE", version |-> 0, archived |-> FALSE]
  /\ account = [active |-> FALSE, must_change |-> FALSE, generation |-> 0,
                own |-> FALSE, spent |-> FALSE, phone |-> FALSE]
  /\ sessions = {} /\ call = NoCall
  /\ events = {} /\ activating = FALSE
  /\ help = "none"
  /\ codes = [a \in Actions |-> 0]
  /\ ledger = [sent |-> 0, guesses |-> 0, used |-> 0, lapsed |-> 0]
  /\ listed = {} /\ overtaken = FALSE

\* The version moves and no screen shows it any more.
Versioned(row) ==
  /\ scanner.version < MaxScannerVersion
  /\ scanner' = [row EXCEPT !.version = @ + 1]
  /\ listed' = {}

-----------------------------------------------------------------------------
(* Invitation and temporary passwords. *)

\* create_invited_scanner_account.
InvitedAccount ==
  [active |-> TRUE, must_change |-> TRUE, generation |-> 1, own |-> FALSE,
   spent |-> FALSE, phone |-> FALSE]

\* ScannerInvitationService.invite: the address belongs to no account and to no
\* scanner, by a check and by the unique constraint.
Invite ==
  /\ scanner.status = "NONE"
  /\ scanner' = [status |-> "INVITED", version |-> 1, archived |-> FALSE]
  /\ account' = InvitedAccount
  /\ UNCHANGED <<portal, help, security, listed>>

\* The last statement of send_scanner_invitation_emails.
InvitationEmailed ==
  /\ scanner.status = "INVITED"
  /\ scanner' = [scanner EXCEPT !.status = "EMAIL_SENT"]
  /\ UNCHANGED <<account, portal, help, security, listed>>

Bug_KeepSessions ==
  /\ account.generation < MaxGeneration
  /\ account' = [account EXCEPT !.generation = @ + 1, !.own = FALSE,
                                !.must_change = TRUE, !.spent = FALSE]
  /\ UNCHANGED sessions

\* rotate_scanner_temporary_password: every session ends with the old password.
RotatePassword ==
  /\ account.generation < MaxGeneration
  /\ account' = [account EXCEPT !.generation = @ + 1, !.own = FALSE,
                                !.must_change = TRUE, !.spent = FALSE]
  /\ sessions' = {}

\* The five minutes of a temporary password pass.
PasswordExpires ==
  /\ account.must_change /\ ~account.spent
  /\ account' = [account EXCEPT !.spent = TRUE]
  /\ UNCHANGED <<scanner, portal, help, security, listed>>

\* ScannerInvitationService.resend; the scanner keeps status and version.
Resend ==
  /\ scanner.status \in PreActive /\ account.active
  /\ RotatePassword
  /\ UNCHANGED <<scanner, call, events, activating, overtaken, help, security, listed>>

\* ScannerCredentialService.reissue.
Reissue ==
  /\ scanner.status \in PreActive \cup Team /\ help = "PENDING"
  /\ RotatePassword
  /\ help' = "FULFILLED"
  /\ UNCHANGED <<scanner, call, events, activating, overtaken, security, listed>>

-----------------------------------------------------------------------------
(* One-time codes of the destructive actions. *)

\* Which status an action may be asked for in.
Requestable(action) ==
  CASE action = "REVOKE"        -> scanner.status \in PreActive \cup {"ACTIVE"}
    [] action = "LEAVE_ACCEPT"  -> scanner.status = "LEAVE_REQUESTED"
    [] action = "LEAVE_REQUEST" -> scanner.status = "ACTIVE"

Open(action) == IF codes[action] > 0 THEN 1 ELSE 0

\* ScannerSecurityService.request: a new code consumes the open one.
SendCode(action) ==
  /\ Requestable(action) /\ ledger.sent < MaxCodes
  /\ codes' = [codes EXCEPT ![action] = MaxAttempts]
  /\ ledger' = [ledger EXCEPT !.sent = @ + 1, !.lapsed = @ + Open(action)]
  /\ UNCHANGED <<scanner, account, portal, help, listed>>

Bug_AttemptsRolledBack(action) == codes' = codes

\* The error is raised after the commit, so that the attempt stays counted.
CountAttempt(action) == codes' = [codes EXCEPT ![action] = @ - 1]

\* ScannerSecurityService.consume with a wrong code; the last attempt closes it.
WrongCode(action) ==
  /\ codes[action] > 0 /\ ledger.guesses < MaxCodes * MaxAttempts
  /\ CountAttempt(action)
  /\ ledger' = [ledger EXCEPT !.guesses = @ + 1, !.lapsed = @ + Open(action) - Open(action)']
  /\ UNCHANGED <<scanner, account, portal, help, listed>>

CodeExpires(action) ==
  /\ codes[action] > 0
  /\ codes' = [codes EXCEPT ![action] = 0]
  /\ ledger' = [ledger EXCEPT !.lapsed = @ + 1]
  /\ UNCHANGED <<scanner, account, portal, help, listed>>

Bug_CodeStaysOpen(action) ==
  /\ codes[action] > 0
  /\ ledger' = [ledger EXCEPT !.used = @ + 1]
  /\ UNCHANGED codes

\* consume_and_run: the code and the operation in one transaction.
ConsumeCode(action) ==
  /\ codes[action] > 0
  /\ codes' = [codes EXCEPT ![action] = 0]
  /\ ledger' = [ledger EXCEPT !.used = @ + 1]

Bug_CommittedBefore(action) == codes' = [codes EXCEPT ![action] = 0]

\* What a refusal leaves of the code.
RolledBack(action) == UNCHANGED codes

\* The right code of the organizer, and yet a refusal: the version is not the
\* present one, or the operation finds a status it does not accept (a removal from
\* another screen, a leave request already rejected) after the code was consumed.
RefuseConfirmation(action) ==
  /\ action \in {"REVOKE", "LEAVE_ACCEPT"} /\ codes[action] > 0
  /\ RolledBack(action)
  /\ UNCHANGED <<scanner, account, portal, help, ledger, listed>>

-----------------------------------------------------------------------------
(* Removal, leaving, archiving. *)

Bug_SessionsSurvive ==
  /\ account' = [account EXCEPT !.active = FALSE, !.must_change = FALSE,
                                !.spent = FALSE, !.phone = FALSE]
  /\ UNCHANGED sessions

\* deactivate_scanner_account; it leaves the version of the account as it is.
DeactivateAccount ==
  /\ account' = [account EXCEPT !.active = FALSE, !.must_change = FALSE,
                                !.spent = FALSE, !.phone = FALSE]
  /\ sessions' = {}

Bug_ByPasswordOnly ==
  IF account.must_change THEN "INVITATION_CANCELLED" ELSE "DELETED"

\* A member of the team is DELETED, also while the password is temporary again.
RemovedStatus ==
  IF ~account.must_change \/ scanner.status \in Team THEN "DELETED" ELSE "INVITATION_CANCELLED"

\* ScannerAccessService.revoke.
RemoveScanner ==
  /\ scanner.status \in PreActive \cup Team
  /\ Versioned([scanner EXCEPT !.status = RemovedStatus])
  /\ DeactivateAccount
  /\ UNCHANGED <<call, events, activating, overtaken, help>>

\* OrganizerScannerDetailView.delete.
Revoke == ConsumeCode("REVOKE") /\ RemoveScanner

\* OrganizerScannerLeaveDecisionView.post, ACCEPT.
AcceptLeave ==
  /\ scanner.status = "LEAVE_REQUESTED"
  /\ ConsumeCode("LEAVE_ACCEPT") /\ RemoveScanner

Bug_RejectKeepsVersion ==
  /\ scanner.status = "LEAVE_REQUESTED"
  /\ scanner' = [scanner EXCEPT !.status = "ACTIVE"]
  /\ UNCHANGED <<account, portal, help, security, listed>>

\* OrganizerScannerLeaveDecisionView.post, REJECT.
RejectLeave ==
  /\ scanner.status = "LEAVE_REQUESTED"
  /\ Versioned([scanner EXCEPT !.status = "ACTIVE"])
  /\ UNCHANGED <<account, portal, help, security>>

\* ScannerArchiveService.archive_many.
Archive ==
  /\ scanner.status \in Terminal /\ ~scanner.archived
  /\ Versioned([scanner EXCEPT !.archived = TRUE])
  /\ UNCHANGED <<account, portal, help, security>>

\* What a decision of the organizer depends on.
Shown(status) == IF status \in Terminal \cup {"LEAVE_REQUESTED"} THEN status ELSE "in place"

\* OrganizerScannerCollectionView.get.
List ==
  /\ scanner.status # "NONE" /\ ~scanner.archived
  /\ listed' = listed \cup {Shown(scanner.status)}
  /\ UNCHANGED <<scanner, account, portal, help, security>>

-----------------------------------------------------------------------------
(* Requests of the scanner: read now, write later. *)

Begin(op) ==
  /\ call = NoCall
  /\ call' = [op |-> op, secret |-> Secret(account), must_change |-> account.must_change,
              version |-> IF op = "leave" THEN scanner.version ELSE 0]
  /\ UNCHANGED <<scanner, account, sessions, events, activating, overtaken,
                 help, security, listed>>

\* JWTAuthentication.authenticate.
Authenticated == sessions # {} /\ account.active

\* _verify_credentials.
StartLogin == account.active /\ Begin("login")
StartPassword == Authenticated /\ Begin("password")

\* MeView.patch: the first phone needs no code, and not the temporary password.
StartPhone == Authenticated /\ ~account.must_change /\ ~account.phone /\ Begin("phone")

\* ScannerLeaveRequestView.post reads the version it expects.
StartLeave == Authenticated /\ Begin("leave")

\* ScannerCredentialService.request_help needs no session.
StartHelp == account.active /\ scanner.status \notin Terminal /\ Begin("help")

\* The rest of login.  The account is read again, and locked, for a browser or a
\* temporary password; neither the password nor is_active is looked at again.
FinishLogin ==
  LET Opens(mustChange) ==
        /\ sessions' = sessions \cup {[secret |-> call.secret,
               late |-> call.secret # Secret(account) \/ ~account.active]}
        /\ account' = [account EXCEPT !.spent = @ \/ mustChange]
        /\ events' = events \cup {"logged_in"}
      Refused == UNCHANGED <<sessions, account, events>>
  IN  /\ call.op = "login" /\ call' = NoCall
      /\ \E mustChange \in {account.must_change, account.must_change /\ call.must_change} :
           IF mustChange /\ account.spent THEN Refused ELSE Opens(mustChange)
      /\ UNCHANGED <<scanner, activating, overtaken, help, security, listed>>

\* The transaction of change_password, on the account as it was read.
FinishPassword ==
  /\ call.op = "password" /\ call' = NoCall
  /\ account' = [account EXCEPT !.own = TRUE, !.must_change = FALSE]
  /\ sessions' = {}
  /\ events' = events \cup (IF call.must_change THEN {"password_changed"} ELSE {})
  /\ overtaken' = (overtaken \/ call.secret[1] # account.generation)
  /\ UNCHANGED <<scanner, activating, help, security, listed>>

\* ProfileService.update: only profile updates move the version of the account,
\* so nothing that happened meanwhile refuses this one.
FinishPhone ==
  /\ call.op = "phone" /\ call' = NoCall
  /\ account' = [account EXCEPT !.phone = TRUE]
  /\ events' = events \cup {"profile_updated"}
  /\ UNCHANGED <<scanner, sessions, activating, overtaken, help, security, listed>>

\* ScannerLeaveService.request.
RequestLeave ==
  /\ call.op = "leave" /\ call' = NoCall
  /\ call.version = scanner.version /\ scanner.status = "ACTIVE"
  /\ ConsumeCode("LEAVE_REQUEST")
  /\ Versioned([scanner EXCEPT !.status = "LEAVE_REQUESTED"])
  /\ UNCHANGED <<account, sessions, events, activating, overtaken, help>>

\* Stale version, no open code, or the wrong status once the code was consumed.
RefuseLeave ==
  /\ call.op = "leave" /\ call' = NoCall
  /\ \/ call.version # scanner.version
     \/ scanner.status # "ACTIVE"
     \/ codes["LEAVE_REQUEST"] = 0
  /\ RolledBack("LEAVE_REQUEST")
  /\ UNCHANGED <<scanner, account, sessions, events, activating, overtaken, help,
                 ledger, listed>>

\* The unique constraint keeps one PENDING request.
FinishHelp ==
  /\ call.op = "help" /\ call' = NoCall
  /\ help' = "PENDING"
  /\ UNCHANGED <<scanner, account, sessions, events, activating, overtaken,
                 security, listed>>

-----------------------------------------------------------------------------
(* ScannerLifecycleConsumer. *)

\* USER_LOGGED_IN.
OnLoggedIn ==
  /\ "logged_in" \in events
  /\ events' = events \ {"logged_in"}
  /\ scanner' = [scanner EXCEPT !.status =
                   IF @ \in {"INVITED", "EMAIL_SENT"} THEN "OPENED" ELSE @]
  /\ UNCHANGED <<account, sessions, call, activating, overtaken, help, security, listed>>

\* activate_scanner_if_ready, the conditions.
Ready ==
  /\ scanner.status \in PreActive
  /\ ~account.must_change /\ account.phone

Bug_PasswordOnly(event) ==
  /\ event \in events \ {"logged_in"} /\ ~activating
  /\ events' = events \ {event}
  /\ activating' = (Ready /\ event = "password_changed")
  /\ UNCHANGED <<scanner, account, sessions, call, overtaken, help, security, listed>>

\* USER_PROFILE_UPDATED with a phone, USER_PASSWORD_CHANGED for a temporary password.
OnCredentialEvent(event) ==
  /\ event \in events \ {"logged_in"} /\ ~activating
  /\ events' = events \ {event}
  /\ activating' = Ready
  /\ UNCHANGED <<scanner, account, sessions, call, overtaken, help, security, listed>>

\* activate_scanner_if_ready, the update: conditional on the status alone.
Activated ==
  [scanner EXCEPT !.status = IF @ \in PreActive THEN "ACTIVE" ELSE @]

Activate ==
  /\ activating /\ activating' = FALSE
  /\ scanner' = Activated
  /\ UNCHANGED <<account, sessions, call, events, overtaken, help, security, listed>>

-----------------------------------------------------------------------------
(* Who is let in. *)

\* resolve_active_scanner_id: who may admit tickets (see Admission).
MayScan ==
  /\ scanner.status = "ACTIVE" /\ ~scanner.archived
  /\ account.active /\ ~account.must_change

\* get_scanner_portal_context: who sees the portal.
MaySeePortal ==
  /\ scanner.status \in {"OPENED", "ACTIVE"} /\ ~scanner.archived
  /\ account.active /\ ~account.must_change

-----------------------------------------------------------------------------
Organizer ==
  \/ Invite \/ Resend \/ Reissue \/ List \/ Archive
  \/ \E action \in Actions : SendCode(action) \/ WrongCode(action) \/ RefuseConfirmation(action)
  \/ Revoke \/ AcceptLeave \/ RejectLeave

ScannerUser ==
  \/ StartLogin \/ StartPassword \/ StartPhone \/ StartLeave \/ StartHelp
  \/ FinishLogin \/ FinishPassword \/ FinishPhone \/ FinishHelp
  \/ RequestLeave \/ RefuseLeave

Consumer == OnLoggedIn \/ Activate \/ \E event \in events : OnCredentialEvent(event)

Time == InvitationEmailed \/ PasswordExpires \/ \E action \in Actions : CodeExpires(action)

ScannersNext == Organizer \/ ScannerUser \/ Consumer \/ Time

\* The relay delivers every event: see Outbox.
ScannersFairness ==
  /\ WF_scannerVars(Activate)
  /\ \A event \in {"profile_updated", "password_changed"} : WF_scannerVars(OnCredentialEvent(event))

ScannersSpec == ScannersInit /\ [][ScannersNext]_scannerVars /\ ScannersFairness

-----------------------------------------------------------------------------
\* Old access ends, whatever was under way.  When a password is renewed or replaced
\* or the scanner removed, every session that was opened before is gone; the
\* exception is a login that had verified the old password before and opens its
\* session after.  Nobody gets to tickets or to the portal with a temporary
\* password or after the removal, not even with such a session.
OldAccessEnds ==
  /\ \A s \in sessions : s.late \/ s.secret = Secret(account)
  /\ MayScan \/ MaySeePortal => account.own
  /\ scanner.status \in Terminal => \A s \in sessions : s.late
  /\ scanner.status # "NONE" => (account.active <=> scanner.status \notin Terminal)

\* Every code that was sent is open, or has carried out one operation, or was
\* replaced, expired or guessed at too often: a refused operation does not use it
\* up.  A wrong guess uses up an attempt even though the request fails.
CodesAreSpentOnce ==
  LET open == Cardinality({a \in Actions : codes[a] > 0})
      left == codes["REVOKE"] + codes["LEAVE_ACCEPT"] + codes["LEAVE_REQUEST"]
  IN  /\ ledger.used + ledger.lapsed + open = ledger.sent
      /\ ledger.guesses + left <= MaxAttempts * ledger.sent

\* The version does not move with activation and e-mails, yet whoever holds the
\* present one was shown the present leave request or removal: a decision made with
\* it is about the request on the screen.
VersionCoversLeave ==
  listed \subseteq {Shown(scanner.status)}

\* The life of the scanner keeps to its promise: removed for good, leaving only
\* from the team, the account active until the removal.
LifecycleKept == Lifecycle!Spec

\* Whoever has replaced the temporary password and left a phone becomes ACTIVE,
\* in whichever order the two events are handled, unless the scanner is removed or
\* the password renewed; a password change that overwrote a newer temporary
\* password is the one case in which nobody tries again.
ScannersBecomeActive ==
  [](Ready => <>(~Ready \/ overtaken))
=============================================================================
