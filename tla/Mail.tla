-------------------------------- MODULE Mail --------------------------------
(***************************************************************************)
(* The e-mail tasks of organizing, identity and notifying.  A consumer     *)
(* schedules a task for an event; a worker reads the row the task is       *)
(* about, gives up when the news is out of date, and sends the letters one *)
(* after the other.  SMTP or the database may fail before or after a       *)
(* letter is accepted, the worker may die, the row changes meanwhile.      *)
(*                                                                         *)
(* Tasks on different rows do not know of each other, so a behaviour       *)
(* follows one kind of task on one row.  What a task consists of is a      *)
(* record, and one machine runs them all:                                  *)
(*   about     the row: a scanner, a request, a code, or a row that stays  *)
(*   after     the events that schedule the task                           *)
(*   wants     the statuses of the row in which the news is still news     *)
(*   carries   it tells a temporary password                               *)
(*   current   which must be the present one when an attempt begins        *)
(*   letters   the group each letter belongs to, in order of sending       *)
(*   marked    each group leaves a mark in the row and is skipped by it    *)
(*   rechecks  status is read again between the groups                     *)
(*   reports   INVITED becomes EMAIL_SENT at the end                       *)
(*   retries   a failure is retried, from the start                        *)
(*   repeats   later events of the row schedule it again                   *)
(*                                                                         *)
(* A definition named Bug_X is a plausible bug in the definition that      *)
(* follows it.                                                             *)
(***************************************************************************)
EXTENDS Integers, Sequences, FiniteSetsExt, Functions

CONSTANTS MaxPasswords,  \* bound on the temporary passwords of one account
          MaxRetries,    \* max_retries of the tasks
          MaxCrashes,    \* bound on the workers that die
          MaxLeaves      \* bound on the leave requests of the scanner

ASSUME MailAssumption ==
  MaxPasswords \in Nat \ {0} /\ {MaxRetries, MaxCrashes, MaxLeaves} \subseteq Nat

VARIABLES status, active, generation,  \* the row, see ScannerLifecycle
          leaves,    \* leave requests so far
          expired,   \* the temporary password is older than five minutes
          kind,      \* the kind of task that is followed
          tasks,     \* the tasks of that kind on this row
          marks,     \* the groups marked in the row
          copies,    \* how often each letter was sent
          fresh,     \* the letters sent since the latest leave request
          unsure,    \* attempts that ended between each letter and its mark
          crashes    \* workers that died

row == <<status, active, generation, leaves, expired>>
sent == <<copies, fresh>>
vars == <<row, kind, tasks, marks, sent, unsure, crashes>>

Scanner == INSTANCE ScannerLifecycle WITH MaxGeneration <- MaxPasswords

-----------------------------------------------------------------------------
(* The kinds: organizing. *)

InTeam == Scanner!PreActive \cup Scanner!Team

\* One letter to the scanner, one to the organizer.
ToBoth ==
  [about |-> "scanner", after |-> {}, wants |-> InTeam,
   carries |-> FALSE, current |-> FALSE, letters |-> <<1, 2>>, marked |-> TRUE, rechecks |-> FALSE, reports |-> FALSE,
   retries |-> TRUE, repeats |-> FALSE]

\* The password is that of the invitation, whatever replaced it.
InvitationEmails ==
  [ToBoth EXCEPT !.after = {"INVITED"}, !.carries = TRUE, !.rechecks = TRUE,
                 !.reports = TRUE]

MilestoneEmails ==
  [ToBoth EXCEPT !.after = {"OPENED", "ACTIVE"}, !.rechecks = TRUE]

RevocationEmails ==
  [ToBoth EXCEPT !.after = Scanner!Terminal, !.wants = Scanner!Terminal]

InvitationReissuedEmails ==
  [ToBoth EXCEPT !.after = {"RENEWED"}, !.wants = Scanner!PreActive,
                 !.carries = TRUE, !.current = TRUE, !.marked = FALSE]

\* A removed scanner has no phone; a failure is logged and forgotten.
PhoneChangedOrganizerEmail ==
  [ToBoth EXCEPT !.after = {"ASKED"}, !.letters = <<1>>, !.marked = FALSE,
                 !.retries = FALSE]

PasswordHelpEmails == [ToBoth EXCEPT !.after = {"ASKED"}]

PasswordReissuedEmails ==
  [ToBoth EXCEPT !.after = {"RENEWED"}, !.carries = TRUE, !.current = TRUE]

LeaveRequestEmails ==
  [ToBoth EXCEPT !.after = {"LEAVE_REQUESTED"}, !.wants = {"LEAVE_REQUESTED"},
                 !.repeats = TRUE]

LeaveRejectedEmails ==
  [ToBoth EXCEPT !.after = {"STAYS"}, !.wants = {"ACTIVE"}, !.repeats = TRUE]

\* _unique_emails: the address of the dossier and the one of the account, once
\* each; then the administrators.
ToOfficeAndAdmins == [ToBoth EXCEPT !.about = "request", !.letters = <<1, 1, 2>>]

ReactivationRequestedEmails ==
  [ToOfficeAndAdmins EXCEPT !.after = {"START"}, !.wants = {"PENDING"}]

ReactivationDecisionEmails ==
  [ToOfficeAndAdmins EXCEPT !.after = {"APPROVED", "REJECTED"},
                            !.wants = {"APPROVED", "REJECTED"}]

-----------------------------------------------------------------------------
(* The kinds: identity and notifying. *)

\* No mark and one letter.
Single ==
  [ToBoth EXCEPT !.about = "fixed", !.after = {"START"}, !.wants = {"THERE"},
                 !.letters = <<1>>, !.marked = FALSE]

\* The code is sent while it is open.
SecurityCodeEmail == [Single EXCEPT !.about = "code", !.wants = {"OPEN"}]
PasswordResetEmail == [Single EXCEPT !.about = "code", !.wants = {"OPEN"}]

PasswordChangedEmail == Single
PhoneChangedEmail == [Single EXCEPT !.retries = FALSE]
OrganizerDecisionEmail == Single
RefundSucceededEmail == Single
FinalReportEmail == [Single EXCEPT !.retries = FALSE]
TicketTransferEmails == [Single EXCEPT !.letters = <<1, 2>>, !.retries = FALSE]

\* One letter for each buyer; two buyers here.
PostponementEmails == [Single EXCEPT !.letters = <<1, 1>>]

EventScannerAssignmentEmails == [Single EXCEPT !.letters = <<1, 2>>]

\* One letter for each scanner on duty, then the organizer.
EventScannerLifecycleEmails == [Single EXCEPT !.letters = <<1, 1, 2>>]

\* The tasks each consumer or service schedules.
ScannerLetters ==
  {InvitationEmails, MilestoneEmails, RevocationEmails, InvitationReissuedEmails,
   PhoneChangedOrganizerEmail, PasswordHelpEmails, PasswordReissuedEmails,
   LeaveRequestEmails, LeaveRejectedEmails}
ReactivationLetters == {ReactivationRequestedEmails, ReactivationDecisionEmails}
IdentityLetters == {PasswordResetEmail, PasswordChangedEmail, PhoneChangedEmail}
EventLetters ==
  {PostponementEmails, EventScannerAssignmentEmails, EventScannerLifecycleEmails}

Kinds ==
  ScannerLetters \cup ReactivationLetters \cup IdentityLetters \cup EventLetters \cup
  {SecurityCodeEmail, OrganizerDecisionEmail, RefundSucceededEmail, FinalReportEmail,
   TicketTransferEmails}

-----------------------------------------------------------------------------
(* The row, and the tasks its events schedule. *)

Task(version, request) ==
  [pc |-> "queued", at |-> 1, tries |-> 0, generation |-> version, request |-> request,
   outdated |-> 0, obsolete |-> 0]

FirstStatus ==
  [scanner |-> "NONE", request |-> "PENDING", code |-> "OPEN", fixed |-> "THERE"]

Init ==
  /\ kind \in Kinds
  /\ status = FirstStatus[kind.about] /\ active = FALSE /\ generation = 0
  /\ leaves = 0 /\ expired = FALSE
  /\ tasks = IF "START" \in kind.after THEN <<Task(0, 0)>> ELSE <<>>
  /\ marks = {} /\ fresh = {} /\ crashes = 0
  /\ copies = [i \in DOMAIN kind.letters |-> 0] /\ unsure = copies

\* The consumer defers the task.  One that is not repeated has a row of its own, so
\* any one event may be the one that is followed.
Schedule(event) ==
  IF event \in kind.after /\ (kind.repeats \/ tasks = <<>>)
  THEN \/ tasks' = Append(tasks, Task(generation', leaves'))
       \/ ~kind.repeats /\ UNCHANGED tasks
  ELSE UNCHANGED tasks

\* The life of the scanner, but for what the invitation task itself reports.
ScannerMoves ==
  /\ kind.about = "scanner" /\ Scanner!Next
  /\ kind.reports => status' # "EMAIL_SENT"
  /\ generation' > 1 => kind.carries   \* nothing else reads it
  /\ expired' = (expired /\ generation' = generation)
  /\ IF status' = "LEAVE_REQUESTED" /\ status # status'
     THEN /\ leaves < MaxLeaves /\ leaves' = leaves + 1
          /\ IF kind.repeats THEN marks' = {} /\ fresh' = {} ELSE UNCHANGED <<marks, fresh>>
     ELSE UNCHANGED <<leaves, marks, fresh>>
  /\ Schedule(CASE generation' > generation /\ generation > 0 -> "RENEWED"
                [] status = "LEAVE_REQUESTED" /\ status' = "ACTIVE" -> "STAYS"
                [] OTHER -> status')
  /\ UNCHANGED <<kind, copies, unsure, crashes>>

\* A request for help, or a phone.
Ask ==
  /\ kind.about = "scanner" /\ status \in InTeam /\ "ASKED" \in kind.after
  /\ tasks = <<>>
  /\ tasks' = <<Task(generation, leaves)>>
  /\ UNCHANGED <<row, kind, marks, sent, unsure, crashes>>

TemporaryPasswordExpires ==
  /\ kind.carries /\ generation > 0 /\ ~expired
  /\ expired' = TRUE
  /\ UNCHANGED <<status, active, generation, leaves, kind, tasks, marks, sent, unsure, crashes>>

\* A reactivation is decided, a code is used or expires.
OtherRowMoves ==
  /\ \/ status = "PENDING" /\ status' \in {"APPROVED", "REJECTED"}
     \/ status = "OPEN" /\ status' = "CLOSED"
  /\ UNCHANGED <<active, generation, leaves, expired, kind, marks, sent, unsure, crashes>>
  /\ Schedule(status')

-----------------------------------------------------------------------------
(* The worker. *)

Letters == kind.letters
Ends(i) == i = Len(Letters) \/ Letters[i + 1] # Letters[i]

\* The next letter whose group has no mark.
NextLetter(i) == Min({j \in i..Len(Letters) : Letters[j] \notin marks} \cup {Len(Letters) + 1})

\* The password in the letters of the task is no longer valid.
Obsolete(t) == kind.carries /\ (generation # tasks[t].generation \/ expired)

Bug_NeverOutOfDate(t) == TRUE

StillWanted(t) == status \in kind.wants /\ (kind.current => ~Obsolete(t))

\* The row is read: the news is out of date, or the letters follow.
Start(t) ==
  /\ tasks[t].pc = "queued"
  /\ tasks' = [tasks EXCEPT ![t] =
       IF StillWanted(t)
       THEN [@ EXCEPT !.pc = "ready", !.at = NextLetter(1)]
       ELSE [@ EXCEPT !.pc = "skipped"]]
  /\ UNCHANGED <<row, kind, marks, sent, unsure, crashes>>

\* Reading the row comes before the try: nothing retries it.
ReadFails(t) ==
  /\ tasks[t].pc = "queued"
  /\ tasks' = [tasks EXCEPT ![t].pc = "failed"]
  /\ UNCHANGED <<row, kind, marks, sent, unsure, crashes>>

\* The last letter of a group that leaves a mark.
AwaitsMark(t) == kind.marked /\ Ends(tasks[t].at)

\* The present letter is accepted by the mail server.
GoesOut(t) ==
  /\ copies' = [copies EXCEPT ![tasks[t].at] = @ + 1]
  /\ fresh' = fresh \cup {tasks[t].at}

\* The task after that letter.  News that may come back is not counted as outdated.
Delivered(t) ==
  [tasks[t] EXCEPT !.outdated = @ + (IF status \in kind.wants \/ kind.repeats THEN 0 ELSE 1),
                   !.obsolete = @ + (IF Obsolete(t) THEN 1 ELSE 0)]

\* NotificationSender.send_email.
Send(t) ==
  /\ tasks[t].pc = "ready" /\ tasks[t].at <= Len(Letters)
  /\ GoesOut(t)
  /\ tasks' = [tasks EXCEPT ![t] = IF AwaitsMark(t)
                                   THEN [Delivered(t) EXCEPT !.pc = "sent"]
                                   ELSE [Delivered(t) EXCEPT !.at = tasks[t].at + 1]]
  /\ UNCHANGED <<row, kind, marks, unsure, crashes>>

Bug_NoMark(t) == UNCHANGED marks

\* UPDATE ... WHERE the mark is null.
SetMark(t) == marks' = marks \cup {Letters[tasks[t].at]}

Mark(t) ==
  /\ tasks[t].pc = "sent"
  /\ SetMark(t)
  /\ tasks' = [tasks EXCEPT ![t].pc = "marked"]
  /\ UNCHANGED <<row, kind, sent, unsure, crashes>>

\* refresh_from_db, and the next group.
Refresh(t) ==
  LET last == tasks[t].at = Len(Letters)
  IN  /\ tasks[t].pc = "marked"
      /\ tasks' = [tasks EXCEPT ![t] =
           IF kind.rechecks /\ status \notin kind.wants /\ (~last \/ kind.reports)
           THEN [@ EXCEPT !.pc = "skipped"]
           ELSE [@ EXCEPT !.pc = "ready", !.at = NextLetter(tasks[t].at + 1)]]
      /\ UNCHANGED <<row, kind, marks, sent, unsure, crashes>>

\* {"sent": True}; the invitation reports, on condition that nothing has happened.
Finish(t) ==
  /\ tasks[t].pc = "ready" /\ tasks[t].at > Len(Letters)
  /\ tasks' = [tasks EXCEPT ![t].pc = "done"]
  /\ status' = IF kind.reports /\ status = "INVITED" THEN "EMAIL_SENT" ELSE status
  /\ UNCHANGED <<active, generation, leaves, expired, kind, marks, sent, unsure, crashes>>

-----------------------------------------------------------------------------
(* Failures.  The try holds the letters, the marks and what is read between. *)

Bug_MarkedBeforeSent(t) == marks' = marks \cup {Letters[tasks[t].at]}

FailureKeepsMarks(t) == UNCHANGED marks

\* The attempt ends after the present letter and before its mark.
Unsure(t) == unsure' = [unsure EXCEPT ![tasks[t].at] = @ + 1]

Bug_Swallowed(task) == [task EXCEPT !.pc = "swallowed"]

\* self.retry with a growing countdown, up to max_retries.
Retried(task) ==
  IF kind.retries /\ task.tries < MaxRetries
  THEN [task EXCEPT !.pc = "queued", !.tries = @ + 1]
  ELSE [task EXCEPT !.pc = "failed"]

\* The letter is not accepted, or it is and the answer does not arrive in time.
SmtpFails(t) ==
  /\ tasks[t].pc = "ready" /\ tasks[t].at <= Len(Letters)
  /\ \/ /\ tasks' = [tasks EXCEPT ![t] = Retried(tasks[t])]
        /\ UNCHANGED <<sent, unsure>>
     \/ /\ GoesOut(t) /\ Unsure(t)
        /\ tasks' = [tasks EXCEPT ![t] = Retried(Delivered(t))]
  /\ FailureKeepsMarks(t)
  /\ UNCHANGED <<row, kind, crashes>>

\* The UPDATE of the mark, refresh_from_db, or the last UPDATE of the invitation.
DatabaseFails(t) ==
  /\ \/ tasks[t].pc = "sent" /\ Unsure(t)
     \/ tasks[t].pc = "marked" /\ UNCHANGED unsure
     \/ kind.reports /\ tasks[t].pc = "ready" /\ tasks[t].at > Len(Letters) /\ UNCHANGED unsure
  /\ tasks' = [tasks EXCEPT ![t] = Retried(tasks[t])]
  /\ UNCHANGED <<row, kind, marks, sent, crashes>>

\* CELERY_TASK_ACKS_LATE: the broker delivers the task again, or it is lost with
\* the process that had it.
Crash(t) ==
  /\ crashes < MaxCrashes
  /\ \/ tasks[t].pc = "sent" /\ Unsure(t)
     \/ tasks[t].pc \in {"ready", "marked"} /\ UNCHANGED unsure
  /\ crashes' = crashes + 1
  /\ \E pc \in {"queued", "failed"} : tasks' = [tasks EXCEPT ![t].pc = pc]
  /\ UNCHANGED <<row, kind, marks, sent>>

-----------------------------------------------------------------------------
Work(t) ==
  /\ t \in DOMAIN tasks
  /\ \/ Start(t) \/ Send(t) \/ Mark(t) \/ Refresh(t) \/ Finish(t)
     \/ ReadFails(t) \/ SmtpFails(t) \/ DatabaseFails(t)

Next ==
  \/ ScannerMoves \/ Ask \/ TemporaryPasswordExpires \/ OtherRowMoves
  \/ \E t \in DOMAIN tasks : Work(t) \/ Crash(t)

Spec == Init /\ [][Next]_vars

\* Workers take what is queued and go on with what they have.
FairSpec == Spec /\ \A t \in 1..(MaxLeaves + 1) : WF_vars(Work(t))

-----------------------------------------------------------------------------
Interruptions ==
  crashes + SumFunctionOnSet([t \in DOMAIN tasks |-> tasks[t].tries], DOMAIN tasks)

\* A letter with a lasting mark of its own goes out again only for an attempt that
\* ended between the letter and the mark: failures and retries of the other letters
\* do not repeat it.  Letters without one, and letters about a leave, whose marks a
\* new request erases, go out at most once per attempt.  And neither a task that
\* ends with {"sent": True} nor an invitation that shows as EMAIL_SENT leaves out a
\* letter, whatever was skipped because of marks.
MailedOnce ==
  /\ \A i \in DOMAIN copies :
       LET alone == \A j \in DOMAIN Letters : Letters[j] = Letters[i] => j = i
           once  == kind.marked /\ alone /\ ~kind.repeats
       IN  copies[i] <= Len(tasks) + (IF once THEN unsure[i] ELSE Interruptions)
  /\ (\E i \in DOMAIN copies : copies[i] = 0) =>
       /\ \A t \in DOMAIN tasks : tasks[t].pc # "done"
       /\ kind.reports => status # "EMAIL_SENT"

\* When the scanner is removed or the reactivation decided, the code used or the
\* password renewed, the letters already under way are the last of the task,
\* however often it is retried or delivered again; tasks that check again between
\* the letters stop after the next one.  The invitation task is the exception for
\* the password: it tells the one of the invitation and never looks whether that was
\* renewed.  News of a leave may come back and is not counted.
LastLettersOnly ==
  \A t \in DOMAIN tasks :
    /\ tasks[t].outdated <= IF kind.rechecks THEN 1 ELSE Len(Letters)
    /\ kind.current => tasks[t].obsolete <= Len(Letters)

\* A mark stands for a letter about an earlier leave request.
MarkOfAnEarlierRequest == \E i \in DOMAIN Letters : Letters[i] \in marks /\ i \notin fresh

\* As long as the news is news every letter arrives, for each leave request anew,
\* although SMTP and the database fail and workers die, or the task is given up;
\* the exception is a task of an earlier request that sets its mark after the new
\* request has erased the marks.
NewsArrives ==
  \A t \in 1..(MaxLeaves + 1) :
    (t \in DOMAIN tasks /\ tasks[t].pc = "queued")
      ~> \/ fresh = DOMAIN copies
         \/ MarkOfAnEarlierRequest
         \/ t \in DOMAIN tasks =>
              status \notin kind.wants \/ Obsolete(t) \/ tasks[t].pc = "failed"

\* "A new request after a previous rejection must be able to emit its own
\* notifications" (organizing/services/scanner_leaves.py:87): when the task that was
\* scheduled for the present request ends with {"sent": True}, each of its letters
\* was sent since that request.
RequestsEmitTheirOwn ==
  \A t \in DOMAIN tasks :
    tasks[t].pc = "done" /\ tasks[t].request = leaves => fresh = DOMAIN copies
=============================================================================
