------------------------------- MODULE Grading -------------------------------
(***************************************************************************)
(* Grading as a whole: students, teachers and reviewers, the submissions   *)
(* service with its registry of graders, and the graders, joined by the    *)
(* calls and the stream between them.                                      *)
(***************************************************************************)
EXTENDS SubmissionsService, GraderService

CONSTANT Budget     \* bound: how often each kind of event happens

\* "crash"       a grader process dies, or shuts down on a signal
\* "disconnect"  the connection of a grader breaks, the process living on
\* "error"       an exception in a handler or in grading
\* "restart"     the submissions service restarts
\* "retry"       a failed check becomes 15 s old
\* "rejudge"     a teacher calls rejudge
\* "review"      a reviewer or a teacher sets a status
Events ==
  {"crash", "disconnect", "error", "restart", "retry", "rejudge", "review"}

ASSUME BudgetAssumption == Budget \in [Events -> Nat]

VARIABLE budget     \* what is left of Budget

vars == <<esVars, rowVars, handlerVars, graderVars, budget>>

Spend(e) == budget[e] > 0 /\ budget' = [budget EXCEPT ![e] = @ - 1]

Init == ESInit /\ SSInit /\ GSInit /\ budget = Budget

TypeOK ==
  /\ ESTypeOK /\ SSTypeOK /\ GSTypeOK
  /\ budget \in [Events -> Nat]

-----------------------------------------------------------------------------
(* Submissions *)

Submit(s) ==
  InsertRow(s) /\ UNCHANGED <<esVars, graderVars, budget>>

SubmitFile(s) ==
  InsertFile(s) /\ UNCHANGED <<esVars, graderVars, budget>>

SubmitPush(s) ==
  PushSubmitted(s) /\ UNCHANGED <<graderVars, budget>>

SubmitError(s) ==
  /\ Spend("error") /\ SubmitFails(s)
  /\ UNCHANGED <<esVars, rowVars, graderVars>>

-----------------------------------------------------------------------------
(* The queue.  A timer starts processSubmissionsQueue every second, whether *)
(* or not earlier runs have ended.                                          *)

TimerTick ==
  /\ attached # {}
  /\ SubmissionsToGrade(grading) # {} /\ IdleRuns # {}
  /\ StartRun(grading)
  /\ UNCHANGED <<submitting, updates, rejudging, torn>>
  /\ UNCHANGED <<esVars, rowVars, graderVars, budget>>

RunLoads(r) ==
  /\ \E s \in Subs : LoadFiles(r, s)
  /\ UNCHANGED <<esVars, rowVars, graderVars, budget>>

RunPushes(r) ==
  /\ \E s \in Subs : PushNext(r, s)
  /\ UNCHANGED <<graderVars, budget>>

\* The content or the courses service does not answer: the submission stays
\* in the queue.
RunSkips(r) ==
  /\ Spend("error")
  /\ \E s \in Subs : NextToPush(r, s) /\ Advance(r, s)
  /\ UNCHANGED <<submitting, updates, rejudging, torn>>
  /\ UNCHANGED <<esVars, rowVars, graderVars>>

RetryDue(s) ==
  /\ Spend("retry") /\ RetryTimestampReached(s)
  /\ UNCHANGED <<esVars, handlerVars, graderVars>>

CheckInactive ==
  CheckForInactiveGraders /\ UNCHANGED <<rowVars, handlerVars, graderVars, budget>>

-----------------------------------------------------------------------------
(* Graders *)

\* receiveSubmissionsToProcess: what the grader had is queued again, and a
\* run is started, before the handler returns the stream.
Connect(g) ==
  /\ OpenStream(g)
  /\ RegisterNewService(g)
  /\ UnassignGrader(g)
  /\ StartRun(grading')
  /\ UNCHANGED <<submitting, updates, rejudging, torn, budget>>

\* pushGraderStatus in the loop of the grader, and setExternalServiceStatus.
PushStatus(g) ==
  /\ StatusPushed(g)
  /\ \E idle \in IdleWorkersCount(g) : SetServiceStatus(g, "IDLE", idle)
  /\ UNCHANGED <<rowVars, handlerVars, budget>>

\* The same from the 10 s timer, at any point of the loop.
PushStatusByTimer(g) ==
  /\ phase[g] \notin {"down", "open"} /\ g \in attached
  /\ \E idle \in IdleWorkersCount(g) : SetServiceStatus(g, "IDLE", idle)
  /\ UNCHANGED <<rowVars, handlerVars, graderVars, budget>>

Receive(g) ==
  /\ StreamAlive(g) /\ sink[g] # <<>>
  /\ \/ StartJob(g, Head(sink[g]))
     \/ SkipJob(g, Head(sink[g]))
  /\ TakeFromSink(g)
  /\ UNCHANGED <<rowVars, handlerVars, budget>>

\* A submission without files is not checked at all.
PossibleGrades(j) == IF j.files = 0 THEN {"CHECK_FAILED"} ELSE Grades

Report(g) ==
  /\ StartReport(g)
  /\ \E grade \in PossibleGrades(job[g]) : ReadOldStatus(g, job[g].sub, grade)
  /\ UNCHANGED <<esVars, rowVars, budget>>

ReportStored(g) ==
  StoreOutput(g) /\ UNCHANGED <<esVars, graderVars, budget>>

ReportCleared(g) ==
  DeleteResults(g) /\ UNCHANGED <<esVars, graderVars, budget>>

\* The answer reaches the grader if it is still the process that asked.
Answer(g) ==
  IF phase[g] = "reporting" THEN ReportReturned(g) /\ UNCHANGED lost
  ELSE UNCHANGED graderVars

ReportFinished(g) ==
  InsertResults(g) /\ Answer(g) /\ UNCHANGED <<esVars, budget>>

\* The row is not updated, and the grader is not told.
ReportRejected(g) ==
  /\ Spend("error") /\ StoreFails(g)
  /\ IF phase[g] = "reporting"
     THEN /\ ReportReturned(g)
          /\ lost' = [lost EXCEPT ![g] = @ \cup {job[g].sub}]
     ELSE UNCHANGED graderVars
  /\ UNCHANGED <<esVars, rowVars>>

\* The row is updated, its results are not, and the grader gets an error.
ReportTorn(g) ==
  /\ Spend("error") /\ ResultsFail(g)
  /\ IF phase[g] = "reporting" THEN JobFailed(g) ELSE UNCHANGED graderVars
  /\ UNCHANGED <<esVars, rowVars>>

\* All is stored, but the deadlines service does not answer what is asked for
\* the notification: the grader gets an error.
ReportUnnotified(g) ==
  /\ Spend("error") /\ InsertResults(g)
  /\ IF phase[g] = "reporting" THEN JobFailed(g) ELSE UNCHANGED graderVars
  /\ UNCHANGED esVars

\* An exception in processSubmission, or updateGraderOutput refusing.
GradingError(g) ==
  /\ phase[g] = "working" /\ Spend("error")
  /\ JobFailed(g)
  /\ UNCHANGED <<esVars, rowVars, handlerVars>>

\* The connection broke under the call: the grader gets an error, the handler
\* of the call, if there is one, goes on.
ReportUnanswered(g) ==
  /\ phase[g] = "reporting" /\ ~StreamAlive(g)
  /\ JobFailed(g)
  /\ UNCHANGED <<esVars, rowVars, handlerVars, budget>>

\* The grader finds its stream broken.
Reopen(g) ==
  /\ ~StreamAlive(g) /\ StreamBroken(g)
  /\ UNCHANGED <<esVars, rowVars, handlerVars, budget>>

Disconnect(g) ==
  /\ Spend("disconnect") /\ StreamAlive(g) /\ CancelCall(g)
  /\ UNCHANGED <<rowVars, handlerVars, graderVars>>

Crash(g) ==
  /\ Spend("crash") /\ ProcessEnds(g)
  /\ CancelCall(g)
  /\ UNCHANGED <<rowVars, handlerVars>>

\* SIGTERM: the grader takes its leave before it exits.
Shutdown(g) ==
  /\ Spend("crash") /\ ProcessEnds(g)
  /\ g \in attached /\ SetServiceStatus(g, "SHUTTING_DOWN", 0)
  /\ UNCHANGED <<rowVars, handlerVars>>

\* The supervisor starts the grader again.
StartGrader(g) ==
  ProcessStarts(g) /\ UNCHANGED <<esVars, rowVars, handlerVars, budget>>

-----------------------------------------------------------------------------
(* Teachers, reviewers, the service *)

RejudgeOne(s) ==
  /\ Spend("rejudge") /\ Exists(s) /\ StartRejudge({s})
  /\ UNCHANGED <<esVars, rowVars, graderVars>>

RejudgeAll ==
  /\ Spend("rejudge") /\ StartRejudge({s \in Subs : Exists(s)})
  /\ UNCHANGED <<esVars, rowVars, graderVars>>

RejudgeFailed ==
  /\ Spend("rejudge") /\ StartRejudge(FailedSubmissions)
  /\ UNCHANGED <<esVars, rowVars, graderVars>>

RejudgeStep ==
  /\ \/ \E s \in Subs : RejudgeDelete(s)
     \/ RejudgeQueue
     \/ RejudgeRead /\ UNCHANGED rowVars
  /\ UNCHANGED <<esVars, graderVars, budget>>

RejudgeError ==
  /\ Spend("error") /\ RejudgeFails
  /\ UNCHANGED <<esVars, rowVars, graderVars>>

Review(s, verdict) ==
  /\ Spend("review") /\ UpdateSubmissionStatus(s, verdict)
  /\ UNCHANGED <<esVars, handlerVars, graderVars>>

Restart ==
  /\ Spend("restart") /\ ServiceRestart
  /\ UNCHANGED <<rowVars, graderVars>>

-----------------------------------------------------------------------------

SubmissionNext(s) ==
  Submit(s) \/ SubmitFile(s) \/ SubmitPush(s) \/ SubmitError(s) \/ RetryDue(s)

RunNext(r) == RunLoads(r) \/ RunPushes(r) \/ RunSkips(r)

GraderNext(g) ==
  \/ Connect(g) \/ PushStatus(g) \/ PushStatusByTimer(g) \/ Receive(g)
  \/ Report(g) \/ ReportStored(g) \/ ReportCleared(g) \/ ReportFinished(g)
  \/ ReportRejected(g) \/ ReportTorn(g) \/ ReportUnnotified(g)
  \/ GradingError(g) \/ ReportUnanswered(g) \/ Reopen(g)
  \/ Disconnect(g) \/ Crash(g) \/ Shutdown(g) \/ StartGrader(g)

TeacherNext ==
  \/ \E s \in Subs : RejudgeOne(s)
  \/ RejudgeAll \/ RejudgeFailed \/ RejudgeStep \/ RejudgeError
  \/ \E s \in Subs, verdict \in Verdicts : Review(s, verdict)

Next ==
  \/ \E s \in Subs : SubmissionNext(s)
  \/ \E r \in RunIds : RunNext(r)
  \/ \E g \in Graders : GraderNext(g)
  \/ TimerTick \/ CheckInactive \/ TeacherNext \/ Restart

Spec == Init /\ [][Next]_vars

-----------------------------------------------------------------------------
(* Fairness: every timer fires again, every handler goes on after an await,  *)
(* a grader goes on with its loop and is started again when it has died.     *)
(* Nothing forces a student, a teacher, a reviewer or a failure to act.      *)

Fairness ==
  /\ \A s \in Subs : WF_vars(SubmitFile(s)) /\ WF_vars(SubmitPush(s))
  /\ WF_vars(TimerTick) /\ WF_vars(CheckInactive) /\ WF_vars(RejudgeStep)
  /\ \A r \in RunIds : WF_vars(RunLoads(r)) /\ WF_vars(RunPushes(r))
  /\ \A g \in Graders :
       /\ WF_vars(Connect(g)) /\ WF_vars(PushStatus(g))
       /\ WF_vars(PushStatusByTimer(g)) /\ WF_vars(Receive(g))
       /\ WF_vars(Report(g)) /\ WF_vars(ReportStored(g))
       /\ WF_vars(ReportCleared(g)) /\ WF_vars(ReportFinished(g))
       /\ WF_vars(ReportUnanswered(g)) /\ WF_vars(Reopen(g))
       /\ WF_vars(StartGrader(g))

FairSpec == Spec /\ Fairness

-----------------------------------------------------------------------------
(* Properties *)

InSink(g, s) == \E i \in DOMAIN sink[g] : sink[g][i].sub = s

\* The grader of s that is to report s has it: on its way, being graded, or
\* in a report that has not reached the row.
Holds(g, s) ==
  \/ InSink(g, s)
  \/ phase[g] = "working" /\ job[g].sub = s
  \/ phase[g] = "reporting" /\ job[g].sub = s /\ updates[g].pc = "store"

\* No submission is assigned to a grader that knows nothing of it: while the
\* stream of a grader is alive, each row assigned to it is on its way to it,
\* in its hands or in its report, unless the grader has dropped it on an
\* error.  The assignment is written by three overlapping callers (the
\* timer's runs, the run of a connecting grader, submitProblemSolution) from
\* snapshots of any age, and undone only by unassignGrader on reconnection.
AssignedIsHeld ==
  \A s \in Subs, g \in Graders :
    s \in AssignedTo(g) /\ StreamAlive(g) => Holds(g, s) \/ s \in lost[g]

\* A grader counts as being in progress, besides what its loop is busy with,
\* only what it dropped on an error: a submission it passes over as being in
\* progress is one it has dropped.
PassedOverIsLost ==
  \A g \in Graders : \A s \in inProgress[g] \ lost[g] :
    phase[g] \in {"working", "reporting"} /\ job[g].sub = s

\* The handler that a grader awaits is that of the job its loop is busy with.
ReportIsOwn ==
  \A g \in Graders :
    phase[g] = "reporting" /\ updates[g].pc # "none"
      => updates[g].sub = job[g].sub

\* The inductive invariant behind AssignedIsHeld.
HeldInv == TypeOK /\ AssignedIsHeld /\ PassedOverIsLost /\ ReportIsOwn

\* The test results shown with a graded submission are those of the report
\* its row was written from, unless updateGraderOutput is between writing the
\* two, or rejudge between deleting the results and queueing the submission.
\* Row and results are written by separate queries, and a review, a rejudge or
\* the report of an earlier assignment may come between any two of them.  Only
\* two reports stored at a time, or an error or a restart in the middle, tear
\* them apart, and the next report that is stored alone joins them again.
ResultsMatchRow ==
  \A s \in Subs \ torn :
    grading[s] = "DONE" /\ ~BeingStored(s) /\ ~BeingRejudged(s)
      => results[s] = output[s]

\* No push of s is under way.
NoPush(s) == submitting[s] = "done" /\ \A r \in RunIds : s \notin runs[r].pending

\* What a step may not do to a graded submission that nothing pushes.
StaysGraded ==
  \A s \in Subs :
    /\ grading[s] = "DONE" /\ status[s] # "CHECK_FAILED"
    /\ NoPush(s) /\ rejudging.cur # s
    => grading'[s] = "DONE" /\ NoPush(s)'

\* A graded submission stays graded: once its own push is over and no run
\* has it in its snapshot, only rejudge takes it back to the queue, and no
\* later run picks it up, unless its check failed.
GradedIsFinal == [][StaysGraded]_vars

\* The life of each submission as its readers see it.
StageOf(row) ==
  CASE row = "NONE" -> "absent"
    [] row \in {"QUEUED", "ASSIGNED"} -> "waiting"
    [] row = "DONE" -> "graded"

Stage == [s \in Subs |-> StageOf(grading[s])]

GradeStatuses == Grades \cup {"PENDING_REVIEW"} \cup StatusesNotToChange

\* Whatever the parts of the system remember is a submission that has a row,
\* and a report writes a status a grading may leave.  This is the invariant
\* behind IsLifecycle.
RowsInv ==
  /\ TypeOK
  /\ \A s \in Subs : submitting[s] = "new" <=> ~Exists(s)
  /\ \A r \in RunIds : \A s \in runs[r].pending : Exists(s)
  /\ \A g \in Graders :
       /\ \A i \in DOMAIN sink[g] : Exists(sink[g][i].sub)
       /\ phase[g] \in {"working", "reporting"} => Exists(job[g].sub)
       /\ updates[g].pc # "none" =>
            /\ updates[g].sub \in Subs /\ Exists(updates[g].sub)
            /\ updates[g].status \in GradeStatuses
  /\ \A s \in rejudging.todo : Exists(s)
  /\ rejudging.pc \in {"queue", "read"} => rejudging.cur \in rejudging.todo

L == INSTANCE Lifecycle WITH
       stage <- Stage, shown <- status

\* Every step of the system is a step of the life of one submission or none:
\* a submission is never un-submitted, waits again with the status it had,
\* and nothing but a report or a judgement changes what is shown.
IsLifecycle == L!Safety

\* With fairness, a submission that waits is graded in the end, whatever
\* graders crash, lose their stream or restart, and whatever the service
\* forgets in a restart.
LifecycleIsFair == L!Spec
=============================================================================
