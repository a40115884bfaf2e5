---------------------------- MODULE GradingProofs ----------------------------
(***************************************************************************)
(* Theorems about Grading for any number of submissions, graders, workers, *)
(* overlapping runs and events.                                            *)
(***************************************************************************)
EXTENDS Grading, ExternalServicesLemmas, TLAPS

(***************************************************************************)
(* Types: the operations on rows and the steps of the handlers.            *)
(***************************************************************************)

\* The capacity a grader reports is a number of its workers.
LEMMA IdleWorkersCountType ==
  ASSUME NEW g \in Graders
  PROVE  IdleWorkersCount(g) \subseteq 0..Workers[g]
BY GradersAssumption DEF IdleWorkersCount

\* A new run is well typed.
LEMMA StartRunType ==
  ASSUME SSTypeOK, NEW grad, StartRun(grad)
  PROVE  runs' \in [RunIds -> Run]
<1>1. SubmissionsToGrade(grad) \subseteq Subs
  BY DEF SubmissionsToGrade
<1>2. NoFiles \in [Subs -> 0..NumFiles]
  BY GradersAssumption DEF NoFiles
<1>. QED
  BY <1>1, <1>2 DEF StartRun, SSTypeOK, Run

\* A run stays well typed when it is done with a submission.
LEMMA AdvanceType ==
  ASSUME SSTypeOK, NEW r \in RunIds, NEW s \in Subs, Advance(r, s)
  PROVE  runs' \in [RunIds -> Run]
<1>1. NoRun \in Run
  BY GradersAssumption DEF NoRun, NoFiles, Run
<1>2. runs[r].pending \in SUBSET Subs /\ runs[r].files \in [Subs -> 0..NumFiles]
  BY DEF SSTypeOK, Run
<1>3. [pending |-> runs[r].pending \ {s}, loading |-> {},
       files |-> [runs[r].files EXCEPT ![s] = 0]] \in Run
  BY <1>2, GradersAssumption DEF Run
<1>. QED
  BY <1>1, <1>3 DEF Advance, SSTypeOK

\* A run stays well typed when it has read files.
LEMMA LoadFilesType ==
  ASSUME SSTypeOK, NEW r \in RunIds, NEW s \in Subs, LoadFiles(r, s)
  PROVE  runs' \in [RunIds -> Run]
<1>1. /\ runs[r].pending \in SUBSET Subs
      /\ runs[r].loading \in SUBSET Subs
      /\ runs[r].files \in [Subs -> 0..NumFiles]
      /\ stored[s] \in 0..NumFiles
  BY DEF SSTypeOK, Run
<1>2. [pending |-> runs[r].pending, loading |-> runs[r].loading \ {s},
       files |-> [runs[r].files EXCEPT ![s] = stored[s]]] \in Run
  BY <1>1 DEF Run
<1>. QED
  BY <1>2 DEF LoadFiles, SSTypeOK

\* The row after a push that may have been refused.
LEMMA PushSubmissionToGraderType ==
  ASSUME ESTypeOK, SSTypeOK, NEW s \in Subs, NEW files \in 0..NumFiles,
         PushSubmissionToGrader(s, files)
  PROVE  /\ ESTypeOK'
         /\ grading' \in [Subs -> {"NONE", "QUEUED", "ASSIGNED", "DONE"}]
         /\ graderName' \in [Subs -> Graders \cup {Nobody}]
         /\ retryDue' \in [Subs -> BOOLEAN]
         /\ UNCHANGED <<status, stored, output, results>>
<1>1. CASE \E g \in FindService(Required[s]) :
             /\ PushSubmission(g, [sub |-> s, files |-> files])
             /\ AssignGrader(s, g)
  <2>1. PICK g \in attached :
             /\ PushSubmission(g, [sub |-> s, files |-> files])
             /\ AssignGrader(s, g)
    BY <1>1 DEF FindService, Candidates
  <2>2. [sub |-> s, files |-> files] \in Job /\ g \in Graders
    BY DEF Job, ESTypeOK
  <2>3. ESTypeOK'
    BY <2>1, <2>2, PushSubmissionType
  <2>. QED
    BY <2>1, <2>2, <2>3 DEF AssignGrader, SSTypeOK
<1>2. CASE UNCHANGED <<esVars, rowVars>>
  BY <1>2 DEF esVars, rowVars, ESTypeOK, SSTypeOK
<1>. QED
  BY <1>1, <1>2 DEF PushSubmissionToGrader

\* The handler of updateGraderOutput goes on to another of its queries.
LEMMA UpdateType ==
  ASSUME SSTypeOK, NEW g \in Graders
  PROVE  /\ NoUpdate \in Update
         /\ \A pc \in {"delete", "insert"} :
              [updates EXCEPT ![g].pc = pc] \in [Graders -> Update]
<1>1. NoUpdate \in Update
  BY DEF NoUpdate, Update, Statuses, Grades, NoGrade
<1>2. updates[g] \in Update
  BY DEF SSTypeOK
<1>3. ASSUME NEW pc \in {"delete", "insert"}
      PROVE  [updates EXCEPT ![g].pc = pc] \in [Graders -> Update]
  <2>1. [updates[g] EXCEPT !.pc = pc] \in Update
    BY <1>2 DEF Update
  <2>. QED
    BY <2>1 DEF SSTypeOK
<1>. QED
  BY <1>1, <1>3

\* The status a report will store is one the column may have.
LEMMA ReviewedStatusType ==
  ASSUME SSTypeOK, NEW s \in Subs, NEW grade \in Grades
  PROVE  ReviewedStatus(s, grade) \in Statuses
BY DEF ReviewedStatus, SSTypeOK, Statuses

(***************************************************************************)
(* Type correctness of the specification.                                  *)
(***************************************************************************)

\* The initial state is well typed.
LEMMA TypeInit == Init => TypeOK
<1>. SUFFICES ASSUME Init PROVE TypeOK
  OBVIOUS
<1>1. ESTypeOK
  BY GradersAssumption DEF Init, ESInit, ESTypeOK, ServiceStatus
<1>2. SSTypeOK
  <2>1. NoRun \in Run
    BY GradersAssumption DEF NoRun, NoFiles, Run
  <2>2. NoUpdate \in Update /\ NoRejudge \in Rejudge
    BY DEF NoUpdate, Update, NoRejudge, Rejudge, Statuses, Grades, NoGrade
  <2>. QED
    BY <2>1, <2>2, GradersAssumption
    DEF Init, SSInit, SSTypeOK, Statuses, NoGrade, Nobody
<1>3. GSTypeOK
  BY DEF Init, GSInit, GSTypeOK, Phases
<1>. QED
  BY <1>1, <1>2, <1>3, BudgetAssumption DEF Init, TypeOK

\* Spending leaves a well typed budget.
LEMMA SpendType ==
  ASSUME TypeOK, NEW e \in Events, Spend(e)
  PROVE  budget' \in [Events -> Nat]
BY DEF TypeOK, Spend

\* Steps of submitProblemSolution.
LEMMA SubmissionNextType ==
  ASSUME TypeOK, NEW s \in Subs, SubmissionNext(s)
  PROVE  TypeOK'
<1>. USE DEF TypeOK
<1>1. CASE Submit(s)
  BY <1>1 DEF Submit, InsertRow, SSTypeOK, ESTypeOK, GSTypeOK, esVars, graderVars
<1>2. CASE SubmitFile(s)
  <2>1. stored[s] + 1 \in 0..NumFiles
    BY <1>2, GradersAssumption DEF SubmitFile, InsertFile, SSTypeOK
  <2>. QED
    BY <1>2, <2>1 DEF SubmitFile, InsertFile, SSTypeOK, ESTypeOK, GSTypeOK,
      esVars, graderVars
<1>3. CASE SubmitPush(s)
  <2>1. PushSubmissionToGrader(s, NumFiles) /\ NumFiles \in 0..NumFiles
    BY <1>3, GradersAssumption DEF SubmitPush, PushSubmitted
  <2>2. ESTypeOK'
    BY <2>1, PushSubmissionToGraderType
  <2>3. SSTypeOK'
    BY <1>3, <2>1, PushSubmissionToGraderType
    DEF SubmitPush, PushSubmitted, SSTypeOK
  <2>. QED
    BY <1>3, <2>2, <2>3 DEF SubmitPush, GSTypeOK, graderVars
<1>4. CASE SubmitError(s)
  BY <1>4, SpendType DEF SubmitError, SubmitFails, SSTypeOK, ESTypeOK, GSTypeOK,
    esVars, rowVars, graderVars, Events
<1>5. CASE RetryDue(s)
  BY <1>5, SpendType DEF RetryDue, RetryTimestampReached, SSTypeOK, ESTypeOK,
    GSTypeOK, esVars, handlerVars, graderVars, Events
<1>. QED
  BY <1>1, <1>2, <1>3, <1>4, <1>5 DEF SubmissionNext

\* Steps of the queue runs.
LEMMA RunNextType ==
  ASSUME TypeOK, NEW r \in RunIds, RunNext(r)
  PROVE  TypeOK'
<1>. USE DEF TypeOK
<1>1. CASE RunLoads(r)
  <2>1. runs' \in [RunIds -> Run]
    BY <1>1, LoadFilesType DEF RunLoads
  <2>. QED
    BY <1>1, <2>1 DEF RunLoads, LoadFiles, SSTypeOK, ESTypeOK, GSTypeOK,
      esVars, rowVars, graderVars
<1>2. CASE RunPushes(r)
  <2>1. PICK s \in Subs : PushNext(r, s)
    BY <1>2 DEF RunPushes
  <2>2. runs' \in [RunIds -> Run]
    BY <2>1, AdvanceType DEF PushNext
  <2>3. runs[r].files[s] \in 0..NumFiles
    BY DEF SSTypeOK, Run
  <2>4. PushSubmissionToGrader(s, runs[r].files[s])
    BY <2>1 DEF PushNext
  <2>5. ESTypeOK'
    BY <2>3, <2>4, PushSubmissionToGraderType
  <2>6. SSTypeOK'
    BY <2>1, <2>2, <2>3, <2>4, PushSubmissionToGraderType DEF PushNext, SSTypeOK
  <2>. QED
    BY <1>2, <2>5, <2>6 DEF RunPushes, GSTypeOK, graderVars
<1>3. CASE RunSkips(r)
  <2>1. runs' \in [RunIds -> Run]
    BY <1>3, AdvanceType DEF RunSkips
  <2>. QED
    BY <1>3, <2>1, SpendType DEF RunSkips, SSTypeOK, ESTypeOK, GSTypeOK,
      esVars, rowVars, graderVars, Events
<1>. QED
  BY <1>1, <1>2, <1>3 DEF RunNext

\* Steps that read and answer the stream, and those of the connection.
LEMMA StreamStepsType ==
  ASSUME TypeOK, NEW g \in Graders,
         \/ Connect(g) \/ PushStatus(g) \/ PushStatusByTimer(g) \/ Receive(g)
         \/ Reopen(g) \/ Disconnect(g)
  PROVE  TypeOK'
<1>. USE DEF TypeOK
<1>1. CASE Connect(g)
  <2>1. ESTypeOK'
    BY <1>1, RegisterNewServiceType DEF Connect
  <2>2. runs' \in [RunIds -> Run]
    BY <1>1, StartRunType DEF Connect
  <2>3. SSTypeOK'
    BY <1>1, <2>2 DEF Connect, UnassignGrader, SSTypeOK
  <2>. QED
    BY <1>1, <2>1, <2>3 DEF Connect, OpenStream, GSTypeOK, Phases
<1>2. CASE PushStatus(g)
  <2>1. ESTypeOK'
    BY <1>2, SetServiceStatusType, IdleWorkersCountType
    DEF PushStatus, ServiceStatus
  <2>. QED
    BY <1>2, <2>1 DEF PushStatus, StatusPushed, SSTypeOK, GSTypeOK, Phases,
      rowVars, handlerVars
<1>3. CASE PushStatusByTimer(g)
  <2>1. ESTypeOK'
    BY <1>3, SetServiceStatusType, IdleWorkersCountType
    DEF PushStatusByTimer, ServiceStatus
  <2>. QED
    BY <1>3, <2>1 DEF PushStatusByTimer, SSTypeOK, GSTypeOK,
      rowVars, handlerVars, graderVars
<1>4. CASE Receive(g)
  <2>1. g \in attached /\ sink[g] # <<>> /\ TakeFromSink(g)
    BY <1>4 DEF Receive, StreamAlive
  <2>2. ESTypeOK' /\ Head(sink[g]) \in Job
    BY <2>1, TakeFromSinkType
  <2>3. Head(sink[g]).sub \in Subs
    BY <2>2 DEF Job
  <2>4. GSTypeOK'
    BY <1>4, <2>2, <2>3 DEF Receive, StartJob, SkipJob, GSTypeOK, Phases, graderVars
  <2>. QED
    BY <1>4, <2>2, <2>4 DEF Receive, SSTypeOK, rowVars, handlerVars
<1>5. CASE Reopen(g)
  BY <1>5 DEF Reopen, StreamBroken, SSTypeOK, ESTypeOK, GSTypeOK, Phases,
    esVars, rowVars, handlerVars
<1>6. CASE Disconnect(g)
  <2>1. ESTypeOK'
    BY <1>6, CancelCallType DEF Disconnect
  <2>. QED
    BY <1>6, <2>1, SpendType DEF Disconnect, SSTypeOK, GSTypeOK,
      rowVars, handlerVars, graderVars, Events
<1>. QED
  BY <1>1, <1>2, <1>3, <1>4, <1>5, <1>6

\* Steps of a report, in the grader and in updateGraderOutput.
LEMMA ReportStepsType ==
  ASSUME TypeOK, NEW g \in Graders,
         \/ Report(g) \/ ReportStored(g) \/ ReportCleared(g)
         \/ ReportFinished(g) \/ ReportRejected(g) \/ ReportTorn(g)
         \/ ReportUnnotified(g) \/ ReportUnanswered(g) \/ GradingError(g)
  PROVE  TypeOK'
<1>. USE DEF TypeOK
<1>1. updates[g] \in Update /\ updates \in [Graders -> Update]
  BY DEF SSTypeOK
<1>2. /\ updates[g].grade \in Grades \cup {NoGrade}
      /\ updates[g].status \in Statuses
  BY <1>1 DEF Update
<1>3. NoUpdate \in Update
  BY UpdateType
<1>4. ASSUME ReportReturned(g), lost' = lost
      PROVE  GSTypeOK'
  BY <1>4 DEF ReportReturned, GSTypeOK, Phases
<1>5. ASSUME JobFailed(g)
      PROVE  GSTypeOK'
  <2>1. job[g].sub \in Subs
    BY <1>5 DEF JobFailed, GSTypeOK, Job
  <2>. QED
    BY <1>5, <2>1 DEF JobFailed, GSTypeOK, Phases
<1>6. CASE Report(g)
  <2>1. PICK grade \in PossibleGrades(job[g]) : ReadOldStatus(g, job[g].sub, grade)
    BY <1>6 DEF Report
  <2>2. grade \in Grades
    BY <2>1 DEF PossibleGrades, Grades
  <2>3. job[g].sub \in Subs
    BY <1>6 DEF Report, StartReport, GSTypeOK, Job
  <2>4. ReviewedStatus(job[g].sub, grade) \in Statuses
    BY <2>2, <2>3, ReviewedStatusType
  <2>5. [pc |-> "store", sub |-> job[g].sub, grade |-> grade,
         status |-> ReviewedStatus(job[g].sub, grade)] \in Update
    BY <2>2, <2>3, <2>4 DEF Update
  <2>6. updates' \in [Graders -> Update]
    BY <1>1, <2>1, <2>5 DEF ReadOldStatus
  <2>7. SSTypeOK'
    BY <1>6, <2>1, <2>6 DEF Report, ReadOldStatus, SSTypeOK, rowVars
  <2>8. GSTypeOK'
    BY <1>6 DEF Report, StartReport, GSTypeOK, Phases
  <2>. QED
    BY <1>6, <2>7, <2>8 DEF Report, ESTypeOK, esVars
<1>7. CASE ReportStored(g)
  <2>1. updates' \in [Graders -> Update]
    BY <1>7, UpdateType DEF ReportStored, StoreOutput
  <2>2. SSTypeOK'
    BY <1>7, <1>2, <2>1 DEF ReportStored, StoreOutput, SSTypeOK
  <2>. QED
    BY <1>7, <2>2 DEF ReportStored, ESTypeOK, esVars, GSTypeOK, graderVars
<1>8. CASE ReportCleared(g)
  <2>1. updates' \in [Graders -> Update]
    BY <1>8, UpdateType DEF ReportCleared, DeleteResults
  <2>2. SSTypeOK'
    BY <1>8, <2>1 DEF ReportCleared, DeleteResults, SSTypeOK
  <2>. QED
    BY <1>8, <2>2 DEF ReportCleared, ESTypeOK, esVars, GSTypeOK, graderVars
<1>9. CASE ReportFinished(g)
  <2>1. updates' \in [Graders -> Update]
    BY <1>9, <1>1, <1>3 DEF ReportFinished, InsertResults
  <2>2. SSTypeOK'
    BY <1>9, <1>2, <2>1 DEF ReportFinished, InsertResults, SSTypeOK
  <2>3. GSTypeOK'
    BY <1>9, <1>4 DEF ReportFinished, Answer, GSTypeOK, graderVars
  <2>. QED
    BY <1>9, <2>2, <2>3 DEF ReportFinished, ESTypeOK, esVars
<1>10. CASE ReportRejected(g)
  <2>1. updates' \in [Graders -> Update]
    BY <1>10, <1>1, <1>3 DEF ReportRejected, StoreFails
  <2>2. SSTypeOK'
    BY <1>10, <2>1 DEF ReportRejected, StoreFails, SSTypeOK, rowVars
  <2>3. GSTypeOK'
    <3>1. CASE phase[g] = "reporting"
      <4>1. job[g].sub \in Subs
        BY <3>1 DEF GSTypeOK, Job
      <4>. QED
        BY <1>10, <3>1, <4>1 DEF ReportRejected, ReportReturned, GSTypeOK, Phases
    <3>2. CASE phase[g] # "reporting"
      BY <1>10, <3>2 DEF ReportRejected, GSTypeOK, graderVars
    <3>. QED
      BY <3>1, <3>2
  <2>. QED
    BY <1>10, <2>2, <2>3, SpendType DEF ReportRejected, ESTypeOK, esVars, Events
<1>11. CASE ReportUnanswered(g)
  BY <1>11, <1>5 DEF ReportUnanswered, SSTypeOK, ESTypeOK, esVars, rowVars, handlerVars
<1>12. CASE GradingError(g)
  BY <1>12, <1>5, SpendType DEF GradingError, SSTypeOK, ESTypeOK, esVars, rowVars,
    handlerVars, Events
<1>13. CASE ReportTorn(g)
  <2>1. updates' \in [Graders -> Update]
    BY <1>13, <1>1, <1>3 DEF ReportTorn, ResultsFail
  <2>2. SSTypeOK'
    BY <1>13, <2>1 DEF ReportTorn, ResultsFail, SSTypeOK, rowVars
  <2>3. GSTypeOK'
    BY <1>13, <1>5 DEF ReportTorn, GSTypeOK, graderVars
  <2>. QED
    BY <1>13, <2>2, <2>3, SpendType DEF ReportTorn, ESTypeOK, esVars, Events
<1>14. CASE ReportUnnotified(g)
  <2>1. updates' \in [Graders -> Update]
    BY <1>14, <1>1, <1>3 DEF ReportUnnotified, InsertResults
  <2>2. SSTypeOK'
    BY <1>14, <1>2, <2>1 DEF ReportUnnotified, InsertResults, SSTypeOK
  <2>3. GSTypeOK'
    BY <1>14, <1>5 DEF ReportUnnotified, GSTypeOK, graderVars
  <2>. QED
    BY <1>14, <2>2, <2>3, SpendType DEF ReportUnnotified, ESTypeOK, esVars, Events
<1>. QED
  BY <1>6, <1>7, <1>8, <1>9, <1>10, <1>11, <1>12, <1>13, <1>14

\* Steps that end and start a grader process.
LEMMA ProcessStepsType ==
  ASSUME TypeOK, NEW g \in Graders, Crash(g) \/ Shutdown(g) \/ StartGrader(g)
  PROVE  TypeOK'
<1>. USE DEF TypeOK
<1>1. ASSUME ProcessEnds(g)
      PROVE  GSTypeOK'
  BY <1>1 DEF ProcessEnds, GSTypeOK, Phases
<1>2. CASE Crash(g)
  BY <1>2, <1>1, CancelCallType, SpendType
  DEF Crash, SSTypeOK, rowVars, handlerVars, Events
<1>3. CASE Shutdown(g)
  <2>1. 0 \in 0..Workers[g] /\ "SHUTTING_DOWN" \in ServiceStatus
    BY GradersAssumption DEF ServiceStatus
  <2>. QED
    BY <1>3, <1>1, <2>1, SetServiceStatusType, SpendType
    DEF Shutdown, SSTypeOK, rowVars, handlerVars, Events
<1>4. CASE StartGrader(g)
  BY <1>4 DEF StartGrader, ProcessStarts, GSTypeOK, Phases, SSTypeOK, ESTypeOK,
    esVars, rowVars, handlerVars
<1>. QED
  BY <1>2, <1>3, <1>4

\* Steps of teachers and reviewers.
LEMMA TeacherNextType ==
  ASSUME TypeOK, TeacherNext
  PROVE  TypeOK'
<1>. USE DEF TypeOK
<1>1. ASSUME NEW todo \in SUBSET Subs, StartRejudge(todo), UNCHANGED rowVars
      PROVE  SSTypeOK'
  BY <1>1 DEF StartRejudge, SSTypeOK, Rejudge, rowVars
<1>2. CASE \E s \in Subs : RejudgeOne(s)
  BY <1>2, <1>1, SpendType DEF RejudgeOne, ESTypeOK, GSTypeOK, esVars, graderVars, Events
<1>3. CASE RejudgeAll
  BY <1>3, <1>1, SpendType DEF RejudgeAll, ESTypeOK, GSTypeOK, esVars, graderVars, Events
<1>4. CASE RejudgeFailed
  <2>1. FailedSubmissions \in SUBSET Subs
    BY DEF FailedSubmissions
  <2>. QED
    BY <1>4, <1>1, <2>1, SpendType
    DEF RejudgeFailed, ESTypeOK, GSTypeOK, esVars, graderVars, Events
<1>5. CASE RejudgeStep
  <2>1. ASSUME \E s \in Subs : RejudgeDelete(s)
        PROVE  SSTypeOK'
    <3>1. PICK s \in Subs : RejudgeDelete(s)
      BY <2>1
    <3>2. rejudging \in Rejudge
      BY DEF SSTypeOK
    <3>3. rejudging' \in Rejudge
      BY <3>1, <3>2 DEF RejudgeDelete, Rejudge
    <3>4. results' \in [Subs -> Grades \cup {NoGrade}]
      BY <3>1 DEF RejudgeDelete, SSTypeOK
    <3>. QED
      BY <3>1, <3>3, <3>4 DEF RejudgeDelete, SSTypeOK
  <2>2. ASSUME RejudgeQueue
        PROVE  SSTypeOK'
    <3>1. rejudging' \in Rejudge
      BY <2>2 DEF RejudgeQueue, SSTypeOK, Rejudge
    <3>2. grading' \in [Subs -> {"NONE", "QUEUED", "ASSIGNED", "DONE"}]
      BY <2>2 DEF RejudgeQueue, SSTypeOK
    <3>. QED
      BY <2>2, <3>1, <3>2 DEF RejudgeQueue, SSTypeOK
  <2>3. ASSUME RejudgeRead, UNCHANGED rowVars
        PROVE  SSTypeOK'
    <3>1. rejudging' \in Rejudge
      BY <2>3 DEF RejudgeRead, SSTypeOK, Rejudge, NoRejudge
    <3>. QED
      BY <2>3, <3>1 DEF RejudgeRead, SSTypeOK, rowVars
  <2>4. SSTypeOK'
    BY <1>5, <2>1, <2>2, <2>3 DEF RejudgeStep
  <2>. QED
    BY <1>5, <2>4 DEF RejudgeStep, ESTypeOK, GSTypeOK, esVars, graderVars
<1>6. CASE \E s \in Subs, verdict \in Verdicts : Review(s, verdict)
  <2>1. PICK s \in Subs, verdict \in Verdicts : Review(s, verdict)
    BY <1>6
  <2>2. status' \in [Subs -> Statuses]
    BY <2>1 DEF Review, UpdateSubmissionStatus, SSTypeOK, Statuses
  <2>3. SSTypeOK'
    BY <2>1, <2>2 DEF Review, UpdateSubmissionStatus, SSTypeOK, handlerVars
  <2>. QED
    BY <2>1, <2>3, SpendType DEF Review, ESTypeOK, GSTypeOK, esVars, graderVars, Events
<1>7. CASE RejudgeError
  <2>1. NoRejudge \in Rejudge
    BY DEF NoRejudge, Rejudge
  <2>2. SSTypeOK'
    BY <1>7, <2>1 DEF RejudgeError, RejudgeFails, SSTypeOK, rowVars
  <2>. QED
    BY <1>7, <2>2, SpendType
    DEF RejudgeError, ESTypeOK, GSTypeOK, esVars, graderVars, Events
<1>. QED
  BY <1>2, <1>3, <1>4, <1>5, <1>6, <1>7 DEF TeacherNext

\* Steps of the service itself.
LEMMA ServiceStepsType ==
  ASSUME TypeOK, TimerTick \/ CheckInactive \/ Restart
  PROVE  TypeOK'
<1>. USE DEF TypeOK
<1>1. CASE TimerTick
  <2>1. runs' \in [RunIds -> Run]
    BY <1>1, StartRunType DEF TimerTick
  <2>. QED
    BY <1>1, <2>1 DEF TimerTick, SSTypeOK, ESTypeOK, GSTypeOK, esVars, rowVars,
      graderVars
<1>2. CASE CheckInactive
  <2>1. ESTypeOK'
    BY <1>2, RemoveType DEF CheckInactive, CheckForInactiveGraders
  <2>. QED
    BY <1>2, <2>1 DEF CheckInactive, SSTypeOK, GSTypeOK, rowVars, handlerVars, graderVars
<1>3. CASE Restart
  <2>1. NoRun \in Run
    BY GradersAssumption DEF NoRun, NoFiles, Run
  <2>2. NoUpdate \in Update /\ NoRejudge \in Rejudge
    BY DEF NoUpdate, Update, NoRejudge, Rejudge, Statuses, Grades, NoGrade
  <2>3. SSTypeOK'
    BY <1>3, <2>1, <2>2 DEF Restart, ServiceRestart, SSTypeOK, rowVars
  <2>4. ESTypeOK'
    BY <1>3, RemoveType DEF Restart, ServiceRestart
  <2>. QED
    BY <1>3, <2>3, <2>4, SpendType DEF Restart, GSTypeOK, graderVars, Events
<1>. QED
  BY <1>1, <1>2, <1>3

\* Every step of the system keeps the types.
LEMMA TypeStep == TypeOK /\ [Next]_vars => TypeOK'
<1>. SUFFICES ASSUME TypeOK, [Next]_vars PROVE TypeOK'
  OBVIOUS
<1>1. CASE \E s \in Subs : SubmissionNext(s)
  BY <1>1, SubmissionNextType
<1>2. CASE \E r \in RunIds : RunNext(r)
  BY <1>2, RunNextType
<1>3. CASE \E g \in Graders : GraderNext(g)
  BY <1>3, StreamStepsType, ReportStepsType, ProcessStepsType DEF GraderNext
<1>4. CASE TimerTick \/ CheckInactive \/ Restart
  BY <1>4, ServiceStepsType
<1>5. CASE TeacherNext
  BY <1>5, TeacherNextType
<1>6. CASE UNCHANGED vars
  BY <1>6 DEF vars, esVars, rowVars, handlerVars, graderVars, TypeOK, ESTypeOK,
    SSTypeOK, GSTypeOK
<1>. QED
  BY <1>1, <1>2, <1>3, <1>4, <1>5, <1>6 DEF Next

\* Every variable keeps its type: in particular the free capacity the service
\* counts for a grader stays between 0 and its workers, and nothing is left in
\* the sink of a grader that is not attached.
THEOREM TypeCorrect == Spec => []TypeOK
BY TypeInit, TypeStep, PTL DEF Spec

(***************************************************************************)
(* Assigned submissions are held.                                          *)
(***************************************************************************)

\* What the invariant says about one grader and one submission.
HeldBy(g, s) ==
  s \in AssignedTo(g) /\ StreamAlive(g) => Holds(g, s) \/ s \in lost[g]

\* A step that leaves the stream and the loop of g alone, sends g nothing
\* that it does not get and does not start a report, keeps HeldBy(g, s).
LEMMA HeldByKept ==
  ASSUME NEW g \in Graders, NEW s \in Subs, HeldBy(g, s),
         s \in AssignedTo(g)' => s \in AssignedTo(g),
         StreamAlive(g)' => StreamAlive(g),
         sink'[g] = sink[g], phase'[g] = phase[g], job'[g] = job[g],
         lost'[g] = lost[g], updates'[g] = updates[g]
  PROVE  HeldBy(g, s)'
BY DEF HeldBy, Holds, InSink

\* A push adds its submission to the sink and keeps the others there.
LEMMA InSinkAppend ==
  ASSUME ESTypeOK, NEW g \in Graders, NEW j \in Job,
         sink'[g] = Append(sink[g], j)
  PROVE  /\ InSink(g, j.sub)'
         /\ \A s \in Subs : InSink(g, s) => InSink(g, s)'
<1>1. sink[g] \in Seq(Job)
  BY DEF ESTypeOK
<1>2. /\ DOMAIN sink'[g] = 1..(Len(sink[g]) + 1)
      /\ DOMAIN sink[g] = 1..Len(sink[g])
      /\ Len(sink[g]) \in Nat
      /\ sink'[g][Len(sink[g]) + 1] = j
      /\ \A i \in 1..Len(sink[g]) : sink'[g][i] = sink[g][i]
  BY <1>1
<1>3. Len(sink[g]) + 1 \in DOMAIN sink'[g]
  BY <1>2
<1>4. \A i \in DOMAIN sink[g] : i \in DOMAIN sink'[g]
  BY <1>2
<1>. QED
  BY <1>2, <1>3, <1>4 DEF InSink

\* Reading from a sink takes the first submission and keeps the others.
LEMMA InSinkTail ==
  ASSUME ESTypeOK, NEW g \in Graders, sink[g] # <<>>,
         sink'[g] = Tail(sink[g])
  PROVE  \A s \in Subs : InSink(g, s) => Head(sink[g]).sub = s \/ InSink(g, s)'
<1>1. sink[g] \in Seq(Job)
  BY DEF ESTypeOK
<1>2. /\ DOMAIN sink'[g] = 1..(Len(sink[g]) - 1)
      /\ DOMAIN sink[g] = 1..Len(sink[g])
      /\ Len(sink[g]) \in Nat
      /\ Head(sink[g]) = sink[g][1]
      /\ \A i \in 1..(Len(sink[g]) - 1) : sink'[g][i] = sink[g][i + 1]
  BY <1>1
<1>. SUFFICES ASSUME NEW s \in Subs, NEW i \in DOMAIN sink[g], sink[g][i].sub = s
     PROVE  Head(sink[g]).sub = s \/ InSink(g, s)'
  BY DEF InSink
<1>3. CASE i = 1
  BY <1>2, <1>3
<1>4. CASE i # 1
  <2>1. i - 1 \in DOMAIN sink'[g] /\ sink'[g][i - 1] = sink[g][i]
    BY <1>2, <1>4
  <2>. QED
    BY <2>1 DEF InSink
<1>. QED
  BY <1>3, <1>4

\* A push hands s to the grader it is assigned to; the other assignments, and
\* what the graders have, stay.
LEMMA PushHeld ==
  ASSUME ESTypeOK, SSTypeOK, AssignedIsHeld,
         NEW s \in Subs, NEW files \in 0..NumFiles,
         PushSubmissionToGrader(s, files),
         UNCHANGED <<updates, graderVars>>
  PROVE  AssignedIsHeld'
<1>1. CASE \E g \in FindService(Required[s]) :
             /\ PushSubmission(g, [sub |-> s, files |-> files])
             /\ AssignGrader(s, g)
  <2>1. PICK g \in attached :
             /\ PushSubmission(g, [sub |-> s, files |-> files])
             /\ AssignGrader(s, g)
    BY <1>1 DEF FindService, Candidates
  <2>2. g \in Graders /\ [sub |-> s, files |-> files] \in Job
    BY DEF ESTypeOK, Job
  <2>3. /\ sink'[g] = Append(sink[g], [sub |-> s, files |-> files])
        /\ \A h \in Graders : h # g => sink'[h] = sink[h]
        /\ UNCHANGED <<attached, canceled>>
    BY <2>1, <2>2 DEF PushSubmission, ESTypeOK
  <2>4. InSink(g, s)' /\ \A t \in Subs : InSink(g, t) => InSink(g, t)'
    BY <2>2, <2>3, InSinkAppend
  <2>5. /\ graderName'[s] = g
        /\ \A t \in Subs : t # s => graderName'[t] = graderName[t] /\ grading'[t] = grading[t]
    BY <2>1 DEF AssignGrader, SSTypeOK
  <2>. SUFFICES ASSUME NEW t \in Subs, NEW h \in Graders PROVE HeldBy(h, t)'
    BY DEF AssignedIsHeld, HeldBy
  <2>6. CASE t = s
    BY <2>4, <2>5, <2>6 DEF HeldBy, AssignedTo, Holds
  <2>7. CASE t # s
    <3>1. HeldBy(h, t)
      BY DEF AssignedIsHeld, HeldBy
    <3>2. InSink(h, t) => InSink(h, t)'
      BY <2>3, <2>4 DEF InSink
    <3>. QED
      BY <3>1, <3>2, <2>3, <2>5, <2>7
      DEF HeldBy, AssignedTo, Holds, StreamAlive, graderVars
  <2>. QED
    BY <2>6, <2>7
<1>2. CASE UNCHANGED <<esVars, rowVars>>
  BY <1>2 DEF AssignedIsHeld, AssignedTo, Holds, InSink, StreamAlive, esVars,
    rowVars, graderVars
<1>. QED
  BY <1>1, <1>2 DEF PushSubmissionToGrader

\* A step of the other parts leaves the loops and the reports alone.
LEMMA OtherSteps ==
  ASSUME \/ \E s \in Subs : SubmissionNext(s)
         \/ \E r \in RunIds : RunNext(r)
         \/ TimerTick \/ CheckInactive \/ TeacherNext
  PROVE  UNCHANGED <<updates, graderVars>>
<1>1. ASSUME NEW s \in Subs, SubmissionNext(s)
      PROVE  UNCHANGED <<updates, graderVars>>
  BY <1>1 DEF SubmissionNext, Submit, InsertRow, SubmitFile, InsertFile, SubmitPush,
    PushSubmitted, SubmitError, SubmitFails, RetryDue, handlerVars
<1>2. ASSUME NEW r \in RunIds, RunNext(r)
      PROVE  UNCHANGED <<updates, graderVars>>
  BY <1>2 DEF RunNext, RunLoads, LoadFiles, RunPushes, PushNext, RunSkips
<1>3. ASSUME TimerTick \/ CheckInactive
      PROVE  UNCHANGED <<updates, graderVars>>
  BY <1>3 DEF TimerTick, CheckInactive, handlerVars
<1>4. ASSUME TeacherNext
      PROVE  UNCHANGED <<updates, graderVars>>
  BY <1>4 DEF TeacherNext, RejudgeOne, RejudgeAll, RejudgeFailed, StartRejudge,
    RejudgeStep, RejudgeError, RejudgeFails, RejudgeDelete, RejudgeQueue,
    RejudgeRead, Review, handlerVars
<1>. QED
  BY <1>1, <1>2, <1>3, <1>4

\* A step of a grader leaves the loops and the reports of the others alone.
LEMMA OtherGraders ==
  ASSUME TypeOK, NEW g \in Graders, GraderNext(g), NEW h \in Graders, h # g
  PROVE  /\ phase'[h] = phase[h] /\ job'[h] = job[h]
         /\ inProgress'[h] = inProgress[h] /\ lost'[h] = lost[h]
         /\ updates'[h] = updates[h]
<1>1. CASE Connect(g) \/ PushStatus(g) \/ PushStatusByTimer(g) \/ Receive(g)
  BY <1>1 DEF Connect, OpenStream, PushStatus, StatusPushed, PushStatusByTimer,
    Receive, StartJob, SkipJob, graderVars, handlerVars, TypeOK, GSTypeOK, SSTypeOK
<1>2. CASE Report(g) \/ ReportStored(g) \/ ReportCleared(g) \/ ReportFinished(g)
           \/ ReportRejected(g) \/ ReportTorn(g) \/ ReportUnnotified(g)
  BY <1>2 DEF Report, StartReport, ReadOldStatus, ReportStored, StoreOutput,
    ReportCleared, DeleteResults, ReportFinished, InsertResults, Answer, JobFailed,
    ReportReturned, ReportRejected, ReportTorn, ReportUnnotified, StoreFails, ResultsFail,
    graderVars, TypeOK, GSTypeOK, SSTypeOK
<1>3. CASE ReportUnanswered(g) \/ GradingError(g) \/ Reopen(g) \/ Disconnect(g)
  BY <1>3 DEF ReportUnanswered, GradingError, JobFailed, Reopen, StreamBroken,
    Disconnect, graderVars, handlerVars, TypeOK, GSTypeOK, SSTypeOK
<1>4. CASE Crash(g) \/ Shutdown(g) \/ StartGrader(g)
  BY <1>4 DEF Crash, Shutdown, ProcessEnds, StartGrader, ProcessStarts,
    handlerVars, TypeOK, GSTypeOK, SSTypeOK
<1>. QED
  BY <1>1, <1>2, <1>3, <1>4 DEF GraderNext

\* What a grader passes over it has dropped, and its report is its own.
LEMMA LoopStep ==
  ASSUME TypeOK, PassedOverIsLost, ReportIsOwn, [Next]_vars
  PROVE  PassedOverIsLost' /\ ReportIsOwn'
<1>. DEFINE LoopOK(h) ==
       /\ \A s \in inProgress[h] \ lost[h] :
            phase[h] \in {"working", "reporting"} /\ job[h].sub = s
       /\ phase[h] = "reporting" /\ updates[h].pc # "none"
            => updates[h].sub = job[h].sub
<1>1. CASE UNCHANGED <<updates, graderVars>>
  BY <1>1 DEF PassedOverIsLost, ReportIsOwn, graderVars
<1>2. CASE Restart
  BY <1>2 DEF Restart, ServiceRestart, NoUpdate, PassedOverIsLost, ReportIsOwn,
    graderVars
<1>3. ASSUME NEW g \in Graders, GraderNext(g)
      PROVE  PassedOverIsLost' /\ ReportIsOwn'
  <2>. /\ phase \in [Graders -> Phases] /\ inProgress \in [Graders -> SUBSET Subs]
       /\ lost \in [Graders -> SUBSET Subs] /\ job \in [Graders -> Job \cup {NoJob}]
       /\ updates \in [Graders -> Update]
    BY DEF TypeOK, GSTypeOK, SSTypeOK
  <2>. LoopOK(g)
    BY DEF PassedOverIsLost, ReportIsOwn
  <2>1. CASE Connect(g) \/ PushStatus(g) \/ PushStatusByTimer(g) \/ Reopen(g)
             \/ Disconnect(g) \/ StartGrader(g)
    <3>. LoopOK(g)'
      BY <2>1 DEF Connect, OpenStream, PushStatus, StatusPushed, PushStatusByTimer,
        Reopen, StreamBroken, Disconnect, StartGrader, ProcessStarts, graderVars,
        handlerVars
    <3>. QED
      BY OtherGraders, <1>3 DEF PassedOverIsLost, ReportIsOwn
  <2>2. CASE Receive(g)
    <3>. LoopOK(g)'
      BY <2>2 DEF Receive, StartJob, SkipJob, graderVars, handlerVars
    <3>. QED
      BY OtherGraders, <1>3 DEF PassedOverIsLost, ReportIsOwn
  <2>3. CASE Report(g)
    <3>. LoopOK(g)'
      BY <2>3 DEF Report, StartReport, ReadOldStatus
    <3>. QED
      BY OtherGraders, <1>3 DEF PassedOverIsLost, ReportIsOwn
  <2>4. CASE ReportStored(g) \/ ReportCleared(g)
    <3>1. updates'[g].sub = updates[g].sub /\ updates[g].pc # "none"
      BY <2>4 DEF ReportStored, StoreOutput, ReportCleared, DeleteResults, Update
    <3>. LoopOK(g)'
      BY <2>4, <3>1 DEF ReportStored, ReportCleared, graderVars
    <3>. QED
      BY OtherGraders, <1>3 DEF PassedOverIsLost, ReportIsOwn
  <2>5. CASE ReportFinished(g) \/ ReportRejected(g)
    <3>1. updates'[g].pc = "none"
      BY <2>5 DEF ReportFinished, InsertResults, ReportRejected, StoreFails, NoUpdate
    <3>. LoopOK(g)'
      BY <2>5, <3>1 DEF ReportFinished, Answer, ReportRejected, ReportReturned, graderVars
    <3>. QED
      BY OtherGraders, <1>3 DEF PassedOverIsLost, ReportIsOwn
  <2>6. CASE ReportUnanswered(g) \/ GradingError(g) \/ Crash(g) \/ Shutdown(g)
    <3>. LoopOK(g)'
      BY <2>6 DEF ReportUnanswered, GradingError, JobFailed, Crash, Shutdown, ProcessEnds
    <3>. QED
      BY OtherGraders, <1>3 DEF PassedOverIsLost, ReportIsOwn
  <2>7. CASE ReportTorn(g) \/ ReportUnnotified(g)
    <3>1. updates'[g].pc = "none"
      BY <2>7 DEF ReportTorn, ResultsFail, ReportUnnotified, InsertResults, NoUpdate
    <3>. LoopOK(g)'
      BY <2>7, <3>1 DEF ReportTorn, ReportUnnotified, JobFailed, graderVars
    <3>. QED
      BY OtherGraders, <1>3 DEF PassedOverIsLost, ReportIsOwn
  <2>. QED
    BY <1>3, <2>1, <2>2, <2>3, <2>4, <2>5, <2>6, <2>7 DEF GraderNext
<1>4. CASE UNCHANGED vars
  BY <1>4, <1>1 DEF vars, handlerVars
<1>. QED
  BY <1>1, <1>2, <1>3, <1>4, OtherSteps DEF Next

\* Steps of students, teachers and queue runs.
LEMMA HeldOtherStep ==
  ASSUME TypeOK, AssignedIsHeld,
         \/ \E s \in Subs : SubmissionNext(s)
         \/ \E r \in RunIds : RunNext(r)
         \/ TimerTick \/ CheckInactive \/ TeacherNext
  PROVE  AssignedIsHeld'
<1>1. UNCHANGED <<updates, graderVars>>
  BY OtherSteps
<1>2. ASSUME UNCHANGED esVars,
             \A s \in Subs, g \in Graders : s \in AssignedTo(g)' => s \in AssignedTo(g)
      PROVE  AssignedIsHeld'
  BY <1>1, <1>2 DEF AssignedIsHeld, Holds, InSink, StreamAlive, esVars, graderVars
<1>3. ASSUME NEW s \in Subs, SubmissionNext(s)
      PROVE  AssignedIsHeld'
  <2>1. CASE Submit(s)
    BY <1>2, <2>1 DEF Submit, InsertRow, AssignedTo, TypeOK, SSTypeOK
  <2>2. CASE SubmitFile(s) \/ SubmitError(s) \/ RetryDue(s)
    BY <1>2, <2>2 DEF SubmitFile, InsertFile, SubmitError, RetryDue,
      RetryTimestampReached, AssignedTo, rowVars
  <2>3. CASE SubmitPush(s)
    <3>1. PushSubmissionToGrader(s, NumFiles) /\ NumFiles \in 0..NumFiles
      BY <2>3, GradersAssumption DEF SubmitPush, PushSubmitted
    <3>. QED
      BY <1>1, <3>1, PushHeld DEF TypeOK
  <2>. QED
    BY <1>3, <2>1, <2>2, <2>3 DEF SubmissionNext
<1>4. ASSUME NEW r \in RunIds, RunNext(r)
      PROVE  AssignedIsHeld'
  <2>1. CASE RunLoads(r) \/ RunSkips(r)
    BY <1>2, <2>1 DEF RunLoads, RunSkips, AssignedTo, rowVars
  <2>2. CASE RunPushes(r)
    <3>1. PICK s \in Subs : PushSubmissionToGrader(s, runs[r].files[s])
      BY <2>2 DEF RunPushes, PushNext
    <3>2. runs[r].files[s] \in 0..NumFiles
      BY DEF TypeOK, SSTypeOK, Run
    <3>. QED
      BY <1>1, <3>1, <3>2, PushHeld DEF TypeOK
  <2>. QED
    BY <1>4, <2>1, <2>2 DEF RunNext
<1>5. ASSUME TimerTick
      PROVE  AssignedIsHeld'
  BY <1>2, <1>5 DEF TimerTick, AssignedTo, rowVars
<1>6. ASSUME CheckInactive
      PROVE  AssignedIsHeld'
  <2>1. \A g \in Graders : StreamAlive(g)' => StreamAlive(g) /\ sink'[g] = sink[g]
    BY <1>6 DEF CheckInactive, CheckForInactiveGraders, Remove, StreamAlive
  <2>. QED
    BY <1>1, <1>6, <2>1
    DEF CheckInactive, AssignedIsHeld, AssignedTo, Holds, InSink, rowVars, graderVars
<1>7. ASSUME TeacherNext
      PROVE  AssignedIsHeld'
  <2>1. /\ UNCHANGED <<esVars, graderName>>
        /\ \A s \in Subs : grading'[s] = "ASSIGNED" => grading[s] = "ASSIGNED"
    BY <1>7 DEF TeacherNext, RejudgeOne, RejudgeAll, RejudgeFailed, RejudgeStep,
      RejudgeError, RejudgeFails, RejudgeDelete, RejudgeQueue, RejudgeRead, Review,
      UpdateSubmissionStatus, rowVars, TypeOK, SSTypeOK
  <2>. QED
    BY <1>2, <2>1 DEF AssignedTo
<1>. QED
  BY <1>3, <1>4, <1>5, <1>6, <1>7

\* Steps of a grader.
LEMMA HeldGraderStep ==
  ASSUME HeldInv, NEW g \in Graders, GraderNext(g)
  PROVE  AssignedIsHeld'
<1>. /\ TypeOK /\ ESTypeOK /\ SSTypeOK /\ GSTypeOK
     /\ AssignedIsHeld /\ PassedOverIsLost /\ ReportIsOwn
  BY DEF HeldInv, TypeOK
<1>. SUFFICES ASSUME NEW s \in Subs, NEW h \in Graders PROVE HeldBy(h, s)'
  BY DEF AssignedIsHeld, HeldBy
<1>1. HeldBy(h, s)
  BY DEF AssignedIsHeld, HeldBy
<1>2. h # g => /\ phase'[h] = phase[h] /\ job'[h] = job[h]
               /\ lost'[h] = lost[h] /\ updates'[h] = updates[h]
  BY OtherGraders
<1>3. CASE Connect(g)
  <2>1. CASE h = g
    <3>1. ~(s \in AssignedTo(g)')
      BY <1>3 DEF Connect, UnassignGrader, AssignedTo, SSTypeOK, Nobody
    <3>. QED
      BY <2>1, <3>1 DEF HeldBy
  <2>2. CASE h # g
    <3>1. s \in AssignedTo(h)' => s \in AssignedTo(h)
      BY <1>3, <2>2 DEF Connect, UnassignGrader, AssignedTo
    <3>2. sink'[h] = sink[h] /\ (StreamAlive(h)' => StreamAlive(h))
      BY <1>3, <2>2 DEF Connect, RegisterNewService, StreamAlive, ESTypeOK
    <3>. QED
      BY <1>1, <1>2, <2>2, <3>1, <3>2, HeldByKept
  <2>. QED
    BY <2>1, <2>2
<1>4. CASE PushStatus(g) \/ PushStatusByTimer(g)
  <2>1. PICK idle \in IdleWorkersCount(g) : SetServiceStatus(g, "IDLE", idle)
    BY <1>4 DEF PushStatus, PushStatusByTimer
  <2>2. UNCHANGED <<attached, sink, canceled>>
    BY <2>1 DEF SetServiceStatus, esVars
  <2>3. UNCHANGED <<grading, graderName, updates, lost>>
    BY <1>4 DEF PushStatus, PushStatusByTimer, StatusPushed, rowVars, handlerVars,
      graderVars
  <2>4. Holds(h, s) => Holds(h, s)'
    BY <1>4, <2>2, <2>3 DEF PushStatus, PushStatusByTimer, StatusPushed, graderVars,
      Holds, InSink, GSTypeOK
  <2>. QED
    BY <1>1, <2>2, <2>3, <2>4 DEF HeldBy, AssignedTo, StreamAlive
<1>5. CASE Receive(g)
  <2>1. /\ sink[g] # <<>> /\ sink'[g] = Tail(sink[g]) /\ phase[g] = "idle"
        /\ \A f \in Graders : f # g => sink'[f] = sink[f]
        /\ UNCHANGED <<attached, canceled, grading, graderName, updates, lost>>
    BY <1>5 DEF Receive, TakeFromSink, StartJob, SkipJob, rowVars, handlerVars,
      graderVars, ESTypeOK
  <2>2. CASE h = g
    <3>1. InSink(g, s) => Head(sink[g]).sub = s \/ InSink(g, s)'
      BY <2>1, InSinkTail
    <3>2. CASE StartJob(g, Head(sink[g]))
      <4>1. phase'[g] = "working" /\ job'[g] = Head(sink[g])
        BY <3>2 DEF StartJob, GSTypeOK
      <4>. QED
        BY <1>1, <2>1, <2>2, <3>1, <4>1 DEF HeldBy, AssignedTo, Holds, StreamAlive
    <3>3. CASE SkipJob(g, Head(sink[g]))
      <4>1. Head(sink[g]).sub \in lost[g]
        BY <2>1, <3>3 DEF SkipJob, PassedOverIsLost
      <4>2. UNCHANGED <<phase, job>>
        BY <3>3 DEF SkipJob, graderVars
      <4>. QED
        BY <1>1, <2>1, <2>2, <3>1, <4>1, <4>2
        DEF HeldBy, AssignedTo, Holds, StreamAlive
    <3>. QED
      BY <1>5, <3>2, <3>3 DEF Receive
  <2>3. CASE h # g
    BY <1>1, <1>2, <2>1, <2>3, HeldByKept DEF AssignedTo, StreamAlive
  <2>. QED
    BY <2>2, <2>3
<1>6. CASE Report(g)
  <2>1. UNCHANGED <<attached, canceled, sink, grading, graderName, lost>>
    BY <1>6 DEF Report, StartReport, esVars, rowVars
  <2>2. Holds(h, s) => Holds(h, s)'
    <3>1. CASE h = g
      BY <1>6, <2>1, <3>1 DEF Report, StartReport, ReadOldStatus, Holds, InSink,
        GSTypeOK, SSTypeOK
    <3>2. CASE h # g
      BY <1>2, <2>1, <3>2 DEF Holds, InSink
    <3>. QED
      BY <3>1, <3>2
  <2>. QED
    BY <1>1, <2>1, <2>2 DEF HeldBy, AssignedTo, StreamAlive
<1>7. CASE ReportStored(g)
  <2>1. UNCHANGED <<esVars, graderVars>> /\ updates[g].pc = "store"
    BY <1>7 DEF ReportStored, StoreOutput
  <2>2. /\ grading' = [grading EXCEPT ![updates[g].sub] = "DONE"]
        /\ graderName' = [graderName EXCEPT ![updates[g].sub] = g]
    BY <1>7 DEF ReportStored, StoreOutput
  <2>3. CASE s = updates[g].sub
    BY <2>2, <2>3 DEF HeldBy, AssignedTo, SSTypeOK
  <2>4. CASE s # updates[g].sub
    <3>1. grading'[s] = grading[s] /\ graderName'[s] = graderName[s]
      BY <2>2, <2>4 DEF SSTypeOK
    <3>2. Holds(h, s) => Holds(h, s)'
      <4>1. CASE h = g
        BY <2>1, <2>4, <4>1 DEF ReportIsOwn, Holds, InSink, esVars, graderVars
      <4>2. CASE h # g
        BY <1>2, <2>1, <4>2 DEF Holds, InSink, esVars
      <4>. QED
        BY <4>1, <4>2
    <3>. QED
      BY <1>1, <2>1, <3>1, <3>2 DEF HeldBy, AssignedTo, StreamAlive, esVars, graderVars
  <2>. QED
    BY <2>3, <2>4
<1>8. CASE ReportCleared(g)
  <2>1. /\ UNCHANGED <<esVars, graderVars, grading, graderName>>
        /\ updates[g].pc = "delete"
    BY <1>8 DEF ReportCleared, DeleteResults
  <2>2. Holds(h, s) => Holds(h, s)'
    BY <1>2, <2>1 DEF Holds, InSink, esVars, graderVars
  <2>. QED
    BY <1>1, <2>1, <2>2 DEF HeldBy, AssignedTo, StreamAlive, esVars, graderVars
<1>9. CASE ReportFinished(g)
  <2>1. /\ UNCHANGED <<esVars, grading, graderName, lost>>
        /\ updates[g].pc = "insert"
    BY <1>9 DEF ReportFinished, InsertResults, Answer, graderVars
  <2>2. Holds(h, s) => Holds(h, s)'
    BY <1>2, <1>9, <2>1 DEF ReportFinished, Answer, ReportReturned, Holds, InSink,
      esVars, graderVars
  <2>. QED
    BY <1>1, <2>1, <2>2 DEF HeldBy, AssignedTo, StreamAlive, esVars
<1>10. CASE ReportRejected(g)
  <2>1. UNCHANGED <<esVars, grading, graderName>>
    BY <1>10 DEF ReportRejected, rowVars
  <2>2. Holds(h, s) \/ s \in lost[h] => Holds(h, s)' \/ s \in lost'[h]
    <3>1. CASE h = g
      BY <1>10, <2>1, <3>1 DEF ReportRejected, ReportReturned, Holds, InSink,
        esVars, graderVars, GSTypeOK
    <3>2. CASE h # g
      BY <1>2, <2>1, <3>2 DEF Holds, InSink, esVars
    <3>. QED
      BY <3>1, <3>2
  <2>. QED
    BY <1>1, <2>1, <2>2 DEF HeldBy, AssignedTo, StreamAlive, esVars
<1>11. CASE GradingError(g) \/ ReportUnanswered(g)
  <2>1. UNCHANGED <<esVars, grading, graderName, updates>> /\ JobFailed(g)
    BY <1>11 DEF GradingError, ReportUnanswered, rowVars, handlerVars
  <2>2. Holds(h, s) \/ s \in lost[h] => Holds(h, s)' \/ s \in lost'[h]
    <3>1. CASE h = g
      BY <2>1, <3>1 DEF JobFailed, Holds, InSink, esVars, GSTypeOK
    <3>2. CASE h # g
      BY <1>2, <2>1, <3>2 DEF Holds, InSink, esVars
    <3>. QED
      BY <3>1, <3>2
  <2>. QED
    BY <1>1, <2>1, <2>2 DEF HeldBy, AssignedTo, StreamAlive, esVars
<1>12. CASE Reopen(g) \/ Disconnect(g) \/ Crash(g) \/ Shutdown(g) \/ StartGrader(g)
  <2>1. UNCHANGED <<grading, graderName>>
    BY <1>12 DEF Reopen, Disconnect, Crash, Shutdown, StartGrader, rowVars
  <2>2. CASE h # g
    <3>1. sink'[h] = sink[h] /\ (StreamAlive(h)' => StreamAlive(h))
      BY <1>12, <2>2 DEF Reopen, Disconnect, Crash, Shutdown, StartGrader, CancelCall,
        SetServiceStatus, Remove, StreamAlive, esVars, ESTypeOK
    <3>. QED
      BY <1>1, <1>2, <2>1, <2>2, <3>1, HeldByKept DEF AssignedTo
  <2>3. CASE h = g /\ (Disconnect(g) \/ Crash(g) \/ Shutdown(g))
    <3>1. ~StreamAlive(g)'
      BY <2>3 DEF Disconnect, Crash, Shutdown, CancelCall, SetServiceStatus, Remove,
        StreamAlive, ESTypeOK
    <3>. QED
      BY <2>3, <3>1 DEF HeldBy
  <2>4. CASE h = g /\ Reopen(g)
    BY <2>4 DEF Reopen, HeldBy, StreamAlive, esVars
  <2>5. CASE h = g /\ StartGrader(g)
    <3>1. Holds(g, s) => Holds(g, s)'
      BY <2>5 DEF StartGrader, ProcessStarts, Holds, InSink, esVars, handlerVars
    <3>. QED
      BY <1>1, <2>1, <2>5, <3>1
      DEF StartGrader, ProcessStarts, HeldBy, AssignedTo, StreamAlive, esVars
  <2>. QED
    BY <1>12, <2>2, <2>3, <2>4, <2>5
<1>13. CASE ReportTorn(g) \/ ReportUnnotified(g)
  <2>1. /\ UNCHANGED <<esVars, grading, graderName>>
        /\ updates[g].pc # "store"
    BY <1>13 DEF ReportTorn, ResultsFail, ReportUnnotified, InsertResults, rowVars
  <2>2. Holds(h, s) \/ s \in lost[h] => Holds(h, s)' \/ s \in lost'[h]
    <3>1. CASE h = g
      BY <1>13, <2>1, <3>1 DEF ReportTorn, ReportUnnotified, JobFailed, Holds, InSink,
        esVars, graderVars, GSTypeOK
    <3>2. CASE h # g
      BY <1>2, <2>1, <3>2 DEF Holds, InSink, esVars
    <3>. QED
      BY <3>1, <3>2
  <2>. QED
    BY <1>1, <2>1, <2>2 DEF HeldBy, AssignedTo, StreamAlive, esVars
<1>. QED
  BY <1>3, <1>4, <1>5, <1>6, <1>7, <1>8, <1>9, <1>10, <1>11, <1>12, <1>13
  DEF GraderNext

\* HeldInv is inductive.
LEMMA HeldStep == HeldInv /\ [Next]_vars => HeldInv'
<1>. SUFFICES ASSUME HeldInv, [Next]_vars PROVE HeldInv'
  OBVIOUS
<1>1. TypeOK' /\ PassedOverIsLost' /\ ReportIsOwn'
  BY TypeStep, LoopStep DEF HeldInv
<1>2. CASE Restart
  <2>1. \A g \in Graders : ~StreamAlive(g)'
    BY <1>2 DEF Restart, ServiceRestart, Remove, StreamAlive
  <2>. QED
    BY <1>1, <2>1 DEF HeldInv, AssignedIsHeld
<1>3. CASE UNCHANGED vars
  BY <1>1, <1>3 DEF vars, esVars, rowVars, handlerVars, graderVars, HeldInv,
    AssignedIsHeld, AssignedTo, Holds, InSink, StreamAlive
<1>. QED
  BY <1>1, <1>2, <1>3, HeldOtherStep, HeldGraderStep DEF HeldInv, Next

\* The inductive invariant holds: types, what is assigned, what is passed over
\* and which handler a grader awaits, through reconnections, crashes, refused
\* reports and runs over stale snapshots.
THEOREM HeldInvariant == Spec => []HeldInv
<1>1. Init => HeldInv
  BY TypeInit DEF Init, ESInit, SSInit, GSInit, HeldInv, AssignedIsHeld,
    AssignedTo, PassedOverIsLost, ReportIsOwn
<1>. QED
  BY <1>1, HeldStep, PTL DEF Spec

\* While the stream of a grader is alive, each submission assigned to it is on
\* its way to the grader, in its hands, in its report, or was dropped by it on
\* an error since it has connected.
THEOREM AssignmentsAreHeld == Spec => []AssignedIsHeld
<1>1. HeldInv => AssignedIsHeld
  BY DEF HeldInv
<1>. QED
  BY <1>1, HeldInvariant, PTL

(***************************************************************************)
(* A graded submission stays graded.                                       *)
(***************************************************************************)

\* The push of one submission leaves the others as they are.
LEMMA PushOthers ==
  ASSUME SSTypeOK, NEW s \in Subs, NEW files, PushSubmissionToGrader(s, files),
         NEW t \in Subs, t # s
  PROVE  grading'[t] = grading[t]
BY DEF PushSubmissionToGrader, AssignGrader, SSTypeOK, rowVars

\* A new run does not select a graded submission whose check did not fail.
LEMMA StartRunSelects ==
  ASSUME SSTypeOK, NEW grad, StartRun(grad),
         NEW s \in Subs, grad[s] = "DONE", status[s] # "CHECK_FAILED",
         \A r \in RunIds : s \notin runs[r].pending
  PROVE  \A r \in RunIds : s \notin runs'[r].pending
<1>1. s \notin SubmissionsToGrade(grad)
  BY DEF SubmissionsToGrade
<1>. QED
  BY <1>1 DEF StartRun, SSTypeOK

\* Every step of the system leaves graded submissions graded.
LEMMA StaysGradedStep == TypeOK /\ [Next]_vars => [StaysGraded]_vars
<1>. SUFFICES ASSUME TypeOK, Next,
                     NEW s \in Subs, grading[s] = "DONE", status[s] # "CHECK_FAILED",
                     NoPush(s), rejudging.cur # s
              PROVE  grading'[s] = "DONE" /\ NoPush(s)'
  BY DEF StaysGraded
<1>. SSTypeOK
  BY DEF TypeOK
<1>. submitting[s] = "done" /\ \A r \in RunIds : s \notin runs[r].pending
  BY DEF NoPush
<1>1. ASSUME NEW t \in Subs, SubmissionNext(t)
      PROVE  grading'[s] = "DONE" /\ NoPush(s)'
  <2>1. CASE Submit(t) \/ SubmitFile(t) \/ SubmitError(t) \/ RetryDue(t)
    BY <2>1 DEF Submit, InsertRow, SubmitFile, InsertFile, SubmitError, SubmitFails,
      RetryDue, RetryTimestampReached, NoPush, SSTypeOK, rowVars, handlerVars
  <2>2. CASE SubmitPush(t)
    <3>1. t # s /\ PushSubmissionToGrader(t, NumFiles)
      BY <2>2 DEF SubmitPush, PushSubmitted
    <3>2. grading'[s] = "DONE"
      BY <3>1, PushOthers
    <3>. QED
      BY <2>2, <3>1, <3>2 DEF SubmitPush, PushSubmitted, NoPush, SSTypeOK
  <2>. QED
    BY <1>1, <2>1, <2>2 DEF SubmissionNext
<1>2. ASSUME NEW r \in RunIds, RunNext(r)
      PROVE  grading'[s] = "DONE" /\ NoPush(s)'
  <2>1. ASSUME NEW t \in Subs, Advance(r, t)
        PROVE  \A q \in RunIds : s \notin runs'[q].pending
    BY <2>1 DEF Advance, NoRun, SSTypeOK
  <2>2. CASE RunLoads(r)
    BY <2>2 DEF RunLoads, LoadFiles, NoPush, SSTypeOK, rowVars
  <2>3. CASE RunPushes(r)
    <3>1. PICK t \in Subs : PushNext(r, t)
      BY <2>3 DEF RunPushes
    <3>2. t # s /\ PushSubmissionToGrader(t, runs[r].files[t])
      BY <3>1 DEF PushNext, NextToPush, IsFirst
    <3>3. grading'[s] = "DONE"
      BY <3>2, PushOthers
    <3>. QED
      BY <2>1, <3>1, <3>3 DEF PushNext, NoPush
  <2>4. CASE RunSkips(r)
    BY <2>1, <2>4 DEF RunSkips, NoPush, rowVars
  <2>. QED
    BY <1>2, <2>2, <2>3, <2>4 DEF RunNext
<1>3. ASSUME TimerTick
      PROVE  grading'[s] = "DONE" /\ NoPush(s)'
  BY <1>3, StartRunSelects DEF TimerTick, NoPush, rowVars
<1>4. ASSUME NEW g \in Graders, GraderNext(g)
      PROVE  grading'[s] = "DONE" /\ NoPush(s)'
  <2>1. CASE Connect(g)
    <3>1. grading'[s] = "DONE"
      BY <2>1 DEF Connect, UnassignGrader, AssignedTo
    <3>2. StartRun(grading') /\ UNCHANGED submitting
      BY <2>1 DEF Connect
    <3>. QED
      BY <3>1, <3>2, StartRunSelects DEF NoPush
  <2>2. CASE ReportStored(g)
    BY <2>2 DEF ReportStored, StoreOutput, NoPush, SSTypeOK
  <2>3. CASE ~Connect(g) /\ ~ReportStored(g)
    BY <1>4, <2>3 DEF GraderNext, PushStatus, PushStatusByTimer, Receive, Report,
      ReadOldStatus, ReportCleared, DeleteResults, ReportFinished, InsertResults,
      ReportRejected, ReportTorn, ReportUnnotified, StoreFails, ResultsFail, GradingError,
      ReportUnanswered, Reopen, Disconnect, Crash, Shutdown, StartGrader, NoPush,
      rowVars, handlerVars
  <2>. QED
    BY <2>1, <2>2, <2>3
<1>5. ASSUME TeacherNext
      PROVE  grading'[s] = "DONE" /\ NoPush(s)'
  BY <1>5 DEF TeacherNext, RejudgeOne, RejudgeAll, RejudgeFailed, StartRejudge,
    RejudgeStep, RejudgeError, RejudgeFails, RejudgeDelete, RejudgeQueue,
    RejudgeRead, Review, UpdateSubmissionStatus, NoPush, SSTypeOK, rowVars,
    handlerVars
<1>6. ASSUME CheckInactive
      PROVE  grading'[s] = "DONE" /\ NoPush(s)'
  BY <1>6 DEF CheckInactive, NoPush, rowVars, handlerVars
<1>7. ASSUME Restart
      PROVE  grading'[s] = "DONE" /\ NoPush(s)'
  BY <1>7 DEF Restart, ServiceRestart, NoRun, NoPush, rowVars
<1>. QED
  BY <1>1, <1>2, <1>3, <1>4, <1>5, <1>6, <1>7 DEF Next

\* A submission that is graded, and that no submission handler and no queue run
\* is about to push, leaves that state by rejudge or after a failed check only.
THEOREM GradedStaysGraded == Spec => GradedIsFinal
BY TypeCorrect, StaysGradedStep, PTL DEF Spec, GradedIsFinal
(***************************************************************************)
(* The results shown with a graded submission.                             *)
(***************************************************************************)

\* g has updated the row of s and has not inserted the results.
Storing(g, s) == updates[g].pc \in {"delete", "insert"} /\ updates[g].sub = s

\* What holds of a submission that is not torn: one handler at most is between
\* row and results, it inserts what belongs to the row, and without one the
\* results are those of the row.
Together(s) ==
  /\ \A g, h \in Graders : Storing(g, s) /\ Storing(h, s) => g = h
  /\ \A g \in Graders : Storing(g, s) => updates[g].grade = output[s]
  /\ grading[s] = "DONE" /\ ~BeingStored(s) /\ ~BeingRejudged(s)
       => results[s] = output[s]

TogetherInv == \A s \in Subs \ torn : Together(s)

\* A step that stores nothing of s, and does not make it graded, keeps row and
\* results together.
LEMMA TogetherKept ==
  ASSUME NEW s \in Subs, Together(s),
         \A g \in Graders : Storing(g, s)' <=> Storing(g, s),
         \A g \in Graders : Storing(g, s) => updates'[g].grade = updates[g].grade,
         output'[s] = output[s], results'[s] = results[s],
         grading'[s] = "DONE" => grading[s] = "DONE",
         BeingRejudged(s) => BeingRejudged(s)' \/ grading'[s] # "DONE"
  PROVE  Together(s)'
<1>1. BeingStored(s) <=> \E g \in Graders : Storing(g, s)
  BY DEF BeingStored, Storing
<1>2. BeingStored(s)' <=> \E g \in Graders : Storing(g, s)'
  BY DEF BeingStored, Storing
<1>. QED
  BY <1>1, <1>2 DEF Together

\* The steps of students, queue runs and the registry store nothing.
LEMMA TogetherOtherStep ==
  ASSUME TypeOK, TogetherInv,
         \/ \E s \in Subs : SubmissionNext(s)
         \/ \E r \in RunIds : RunNext(r)
         \/ TimerTick \/ CheckInactive
  PROVE  TogetherInv'
<1>. SSTypeOK
  BY DEF TypeOK
<1>1. ASSUME UNCHANGED <<updates, torn, output, results, rejudging>>,
             \A s \in Subs : grading'[s] = "DONE" => grading[s] = "DONE"
      PROVE  TogetherInv'
  BY <1>1 DEF TogetherInv, Together, Storing, BeingStored, BeingRejudged
<1>2. ASSUME NEW t \in Subs, NEW files, PushSubmissionToGrader(t, files)
      PROVE  /\ UNCHANGED <<output, results>>
             /\ \A s \in Subs : grading'[s] = "DONE" => grading[s] = "DONE"
  BY <1>2 DEF PushSubmissionToGrader, AssignGrader, SSTypeOK, rowVars
<1>3. ASSUME NEW t \in Subs, SubmissionNext(t)
      PROVE  TogetherInv'
  <2>1. CASE SubmitPush(t)
    BY <1>1, <1>2, <2>1 DEF SubmitPush, PushSubmitted
  <2>2. CASE Submit(t) \/ SubmitFile(t) \/ SubmitError(t) \/ RetryDue(t)
    BY <1>1, <2>2 DEF Submit, InsertRow, SubmitFile, InsertFile, SubmitError,
      SubmitFails, RetryDue, RetryTimestampReached, SSTypeOK, rowVars, handlerVars
  <2>. QED
    BY <1>3, <2>1, <2>2 DEF SubmissionNext
<1>4. ASSUME NEW r \in RunIds, RunNext(r)
      PROVE  TogetherInv'
  <2>1. CASE RunPushes(r)
    BY <1>1, <1>2, <2>1 DEF RunPushes, PushNext
  <2>2. CASE RunLoads(r) \/ RunSkips(r)
    BY <1>1, <2>2 DEF RunLoads, LoadFiles, RunSkips, rowVars
  <2>. QED
    BY <1>4, <2>1, <2>2 DEF RunNext
<1>5. ASSUME TimerTick \/ CheckInactive
      PROVE  TogetherInv'
  BY <1>1, <1>5 DEF TimerTick, CheckInactive, rowVars, handlerVars
<1>. QED
  BY <1>3, <1>4, <1>5

\* updateGraderOutput: the row is written alone or the submission is torn, and
\* what is inserted later belongs to the row.
LEMMA TogetherReportStep ==
  ASSUME TypeOK, TogetherInv, NEW g \in Graders,
         \/ Report(g) \/ ReportStored(g) \/ ReportCleared(g) \/ ReportFinished(g)
         \/ ReportRejected(g) \/ ReportTorn(g) \/ ReportUnnotified(g)
  PROVE  TogetherInv'
<1>. SSTypeOK
  BY DEF TypeOK
<1>. /\ updates \in [Graders -> Update] /\ output \in [Subs -> Grades \cup {NoGrade}]
     /\ grading \in [Subs -> {"NONE", "QUEUED", "ASSIGNED", "DONE"}]
     /\ results \in [Subs -> Grades \cup {NoGrade}]
  BY DEF SSTypeOK
<1>. SUFFICES ASSUME NEW s \in Subs, s \notin torn' PROVE Together(s)'
  BY DEF TogetherInv
<1>1. CASE Report(g) \/ ReportRejected(g)
  <2>1. /\ UNCHANGED <<grading, output, results, rejudging, torn>>
        /\ updates[g].pc \in {"none", "store"} /\ updates'[g].pc \in {"none", "store"}
        /\ \A h \in Graders : h # g => updates'[h] = updates[h]
    BY <1>1 DEF Report, ReadOldStatus, ReportRejected, StoreFails, NoUpdate, rowVars
  <2>2. Together(s)
    BY <2>1 DEF TogetherInv
  <2>3. \A h \in Graders : /\ Storing(h, s)' <=> Storing(h, s)
                           /\ Storing(h, s) => updates'[h].grade = updates[h].grade
    BY <2>1 DEF Storing
  <2>. QED
    BY <2>1, <2>2, <2>3, TogetherKept DEF BeingRejudged
<1>2. CASE ReportStored(g)
  <2>. DEFINE u == updates[g]
  <2>1. /\ u.pc = "store" /\ UNCHANGED <<results, rejudging>>
        /\ grading' = [grading EXCEPT ![u.sub] = "DONE"]
        /\ output' = [output EXCEPT ![u.sub] = u.grade]
        /\ torn' = {t \in Subs : IF t = u.sub THEN BeingStored(t) ELSE t \in torn}
        /\ updates' = [updates EXCEPT ![g].pc = "delete"]
    BY <1>2 DEF ReportStored, StoreOutput
  <2>2. /\ updates'[g].pc = "delete" /\ updates'[g].sub = u.sub
        /\ updates'[g].grade = u.grade
        /\ \A h \in Graders : h # g => updates'[h] = updates[h]
    BY <2>1 DEF Update
  <2>3. CASE s = u.sub
    <3>1. ~BeingStored(s)
      BY <2>1, <2>3
    <3>2. \A h \in Graders : Storing(h, s)' => h = g
      BY <2>2, <3>1 DEF BeingStored, Storing
    <3>3. output'[s] = updates'[g].grade
      BY <2>1, <2>2, <2>3
    <3>4. BeingStored(s)'
      BY <2>2, <2>3 DEF BeingStored
    <3>. QED
      BY <3>2, <3>3, <3>4 DEF Together
  <2>4. CASE s # u.sub
    <3>1. Together(s)
      BY <2>1, <2>4 DEF TogetherInv
    <3>2. grading'[s] = grading[s] /\ output'[s] = output[s] /\ results'[s] = results[s]
      BY <2>1, <2>4
    <3>3. \A h \in Graders : /\ Storing(h, s)' <=> Storing(h, s)
                             /\ Storing(h, s) => updates'[h].grade = updates[h].grade
      BY <2>1, <2>2, <2>4 DEF Storing
    <3>. QED
      BY <2>1, <3>1, <3>2, <3>3, TogetherKept DEF BeingRejudged
  <2>. QED
    BY <2>3, <2>4
<1>3. CASE ReportCleared(g)
  <2>1. /\ updates[g].pc = "delete" /\ UNCHANGED <<grading, output, rejudging, torn>>
        /\ results' = [results EXCEPT ![updates[g].sub] = NoGrade]
        /\ updates'[g].pc = "insert" /\ updates'[g].sub = updates[g].sub
        /\ updates'[g].grade = updates[g].grade
        /\ \A h \in Graders : h # g => updates'[h] = updates[h]
    BY <1>3 DEF ReportCleared, DeleteResults, Update
  <2>2. Together(s)
    BY <2>1 DEF TogetherInv
  <2>3. \A h \in Graders : /\ Storing(h, s)' <=> Storing(h, s)
                           /\ updates'[h].grade = updates[h].grade
    BY <2>1 DEF Storing
  <2>4. CASE s = updates[g].sub
    <3>1. BeingStored(s)'
      BY <2>1, <2>4 DEF BeingStored
    <3>. QED
      BY <2>1, <2>2, <2>3, <3>1 DEF Together
  <2>5. CASE s # updates[g].sub
    <3>1. results'[s] = results[s]
      BY <2>1, <2>5
    <3>. QED
      BY <2>1, <2>2, <2>3, <3>1, TogetherKept DEF BeingRejudged
  <2>. QED
    BY <2>4, <2>5
<1>4. CASE ReportFinished(g) \/ ReportUnnotified(g)
  <2>1. /\ updates[g].pc = "insert" /\ UNCHANGED <<grading, output, rejudging, torn>>
        /\ results' = [results EXCEPT ![updates[g].sub] = updates[g].grade]
        /\ updates'[g].pc = "none"
        /\ \A h \in Graders : h # g => updates'[h] = updates[h]
    BY <1>4 DEF ReportFinished, ReportUnnotified, InsertResults, NoUpdate
  <2>2. Together(s)
    BY <2>1 DEF TogetherInv
  <2>3. CASE s = updates[g].sub
    <3>1. Storing(g, s)
      BY <2>1, <2>3 DEF Storing
    <3>2. updates[g].grade = output[s] /\ \A h \in Graders : Storing(h, s) => h = g
      BY <2>2, <3>1 DEF Together
    <3>3. results'[s] = output'[s]
      BY <2>1, <2>3, <3>2
    <3>4. \A h \in Graders : ~Storing(h, s)'
      BY <2>1, <3>2 DEF Storing
    <3>. QED
      BY <3>3, <3>4 DEF Together
  <2>4. CASE s # updates[g].sub
    <3>1. results'[s] = results[s]
      BY <2>1, <2>4
    <3>2. \A h \in Graders : /\ Storing(h, s)' <=> Storing(h, s)
                             /\ Storing(h, s) => updates'[h].grade = updates[h].grade
      BY <2>1, <2>4 DEF Storing
    <3>. QED
      BY <2>1, <2>2, <3>1, <3>2, TogetherKept DEF BeingRejudged
  <2>. QED
    BY <2>3, <2>4
<1>5. CASE ReportTorn(g)
  <2>1. /\ UNCHANGED <<grading, output, results, rejudging>>
        /\ torn' = {t \in Subs : t \in torn \/ t = updates[g].sub}
        /\ updates'[g].pc = "none"
        /\ \A h \in Graders : h # g => updates'[h] = updates[h]
    BY <1>5 DEF ReportTorn, ResultsFail, NoUpdate, rowVars
  <2>2. s \notin torn /\ s # updates[g].sub
    BY <2>1
  <2>3. Together(s)
    BY <2>2 DEF TogetherInv
  <2>4. \A h \in Graders : /\ Storing(h, s)' <=> Storing(h, s)
                           /\ Storing(h, s) => updates'[h].grade = updates[h].grade
    BY <2>1, <2>2 DEF Storing
  <2>. QED
    BY <2>1, <2>3, <2>4, TogetherKept DEF BeingRejudged
<1>. QED
  BY <1>1, <1>2, <1>3, <1>4, <1>5

\* The other steps of a grader, and of its connection, store nothing.
LEMMA TogetherStreamStep ==
  ASSUME TypeOK, TogetherInv, NEW g \in Graders, GraderNext(g),
         ~(\/ Report(g) \/ ReportStored(g) \/ ReportCleared(g) \/ ReportFinished(g)
           \/ ReportRejected(g) \/ ReportTorn(g) \/ ReportUnnotified(g))
  PROVE  TogetherInv'
<1>1. /\ UNCHANGED <<updates, torn, output, results, rejudging>>
      /\ \A s \in Subs : grading'[s] = "DONE" => grading[s] = "DONE"
  <2>1. CASE Connect(g)
    BY <2>1 DEF Connect, UnassignGrader, TypeOK, SSTypeOK
  <2>2. CASE ~Connect(g)
    BY <2>2 DEF GraderNext, PushStatus, PushStatusByTimer, Receive, GradingError,
      ReportUnanswered, Reopen, Disconnect, Crash, Shutdown, StartGrader, rowVars,
      handlerVars
  <2>. QED
    BY <2>1, <2>2
<1>. QED
  BY <1>1 DEF TogetherInv, Together, Storing, BeingStored, BeingRejudged

\* A rejudge deletes the results and queues the submission; in between it is
\* being rejudged, and torn if the second query fails.
LEMMA TogetherTeacherStep ==
  ASSUME TypeOK, TogetherInv, TeacherNext
  PROVE  TogetherInv'
<1>. SSTypeOK
  BY DEF TypeOK
<1>. SUFFICES ASSUME NEW s \in Subs, s \notin torn' PROVE Together(s)'
  BY DEF TogetherInv
<1>1. ASSUME UNCHANGED <<updates, torn, output>>, results'[s] = results[s],
             grading'[s] = "DONE" => grading[s] = "DONE",
             BeingRejudged(s) => BeingRejudged(s)' \/ grading'[s] # "DONE"
      PROVE  Together(s)'
  <2>1. Together(s)
    BY <1>1 DEF TogetherInv
  <2>. QED
    BY <1>1, <2>1 DEF Together, Storing, BeingStored
<1>2. CASE \/ \E t \in Subs : RejudgeOne(t)
           \/ RejudgeAll \/ RejudgeFailed
           \/ \E t \in Subs, verdict \in Verdicts : Review(t, verdict)
  BY <1>1, <1>2 DEF RejudgeOne, RejudgeAll, RejudgeFailed, StartRejudge, Review,
    UpdateSubmissionStatus, BeingRejudged, rowVars, handlerVars
<1>3. CASE \E t \in Subs : RejudgeDelete(t)
  <2>1. PICK t \in Subs : RejudgeDelete(t)
    BY <1>3
  <2>2. /\ UNCHANGED <<updates, torn, output, grading>> /\ rejudging.pc = "delete"
        /\ results' = [results EXCEPT ![t] = NoGrade]
        /\ rejudging'.pc = "queue" /\ rejudging'.cur = t
    BY <2>1 DEF RejudgeDelete, SSTypeOK, Rejudge
  <2>3. CASE s = t
    <3>1. BeingRejudged(s)'
      BY <2>2, <2>3 DEF BeingRejudged
    <3>2. Together(s)
      BY <2>2 DEF TogetherInv
    <3>. QED
      BY <2>2, <3>1, <3>2 DEF Together, Storing
  <2>4. CASE s # t
    BY <1>1, <2>2, <2>4 DEF BeingRejudged, SSTypeOK
  <2>. QED
    BY <2>3, <2>4
<1>4. CASE RejudgeQueue
  BY <1>1, <1>4 DEF RejudgeQueue, BeingRejudged, SSTypeOK
<1>5. CASE RejudgeRead /\ UNCHANGED rowVars
  BY <1>1, <1>5 DEF RejudgeRead, BeingRejudged, rowVars
<1>6. CASE RejudgeError
  <2>1. /\ UNCHANGED <<updates, output, results, grading>>
        /\ s \notin torn /\ ~BeingRejudged(s)
    BY <1>6 DEF RejudgeError, RejudgeFails, rowVars
  <2>2. Together(s)
    BY <2>1 DEF TogetherInv
  <2>. QED
    BY <2>1, <2>2 DEF Together, Storing, BeingStored
<1>. QED
  BY <1>2, <1>3, <1>4, <1>5, <1>6 DEF TeacherNext, RejudgeStep

\* A restart forgets the handlers: what one of them was at work on is torn.
LEMMA TogetherRestart ==
  ASSUME TogetherInv, Restart
  PROVE  TogetherInv'
<1>1. /\ torn' = {s \in Subs : s \in torn \/ BeingStored(s) \/ BeingRejudged(s)}
      /\ updates' = [g \in Graders |-> NoUpdate]
      /\ UNCHANGED <<grading, output, results>>
  BY DEF Restart, ServiceRestart, rowVars
<1>. SUFFICES ASSUME NEW s \in Subs, s \notin torn' PROVE Together(s)'
  BY DEF TogetherInv
<1>2. s \notin torn /\ ~BeingStored(s) /\ ~BeingRejudged(s)
  BY <1>1
<1>3. \A g \in Graders : ~Storing(g, s)'
  BY <1>1 DEF Storing, NoUpdate
<1>. QED
  BY <1>1, <1>2, <1>3 DEF TogetherInv, Together

\* The invariant is inductive.
LEMMA TogetherStep == TypeOK /\ TogetherInv /\ [Next]_vars => TogetherInv'
<1>. SUFFICES ASSUME TypeOK, TogetherInv, [Next]_vars PROVE TogetherInv'
  OBVIOUS
<1>1. ASSUME NEW g \in Graders, GraderNext(g)
      PROVE  TogetherInv'
  BY <1>1, TogetherReportStep, TogetherStreamStep
<1>2. CASE UNCHANGED vars
  BY <1>2 DEF vars, rowVars, handlerVars, TogetherInv, Together, Storing, BeingStored,
    BeingRejudged
<1>. QED
  BY <1>1, <1>2, TogetherOtherStep, TogetherTeacherStep, TogetherRestart DEF Next

\* The results in the tables are those of the report the row was written from,
\* for any number of graders, overlapping reports, rejudges, errors and
\* restarts; excepted are submissions being written, and torn ones.
THEOREM ResultsAreOfTheRow == Spec => []ResultsMatchRow
<1>1. Init => TogetherInv
  BY DEF Init, SSInit, TogetherInv, Together, Storing, NoUpdate
<1>2. TogetherInv => ResultsMatchRow
  BY DEF TogetherInv, Together, ResultsMatchRow
<1>. QED
  BY <1>1, <1>2, TogetherStep, TypeCorrect, PTL DEF Spec

(***************************************************************************)
(* The sinks within the system.                                            *)
(***************************************************************************)

\* What the callers of the registry do to the sinks.
LEMMA SinksStep == TypeOK /\ SinksSuit /\ [Next]_vars => SinksSuit'
<1>. SUFFICES ASSUME TypeOK, SinksSuit, [Next]_vars PROVE SinksSuit'
  OBVIOUS
<1>. ESTypeOK /\ SSTypeOK
  BY DEF TypeOK
<1>1. CASE UNCHANGED sink
  BY <1>1 DEF SinksSuit, Suits
<1>2. ASSUME NEW s \in Subs, NEW files \in 0..NumFiles,
             PushSubmissionToGrader(s, files)
      PROVE  SinksSuit'
  <2>1. CASE UNCHANGED <<esVars, rowVars>>
    BY <1>1, <2>1 DEF esVars
  <2>2. CASE \E g \in FindService(Required[s]) :
               PushSubmission(g, [sub |-> s, files |-> files])
    <3>1. [sub |-> s, files |-> files] \in Job
      BY DEF Job
    <3>2. PICK g \in FindService(Required[s]) :
                 PushSubmission(g, [sub |-> s, files |-> files])
      BY <2>2
    <3>3. [sub |-> s, files |-> files].sub = s
      OBVIOUS
    <3>. QED
      BY <3>1, <3>2, <3>3, PushSuits
  <2>. QED
    BY <1>2, <2>1, <2>2 DEF PushSubmissionToGrader
<1>3. ASSUME NEW s \in Subs, SubmissionNext(s)
      PROVE  SinksSuit'
  <2>1. CASE SubmitPush(s)
    BY <1>2, <2>1, GradersAssumption DEF SubmitPush, PushSubmitted
  <2>2. CASE ~SubmitPush(s)
    BY <1>1, <1>3, <2>2 DEF SubmissionNext, Submit, SubmitFile, SubmitError, RetryDue,
      esVars
  <2>. QED
    BY <2>1, <2>2
<1>4. ASSUME NEW r \in RunIds, RunNext(r)
      PROVE  SinksSuit'
  <2>1. CASE RunPushes(r)
    <3>1. PICK s \in Subs : PushSubmissionToGrader(s, runs[r].files[s])
      BY <2>1 DEF RunPushes, PushNext
    <3>2. runs[r].files[s] \in 0..NumFiles
      BY DEF SSTypeOK, Run
    <3>. QED
      BY <1>2, <3>1, <3>2
  <2>2. CASE ~RunPushes(r)
    BY <1>1, <1>4, <2>2 DEF RunNext, RunLoads, RunSkips, esVars
  <2>. QED
    BY <2>1, <2>2
<1>5. ASSUME NEW g \in Graders, GraderNext(g)
      PROVE  SinksSuit'
  <2>1. CASE Connect(g)
    BY <2>1 DEF Connect, RegisterNewService, SinksSuit, Suits, ESTypeOK
  <2>2. CASE Receive(g)
    BY <2>2, TakeSuits DEF Receive
  <2>3. CASE PushStatus(g) \/ PushStatusByTimer(g)
    BY <1>1, <2>3 DEF PushStatus, PushStatusByTimer, SetServiceStatus, esVars
  <2>4. CASE Shutdown(g)
    BY <2>4, RemoveSuits DEF Shutdown, SetServiceStatus
  <2>5. CASE ~(\/ Connect(g) \/ Receive(g) \/ PushStatus(g) \/ PushStatusByTimer(g)
               \/ Shutdown(g))
    BY <1>1, <1>5, <2>5 DEF GraderNext, Report, ReportStored, ReportCleared,
      ReportFinished, ReportRejected, ReportTorn, ReportUnnotified, GradingError,
      ReportUnanswered, Reopen, Disconnect, Crash, CancelCall, StartGrader, esVars
  <2>. QED
    BY <2>1, <2>2, <2>3, <2>4, <2>5
<1>6. ASSUME CheckInactive \/ Restart
      PROVE  SinksSuit'
  BY <1>6, RemoveSuits
  DEF CheckInactive, CheckForInactiveGraders, Restart, ServiceRestart
<1>7. ASSUME TimerTick \/ TeacherNext \/ UNCHANGED vars
      PROVE  UNCHANGED sink
  BY <1>7 DEF TimerTick, TeacherNext, RejudgeOne, RejudgeAll, RejudgeFailed,
    RejudgeStep, RejudgeError, Review, vars, esVars
<1>. QED
  BY <1>1, <1>3, <1>4, <1>5, <1>6, <1>7 DEF Next

\* Within the system, too, no grader is sent what it would not agree to run,
\* however queue runs, reconnections and restarts of the service meet.
THEOREM SinksSuitGraders == Spec => []SinksSuit
<1>1. Init => SinksSuit
  BY DEF Init, ESInit, SinksSuit
<1>. QED
  BY <1>1, SinksStep, TypeCorrect, PTL DEF Spec
=============================================================================
