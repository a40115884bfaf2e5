---------------------------- MODULE LifecycleProofs ----------------------------
(***************************************************************************)
(* Grading implements the safety part of Lifecycle.                        *)
(***************************************************************************)
EXTENDS GradingProofs

(***************************************************************************)
(* The invariant RowsInv.                                                  *)
(***************************************************************************)

\* A row once inserted stays.
LEMMA RowsStay ==
  ASSUME TypeOK, [Next]_vars, NEW s \in Subs, Exists(s)
  PROVE  Exists(s)'
<1>. SSTypeOK
  BY DEF TypeOK
<1>1. ASSUME NEW t \in Subs, SubmissionNext(t)
      PROVE  Exists(s)'
  BY <1>1 DEF SubmissionNext, Submit, InsertRow, SubmitFile, InsertFile, SubmitPush,
    PushSubmitted, PushSubmissionToGrader, AssignGrader, SubmitError, RetryDue,
    RetryTimestampReached, Exists, SSTypeOK, rowVars
<1>2. ASSUME NEW r \in RunIds, RunNext(r)
      PROVE  Exists(s)'
  BY <1>2 DEF RunNext, RunLoads, RunPushes, PushNext, RunSkips, PushSubmissionToGrader,
    AssignGrader, Exists, SSTypeOK, rowVars
<1>3. ASSUME NEW g \in Graders, GraderNext(g)
      PROVE  Exists(s)'
  <2>1. CASE Connect(g)
    BY <2>1 DEF Connect, UnassignGrader, Exists
  <2>2. CASE ReportStored(g)
    BY <2>2 DEF ReportStored, StoreOutput, Exists, SSTypeOK
  <2>3. CASE ~Connect(g) /\ ~ReportStored(g)
    BY <1>3, <2>3 DEF GraderNext, PushStatus, PushStatusByTimer, Receive, Report,
      ReportCleared, DeleteResults, ReportFinished, InsertResults, ReportRejected,
      ReportTorn, ReportUnnotified, GradingError, ReportUnanswered, Reopen, Disconnect, Crash,
      Shutdown, StartGrader, Exists, rowVars
  <2>. QED
    BY <2>1, <2>2, <2>3
<1>4. ASSUME TimerTick \/ CheckInactive \/ Restart
      PROVE  Exists(s)'
  BY <1>4 DEF TimerTick, CheckInactive, Restart, Exists, rowVars
<1>5. ASSUME TeacherNext
      PROVE  Exists(s)'
  BY <1>5 DEF TeacherNext, RejudgeOne, RejudgeAll, RejudgeFailed, RejudgeStep,
    RejudgeError, RejudgeFails, RejudgeDelete, RejudgeQueue, RejudgeRead, Review,
    UpdateSubmissionStatus, Exists, SSTypeOK, rowVars
<1>6. ASSUME UNCHANGED vars
      PROVE  Exists(s)'
  BY <1>6 DEF vars, rowVars, Exists
<1>. QED
  BY <1>1, <1>2, <1>3, <1>4, <1>5, <1>6 DEF Next

\* The conjuncts of RowsInv, one for each part that remembers submissions.
HandlersHaveRows == \A s \in Subs : submitting[s] = "new" <=> ~Exists(s)

RunsHaveRows == \A r \in RunIds : \A s \in runs[r].pending : Exists(s)

SinkHasRows(g) == \A i \in DOMAIN sink[g] : Exists(sink[g][i].sub)

LoopHasRow(g) == phase[g] \in {"working", "reporting"} => Exists(job[g].sub)

ReportHasRow(g) ==
  updates[g].pc # "none" =>
    /\ updates[g].sub \in Subs /\ Exists(updates[g].sub)
    /\ updates[g].status \in GradeStatuses

RejudgeHasRows ==
  /\ \A s \in rejudging.todo : Exists(s)
  /\ rejudging.pc \in {"queue", "read"} => rejudging.cur \in rejudging.todo

\* RowsInv by the part of the system that remembers submissions.
LEMMA RowsInvParts ==
  RowsInv <=> /\ TypeOK /\ HandlersHaveRows /\ RunsHaveRows /\ RejudgeHasRows
              /\ \A g \in Graders : SinkHasRows(g) /\ LoopHasRow(g) /\ ReportHasRow(g)
BY DEF RowsInv, HandlersHaveRows, RunsHaveRows, RejudgeHasRows, SinkHasRows,
  LoopHasRow, ReportHasRow

\* A run selects rows.
LEMMA StartRunRows ==
  ASSUME SSTypeOK, RunsHaveRows, NEW grad, StartRun(grad)
  PROVE  \A r \in RunIds : \A s \in runs'[r].pending :
           Exists(s) \/ grad[s] \in {"QUEUED", "DONE"}
<1>1. \A s \in SubmissionsToGrade(grad) : grad[s] \in {"QUEUED", "DONE"}
  BY DEF SubmissionsToGrade
<1>. QED
  BY <1>1 DEF StartRun, RunsHaveRows, SSTypeOK

\* A run that is done with a submission keeps the others.
LEMMA AdvanceRows ==
  ASSUME SSTypeOK, RunsHaveRows, NEW r \in RunIds, NEW t \in Subs, Advance(r, t)
  PROVE  \A q \in RunIds : \A s \in runs'[q].pending : Exists(s)
BY DEF Advance, NoRun, RunsHaveRows, SSTypeOK

\* What the handlers work on has a row after any step.
LEMMA HandlersStep ==
  ASSUME TypeOK, HandlersHaveRows, RunsHaveRows, RejudgeHasRows, Next,
         \A g \in Graders : ReportHasRow(g)
  PROVE  HandlersHaveRows'
<1>. SSTypeOK
  BY DEF TypeOK
<1>. SUFFICES ASSUME NEW s \in Subs PROVE (submitting[s] = "new")' <=> ~Exists(s)'
  BY DEF HandlersHaveRows
<1>1. Exists(s) => Exists(s)'
  BY RowsStay
<1>2. submitting[s] = "new" <=> ~Exists(s)
  BY DEF HandlersHaveRows
<1>3. ASSUME NEW t \in Subs, SubmissionNext(t)
      PROVE  (submitting[s] = "new")' <=> ~Exists(s)'
  <2>1. CASE SubmitPush(t)
    BY <1>1, <1>2, <2>1 DEF SubmitPush, PushSubmitted, PushSubmissionToGrader,
      AssignGrader, Exists, SSTypeOK, rowVars
  <2>2. CASE Submit(t) \/ SubmitFile(t) \/ SubmitError(t) \/ RetryDue(t)
    BY <1>1, <1>2, <2>2 DEF Submit, InsertRow, SubmitFile, InsertFile, SubmitError,
      SubmitFails, RetryDue, RetryTimestampReached, Exists, SSTypeOK, rowVars,
      handlerVars
  <2>. QED
    BY <1>3, <2>1, <2>2 DEF SubmissionNext
<1>4. ASSUME NEW r \in RunIds, RunNext(r)
      PROVE  (submitting[s] = "new")' <=> ~Exists(s)'
  <2>1. CASE RunPushes(r)
    <3>1. PICK t \in Subs : PushNext(r, t)
      BY <2>1 DEF RunPushes
    <3>2. Exists(t) /\ UNCHANGED submitting
      BY <3>1 DEF PushNext, NextToPush, IsFirst, RunsHaveRows
    <3>3. s # t => grading'[s] = grading[s]
      BY <3>1, PushOthers DEF PushNext
    <3>. QED
      BY <1>1, <1>2, <3>2, <3>3 DEF Exists
  <2>2. CASE RunLoads(r) \/ RunSkips(r)
    BY <1>2, <2>2 DEF RunLoads, LoadFiles, RunSkips, Exists, rowVars
  <2>. QED
    BY <1>4, <2>1, <2>2 DEF RunNext
<1>5. ASSUME NEW g \in Graders, GraderNext(g)
      PROVE  (submitting[s] = "new")' <=> ~Exists(s)'
  <2>1. CASE Connect(g)
    BY <1>2, <2>1 DEF Connect, UnassignGrader, AssignedTo, Exists
  <2>2. CASE ReportStored(g)
    <3>1. Exists(updates[g].sub)
      BY <2>2 DEF ReportStored, StoreOutput, ReportHasRow
    <3>. QED
      BY <1>1, <1>2, <2>2, <3>1 DEF ReportStored, StoreOutput, Exists, SSTypeOK
  <2>3. CASE ~Connect(g) /\ ~ReportStored(g)
    BY <1>2, <1>5, <2>3 DEF GraderNext, PushStatus, PushStatusByTimer, Receive,
      Report, ReadOldStatus, ReportCleared, DeleteResults, ReportFinished,
      InsertResults, ReportRejected, ReportTorn, ReportUnnotified, StoreFails, ResultsFail,
      GradingError, ReportUnanswered, Reopen, Disconnect, Crash, Shutdown,
      StartGrader, Exists, rowVars, handlerVars
  <2>. QED
    BY <2>1, <2>2, <2>3
<1>6. ASSUME TimerTick \/ CheckInactive
      PROVE  (submitting[s] = "new")' <=> ~Exists(s)'
  BY <1>2, <1>6 DEF TimerTick, CheckInactive, Exists, rowVars, handlerVars
<1>7. ASSUME Restart
      PROVE  (submitting[s] = "new")' <=> ~Exists(s)'
  BY <1>2, <1>7 DEF Restart, ServiceRestart, Exists, rowVars
<1>. QED
  <2>1. ASSUME TeacherNext
        PROVE  UNCHANGED submitting
    BY <2>1 DEF TeacherNext, RejudgeOne, RejudgeAll, RejudgeFailed, StartRejudge,
      RejudgeStep, RejudgeError, RejudgeFails, RejudgeDelete, RejudgeQueue,
      RejudgeRead, Review, handlerVars
  <2>2. ASSUME TeacherNext, ~Exists(s)
        PROVE  ~Exists(s)'
    <3>1. rejudging.pc = "queue" => rejudging.cur # s
      BY <2>2 DEF RejudgeHasRows
    <3>. QED
      BY <2>2, <3>1 DEF TeacherNext, RejudgeOne, RejudgeAll, RejudgeFailed,
        RejudgeStep, RejudgeError, RejudgeFails, RejudgeDelete, RejudgeQueue,
        RejudgeRead, Review, UpdateSubmissionStatus, Exists, SSTypeOK, rowVars
  <2>. QED
    BY <1>1, <1>2, <1>3, <1>4, <1>5, <1>6, <1>7, <2>1, <2>2 DEF Next

\* What the runs have to push has a row after any step.
LEMMA RunsStep ==
  ASSUME TypeOK, RunsHaveRows, Next
  PROVE  RunsHaveRows'
<1>. SSTypeOK
  BY DEF TypeOK
<1>. SUFFICES ASSUME NEW r \in RunIds, NEW s \in Subs, s \in runs'[r].pending
     PROVE  Exists(s)'
  <2>1. RunsHaveRows' <=> \A r \in RunIds : \A s \in runs'[r].pending : Exists(s)'
    BY DEF RunsHaveRows
  <2>2. \A r \in RunIds : runs'[r].pending \subseteq Subs
    BY TypeStep DEF TypeOK, SSTypeOK, Run
  <2>. QED
    BY <2>1, <2>2
<1>1. Exists(s) => Exists(s)'
  BY RowsStay
<1>2. CASE UNCHANGED runs
  BY <1>1, <1>2 DEF RunsHaveRows
<1>3. ASSUME NEW t \in Subs, SubmissionNext(t)
      PROVE  UNCHANGED runs
  BY <1>3 DEF SubmissionNext, Submit, InsertRow, SubmitFile, InsertFile, SubmitPush,
    PushSubmitted, SubmitError, SubmitFails, RetryDue, handlerVars
<1>4. ASSUME NEW q \in RunIds, RunNext(q)
      PROVE  Exists(s)'
  <2>1. CASE RunLoads(q)
    <3>1. runs'[r].pending = runs[r].pending
      BY <2>1 DEF RunLoads, LoadFiles, SSTypeOK
    <3>. QED
      BY <1>1, <3>1 DEF RunsHaveRows
  <2>2. CASE RunPushes(q)
    BY <1>1, <2>2, AdvanceRows DEF RunPushes, PushNext
  <2>3. CASE RunSkips(q)
    BY <1>1, <2>3, AdvanceRows DEF RunSkips
  <2>. QED
    BY <1>4, <2>1, <2>2, <2>3 DEF RunNext
<1>5. ASSUME TimerTick
      PROVE  Exists(s)'
  <2>1. Exists(s) \/ grading[s] \in {"QUEUED", "DONE"}
    BY <1>5, StartRunRows DEF TimerTick
  <2>. QED
    BY <1>1, <2>1 DEF Exists
<1>6. ASSUME NEW g \in Graders, GraderNext(g)
      PROVE  Exists(s)'
  <2>1. CASE Connect(g)
    <3>1. Exists(s) \/ grading'[s] \in {"QUEUED", "DONE"}
      BY <2>1, StartRunRows DEF Connect
    <3>. QED
      BY <1>1, <3>1 DEF Exists
  <2>2. CASE ~Connect(g)
    BY <1>2, <1>6, <2>2 DEF GraderNext, PushStatus, PushStatusByTimer, Receive,
      Report, ReadOldStatus, ReportStored, StoreOutput, ReportCleared,
      DeleteResults, ReportFinished, InsertResults, ReportRejected, ReportTorn, ReportUnnotified,
      StoreFails, ResultsFail, GradingError, ReportUnanswered, Reopen, Disconnect,
      Crash, Shutdown, StartGrader, handlerVars
  <2>. QED
    BY <2>1, <2>2
<1>7. ASSUME CheckInactive \/ TeacherNext
      PROVE  UNCHANGED runs
  BY <1>7 DEF CheckInactive, TeacherNext, RejudgeOne, RejudgeAll, RejudgeFailed,
    StartRejudge, RejudgeStep, RejudgeError, RejudgeFails, RejudgeDelete,
    RejudgeQueue, RejudgeRead, Review, handlerVars
<1>8. ASSUME Restart
      PROVE  Exists(s)'
  BY <1>8 DEF Restart, ServiceRestart, NoRun
<1>. QED
  BY <1>2, <1>3, <1>4, <1>5, <1>6, <1>7, <1>8 DEF Next

\* What rejudge works on has a row after any step.
LEMMA RejudgeRowsStep ==
  ASSUME TypeOK, RejudgeHasRows, Next
  PROVE  RejudgeHasRows'
<1>. SSTypeOK /\ rejudging \in Rejudge
  BY DEF TypeOK, SSTypeOK
<1>1. \A s \in Subs : Exists(s) => Exists(s)'
  BY RowsStay
<1>2. CASE UNCHANGED rejudging
  BY <1>1, <1>2 DEF RejudgeHasRows, Rejudge
<1>3. CASE rejudging' = NoRejudge
  BY <1>3 DEF RejudgeHasRows, NoRejudge
<1>4. ASSUME TeacherNext
      PROVE  RejudgeHasRows'
  <2>1. ASSUME NEW todo \in SUBSET {s \in Subs : Exists(s)}, StartRejudge(todo)
        PROVE  RejudgeHasRows'
    BY <1>1, <2>1 DEF StartRejudge, RejudgeHasRows
  <2>2. CASE \E s \in Subs : RejudgeOne(s)
    BY <2>1, <2>2 DEF RejudgeOne
  <2>3. CASE RejudgeAll
    BY <2>1, <2>3 DEF RejudgeAll
  <2>4. CASE RejudgeFailed
    <3>1. FailedSubmissions \in SUBSET {s \in Subs : Exists(s)}
      BY DEF FailedSubmissions
    <3>. QED
      BY <2>1, <2>4, <3>1 DEF RejudgeFailed
  <2>5. CASE RejudgeStep
    <3>1. ASSUME NEW s \in Subs, RejudgeDelete(s)
          PROVE  RejudgeHasRows'
      <4>1. /\ rejudging'.todo = rejudging.todo /\ rejudging'.cur = s
            /\ s \in rejudging.todo
        BY <3>1 DEF RejudgeDelete, Rejudge
      <4>. QED
        BY <1>1, <4>1 DEF RejudgeHasRows, Rejudge
    <3>2. ASSUME RejudgeQueue
          PROVE  RejudgeHasRows'
      <4>1. /\ rejudging'.todo = rejudging.todo /\ rejudging'.cur = rejudging.cur
            /\ rejudging.cur \in rejudging.todo
        BY <3>2 DEF RejudgeQueue, RejudgeHasRows, Rejudge
      <4>. QED
        BY <1>1, <4>1 DEF RejudgeHasRows, Rejudge
    <3>3. ASSUME RejudgeRead
          PROVE  RejudgeHasRows'
      BY <1>1, <1>3, <3>3 DEF RejudgeRead, RejudgeHasRows, Rejudge
    <3>. QED
      BY <2>5, <3>1, <3>2, <3>3 DEF RejudgeStep
  <2>6. CASE \E s \in Subs, verdict \in Verdicts : Review(s, verdict)
    BY <1>2, <2>6 DEF Review, handlerVars
  <2>7. CASE RejudgeError
    BY <1>3, <2>7 DEF RejudgeError, RejudgeFails
  <2>. QED
    BY <1>4, <2>2, <2>3, <2>4, <2>5, <2>6, <2>7 DEF TeacherNext
<1>5. ASSUME NEW s \in Subs, SubmissionNext(s)
      PROVE  UNCHANGED rejudging
  BY <1>5 DEF SubmissionNext, Submit, InsertRow, SubmitFile, InsertFile, SubmitPush,
    PushSubmitted, SubmitError, SubmitFails, RetryDue, handlerVars
<1>6. ASSUME NEW r \in RunIds, RunNext(r)
      PROVE  UNCHANGED rejudging
  BY <1>6 DEF RunNext, RunLoads, LoadFiles, RunPushes, PushNext, RunSkips
<1>7. ASSUME NEW g \in Graders, GraderNext(g)
      PROVE  UNCHANGED rejudging
  BY <1>7 DEF GraderNext, Connect, PushStatus, PushStatusByTimer, Receive, Report,
    ReadOldStatus, ReportStored, StoreOutput, ReportCleared, DeleteResults,
    ReportFinished, InsertResults, ReportRejected, ReportTorn, ReportUnnotified, StoreFails,
    ResultsFail, GradingError, ReportUnanswered, Reopen, Disconnect, Crash,
    Shutdown, StartGrader, handlerVars
<1>8. ASSUME TimerTick \/ CheckInactive
      PROVE  UNCHANGED rejudging
  BY <1>8 DEF TimerTick, CheckInactive, handlerVars
<1>9. ASSUME Restart
      PROVE  rejudging' = NoRejudge
  BY <1>9 DEF Restart, ServiceRestart
<1>. QED
  BY <1>2, <1>3, <1>4, <1>5, <1>6, <1>7, <1>8, <1>9 DEF Next

\* The sinks after a push that may have been refused.
LEMMA PushRows ==
  ASSUME ESTypeOK, SSTypeOK, \A g \in Graders : SinkHasRows(g),
         NEW s \in Subs, Exists(s), NEW files \in 0..NumFiles,
         PushSubmissionToGrader(s, files)
  PROVE  \A g \in Graders : \A i \in DOMAIN sink'[g] : Exists(sink'[g][i].sub)
<1>1. CASE UNCHANGED <<esVars, rowVars>>
  BY <1>1 DEF SinkHasRows, esVars
<1>2. CASE \E g \in FindService(Required[s]) :
             PushSubmission(g, [sub |-> s, files |-> files])
  <2>. DEFINE j == [sub |-> s, files |-> files]
  <2>1. PICK g \in attached : PushSubmission(g, j)
    BY <1>2 DEF FindService, Candidates
  <2>2. g \in Graders /\ sink[g] \in Seq(Job) /\ j \in Job
    BY DEF ESTypeOK, Job
  <2>3. sink'[g] = Append(sink[g], j) /\ \A h \in Graders : h # g => sink'[h] = sink[h]
    BY <2>1, <2>2 DEF PushSubmission, ESTypeOK
  <2>4. \A i \in DOMAIN sink'[g] :
          (i \in DOMAIN sink[g] /\ sink'[g][i] = sink[g][i]) \/ sink'[g][i] = j
    BY <2>2, <2>3
  <2>. QED
    BY <2>3, <2>4 DEF SinkHasRows
<1>. QED
  BY <1>1, <1>2 DEF PushSubmissionToGrader

\* What waits in the sinks has a row after any step.
LEMMA SinkStep ==
  ASSUME TypeOK, HandlersHaveRows, RunsHaveRows, Next,
         \A g \in Graders : SinkHasRows(g)
  PROVE  \A g \in Graders : SinkHasRows(g)'
<1>. ESTypeOK /\ SSTypeOK
  BY DEF TypeOK
<1>1. SUFFICES \A g \in Graders : \A i \in DOMAIN sink'[g] : Exists(sink'[g][i].sub)
  <2>1. sink' \in [Graders -> Seq(Job)]
    BY TypeStep DEF TypeOK, ESTypeOK
  <2>2. ASSUME NEW g \in Graders, NEW i \in DOMAIN sink'[g]
        PROVE  sink'[g][i].sub \in Subs
    <3>1. sink'[g] \in Seq(Job)
      BY <2>1
    <3>2. sink'[g][i] \in Job
      BY <3>1
    <3>. QED
      BY <3>2 DEF Job
  <2>. QED
    BY <2>2, RowsStay DEF SinkHasRows
<1>2. CASE UNCHANGED sink
  BY <1>2 DEF SinkHasRows
<1>3. ASSUME NEW gone \in SUBSET Graders, Remove(gone)
      PROVE  \A g \in Graders : \A i \in DOMAIN sink'[g] : Exists(sink'[g][i].sub)
  BY <1>3 DEF Remove, SinkHasRows
<1>4. ASSUME NEW s \in Subs, SubmissionNext(s)
      PROVE  \A g \in Graders : \A i \in DOMAIN sink'[g] : Exists(sink'[g][i].sub)
  <2>1. CASE SubmitPush(s)
    <3>1. PushSubmissionToGrader(s, NumFiles) /\ NumFiles \in 0..NumFiles /\ Exists(s)
      BY <2>1, GradersAssumption DEF SubmitPush, PushSubmitted, HandlersHaveRows
    <3>. QED
      BY <3>1, PushRows
  <2>2. CASE ~SubmitPush(s)
    BY <1>2, <1>4, <2>2 DEF SubmissionNext, Submit, SubmitFile, SubmitError, RetryDue, esVars
  <2>. QED
    BY <2>1, <2>2
<1>5. ASSUME NEW r \in RunIds, RunNext(r)
      PROVE  \A g \in Graders : \A i \in DOMAIN sink'[g] : Exists(sink'[g][i].sub)
  <2>1. CASE RunPushes(r)
    <3>1. PICK s \in Subs : PushNext(r, s)
      BY <2>1 DEF RunPushes
    <3>2. Exists(s) /\ runs[r].files[s] \in 0..NumFiles
      BY <3>1 DEF PushNext, NextToPush, IsFirst, RunsHaveRows, SSTypeOK, Run
    <3>. QED
      BY <3>1, <3>2, PushRows DEF PushNext
  <2>2. CASE ~RunPushes(r)
    BY <1>2, <1>5, <2>2 DEF RunNext, RunLoads, RunSkips, esVars
  <2>. QED
    BY <2>1, <2>2
<1>6. ASSUME NEW h \in Graders, GraderNext(h)
      PROVE  \A g \in Graders : \A i \in DOMAIN sink'[g] : Exists(sink'[g][i].sub)
  <2>1. CASE Connect(h)
    BY <2>1 DEF Connect, RegisterNewService, SinkHasRows, ESTypeOK
  <2>2. CASE Receive(h)
    <3>1. /\ sink[h] \in Seq(Job) /\ sink[h] # <<>> /\ sink'[h] = Tail(sink[h])
          /\ \A g \in Graders : g # h => sink'[g] = sink[g]
      BY <2>2 DEF Receive, TakeFromSink, ESTypeOK
    <3>2. \A i \in DOMAIN sink'[h] : i + 1 \in DOMAIN sink[h] /\ sink'[h][i] = sink[h][i + 1]
      BY <3>1
    <3>. QED
      BY <3>1, <3>2 DEF SinkHasRows
  <2>3. CASE PushStatus(h) \/ PushStatusByTimer(h)
    BY <1>2, <2>3 DEF PushStatus, PushStatusByTimer, SetServiceStatus, esVars
  <2>4. CASE Shutdown(h)
    BY <1>2, <1>3, <2>4 DEF Shutdown, SetServiceStatus
  <2>5. CASE ~(\/ Connect(h) \/ Receive(h) \/ PushStatus(h) \/ PushStatusByTimer(h)
               \/ Shutdown(h))
    BY <1>2, <1>6, <2>5 DEF GraderNext, Report, ReportStored, ReportCleared,
      ReportFinished, ReportRejected, ReportTorn, ReportUnnotified, GradingError, ReportUnanswered,
      Reopen, Disconnect, Crash, CancelCall, StartGrader, esVars
  <2>. QED
    BY <2>1, <2>2, <2>3, <2>4, <2>5
<1>7. ASSUME CheckInactive \/ Restart
      PROVE  \A g \in Graders : \A i \in DOMAIN sink'[g] : Exists(sink'[g][i].sub)
  BY <1>3, <1>7 DEF CheckInactive, CheckForInactiveGraders, Restart, ServiceRestart, ESTypeOK
<1>8. ASSUME TimerTick \/ TeacherNext
      PROVE  UNCHANGED sink
  BY <1>8 DEF TimerTick, TeacherNext, RejudgeOne, RejudgeAll, RejudgeFailed,
    RejudgeStep, RejudgeError, RejudgeFails, Review, esVars
<1>. QED
  BY <1>2, <1>4, <1>5, <1>6, <1>7, <1>8 DEF Next

\* What the graders work on has a row after any step.
LEMMA LoopRowsStep ==
  ASSUME TypeOK, Next,
         \A g \in Graders : SinkHasRows(g) /\ LoopHasRow(g) /\ ReportHasRow(g)
  PROVE  \A g \in Graders : LoopHasRow(g)' /\ ReportHasRow(g)'
<1>. ESTypeOK /\ SSTypeOK /\ GSTypeOK
  BY DEF TypeOK
<1>1. \A s \in Subs : Exists(s) => Exists(s)'
  BY RowsStay
<1>2. \A g \in Graders : phase[g] \in {"working", "reporting"} => job[g].sub \in Subs
  BY DEF GSTypeOK, Job
<1>3. CASE UNCHANGED <<updates, graderVars>>
  BY <1>1, <1>2, <1>3 DEF LoopHasRow, ReportHasRow, graderVars
<1>4. CASE Restart
  BY <1>1, <1>2, <1>4
  DEF Restart, ServiceRestart, NoUpdate, LoopHasRow, ReportHasRow, graderVars
<1>5. ASSUME NEW h \in Graders, GraderNext(h), NEW g \in Graders
      PROVE  LoopHasRow(g)' /\ ReportHasRow(g)'
  <2>1. CASE g # h
    BY <1>1, <1>2, <1>5, <2>1, OtherGraders DEF LoopHasRow, ReportHasRow
  <2>2. CASE g = h
    <3>1. LoopHasRow(g)'
      <4>1. CASE Receive(g) /\ StartJob(g, Head(sink[g]))
        <5>1. sink[g] \in Seq(Job) /\ sink[g] # <<>>
          BY <4>1 DEF Receive, ESTypeOK
        <5>2. Head(sink[g]) = sink[g][1] /\ 1 \in DOMAIN sink[g]
          BY <5>1
        <5>3. Exists(Head(sink[g]).sub) /\ Head(sink[g]).sub \in Subs
          <6>1. Head(sink[g]) \in Job
            BY <5>1
          <6>2. Head(sink[g]).sub \in Subs
            BY <6>1 DEF Job
          <6>. QED
            BY <5>2, <6>2 DEF SinkHasRows
        <5>. QED
          BY <1>1, <4>1, <5>3 DEF StartJob, LoopHasRow, GSTypeOK
      <4>2. CASE Receive(g) /\ SkipJob(g, Head(sink[g]))
        BY <1>1, <1>2, <4>2 DEF SkipJob, LoopHasRow, graderVars
      <4>3. CASE phase'[g] \notin {"working", "reporting"}
        BY <4>3 DEF LoopHasRow
      <4>4. CASE /\ phase[g] \in {"working", "reporting"}
                 /\ job'[g] = job[g]
        BY <1>1, <1>2, <4>4 DEF LoopHasRow
      <4>5. \/ Receive(g)
            \/ phase'[g] \notin {"working", "reporting"}
            \/ phase[g] \in {"working", "reporting"} /\ job'[g] = job[g]
        BY <1>5, <2>2 DEF GraderNext, Connect, OpenStream, PushStatus, StatusPushed,
          PushStatusByTimer, Report, StartReport, ReportStored, ReportCleared,
          ReportFinished, Answer, ReportReturned, ReportRejected, ReportTorn, ReportUnnotified,
          GradingError, ReportUnanswered, JobFailed, Reopen, StreamBroken,
          Disconnect, Crash, Shutdown, ProcessEnds, StartGrader, ProcessStarts,
          graderVars, GSTypeOK
      <4>. QED
        BY <4>1, <4>2, <4>3, <4>4, <4>5 DEF Receive
    <3>2. ReportHasRow(g)'
      <4>1. CASE Report(g)
        <5>1. PICK grade \in Grades : ReadOldStatus(g, job[g].sub, grade)
          BY <4>1 DEF Report, PossibleGrades, Grades
        <5>2. job[g].sub \in Subs /\ Exists(job[g].sub)
          BY <1>2, <4>1 DEF Report, StartReport, LoopHasRow
        <5>3. ReviewedStatus(job[g].sub, grade) \in GradeStatuses
          BY DEF ReviewedStatus, GradeStatuses
        <5>4. updates'[g] = [pc |-> "store", sub |-> job[g].sub, grade |-> grade,
                             status |-> ReviewedStatus(job[g].sub, grade)]
          BY <5>1 DEF ReadOldStatus, SSTypeOK
        <5>. QED
          BY <1>1, <5>2, <5>3, <5>4 DEF ReportHasRow
      <4>2. CASE ReportStored(g) \/ ReportCleared(g)
        <5>1. /\ updates'[g].sub = updates[g].sub
              /\ updates'[g].status = updates[g].status
              /\ updates[g].pc # "none"
          BY <4>2 DEF ReportStored, StoreOutput, ReportCleared, DeleteResults,
            SSTypeOK, Update
        <5>. QED
          BY <1>1, <5>1 DEF ReportHasRow
      <4>3. CASE ReportFinished(g) \/ ReportRejected(g) \/ ReportTorn(g) \/ ReportUnnotified(g)
        BY <4>3 DEF ReportFinished, InsertResults, ReportRejected, ReportTorn, ReportUnnotified,
          StoreFails, ResultsFail, NoUpdate, ReportHasRow, SSTypeOK
      <4>4. CASE UNCHANGED updates
        BY <1>1, <4>4 DEF ReportHasRow
      <4>5. \/ Report(g) \/ ReportStored(g) \/ ReportCleared(g)
            \/ ReportFinished(g) \/ ReportRejected(g) \/ ReportTorn(g) \/ ReportUnnotified(g)
            \/ UNCHANGED updates
        BY <1>5, <2>2 DEF GraderNext, Connect, PushStatus, PushStatusByTimer, Receive,
          GradingError, ReportUnanswered, Reopen, Disconnect, Crash, Shutdown,
          StartGrader, handlerVars
      <4>. QED
        BY <4>1, <4>2, <4>3, <4>4, <4>5
    <3>. QED
      BY <3>1, <3>2
  <2>. QED
    BY <2>1, <2>2
<1>. QED
  BY <1>3, <1>4, <1>5, OtherSteps DEF Next

\* RowsInv is inductive.
LEMMA RowsStep == RowsInv /\ [Next]_vars => RowsInv'
<1>. SUFFICES ASSUME RowsInv, [Next]_vars PROVE RowsInv'
  OBVIOUS
<1>1. /\ TypeOK /\ HandlersHaveRows /\ RunsHaveRows /\ RejudgeHasRows
      /\ \A g \in Graders : SinkHasRows(g) /\ LoopHasRow(g) /\ ReportHasRow(g)
  BY RowsInvParts
<1>2. CASE Next
  <2>1. /\ TypeOK' /\ HandlersHaveRows' /\ RunsHaveRows' /\ RejudgeHasRows'
        /\ \A g \in Graders : SinkHasRows(g)' /\ LoopHasRow(g)' /\ ReportHasRow(g)'
    BY <1>1, <1>2, TypeStep, HandlersStep, RunsStep, RejudgeRowsStep, SinkStep,
      LoopRowsStep
  <2>. QED
    BY <2>1 DEF RowsInv, HandlersHaveRows, RunsHaveRows, RejudgeHasRows, SinkHasRows,
      LoopHasRow, ReportHasRow
<1>3. CASE UNCHANGED vars
  <2>1. TypeOK'
    BY <1>1, TypeStep
  <2>. QED
    BY <1>3, <2>1 DEF vars, esVars, rowVars, handlerVars, graderVars, RowsInv, Exists
<1>. QED
  BY <1>2, <1>3

\* RowsInv holds initially.
LEMMA RowsInit == Init => RowsInv
<1>. SUFFICES ASSUME Init PROVE RowsInv
  OBVIOUS
<1>. QED
  BY TypeInit DEF Init, ESInit, SSInit, GSInit, RowsInv, Exists, NoRun, NoUpdate, NoRejudge

(***************************************************************************)
(* The refinement.                                                         *)
(***************************************************************************)

\* Initial states map to the initial state of Lifecycle.
LEMMA StageInit == Init => L!Init
BY DEF Init, SSInit, L!Init, Stage, StageOf

\* A step that queues or assigns s, leaving the other rows and every status
\* alone, is Regrade or changes nothing.
LEMMA WaitsStep ==
  ASSUME SSTypeOK, NEW s \in Subs, Exists(s), UNCHANGED status,
         grading'[s] \in {"QUEUED", "ASSIGNED"},
         \A t \in Subs : t # s => grading'[t] = grading[t]
  PROVE  [L!Next]_L!lifecycleVars
<1>1. grading[s] \in {"QUEUED", "ASSIGNED", "DONE"}
  BY DEF SSTypeOK, Exists
<1>2. Stage' = [Stage EXCEPT ![s] = "waiting"]
  <2>1. StageOf(grading'[s]) = "waiting"
    BY DEF StageOf
  <2>. QED
    BY <2>1 DEF Stage
<1>3. CASE grading[s] = "DONE"
  <2>1. Stage[s] = "graded"
    BY <1>3 DEF Stage, StageOf
  <2>. QED
    BY <1>2, <2>1 DEF L!Next, L!Regrade
<1>4. CASE grading[s] # "DONE"
  <2>1. Stage' = Stage
    BY <1>1, <1>2, <1>4 DEF Stage, StageOf
  <2>. QED
    BY <2>1 DEF L!lifecycleVars
<1>. QED
  BY <1>3, <1>4

\* A push is a step of Lifecycle or none.
LEMMA PushWaits ==
  ASSUME SSTypeOK, NEW s \in Subs, Exists(s), NEW files,
         PushSubmissionToGrader(s, files)
  PROVE  [L!Next]_L!lifecycleVars
<1>1. CASE UNCHANGED <<esVars, rowVars>>
  BY <1>1 DEF rowVars, L!lifecycleVars, Stage, StageOf
<1>2. CASE \E g \in FindService(Required[s]) : AssignGrader(s, g)
  BY <1>2, WaitsStep DEF AssignGrader, SSTypeOK
<1>. QED
  BY <1>1, <1>2 DEF PushSubmissionToGrader

\* Every step of the system maps to a step of Lifecycle or to none.
LEMMA LifecycleStep == RowsInv /\ [Next]_vars => [L!Next]_L!lifecycleVars
<1>. SUFFICES ASSUME RowsInv, [Next]_vars PROVE [L!Next]_L!lifecycleVars
  OBVIOUS
<1>. /\ TypeOK /\ HandlersHaveRows /\ RunsHaveRows /\ RejudgeHasRows /\ SSTypeOK
     /\ \A g \in Graders : ReportHasRow(g)
  BY RowsInvParts DEF TypeOK
<1>1. CASE UNCHANGED <<grading, status>>
  BY <1>1 DEF L!lifecycleVars, Stage, StageOf
<1>2. ASSUME NEW s \in Subs, SubmissionNext(s)
      PROVE  [L!Next]_L!lifecycleVars
  <2>1. CASE Submit(s)
    <3>1. grading[s] = "NONE"
      BY <2>1 DEF Submit, InsertRow, HandlersHaveRows, Exists
    <3>2. Stage[s] = "absent" /\ Stage' = [Stage EXCEPT ![s] = "waiting"]
      BY <2>1, <3>1 DEF Submit, InsertRow, Stage, StageOf, SSTypeOK
    <3>. QED
      BY <2>1, <3>2 DEF Submit, InsertRow, L!Next, L!Accept
  <2>2. CASE SubmitPush(s)
    BY <2>2, PushWaits DEF SubmitPush, PushSubmitted, HandlersHaveRows
  <2>3. CASE SubmitFile(s) \/ SubmitError(s) \/ RetryDue(s)
    BY <1>1, <2>3 DEF SubmitFile, InsertFile, SubmitError, RetryDue,
      RetryTimestampReached, rowVars
  <2>. QED
    BY <1>2, <2>1, <2>2, <2>3 DEF SubmissionNext
<1>3. ASSUME NEW r \in RunIds, RunNext(r)
      PROVE  [L!Next]_L!lifecycleVars
  <2>1. CASE RunPushes(r)
    BY <2>1, PushWaits DEF RunPushes, PushNext, NextToPush, IsFirst, RunsHaveRows
  <2>2. CASE RunLoads(r) \/ RunSkips(r)
    BY <1>1, <2>2 DEF RunLoads, RunSkips, rowVars
  <2>. QED
    BY <1>3, <2>1, <2>2 DEF RunNext
<1>4. ASSUME NEW g \in Graders, GraderNext(g)
      PROVE  [L!Next]_L!lifecycleVars
  <2>1. CASE Connect(g)
    <3>1. UNCHANGED status /\ Stage' = Stage
      BY <2>1 DEF Connect, UnassignGrader, AssignedTo, Stage, StageOf, SSTypeOK
    <3>. QED
      BY <3>1 DEF L!lifecycleVars
  <2>2. CASE ReportStored(g)
    <3>. DEFINE s == updates[g].sub
    <3>1. s \in Subs /\ grading[s] # "NONE" /\ updates[g].status \in GradeStatuses
      BY <2>2 DEF ReportStored, StoreOutput, ReportHasRow, Exists
    <3>2. /\ grading' = [grading EXCEPT ![s] = "DONE"]
          /\ status' = [status EXCEPT ![s] = updates[g].status]
      BY <2>2 DEF ReportStored, StoreOutput
    <3>. HIDE DEF s
    <3>3. Stage[s] # "absent" /\ Stage' = [Stage EXCEPT ![s] = "graded"]
      BY <3>1, <3>2 DEF Stage, StageOf, SSTypeOK
    <3>. QED
      BY <3>1, <3>2, <3>3 DEF L!Next, L!Grade
  <2>3. CASE ~Connect(g) /\ ~ReportStored(g)
    BY <1>1, <1>4, <2>3 DEF GraderNext, PushStatus, PushStatusByTimer, Receive,
      Report, ReportCleared, DeleteResults, ReportFinished, InsertResults,
      ReportRejected, ReportTorn, ReportUnnotified, GradingError, ReportUnanswered, Reopen,
      Disconnect, Crash, Shutdown, StartGrader, rowVars
  <2>. QED
    BY <2>1, <2>2, <2>3
<1>5. ASSUME TeacherNext
      PROVE  [L!Next]_L!lifecycleVars
  <2>1. CASE RejudgeStep /\ RejudgeQueue
    <3>. DEFINE s == rejudging.cur
    <3>1. s \in Subs /\ Exists(s)
      BY <2>1 DEF RejudgeQueue, RejudgeHasRows, SSTypeOK, Rejudge
    <3>2. grading' = [grading EXCEPT ![s] = "QUEUED"] /\ UNCHANGED status
      BY <2>1 DEF RejudgeQueue
    <3>. HIDE DEF s
    <3>. QED
      BY <3>1, <3>2, WaitsStep DEF SSTypeOK
  <2>2. CASE \E s \in Subs, verdict \in Verdicts : Review(s, verdict)
    <3>1. PICK s \in Subs, verdict \in Verdicts : Review(s, verdict)
      BY <2>2
    <3>2. Stage[s] # "absent" /\ Stage' = Stage
      BY <3>1 DEF Review, UpdateSubmissionStatus, Exists, Stage, StageOf, SSTypeOK
    <3>. QED
      BY <3>1, <3>2 DEF Review, UpdateSubmissionStatus, L!Next, L!Judge
  <2>3. \/ UNCHANGED <<grading, status>>
        \/ RejudgeStep /\ RejudgeQueue
        \/ \E s \in Subs, verdict \in Verdicts : Review(s, verdict)
    BY <1>5 DEF TeacherNext, RejudgeOne, RejudgeAll, RejudgeFailed, RejudgeStep,
      RejudgeError, RejudgeFails, RejudgeDelete, rowVars
  <2>. QED
    BY <1>1, <2>1, <2>2, <2>3
<1>6. ASSUME TimerTick \/ CheckInactive \/ Restart \/ UNCHANGED vars
      PROVE  UNCHANGED <<grading, status>>
  BY <1>6 DEF TimerTick, CheckInactive, Restart, vars, rowVars
<1>. QED
  BY <1>1, <1>2, <1>3, <1>4, <1>5, <1>6 DEF Next

\* Whatever the service remembers about a submission that is on its way, in a
\* run, in a report or in a rejudge, the submission has its row.
THEOREM WhatIsHandledHasARow == Spec => []RowsInv
BY RowsInit, RowsStep, PTL DEF Spec

\* Grading implements the safety part of Lifecycle: each of its steps is a step
\* of the life of one submission as its readers see it, or none.
THEOREM GradingImplementsLifecycle == Spec => IsLifecycle
<1>1. Init => L!Init
  BY StageInit
<1>2. RowsInv /\ [Next]_vars => [L!Next]_L!lifecycleVars
  BY LifecycleStep
<1>. QED
  BY <1>1, <1>2, WhatIsHandledHasARow, PTL DEF Spec, IsLifecycle, L!Safety
=============================================================================
