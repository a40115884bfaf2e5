------------------------- MODULE SubmissionsService -------------------------
(***************************************************************************)
(* The submissions service of the master: submissions_service.dart.  Its   *)
(* lasting state is one row of table submissions per submission, the rows  *)
(* of submission_files and of submission_results; its handlers keep local  *)
(* state from one await to the next.                                       *)
(*                                                                         *)
(* The service has one database connection, which runs queries in the      *)
(* order they are issued: a query takes effect when it is issued as far as *)
(* any later query can tell, awaited or not.  A handler is therefore one   *)
(* step per query, and a query whose result nobody awaits (assignGrader,   *)
(* unassignGrader) is part of the step that issues it.                     *)
(***************************************************************************)
EXTENDS ExternalServices

CONSTANTS
  SkipReview,     \* submissions to problems or courses without code review
  MaxRuns         \* bound: how many queue runs overlap

ASSUME ServiceAssumption ==
  /\ SkipReview \subseteq Subs
  /\ MaxRuns \in Nat \ {0}

VARIABLES
  grading,        \* column grading_status; "NONE" where there is no row
  status,         \* column status
  graderName,     \* column grader_name
  retryDue,       \* sent_to_grader is 15 s old or older
  stored,         \* number of rows of submission_files
  output,         \* the grade whose logs are in the row
  results,        \* the grade in the row of submission_results
  submitting,     \* where submitProblemSolution is, for each submission
  runs,           \* the runs of processSubmissionsQueue
  updates,        \* the handler of updateGraderOutput each grader called
  rejudging,      \* the handler of rejudge
  torn            \* history: submissions of which two reports were stored
                  \* at a time, or whose results an error or a restart kept
                  \* from being written, and of which no report has been
                  \* stored alone since

rowVars == <<grading, status, graderName, retryDue, stored, output, results>>
handlerVars == <<submitting, runs, updates, rejudging, torn>>

Nobody == "nobody"          \* grader_name is null
NoGrade == "none"           \* no logs, no row of results

\* WRONG_ANSWER stands for each status of a solution that does not pass: the
\* service treats the others (COMPILATION_ERROR, TIME_LIMIT...) alike.
Grades == {"OK", "WRONG_ANSWER", "CHECK_FAILED"}

\* What a reviewer sets; CODE_REVIEW_REJECTED stands for SUMMON_FOR_DEFENCE
\* and DISQUALIFIED too.
Verdicts == {"OK", "CODE_REVIEW_REJECTED"}

\* statusesNotToChange of updateGraderOutput.
StatusesNotToChange == {"OK", "CODE_REVIEW_REJECTED"}

Statuses == {"ANY", "PENDING_REVIEW"} \cup Grades \cup Verdicts

IsFirst(s, S) == s \in S /\ \A t \in S : s <= t

RunIds == 1..MaxRuns

\* A run: rows of its snapshot still to be pushed, those of them whose files
\* it has yet to read, and the number of files it found for each.
NoFiles == [s \in Subs |-> 0]
NoRun == [pending |-> {}, loading |-> {}, files |-> NoFiles]

NoUpdate == [pc |-> "none", sub |-> -1, grade |-> NoGrade, status |-> "ANY"]

NoRejudge == [pc |-> "none", todo |-> {}, cur |-> -1]

SSInit ==
  /\ grading = [s \in Subs |-> "NONE"]
  /\ status = [s \in Subs |-> "ANY"]
  /\ graderName = [s \in Subs |-> Nobody]
  /\ retryDue = [s \in Subs |-> FALSE]
  /\ stored = [s \in Subs |-> 0]
  /\ output = [s \in Subs |-> NoGrade]
  /\ results = [s \in Subs |-> NoGrade]
  /\ submitting = [s \in Subs |-> "new"]
  /\ runs = [r \in RunIds |-> NoRun]
  /\ updates = [g \in Graders |-> NoUpdate]
  /\ rejudging = NoRejudge
  /\ torn = {}

Update == [pc : {"none", "store", "delete", "insert"}, sub : Subs \cup {-1},
           grade : Grades \cup {NoGrade}, status : Statuses]

Rejudge == [pc : {"none", "delete", "queue", "read"}, todo : SUBSET Subs,
            cur : Subs \cup {-1}]

Run == [pending : SUBSET Subs, loading : SUBSET Subs,
        files : [Subs -> 0..NumFiles]]

SSTypeOK ==
  /\ grading \in [Subs -> {"NONE", "QUEUED", "ASSIGNED", "DONE"}]
  /\ status \in [Subs -> Statuses]
  /\ graderName \in [Subs -> Graders \cup {Nobody}]
  /\ retryDue \in [Subs -> BOOLEAN]
  /\ stored \in [Subs -> 0..NumFiles]
  /\ output \in [Subs -> Grades \cup {NoGrade}]
  /\ results \in [Subs -> Grades \cup {NoGrade}]
  /\ submitting \in [Subs -> {"new", "files", "push", "done"}]
  /\ runs \in [RunIds -> Run]
  /\ updates \in [Graders -> Update]
  /\ rejudging \in Rejudge
  /\ torn \subseteq Subs

-----------------------------------------------------------------------------
(* Rows *)

Exists(s) == grading[s] # "NONE"

\* Mutant: a row keeps the grader it was assigned to first.
AssignOnce(s, g) ==
  /\ grading' = [grading EXCEPT ![s] = "ASSIGNED"]
  /\ graderName' = [graderName EXCEPT ![s] = IF @ = Nobody THEN g ELSE @]
  /\ retryDue' = [retryDue EXCEPT ![s] = FALSE]
  /\ UNCHANGED <<status, stored, output, results>>

AssignGrader(s, g) ==
  /\ grading' = [grading EXCEPT ![s] = "ASSIGNED"]
  /\ graderName' = [graderName EXCEPT ![s] = g]
  /\ retryDue' = [retryDue EXCEPT ![s] = FALSE]
  /\ UNCHANGED <<status, stored, output, results>>

\* The rows that unassignGrader gives back to the queue.
AssignedTo(g) == {s \in Subs : grading[s] = "ASSIGNED" /\ graderName[s] = g}

\* Mutant: a grader that connects keeps its submissions.
UnassignNothing(g) == UNCHANGED rowVars

UnassignGrader(g) ==
  /\ grading' = [s \in Subs |->
                   IF s \in AssignedTo(g) THEN "QUEUED" ELSE grading[s]]
  /\ graderName' = [s \in Subs |->
                      IF s \in AssignedTo(g) THEN Nobody ELSE graderName[s]]
  /\ UNCHANGED <<status, retryDue, stored, output, results>>

\* A failed check is tried again when it was sent 15 s ago or earlier.
RetryTimestampReached(s) ==
  /\ grading[s] = "DONE" /\ status[s] = "CHECK_FAILED" /\ ~retryDue[s]
  /\ retryDue' = [retryDue EXCEPT ![s] = TRUE]
  /\ UNCHANGED <<grading, status, graderName, stored, output, results>>

\* The condition of getSubmissionsToGrade, over any state of the rows.
SubmissionsToGrade(grad) ==
  {s \in Subs : \/ grad[s] = "QUEUED"
                \/ grad[s] = "DONE" /\ status[s] = "CHECK_FAILED" /\ retryDue[s]}

\* Mutant: a new status also queues the submission.
StatusRequeues(s, verdict) ==
  /\ Exists(s)
  /\ status' = [status EXCEPT ![s] = verdict]
  /\ grading' = [grading EXCEPT ![s] = "QUEUED"]
  /\ UNCHANGED <<graderName, retryDue, stored, output, results>>

\* updateSubmissionStatus, which the review service and teachers call.
UpdateSubmissionStatus(s, verdict) ==
  /\ Exists(s)
  /\ status' = [status EXCEPT ![s] = verdict]
  /\ UNCHANGED <<grading, graderName, retryDue, stored, output, results>>

-----------------------------------------------------------------------------
(* The queue *)

IdleRuns == {r \in RunIds : runs[r].pending = {}}

\* processSubmissionsQueue selects the rows to grade, grad being the column
\* it reads, and goes on alone.  An empty selection ends the run at once; a
\* run is not started either while MaxRuns of them are under way.
StartRun(grad) ==
  LET snapshot == SubmissionsToGrade(grad) IN
  IF snapshot = {} \/ IdleRuns = {} THEN UNCHANGED runs
  ELSE \E r \in RunIds :
         /\ IsFirst(r, IdleRuns)
         /\ runs' = [runs EXCEPT ![r] =
              [pending |-> snapshot, loading |-> snapshot, files |-> NoFiles]]

\* getSubmissionsToGrade reads the files of the next row it selected.
LoadFiles(r, s) ==
  /\ IsFirst(s, runs[r].loading)
  /\ runs' = [runs EXCEPT ![r] =
       [pending |-> @.pending, loading |-> @.loading \ {s},
        files |-> [@.files EXCEPT ![s] = stored[s]]]]
  /\ UNCHANGED <<submitting, updates, rejudging, torn>>

\* The loop of the run is done with s; the local state of a finished run is
\* forgotten.
Advance(r, s) ==
  runs' = [runs EXCEPT ![r] =
             IF @.pending = {s} THEN NoRun
             ELSE [pending |-> @.pending \ {s}, loading |-> {},
                   files |-> [@.files EXCEPT ![s] = 0]]]

\* findService, pushSubmission and assignGrader run between two awaits.
PushSubmissionToGrader(s, files) ==
  LET found == FindService(Required[s]) IN
  \/ \E g \in found :
       /\ PushSubmission(g, [sub |-> s, files |-> files])
       /\ AssignGrader(s, g)
  \/ /\ found = {} \/ \E g \in found : ~CanPush(g)
     /\ UNCHANGED <<esVars, rowVars>>

\* The files are all read, and s is the next submission of the run.
NextToPush(r, s) == runs[r].loading = {} /\ IsFirst(s, runs[r].pending)

PushNext(r, s) ==
  /\ NextToPush(r, s)
  /\ PushSubmissionToGrader(s, runs[r].files[s])
  /\ Advance(r, s)
  /\ UNCHANGED <<submitting, updates, rejudging, torn>>

-----------------------------------------------------------------------------
(* submitProblemSolution, after its checks *)

InsertRow(s) ==
  /\ submitting[s] = "new"
  /\ \A t \in Subs : t < s => submitting[t] # "new"
  /\ submitting' = [submitting EXCEPT ![s] = "files"]
  /\ grading' = [grading EXCEPT ![s] = "QUEUED"]
  /\ UNCHANGED <<status, graderName, retryDue, stored, output, results>>
  /\ UNCHANGED <<runs, updates, rejudging, torn>>

InsertFile(s) ==
  /\ submitting[s] = "files" /\ stored[s] < NumFiles
  /\ stored' = [stored EXCEPT ![s] = @ + 1]
  /\ submitting' = [submitting EXCEPT ![s] =
                      IF stored[s] + 1 = NumFiles THEN "push" ELSE "files"]
  /\ UNCHANGED <<grading, status, graderName, retryDue, output, results>>
  /\ UNCHANGED <<runs, updates, rejudging, torn>>

PushSubmitted(s) ==
  /\ submitting[s] = "push"
  /\ PushSubmissionToGrader(s, NumFiles)
  /\ submitting' = [submitting EXCEPT ![s] = "done"]
  /\ UNCHANGED <<runs, updates, rejudging, torn>>

\* An exception ends the handler, or the content service does not answer and
\* nothing is pushed; what has been inserted stays.
SubmitFails(s) ==
  /\ submitting[s] \in {"files", "push"}
  /\ submitting' = [submitting EXCEPT ![s] = "done"]
  /\ UNCHANGED <<runs, updates, rejudging, torn>>

-----------------------------------------------------------------------------
(* updateGraderOutput.  A grader awaits each call, so that it has one       *)
(* handler; that of a grader which died is over before the grader has       *)
(* started again, opened a stream and graded.                               *)

\* Mutant: an OK keeps every old status.
ReviewKeepsAny(s, grade) ==
  IF grade # "OK" \/ s \in SkipReview THEN grade ELSE status[s]

\* The status the row will get: an OK awaits review, unless there is none or
\* the review has been done already.
ReviewedStatus(s, grade) ==
  IF grade # "OK" \/ s \in SkipReview THEN grade
  ELSE IF status[s] \in StatusesNotToChange THEN status[s]
  ELSE "PENDING_REVIEW"

\* updateGraderOutput has written the row of s and not its results yet.
BeingStored(s) ==
  \E g \in Graders : updates[g].pc \in {"delete", "insert"} /\ updates[g].sub = s

\* rejudge has deleted the results of s and not queued it yet.
BeingRejudged(s) == rejudging.pc = "queue" /\ rejudging.cur = s

\* Up to the select of the old status.
ReadOldStatus(g, s, grade) ==
  /\ updates[g].pc = "none"
  /\ updates' = [updates EXCEPT ![g] =
       [pc |-> "store", sub |-> s, grade |-> grade,
        status |-> ReviewedStatus(s, grade)]]
  /\ UNCHANGED <<submitting, runs, rejudging, torn>>

\* Mutant: a graded row is not written again.
StoreFirstOutput(g) ==
  LET u == updates[g] IN
  /\ u.pc = "store"
  /\ IF grading[u.sub] = "DONE" THEN UNCHANGED rowVars
     ELSE /\ grading' = [grading EXCEPT ![u.sub] = "DONE"]
          /\ status' = [status EXCEPT ![u.sub] = u.status]
          /\ graderName' = [graderName EXCEPT ![u.sub] = g]
          /\ output' = [output EXCEPT ![u.sub] = u.grade]
          /\ UNCHANGED <<retryDue, stored, results>>
  /\ torn' = {s \in Subs : IF s = u.sub THEN BeingStored(s) ELSE s \in torn}
  /\ updates' = [updates EXCEPT ![g].pc = "delete"]
  /\ UNCHANGED <<submitting, runs, rejudging>>

StoreOutput(g) ==
  LET u == updates[g] IN
  /\ u.pc = "store"
  /\ grading' = [grading EXCEPT ![u.sub] = "DONE"]
  /\ status' = [status EXCEPT ![u.sub] = u.status]
  /\ graderName' = [graderName EXCEPT ![u.sub] = g]
  /\ output' = [output EXCEPT ![u.sub] = u.grade]
  /\ torn' = {s \in Subs : IF s = u.sub THEN BeingStored(s) ELSE s \in torn}
  /\ updates' = [updates EXCEPT ![g].pc = "delete"]
  /\ UNCHANGED <<retryDue, stored, results, submitting, runs, rejudging>>

DeleteResults(g) ==
  /\ updates[g].pc = "delete"
  /\ results' = [results EXCEPT ![updates[g].sub] = NoGrade]
  /\ updates' = [updates EXCEPT ![g].pc = "insert"]
  /\ UNCHANGED <<grading, status, graderName, retryDue, stored, output>>
  /\ UNCHANGED <<submitting, runs, rejudging, torn>>

InsertResults(g) ==
  /\ updates[g].pc = "insert"
  /\ results' = [results EXCEPT ![updates[g].sub] = updates[g].grade]
  /\ updates' = [updates EXCEPT ![g] = NoUpdate]
  /\ UNCHANGED <<grading, status, graderName, retryDue, stored, output>>
  /\ UNCHANGED <<submitting, runs, rejudging, torn>>

\* Mutant: the error is logged, and the handler goes on.
StoreFailsOnly(g) ==
  /\ updates[g].pc = "store"
  /\ updates' = [updates EXCEPT ![g].pc = "delete"]
  /\ UNCHANGED <<submitting, runs, rejudging, torn>>

\* The update of the row throws: the handler returns as if it had succeeded.
StoreFails(g) ==
  /\ updates[g].pc = "store"
  /\ updates' = [updates EXCEPT ![g] = NoUpdate]
  /\ UNCHANGED <<submitting, runs, rejudging, torn>>

\* Deleting or inserting the results throws: the row stays as it was written,
\* and the exception ends the handler.
ResultsFail(g) ==
  /\ updates[g].pc \in {"delete", "insert"}
  /\ updates' = [updates EXCEPT ![g] = NoUpdate]
  /\ torn' = {s \in Subs : s \in torn \/ s = updates[g].sub}
  /\ UNCHANGED <<submitting, runs, rejudging>>

-----------------------------------------------------------------------------
(* rejudge, after its access checks *)

\* "only failed": the statuses the query of a bulk rejudge leaves out.
FailedSubmissions ==
  {s \in Subs : Exists(s) /\ status[s] \notin
     {"OK", "CODE_REVIEW_REJECTED", "PENDING_REVIEW"}}

StartRejudge(todo) ==
  /\ rejudging.pc = "none" /\ todo # {}
  /\ rejudging' = [pc |-> "delete", todo |-> todo, cur |-> -1]
  /\ UNCHANGED <<submitting, runs, updates, torn>>

\* A bulk rejudge selects rows in no particular order.
RejudgeDelete(s) ==
  /\ rejudging.pc = "delete" /\ s \in rejudging.todo
  /\ results' = [results EXCEPT ![s] = NoGrade]
  /\ rejudging' = [rejudging EXCEPT !.pc = "queue", !.cur = s]
  /\ UNCHANGED <<grading, status, graderName, retryDue, stored, output>>
  /\ UNCHANGED <<submitting, runs, updates, torn>>

\* Mutant: the submission is not queued.
RejudgeForgets ==
  /\ rejudging.pc = "queue"
  /\ rejudging' = [rejudging EXCEPT !.pc = "read"]
  /\ UNCHANGED <<grading, status, graderName, retryDue, stored, output, results>>
  /\ UNCHANGED <<submitting, runs, updates, torn>>

\* Mutant: the status is reset with it.
RejudgeResets ==
  /\ rejudging.pc = "queue"
  /\ grading' = [grading EXCEPT ![rejudging.cur] = "QUEUED"]
  /\ status' = [status EXCEPT ![rejudging.cur] = "ANY"]
  /\ rejudging' = [rejudging EXCEPT !.pc = "read"]
  /\ UNCHANGED <<graderName, retryDue, stored, output, results>>
  /\ UNCHANGED <<submitting, runs, updates, torn>>

RejudgeQueue ==
  /\ rejudging.pc = "queue"
  /\ grading' = [grading EXCEPT ![rejudging.cur] = "QUEUED"]
  /\ rejudging' = [rejudging EXCEPT !.pc = "read"]
  /\ UNCHANGED <<status, graderName, retryDue, stored, output, results>>
  /\ UNCHANGED <<submitting, runs, updates, torn>>

\* The row is read back for the notification.  A null grader_name does not
\* cast to String: the exception ends the handler, with the submissions it
\* has not come to.
RejudgeRead ==
  LET rest == rejudging.todo \ {rejudging.cur} IN
  /\ rejudging.pc = "read"
  /\ rejudging' = IF graderName[rejudging.cur] = Nobody \/ rest = {}
                  THEN NoRejudge
                  ELSE [pc |-> "delete", todo |-> rest, cur |-> -1]
  /\ UNCHANGED <<submitting, runs, updates, torn>>

\* A query throws: the exception ends the handler where it is.
RejudgeFails ==
  /\ rejudging.pc # "none"
  /\ rejudging' = NoRejudge
  /\ torn' = {s \in Subs : s \in torn \/ BeingRejudged(s)}
  /\ UNCHANGED <<submitting, runs, updates>>

-----------------------------------------------------------------------------

\* The service process is killed and started again: only the rows are left.
ServiceRestart ==
  /\ Remove(attached)
  /\ submitting' = [s \in Subs |->
       IF submitting[s] \in {"files", "push"} THEN "done" ELSE submitting[s]]
  /\ runs' = [r \in RunIds |-> NoRun]
  /\ updates' = [g \in Graders |-> NoUpdate]
  /\ rejudging' = NoRejudge
  /\ torn' = {s \in Subs : s \in torn \/ BeingStored(s) \/ BeingRejudged(s)}
=============================================================================
