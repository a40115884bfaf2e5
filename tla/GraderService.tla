---------------------------- MODULE GraderService ----------------------------
(***************************************************************************)
(* The grader process: the loop of grader_service.dart that takes          *)
(* submissions from the stream of the submissions service one at a time,   *)
(* grades each and reports it.  The operators below change the state of    *)
(* the grader only; module Grading joins each with what the submissions    *)
(* service does in the same step.                                          *)
(***************************************************************************)
EXTENDS ExternalServices

VARIABLES
  phase,        \* where the loop of each grader is
  job,          \* the submission the loop of each grader is busy with
  inProgress,   \* submissionsInProgress of the current stream
  lost          \* history: submissions taken from the current stream whose
                \* grading ended in an error and was not reported

graderVars == <<phase, job, inProgress, lost>>

NoJob == [sub |-> -1, files |-> 0]

\* "down"      the process does not run
\* "open"      serveSubmissionsStream is about to open the stream
\* "status"    the loop awaits pushGraderStatus
\* "idle"      the loop awaits the next submission of the stream
\* "working"   the loop awaits processSubmission
\* "reporting" the loop awaits updateGraderOutput
Phases == {"down", "open", "status", "idle", "working", "reporting"}

GSInit ==
  /\ phase = [g \in Graders |-> "open"]
  /\ job = [g \in Graders |-> NoJob]
  /\ inProgress = [g \in Graders |-> {}]
  /\ lost = [g \in Graders |-> {}]

GSTypeOK ==
  /\ phase \in [Graders -> Phases]
  /\ job \in [Graders -> Job \cup {NoJob}]
  /\ inProgress \in [Graders -> SUBSET Subs]
  /\ lost \in [Graders -> SUBSET Subs]
  /\ \A g \in Graders : phase[g] \in {"working", "reporting"} => job[g] \in Job

\* What pushGraderStatus may report as capacity, _idleWorkersCount: a grader
\* with one worker never counts it as taken, one with more counts the job of
\* its loop once the worker has started.  The count is never 0, so that the
\* status that goes with it is always IDLE.
IdleWorkersCount(g) ==
  {Workers[g]} \cup
  (IF phase[g] = "working" /\ Workers[g] > 1 THEN {Workers[g] - 1} ELSE {})

-----------------------------------------------------------------------------
(* Steps of the loop *)

\* serveSubmissionsStream opens a stream; its set of submissions is new.
OpenStream(g) ==
  /\ phase[g] = "open"
  /\ phase' = [phase EXCEPT ![g] = "status"]
  /\ inProgress' = [inProgress EXCEPT ![g] = {}]
  /\ lost' = [lost EXCEPT ![g] = {}]
  /\ UNCHANGED job

\* pushGraderStatus returns to the loop.
StatusPushed(g) ==
  /\ phase[g] = "status"
  /\ phase' = [phase EXCEPT ![g] = "idle"]
  /\ UNCHANGED <<job, inProgress, lost>>

\* The loop gets j from the stream and starts processSubmission.
StartJob(g, j) ==
  /\ phase[g] = "idle"
  /\ j.sub \notin inProgress[g]
  /\ phase' = [phase EXCEPT ![g] = "working"]
  /\ job' = [job EXCEPT ![g] = j]
  /\ inProgress' = [inProgress EXCEPT ![g] = @ \cup {j.sub}]
  /\ UNCHANGED lost

\* The loop gets j and passes over it.
SkipJob(g, j) ==
  /\ phase[g] = "idle"
  /\ j.sub \in inProgress[g]
  /\ UNCHANGED graderVars

\* processSubmission has a result and updateGraderOutput is called with it.
StartReport(g) ==
  /\ phase[g] = "working"
  /\ phase' = [phase EXCEPT ![g] = "reporting"]
  /\ UNCHANGED <<job, inProgress, lost>>

\* updateGraderOutput returned.
ReportReturned(g) ==
  /\ phase[g] = "reporting"
  /\ phase' = [phase EXCEPT ![g] = "status"]
  /\ job' = [job EXCEPT ![g] = NoJob]
  /\ inProgress' = [inProgress EXCEPT ![g] = @ \ {job[g].sub}]

\* processSubmission or updateGraderOutput threw: the submission stays in
\* submissionsInProgress.
JobFailed(g) ==
  /\ phase[g] \in {"working", "reporting"}
  /\ phase' = [phase EXCEPT ![g] = "status"]
  /\ job' = [job EXCEPT ![g] = NoJob]
  /\ lost' = [lost EXCEPT ![g] = @ \cup {job[g].sub}]
  /\ UNCHANGED inProgress

\* The await for on a broken stream throws: the supervising loop starts
\* serveSubmissionsStream anew.
StreamBroken(g) ==
  /\ phase[g] = "idle"
  /\ phase' = [phase EXCEPT ![g] = "open"]
  /\ UNCHANGED <<job, inProgress, lost>>

\* The process ends, whatever it was doing.
ProcessEnds(g) ==
  /\ phase[g] # "down"
  /\ phase' = [phase EXCEPT ![g] = "down"]
  /\ job' = [job EXCEPT ![g] = NoJob]
  /\ inProgress' = [inProgress EXCEPT ![g] = {}]
  /\ lost' = [lost EXCEPT ![g] = {}]

\* The process is started again.
ProcessStarts(g) ==
  /\ phase[g] = "down"
  /\ phase' = [phase EXCEPT ![g] = "open"]
  /\ UNCHANGED <<job, inProgress, lost>>
=============================================================================
