------------------------------ MODULE CourseWork ------------------------------
(***************************************************************************)
(* The content service with two that depend on what it says has changed,   *)
(* the deadlines service and the problem loader of a grader, and, beside   *)
(* them, the review service.                                               *)
(***************************************************************************)
EXTENDS Deadlines, ProblemLoader, CodeReview

CONSTANT Scenarios   \* how often each kind of event may happen, and what was submitted before

ASSUME CourseWorkAssumption ==
  /\ Clients = Handlers \cup {Grader} /\ Grader \notin Handlers
  /\ Checks \cap Submissions = {}
  /\ \A c \in Scenarios :
       /\ c.submitted \subseteq Submissions
       /\ c.content \in [ContentEvents -> Nat] /\ c.deadlines \in [DeadlineEvents -> Nat]
       /\ c.loader \in [LoaderEvents -> Nat] /\ c.review \in [ReviewEvents -> Nat]

own == <<contentFiles, caches, serving, contentBudget>>
workVars == <<contentVars, deadlineVars, loaderVars, reviewVars>>

WorkInit ==
  /\ \E c \in Scenarios :
       /\ submitted = c.submitted
       /\ contentBudget = c.content /\ deadlineBudget = c.deadlines
       /\ loaderBudget = c.loader /\ reviewBudget = c.review
  /\ ContentInit /\ DeadlinesInit /\ LoaderInit /\ ReviewInit

FilesChange ==
  /\ Expire \/ \E f \in Files : Edit(f)
  /\ UNCHANGED <<deadlineVars, loaderVars, reviewVars>>

ContentStep == Serve /\ UNCHANGED <<deadlineVars, loaderVars, reviewVars>>
DeadlinesStep == DeadlinesNext /\ UNCHANGED <<own, loaderVars, reviewVars>>
LoaderStep == LoaderNext /\ UNCHANGED <<own, deadlineVars, reviewVars>>
ReviewStep == ReviewNext /\ UNCHANGED <<contentVars, deadlineVars, loaderVars>>

WorkNext == FilesChange \/ ContentStep \/ DeadlinesStep \/ LoaderStep \/ ReviewStep

\* The content service answers, and the timer of checks goes on, as do checks.
FairWork ==
  /\ WorkInit /\ [][WorkNext]_workVars
  /\ WF_workVars(ContentStep)
  /\ WF_workVars((\E k \in Checks : CheckNext(k)) /\ UNCHANGED <<own, loaderVars, reviewVars>>)

-----------------------------------------------------------------------------
(* Properties *)

WorkTypeOK == ContentTypeOK /\ DeadlinesTypeOK /\ LoaderTypeOK /\ ReviewTypeOK

\* What is sent of the course, and what a grader gets of a problem and can
\* know the time of: not that of public files.
CourseParts == {"course", "problem", "options", "template"}
ProblemParts == {"problem", "options", "tests"}

\* A copy of the course, or of the problem in the directory of a grader, is
\* whole, and the next look at the time of modification finds every change it
\* lacks: also if a file was edited in the middle of a load, a load failed or
\* was left half way, or answers came in another order.  Excepted are copies
\* that came with a doubtful time; and, in the directory, changes of public
\* files, which no look at the problem finds.
MissedIsNewer ==
  /\ copy.stamp # 0 /\ copy.doubtful = "no" => WillBeSeen(CourseParts, copy.data, copy.stamp)
  /\ loaded # NoLoader /\ loaded.response.doubtful = "no" =>
       /\ WillBeSeen(ProblemParts, loaded.response.data, loaded.response.modified)
       /\ directory.stamp \in {loaded.response.modified, Null}
       /\ \A part \in {"private", "plain"} :
            directory[part] < disk["problem"] => disk["problem"] > directory.stamp
       /\ directory.tests < disk["tests"] => disk["tests"] > directory.stamp
=============================================================================
