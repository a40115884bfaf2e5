------------------------------ MODULE Deadlines ------------------------------
(***************************************************************************)
(* The deadlines service: deadlines_service.dart, its copy of the course   *)
(* (course_data_consumer.dart), and the triggers of the database.  It has  *)
(* a row of deadlines for each submission, computed from the course and    *)
(* the schedule of lessons, and computes all anew when either has changed. *)
(*                                                                         *)
(* A step is the code from one await to the next.  The service has one     *)
(* connection to the database, on which queries wait for a transaction     *)
(* that was begun.  There is one course.  The timer of checks waits for    *)
(* none of them but the first: they overlap.  Nor does a check wait for    *)
(* the transaction it ends with.                                           *)
(*                                                                         *)
(* The statements name a column courses_id of submission_deadlines, which  *)
(* the schema in the repository does not have: without it all that write   *)
(* deadlines fail.                                                         *)
(***************************************************************************)
EXTENDS CourseContent

CONSTANTS
  Checks,      \* checks that may be under way at a time
  Submissions  \* the call of each, as each check, is a client of the content service

\* "submit"    a solution is submitted    "schedule"  lesson_schedules is changed
\* "fail"      a query fails, or a service is away, or the process dies
\* "checks"    how many checks there may be at a time, 0 if there is no service
\* "column"    1 if submission_deadlines has the column courses_id
DeadlineEvents == {"submit", "schedule", "fail", "checks", "column"}

Handlers == Checks \cup Submissions

VARIABLES
  dirty,          \* need_update_deadlines
  schedule,       \* the version of lesson_schedules
  timer,          \* whether the timer of checks runs
  lastModified,   \* _courseDataLastModified, 0 if the course is not in it
  copy,           \* the item of loadedCourses
  submitted,      \* rows of submissions
  deadlines,      \* rows of submission_deadlines
  handlers,       \* calls of checkForDirtyCourses and of insertNewSubmission
  excused,        \* history: submissions whose rows may be wrong
  deadlineBudget  \* bound: how often each kind of event may still happen

tables == <<dirty, schedule, submitted, deadlines>>
deadlineVars == <<tables, timer, lastModified, copy, handlers, excused, deadlineBudget>>

NoCopy == [data |-> Unread, stamp |-> 0, doubtful |-> "no"]
NoRow == [data |-> Unread, doubtful |-> "no", schedule |-> 0]

\* A handler: its place, the copy getCourseData began with and what it goes on
\* to, the course it computes with, submissions left to do, rows computed.
\* History: the submissions whose rows it may get wrong.
NoHandler == [pc |-> "idle", need |-> "no", cached |-> NoCopy, then |-> "select",
              course |-> NoCopy, todo |-> {}, rows |-> [s \in {} |-> NoRow], missed |-> {}]

\* Some solutions may have been submitted while there was no service.
DeadlinesInit ==
  /\ dirty = "no" /\ schedule = 1 /\ timer = "no" /\ lastModified = 0 /\ copy = NoCopy
  /\ submitted \subseteq Submissions /\ deadlines = [s \in Submissions |-> NoRow]
  /\ handlers = [h \in Handlers |-> NoHandler] /\ excused = {}

DeadlinesPay(e) ==
  deadlineBudget[e] > 0 /\ deadlineBudget' = [deadlineBudget EXCEPT ![e] = @ - 1]

HasColumn == deadlineBudget["column"] = 1

Idle(h) == handlers[h].pc = "idle"
Goes(h, pc) == handlers' = [handlers EXCEPT ![h].pc = pc]

\* A check has asked for the course it computes with; it has selected
\* submissions; it has begun its transaction, on which queries wait.
Fetching(k) == handlers[k].pc \in {"data", "select", "schedules", "rows"}
Computing(k) == handlers[k].then = "rows" /\ ~Idle(k)
Committing(k) == handlers[k].pc = "schedules" /\ handlers[k].todo = {}
CanQuery == \A k \in Checks : ~Committing(k)

\* History: what happens may be missed by the checks that Behind says.
Misses(Behind(_), subs) ==
  [h \in Handlers |-> IF h \in Checks /\ Behind(h)
                      THEN [handlers[h] EXCEPT !.missed = @ \cup subs] ELSE handlers[h]]

-----------------------------------------------------------------------------
(* getCourseData *)

GetCourseData(h, then) ==
  /\ handlers' = [handlers EXCEPT ![h].pc = "data", ![h].then = then, ![h].cached = copy]
  /\ Request(h, "course", copy.stamp)

\* The copy the call began with is used if it has not changed.
GotCourseData(h) ==
  /\ handlers[h].pc = "data" /\ Answered(h) /\ Answer(h).status \in {"same", "data"}
  /\ LET a == Answer(h)
         item == IF a.status = "same" THEN handlers[h].cached
                 ELSE [data |-> a.data, stamp |-> a.modified, doubtful |-> a.doubtful] IN
     /\ copy' = IF a.status = "data" THEN item ELSE copy
     /\ handlers' = [handlers EXCEPT ![h].pc = handlers[h].then,
                       ![h].course = IF handlers[h].then = "rows" THEN @ ELSE item]
  /\ TakeAnswer(h)
  /\ UNCHANGED <<tables, timer, lastModified, excused, deadlineBudget>>

-----------------------------------------------------------------------------
(* checkForDirtyCourses *)

\* Of those that may begin, which one is immaterial.
CheckForDirtyCourses(k) ==
  /\ deadlineBudget["checks"] > 0 /\ CanQuery
  /\ Idle(k) /\ k = CHOOSE j \in Checks : Idle(j)
  /\ \/ \A j \in Checks : Idle(j)
     \/ timer = "yes" /\ deadlineBudget["checks"] > 1
  /\ handlers' = [handlers EXCEPT ![k] = [NoHandler EXCEPT !.pc = "modified", !.need = dirty]]
  /\ Request(k, "course", lastModified)
  /\ UNCHANGED <<tables, timer, lastModified, copy, excused, deadlineBudget>>

\* Mutant: the flag of the course is not looked at.
CourseIsModifiedOnly(k) ==
  /\ handlers[k].pc = "modified" /\ Answered(k)
  /\ lastModified' = IF Answer(k).status = "error" THEN lastModified ELSE Answer(k).modified
  /\ Goes(k, IF Answer(k).status = "data" THEN "update" ELSE "idle")
  /\ timer' = IF Answer(k).status = "data" THEN timer ELSE "yes"
  /\ TakeAnswer(k)
  /\ UNCHANGED <<tables, copy, excused, deadlineBudget>>

\* isCourseDataModified returns: the new time is remembered at once, and an
\* error is taken for no change.  Other checks may compute with what is older.
CourseIsModified(k) ==
  /\ handlers[k].pc = "modified" /\ Answered(k)
  /\ LET a == Answer(k)
         Older(j) == j # k /\ Fetching(j) /\ a.status = "data" IN
     /\ lastModified' = IF a.status = "error" THEN lastModified ELSE a.modified
     /\ IF a.status = "data" \/ handlers[k].need = "yes"
        THEN handlers' = [Misses(Older, Submissions) EXCEPT ![k].pc = "update"] /\ UNCHANGED timer
        ELSE Goes(k, "idle") /\ timer' = "yes"
  /\ TakeAnswer(k)
  /\ UNCHANGED <<tables, copy, excused, deadlineBudget>>

UpdateCourseSubmissions(k) ==
  /\ handlers[k].pc = "update" /\ GetCourseData(k, "select")
  /\ UNCHANGED <<tables, timer, lastModified, copy, excused, deadlineBudget>>

\* Mutant: only those without deadlines are selected.
SelectNewSubmissions(k) ==
  /\ handlers[k].pc = "select" /\ CanQuery
  /\ handlers' = [handlers EXCEPT ![k].pc = "schedules", ![k].then = "rows",
                    ![k].todo = {s \in submitted : deadlines[s] = NoRow}]
  /\ UNCHANGED <<calls, tables, timer, lastModified, copy, excused, deadlineBudget>>

SelectSubmissions(k) ==
  /\ handlers[k].pc = "select" /\ CanQuery
  /\ handlers' = [handlers EXCEPT ![k].pc = "schedules", ![k].then = "rows", ![k].todo = submitted]
  /\ UNCHANGED <<calls, tables, timer, lastModified, copy, excused, deadlineBudget>>

\* getLessonSchedules, for the user of one submission after the other.
GetLessonSchedules(h) ==
  /\ handlers[h].pc = "schedules" /\ handlers[h].todo # {}
  /\ GetCourseData(h, "rows")
  /\ UNCHANGED <<tables, timer, lastModified, copy, excused, deadlineBudget>>

\* A query of the schedule that fails is taken for an empty schedule.
ReadLessonSchedules(h) ==
  /\ handlers[h].pc = "rows" /\ CanQuery
  /\ \E s \in handlers[h].todo, version \in {0, schedule} :
       LET row == [data |-> handlers[h].course.data, doubtful |-> handlers[h].course.doubtful,
                   schedule |-> version] IN
       /\ handlers' = [handlers EXCEPT
            ![h].pc = IF h \in Checks THEN "schedules" ELSE "insert",
            ![h].todo = @ \ {s},
            ![h].rows = [t \in DOMAIN @ \cup {s} |-> IF t = s THEN row ELSE @[t]],
            ![h].missed = IF version = 0 THEN @ \cup {s} ELSE @]
       /\ IF version = 0 THEN DeadlinesPay("fail") ELSE UNCHANGED deadlineBudget
  /\ UNCHANGED <<calls, tables, timer, lastModified, copy, excused>>

\* The transaction deletes, inserts and resets the flag.
CommitDeadlines(k) ==
  /\ Committing(k) /\ HasColumn
  /\ LET rows == handlers[k].rows IN
     deadlines' = [s \in Submissions |-> IF s \in DOMAIN rows THEN rows[s] ELSE NoRow]
  /\ dirty' = "no" /\ timer' = "yes"
  /\ excused' = handlers[k].missed
  /\ handlers' = [handlers EXCEPT ![k] = NoHandler]
  /\ UNCHANGED <<calls, schedule, submitted, lastModified, copy, deadlineBudget>>

-----------------------------------------------------------------------------
(* insertNewSubmission *)

\* submitProblemSolution inserts the row and calls; which row is immaterial.
SubmitProblemSolution(s) ==
  /\ submitted # Submissions /\ s = CHOOSE r \in Submissions \ submitted : TRUE
  /\ DeadlinesPay("submit")
  /\ submitted' = submitted \cup {s}
  /\ handlers' = [Misses(Computing, {s}) EXCEPT
                    ![s] = [NoHandler EXCEPT !.pc = "data", !.then = "schedules",
                              !.cached = copy, !.todo = {s}]]
  /\ Request(s, "course", copy.stamp)
  /\ UNCHANGED <<dirty, schedule, deadlines, timer, lastModified, copy, excused>>

\* A row that is there already stays; the error is caught.
InsertDeadlines(s) ==
  /\ handlers[s].pc = "insert" /\ CanQuery /\ HasColumn
  /\ deadlines' = [deadlines EXCEPT ![s] = IF @ = NoRow THEN handlers[s].rows[s] ELSE @]
  /\ handlers' = [handlers EXCEPT ![s] = NoHandler]
  /\ excused' = excused \cup handlers[s].missed
  /\ UNCHANGED <<calls, dirty, schedule, submitted, timer, lastModified, copy, deadlineBudget>>

\* getCourseData throws: the call fails, and the submission stays.  So it does
\* if the row cannot be inserted, an error that is caught.
InsertFails(s) ==
  /\ \/ /\ handlers[s].pc = "data" /\ Answered(s) /\ Answer(s).status = "error"
        /\ TakeAnswer(s) /\ UNCHANGED deadlineBudget
     \/ /\ handlers[s].pc = "insert" /\ CanQuery /\ UNCHANGED calls
        /\ IF HasColumn THEN DeadlinesPay("fail") ELSE UNCHANGED deadlineBudget
  /\ handlers' = [handlers EXCEPT ![s] = NoHandler]
  /\ excused' = excused \cup {s}
  /\ UNCHANGED <<tables, timer, lastModified, copy>>

-----------------------------------------------------------------------------
(* Failures, and other users of the tables *)

\* The process ends and is started again; the calls under way fail.
Restart ==
  /\ calls' = [c \in Clients |-> IF c \in Handlers THEN NoCall ELSE calls[c]]
  /\ handlers' = [h \in Handlers |-> NoHandler]
  /\ timer' = "no" /\ lastModified' = 0 /\ copy' = NoCopy
  /\ excused' = excused \cup {s \in Submissions : ~Idle(s)}
  /\ UNCHANGED tables

\* An error in a check or in its transaction is caught by nobody.
CheckThrows(k) ==
  /\ \/ handlers[k].pc = "data" /\ Answered(k) /\ Answer(k).status = "error"
     \/ Committing(k) /\ ~HasColumn
  /\ Restart /\ UNCHANGED deadlineBudget

ServiceDies == deadlineBudget["checks"] > 0 /\ DeadlinesPay("fail") /\ Restart

\* mark_course_deadlines_dirty
ChangeSchedule ==
  /\ DeadlinesPay("schedule")
  /\ schedule' = schedule + 1 /\ dirty' = "yes"
  /\ handlers' = Misses(Computing, Submissions)
  /\ UNCHANGED <<calls, submitted, deadlines, timer, lastModified, copy, excused>>

CheckNext(k) ==
  \/ CheckForDirtyCourses(k) \/ CourseIsModified(k) \/ UpdateCourseSubmissions(k)
  \/ SelectSubmissions(k) \/ CommitDeadlines(k) \/ CheckThrows(k)
  \/ GotCourseData(k) \/ GetLessonSchedules(k) \/ ReadLessonSchedules(k)

InsertNext(s) ==
  \/ SubmitProblemSolution(s) \/ InsertDeadlines(s) \/ InsertFails(s)
  \/ GotCourseData(s) \/ GetLessonSchedules(s) \/ ReadLessonSchedules(s)

DeadlinesNext ==
  \/ ServiceDies \/ ChangeSchedule
  \/ \E k \in Checks : CheckNext(k)
  \/ \E s \in Submissions : InsertNext(s)

-----------------------------------------------------------------------------
(* Properties *)

DeadlinesTypeOK ==
  /\ dirty \in {"no", "yes"} /\ timer \in {"no", "yes"} /\ schedule \in Nat \ {0}
  /\ submitted \subseteq Submissions /\ excused \subseteq Submissions
  /\ \A s \in Submissions : deadlines[s].schedule \in 0..schedule

\* Changes of these parts that the data lack are found by the next look at the
\* time of modification.
WillBeSeen(parts, data, stamp) ==
  \A p \in parts : data[p] < disk[FileOf(p)] => disk[FileOf(p)] > stamp

\* If the table has the column the statements name: once the service has
\* looked at the course, and while it does nothing and the course is not
\* marked, every submission has deadlines, computed from the schedule as it is
\* and from a course of which it will see any change; whatever failed, and
\* however calls, edits and overlapping checks met.  Excused are submissions
\* that came, and those there were when the schedule changed or another check
\* found a newer course, after the recomputation that committed last had begun;
\* calls and queries that failed; and rows from a copy with a doubtful time.
DeadlinesAreCurrent ==
  HasColumn /\ (\A h \in Handlers : Idle(h)) /\ dirty = "no" /\ lastModified # 0 =>
    \A s \in submitted \ excused :
      /\ deadlines[s].schedule = schedule
      /\ deadlines[s].doubtful = "yes" \/ WillBeSeen({"course"}, deadlines[s].data, lastModified)

\* A course that is marked is recomputed in the end, whatever failed and
\* however often the service died over it, unless its files stay broken or the
\* table lacks the column.
DirtyIsServed ==
  dirty = "yes" /\ broken = {} /\ HasColumn ~> dirty = "no" \/ broken # {}
=============================================================================
