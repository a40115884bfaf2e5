---------------------------- MODULE CourseContent ----------------------------
(***************************************************************************)
(* The content service: course_loader.dart and content_service.dart.  It   *)
(* keeps a course and its problems as loaded from files, loads them again  *)
(* when it last did so ten seconds ago, and answers a request, which has   *)
(* the time stamp of the copy the client has, with the data or with the    *)
(* news that they have not changed.                                        *)
(*                                                                         *)
(* There is one course with one problem, which is also a part of the data  *)
(* of the course.  A handler awaits nothing: requests are worked on one    *)
(* after the other, but files may be edited meanwhile.  What was read of a *)
(* file is known by the time of its modification, 0 if it was not read.    *)
(*                                                                         *)
(* Files are kinds of files, by the times they raise and the order they    *)
(* are read in: "course" is the YAML of course, sections and lessons, and  *)
(* the readings; "problem" is problem.yaml, private files and sources of   *)
(* programs, "template" the template of solutions, public files and styles *)
(* of code, "tests" the tests.  The time of a statement is never read, and *)
(* that of a template does not count as one of the problem.                *)
(***************************************************************************)
EXTENDS Integers, Sequences

CONSTANT Clients   \* what sends requests, each one at a time

Files == {"course", "problem", "template", "tests"}
YamlFiles == {"course", "problem"}

\* What is read of them: problem.yaml is read twice, for its "options" again.
Parts == Files \cup {"options"}
FileOf(p) == IF p = "options" THEN "problem" ELSE p

\* An edit of each of the files; "spoil", one that leaves what is not YAML; and
\* "expire", ten seconds have passed since the last loads.
ContentEvents == Files \cup {"spoil", "expire"}

VARIABLES
  disk,          \* the modification time of each file
  broken,        \* files that cannot be parsed
  course,        \* courseCache
  problem,       \* the item of problemsCache
  serving,       \* the request that is worked on
  calls,         \* the request and the answer of each client
  contentBudget  \* bound: how often each kind of event may still happen

caches == <<course, problem>>
contentFiles == <<disk, broken>>
contentVars == <<contentFiles, caches, serving, calls, contentBudget>>

Null == -1
Unread == [p \in Parts |-> 0]

\* Fields data, lastModified, lastChecked and loadError.  History: the time is
\* doubtful, newer than changes that the data lack, if it was raised by a load
\* of the problem alone; if several edits came during a load; or if one came
\* to a file whose content was read while its time was still to be.
NoItem == [data |-> Unread, modified |-> Null, checked |-> "never", error |-> "no",
           doubtful |-> "no"]

NoAnswer == [status |-> "none", data |-> Unread, modified |-> 0, doubtful |-> "no"]
NoCall == [pc |-> "none", what |-> "course", stamp |-> 0, answer |-> NoAnswer]
NotServing == [pc |-> "none", client |-> "", what |-> "course", stamp |-> 0,
               loaded |-> "no", todo |-> <<>>, edits |-> 0, part |-> Unread,
               answer |-> NoAnswer]

ContentInit ==
  /\ disk = [f \in Files |-> 1] /\ broken = {}
  /\ course = NoItem /\ problem = NoItem
  /\ serving = NotServing /\ calls = [c \in Clients |-> NoCall]

ContentPays(e) ==
  contentBudget[e] > 0 /\ contentBudget' = [contentBudget EXCEPT ![e] = @ - 1]

Latest(s, t) == IF s > t THEN s ELSE t

LastEdit == Latest(Latest(disk["course"], disk["problem"]), Latest(disk["template"], disk["tests"]))

StillToDo(step) == \E n \in DOMAIN serving.todo : serving.todo[n] = step

\* Content of f was read by the load under way, its time is still to be.
HalfRead(f) ==
  /\ StillToDo(<<"time", f>>)
  /\ \E p \in Parts : FileOf(p) = f /\ ~StillToDo(<<"content", p>>)

\* Each edit has a time of its own.
Edit(f) ==
  /\ disk' = [disk EXCEPT ![f] = 1 + LastEdit]
  /\ \/ ContentPays(f) /\ broken' = broken \ {f}
     \/ f \in YamlFiles /\ ContentPays("spoil") /\ broken' = broken \cup {f}
  /\ serving' = [serving EXCEPT !.edits = IF serving.todo = <<>> THEN 0
                                          ELSE @ + (IF HalfRead(f) THEN 2 ELSE 1)]
  /\ UNCHANGED <<caches, calls>>

Expired(item) == [item EXCEPT !.checked = IF @ = "fresh" THEN "expired" ELSE @]

Expire ==
  /\ ContentPays("expire")
  /\ course' = Expired(course) /\ problem' = Expired(problem)
  /\ UNCHANGED <<contentFiles, serving, calls>>

-----------------------------------------------------------------------------
(* Requests *)

\* A client that died and sends again does so after its old request is done.
Request(c, what, stamp) ==
  /\ serving.client # c
  /\ calls' = [calls EXCEPT ![c] = [NoCall EXCEPT !.pc = "sent", !.what = what, !.stamp = stamp]]

\* The answer to c is there, and is taken.
Answered(c) == calls[c].pc = "answered"
Answer(c) == calls[c].answer
TakeAnswer(c) == calls' = [calls EXCEPT ![c] = NoCall]

Take(c) ==
  /\ serving.pc = "none" /\ calls[c].pc = "sent"
  /\ serving' = [NotServing EXCEPT !.pc = "modified", !.client = c,
                 !.what = calls[c].what, !.stamp = calls[c].stamp]
  /\ UNCHANGED <<contentFiles, caches, calls, contentBudget>>

What == serving.what
Item == IF What = "course" THEN course ELSE problem

\* requiresToReloadCourse and requiresToReloadProblem
RequiresToReload(item) ==
  item.checked # "fresh" \/ item.data = Unread \/ item.error = "yes"

\* A place of the handler is left when nothing has to be loaded, or it was.
Loaded(place, item) ==
  /\ serving.todo = <<>>
  /\ serving.pc = place /\ (serving.loaded = "yes" \/ ~RequiresToReload(item))

\* Nobody hears the answer to a client that died.
AnswerWith(answer) ==
  /\ calls' = [calls EXCEPT ![serving.client] =
                 IF @.pc = "sent" THEN [@ EXCEPT !.pc = "answered", !.answer = answer] ELSE @]
  /\ serving' = NotServing

GoOn(place, answer) ==
  /\ serving' = [serving EXCEPT !.pc = place, !.loaded = "no", !.answer = answer]
  /\ UNCHANGED calls

\* A copy that is not older is not sent.
CompareModified ==
  /\ Loaded("modified", Item)
  /\ LET answer == [NoAnswer EXCEPT !.modified = Item.modified, !.doubtful = Item.doubtful] IN
     IF Item.modified > serving.stamp
     THEN GoOn("course", answer)
     ELSE AnswerWith([answer EXCEPT !.status = "same"])
  /\ UNCHANGED <<contentFiles, caches, contentBudget>>

\* cleanPrivateContent
Public(data) == [data EXCEPT !["tests"] = 0]

\* getCoursePublicContent ends with the data of the course, and
\* getProblemFullContent goes on, with the limits they have, to the problem.
UseCourseData ==
  /\ Loaded("course", course)
  /\ IF What = "course"
     THEN AnswerWith([serving.answer EXCEPT !.status = "data", !.data = Public(course.data)])
     ELSE GoOn("problem", serving.answer)
  /\ UNCHANGED <<contentFiles, caches, contentBudget>>

UseProblemData ==
  /\ Loaded("problem", problem)
  /\ AnswerWith([serving.answer EXCEPT !.status = "data", !.data = problem.data])
  /\ UNCHANGED <<contentFiles, caches, contentBudget>>

-----------------------------------------------------------------------------
(* Loads *)

TimeFirst(p) == <<<<"time", FileOf(p)>>, <<"content", p>>>>
ContentFirst(p) == <<<<"content", p>>, <<"time", FileOf(p)>>>>

\* Templates and tests are read before their times, all else after them.
Reads(p) == IF p \in {"template", "tests"} THEN ContentFirst(p) ELSE TimeFirst(p)

ProblemReads == Reads("problem") \o Reads("template") \o Reads("options") \o Reads("tests")
CourseSteps == Reads("course") \o ProblemReads \o <<<<"end", "course">>>>
ProblemSteps == ProblemReads \o <<<<"end", "problem">>>>

NotLoaded == serving.todo = <<>> /\ serving.loaded = "no"
WantsCourse == serving.pc = "course" \/ (serving.pc = "modified" /\ What = "course")

\* loadCourse
LoadCourse ==
  /\ NotLoaded /\ WantsCourse /\ RequiresToReload(course)
  /\ course' = [course EXCEPT !.modified = 0, !.doubtful = "no"]
  /\ serving' = [serving EXCEPT !.todo = CourseSteps, !.part = Unread]
  /\ UNCHANGED <<contentFiles, problem, calls, contentBudget>>

\* problemLastModified and problemData put an empty item in the cache first;
\* the first of them takes it for checked already.
LoadProblem ==
  /\ NotLoaded /\ RequiresToReload(problem)
  /\ serving.pc = "problem" \/ (serving.pc = "modified" /\ What = "problem")
  /\ problem' = IF serving.pc = "problem" THEN NoItem
                ELSE [NoItem EXCEPT !.modified = 0, !.checked = "fresh"]
  /\ serving' = [serving EXCEPT !.todo = ProblemSteps, !.part = Unread]
  /\ UNCHANGED <<contentFiles, course, calls, contentBudget>>

Step == Head(serving.todo)
StepDone(part) == serving' = [serving EXCEPT !.todo = Tail(@), !.part = part]

\* updateCourseLastModified, which a load of the problem alone calls too, and
\* updateProblemLastModifiedFromFile.  A load of the course empties the item of
\* the problem: its time is not asked for before the next load of it.
RaiseTimes(times) ==
  /\ serving.todo # <<>> /\ Step[1] = "time"
  /\ LET f == Step[2]
         t == times[f] IN
     /\ course' = IF f = "tests" \/ course.modified = Null THEN course
                  ELSE [course EXCEPT !.modified = Latest(@, t),
                          !.doubtful = IF ~WantsCourse /\ t > course.modified THEN "yes" ELSE @]
     /\ problem' = IF f \notin {"problem", "tests"} THEN problem
                   ELSE IF WantsCourse THEN NoItem
                   ELSE [problem EXCEPT !.modified = Latest(@, t)]
  /\ StepDone(serving.part)
  /\ UNCHANGED <<contentFiles, calls, contentBudget>>

\* Mutant: the time taken is that of the reading.
ReadTimeNow == RaiseTimes([f \in Files |-> LastEdit])

ReadTime == RaiseTimes(disk)

\* The data of the course are replaced before those of its problems are read.
ReadContent ==
  /\ serving.todo # <<>> /\ Step[1] = "content" /\ FileOf(Step[2]) \notin broken
  /\ LET part == [serving.part EXCEPT ![Step[2]] = disk[FileOf(Step[2])]] IN
     /\ course' = IF Step[2] = "course" THEN [course EXCEPT !.data = part] ELSE course
     /\ StepDone(part)
  /\ UNCHANGED <<contentFiles, problem, calls, contentBudget>>

LoadEnds ==
  /\ serving.todo # <<>> /\ Step[1] = "end"
  /\ LET doubtful == IF serving.edits > 1 THEN "yes" ELSE "no" IN
     IF WantsCourse
     THEN /\ course' = [course EXCEPT !.data = serving.part, !.checked = "fresh", !.error = "no",
                           !.doubtful = doubtful]
          /\ UNCHANGED problem
     ELSE /\ problem' = [problem EXCEPT !.data = serving.part, !.doubtful = doubtful,
                           !.checked = IF serving.pc = "problem" THEN "fresh" ELSE @]
          /\ UNCHANGED course
  /\ serving' = [serving EXCEPT !.todo = <<>>, !.loaded = "yes", !.edits = 0]
  /\ UNCHANGED <<contentFiles, calls, contentBudget>>

\* courseLastModified and problemLastModified record the error, courseData
\* and problemData do not.
LoadThrows ==
  /\ serving.todo # <<>> /\ Step[1] = "content" /\ FileOf(Step[2]) \in broken
  /\ course' = IF serving.pc = "modified" /\ WantsCourse
               THEN [course EXCEPT !.error = "yes"] ELSE course
  /\ problem' = IF serving.pc = "modified" /\ ~WantsCourse
                THEN [problem EXCEPT !.error = "yes"] ELSE problem
  /\ AnswerWith([NoAnswer EXCEPT !.status = "error"])
  /\ UNCHANGED <<contentFiles, contentBudget>>

Serve ==
  \/ \E c \in Clients : Take(c)
  \/ CompareModified \/ UseCourseData \/ UseProblemData
  \/ LoadCourse \/ LoadProblem \/ ReadTime \/ ReadContent \/ LoadEnds \/ LoadThrows

ContentTypeOK ==
  /\ disk \in [Files -> Nat] /\ broken \subseteq YamlFiles
  /\ \A item \in {course, problem} :
       /\ item.modified \in Nat \cup {Null}
       /\ item.checked \in {"never", "fresh", "expired"}
       /\ \A p \in Parts : item.data[p] \in 0..disk[FileOf(p)]
  /\ \A c \in Clients : calls[c].answer.status \in {"none", "same", "data", "error"}
=============================================================================
