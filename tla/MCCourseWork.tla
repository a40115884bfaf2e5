----------------------------- MODULE MCCourseWork -----------------------------
(* Instances of CourseWork for TLC; what hardly meets is looked at in      *)
(* scenarios of their own, so that each can be larger.                     *)
EXTENDS CourseWork, TLC

On(line, text) == [line |-> line, text |-> text]
Says(globalComment, lines) == [globalComment |-> globalComment, lines |-> lines]

SomeContents ==
  {Says("good", {}), Says("bad", {On(1, "why?"), On(2, "why?")}),
   Says("bad", {On(1, "why?"), On(2, "how?")})}

\* Edits of these files, once each.
Content(edits, spoil, expire) ==
  [e \in ContentEvents |-> CASE e \in edits -> 1 [] e = "spoil" -> spoil [] e = "expire" -> expire
                             [] OTHER -> 0]
Deadline(submit, change, fail, checks) ==
  [submit |-> submit, schedule |-> change, fail |-> fail, checks |-> checks, column |-> 1]
Loader(grade, compile, die) == [grade |-> grade, compile |-> compile, die |-> die]
Review(apply, error) == [apply |-> apply, error |-> error]

Nothing ==
  [content |-> Content({}, 0, 0), deadlines |-> Deadline(0, 0, 0, 0), loader |-> Loader(0, 0, 0),
   review |-> Review(0, 0), submitted |-> {}]

\* The course is edited, spoilt and mended, and the schedule changes.
CourseEdited ==
  [Nothing EXCEPT !.content = Content({"course"}, 1, 1), !.deadlines = Deadline(0, 1, 0, 1)]

\* The schedule changes while solutions come.
ScheduleChanged == [Nothing EXCEPT !.deadlines = Deadline(2, 1, 0, 1)]

\* Several files are edited.
FilesEdited ==
  [Nothing EXCEPT !.content = Content({"course", "template"}, 0, 2), !.deadlines = Deadline(0, 0, 0, 1)]

\* Checks overlap while a solution comes and queries fail or the schedule
\* changes, or the course is edited.
ChecksOverlap == [Nothing EXCEPT !.deadlines = Deadline(1, 1, 1, 2)]
OverlapEdited ==
  [Nothing EXCEPT !.content = Content({"course"}, 0, 1), !.deadlines = Deadline(0, 1, 0, 2),
                  !.submitted = {"s1"}]

\* A solution comes while the course is edited.
CourseSubmitted ==
  [Nothing EXCEPT !.content = Content({"course"}, 0, 1), !.deadlines = Deadline(1, 0, 0, 1)]

\* The table of the schema in the repository.
NoColumn ==
  [Nothing EXCEPT !.content = Content({"course"}, 0, 0),
                  !.deadlines = [Deadline(1, 1, 0, 2) EXCEPT !.column = 0]]

\* Solutions are graded while the problem is edited and loads fail.
Graded == [Nothing EXCEPT !.content = Content({"problem", "tests"}, 0, 1), !.loader = Loader(2, 1, 1)]

\* The same with other files.
GradedAgain ==
  [Nothing EXCEPT !.content = Content({"template", "tests"}, 0, 1), !.loader = Loader(2, 0, 1)]

\* A grader and the deadlines service look at the course.
GradedAndComputed ==
  [Nothing EXCEPT !.content = Content({"problem"}, 0, 1), !.deadlines = Deadline(0, 0, 0, 1),
                  !.loader = Loader(1, 0, 0)]

\* Queries fail, also over a solution, with the schedule as it was.
CheckFails ==
  [Nothing EXCEPT !.content = Content({"course"}, 0, 0), !.deadlines = Deadline(1, 0, 2, 1)]

\* Teachers apply reviews, at the same time or one after the other.
ReviewsApplied == [Nothing EXCEPT !.review = Review(3, 1)]

AllScenarios ==
  {CourseEdited, ScheduleChanged, CourseSubmitted, FilesEdited, ChecksOverlap, OverlapEdited, NoColumn,
   Graded, GradedAgain, GradedAndComputed, CheckFails, ReviewsApplied}
=============================================================================
